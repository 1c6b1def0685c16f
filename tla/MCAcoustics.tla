---------------------------- MODULE MCAcoustics ----------------------------
(***************************************************************************)
(* PhoneFeatures, Durations and Smoothing for TLC: all sentences of a few   *)
(* syllables (MCPhoneFeatures), and all paths of a few frames, each frame   *)
(* with one of some distributions, against what they are meant to become.   *)
(***************************************************************************)
EXTENDS MCPhoneFeatures

CONSTANT MaxFrames    \* of a path

VARIABLE path         \* the distributions of the frames so far

SM == INSTANCE Smoothing WITH WordBits <- 32

\* As it is stored: two coefficients, means of differences only where they are
\* not 0.  In the third, rows of the matrix are too small to be inverted.
Big == 12
MeanPow == 2
InvPow == 24          \* PICOCEP_MGCINVPOW
Order == 2
Ivar(static, delta, delta2) == [STATIC |-> static, DELTA |-> delta, DELTA2 |-> delta2]
Sparse(ind, mean) == [ind |-> ind, mean |-> mean]
Distributions ==
    << [mean |-> [c \in 0 .. 1 |-> IF c = 0 THEN 2000 ELSE 35], sparse |-> <<Sparse(0, 130), Sparse(2, -240)>>,
        ivar |-> [c \in 0 .. 1 |-> IF c = 0 THEN Ivar(900, 500, 200) ELSE Ivar(33, 6, 5)]],
       [mean |-> [c \in 0 .. 1 |-> IF c = 0 THEN -900 ELSE 70], sparse |-> <<Sparse(1, 9), Sparse(3, 11)>>,
        ivar |-> [c \in 0 .. 1 |-> IF c = 0 THEN Ivar(700, 300, 900) ELSE Ivar(50, 90, 10)]],
       [mean |-> [c \in 0 .. 1 |-> IF c = 0 THEN 300 ELSE -20], sparse |-> <<>>,
        ivar |-> [c \in 0 .. 1 |-> IF c = 0 THEN Ivar(400, 0, 1000) ELSE Ivar(37, 0, 21)]] >>

Extend == /\ fed = <<>> /\ Len(path) < MaxFrames
          /\ \E v \in DOMAIN Distributions : path' = Append(path, v)
          /\ UNCHANGED <<pass, pam, fed>>

\* A sentence ends after any frame, and the next one begins anew.
Smoothed == path # <<>> /\ path' = <<>> /\ UNCHANGED <<pass, pam, fed>>

AcousticsInit == Init /\ path = <<>>
AcousticsNext == \/ Extend \/ Smoothed
                 \/ path = <<>> /\ Next /\ UNCHANGED path
AcousticsSpec == AcousticsInit /\ [][AcousticsNext]_<<pass, pam, fed, path>>

-----------------------------------------------------------------------------
\* The mean of the kth difference, the first ones before the second ones.
Difference(v, k) ==
    LET sparse == Distributions[v].sparse
        Given == {i \in DOMAIN sparse : sparse[i].ind = k}
    IN  IF Given = {} THEN 0 ELSE sparse[CHOOSE i \in Given : TRUE].mean
Mean(v, c, which) == CASE which = "STATIC" -> Distributions[v].mean[c]
                       [] which = "DELTA"  -> Difference(v, c)
                       [] which = "DELTA2" -> Difference(v, Order + c)

\* What is looked up in the vectors as they are, and in vectors with all means.
Kinds == {"STATIC", "DELTA", "DELTA2"}
Dense(v) == [mean |-> Distributions[v].mean, deltas |-> [k \in 0 .. 2 * Order - 1 |-> Difference(v, k)]]
Pdf(c, dense) ==
    [v \in DOMAIN Distributions |->
        [mean |-> [k \in Kinds |-> IF dense THEN SM!DenseMean(Dense(v), Order, c, k)
                                   ELSE SM!SparseMean(Distributions[v], Order, c, k)],
         ivar |-> Distributions[v].ivar[c]]]

\* The sum to make small: how far frames and their differences are from their
\* means, each weighted by its inverse variance.  A frame in the middle has
\* differences to its neighbours.  Four times its derivative by frame i and four
\* times the second one; means are given weighted.
Middle == 1 .. Len(path) - 2
Slope(x, c, i) ==
    LET big == 2 ^ Big
        ivar(k, which) == Distributions[path[k + 1]].ivar[c][which]
        mean(k, which) == Mean(path[k + 1], c, which)
        At1(k) == ivar(k, "DELTA") * (x[k + 1] - x[k - 1]) - 2 * big * mean(k, "DELTA")
        At2(k) == ivar(k, "DELTA2") * (x[k + 1] - 2 * x[k] + x[k - 1]) - big * mean(k, "DELTA2")
    IN  4 * (ivar(i, "STATIC") * x[i] - big * mean(i, "STATIC"))
        + (IF i - 1 \in Middle THEN At1(i - 1) + 4 * At2(i - 1) ELSE 0)
        + (IF i + 1 \in Middle THEN 4 * At2(i + 1) - At1(i + 1) ELSE 0)
        - (IF i \in Middle THEN 8 * At2(i) ELSE 0)
Curve(c, i) ==
    LET ivar(k, which) == Distributions[path[k + 1]].ivar[c][which]
    IN  4 * ivar(i, "STATIC")
        + (IF i - 1 \in Middle THEN ivar(i - 1, "DELTA") + 4 * ivar(i - 1, "DELTA2") ELSE 0)
        + (IF i + 1 \in Middle THEN ivar(i + 1, "DELTA") + 4 * ivar(i + 1, "DELTA2") ELSE 0)
        + (IF i \in Middle THEN 16 * ivar(i, "DELTA2") ELSE 0)

\* Smoothed frames are the best path, as near as whole numbers come: none can be
\* moved by more than a few units to lessen the sum.  The units are those of the
\* inside of the solver: an error of 8 in the result (which is cut by 4), and one
\* of 4 in the weighted means (rounded).  The frames of a path that is too short
\* are at their own means.
SmoothedAsMeant ==
    LET N == Len(path)
        big == 2 ^ Big
    IN  \A c \in 0 .. 1, dense \in BOOLEAN :
            LET cep == SM!SmoothedPath(Pdf(c, dense), [k \in 0 .. N - 1 |-> path[k + 1]], N,
                                       Big, InvPow, FALSE, MeanPow)
                x == [k \in 0 .. N - 1 |-> cep[k] * 2 ^ MeanPow]
            IN  \A i \in 0 .. N - 1 :
                    IF N > 3
                    THEN SM!Abs(Slope(x, c, i)) =< 8 * Curve(c, i) + 4 * 4 * big
                    ELSE LET ivar == Distributions[path[i + 1]].ivar[c]["STATIC"]
                         IN  SM!Abs(ivar * x[i] - big * Mean(path[i + 1], c, "STATIC"))
                                 =< ivar * (2 ^ MeanPow + 1)
=============================================================================
