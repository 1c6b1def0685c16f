----------------------------- MODULE Smoothing -----------------------------
(***************************************************************************)
(* The arithmetic of cepstral smoothing, picocep.c: for each coefficient    *)
(* the path through the frames of a sentence that is most likely under the  *)
(* means and inverse variances of the coefficient itself, of its first and  *)
(* of its second difference.  The normal equations have a band matrix with  *)
(* three diagonals (makeWUWandWUm); invMatrix solves them in fixed point    *)
(* numbers, that is integers that stand for multiples of 1/2^bigpow.        *)
(*                                                                          *)
(* A sentence of less than four frames is not smoothed.                     *)
(***************************************************************************)
EXTENDS Integers, Sequences
LOCAL INSTANCE SequencesExt
LOCAL INSTANCE FiniteSetsExt
LOCAL INSTANCE TLC

CONSTANT WordBits    \* of an integer: 32

\* C's division and right shift of the absolute value: towards zero.
Quo(a, b) == IF a >= 0 THEN a \div b ELSE -((-a) \div b)
Abs(a) == IF a < 0 THEN -a ELSE a

\* picocep_highestBit: the number of bits of the absolute value.
HighestBit(x) == CHOOSE n \in 0 .. 31 : (x = 0 /\ n = 0) \/ (n > 0 /\ Abs(x) \div 2^(n - 1) = 1)

-----------------------------------------------------------------------------
(* Multiplication and division. *)

\* picocep_fixptmultpow: clipped where it does not fit.
MultPow(a, pow) == IF HighestBit(a) + pow < WordBits THEN a * 2^pow
                   ELSE IF a > 0 THEN 2^(WordBits - 2) - 1 + 2^(WordBits - 2)
                   ELSE -(2^(WordBits - 2)) - 2^(WordBits - 2)

\* picocep_fixptdivpow: rounded.
DivPow(a, pow) == IF a = 0 THEN 0 ELSE Quo(a + (IF a > 0 THEN 1 ELSE -1) * 2^(pow - 1), 2^pow)

\* picocep_fixptmultdouble: on halves, for a product that does not fit.
MultDouble(x, y, bigpow, double) ==
    LET big == 2^bigpow
        a == Quo(x, big)   b == x - a * big
        c == Quo(y, big)   d == y - c * big
    IN  IF double THEN a * c + DivPow(a * d + b * c + DivPow(b * d, bigpow), bigpow)
        ELSE a * c * big + (a * d + b * c) + DivPow(b * d, bigpow)

Mult(x, y, bigpow, double) ==
    IF HighestBit(x) + HighestBit(y) =< WordBits - 2
    THEN DivPow(x * y, IF double THEN 2 * bigpow ELSE bigpow)
    ELSE MultDouble(x, y, bigpow, double)

\* The digits behind the point, from bit n down to bit 1; the last one is rounded.
Digits[s \in [c : Int, r : Int, b : Int, n : Int]] ==
    IF s.n > 0 /\ s.r # 0
    THEN Digits[[c |-> IF s.r >= s.b THEN s.c + 2^s.n ELSE s.c,
                 r |-> 2 * (IF s.r >= s.b THEN s.r - s.b ELSE s.r),
                 b |-> s.b, n |-> s.n - 1]]
    ELSE LET f == s.r + s.b \div 2
         IN  IF s.r = 0 \/ f < s.b THEN s.c ELSE IF f >= 2 * s.b THEN s.c + 2 ELSE s.c + 1

\* picocep_fixptdiv and the long division of picocep_fixptInvDiagEle.
LongDiv(r, b, bigpow) ==
    Digits[[c |-> (r \div b) * 2^bigpow, r |-> 2 * (r % b), b |-> b, n |-> bigpow - 1]]
FixptDiv(a, b, bigpow) ==
    IF a = 0 THEN 0 ELSE (IF a < 0 THEN -1 ELSE 1) * LongDiv(Abs(a), b, bigpow)

\* picocep_fixptInvDiagEle: 1/d, after d was scaled by 2^RowScale if it is too small.
RowScale(d, bigpow, invpow) ==
    IF invpow + bigpow > WordBits - 2 + HighestBit(d) THEN invpow + bigpow - (WordBits - 2) - HighestBit(d) ELSE 0
InvDiagEle(d, bigpow, invpow) == LongDiv(2^invpow, d * 2^RowScale(d, bigpow, invpow), bigpow)

\* picocep_fixptinv: the division by what invb is the inverse of.
MultInv(a, invb, bigpow, invpow, double) ==
    LET c == Mult(a, invb, bigpow, double)
        normpow == IF double THEN 3 * bigpow ELSE bigpow
    IN  IF normpow < invpow THEN DivPow(c, invpow - normpow) ELSE MultPow(c, normpow - invpow)

-----------------------------------------------------------------------------
(* The distributions of a resource: one vector of numbers for each index.   *)
(* Means of differences are stored one by one, or (sparse) only those that  *)
(* are not 0, each with its place among the first, then the second ones.    *)

\* getFromPdf where numdeltas is 0xFF.
DenseMean(v, order, cepnum, which) ==
    CASE which = "STATIC" -> v.mean[cepnum]
      [] which = "DELTA"  -> v.deltas[cepnum]
      [] which = "DELTA2" -> v.deltas[order + cepnum]

\* The search for a first difference goes up, for a second one down, each as
\* long as the places met so far are on its side.
SearchUp[s \in [at : Int, ind : Int, cepnum : Int, sparse : Seq([ind : Int, mean : Int])]] ==
    IF s.at =< Len(s.sparse) /\ (s.ind < s.cepnum \/ (s.ind = 0 /\ s.cepnum = 0))
    THEN IF s.sparse[s.at].ind = s.cepnum THEN s.sparse[s.at].mean
         ELSE SearchUp[[s EXCEPT !.at = @ + 1, !.ind = s.sparse[s.at].ind]]
    ELSE 0
SearchDown[s \in [at : Int, ind : Int, cepnum : Int, sparse : Seq([ind : Int, mean : Int])]] ==
    IF s.at > 0 /\ s.ind > s.cepnum
    THEN IF s.sparse[s.at].ind = s.cepnum THEN s.sparse[s.at].mean
         ELSE SearchDown[[s EXCEPT !.at = @ - 1, !.ind = s.sparse[s.at].ind]]
    ELSE 0

\* Mutant of SparseMean: the search upwards stops at place 0.
SparseMeanStrict(v, order, cepnum, which) ==
    CASE which = "STATIC" -> v.mean[cepnum]
      [] which = "DELTA"  -> IF cepnum = 0 THEN 0 ELSE
            SearchUp[[at |-> 1, ind |-> 0, cepnum |-> cepnum, sparse |-> v.sparse]]
      [] which = "DELTA2" ->
            SearchDown[[at |-> Len(v.sparse), ind |-> 2 * order, cepnum |-> order + cepnum, sparse |-> v.sparse]]

\* getFromPdf otherwise.
SparseMean(v, order, cepnum, which) ==
    CASE which = "STATIC" -> v.mean[cepnum]
      [] which = "DELTA"  ->
            SearchUp[[at |-> 1, ind |-> 0, cepnum |-> cepnum, sparse |-> v.sparse]]
      [] which = "DELTA2" ->
            SearchDown[[at |-> Len(v.sparse), ind |-> 2 * order, cepnum |-> order + cepnum, sparse |-> v.sparse]]

-----------------------------------------------------------------------------
(* The matrix.  pdf[v].mean and pdf[v].ivar give what getFromPdf returns    *)
(* for one coefficient; indices[i] is the vector of frame i, from 0.        *)

\* initSmoothing and the cases of makeWUWandWUm's first loop: the frames whose
\* first (second) difference frame i takes part in, with twice its factor there.
DeltaTerms(i, N)  == CASE 1 < i /\ i < N - 2 -> {<<i - 1, 1>>, <<i + 1, -1>>}
                       [] i =< 1             -> {<<i + 1, -1>>}
                       [] OTHER              -> {<<i - 1, 1>>}
Delta2Terms(i, N) == CASE 1 < i /\ i < N - 2 -> {<<i - 1, 2>>, <<i, -4>>, <<i + 1, 2>>}
                       [] i = 0              -> {<<1, 2>>}
                       [] i = 1              -> {<<1, -4>>, <<2, 2>>}
                       [] i = N - 2          -> {<<N - 3, 2>>, <<N - 2, -4>>}
                       [] i = N - 1          -> {<<N - 2, 2>>}

\* Mutant of RunOf: what was looked up is not renewed where the index changes.
RunOfFirst(indices, first, i) == indices[first]

\* Where a run of equal indices begins its vector is looked up, and what was
\* found is kept for the frames behind that have the same index.
RunOf(indices, first, i) ==
    indices[CHOOSE k \in first .. i : /\ \A m \in k .. i : indices[m] = indices[k]
                                      /\ k = first \/ indices[k - 1] # indices[k]]

MakeWUW(pdf, indices, N) ==
    LET dIvar(v)  == pdf[v].ivar["DELTA"]     dMean(v)  == pdf[v].mean["DELTA"]
        ddIvar(v) == pdf[v].ivar["DELTA2"]    ddMean(v) == pdf[v].mean["DELTA2"]
        sIvar(v)  == pdf[v].ivar["STATIC"] * 4
        sMean(v)  == pdf[v].mean["STATIC"] * 2
        diag2(v)  == ddIvar(v) - Quo(dIvar(v) + 2, 4)
    IN  [diag0 |-> [i \in 0 .. N - 1 |->
             Quo(sIvar(RunOf(indices, 0, i))
                 + MapThenSumSet(LAMBDA t : t[2] * t[2] * dIvar(indices[t[1]]), DeltaTerms(i, N))
                 + MapThenSumSet(LAMBDA t : t[2] * t[2] * ddIvar(indices[t[1]]), Delta2Terms(i, N)) + 2, 4)],
         WUm |-> [i \in 0 .. N - 1 |->
             Quo(sMean(RunOf(indices, 0, i))
                 + MapThenSumSet(LAMBDA t : t[2] * dMean(indices[t[1]]), DeltaTerms(i, N))
                 + MapThenSumSet(LAMBDA t : t[2] * ddMean(indices[t[1]]), Delta2Terms(i, N)) + 1, 2)],
         diag1 |-> [i \in 0 .. N - 2 |->
             -2 * ((IF i < N - 2 THEN ddIvar(RunOf(indices, 1, i + 1)) ELSE 0)
                   + (IF i > 0 THEN ddIvar(RunOf(indices, 1, i)) ELSE 0))],
         diag2 |-> [i \in 0 .. N - 3 |-> diag2(RunOf(indices, 1, i + 1))]]

\* What is stored: two bytes, with meanpow binary digits less.
Stored(x, meanpow) == LET v == Quo(x, 2^meanpow) % 2^16 IN IF v >= 2^15 THEN v - 2^16 ELSE v

-----------------------------------------------------------------------------
(* invMatrix: factorisation and forward substitution row by row, division   *)
(* by the diagonal, backward substitution.                                  *)

\* The same function, its values worked out once.
Listed(f) == f @@ <<>>

Factorised(m, N, bigpow, invpow, double) ==
    LET mult(x, y) == Mult(x, y, bigpow, double)
        inv(a, d) == MultInv(a, d, bigpow, invpow, double)
        scale(d) == 2^RowScale(d, bigpow, invpow)
        invd(d) == InvDiagEle(d, bigpow, invpow)
        Eliminated(s, j, h, d0, w, sc, invd0) ==
            [diag0 |-> [s.diag0 EXCEPT ![j] = d0],
             WUm   |-> [s.WUm EXCEPT ![j] = w * sc],
             diag1 |-> IF j > N - 2 THEN s.diag1
                       ELSE [s.diag1 EXCEPT ![j] = inv((s.diag1[j] - h) * sc, invd0)],
             diag2 |-> IF j > N - 3 THEN s.diag2
                       ELSE [s.diag2 EXCEPT ![j] = inv(s.diag2[j] * sc, invd0)],
             inv   |-> [s.inv EXCEPT ![j] = invd0],
             sc    |-> [s.sc EXCEPT ![j] = sc]]
        Pivot(s, j, v1, v2) ==
            LET d0 == s.diag0[j] - (IF j > 0 THEN mult(s.diag1[j - 1], v1) ELSE 0)
                                 - (IF j > 1 THEN mult(s.diag2[j - 2], v2) ELSE 0)
                w  == s.WUm[j] - (IF j > 0 THEN mult(s.diag1[j - 1], s.WUm[j - 1]) ELSE 0)
                               - (IF j > 1 THEN mult(s.diag2[j - 2], s.WUm[j - 2]) ELSE 0)
                h  == IF j > 0 /\ j < N - 1 THEN mult(s.diag2[j - 1], v1) ELSE 0
            IN  Eliminated(s, j, h, d0, w, scale(d0), invd(d0))
        Row(s, j) ==
            Pivot(s, j, IF j > 0 THEN mult(Quo(s.diag1[j - 1], s.sc[j - 1]), s.diag0[j - 1]) ELSE 0,
                        IF j > 1 THEN mult(Quo(s.diag2[j - 2], s.sc[j - 2]), s.diag0[j - 2]) ELSE 0)
        none == Listed([j \in 0 .. N - 1 |-> 0])
    IN  FoldLeft(Row, [diag0 |-> Listed(m.diag0), diag1 |-> Listed(m.diag1), diag2 |-> Listed(m.diag2),
                       WUm |-> Listed(m.WUm), inv |-> none, sc |-> none],
                 [j \in 1 .. N |-> j - 1])

\* Mutant of BackSubstituted: the second diagonal is forgotten.
BackSubstitutedOneBand(f, N, bigpow, invpow, double, meanpow) ==
    LET quot(j) == LET q == MultInv(f.WUm[j], f.inv[j], bigpow, invpow, double)
                   IN  IF double THEN DivPow(q, bigpow) ELSE q
        Back(x, j) == [x EXCEPT ![j] = quot(j) - Mult(f.diag1[j], x[j + 1], bigpow, double)]
        path == FoldLeft(Back, Listed([j \in 0 .. N - 1 |-> IF j = N - 1 THEN quot(j) ELSE 0]),
                         [k \in 1 .. N - 1 |-> N - 1 - k])
    IN  [j \in 0 .. N - 1 |-> Stored(path[j], meanpow)]

BackSubstituted(f, N, bigpow, invpow, double, meanpow) ==
    LET quot(j) == LET q == MultInv(f.WUm[j], f.inv[j], bigpow, invpow, double)
                   IN  IF double THEN DivPow(q, bigpow) ELSE q
        Back(x, j) == [x EXCEPT ![j] =
            quot(j) - Mult(f.diag1[j], x[j + 1], bigpow, double)
                    - (IF j < N - 2 THEN Mult(f.diag2[j], x[j + 2], bigpow, double) ELSE 0)]
        path == FoldLeft(Back, Listed([j \in 0 .. N - 1 |-> IF j = N - 1 THEN quot(j) ELSE 0]),
                         [k \in 1 .. N - 1 |-> N - 1 - k])
    IN  [j \in 0 .. N - 1 |-> Stored(path[j], meanpow)]

InvMatrix(m, N, bigpow, invpow, double, meanpow) ==
    BackSubstituted(Factorised(m, N, bigpow, invpow, double), N, bigpow, invpow, double, meanpow)

-----------------------------------------------------------------------------
(* The coefficients of a sentence: PROCESS_SMOOTH.                          *)

\* The mean of each frame's own distribution.
GetDirect(pdf, indices, N, bigpow, meanpow) ==
    LET mean(v) == Stored(FixptDiv(pdf[v].mean["STATIC"], pdf[v].ivar["STATIC"], bigpow), meanpow)
    IN  [j \in 0 .. N - 1 |-> mean(RunOf(indices, 0, j))]

SmoothedPath(pdf, indices, N, bigpow, invpow, double, meanpow) ==
    IF N > 3 THEN InvMatrix(MakeWUW(pdf, indices, N), N, bigpow, invpow, double, meanpow)
    ELSE GetDirect(pdf, indices, N, bigpow, meanpow)
=============================================================================
