---------------------------- MODULE BackEndProofs ----------------------------
(***************************************************************************)
(* Proofs about BackEnd, for all texts, sizes of the stores and periods:    *)
(* the arrays of both units are neither overrun nor read where nothing was  *)
(* written, and until a soft reset the excitation points of a stretch of    *)
(* voice follow each other at its period and get responses of its voicing.  *)
(* Both units keep the protocol that Control assumes, and what is heard is  *)
(* the signal of the text so far, as long as the store for items does not   *)
(* run over and files can be written.  A saved file has what was put since  *)
(* it was opened, with the tries that found the buffer full.                *)
(***************************************************************************)
EXTENDS BackEnd, TLAPS

\* The library of well-founded orders.
WF == INSTANCE WellFoundedInduction

\* The library of folds.
LOCAL INSTANCE SequencesExt
LOCAL INSTANCE Folds
LOCAL INSTANCE FiniteSetsExt
LOCAL INSTANCE FiniteSetTheorems

-----------------------------------------------------------------------------
(* The inductive invariant of the types.                                    *)

Frames == CEP!Frames
Pars == [type : {"FRAME_PAR"}, cep : Frames, phone : Frames]
Smooth == Items \union Pars
Outs == Smooth \union [type : {"FRAME"}, of : Frames, half : Int]

\* While frames are put, as many are smoothed as there are active ones.
CepOK == /\ CEP!TypeOK
         /\ pamOut \in Seq(Items) /\ cepInBuf \in Seq(Items)
         /\ cepOutBuf \in Seq(Smooth) /\ cepOut \in Seq(Smooth)
         /\ headx \in Seq([item : Items, frame : 0 .. MaxWinLen])
         /\ indices \in [1 .. MaxWinLen -> Frames]
         /\ smooth \in Seq(Frames)
         /\ inIgnoreState \in BOOLEAN /\ sentenceEnd \in BOOLEAN /\ forced \in BOOLEAN
         /\ feedFollowState \in {"COLLECT", "PARSE", "FRAME"}
         /\ cepProcState = "FEED" => feedFollowState # "COLLECT"
         /\ cepProcState = "FRAME" \/ (cepProcState = "FEED" /\ feedFollowState = "FRAME")
               => Len(smooth) = activeEndPos

\* What is processed is an item of parameters.
SigOK == /\ SIG!TypeOK
         /\ sigInBuf \in Seq(Smooth) /\ sigOutBuf \in Seq(Outs) /\ sigOut \in Seq(Outs)
         /\ sigProcState = "PROCESS" => sigInBuf[1].type = "FRAME_PAR"
         /\ cepBuff \in Seq(Frames) /\ phsBuff \in Seq(Frames)
         /\ imp \in Frames /\ impResp \in Frames
         /\ voiced \in BOOLEAN /\ prevVoiced \in BOOLEAN /\ voicTrans \in BOOLEAN
         /\ outSwitch \in BOOLEAN
         /\ retState \in {"COLLECT", "PLAY"}
         /\ nAvailable \in 0 .. 3
         /\ locV \in Seq(Int) /\ locU \in Seq(Int) /\ nextPeak \in Int

TextOK == text \in Seq(Items) /\ sent \in 0 .. Len(text) /\ got \in Seq(Outs)

TypeInv == CepOK /\ SigOK /\ TextOK

-----------------------------------------------------------------------------
(* The inductive invariant of the excitation points.                        *)

\* The voicing of the points set last.
Stretch == IF innerProcState = 3 THEN prevVoiced ELSE voiced
Of(v) == IF v THEN locV ELSE locU
PeriodOf(v) == IF v THEN VPeriod ELSE UPeriod

\* The next peak is a period behind the last point of the stretch.
Continued == /\ Apart(locV, VPeriod) /\ Apart(locU, UPeriod)
             /\ nextPeak >= 3 * Hop
             /\ Of(Stretch) # <<>> =>
                   Of(Stretch)[Len(Of(Stretch))] = nextPeak - PeriodOf(Stretch)

\* No frame is worked on before the buffer is full of frames of the text, and
\* none of them is voiced before that.
Filled == /\ voiced = cepBuff[1].voiced
          /\ nAvailable < 3 => /\ innerProcState = 0
                               /\ \A i \in 1 .. 3 - nAvailable : ~ cepBuff[i].voiced

\* Points of the other voicing are left only where it changed last, and get
\* the response that was saved then.
Responses == /\ Stretch => ~ voicTrans /\ (locU # <<>> => ~ impResp.voiced)
             /\ ~ Stretch => (locV # <<>> => voicTrans /\ impResp.voiced)
             /\ innerProcState \in {0, 3} /\ (locV # <<>> \/ locU # <<>>) => imp.voiced = Stretch
             /\ innerProcState \in {7, 8, 9} => imp.voiced = voiced

\* After a change of voicing all points of the new one are new.
Changed == voiced # prevVoiced =>
              /\ innerProcState \in 4 .. 7 => Of(voiced) = <<>>
              /\ innerProcState = 8 => \A i \in DOMAIN Of(voiced) : Of(voiced)[i] >= 2 * Hop

PointsOK == Continued /\ Filled /\ Responses /\ Changed
PointsInv == resetMode = "FULL" => PointsOK

-----------------------------------------------------------------------------
(* Sequences and items.                                                     *)

\* Appending to a sequence.
LEMMA AppendOK ==
    ASSUME NEW S, NEW s \in Seq(S), NEW x \in S
    PROVE  /\ Append(s, x) \in Seq(S)
           /\ Len(Append(s, x)) = Len(s) + 1
           /\ Len(s) \in Nat
  OBVIOUS

\* Taking from a sequence.
LEMMA TakeOK ==
    ASSUME NEW S, NEW s \in Seq(S), s # <<>>
    PROVE  /\ Head(s) \in S
           /\ Tail(s) \in Seq(S)
           /\ Len(Tail(s)) = Len(s) - 1
           /\ Len(s) \in Nat \ {0}
           /\ s[1] \in S
  OBVIOUS

\* Joining two sequences.
LEMMA JoinOK ==
    ASSUME NEW S, NEW s \in Seq(S), NEW t \in Seq(S)
    PROVE  /\ s \o t \in Seq(S)
           /\ Len(s \o t) = Len(s) + Len(t)
           /\ Len(s) \in Nat /\ Len(t) \in Nat
  OBVIOUS

\* A sequence of one element.
LEMMA OneOK ==
    ASSUME NEW S, NEW x \in S
    PROVE  <<x>> \in Seq(S) /\ Len(<<x>>) = 1 /\ <<x>> # <<>>
  OBVIOUS

\* The empty sequence.
LEMMA EmptyOK == \A S : <<>> \in Seq(S) /\ Len(<<>>) = 0
  OBVIOUS

\* An element of a sequence.
LEMMA ElementOK ==
    ASSUME NEW S, NEW s \in Seq(S), NEW i \in 1 .. Len(s)
    PROVE  s[i] \in S
  OBVIOUS

\* The numbers of the instance.
LEMMA Numbers == /\ Cap \in Nat \ {0} /\ MaxWinLen \in Nat \ {0} /\ CepHeadx \in Nat \ {0}
                 /\ CepCbuf \in Nat \ {0} /\ Hop \in Nat \ {0} /\ VPeriod \in Nat \ {0}
                 /\ UPeriod \in Nat \ {0} /\ PlayLen \in Nat
  BY BackEndAssumption

\* What is out of a part of a sequence.
LEMMA UpToOK ==
    ASSUME NEW S, NEW s \in Seq(S), NEW k \in Nat
    PROVE  /\ CEP!UpTo(s, k) \in Seq(S)
           /\ Len(CEP!UpTo(s, k)) \in 0 .. k
           /\ \A i \in 1 .. Len(CEP!UpTo(s, k)) : CEP!UpTo(s, k)[i] \in S
  <1>. DEFINE m == IF k < Len(s) THEN k ELSE Len(s)
  <1>1. m \in 0 .. k /\ m =< Len(s) /\ m \in Nat
    OBVIOUS
  <1>2. CEP!UpTo(s, k) = SubSeq(s, 1, m)
    BY DEF CEP!UpTo
  <1>. HIDE DEF m
  <1>3. SubSeq(s, 1, m) \in Seq(S) /\ Len(SubSeq(s, 1, m)) = m
    BY <1>1
  <1>. QED BY <1>1, <1>2, <1>3

\* What the unit before makes is no item of parameters.
LEMMA ItemsAreNoPars == \A x \in Items : x.type # "FRAME_PAR"
  BY ItemsAssumption

\* The least of some numbers.
LEMMA NatOrder == WF!IsWellFoundedOn({p \in Nat \X Nat : p[1] < p[2]}, Nat)
  BY WF!NatLessThanWellFounded DEF WF!OpToRel

LEMMA LeastNumber ==
    ASSUME NEW T, T \subseteq Nat, T # {}
    PROVE  \E k \in T : \A i \in T : k =< i
  <1>. DEFINE R == {p \in Nat \X Nat : p[1] < p[2]}
  <1>1. PICK k \in T : \A i \in T : ~ (<<i, k>> \in R)
    <2>1. WF!IsWellFoundedOn(R, Nat)
      BY NatOrder, Zenon
    <2>. HIDE DEF R
    <2>. QED BY <2>1, WF!WFMin, Zenon
  <1>2. ASSUME NEW i \in T PROVE k =< i
    <2>1. i \in Nat /\ k \in Nat
      BY Zenon
    <2>2. i < k => <<i, k>> \in R
      BY <2>1, SMT
    <2>. QED BY <1>1, <2>1, <2>2, SMT
  <1>. QED BY <1>2, Zenon

-----------------------------------------------------------------------------
(* Folds.  Each is the value, for all places of a sequence, of a function   *)
(* on the sets of its places; what counts are the values for the first ones.*)

\* What holds of 0 and of a number's successor holds of all numbers up to n.
LEMMA AllUpTo ==
    ASSUME NEW n \in Nat, NEW S, 0 \in S, \A i \in 0 .. n - 1 : i \in S => i + 1 \in S
    PROVE  n \in S
  <1>. DEFINE T == {i \in 0 .. n : i \notin S}
  <1>. SUFFICES ASSUME n \notin S PROVE FALSE
    OBVIOUS
  <1>1. PICK k \in T : \A i \in T : k =< i
    <2>1. T \subseteq Nat /\ n \in T
      OBVIOUS
    <2>. HIDE DEF T
    <2>. QED BY <2>1, LeastNumber, Zenon
  <1>2. k - 1 \in 0 .. n - 1 /\ k - 1 \notin T
    BY <1>1
  <1>. QED BY <1>1, <1>2

\* The greatest number of a set.
LEMMA MaxOK ==
    ASSUME NEW n \in Nat, NEW P \in SUBSET (1 .. n), P # {}
    PROVE  Max(P) \in P /\ \A p \in P : p =< Max(P)
  <1>. DEFINE T == {k \in Nat : \A p \in P : p =< k}
  <1>1. n \in T
    OBVIOUS
  <1>2. PICK k \in T : \A i \in T : k =< i
    BY <1>1, LeastNumber
  <1>3. k \in P
    <2>. SUFFICES ASSUME k \notin P PROVE FALSE
      OBVIOUS
    <2>1. k - 1 \in Nat /\ \A p \in P : p =< k - 1
      <3>1. PICK p \in P : TRUE
        OBVIOUS
      <3>2. \A q \in P : q \in Nat /\ q =< k /\ q # k /\ q >= 1
        BY <1>2
      <3>. QED BY <1>2, <3>1, <3>2
    <2>2. k - 1 \in T /\ k \in Nat
      BY <1>2, <2>1
    <2>. QED BY <1>2, <2>2
  <1>4. \E m \in P : \A p \in P : m >= p
    BY <1>2, <1>3
  <1>5. Max(P) \in P /\ \A p \in P : Max(P) >= p
    BY <1>4, Zenon DEF Max
  <1>. QED BY <1>5

\* The first places of a sequence.
LEMMA FirstPlaces ==
    ASSUME NEW n \in Nat, NEW k \in 0 .. n - 1
    PROVE  /\ 1 .. k \in SUBSET (1 .. n) /\ 1 .. k + 1 \in SUBSET (1 .. n) /\ 1 .. k + 1 # {}
           /\ Max(1 .. k + 1) = k + 1 /\ (1 .. k + 1) \ {k + 1} = 1 .. k
  <1>1. k + 1 \in Nat /\ 1 .. k + 1 \in SUBSET (1 .. k + 1) /\ 1 .. k + 1 # {}
    OBVIOUS
  <1>2. Max(1 .. k + 1) \in 1 .. k + 1 /\ \A p \in 1 .. k + 1 : p =< Max(1 .. k + 1)
    BY <1>1, MaxOK, Zenon
  <1>. QED BY <1>2

\* A rule gives for each element, and for what a fold has made of those before
\* it, what it makes next.
Rule(O, S, St) == \A x \in S, s \in St : O[x][s] \in St

\* it[P] is what a fold makes of the places in P.
IsFold(it, q, base, O) ==
    \A P \in SUBSET DOMAIN q :
        it[P] = IF P = {} THEN base ELSE O[q[Max(P)]][it[P \ {Max(P)}]]

LEMMA FoldExists ==
    ASSUME NEW S, NEW q \in Seq(S), NEW St, NEW base \in St, NEW O, Rule(O, S, St)
    PROVE  \E it \in [SUBSET DOMAIN q -> St] : IsFold(it, q, base, O)
  <1>. DEFINE n == Len(q)
              Next1(it, P) == IF P = {} THEN base ELSE O[q[Max(P)]][it[P \ {Max(P)}]]
              Good == {k \in 0 .. n : \E it \in [SUBSET (1 .. k) -> St] :
                                         \A P \in SUBSET (1 .. k) : it[P] = Next1(it, P)}
  <1>0. n \in Nat /\ DOMAIN q = 1 .. n /\ \A i \in 1 .. n : q[i] \in S
    OBVIOUS
  <1>. HIDE DEF n
  <1>1. 0 \in Good
    <2>. DEFINE it == [P \in SUBSET (1 .. 0) |-> base]
    <2>1. \A P \in SUBSET (1 .. 0) : P = {}
      OBVIOUS
    <2>2. it \in [SUBSET (1 .. 0) -> St]
      OBVIOUS
    <2>3. \A P \in SUBSET (1 .. 0) : it[P] = Next1(it, P)
      BY <2>1, Zenon
    <2>4. 0 \in 0 .. n
      BY <1>0
    <2>. HIDE DEF it
    <2>. QED BY <2>2, <2>3, <2>4, Zenon
  <1>2. ASSUME NEW k \in 0 .. n - 1, k \in Good PROVE k + 1 \in Good
    <2>1. PICK it \in [SUBSET (1 .. k) -> St] : \A P \in SUBSET (1 .. k) : it[P] = Next1(it, P)
      BY <1>2
    <2>. DEFINE next == [P \in SUBSET (1 .. k + 1) |->
                           IF k + 1 \in P THEN O[q[k + 1]][it[P \ {k + 1}]] ELSE it[P]]
    <2>2. \A P \in SUBSET (1 .. k + 1) :
             /\ P \ {k + 1} \in SUBSET (1 .. k)
             /\ k + 1 \notin P => P \in SUBSET (1 .. k)
             /\ P # {} => Max(P) \in P /\ \A p \in P : p =< Max(P)
      <3>1. k + 1 \in Nat
        BY <1>0
      <3>2. \A P \in SUBSET (1 .. k + 1) : P # {} => Max(P) \in P /\ \A p \in P : p =< Max(P)
        BY <3>1, MaxOK, Zenon
      <3>3. 1 .. k + 1 = (1 .. k) \union {k + 1}
        BY <1>0
      <3>4. \A P \in SUBSET (1 .. k + 1) : /\ P \ {k + 1} \in SUBSET (1 .. k)
                                           /\ k + 1 \notin P => P \in SUBSET (1 .. k)
        BY <3>3, Zenon
      <3>. QED BY <3>2, <3>4, Zenon
    <2>3. k + 1 \in 1 .. n /\ q[k + 1] \in S
      BY <1>0
    <2>4. next \in [SUBSET (1 .. k + 1) -> St]
      BY <2>2, <2>3, SMTT(20) DEF Rule
    <2>5. ASSUME NEW P \in SUBSET (1 .. k + 1) PROVE next[P] = Next1(next, P)
      <3>1. CASE k + 1 \in P
        <4>1. P # {} /\ Max(P) \in 1 .. k + 1 /\ k + 1 =< Max(P)
          BY <2>2, <3>1
        <4>2. Max(P) = k + 1
          BY <1>0, <4>1
        <4>3. P \ {k + 1} \in SUBSET (1 .. k + 1) /\ k + 1 \notin P \ {k + 1}
          OBVIOUS
        <4>4. next[P \ {k + 1}] = it[P \ {k + 1}]
          BY <4>3
        <4>5. next[P] = O[q[k + 1]][it[P \ {k + 1}]]
          BY <3>1
        <4>. QED BY <4>1, <4>2, <4>4, <4>5, Zenon
      <3>2. CASE k + 1 \notin P
        <4>1. P \in SUBSET (1 .. k) /\ next[P] = it[P]
          BY <2>2, <3>2
        <4>2. P \ {Max(P)} \in SUBSET (1 .. k) /\ P \ {Max(P)} \in SUBSET (1 .. k + 1)
              /\ k + 1 \notin P \ {Max(P)}
          BY <3>2, <4>1, Zenon
        <4>3. next[P \ {Max(P)}] = it[P \ {Max(P)}]
          BY <4>2
        <4>4. it[P] = Next1(it, P)
          BY <2>1, <4>1, Zenon
        <4>. QED BY <4>1, <4>3, <4>4, Zenon
      <3>. QED BY <3>1, <3>2
    <2>6. k + 1 \in 0 .. n
      BY <1>0
    <2>. HIDE DEF next
    <2>. QED BY <2>4, <2>5, <2>6
  <1>3. n \in Good
    <2>. HIDE DEF Good
    <2>. QED BY <1>0, <1>1, <1>2, AllUpTo, Zenon
  <1>. QED BY <1>0, <1>3, Zenon DEF IsFold

\* run[k] is what a fold makes of the first k elements.
IsRun(run, q, base, O, St) ==
    /\ run[0] = base
    /\ \A k \in 0 .. Len(q) - 1 : run[k] \in St => run[k + 1] = O[q[k + 1]][run[k]]

LEMMA RunOK ==
    ASSUME NEW S, NEW q \in Seq(S), NEW St, NEW base \in St, NEW O, Rule(O, S, St),
           NEW run, IsRun(run, q, base, O, St)
    PROVE  run[Len(q)] \in St
  <1>. DEFINE n == Len(q)
              Good == {k \in 0 .. n : run[k] \in St}
  <1>1. n \in Nat /\ \A i \in 1 .. n : q[i] \in S
    OBVIOUS
  <1>2. \A k \in 0 .. n - 1 : run[k] \in St => run[k + 1] = O[q[k + 1]][run[k]]
    BY DEF IsRun
  <1>. HIDE DEF n
  <1>3. 0 \in Good
    BY <1>1 DEF IsRun
  <1>4. ASSUME NEW k \in 0 .. n - 1, k \in Good PROVE k + 1 \in Good
    <2>1. k + 1 \in 1 .. n /\ k + 1 \in 0 .. n /\ q[k + 1] \in S
      BY <1>1
    <2>. QED BY <1>2, <1>4, <2>1 DEF Rule
  <1>5. n \in Good
    <2>. HIDE DEF Good
    <2>. QED BY <1>1, <1>3, <1>4, AllUpTo, Zenon
  <1>. QED BY <1>5 DEF n

\* What a fold makes of one more element.
LEMMA RunOfOneMore ==
    ASSUME NEW S, NEW q \in Seq(S), NEW x \in S, NEW St, NEW base \in St, NEW O, Rule(O, S, St),
           NEW run, IsRun(run, q, base, O, St),
           NEW more, IsRun(more, Append(q, x), base, O, St)
    PROVE  more[Len(q) + 1] = O[x][run[Len(q)]]
  <1>. DEFINE n == Len(q)
              q2 == Append(q, x)
              Good == {k \in 0 .. n : more[k] = run[k] /\ run[k] \in St}
  <1>1. n \in Nat /\ \A i \in 1 .. n : q[i] \in S /\ q2[i] = q[i]
    OBVIOUS
  <1>2. Len(q2) = n + 1 /\ q2[n + 1] = x
    OBVIOUS
  <1>. HIDE DEF n, q2
  <1>3. \A k \in 0 .. n - 1 : run[k] \in St => run[k + 1] = O[q[k + 1]][run[k]]
    BY DEF IsRun, n
  <1>4. \A k \in 0 .. n : more[k] \in St => more[k + 1] = O[q2[k + 1]][more[k]]
    <2>1. \A k \in 0 .. Len(q2) - 1 : more[k] \in St => more[k + 1] = O[q2[k + 1]][more[k]]
      BY DEF IsRun, q2
    <2>2. (n + 1) - 1 = n
      BY <1>1
    <2>. QED BY <1>2, <2>1, <2>2
  <1>5. 0 \in Good
    BY <1>1 DEF IsRun
  <1>6. ASSUME NEW k \in 0 .. n - 1, k \in Good PROVE k + 1 \in Good
    <2>1. k + 1 \in 1 .. n /\ k + 1 \in 0 .. n /\ k \in 0 .. n /\ q[k + 1] \in S /\ q2[k + 1] = q[k + 1]
      BY <1>1
    <2>. QED BY <1>3, <1>4, <1>6, <2>1 DEF Rule
  <1>7. n \in Good
    <2>. HIDE DEF Good
    <2>. QED BY <1>1, <1>5, <1>6, AllUpTo, Zenon
  <1>8. n \in 0 .. n /\ more[n] = run[n] /\ run[n] \in St
    BY <1>1, <1>7
  <1>9. more[n + 1] = O[x][run[n]]
    BY <1>2, <1>4, <1>8
  <1>. QED BY <1>9 DEF n

\* v is what a fold makes of q.
Makes(v, q, base, O, St) == \E run : IsRun(run, q, base, O, St) /\ v = run[Len(q)]

\* F makes of each sequence of elements what the fold makes of it.
Folds(F, S, St, base, O) == /\ base \in St /\ Rule(O, S, St)
                            /\ \A q \in Seq(S) : Makes(F[q], q, base, O, St)

\* What F makes of no element, of any, and of one more.
Made(F, S, St, base, O) == /\ F[<<>>] = base
                           /\ \A q \in Seq(S) : F[q] \in St
                           /\ \A q \in Seq(S), x \in S : F[Append(q, x)] = O[x][F[q]]

LEMMA FoldOK ==
    ASSUME NEW F, NEW S, NEW St, NEW base, NEW O, Folds(F, S, St, base, O)
    PROVE  Made(F, S, St, base, O)
  <1>0. base \in St /\ Rule(O, S, St) /\ \A q \in Seq(S) : Makes(F[q], q, base, O, St)
    BY Zenon DEF Folds
  <1>1. F[<<>>] = base
    <2>1. PICK run : IsRun(run, <<>>, base, O, St) /\ F[<<>>] = run[Len(<<>>)]
      BY <1>0, EmptyOK, Zenon DEF Makes
    <2>. QED BY <2>1, EmptyOK, Zenon DEF IsRun
  <1>2. ASSUME NEW q \in Seq(S) PROVE F[q] \in St
    BY <1>0, RunOK, Zenon DEF Makes
  <1>3. ASSUME NEW q \in Seq(S), NEW x \in S PROVE F[Append(q, x)] = O[x][F[q]]
    <2>1. Append(q, x) \in Seq(S) /\ Len(Append(q, x)) = Len(q) + 1
      BY AppendOK, Zenon
    <2>2. PICK run : IsRun(run, q, base, O, St) /\ F[q] = run[Len(q)]
      BY <1>0, Zenon DEF Makes
    <2>3. PICK more : IsRun(more, Append(q, x), base, O, St) /\ F[Append(q, x)] = more[Len(q) + 1]
      BY <1>0, <2>1, Zenon DEF Makes
    <2>4. more[Len(q) + 1] = O[x][run[Len(q)]]
      BY <1>0, <2>2, <2>3, RunOfOneMore
    <2>. QED BY <2>2, <2>3, <2>4, Zenon
  <1>. QED BY <1>1, <1>2, <1>3, Zenon DEF Made

-----------------------------------------------------------------------------
(* Phones.                                                                  *)

\* Sequences one after the other.
LEMMA FlattenOK ==
    ASSUME NEW T, NEW q \in Seq(Seq(T))
    PROVE  CEP!FlattenSeq(q) \in Seq(T)
  <1>. DEFINE n == Len(q)
              Step(g, i) == IF i = 1 THEN q[i] ELSE g[i - 1] \o q[i]
              Is(g) == g = [i \in 1 .. n |-> Step(g, i)]
              f == CHOOSE g : Is(g)
              Good == {k \in 0 .. n : \E g \in [1 .. k -> Seq(T)] : \A i \in 1 .. k : g[i] = Step(g, i)}
  <1>1. n \in Nat /\ (n = 0 => q = <<>>) /\ \A i \in 1 .. n : q[i] \in Seq(T)
    OBVIOUS
  <1>2. n # 0 => CEP!FlattenSeq(q) = f[n]
    BY DEF CEP!FlattenSeq
  <1>3. n = 0 => CEP!FlattenSeq(q) = <<>>
    BY <1>1 DEF CEP!FlattenSeq
  <1>. HIDE DEF n
  <1>4. 0 \in Good
    <2>1. [i \in 1 .. 0 |-> <<>>] \in [1 .. 0 -> Seq(T)] /\ \A i \in 1 .. 0 : FALSE
      OBVIOUS
    <2>2. 0 \in 0 .. n
      BY <1>1
    <2>. QED BY <2>1, <2>2, Zenon
  <1>5. ASSUME NEW k \in 0 .. n - 1, k \in Good PROVE k + 1 \in Good
    <2>1. PICK g \in [1 .. k -> Seq(T)] : \A i \in 1 .. k : g[i] = Step(g, i)
      BY <1>5
    <2>. DEFINE h == [i \in 1 .. k + 1 |-> IF i = k + 1 THEN Step(g, i) ELSE g[i]]
    <2>2. k + 1 \in 0 .. n /\ k + 1 \in 1 .. n /\ k \in Nat
      BY <1>1
    <2>3. ASSUME NEW i \in 1 .. k + 1 PROVE h[i] \in Seq(T) /\ h[i] = Step(h, i)
      <3>1. i # k + 1 => i \in 1 .. k
        BY <2>2
      <3>2. i # 1 => i - 1 \in 1 .. k /\ i - 1 \in 1 .. k + 1 /\ i - 1 # k + 1 /\ h[i - 1] = g[i - 1]
        BY <2>2
      <3>3. q[i] \in Seq(T)
        BY <1>1, <2>2
      <3>4. Step(h, i) = Step(g, i)
        BY <3>2, Zenon
      <3>5. Step(g, i) \in Seq(T)
        <4>1. CASE i = 1
          BY <3>3, <4>1, Zenon
        <4>2. CASE i # 1
          <5>1. g[i - 1] \in Seq(T)
            BY <3>2, <4>2, Zenon
          <5>. QED BY <3>3, <4>2, <5>1, JoinOK, Zenon
        <4>. QED BY <4>1, <4>2
      <3>6. h[i] = IF i = k + 1 THEN Step(g, i) ELSE g[i]
        BY Zenon
      <3>. HIDE DEF h
      <3>. QED BY <2>1, <3>1, <3>4, <3>5, <3>6, Zenon
    <2>4. h \in [1 .. k + 1 -> Seq(T)]
      BY <2>3, Zenon
    <2>. HIDE DEF h
    <2>. QED BY <2>2, <2>3, <2>4, Zenon
  <1>6. n \in Good
    <2>. HIDE DEF Good
    <2>. QED BY <1>1, <1>4, <1>5, AllUpTo, Zenon
  <1>7. PICK g \in [1 .. n -> Seq(T)] : \A i \in 1 .. n : g[i] = Step(g, i)
    BY <1>6, Zenon
  <1>8. Is(g)
    BY <1>7, Zenon
  <1>9. Is(f)
    BY <1>8, Zenon
  <1>10. \A i \in 1 .. n : f[i] = Step(f, i)
    BY <1>9, Zenon
  <1>. HIDE DEF f
  <1>11. n # 0 => f[n] \in Seq(T)
    <2>. DEFINE Seen == {k \in 0 .. n : k = 0 \/ f[k] \in Seq(T)}
    <2>1. 0 \in Seen
      BY <1>1
    <2>2. ASSUME NEW k \in 0 .. n - 1, k \in Seen PROVE k + 1 \in Seen
      <3>1. k + 1 \in 1 .. n /\ k + 1 \in 0 .. n /\ k \in Nat /\ (k + 1) - 1 = k /\ (k # 0 => k + 1 # 1)
        BY <1>1
      <3>2. f[k + 1] = Step(f, k + 1) /\ q[k + 1] \in Seq(T)
        BY <1>1, <1>10, <3>1, Zenon
      <3>3. CASE k = 0
        <4>1. f[1] = q[1] /\ q[1] \in Seq(T)
          BY <3>2, <3>3, SMT
        <4>. QED BY <3>1, <3>3, <4>1
      <3>4. CASE k # 0
        <4>1. f[k] \in Seq(T) /\ f[k + 1] = f[k] \o q[k + 1]
          BY <2>2, <3>1, <3>2, <3>4
        <4>2. PICK u \in Seq(T), v \in Seq(T) : u = f[k] /\ v = q[k + 1]
          BY <3>2, <4>1, Zenon
        <4>3. u \o v \in Seq(T)
          BY JoinOK
        <4>4. f[k + 1] \in Seq(T)
          BY <4>1, <4>2, <4>3, Zenon
        <4>. QED BY <3>1, <4>4
      <3>. QED BY <3>3, <3>4
    <2>3. n \in Seen
      <3>. HIDE DEF Seen
      <3>. QED BY <1>1, <2>1, <2>2, AllUpTo, Zenon
    <2>. QED BY <2>3
  <1>. QED BY <1>2, <1>3, <1>11, EmptyOK, Zenon

\* Frames of a text: each is of a phone with a number.
TextFrames == [n : Nat \ {0}, f : Nat, voiced : BOOLEAN]

LEMMA FramesOfOK ==
    ASSUME NEW x \in Items, x.type = "PHONE"
    PROVE  CEP!FramesOf(x) \in Seq(TextFrames) /\ CEP!FramesOf(x) \in Seq(Frames)
  <1>. DEFINE Part(s) == [f \in 1 .. x.frames[s] |-> [n |-> x.n, f |-> 10 * s + f, voiced |-> x.voiced]]
              q == [s \in DOMAIN x.frames |-> Part(s)]
  <1>1. x.n \in Nat \ {0} /\ x.voiced \in BOOLEAN /\ x.frames \in Seq(Nat)
    BY ItemsAssumption
  <1>2. DOMAIN x.frames = 1 .. Len(x.frames) /\ Len(x.frames) \in Nat
        /\ \A s \in 1 .. Len(x.frames) : x.frames[s] \in Nat
    BY <1>1
  <1>3. ASSUME NEW s \in DOMAIN x.frames PROVE Part(s) \in Seq(TextFrames)
    <2>1. s \in Nat /\ x.frames[s] \in Nat
      BY <1>2
    <2>2. \A f \in 1 .. x.frames[s] : [n |-> x.n, f |-> 10 * s + f, voiced |-> x.voiced] \in TextFrames
      BY <1>1, <2>1 DEF TextFrames
    <2>. QED BY <2>1, <2>2
  <1>4. q \in Seq(Seq(TextFrames))
    <2>. HIDE DEF Part
    <2>. QED BY <1>2, <1>3
  <1>5. CEP!FramesOf(x) = CEP!FlattenSeq(q)
    BY DEF CEP!FramesOf
  <1>. HIDE DEF q
  <1>6. CEP!FramesOf(x) \in Seq(TextFrames)
    BY <1>4, <1>5, FlattenOK, Zenon
  <1>7. \A f \in TextFrames : f \in Frames
    BY DEF TextFrames, Frames, CEP!Frames
  <1>. QED BY <1>6, <1>7

-----------------------------------------------------------------------------
(* Cepstral smoothing.                                                      *)

LEMMA CepBlankOK == CEP!Blank /\ pamOut = <<>> /\ cepOut = <<>> => CepOK
  <1>. SUFFICES ASSUME CEP!Blank, pamOut = <<>>, cepOut = <<>> PROVE CepOK
    OBVIOUS
  <1>1. indices \in [1 .. MaxWinLen -> Frames] /\ Len(indices) = MaxWinLen
    BY Numbers DEF CEP!Blank, CEP!NoFrame, Frames, CEP!Frames
  <1>2. CEP!TypeOK
    BY <1>1, Numbers DEF CEP!Blank, CEP!TypeOK
  <1>3. /\ pamOut \in Seq(Items) /\ cepInBuf \in Seq(Items)
        /\ cepOutBuf \in Seq(Smooth) /\ cepOut \in Seq(Smooth)
        /\ headx \in Seq([item : Items, frame : 0 .. MaxWinLen]) /\ smooth \in Seq(Frames)
    BY EmptyOK, Zenon DEF CEP!Blank
  <1>. QED BY <1>1, <1>2, <1>3 DEF CepOK, CEP!Blank

LEMMA CepInitializeOK ==
    ASSUME CepOK, CEP!Initialize, pamOut' = <<>>, cepOut' = <<>>
    PROVE  CepOK'
  <1>1. indices' = indices /\ indices \in [1 .. MaxWinLen -> Frames] /\ Len(indices) = MaxWinLen
    BY DEF CEP!Initialize, CepOK, CEP!TypeOK
  <1>2. CEP!TypeOK'
    BY <1>1, Numbers DEF CEP!Initialize, CEP!TypeOK
  <1>3. /\ (pamOut \in Seq(Items))' /\ (cepInBuf \in Seq(Items))'
        /\ (cepOutBuf \in Seq(Smooth))' /\ (cepOut \in Seq(Smooth))'
        /\ (headx \in Seq([item : Items, frame : 0 .. MaxWinLen]))' /\ (smooth \in Seq(Frames))'
    BY EmptyOK, Zenon DEF CEP!Initialize
  <1>. QED BY <1>1, <1>2, <1>3 DEF CepOK, CEP!Initialize

LEMMA CepCallOK == ASSUME CepOK, CEP!Call PROVE CepOK'
  BY DEF CepOK, CEP!TypeOK, CEP!Call, CEP!store, CEP!window

LEMMA CepCollectOK == ASSUME CepOK, CEP!Collect PROVE CepOK'
  <1>. USE DEF CepOK, CEP!TypeOK, CEP!Collect, CEP!At, CEP!store, CEP!window
  <1>1. CASE pamOut # <<>> /\ cepInBuf' = <<Head(pamOut)>> /\ pamOut' = Tail(pamOut)
             /\ cepProcState' = "PARSE" /\ cepStatus' = "BUSY"
    <2>1. Head(pamOut) \in Items /\ pamOut' \in Seq(Items)
      BY <1>1, TakeOK
    <2>2. cepInBuf' \in Seq(Items) /\ Len(cepInBuf') = 1
      BY <1>1, <2>1, OneOK
    <2>. QED BY <1>1, <2>1, <2>2
  <1>2. CASE cepStatus' = "IDLE" /\ UNCHANGED <<pamOut, cepInBuf, cepProcState>>
    BY <1>2
  <1>. QED BY <1>1, <1>2

LEMMA ParseSimpleOK ==
    ASSUME CepOK, CEP!ParseNone \/ CEP!ParseIgnored \/ CEP!ParseConsumed
    PROVE  CepOK'
  <1>. USE DEF CepOK, CEP!TypeOK, CEP!Parsing, CEP!At, CEP!store, CEP!window
  <1>1. CASE CEP!ParseNone
    BY <1>1 DEF CEP!ParseNone
  <1>2. CASE CEP!ParseIgnored
    BY <1>2 DEF CEP!ParseIgnored
  <1>3. CASE CEP!ParseConsumed
    BY <1>3 DEF CEP!ParseConsumed, CEP!ParsingOther
  <1>. QED BY <1>1, <1>2, <1>3

LEMMA ParseToSmoothOK ==
    ASSUME CepOK, CEP!ParseSentenceEnd \/ CEP!ParseForced
    PROVE  CepOK'
  <1>. USE DEF CepOK, CEP!TypeOK, CEP!Parsing, CEP!At, CEP!store, CEP!ToSmooth
  <1>1. CASE CEP!ParseSentenceEnd
    BY <1>1 DEF CEP!ParseSentenceEnd
  <1>2. CASE CEP!ParseForced
    BY <1>2 DEF CEP!ParseForced, CEP!ParsingOther
  <1>. QED BY <1>1, <1>2

LEMMA ParsePhoneOK == ASSUME CepOK, CEP!ParsePhone PROVE CepOK'
  <1>. DEFINE room == MaxWinLen - indexWritePos
              fr == CEP!UpTo(CEP!FramesOf(CEP!Item), room)
  <1>1. cepInBuf # <<>> /\ cepInBuf \in Seq(Items) /\ CEP!Item.type = "PHONE"
    BY DEF CEP!ParsePhone, CepOK
  <1>2. CEP!FramesOf(CEP!Item) \in Seq(Frames)
    BY <1>1, TakeOK, FramesOfOK DEF CEP!Item
  <1>3. indexWritePos \in 0 .. MaxWinLen /\ room \in Nat
    BY Numbers DEF CepOK, CEP!TypeOK
  <1>4. /\ fr \in Seq(Frames) /\ Len(fr) \in 0 .. room
        /\ \A i \in 1 .. Len(fr) : fr[i] \in Frames
    BY <1>2, <1>3, UpToOK, Zenon
  <1>5. /\ indices' = [i \in 1 .. MaxWinLen |->
                         IF i \in indexWritePos + 1 .. indexWritePos + Len(fr)
                         THEN fr[i - indexWritePos] ELSE indices[i]]
        /\ indexWritePos' = indexWritePos + Len(fr)
    BY Zenon DEF CEP!ParsePhone
  <1>. DEFINE m == Len(fr)
  <1>. HIDE DEF fr, m
  <1>6. m \in Nat /\ m =< MaxWinLen - indexWritePos
    BY <1>3, <1>4 DEF m
  <1>7. indices \in [1 .. MaxWinLen -> Frames]
    BY DEF CepOK
  <1>8. \A i \in 1 .. MaxWinLen :
           (IF i \in indexWritePos + 1 .. indexWritePos + m THEN fr[i - indexWritePos] ELSE indices[i]) \in Frames
    BY <1>3, <1>4, <1>6, <1>7, Numbers DEF m
  <1>9. indices' \in [1 .. MaxWinLen -> Frames]
    BY <1>5, <1>8, Zenon DEF m
  <1>10. indexWritePos' \in 0 .. MaxWinLen
    BY <1>3, <1>5, <1>6, Numbers DEF m
  <1>11. Len(indices') = MaxWinLen
    BY <1>9, Numbers
  <1>12. CEP!TypeOK'
    BY <1>10, <1>11 DEF CepOK, CEP!TypeOK, CEP!ParsePhone, CEP!Parsing, CEP!At, CEP!store
  <1>. QED BY <1>9, <1>12 DEF CepOK, CEP!ParsePhone, CEP!Parsing, CEP!At, CEP!store

LEMMA ParseForwardOK == ASSUME CepOK, CEP!ParseForward PROVE CepOK'
  <1>. USE DEF CepOK, CEP!ParseForward, CEP!ParsingOther, CEP!Parsing, CEP!At, CEP!store
  <1>1. CEP!Item \in Items
    BY TakeOK DEF CEP!Item
  <1>2. cepOutBuf' \in Seq(Smooth) /\ Len(cepOutBuf') = 1
    BY <1>1, OneOK DEF Smooth
  <1>3. CEP!TypeOK'
    BY <1>2 DEF CEP!TypeOK
  <1>. QED BY <1>2, <1>3

LEMMA ParseStoreOK == ASSUME CepOK, CEP!ParseStore PROVE CepOK'
  <1>. USE DEF CepOK, CEP!ParseStore, CEP!ParsingOther, CEP!Parsing, CEP!At
  <1>1. CEP!Item \in Items /\ CEP!Item.len \in Nat
    BY TakeOK, ItemsAssumption DEF CEP!Item
  <1>. DEFINE l == CEP!Item.len
              x == [item |-> CEP!Item, frame |-> indexWritePos]
  <1>2. x \in [item : Items, frame : 0 .. MaxWinLen]
    BY <1>1 DEF CEP!TypeOK
  <1>3. headx' = Append(headx, x) /\ cbufWritePos' = cbufWritePos + l /\ l \in Nat
    BY <1>1
  <1>4. Len(headx) < CepHeadx /\ cbufWritePos + l < CepCbuf
    BY DEF CEP!Room
  <1>. HIDE DEF l, x
  <1>5. headx' \in Seq([item : Items, frame : 0 .. MaxWinLen]) /\ Len(headx') = Len(headx) + 1
        /\ Len(headx) \in Nat
    BY <1>2, <1>3, AppendOK
  <1>6. headxBottom' \in 0 .. Len(headx') /\ Len(headx') =< CepHeadx
    BY <1>4, <1>5, Numbers DEF CEP!TypeOK
  <1>7. cbufWritePos' \in 0 .. CepCbuf
    BY <1>3, <1>4, Numbers, SMTT(30) DEF CEP!TypeOK
  <1>8. CEP!TypeOK'
    BY <1>6, <1>7 DEF CEP!TypeOK
  <1>. QED BY <1>5, <1>8

LEMMA CepSmoothOK == ASSUME CepOK, CEP!Smooth PROVE CepOK'
  <1>. USE DEF CepOK, CEP!Smooth, CEP!At, CEP!store
  <1>1. activeEndPos \in 0 .. MaxWinLen /\ Len(indices) = MaxWinLen /\ indices \in Seq(Frames)
    <2>1. indices \in [1 .. MaxWinLen -> Frames] /\ MaxWinLen \in Nat
      BY Numbers
    <2>2. indices \in Seq(Frames)
      BY <2>1
    <2>. QED BY <2>2 DEF CEP!TypeOK
  <1>2. smooth' \in Seq(Frames) /\ Len(smooth') = activeEndPos
    BY <1>1
  <1>3. CEP!TypeOK'
    BY Numbers DEF CEP!TypeOK
  <1>. QED BY <1>2, <1>3

LEMMA FrameItemOK == ASSUME CepOK, CEP!FrameItem PROVE CepOK'
  <1>. USE DEF CepOK, CEP!FrameItem, CEP!Framing, CEP!At
  <1>1. headxBottom \in 0 .. Len(headx) /\ headxBottom < Len(headx) /\ Len(headx) \in Nat
    BY DEF CEP!Due, CEP!TypeOK
  <1>2. headxBottom + 1 \in 1 .. Len(headx)
    BY <1>1
  <1>3. headx[headxBottom + 1] \in [item : Items, frame : 0 .. MaxWinLen]
    BY <1>2, ElementOK, Zenon
  <1>4. cepOutBuf' \in Seq(Smooth) /\ Len(cepOutBuf') = 1
    BY <1>3, OneOK DEF Smooth
  <1>5. CEP!TypeOK'
    BY <1>2, <1>4 DEF CEP!TypeOK
  <1>. QED BY <1>4, <1>5

LEMMA FrameParOK == ASSUME CepOK, CEP!FramePar PROVE CepOK'
  <1>. USE DEF CepOK, CEP!FramePar, CEP!Framing, CEP!At, CEP!store
  <1>1. /\ indexReadPos \in Nat /\ activeEndPos \in Nat /\ indexReadPos < activeEndPos
        /\ activeEndPos =< MaxWinLen /\ Len(smooth) = activeEndPos
    BY DEF CEP!TypeOK
  <1>2. /\ indexReadPos + 1 \in 1 .. Len(smooth) /\ indexReadPos + 1 \in 1 .. MaxWinLen
        /\ indexReadPos + 1 \in 0 .. MaxWinLen
    BY <1>1, Numbers
  <1>3. smooth[indexReadPos + 1] \in Frames /\ indices[indexReadPos + 1] \in Frames
    BY <1>2, ElementOK, Zenon
  <1>4. [type |-> "FRAME_PAR", cep |-> smooth[indexReadPos + 1], phone |-> indices[indexReadPos + 1]]
           \in Smooth
    BY <1>3 DEF Smooth, Pars
  <1>5. cepOutBuf' \in Seq(Smooth) /\ Len(cepOutBuf') = 1
    BY <1>4, OneOK
  <1>6. CEP!TypeOK'
    BY <1>2, <1>5 DEF CEP!TypeOK
  <1>. QED BY <1>5, <1>6

LEMMA FramesDoneOK == ASSUME CepOK, CEP!FramesDone PROVE CepOK'
  <1>. USE DEF CepOK, CEP!TypeOK, CEP!FramesDone, CEP!Framing, CEP!At, CEP!store
  <1>1. CASE ~ sentenceEnd
    BY <1>1
  <1>2. CASE sentenceEnd
    <2>1. headx' = <<>> /\ headx' \in Seq([item : Items, frame : 0 .. MaxWinLen]) /\ Len(headx') = 0
      BY <1>2, EmptyOK
    <2>2. 0 \in 0 .. Len(headx') /\ 0 =< CepHeadx /\ 0 \in 0 .. CepCbuf /\ 0 \in 0 .. MaxWinLen
          /\ MaxWinLen \in 0 .. MaxWinLen
      BY <2>1, Numbers
    <2>3. CEP!TypeOK'
      BY <1>2, <2>1, <2>2
    <2>. QED BY <1>2, <2>1, <2>3
  <1>. QED BY <1>1, <1>2

LEMMA CepFeedOK == ASSUME CepOK, CEP!Feed PROVE CepOK'
  <1>. USE DEF CepOK, CEP!TypeOK, CEP!Feed, CEP!At, CEP!store, CEP!window
  <1>1. CASE Len(cepOut) < Cap /\ cepOut' = cepOut \o cepOutBuf /\ cepOutBuf' = <<>>
             /\ cepProcState' = feedFollowState /\ cepStatus' = "BUSY"
    <2>1. cepOut' \in Seq(Smooth) /\ Len(cepOut') = Len(cepOut) + 1 /\ Len(cepOut) \in Nat
      BY <1>1, JoinOK
    <2>2. Len(cepOut') =< Cap
      BY <1>1, <2>1, Numbers
    <2>. QED BY <1>1, <2>1, <2>2
  <1>2. CASE cepStatus' = "OUT_FULL" /\ UNCHANGED <<cepOut, cepOutBuf, cepProcState>>
    BY <1>2
  <1>. QED BY <1>1, <1>2

LEMMA CepPassOK == ASSUME CepOK, CEP!Pass PROVE CepOK'
  BY CepCollectOK, ParseSimpleOK, ParseToSmoothOK, ParsePhoneOK, ParseForwardOK, ParseStoreOK,
     CepSmoothOK, FrameItemOK, FrameParOK, FramesDoneOK, CepFeedOK, Zenon
     DEF CEP!Pass, CEP!Parse

-----------------------------------------------------------------------------
(* Excitation points.                                                       *)

\* Some first point is kept, or none.
LEMMA FirstKeptOK ==
    ASSUME NEW loc \in Seq(Int)
    PROVE  /\ SIG!FirstKept(loc) \in 1 .. Len(loc) + 1
           /\ \A i \in 1 .. SIG!FirstKept(loc) - 1 : loc[i] - Hop < 0
           /\ SIG!FirstKept(loc) =< Len(loc) => loc[SIG!FirstKept(loc)] - Hop >= 0
  <1>. DEFINE T == {k \in 1 .. Len(loc) + 1 : k =< Len(loc) => loc[k] - Hop >= 0}
              P(k) == /\ \A i \in 1 .. k - 1 : loc[i] - Hop < 0
                      /\ k =< Len(loc) => loc[k] - Hop >= 0
  <1>1. Len(loc) \in Nat /\ Hop \in Nat /\ \A i \in 1 .. Len(loc) : loc[i] \in Int
    BY Numbers
  <1>2. Len(loc) + 1 \in T /\ T \subseteq Nat
    BY <1>1
  <1>3. PICK k \in T : \A i \in T : k =< i
    <2>. HIDE DEF T
    <2>. QED BY <1>2, LeastNumber, Zenon
  <1>4. k \in 1 .. Len(loc) + 1 /\ (k =< Len(loc) => loc[k] - Hop >= 0)
    BY <1>3
  <1>5. ASSUME NEW i \in 1 .. k - 1 PROVE loc[i] - Hop < 0
    <2>1. i \in 1 .. Len(loc) /\ i < k
      BY <1>1, <1>4
    <2>2. i \notin T
      BY <1>1, <1>3, <1>4, <2>1
    <2>. QED BY <1>1, <2>1, <2>2
  <1>6. P(k)
    BY <1>4, <1>5
  <1>7. SIG!FirstKept(loc) = CHOOSE j \in 1 .. Len(loc) + 1 : P(j)
    BY DEF SIG!FirstKept
  <1>. HIDE DEF P
  <1>8. SIG!FirstKept(loc) \in 1 .. Len(loc) + 1 /\ P(SIG!FirstKept(loc))
    BY <1>4, <1>6, <1>7, Zenon
  <1>. QED BY <1>8 DEF P

\* What is left after the hop: the points not before the window, a hop earlier.
LEMMA MovedOK ==
    ASSUME NEW loc \in Seq(Int)
    PROVE  LET m == SIG!Moved(loc)  gone == SIG!FirstKept(loc) - 1 IN
           /\ m \in Seq(Int) /\ gone \in 0 .. Len(loc) /\ Len(m) = Len(loc) - gone
           /\ \A i \in 1 .. Len(m) : m[i] = loc[gone + i] - Hop
           /\ gone < Len(loc) => loc[gone + 1] - Hop >= 0
  <1>. DEFINE f == SIG!FirstKept(loc)
              n == Len(loc) + 1 - f
  <1>1. f \in 1 .. Len(loc) + 1 /\ (f =< Len(loc) => loc[f] - Hop >= 0)
    BY FirstKeptOK, Zenon
  <1>2. Len(loc) \in Nat /\ Hop \in Nat /\ \A i \in 1 .. Len(loc) : loc[i] \in Int
    BY Numbers
  <1>3. SIG!Moved(loc) = [i \in 1 .. n |-> loc[f + i - 1] - Hop]
    BY DEF SIG!Moved
  <1>. HIDE DEF f
  <1>4. n \in Nat /\ \A i \in 1 .. n : f + i - 1 \in 1 .. Len(loc) /\ f + i - 1 = (f - 1) + i
    BY <1>1, <1>2
  <1>. HIDE DEF n
  <1>5. ASSUME NEW i \in 1 .. n PROVE loc[f + i - 1] - Hop \in Int
    <2>1. loc[f + i - 1] \in Int
      BY <1>2, <1>4, Zenon
    <2>. QED BY <1>2, <2>1
  <1>6. SIG!Moved(loc) \in Seq(Int) /\ Len(SIG!Moved(loc)) = n
    BY <1>3, <1>4, <1>5
  <1>7. \A i \in 1 .. n : SIG!Moved(loc)[i] = loc[(f - 1) + i] - Hop
    BY <1>3, <1>4
  <1>8. /\ f - 1 \in 0 .. Len(loc) /\ n = Len(loc) - (f - 1)
        /\ f - 1 < Len(loc) => loc[(f - 1) + 1] - Hop >= 0
    BY <1>1, <1>2 DEF n
  <1>. QED BY <1>6, <1>7, <1>8 DEF f

\* The new points go from the peak to the end of the window, a period apart.
LEMMA NewPointsOK ==
    ASSUME nextPeak \in Int
    PROVE  LET s == SIG!NewPoints  p == SIG!Peak  t == SIG!Period IN
           /\ s \in Seq(Int) /\ p \in Int /\ t \in Nat \ {0} /\ p = nextPeak - Hop
           /\ t = PeriodOf(voiced)
           /\ \A i \in 1 .. Len(s) : s[i] = p + (i - 1) * t
           /\ p >= 4 * Hop => Len(s) = 0
           /\ p < 4 * Hop => Len(s) > 0
           /\ Len(s) > 0 => p + (Len(s) - 1) * t < 4 * Hop
           /\ p + Len(s) * t >= 4 * Hop
  <1>. DEFINE p == SIG!Peak
              t == SIG!Period
              w == 4 * Hop
              e == w - p + t - 1
              d == e \div t
              c == IF p >= w THEN 0 ELSE d
  <1>1. p \in Int /\ w \in Int /\ p = nextPeak - Hop
    BY Numbers DEF SIG!Peak
  <1>2. t \in Nat \ {0} /\ t = PeriodOf(voiced)
    BY Numbers DEF SIG!Period, PeriodOf
  <1>3. SIG!NewPoints = [i \in 1 .. c |-> p + (i - 1) * t]
    BY DEF SIG!NewPoints, SIG!WinLen
  <1>. HIDE DEF p, t, w
  <1>4. d \in Int /\ d * t =< w - p + t - 1 /\ w - p + t - 1 < (d + 1) * t
    <2>1. e \in Int /\ e = w - p + t - 1
      BY <1>1, <1>2
    <2>. HIDE DEF e
    <2>2. d \in Int /\ d * t =< e /\ e < (d + 1) * t
      BY <1>2, <2>1, SMT
    <2>. QED BY <2>1, <2>2
  <1>. HIDE DEF d
  <1>5. d * t \in Int /\ (d + 1) * t = d * t + t /\ (d - 1) * t = d * t - t
    BY <1>2, <1>4, SMT
  <1>6. p < w => d * t >= 1 /\ d > 0 /\ p + (d - 1) * t < w /\ p + d * t >= w
    <2>1. ASSUME p < w PROVE d * t >= 1 /\ p + (d - 1) * t < w /\ p + d * t >= w
      BY <1>1, <1>2, <1>4, <1>5, <2>1
    <2>2. ASSUME d * t >= 1 PROVE d > 0
      BY <1>2, <1>4, <2>2, SMT
    <2>. QED BY <2>1, <2>2
  <1>7. c \in Nat /\ (p >= w => c = 0) /\ (p < w => c > 0) /\ (c > 0 => p + (c - 1) * t < w)
        /\ p + c * t >= w
    <2>1. CASE p >= w
      <3>1. c = 0 /\ c * t = 0
        BY <1>2, <2>1
      <3>. QED BY <1>1, <2>1, <3>1
    <2>2. CASE p < w
      <3>1. c = d
        BY <1>1, <2>2
      <3>. QED BY <1>1, <1>4, <1>6, <2>2, <3>1
    <2>. QED BY <1>1, <2>1, <2>2
  <1>. HIDE DEF c
  <1>8. \A i \in 1 .. c : p + (i - 1) * t \in Int
    BY <1>1, <1>2, <1>7, SMT
  <1>9. SIG!NewPoints \in Seq(Int) /\ Len(SIG!NewPoints) = c
    BY <1>3, <1>7, <1>8
  <1>10. \A i \in 1 .. c : SIG!NewPoints[i] = p + (i - 1) * t
    BY <1>3
  <1>. QED BY <1>1, <1>2, <1>7, <1>9, <1>10 DEF p, t, w

-----------------------------------------------------------------------------
(* Signal generation.                                                       *)

\* What it works on.
SigPart == SigOK /\ cepOut \in Seq(Smooth) /\ Len(cepOut) =< Cap

LEMMA SigBlankOK == SIG!Blank /\ sigOut = <<>> => SigOK
  <1>. SUFFICES ASSUME SIG!Blank, sigOut = <<>> PROVE SigOK
    OBVIOUS
  <1>1. SIG!None \in Frames
    BY DEF SIG!None, Frames, CEP!Frames
  <1>2. /\ cepBuff \in Seq(Frames) /\ Len(cepBuff) = 3
        /\ phsBuff \in Seq(Frames) /\ Len(phsBuff) = 5
    BY <1>1 DEF SIG!Blank, SIG!CEPST_BUFF_SIZE, SIG!PHASE_BUFF_SIZE
  <1>3. SIG!TypeOK
    BY <1>2, Numbers, EmptyOK DEF SIG!Blank, SIG!TypeOK, SIG!CEPST_BUFF_SIZE, SIG!PHASE_BUFF_SIZE
  <1>4. /\ sigInBuf \in Seq(Smooth) /\ sigOutBuf \in Seq(Outs) /\ sigOut \in Seq(Outs)
        /\ locV \in Seq(Int) /\ locU \in Seq(Int)
    BY EmptyOK, Zenon DEF SIG!Blank
  <1>5. imp \in Frames /\ impResp \in Frames /\ nextPeak \in Int /\ nAvailable \in 0 .. 3
    BY <1>1, Numbers DEF SIG!Blank
  <1>. QED BY <1>2, <1>3, <1>4, <1>5 DEF SigOK, SIG!Blank

LEMMA SigInitializeOK ==
    ASSUME SigOK, NEW mode \in {"SOFT", "FULL"}, SIG!Initialize(mode), sigOut' = <<>>
    PROVE  SigOK'
  <1>1. SIG!None \in Frames
    BY DEF SIG!None, Frames, CEP!Frames
  <1>2. /\ cepBuff' \in Seq(Frames) /\ Len(cepBuff') = 3
        /\ phsBuff' \in Seq(Frames) /\ Len(phsBuff') = 5
        /\ locV' \in Seq(Int) /\ locU' \in Seq(Int) /\ nextPeak' \in Int
        /\ voiced' \in BOOLEAN /\ prevVoiced' \in BOOLEAN /\ nAvailable' \in 0 .. 3
    <2>1. CASE mode = "SOFT"
      <3>1. UNCHANGED <<cepBuff, phsBuff, nAvailable, voiced, prevVoiced, locV, locU, nextPeak>>
        BY <2>1 DEF SIG!Initialize, SIG!buffers
      <3>. QED BY <3>1 DEF SigOK, SIG!TypeOK, SIG!CEPST_BUFF_SIZE, SIG!PHASE_BUFF_SIZE
    <2>2. CASE mode = "FULL"
      <3>1. /\ cepBuff' = [i \in 1 .. 3 |-> SIG!None] /\ phsBuff' = [i \in 1 .. 5 |-> SIG!None]
            /\ nAvailable' = 0 /\ voiced' = FALSE /\ prevVoiced' = prevVoiced
            /\ locV' = <<>> /\ locU' = <<>> /\ nextPeak' = 3 * Hop
        BY <2>2 DEF SIG!Initialize, SIG!CEPST_BUFF_SIZE, SIG!PHASE_BUFF_SIZE
      <3>2. /\ cepBuff' \in Seq(Frames) /\ Len(cepBuff') = 3
            /\ phsBuff' \in Seq(Frames) /\ Len(phsBuff') = 5
        BY <1>1, <3>1
      <3>3. locV' \in Seq(Int) /\ locU' \in Seq(Int)
        BY <3>1, EmptyOK, Zenon
      <3>4. voiced' \in BOOLEAN /\ prevVoiced' \in BOOLEAN
        BY <3>1, Zenon DEF SigOK
      <3>5. nextPeak' \in Int /\ nAvailable' \in 0 .. 3
        BY <3>1, Numbers
      <3>. QED BY <3>2, <3>3, <3>4, <3>5, Zenon
    <2>3. mode = "SOFT" \/ mode = "FULL"
      OBVIOUS
    <2>. QED BY <2>1, <2>2, <2>3, Zenon
  <1>3. SIG!TypeOK'
    BY <1>2, Numbers, EmptyOK DEF SIG!Initialize, SIG!TypeOK, SIG!CEPST_BUFF_SIZE, SIG!PHASE_BUFF_SIZE
  <1>4. /\ sigInBuf' = <<>> /\ sigOutBuf' = <<>>
        /\ (sigInBuf \in Seq(Smooth))' /\ (sigOutBuf \in Seq(Outs))' /\ (sigOut \in Seq(Outs))'
    BY EmptyOK, Zenon DEF SIG!Initialize
  <1>. QED BY <1>2, <1>3, <1>4 DEF SigOK, SIG!Initialize

LEMMA SigCallOK == ASSUME SigPart, SIG!Call PROVE SigPart'
  BY DEF SigPart, SigOK, SIG!TypeOK, SIG!Call, SIG!files, SIG!buffers, SIG!points

LEMMA SigCollectOK == ASSUME SigPart, SIG!Collect PROVE SigPart'
  <1>. USE DEF SigPart, SigOK, SIG!TypeOK, SIG!Collect, SIG!At, SIG!files, SIG!buffers, SIG!points
  <1>1. CASE cepOut # <<>> /\ sigInBuf' = <<Head(cepOut)>> /\ cepOut' = Tail(cepOut)
             /\ sigProcState' = "SCHEDULE" /\ sigStatus' = "ATOMIC"
    <2>1. Head(cepOut) \in Smooth /\ cepOut' \in Seq(Smooth) /\ Len(cepOut') =< Cap
      BY <1>1, TakeOK, Numbers
    <2>2. sigInBuf' \in Seq(Smooth) /\ Len(sigInBuf') = 1
      BY <1>1, <2>1, OneOK
    <2>. QED BY <1>1, <2>1, <2>2
  <1>2. CASE sigStatus' = "IDLE" /\ UNCHANGED <<cepOut, sigInBuf, sigProcState>>
    BY <1>2
  <1>. QED BY <1>1, <1>2

LEMMA ScheduleOK ==
    ASSUME SigPart, SIG!ScheduleFrame \/ SIG!SchedulePlay \/ SIG!ScheduleSave
                    \/ SIG!ScheduleUnsave \/ SIG!ScheduleModifier
    PROVE  SigPart'
  <1>. USE DEF SigPart, SigOK, SIG!TypeOK, SIG!Scheduling, SIG!At, SIG!GoOn, SIG!buffers, SIG!points, SIG!files
  <1>1. CASE SIG!ScheduleFrame
    BY <1>1 DEF SIG!ScheduleFrame
  <1>2. CASE SIG!SchedulePlay
    BY <1>2, Numbers, EmptyOK DEF SIG!SchedulePlay
  <1>3. CASE SIG!ScheduleSave
    BY <1>3, EmptyOK DEF SIG!ScheduleSave
  <1>4. CASE SIG!ScheduleUnsave
    BY <1>4, EmptyOK DEF SIG!ScheduleUnsave
  <1>5. CASE SIG!ScheduleModifier
    BY <1>5, EmptyOK DEF SIG!ScheduleModifier
  <1>. QED BY <1>1, <1>2, <1>3, <1>4, <1>5

LEMMA ScheduleOtherOK == ASSUME SigPart, SIG!ScheduleOther PROVE SigPart'
  <1>. USE DEF SigPart, SigOK, SIG!ScheduleOther, SIG!At, SIG!GoOn, SIG!buffers, SIG!points, SIG!files
  <1>1. sigOutBuf' \in Seq(Outs) /\ Len(sigOutBuf') = 1 /\ sigInBuf' = <<>> /\ sigInBuf' \in Seq(Smooth)
    <2>1. sigInBuf \in Seq(Smooth) /\ Len(sigInBuf) = 1
      BY DEF SIG!TypeOK
    <2>2. \A x \in Smooth : x \in Outs
      BY DEF Outs
    <2>. QED BY <2>1, <2>2, EmptyOK
  <1>2. SIG!TypeOK'
    BY <1>1 DEF SIG!TypeOK
  <1>. QED BY <1>1, <1>2

\* What the steps of processing leave alone.
LEMMA InnerOK ==
    ASSUME SigPart, NEW i \in {0, 3, 4, 5, 6, 7, 8, 9},
           SIG!At("PROCESS"), sigStatus' = "BUSY", SIG!Inner(i), UNCHANGED <<cepOut, sigOut, SIG!files>>,
           /\ cepBuff' \in Seq(Frames) /\ Len(cepBuff') = 3
           /\ phsBuff' \in Seq(Frames) /\ Len(phsBuff') = 5
           /\ imp' \in Frames /\ impResp' \in Frames
           /\ voiced' \in BOOLEAN /\ prevVoiced' \in BOOLEAN /\ voicTrans' \in BOOLEAN
           /\ nAvailable' \in 0 .. 3
           /\ locV' \in Seq(Int) /\ locU' \in Seq(Int) /\ nextPeak' \in Int
    PROVE  SigPart'
  <1>. USE DEF SIG!Inner, SIG!files, SIG!At, SIG!CEPST_BUFF_SIZE, SIG!PHASE_BUFF_SIZE
  <1>1. SIG!TypeOK'
    BY DEF SigPart, SigOK, SIG!TypeOK
  <1>. QED BY <1>1 DEF SigPart, SigOK

\* The item at hand is one of parameters.
LEMMA ParAtHand ==
    ASSUME SigPart, SIG!At("PROCESS")
    PROVE  sigInBuf[1] \in Pars /\ sigInBuf[1].cep \in Frames /\ sigInBuf[1].phone \in Frames
  <1>1. sigInBuf \in Seq(Smooth) /\ Len(sigInBuf) = 1 /\ sigInBuf[1].type = "FRAME_PAR"
    BY DEF SigPart, SigOK, SIG!TypeOK, SIG!At
  <1>2. sigInBuf[1] \in Smooth
    BY <1>1, ElementOK
  <1>3. sigInBuf[1] \in Pars
    BY <1>1, <1>2, ItemsAreNoPars DEF Smooth
  <1>. QED BY <1>3 DEF Pars

\* The buffers hold frames before a step.
LEMMA BuffersOK ==
    ASSUME SigPart
    PROVE  /\ cepBuff \in Seq(Frames) /\ Len(cepBuff) = 3
           /\ phsBuff \in Seq(Frames) /\ Len(phsBuff) = 5
           /\ \A i \in 1 .. 3 : cepBuff[i] \in Frames /\ cepBuff[i].voiced \in BOOLEAN
           /\ imp \in Frames /\ impResp \in Frames
           /\ voiced \in BOOLEAN /\ prevVoiced \in BOOLEAN /\ voicTrans \in BOOLEAN
           /\ nAvailable \in 0 .. 3
           /\ locV \in Seq(Int) /\ locU \in Seq(Int) /\ nextPeak \in Int
  <1>1. cepBuff \in Seq(Frames) /\ Len(cepBuff) = 3
    BY DEF SigPart, SigOK, SIG!TypeOK, SIG!CEPST_BUFF_SIZE
  <1>2. \A i \in 1 .. 3 : cepBuff[i] \in Frames
    BY <1>1, ElementOK
  <1>3. \A i \in 1 .. 3 : cepBuff[i].voiced \in BOOLEAN
    BY <1>2 DEF Frames, CEP!Frames
  <1>. QED BY <1>1, <1>2, <1>3 DEF SigPart, SigOK, SIG!TypeOK, SIG!PHASE_BUFF_SIZE

\* What a new frame makes of the buffer of frames.
LEMMA Shifted ==
    ASSUME NEW n \in Nat \ {0}, NEW s \in Seq(Frames), Len(s) = n, NEW x \in Frames
    PROVE  /\ Append(Tail(s), x) \in Seq(Frames) /\ Len(Append(Tail(s), x)) = n
           /\ \A i \in 1 .. n - 1 : Append(Tail(s), x)[i] = s[i + 1]
           /\ Append(Tail(s), x)[n] = x
  <1>1. Tail(s) \in Seq(Frames) /\ Len(Tail(s)) = n - 1 /\ \A i \in 1 .. n - 1 : Tail(s)[i] = s[i + 1]
    OBVIOUS
  <1>2. Append(Tail(s), x) \in Seq(Frames) /\ Len(Append(Tail(s), x)) = n
    BY <1>1, AppendOK
  <1>. QED BY <1>1, <1>2

LEMMA LoadOK == ASSUME SigPart, SIG!Load PROVE SigPart'
  <1>. USE DEF SIG!Load, SIG!Processing, SIG!points
  <1>1. SIG!At("PROCESS") /\ sigStatus' = "BUSY" /\ UNCHANGED <<cepOut, sigOut, SIG!files>>
    OBVIOUS
  <1>2. /\ cepBuff' \in Seq(Frames) /\ Len(cepBuff') = 3
        /\ phsBuff' \in Seq(Frames) /\ Len(phsBuff') = 5
    BY <1>1, ParAtHand, BuffersOK, Shifted
  <1>3. cepBuff'[1] \in Frames
    <2>1. 1 \in 1 .. Len(cepBuff')
      BY <1>2
    <2>. QED BY <1>2, <2>1, ElementOK, Zenon
  <1>4. voiced' \in BOOLEAN /\ prevVoiced' \in BOOLEAN
    BY <1>3, BuffersOK DEF Frames, CEP!Frames
  <1>5. nAvailable' \in 0 .. 3
    BY BuffersOK DEF SIG!CEPST_BUFF_SIZE
  <1>6. UNCHANGED <<imp, impResp, voicTrans, locV, locU, nextPeak>>
    OBVIOUS
  <1>7. PICK i \in {0, 3} : SIG!Inner(i)
    OBVIOUS
  <1>. QED BY <1>1, <1>2, <1>4, <1>5, <1>6, <1>7, BuffersOK, InnerOK

LEMMA TransitionOK == ASSUME SigPart, SIG!Transition PROVE SigPart'
  <1>1. SIG!At("PROCESS") /\ sigStatus' = "BUSY" /\ UNCHANGED <<cepOut, sigOut, SIG!files>>
        /\ SIG!Inner(4)
    BY DEF SIG!Transition, SIG!Processing
  <1>2. UNCHANGED <<cepBuff, phsBuff, nAvailable, voiced, prevVoiced, nextPeak, imp>>
    BY DEF SIG!Transition, SIG!buffers
  <1>3. voicTrans' \in BOOLEAN /\ impResp' \in Frames /\ locV' \in Seq(Int) /\ locU' \in Seq(Int)
    BY BuffersOK, EmptyOK DEF SIG!Transition
  <1>. QED BY <1>1, <1>2, <1>3, BuffersOK, InnerOK

LEMMA InnerStepsOK ==
    ASSUME SigPart, SIG!Spectrum \/ SIG!ImpulseResponse \/ SIG!OverlapAdd
    PROVE  SigPart'
  <1>. USE DEF SIG!Processing, SIG!buffers, SIG!points
  <1>1. CASE SIG!Spectrum
    <2>1. PICK i \in {5, 6} : SIG!Inner(i)
      BY <1>1 DEF SIG!Spectrum
    <2>2. SIG!At("PROCESS") /\ sigStatus' = "BUSY" /\ UNCHANGED <<cepOut, sigOut, SIG!files>>
          /\ UNCHANGED <<SIG!buffers, SIG!points>>
      BY <1>1 DEF SIG!Spectrum
    <2>. QED BY <2>1, <2>2, BuffersOK, InnerOK
  <1>2. CASE SIG!ImpulseResponse
    BY <1>2, BuffersOK, InnerOK DEF SIG!ImpulseResponse
  <1>3. CASE SIG!OverlapAdd
    BY <1>3, BuffersOK, InnerOK DEF SIG!OverlapAdd
  <1>. QED BY <1>1, <1>2, <1>3

LEMMA ExcitationOK == ASSUME SigPart, SIG!Excitation PROVE SigPart'
  <1>. DEFINE s == SIG!NewPoints
              mV == SIG!Moved(locV)
              mU == SIG!Moved(locU)
  <1>1. SIG!At("PROCESS") /\ sigStatus' = "BUSY" /\ UNCHANGED <<cepOut, sigOut, SIG!files>>
        /\ SIG!Inner(8)
    BY DEF SIG!Excitation, SIG!Processing
  <1>2. UNCHANGED <<cepBuff, phsBuff, nAvailable, voiced, prevVoiced, voicTrans, imp, impResp>>
    BY DEF SIG!Excitation, SIG!buffers
  <1>3. s \in Seq(Int) /\ Len(s) \in Nat /\ SIG!Peak \in Int /\ SIG!Period \in Nat
    BY BuffersOK, NewPointsOK
  <1>4. mV \in Seq(Int) /\ mU \in Seq(Int)
    BY BuffersOK, MovedOK
  <1>5. /\ locV' = mV \o (IF voiced THEN s ELSE <<>>) /\ locU' = mU \o (IF voiced THEN <<>> ELSE s)
        /\ nextPeak' = SIG!Peak + Len(s) * SIG!Period
    BY DEF SIG!Excitation
  <1>. HIDE DEF s, mV, mU
  <1>6. locV' \in Seq(Int) /\ locU' \in Seq(Int)
    BY <1>3, <1>4, <1>5, EmptyOK, JoinOK
  <1>7. nextPeak' \in Int
    BY <1>3, <1>5, SMT
  <1>. QED BY <1>1, <1>2, <1>6, <1>7, BuffersOK, InnerOK

\* Two items of samples.
LEMMA SamplesOK ==
    ASSUME NEW f \in Frames
    PROVE  SIG!Samples(f) \in Seq(Outs) /\ Len(SIG!Samples(f)) = 2
  <1>1. \A h \in 1 .. 2 : [type |-> "FRAME", of |-> f, half |-> h] \in Outs
    BY DEF Outs
  <1>. QED BY <1>1 DEF SIG!Samples

LEMMA PutFrameOK == ASSUME SigPart, SIG!PutFrame PROVE SigPart'
  <1>. USE DEF SIG!PutFrame, SIG!Processing, SIG!At, SIG!buffers, SIG!points, SIG!files
  <1>1. sigOutBuf = <<>> /\ sigOutBuf \in Seq(Outs)
    BY DEF SigPart, SigOK, SIG!TypeOK
  <1>2. sigOutBuf' \in Seq(Outs) /\ Len(sigOutBuf') = 2
    BY <1>1, BuffersOK, SamplesOK, JoinOK, EmptyOK
  <1>3. sigInBuf' = <<>> /\ sigInBuf' \in Seq(Smooth) /\ Len(sigInBuf') = 0
    BY EmptyOK
  <1>4. SIG!TypeOK'
    BY <1>2, <1>3 DEF SigPart, SigOK, SIG!TypeOK
  <1>. QED BY <1>2, <1>3, <1>4 DEF SigPart, SigOK

LEMMA PlayOK == ASSUME SigPart, SIG!Play PROVE SigPart'
  <1>. USE DEF SIG!Play, SIG!At, SIG!GoOn, SIG!buffers, SIG!points, SIG!files
  <1>1. sigOutBuf = <<>> /\ sigOutBuf \in Seq(Outs) /\ playing \in -1 .. PlayLen /\ PlayLen \in Nat
    BY Numbers DEF SigPart, SigOK, SIG!TypeOK
  <1>2. CASE playing > 0
    <2>. DEFINE x == [type |-> "FRAME", of |-> SIG!None, half |-> playing]
    <2>1. x \in Outs
      BY <1>1 DEF Outs, SIG!None, Frames, CEP!Frames
    <2>2. sigOutBuf' \in Seq(Outs) /\ Len(sigOutBuf') = 1
      <3>1. sigOutBuf' = Append(sigOutBuf, x) /\ Len(sigOutBuf) = 0
        BY <1>1, <1>2, EmptyOK
      <3>. HIDE DEF x
      <3>. QED BY <1>1, <2>1, <3>1, AppendOK
    <2>3. playing' \in -1 .. PlayLen /\ playing' >= 0
      BY <1>1, <1>2
    <2>4. SIG!TypeOK'
      BY <1>2, <2>2, <2>3 DEF SigPart, SigOK, SIG!TypeOK
    <2>. QED BY <1>2, <2>2, <2>4 DEF SigPart, SigOK
  <1>3. CASE playing = 0
    <2>1. SIG!TypeOK'
      BY <1>1, <1>3 DEF SigPart, SigOK, SIG!TypeOK
    <2>. QED BY <1>3, <2>1 DEF SigPart, SigOK
  <1>. QED BY <1>1, <1>2, <1>3

LEMMA SigFeedItemOK == ASSUME SigPart, SIG!FeedItem PROVE SigPart'
  <1>. USE DEF SIG!FeedItem, SIG!Feeding, SIG!At, SIG!buffers, SIG!points
  <1>1. sigOutBuf \in Seq(Outs) /\ Len(sigOutBuf) \in 1 .. 2 /\ sigOut \in Seq(Outs) /\ Len(sigOut) < Cap
    BY DEF SigPart, SigOK, SIG!TypeOK
  <1>2. sigOutBuf[1] \in Outs /\ sigOutBuf' \in Seq(Outs) /\ Len(sigOutBuf') = Len(sigOutBuf) - 1
    BY <1>1
  <1>3. sigOut' \in Seq(Outs) /\ Len(sigOut') =< Cap
    BY <1>1, <1>2, AppendOK, Numbers
  <1>4. CASE Tail(sigOutBuf) = <<>>
    <2>1. SIG!TypeOK'
      BY <1>3, <1>4 DEF SigPart, SigOK, SIG!TypeOK
    <2>. QED BY <1>2, <1>3, <1>4, <2>1 DEF SigPart, SigOK
  <1>5. CASE Tail(sigOutBuf) # <<>>
    <2>1. Len(sigOutBuf') \in 1 .. 2 /\ sigProcState' = "FEED"
      BY <1>1, <1>2, <1>5
    <2>2. SIG!TypeOK'
      BY <1>3, <2>1 DEF SigPart, SigOK, SIG!TypeOK
    <2>. QED BY <1>2, <1>3, <2>1, <2>2 DEF SigPart, SigOK
  <1>. QED BY <1>4, <1>5

LEMMA SigFeedOtherOK == ASSUME SigPart, SIG!FeedFull \/ SIG!FeedFails PROVE SigPart'
  <1>. USE DEF SigPart, SigOK, SIG!TypeOK, SIG!Feeding, SIG!At, SIG!buffers, SIG!points
  <1>1. CASE SIG!FeedFull
    BY <1>1 DEF SIG!FeedFull
  <1>2. CASE SIG!FeedFails
    <2>1. sigOutBuf' = <<>> /\ sigOutBuf' \in Seq(Outs)
      BY <1>2, EmptyOK DEF SIG!FeedFails
    <2>. QED BY <1>2, <2>1 DEF SIG!FeedFails
  <1>. QED BY <1>1, <1>2

LEMMA SigPassOK == ASSUME SigPart, SIG!Pass PROVE SigPart'
  BY SigCollectOK, ScheduleOK, ScheduleOtherOK, LoadOK, TransitionOK, InnerStepsOK, ExcitationOK,
     PutFrameOK, PlayOK, SigFeedItemOK, SigFeedOtherOK, Zenon
     DEF SIG!Pass, SIG!Process

-----------------------------------------------------------------------------
(* Both together.                                                           *)

LEMMA TypeInit == Init => TypeInv
  <1>. SUFFICES ASSUME Init PROVE TypeInv
    OBVIOUS
  <1>1. CepOK /\ SigOK
    BY CepBlankOK, SigBlankOK DEF Init
  <1>2. TextOK
    BY BackEndAssumption DEF Init, TextOK
  <1>. QED BY <1>1, <1>2 DEF TypeInv

LEMMA TypeNext == ASSUME TypeInv, [Next]_vars PROVE TypeInv'
  <1>. USE DEF TypeInv
  <1>0. SigPart
    BY DEF SigPart, CepOK, CEP!TypeOK
  <1>1. CASE Put
    <2>1. text[sent + 1] \in Items /\ sent' \in 0 .. Len(text')
      BY <1>1 DEF Put, TextOK
    <2>2. pamOut' \in Seq(Items)
      BY <1>1, <2>1, AppendOK DEF Put, CepOK
    <2>3. CepOK' /\ SigOK'
      BY <1>1, <2>2 DEF Put, cepState, sigState, CepOK, SigOK, CEP!TypeOK, SIG!TypeOK
    <2>. QED BY <1>1, <2>1, <2>3 DEF Put, TextOK
  <1>2. CASE Take
    <2>1. sigOut' \in Seq(Outs) /\ Len(sigOut') =< Cap
      BY <1>2, TakeOK, Numbers, SMTT(30) DEF Take, SigOK, SIG!TypeOK
    <2>2. CepOK' /\ SigOK'
      BY <1>2, <2>1 DEF Take, cepState, sigState, CepOK, SigOK, CEP!TypeOK, SIG!TypeOK
    <2>3. got' \in Seq(Outs)
      BY <1>2, TakeOK, AppendOK, Zenon DEF Take, SigOK, TextOK
    <2>. QED BY <1>2, <2>2, <2>3 DEF Take, TextOK
  <1>3. CASE CepStep \/ CepPass
    <2>1. CepOK'
      BY <1>3, CepCallOK, CepPassOK, Zenon DEF CepStep, CepPass
    <2>2. SigOK'
      BY <1>3, ZenonT(30) DEF CepStep, CepPass, sigState, SigOK, SIG!TypeOK
    <2>. QED BY <1>3, <2>1, <2>2 DEF CepStep, CepPass, TextOK, history
  <1>4. CASE SigStep \/ SigPass
    <2>1. SigPart'
      BY <1>0, <1>4, SigCallOK, SigPassOK, Zenon DEF SigStep, SigPass
    <2>2. CepOK'
      BY <1>4, <2>1, SMTT(30) DEF SigPart, SigStep, SigPass, cepState, CepOK, CEP!TypeOK
    <2>. QED BY <1>4, <2>1, <2>2 DEF SigPart, SigStep, SigPass, TextOK, history
  <1>5. ASSUME NEW mode \in {"SOFT", "FULL"}, Reset(mode) PROVE TypeInv'
    <2>1. CepOK' /\ SigOK'
      BY <1>5, CepInitializeOK, SigInitializeOK, Zenon DEF Reset
    <2>2. TextOK'
      BY <1>5, BackEndAssumption DEF Reset, TextOK
    <2>. QED BY <2>1, <2>2
  <1>6. CASE UNCHANGED vars
    BY <1>6 DEF vars, CEP!vars, SIG!vars, CEP!store, CEP!window, SIG!files, SIG!buffers, SIG!points,
                history, CepOK, SigOK, TextOK, CEP!TypeOK, SIG!TypeOK
  <1>. QED BY <1>1, <1>2, <1>3, <1>4, <1>5, <1>6, Zenon DEF Next

\* No array of the two units is overrun, and no item, frame or point is read
\* where none was written: the numbers stay in their ranges, each unit holds
\* at most the item it works on, and what it works on is of the kind its
\* state says.
THEOREM BackEndTypeOK == Spec => [](TypeOK /\ TypeInv)
  <1>1. TypeInv => TypeOK /\ TypeInv
    BY DEF TypeInv, TypeOK, CepOK, SigOK
  <1>. QED BY <1>1, TypeInit, TypeNext, PTL DEF Spec

-----------------------------------------------------------------------------
(* The points of one voicing.                                               *)

\* A sequence that never falls does not fall below its first element.
LEMMA NeverBelow ==
    ASSUME NEW s \in Seq(Int), NEW b \in Int,
           s # <<>> => s[1] >= b,
           \A i \in 1 .. Len(s) - 1 : s[i + 1] >= s[i]
    PROVE  \A i \in 1 .. Len(s) : s[i] >= b
  <1>. DEFINE T == {i \in 1 .. Len(s) : s[i] < b}
  <1>1. Len(s) \in Nat /\ \A i \in 1 .. Len(s) : s[i] \in Int
    OBVIOUS
  <1>2. ASSUME T # {} PROVE FALSE
    <2>1. T \subseteq Nat
      BY <1>1
    <2>2. PICK k \in T : \A i \in T : k =< i
      <3>. HIDE DEF T
      <3>. QED BY <1>2, <2>1, LeastNumber, Zenon
    <2>3. k \in 1 .. Len(s) /\ s[k] < b
      OBVIOUS
    <2>4. k # 1
      BY <1>1, <2>3
    <2>5. k - 1 \in 1 .. Len(s) - 1 /\ k - 1 \in 1 .. Len(s) /\ (k - 1) + 1 = k
      BY <1>1, <2>3, <2>4
    <2>6. k - 1 \notin T
      BY <1>1, <2>2, <2>3
    <2>7. s[k - 1] >= b /\ s[k] >= s[k - 1]
      BY <1>1, <2>5, <2>6
    <2>. QED BY <1>1, <2>3, <2>5, <2>7
  <1>. QED BY <1>1, <1>2

\* What is left of points a period apart is a period apart, and ends with the
\* same point a hop earlier.
LEMMA MovedApart ==
    ASSUME NEW loc \in Seq(Int), NEW t \in Nat \ {0}, Apart(loc, t)
    PROVE  LET m == SIG!Moved(loc) IN
           /\ m \in Seq(Int) /\ Apart(m, t)
           /\ loc = <<>> => m = <<>>
           /\ m # <<>> => /\ Len(loc) \in Nat \ {0} /\ Len(m) \in Nat \ {0}
                          /\ m[Len(m)] = loc[Len(loc)] - Hop
  <1>. DEFINE m == SIG!Moved(loc)
              gone == SIG!FirstKept(loc) - 1
  <1>1. /\ m \in Seq(Int) /\ gone \in 0 .. Len(loc) /\ Len(m) = Len(loc) - gone
        /\ \A i \in 1 .. Len(m) : m[i] = loc[gone + i] - Hop
        /\ gone < Len(loc) => loc[gone + 1] - Hop >= 0
    BY MovedOK
  <1>2. /\ Len(loc) \in Nat /\ Hop \in Nat \ {0}
        /\ \A i \in 1 .. Len(loc) : loc[i] \in Int /\ loc[i] < 4 * Hop
        /\ \A i \in 1 .. Len(loc) - 1 : loc[i + 1] - loc[i] = t
    BY Numbers DEF Apart
  <1>. HIDE DEF m, gone
  <1>3. ASSUME NEW i \in 1 .. Len(m) - 1 PROVE m[i + 1] - m[i] = t
    <2>1. /\ i \in 1 .. Len(m) /\ i + 1 \in 1 .. Len(m)
          /\ gone + i \in 1 .. Len(loc) - 1 /\ gone + i \in 1 .. Len(loc)
          /\ (gone + i) + 1 \in 1 .. Len(loc) /\ gone + (i + 1) = (gone + i) + 1
      BY <1>1, <1>2
    <2>2. loc[(gone + i) + 1] - loc[gone + i] = t /\ loc[gone + i] \in Int /\ loc[(gone + i) + 1] \in Int
      BY <1>2, <2>1, Zenon
    <2>3. m[i + 1] = loc[(gone + i) + 1] - Hop /\ m[i] = loc[gone + i] - Hop
      BY <1>1, <2>1, Zenon
    <2>4. Hop \in Int
      BY <1>2
    <2>. QED BY <2>2, <2>3, <2>4
  <1>4. \A i \in 1 .. Len(m) : m[i] < 4 * Hop
    <2>1. ASSUME NEW i \in 1 .. Len(m) PROVE m[i] < 4 * Hop
      <3>1. gone + i \in 1 .. Len(loc)
        BY <1>1, <1>2
      <3>2. loc[gone + i] \in Int /\ loc[gone + i] < 4 * Hop /\ m[i] = loc[gone + i] - Hop
        BY <1>1, <1>2, <3>1, Zenon
      <3>. QED BY <1>2, <3>2
    <2>. QED BY <2>1
  <1>5. \A i \in 1 .. Len(m) : m[i] >= 0
    <2>1. ASSUME NEW i \in 1 .. Len(m) - 1 PROVE m[i + 1] >= m[i]
      <3>1. i \in 1 .. Len(m) /\ i + 1 \in 1 .. Len(m)
        BY <1>1, <1>2
      <3>2. m[i] \in Int /\ m[i + 1] \in Int
        BY <1>1, <3>1, ElementOK, Zenon
      <3>. QED BY <1>3, <3>2
    <2>2. ASSUME m # <<>> PROVE m[1] >= 0
      <3>1. Len(m) > 0
        BY <1>1, <2>2
      <3>2. 1 \in 1 .. Len(m) /\ gone < Len(loc)
        BY <1>1, <1>2, <3>1
      <3>. QED BY <1>1, <3>2, Zenon
    <2>3. 0 \in Int
      OBVIOUS
    <2>. QED BY <1>1, <2>1, <2>2, <2>3, NeverBelow, Zenon
  <1>6. Apart(m, t)
    <2>1. DOMAIN m = 1 .. Len(m)
      BY <1>1
    <2>2. \A i \in 1 .. Len(m) : m[i] \in Int
      BY <1>1
    <2>. QED BY <1>2, <1>3, <1>4, <1>5, <2>1, <2>2 DEF Apart
  <1>7. loc = <<>> => m = <<>>
    BY <1>1, <1>2
  <1>8. ASSUME m # <<>>
        PROVE  /\ Len(loc) \in Nat \ {0} /\ Len(m) \in Nat \ {0}
               /\ m[Len(m)] = loc[Len(loc)] - Hop
    <2>1. Len(m) \in Nat \ {0}
      BY <1>1, <1>8
    <2>2. Len(loc) \in Nat \ {0} /\ gone + Len(m) = Len(loc) /\ Len(m) \in 1 .. Len(m)
      BY <1>1, <1>2, <2>1
    <2>. QED BY <1>1, <2>1, <2>2
  <1>. QED BY <1>1, <1>6, <1>7, <1>8 DEF m

\* Multiples.
LEMMA Multiples ==
    ASSUME NEW a \in Nat, NEW b \in Nat, a =< b, NEW t \in Nat
    PROVE  a * t \in Nat /\ b * t \in Nat /\ a * t =< b * t /\ (a + 1) * t = a * t + t
  <1>1. b * t = a * t + (b - a) * t /\ a * t \in Nat /\ (b - a) * t >= 0 /\ (b - a) * t \in Int
    BY SMT
  <1>2. (a + 1) * t = a * t + t
    BY SMT
  <1>3. b * t \in Nat
    BY SMT
  <1>. QED BY <1>1, <1>2, <1>3

\* New points are a period apart and lie in the last half of the window.
LEMMA NewPointsApart ==
    ASSUME nextPeak \in Int, nextPeak >= 3 * Hop
    PROVE  /\ Apart(SIG!NewPoints, PeriodOf(voiced))
           /\ \A i \in 1 .. Len(SIG!NewPoints) : SIG!NewPoints[i] >= 2 * Hop
  <1>. DEFINE s == SIG!NewPoints
              p == SIG!Peak
              t == SIG!Period
              n == Len(s)
  <1>1. /\ s \in Seq(Int) /\ p \in Int /\ t \in Nat \ {0} /\ p = nextPeak - Hop
        /\ t = PeriodOf(voiced)
        /\ \A i \in 1 .. n : s[i] = p + (i - 1) * t
        /\ n > 0 => p + (n - 1) * t < 4 * Hop
    BY NewPointsOK
  <1>2. Hop \in Nat \ {0} /\ p >= 2 * Hop /\ n \in Nat /\ DOMAIN s = 1 .. n
    BY <1>1, Numbers
  <1>. HIDE DEF s, p, t, n
  <1>3. ASSUME NEW i \in 1 .. n
        PROVE  s[i] \in Int /\ s[i] >= 2 * Hop /\ s[i] < 4 * Hop
    <2>1. i - 1 \in Nat /\ i - 1 =< n - 1 /\ n > 0
      BY <1>2
    <2>2. (i - 1) * t \in Int /\ 0 =< (i - 1) * t /\ (i - 1) * t =< (n - 1) * t /\ (n - 1) * t \in Int
      <3>1. n - 1 \in Nat /\ t \in Nat
        BY <1>1, <1>2, <2>1
      <3>. HIDE DEF n
      <3>2. (i - 1) * t \in Nat /\ (n - 1) * t \in Nat /\ (i - 1) * t =< (n - 1) * t
        BY <2>1, <3>1, Multiples, Zenon
      <3>. QED BY <3>2
    <2>3. s[i] = p + (i - 1) * t
      BY <1>1
    <2>. DEFINE a == (i - 1) * t
                b == (n - 1) * t
    <2>4. a \in Int /\ b \in Int /\ 0 =< a /\ a =< b /\ p + b < 4 * Hop /\ s[i] = p + a
      BY <1>1, <2>1, <2>2, <2>3
    <2>. HIDE DEF a, b
    <2>. QED BY <1>1, <1>2, <2>4
  <1>4. ASSUME NEW i \in 1 .. n - 1 PROVE s[i + 1] - s[i] = t
    <2>1. i \in 1 .. n /\ i + 1 \in 1 .. n /\ (i + 1) - 1 = i /\ i \in Int
      BY <1>2
    <2>2. s[i] = p + (i - 1) * t /\ s[i + 1] = p + i * t
      BY <1>1, <2>1
    <2>3. i * t = (i - 1) * t + t /\ (i - 1) * t \in Int
      <3>1. i - 1 \in Nat /\ t \in Nat /\ (i - 1) + 1 = i /\ i - 1 =< i - 1
        BY <1>1, <2>1
      <3>2. (i - 1) * t \in Nat /\ ((i - 1) + 1) * t = (i - 1) * t + t
        BY <3>1, Multiples, Zenon
      <3>. QED BY <3>1, <3>2
    <2>. DEFINE a == (i - 1) * t
    <2>4. s[i] = p + a /\ s[i + 1] = p + (a + t) /\ a \in Int
      BY <2>2, <2>3
    <2>. HIDE DEF a
    <2>. QED BY <1>1, <2>4
  <1>5. Apart(s, t)
    BY <1>2, <1>3, <1>4 DEF Apart, n
  <1>. QED BY <1>1, <1>3, <1>5 DEF s, n

\* Points that go on where others end.
LEMMA JoinApart ==
    ASSUME NEW t \in Int, NEW m \in Seq(Int), NEW s \in Seq(Int), Apart(m, t), Apart(s, t),
           m # <<>> /\ s # <<>> => s[1] - m[Len(m)] = t
    PROVE  Apart(m \o s, t)
  <1>. DEFINE j == m \o s
  <1>1. /\ Len(m) \in Nat /\ Len(s) \in Nat /\ Len(j) = Len(m) + Len(s) /\ DOMAIN j = 1 .. Len(j)
        /\ \A i \in 1 .. Len(m) : j[i] = m[i] /\ m[i] \in Int
        /\ \A i \in Len(m) + 1 .. Len(j) : j[i] = s[i - Len(m)]
        /\ \A i \in 1 .. Len(s) : s[i] \in Int
    OBVIOUS
  <1>2. /\ \A i \in 1 .. Len(m) : m[i] \in 0 .. 4 * Hop - 1
        /\ \A i \in 1 .. Len(s) : s[i] \in 0 .. 4 * Hop - 1
        /\ \A i \in 1 .. Len(m) - 1 : m[i + 1] - m[i] = t
        /\ \A i \in 1 .. Len(s) - 1 : s[i + 1] - s[i] = t
    BY DEF Apart
  <1>. HIDE DEF j
  <1>3. ASSUME NEW i \in 1 .. Len(j) PROVE j[i] \in 0 .. 4 * Hop - 1
    <2>1. CASE i =< Len(m)
      BY <1>1, <1>2, <2>1
    <2>2. CASE i > Len(m)
      <3>1. i \in Len(m) + 1 .. Len(j) /\ i - Len(m) \in 1 .. Len(s)
        BY <1>1, <2>2
      <3>. QED BY <1>1, <1>2, <3>1, Zenon
    <2>. QED BY <1>1, <2>1, <2>2
  <1>4. ASSUME NEW i \in 1 .. Len(j) - 1 PROVE j[i + 1] - j[i] = t
    <2>1. CASE i < Len(m)
      <3>1. i \in 1 .. Len(m) - 1 /\ i \in 1 .. Len(m) /\ i + 1 \in 1 .. Len(m)
        BY <1>1, <2>1
      <3>2. j[i] = m[i] /\ j[i + 1] = m[i + 1] /\ m[i + 1] - m[i] = t
        BY <1>1, <1>2, <3>1, Zenon
      <3>. QED BY <3>2
    <2>2. CASE i = Len(m)
      <3>1. i \in 1 .. Len(m) /\ i + 1 \in Len(m) + 1 .. Len(j) /\ (i + 1) - Len(m) = 1
            /\ Len(s) > 0 /\ Len(m) > 0
        BY <1>1, <2>2
      <3>2. j[i] = m[Len(m)] /\ j[i + 1] = s[1]
        BY <1>1, <2>2, <3>1
      <3>3. m # <<>> /\ s # <<>>
        BY <3>1
      <3>. QED BY <3>2, <3>3
    <2>3. CASE i > Len(m)
      <3>1. /\ i \in Len(m) + 1 .. Len(j) /\ i + 1 \in Len(m) + 1 .. Len(j)
            /\ i - Len(m) \in 1 .. Len(s) - 1 /\ (i + 1) - Len(m) = (i - Len(m)) + 1
        BY <1>1, <2>3
      <3>2. j[i] = s[i - Len(m)] /\ j[i + 1] = s[(i - Len(m)) + 1]
        BY <1>1, <3>1, SMTT(30)
      <3>3. s[(i - Len(m)) + 1] - s[i - Len(m)] = t
        BY <1>2, <3>1, Zenon
      <3>. QED BY <3>2, <3>3
    <2>. QED BY <1>1, <2>1, <2>2, <2>3
  <1>5. Apart(j, t)
    BY <1>1, <1>3, <1>4 DEF Apart
  <1>. QED BY <1>5 DEF j

-----------------------------------------------------------------------------
(* The excitation points from step to step.                                 *)

PointsAreBlank == /\ innerProcState = 0 /\ locV = <<>> /\ locU = <<>> /\ nextPeak = 3 * Hop
                  /\ nAvailable = 0 /\ voiced = FALSE /\ cepBuff = [i \in 1 .. 3 |-> SIG!None]

LEMMA PointsBlank == PointsAreBlank => PointsOK
  <1>. SUFFICES ASSUME PointsAreBlank PROVE PointsOK
    OBVIOUS
  <1>. USE DEF PointsAreBlank
  <1>1. \A t : Apart(<<>>, t)
    BY DEF Apart
  <1>2. Continued
    BY <1>1, Numbers DEF Continued, Of, Stretch
  <1>3. Filled
    <2>1. \A i \in 1 .. 3 : cepBuff[i].voiced = FALSE
      BY DEF SIG!None
    <2>2. cepBuff[1].voiced = FALSE
      BY <2>1
    <2>3. \A i \in 1 .. 3 - nAvailable : ~ cepBuff[i].voiced
      BY <2>1
    <2>4. voiced = cepBuff[1].voiced
      BY <2>2, Zenon
    <2>. QED BY <2>3, <2>4, Zenon DEF Filled
  <1>4. Responses /\ Changed
    BY DEF Responses, Changed, Stretch
  <1>. QED BY <1>2, <1>3, <1>4 DEF PointsOK

LEMMA PointsBlankNext == PointsAreBlank' => PointsOK'
  BY PointsBlank, PTL

\* What speaks of these variables only stays true while they stay.
LEMMA PointsStay ==
    ASSUME PointsOK, UNCHANGED <<innerProcState, SIG!buffers, SIG!points>>
    PROVE  PointsOK'
  BY DEF PointsOK, Continued, Filled, Responses, Changed, Stretch, Of, PeriodOf, Apart,
         SIG!buffers, SIG!points

LEMMA PointsLoad == ASSUME SigPart, PointsOK, SIG!Load PROVE PointsOK'
  <1>1. /\ innerProcState = 0 /\ innerProcState' \in {0, 3}
        /\ (nAvailable' < 3 => innerProcState' = 0) /\ (~ (nAvailable' < 3) => innerProcState' = 3)
        /\ nAvailable' = (IF nAvailable < 3 THEN nAvailable + 1 ELSE nAvailable)
        /\ prevVoiced' = voiced /\ voiced' = cepBuff'[1].voiced
        /\ cepBuff' = Append(Tail(cepBuff), sigInBuf[1].cep)
        /\ UNCHANGED <<voicTrans, locV, locU, nextPeak, imp, impResp>>
    BY DEF SIG!Load, SIG!Processing, SIG!Inner, SIG!CEPST_BUFF_SIZE, SIG!points
  <1>2. sigInBuf[1].cep \in Frames
    BY ParAtHand DEF SIG!Load, SIG!Processing
  <1>3. \A i \in 1 .. 2 : cepBuff'[i] = cepBuff[i + 1]
    <2>. DEFINE x == sigInBuf[1].cep
    <2>1. cepBuff \in Seq(Frames) /\ Len(cepBuff) = 3 /\ x \in Frames /\ cepBuff' = Append(Tail(cepBuff), x)
      BY <1>1, <1>2, BuffersOK
    <2>. HIDE DEF x
    <2>2. 3 \in Nat \ {0} /\ 3 - 1 = 2
      OBVIOUS
    <2>3. \A i \in 1 .. 3 - 1 : Append(Tail(cepBuff), x)[i] = cepBuff[i + 1]
      BY <2>1, <2>2, Shifted, SMTT(30)
    <2>. QED BY <2>1, <2>2, <2>3, Zenon
  <1>4. Filled'
    <2>1. nAvailable \in 0 .. 3
      BY BuffersOK
    <2>2. ASSUME nAvailable' < 3, NEW i \in 1 .. 3 - nAvailable' PROVE ~ cepBuff'[i].voiced
      <3>1. nAvailable < 3 /\ i \in 1 .. 2 /\ i + 1 \in 1 .. 3 - nAvailable
        BY <1>1, <2>1, <2>2
      <3>2. ~ cepBuff[i + 1].voiced
        BY <3>1, Zenon DEF PointsOK, Filled
      <3>. QED BY <1>3, <3>1, <3>2
    <2>. QED BY <1>1, <2>2 DEF Filled
  <1>5. Stretch = voiced /\ Stretch' = voiced
    <2>1. CASE innerProcState' = 3
      BY <1>1, <2>1 DEF Stretch
    <2>2. CASE innerProcState' = 0
      <3>1. nAvailable' < 3 /\ nAvailable < 3 /\ nAvailable \in 0 .. 2 /\ nAvailable' \in 0 .. 2
        BY <1>1, <2>2, BuffersOK
      <3>2. \A k \in 0 .. 2 : 1 \in 1 .. 3 - k
        OBVIOUS
      <3>3. ~ voiced /\ ~ voiced'
        BY <1>4, <3>1, <3>2, Zenon DEF PointsOK, Filled
      <3>4. voiced \in BOOLEAN /\ voiced' \in BOOLEAN
        BY LoadOK, BuffersOK, Zenon DEF SigPart, SigOK
      <3>5. voiced' = voiced
        BY <3>3, <3>4, Zenon
      <3>6. innerProcState # 3 /\ innerProcState' # 3
        BY <1>1, <2>2
      <3>. QED BY <3>5, <3>6, Zenon DEF Stretch
    <2>. QED BY <1>1, <2>1, <2>2
  <1>6. Continued'
    BY <1>1, <1>5 DEF PointsOK, Continued, Of, PeriodOf, Apart
  <1>7. Responses' /\ Changed'
    BY <1>1, <1>5 DEF PointsOK, Responses, Changed
  <1>. QED BY <1>4, <1>6, <1>7 DEF PointsOK

LEMMA PointsTransition == ASSUME SigPart, PointsOK, SIG!Transition PROVE PointsOK'
  <1>1. /\ innerProcState = 3 /\ innerProcState' = 4
        /\ UNCHANGED <<cepBuff, nAvailable, voiced, prevVoiced, nextPeak, imp>>
    BY DEF SIG!Transition, SIG!Processing, SIG!Inner, SIG!buffers
  <1>2. Filled'
    BY <1>1 DEF PointsOK, Filled
  <1>3. voiced \in BOOLEAN /\ prevVoiced \in BOOLEAN
    BY BuffersOK
  <1>4. Stretch = prevVoiced /\ Stretch' = voiced
    BY <1>1 DEF Stretch
  <1>5. CASE voiced = prevVoiced
    <2>1. UNCHANGED <<voicTrans, impResp, locV, locU>>
      BY <1>5 DEF SIG!Transition
    <2>2. Continued'
      BY <1>1, <1>4, <1>5, <2>1 DEF PointsOK, Continued, Of, PeriodOf, Apart
    <2>3. Responses' /\ Changed'
      BY <1>1, <1>4, <1>5, <2>1 DEF PointsOK, Responses, Changed
    <2>. QED BY <1>2, <2>2, <2>3 DEF PointsOK
  <1>6. CASE voiced # prevVoiced
    <2>1. /\ voicTrans' = prevVoiced /\ impResp' = imp
          /\ locV' = (IF voiced THEN <<>> ELSE locV) /\ locU' = (IF voiced THEN locU ELSE <<>>)
      BY <1>6 DEF SIG!Transition
    <2>2. Of(voiced)' = <<>>
      BY <1>1, <2>1 DEF Of
    <2>3. Continued'
      <3>1. \A t : Apart(<<>>, t)
        BY DEF Apart
      <3>2. Apart(locV', VPeriod) /\ Apart(locU', UPeriod)
        BY <2>1, <3>1 DEF PointsOK, Continued
      <3>3. Of(Stretch)' = <<>>
        BY <1>1, <1>4, <2>2 DEF Of
      <3>4. Apart(locV, VPeriod)' /\ Apart(locU, UPeriod)'
        BY <3>2 DEF Apart
      <3>. QED BY <1>1, <3>3, <3>4 DEF PointsOK, Continued
    <2>4. Changed'
      BY <1>1, <2>2 DEF Changed, Of
    <2>5. CASE voiced
      <3>1. ~ prevVoiced
        BY <1>3, <1>6, <2>5
      <3>2. locU # <<>> => imp.voiced = prevVoiced
        BY <1>1, <1>4 DEF PointsOK, Responses
      <3>3. ~ voicTrans' /\ (locU' # <<>> => ~ impResp'.voiced)
        <4>1. locU' = locU /\ impResp' = imp /\ voicTrans' = prevVoiced
          BY <2>1, <2>5
        <4>. QED BY <3>1, <3>2, <4>1, Zenon
      <3>4. Stretch'
        BY <1>4, <2>5, Zenon
      <3>5. innerProcState' \notin {0, 3} /\ innerProcState' \notin {7, 8, 9}
        BY <1>1
      <3>6. Responses'
        BY <3>3, <3>4, <3>5, Zenon DEF Responses
      <3>. QED BY <1>2, <2>3, <2>4, <3>6 DEF PointsOK
    <2>6. CASE ~ voiced
      <3>1. prevVoiced
        BY <1>3, <1>6, <2>6
      <3>2. locV # <<>> => imp.voiced = prevVoiced
        BY <1>1, <1>4 DEF PointsOK, Responses
      <3>3. locV' # <<>> => voicTrans' /\ impResp'.voiced
        <4>1. locV' = locV /\ impResp' = imp /\ voicTrans' = prevVoiced
          BY <2>1, <2>6
        <4>. QED BY <3>1, <3>2, <4>1, Zenon
      <3>4. ~ Stretch'
        BY <1>4, <2>6, Zenon
      <3>5. innerProcState' \notin {0, 3} /\ innerProcState' \notin {7, 8, 9}
        BY <1>1
      <3>6. Responses'
        BY <3>3, <3>4, <3>5, Zenon DEF Responses
      <3>. QED BY <1>2, <2>3, <2>4, <3>6 DEF PointsOK
    <2>. QED BY <2>5, <2>6
  <1>. QED BY <1>5, <1>6

\* The steps that leave the points alone.
LEMMA PointsInner ==
    ASSUME SigPart, PointsOK, SIG!Spectrum \/ SIG!ImpulseResponse \/ SIG!OverlapAdd \/ SIG!PutFrame
    PROVE  PointsOK'
  <1>1. /\ UNCHANGED <<cepBuff, nAvailable, voiced, prevVoiced, voicTrans, locV, locU, nextPeak, impResp>>
        /\ innerProcState # 3 /\ innerProcState' # 3 /\ innerProcState # 0
    BY DEF SIG!Spectrum, SIG!ImpulseResponse, SIG!OverlapAdd, SIG!PutFrame, SIG!Processing, SIG!Inner,
           SIG!buffers, SIG!points
  <1>2. Stretch = voiced /\ Stretch' = voiced
    BY <1>1 DEF Stretch
  <1>3. Continued'
    BY <1>1, <1>2 DEF PointsOK, Continued, Of, PeriodOf, Apart
  <1>4. Filled'
    BY <1>1 DEF PointsOK, Filled
  <1>5. Changed'
    BY <1>1 DEF PointsOK, Changed, Of, SIG!Spectrum, SIG!ImpulseResponse, SIG!OverlapAdd, SIG!PutFrame,
                SIG!Processing, SIG!Inner
  <1>6. CASE SIG!Spectrum
    <2>1. innerProcState' \in {5, 6} /\ imp' = imp
      BY <1>6 DEF SIG!Spectrum, SIG!Processing, SIG!Inner, SIG!points
    <2>. QED BY <1>1, <1>2, <1>3, <1>4, <1>5, <2>1 DEF PointsOK, Responses
  <1>7. CASE SIG!ImpulseResponse
    <2>1. innerProcState' = 7 /\ imp' = cepBuff[1]
      BY <1>7 DEF SIG!ImpulseResponse, SIG!Processing, SIG!Inner
    <2>2. imp'.voiced = voiced
      BY <2>1 DEF PointsOK, Filled
    <2>. QED BY <1>1, <1>2, <1>3, <1>4, <1>5, <2>1, <2>2 DEF PointsOK, Responses
  <1>8. CASE SIG!OverlapAdd \/ SIG!PutFrame
    <2>1. innerProcState \in {8, 9} /\ innerProcState' \in {9, 0} /\ imp' = imp
      BY <1>8 DEF SIG!OverlapAdd, SIG!PutFrame, SIG!Processing, SIG!Inner, SIG!points
    <2>. QED BY <1>1, <1>2, <1>3, <1>4, <1>5, <2>1 DEF PointsOK, Responses
  <1>. QED BY <1>6, <1>7, <1>8

LEMMA PointsExcitation == ASSUME SigPart, PointsOK, SIG!Excitation PROVE PointsOK'
  <1>. DEFINE s == SIG!NewPoints
              t == SIG!Period
              mV == SIG!Moved(locV)
              mU == SIG!Moved(locU)
              loc == Of(voiced)
              m == IF voiced THEN mV ELSE mU
  <1>1. /\ innerProcState = 7 /\ innerProcState' = 8
        /\ UNCHANGED <<cepBuff, nAvailable, voiced, prevVoiced, voicTrans, imp, impResp>>
        /\ locV' = mV \o (IF voiced THEN s ELSE <<>>) /\ locU' = mU \o (IF voiced THEN <<>> ELSE s)
        /\ nextPeak' = SIG!Peak + Len(s) * t
    BY DEF SIG!Excitation, SIG!Processing, SIG!Inner, SIG!buffers
  <1>2. /\ Apart(locV, VPeriod) /\ Apart(locU, UPeriod) /\ nextPeak \in Int /\ nextPeak >= 3 * Hop
        /\ Stretch = voiced /\ Stretch' = voiced
    BY <1>1, BuffersOK DEF PointsOK, Continued, Stretch
  <1>3. loc # <<>> => loc[Len(loc)] = nextPeak - t
    BY <1>2 DEF PointsOK, Continued, SIG!Period, PeriodOf
  <1>4. /\ s \in Seq(Int) /\ SIG!Peak \in Int /\ t \in Nat \ {0} /\ SIG!Peak = nextPeak - Hop
        /\ t = PeriodOf(voiced) /\ Len(s) \in Nat
        /\ \A i \in 1 .. Len(s) : s[i] = SIG!Peak + (i - 1) * t
        /\ SIG!Peak + Len(s) * t >= 4 * Hop
        /\ Apart(s, t) /\ \A i \in 1 .. Len(s) : s[i] >= 2 * Hop
    BY <1>2, NewPointsOK, NewPointsApart
  <1>5. /\ mV \in Seq(Int) /\ Apart(mV, VPeriod) /\ (locV = <<>> => mV = <<>>)
        /\ mU \in Seq(Int) /\ Apart(mU, UPeriod) /\ (locU = <<>> => mU = <<>>)
    BY <1>2, BuffersOK, Numbers, MovedApart
  <1>6. /\ m \in Seq(Int) /\ Apart(m, t) /\ (loc = <<>> => m = <<>>)
        /\ m # <<>> => m[Len(m)] = SIG!Peak - t
    <2>1. m = SIG!Moved(loc) /\ loc \in Seq(Int) /\ Apart(loc, t) /\ t \in Nat \ {0}
      BY <1>2, <1>4, BuffersOK DEF Of, PeriodOf
    <2>2. /\ m \in Seq(Int) /\ Apart(m, t) /\ (loc = <<>> => m = <<>>)
          /\ m # <<>> => Len(loc) \in Nat \ {0} /\ m[Len(m)] = loc[Len(loc)] - Hop
      <3>. HIDE DEF loc, m, t
      <3>. QED BY <2>1, MovedApart
    <2>3. m # <<>> => m[Len(m)] = SIG!Peak - t
      <3>. HIDE DEF loc, m, t
      <3>. QED BY <1>2, <1>3, <1>4, <2>2, Numbers, SMTT(30)
    <2>. QED BY <2>2, <2>3, Zenon
  <1>. HIDE DEF s, mV, mU
  <1>7. Of(voiced)' = m \o s
    BY <1>1 DEF Of
  <1>. HIDE DEF loc, m, t
  <1>8. ASSUME Len(s) # 0 PROVE s[1] = SIG!Peak
    <2>1. 1 \in 1 .. Len(s)
      BY <1>4, <1>8
    <2>2. s[1] = SIG!Peak + (1 - 1) * t
      BY <1>4, <2>1
    <2>3. (1 - 1) * t = 0
      BY <1>4, SMT
    <2>. QED BY <1>4, <2>2, <2>3
  <1>9. Apart(m \o s, t)
    <2>1. ASSUME m # <<>>, s # <<>> PROVE s[1] - m[Len(m)] = t
      BY <1>4, <1>6, <1>8, <2>1
    <2>. QED BY <1>4, <1>6, <2>1, JoinApart
  <1>10. m \o s # <<>> => (m \o s)[Len(m \o s)] = nextPeak' - t
    <2>1. CASE s = <<>>
      <3>1. m \o s = m /\ Len(s) = 0 /\ Len(s) * t = 0
        BY <1>4, <1>6, <2>1, SMT
      <3>. QED BY <1>1, <1>4, <1>6, <3>1
    <2>2. CASE s # <<>>
      <3>1. Len(s) \in Nat \ {0} /\ Len(m) \in Nat
        BY <1>4, <1>6, <2>2
      <3>2. (m \o s)[Len(m \o s)] = s[Len(s)]
        BY <1>4, <1>6, <3>1
      <3>3. s[Len(s)] = SIG!Peak + (Len(s) - 1) * t
        BY <1>4, <3>1
      <3>. DEFINE n == Len(s)
                  a == (n - 1) * t
      <3>4. n * t = a + t /\ a \in Int
        <4>1. n - 1 \in Nat /\ t \in Nat /\ (n - 1) + 1 = n /\ n - 1 =< n - 1
          BY <1>4, <3>1
        <4>. HIDE DEF n
        <4>2. (n - 1) * t \in Nat /\ ((n - 1) + 1) * t = (n - 1) * t + t
          BY <4>1, Multiples, Zenon
        <4>. QED BY <4>1, <4>2
      <3>5. nextPeak' = SIG!Peak + n * t /\ s[Len(s)] = SIG!Peak + a
        BY <1>1, <3>3
      <3>. HIDE DEF n, a
      <3>. QED BY <1>4, <3>2, <3>4, <3>5
    <2>. QED BY <2>1, <2>2
  <1>11. Continued'
    <2>1. voiced => locV' = m \o s /\ locU' = mU
      BY <1>1, <1>5, <1>7, SMTT(30) DEF Of
    <2>2. ~ voiced => locU' = m \o s /\ locV' = mV
      BY <1>1, <1>5, <1>7, SMTT(30) DEF Of
    <2>3. t = (IF voiced THEN VPeriod ELSE UPeriod)
      BY <1>4 DEF PeriodOf
    <2>4. Apart(locV', VPeriod) /\ Apart(locU', UPeriod)
      BY <1>5, <1>9, <2>1, <2>2, <2>3
    <2>5. (Apart(locV, VPeriod) /\ Apart(locU, UPeriod))'
      BY <2>4 DEF Apart
    <2>6. nextPeak' >= 3 * Hop
      <3>. DEFINE x == SIG!Peak + Len(s) * t
      <3>1. nextPeak' = x /\ x >= 4 * Hop
        BY <1>1, <1>4
      <3>2. x \in Int
        BY <1>4, SMT
      <3>. HIDE DEF x
      <3>. QED BY <3>1, <3>2, Numbers
    <2>7. Of(Stretch)' = m \o s /\ PeriodOf(Stretch)' = t
      BY <1>1, <1>2, <1>4, <1>7 DEF Of, PeriodOf
    <2>. QED BY <1>10, <2>5, <2>6, <2>7 DEF Continued
  <1>12. Filled'
    BY <1>1 DEF PointsOK, Filled
  <1>13. Responses'
    <2>1. /\ voiced => (locU' # <<>> => locU # <<>>)
          /\ ~ voiced => (locV' # <<>> => locV # <<>>)
      BY <1>1, <1>5
    <2>. QED BY <1>1, <1>2, <2>1 DEF PointsOK, Responses
  <1>14. Changed'
    <2>1. ASSUME voiced # prevVoiced, NEW i \in DOMAIN (m \o s) PROVE (m \o s)[i] >= 2 * Hop
      <3>1. m = <<>>
        BY <1>1, <1>6, <2>1 DEF PointsOK, Changed, loc
      <3>2. m \o s = s /\ DOMAIN s = 1 .. Len(s)
        BY <1>4, <3>1
      <3>. QED BY <1>4, <2>1, <3>2
    <2>2. Of(voiced)' = m \o s /\ voiced' = voiced /\ prevVoiced' = prevVoiced /\ innerProcState' = 8
      BY <1>1, <1>7
    <2>. QED BY <2>1, <2>2 DEF Changed
  <1>. QED BY <1>11, <1>12, <1>13, <1>14 DEF PointsOK

LEMMA PointsPass == ASSUME SigPart, PointsOK, SIG!Pass PROVE PointsOK'
  <1>1. CASE SIG!Process
    BY <1>1, PointsLoad, PointsTransition, PointsInner, PointsExcitation, Zenon DEF SIG!Process
  <1>2. CASE ~ SIG!Process
    <2>1. UNCHANGED <<innerProcState, SIG!buffers, SIG!points>>
      BY <1>2 DEF SIG!Pass, SIG!Collect, SIG!ScheduleFrame, SIG!SchedulePlay, SIG!ScheduleSave,
                  SIG!ScheduleUnsave, SIG!ScheduleModifier, SIG!ScheduleOther, SIG!Scheduling,
                  SIG!Play, SIG!FeedItem, SIG!FeedFull, SIG!FeedFails, SIG!Feeding
    <2>. QED BY <2>1, PointsStay
  <1>. QED BY <1>1, <1>2

LEMMA PointsInit == Init => PointsInv
  <1>. SUFFICES ASSUME Init PROVE PointsInv
    OBVIOUS
  <1>1. PointsOK
    BY PointsBlank DEF PointsAreBlank, Init, SIG!Blank, SIG!CEPST_BUFF_SIZE
  <1>. QED BY <1>1 DEF PointsInv

LEMMA PointsNext == ASSUME TypeInv, PointsInv, [Next]_vars PROVE PointsInv'
  <1>0. SigPart
    BY DEF TypeInv, SigPart, CepOK, CEP!TypeOK
  <1>1. CASE Put \/ Take \/ CepStep \/ CepPass \/ UNCHANGED vars
    <2>1. UNCHANGED <<innerProcState, SIG!buffers, SIG!points>> /\ resetMode' = resetMode
      BY <1>1 DEF Put, Take, CepStep, CepPass, vars, SIG!vars, sigState, history, SIG!buffers, SIG!points
    <2>. QED BY <2>1, PointsStay DEF PointsInv
  <1>2. CASE SigStep
    <2>1. UNCHANGED <<innerProcState, SIG!buffers, SIG!points>> /\ resetMode' = resetMode
      BY <1>2 DEF SigStep, SIG!Call, history
    <2>. QED BY <2>1, PointsStay DEF PointsInv
  <1>3. CASE SigPass
    <2>1. SIG!Pass /\ resetMode' = resetMode
      BY <1>3 DEF SigPass, history
    <2>. QED BY <1>0, <2>1, PointsPass DEF PointsInv
  <1>4. ASSUME NEW mode \in {"SOFT", "FULL"}, Reset(mode) PROVE PointsInv'
    <2>1. CASE mode = "SOFT"
      BY <1>4, <2>1 DEF Reset, PointsInv
    <2>2. CASE mode = "FULL"
      <3>1. /\ innerProcState' = 0 /\ locV' = <<>> /\ locU' = <<>> /\ nextPeak' = 3 * Hop
            /\ nAvailable' = 0 /\ voiced' = FALSE /\ cepBuff' = [i \in 1 .. 3 |-> SIG!None]
        BY <1>4, <2>2 DEF Reset, SIG!Initialize, SIG!CEPST_BUFF_SIZE
      <3>2. PointsOK'
        BY <3>1, PointsBlankNext, Zenon DEF PointsAreBlank
      <3>. QED BY <3>2 DEF PointsInv
    <2>3. mode = "SOFT" \/ mode = "FULL"
      OBVIOUS
    <2>. QED BY <2>1, <2>2, <2>3, Zenon
  <1>. QED BY <1>1, <1>2, <1>3, <1>4, Zenon DEF Next

\* The invariant says of the points what PointsFit says.
LEMMA PointsInvFits == ASSUME TypeInv, PointsInv PROVE PointsFit
  <1>. SUFFICES ASSUME PointsOK PROVE
          /\ Apart(locV, VPeriod) /\ Apart(locU, UPeriod)
          /\ innerProcState = 8 =>
                /\ locV # <<>> => SIG!ResponseV.voiced
                /\ locU # <<>> => ~ SIG!ResponseU.voiced
                /\ voiced # prevVoiced => \A i \in DOMAIN Of(voiced) : Of(voiced)[i] >= 2 * Hop
    BY DEF PointsInv, PointsFit, Of
  <1>1. Apart(locV, VPeriod) /\ Apart(locU, UPeriod)
    BY DEF PointsOK, Continued
  <1>2. ASSUME innerProcState = 8
        PROVE  /\ locV # <<>> => SIG!ResponseV.voiced
               /\ locU # <<>> => ~ SIG!ResponseU.voiced
               /\ voiced # prevVoiced => \A i \in DOMAIN Of(voiced) : Of(voiced)[i] >= 2 * Hop
    <2>1. Stretch = voiced /\ imp.voiced = voiced /\ voiced \in BOOLEAN
      BY <1>2 DEF PointsOK, Responses, Stretch, TypeInv, SigOK
    <2>2. /\ voiced => ~ voicTrans /\ (locU # <<>> => ~ impResp.voiced)
          /\ ~ voiced => (locV # <<>> => voicTrans /\ impResp.voiced)
      BY <2>1, Zenon DEF PointsOK, Responses
    <2>3. ASSUME locV # <<>> PROVE SIG!ResponseV.voiced
      BY <2>1, <2>2, <2>3, Zenon DEF SIG!ResponseV
    <2>4. ASSUME locU # <<>> PROVE ~ SIG!ResponseU.voiced
      BY <2>1, <2>2, <2>4, Zenon DEF SIG!ResponseU
    <2>5. voiced # prevVoiced => \A i \in DOMAIN Of(voiced) : Of(voiced)[i] >= 2 * Hop
      BY <1>2 DEF PointsOK, Changed
    <2>. QED BY <2>3, <2>4, <2>5
  <1>. QED BY <1>1, <1>2

\* Until a soft reset the excitation points of one voicing stay a period apart
\* and inside the window, from frame to frame and across changes of voicing,
\* and every point gets an impulse response of its own voicing
\* (get_simple_excitation, save_transition_frame and td_psola2).
THEOREM BackEndPointsFit == Spec => []PointsFit
  <1>1. Init => TypeInv /\ PointsInv
    BY TypeInit, PointsInit, Zenon
  <1>2. TypeInv /\ PointsInv /\ [Next]_vars => (TypeInv /\ PointsInv)'
    BY TypeNext, PointsNext, Zenon
  <1>3. TypeInv /\ PointsInv => PointsFit
    BY PointsInvFits, Zenon
  <1>. QED BY <1>1, <1>2, <1>3, PTL DEF Spec

-----------------------------------------------------------------------------
(* The units keep the protocol that the control relies on.                  *)

\* A step of one unit has ended when the other one's begins.
OneUnit == ~ (cepStatus = "RUNNING" /\ sigStatus = "RUNNING")

\* While the store for items has not run over, frames are put only of a whole
\* sentence, from its first one on, and no item waits for a later frame.
PuttingFrames == cepProcState = "FRAME" \/ (cepProcState = "FEED" /\ feedFollowState = "FRAME")
FramesInv ==
    ~ forced =>
        /\ ~ CEP!Producing => headxBottom = 0
        /\ CEP!Producing => sentenceEnd /\ activeEndPos = indexWritePos
        /\ cepProcState = "SMOOTH" => headxBottom = 0
        /\ PuttingFrames => indexReadPos =< activeEndPos
        /\ PuttingFrames /\ cepProcState = "FEED" => headxBottom + indexReadPos > 0
        /\ \A i \in 1 .. Len(headx) : headx[i].frame =< indexWritePos

\* What smoothing holds and has ready.
cepHeld == Len(cepInBuf) + (IF CEP!Collected /\ ~ CEP!Producing THEN 1 ELSE 0)
cepReady == Len(cepOutBuf) + (IF CEP!Producing
                THEN activeEndPos + Len(headx) - headxBottom
                     - (IF cepProcState = "SMOOTH" THEN 0 ELSE indexReadPos) ELSE 0)

\* The queues of smoothing as numbers of items.
CepNumbers == /\ Len(pamOut) \in Nat /\ Len(cepOut) \in Nat /\ Len(cepOut) =< Cap
              /\ Len(cepInBuf) \in Nat /\ Len(cepOutBuf) \in Nat /\ Len(headx) \in Nat
              /\ Len(cepInBuf) =< 1 /\ Len(headx) =< CepHeadx
              /\ Len(cepOutBuf) = (IF cepProcState = "FEED" THEN 1 ELSE 0)
              /\ headxBottom \in Nat /\ headxBottom =< Len(headx)
              /\ indexReadPos \in 0 .. MaxWinLen /\ indexWritePos \in 0 .. MaxWinLen
              /\ activeEndPos \in 0 .. MaxWinLen

LEMMA CepNumbersOK == TypeInv => CepNumbers
  <1>. SUFFICES ASSUME TypeInv PROVE CepNumbers
    OBVIOUS
  <1>1. /\ Len(pamOut) \in Nat /\ Len(cepOut) \in Nat
        /\ Len(cepInBuf) \in Nat /\ Len(cepOutBuf) \in Nat /\ Len(headx) \in Nat
    BY DEF TypeInv, CepOK
  <1>2. /\ Len(cepOut) =< Cap /\ Len(cepInBuf) =< 1 /\ Len(headx) =< CepHeadx
        /\ Len(cepOutBuf) = (IF cepProcState = "FEED" THEN 1 ELSE 0)
        /\ headxBottom \in 0 .. Len(headx)
        /\ {indexReadPos, indexWritePos, activeEndPos} \subseteq 0 .. MaxWinLen
    BY DEF TypeInv, CepOK, CEP!TypeOK
  <1>3. headxBottom \in Nat /\ headxBottom =< Len(headx)
    BY <1>1, <1>2
  <1>. QED BY <1>1, <1>2, <1>3 DEF CepNumbers

LEMMA CepNumbersOKNext == TypeInv' => CepNumbers'
  BY CepNumbersOK, PTL

\* What is held and ready stays within what the protocol allows.
CepCounts == cepHeld \in 0 .. 2 /\ cepReady \in 0 .. MaxWinLen + CepHeadx

LEMMA CepCountsOK == CepNumbers /\ FramesInv /\ ~ forced => CepCounts
  <1>. SUFFICES ASSUME CepNumbers, FramesInv, ~ forced PROVE CepCounts
    OBVIOUS
  <1>1. cepHeld \in 0 .. 2
    <2>1. cepHeld = Len(cepInBuf) \/ cepHeld = Len(cepInBuf) + 1
      BY DEF cepHeld, CepNumbers
    <2>2. Len(cepInBuf) \in Nat /\ Len(cepInBuf) =< 1
      BY DEF CepNumbers
    <2>. QED BY <2>1, <2>2
  <1>2. cepReady \in 0 .. MaxWinLen + CepHeadx
    <2>1. CASE ~ CEP!Producing
      BY <2>1, Numbers DEF cepReady, CepNumbers
    <2>2. CASE CEP!Producing
      <3>1. CASE cepProcState = "SMOOTH"
        <4>1. cepReady = activeEndPos + Len(headx) - headxBottom /\ headxBottom = 0
          BY <3>1, <2>2 DEF cepReady, CepNumbers, FramesInv
        <4>. QED BY <4>1, Numbers DEF CepNumbers
      <3>2. CASE cepProcState # "SMOOTH"
        <4>1. PuttingFrames
          BY <2>2, <3>2 DEF CEP!Producing, PuttingFrames
        <4>2. /\ cepReady = Len(cepOutBuf) + (activeEndPos + Len(headx) - headxBottom - indexReadPos)
              /\ indexReadPos =< activeEndPos
              /\ Len(cepOutBuf) = 0 \/ (Len(cepOutBuf) = 1 /\ headxBottom + indexReadPos > 0)
          BY <4>1, <2>2, <3>2 DEF cepReady, CepNumbers, FramesInv
        <4>. QED BY <4>2, Numbers DEF CepNumbers
      <3>. QED BY <3>1, <3>2
    <2>. QED BY <2>1, <2>2
  <1>. QED BY <1>1, <1>2 DEF CepCounts

LEMMA CepCountsOKNext == CepNumbers' /\ FramesInv' /\ ~ forced' => CepCounts'
  BY CepCountsOK, PTL

\* What the protocol asks of a pass, in numbers of items before and after it.
LEMMA CepPassByCounts ==
    ASSUME CepNumbers, CepNumbers', CepCounts, CepCounts', cepStatus = "RUNNING",
           Len(pamOut)' =< Len(pamOut), Len(cepOut) =< Len(cepOut)',
           cepHeld + Len(pamOut) - Len(pamOut)' - cepHeld' >= 0,
           cepReady' - cepReady + Len(cepOut)' - Len(cepOut) >= 0,
           cepReady' - cepReady + Len(cepOut)' - Len(cepOut) > 0
              => cepHeld + Len(pamOut) - Len(pamOut)' - cepHeld' > 0,
           \/ cepStatus' \in {"RUNNING", "BUSY"}
           \/ cepStatus' = "IDLE" /\ Len(pamOut)' = 0 /\ cepReady' = 0
           \/ cepStatus' = "OUT_FULL" /\ cepReady' > 0 /\ Len(cepOut)' = Cap
    PROVE  CEP!Protocol!Pass
  <1>. DEFINE i == Len(pamOut)  i2 == Len(pamOut)'
              h == cepHeld      h2 == cepHeld'
              r == cepReady     r2 == cepReady'
              o == Len(cepOut)  o2 == Len(cepOut)'
              took == i - i2
              put == o2 - o
              done == h + took - h2
              made == r2 - r + put
  <1>1. /\ i \in Nat /\ i2 \in Nat /\ o \in Nat /\ o2 \in Nat /\ o2 =< Cap
        /\ h \in Nat /\ h2 \in Nat /\ r \in Nat /\ r2 \in Nat
        /\ h2 =< 2 /\ r2 =< MaxWinLen + CepHeadx
        /\ Cap \in Nat /\ MaxWinLen \in Nat /\ CepHeadx \in Nat
    <2>1. i \in Nat /\ i2 \in Nat /\ o \in Nat /\ o2 \in Nat /\ o2 =< Cap
      BY DEF CepNumbers
    <2>2. /\ h \in 0 .. 2 /\ h2 \in 0 .. 2
          /\ r \in 0 .. MaxWinLen + CepHeadx /\ r2 \in 0 .. MaxWinLen + CepHeadx
      BY DEF CepCounts
    <2>. HIDE DEF i, i2, h, h2, r, r2, o, o2
    <2>. QED BY <2>1, <2>2, Numbers
  <1>2. /\ i2 =< i /\ o =< o2 /\ h + i - i2 - h2 >= 0 /\ r2 - r + o2 - o >= 0
        /\ r2 - r + o2 - o > 0 => h + i - i2 - h2 > 0
        /\ \/ cepStatus' \in {"RUNNING", "BUSY"}
           \/ cepStatus' = "IDLE" /\ i2 = 0 /\ r2 = 0
           \/ cepStatus' = "OUT_FULL" /\ r2 > 0 /\ o2 = Cap
    OBVIOUS
  <1>. HIDE DEF i, i2, h, h2, r, r2, o, o2
  <1>3. took >= 0 /\ put >= 0 /\ done >= 0 /\ made >= 0
    BY <1>1, <1>2
  <1>4. CEP!Protocol!Unit!Moves(0, took, done, made, put)
    <2>1. /\ took =< i /\ done =< h + took /\ h + took - done =< 2 /\ (made > 0 => done > 0)
          /\ put =< r + made /\ r + made - put =< MaxWinLen + CepHeadx /\ put =< Cap - o
      BY <1>1, <1>2
    <2>. QED BY <2>1 DEF CEP!Protocol!Unit!Moves, i, h, r, o, cepHeld, cepReady
  <1>5. \/ cepStatus' = "RUNNING"
        \/ /\ cepStatus' \in CEP!Protocol!Unit!PuStatus
           /\ CEP!Protocol!Unit!Reason(0, took, done, made, put, cepStatus')
    <2>1. /\ cepStatus' = "IDLE" => took = i /\ r + made - put = 0
          /\ cepStatus' = "OUT_FULL" => r + made - put > 0 /\ o + put = Cap
          /\ cepStatus' \in {"RUNNING", "BUSY", "IDLE", "OUT_FULL"}
      BY <1>1, <1>2
    <2>. QED BY <2>1 DEF CEP!Protocol!Unit!Reason, CEP!Protocol!Unit!ReadyAfter,
                         CEP!Protocol!Unit!PuStatus, i, r, o, cepReady
  <1>. QED BY <1>3, <1>4, <1>5
           DEF CEP!Protocol!Pass, i, i2, h, h2, r, r2, o, o2, cepHeld, cepReady

\* The facts about frames are kept by each case of cepStep's switch.
LEMMA FramesParse == ASSUME TypeInv, TypeInv', FramesInv, CEP!Parse PROVE FramesInv'
  <1>. SUFFICES ASSUME ~ forced' PROVE FramesInv'
    BY DEF FramesInv
  <1>0. CepNumbers /\ CepNumbers'
    BY CepNumbersOK, CepNumbersOKNext
  <1>1. CASE CEP!ParseNone \/ CEP!ParseIgnored \/ CEP!ParseConsumed \/ CEP!ParseForward
    <2>1. /\ cepProcState = "PARSE" /\ cepProcState' \in {"COLLECT", "PARSE", "FEED"}
          /\ cepProcState' = "FEED" => feedFollowState' = "PARSE"
          /\ UNCHANGED <<headx, headxBottom, indexWritePos, forced>>
      BY <1>1 DEF CEP!ParseNone, CEP!ParseIgnored, CEP!ParseConsumed, CEP!ParseForward,
                  CEP!ParsingOther, CEP!Parsing, CEP!At, CEP!store, CEP!window
    <2>. QED BY <2>1 DEF FramesInv, CEP!Producing, PuttingFrames
  <1>2. CASE CEP!ParseSentenceEnd
    <2>1. /\ cepProcState = "PARSE" /\ cepProcState' = "SMOOTH"
          /\ sentenceEnd' = TRUE /\ activeEndPos' = indexWritePos
          /\ UNCHANGED <<headx, headxBottom, indexWritePos, forced>>
      BY <1>2 DEF CEP!ParseSentenceEnd, CEP!ToSmooth, CEP!Parsing, CEP!At, CEP!store
    <2>. QED BY <2>1 DEF FramesInv, CEP!Producing, PuttingFrames
  <1>3. CASE CEP!ParsePhone
    <2>1. /\ cepProcState = "PARSE" /\ cepProcState' = "PARSE"
          /\ UNCHANGED <<headx, headxBottom, forced>>
      BY <1>3 DEF CEP!ParsePhone, CEP!Parsing, CEP!At, CEP!store
    <2>2. indexWritePos' >= indexWritePos
      <3>. DEFINE fr == CEP!UpTo(CEP!FramesOf(CEP!Item), MaxWinLen - indexWritePos)
      <3>1. indexWritePos' = indexWritePos + Len(fr)
        BY <1>3 DEF CEP!ParsePhone
      <3>2. Len(fr) \in Nat
        <4>1. CEP!Item \in Items /\ CEP!Item.type = "PHONE"
          BY <1>3, TakeOK DEF CEP!ParsePhone, CEP!Item, TypeInv, CepOK
        <4>2. CEP!FramesOf(CEP!Item) \in Seq(Frames)
          BY <4>1, FramesOfOK, Zenon
        <4>3. MaxWinLen - indexWritePos \in Nat
          BY <1>0, Numbers DEF CepNumbers
        <4>4. Len(fr) \in 0 .. MaxWinLen - indexWritePos
          BY <4>2, <4>3, UpToOK
        <4>. HIDE DEF fr
        <4>. QED BY <4>4
      <3>. HIDE DEF fr
      <3>. QED BY <1>0, <3>1, <3>2 DEF CepNumbers
    <2>3. /\ headxBottom = 0 /\ \A i \in 1 .. Len(headx) : headx[i].frame =< indexWritePos
      BY <2>1 DEF FramesInv, CEP!Producing
    <2>4. ASSUME NEW i \in 1 .. Len(headx) PROVE headx[i].frame =< indexWritePos'
      <3>1. headx \in Seq([item : Items, frame : 0 .. MaxWinLen])
        BY DEF TypeInv, CepOK
      <3>2. headx[i] \in [item : Items, frame : 0 .. MaxWinLen]
        BY <3>1, ElementOK
      <3>3. headx[i].frame \in 0 .. MaxWinLen /\ headx[i].frame =< indexWritePos
        BY <2>3, <3>2
      <3>4. indexWritePos \in 0 .. MaxWinLen /\ indexWritePos' \in 0 .. MaxWinLen
        BY <1>0 DEF CepNumbers
      <3>. QED BY <2>2, <3>3, <3>4, Numbers
    <2>. QED BY <2>1, <2>3, <2>4 DEF FramesInv, CEP!Producing, PuttingFrames
  <1>4. CASE CEP!ParseStore
    <2>. DEFINE x == [item |-> CEP!Item, frame |-> indexWritePos]
    <2>1. /\ cepProcState = "PARSE" /\ cepProcState' = "PARSE" /\ headx' = Append(headx, x)
          /\ UNCHANGED <<headxBottom, indexWritePos, forced>>
      BY <1>4 DEF CEP!ParseStore, CEP!ParsingOther, CEP!Parsing, CEP!At
    <2>2. headxBottom = 0 /\ \A i \in 1 .. Len(headx) : headx[i].frame =< indexWritePos
      BY <2>1 DEF FramesInv, CEP!Producing
    <2>3. x.frame =< indexWritePos
      BY <1>0 DEF CepNumbers
    <2>4. headx \in Seq([item : Items, frame : 0 .. MaxWinLen])
      BY DEF TypeInv, CepOK
    <2>. HIDE DEF x
    <2>5. \A i \in 1 .. Len(headx') : headx'[i].frame =< indexWritePos
      BY <2>1, <2>2, <2>3, <2>4
    <2>. QED BY <2>1, <2>2, <2>5 DEF FramesInv, CEP!Producing, PuttingFrames
  <1>5. CASE CEP!ParseForced
    BY <1>5 DEF CEP!ParseForced
  <1>. QED BY <1>1, <1>2, <1>3, <1>4, <1>5 DEF CEP!Parse

\* When the last frame is out, so are all items that waited.
LEMMA AllOut ==
    ASSUME TypeInv, FramesInv, ~ forced, CEP!FramesDone
    PROVE  sentenceEnd /\ indexReadPos = activeEndPos /\ headxBottom = Len(headx)
  <1>0. CepNumbers
    BY CepNumbersOK
  <1>1. /\ cepProcState = "FRAME" /\ ~ CEP!Due /\ indexReadPos >= activeEndPos
    BY DEF CEP!FramesDone, CEP!Framing, CEP!At
  <1>2. /\ sentenceEnd /\ activeEndPos = indexWritePos /\ indexReadPos =< activeEndPos
        /\ \A i \in 1 .. Len(headx) : headx[i].frame =< indexWritePos
    BY <1>1 DEF FramesInv, CEP!Producing, PuttingFrames
  <1>3. indexReadPos = activeEndPos
    BY <1>0, <1>1, <1>2 DEF CepNumbers
  <1>4. headxBottom = Len(headx)
    <2>1. SUFFICES ASSUME headxBottom < Len(headx) PROVE FALSE
      BY <1>0 DEF CepNumbers
    <2>2. headxBottom + 1 \in 1 .. Len(headx)
      BY <1>0, <2>1 DEF CepNumbers
    <2>3. headx[headxBottom + 1].frame =< indexReadPos
      BY <1>2, <1>3, <2>2
    <2>. QED BY <1>1, <2>1, <2>3 DEF CEP!Due
  <1>. QED BY <1>2, <1>3, <1>4

LEMMA FramesPut ==
    ASSUME TypeInv, TypeInv', FramesInv,
           CEP!Smooth \/ CEP!FrameItem \/ CEP!FramePar \/ CEP!FramesDone \/ CEP!Feed
    PROVE  FramesInv'
  <1>. SUFFICES ASSUME ~ forced' PROVE FramesInv'
    BY DEF FramesInv
  <1>0. CepNumbers /\ CepNumbers'
    BY CepNumbersOK, CepNumbersOKNext
  <1>1. CASE CEP!Smooth
    <2>1. /\ cepProcState = "SMOOTH" /\ cepProcState' = "FRAME" /\ indexReadPos' = 0
          /\ UNCHANGED <<sentenceEnd, headx, headxBottom, indexWritePos, activeEndPos, forced>>
      BY <1>1 DEF CEP!Smooth, CEP!At, CEP!store
    <2>2. indexReadPos' =< activeEndPos
      BY <1>0, <2>1 DEF CepNumbers
    <2>. QED BY <2>1, <2>2 DEF FramesInv, CEP!Producing, PuttingFrames
  <1>2. CASE CEP!FrameItem \/ CEP!FramePar
    <2>1. /\ cepProcState = "FRAME" /\ cepProcState' = "FEED" /\ feedFollowState' = "FRAME"
          /\ UNCHANGED <<sentenceEnd, headx, indexWritePos, activeEndPos, forced>>
          /\ \/ headxBottom' = headxBottom + 1 /\ UNCHANGED indexReadPos
             \/ indexReadPos' = indexReadPos + 1 /\ indexReadPos < activeEndPos /\ UNCHANGED headxBottom
      BY <1>2 DEF CEP!FrameItem, CEP!FramePar, CEP!Framing, CEP!At, CEP!store
    <2>2. indexReadPos =< activeEndPos
      BY <2>1 DEF FramesInv, PuttingFrames
    <2>3. indexReadPos' =< activeEndPos /\ headxBottom' + indexReadPos' > 0
      <3>1. /\ headxBottom \in Nat /\ indexReadPos \in 0 .. MaxWinLen
            /\ activeEndPos \in 0 .. MaxWinLen
        BY <1>0 DEF CepNumbers
      <3>2. CASE headxBottom' = headxBottom + 1 /\ UNCHANGED indexReadPos
        BY <2>2, <3>1, <3>2, Numbers
      <3>3. CASE indexReadPos' = indexReadPos + 1 /\ indexReadPos < activeEndPos /\ UNCHANGED headxBottom
        BY <3>1, <3>3, Numbers
      <3>. QED BY <2>1, <3>2, <3>3
    <2>. QED BY <2>1, <2>3 DEF FramesInv, CEP!Producing, PuttingFrames
  <1>3. CASE CEP!FramesDone
    <2>1. sentenceEnd
      BY <1>3, AllOut DEF CEP!FramesDone, CEP!Framing
    <2>2. cepProcState' = "PARSE" /\ headxBottom' = 0 /\ headx' = <<>>
      BY <1>3, <2>1 DEF CEP!FramesDone
    <2>. QED BY <2>2 DEF FramesInv, CEP!Producing, PuttingFrames
  <1>4. CASE CEP!Feed
    <2>1. /\ cepProcState = "FEED"
          /\ \/ cepProcState' = feedFollowState
             \/ cepProcState' = "FEED"
          /\ feedFollowState \in {"PARSE", "FRAME"}
          /\ UNCHANGED <<feedFollowState, sentenceEnd, headx, headxBottom, indexReadPos,
                         indexWritePos, activeEndPos, forced>>
      BY <1>4 DEF CEP!Feed, CEP!At, CEP!store, CEP!window, TypeInv, CepOK
    <2>. QED BY <2>1 DEF FramesInv, CEP!Producing, PuttingFrames
  <1>. QED BY <1>1, <1>2, <1>3, <1>4

LEMMA FramesNext == ASSUME TypeInv, TypeInv', FramesInv, [Next]_vars PROVE FramesInv'
  <1>1. CASE UNCHANGED <<cepProcState, feedFollowState, sentenceEnd, headx, headxBottom,
                         indexReadPos, indexWritePos, activeEndPos, forced>>
    BY <1>1 DEF FramesInv, CEP!Producing, PuttingFrames
  <1>2. CASE Put \/ Take \/ CepStep \/ SigStep \/ SigPass \/ UNCHANGED vars
    <2>. QED BY <1>1, <1>2 DEF Put, Take, CepStep, CEP!Call, SigStep, SigPass, cepState,
                               CEP!store, CEP!window, vars, CEP!vars
  <1>3. CASE CepPass
    <2>1. CASE CEP!Collect
      <3>1. /\ cepProcState = "COLLECT" /\ cepProcState' \in {"COLLECT", "PARSE"}
            /\ UNCHANGED <<headx, headxBottom, indexWritePos, forced>>
        BY <2>1 DEF CEP!Collect, CEP!At, CEP!store, CEP!window
      <3>. QED BY <3>1 DEF FramesInv, CEP!Producing, PuttingFrames
    <2>. QED BY <1>3, <2>1, FramesParse, FramesPut DEF CepPass, CEP!Pass
  <1>4. CASE \E mode \in {"SOFT", "FULL"} : Reset(mode)
    <2>1. cepProcState' = "COLLECT" /\ headx' = <<>> /\ headxBottom' = 0
      BY <1>4 DEF Reset, CEP!Initialize
    <2>. QED BY <2>1 DEF FramesInv, CEP!Producing, PuttingFrames
  <1>. QED BY <1>2, <1>3, <1>4 DEF Next

\* What the protocol asks of each case of cepStep's switch.
CepBefore == CepNumbers /\ CepNumbers' /\ CepCounts /\ CepCounts' /\ cepStatus = "RUNNING"

LEMMA CepNaturals ==
    CepBefore => /\ Len(pamOut) \in Nat /\ Len(pamOut)' \in Nat
                 /\ Len(cepOut) \in Nat /\ Len(cepOut)' \in Nat
                 /\ Len(cepInBuf) \in Nat /\ Len(cepInBuf)' \in Nat
                 /\ cepHeld \in Nat /\ cepHeld' \in Nat
                 /\ cepReady \in Nat /\ cepReady' \in Nat
  <1>. SUFFICES ASSUME CepBefore
                PROVE  /\ Len(pamOut) \in Nat /\ Len(pamOut)' \in Nat
                       /\ Len(cepOut) \in Nat /\ Len(cepOut)' \in Nat
                       /\ Len(cepInBuf) \in Nat /\ Len(cepInBuf)' \in Nat
                       /\ cepHeld \in Nat /\ cepHeld' \in Nat
                       /\ cepReady \in Nat /\ cepReady' \in Nat
    OBVIOUS
  <1>1. /\ Len(pamOut) \in Nat /\ Len(pamOut)' \in Nat
        /\ Len(cepOut) \in Nat /\ Len(cepOut)' \in Nat
        /\ Len(cepInBuf) \in Nat /\ Len(cepInBuf)' \in Nat
    BY DEF CepBefore, CepNumbers
  <1>2. /\ cepHeld \in 0 .. 2 /\ cepHeld' \in 0 .. 2
        /\ cepReady \in 0 .. MaxWinLen + CepHeadx /\ cepReady' \in 0 .. MaxWinLen + CepHeadx
    BY DEF CepBefore, CepCounts
  <1>. QED BY <1>1, <1>2, Numbers

\* A step that moves nothing between held and ready.
LEMMA CepBalance ==
    ASSUME NEW i \in Nat, NEW i2 \in Nat, NEW h \in Nat, NEW h2 \in Nat,
           NEW r \in Nat, NEW r2 \in Nat, NEW o \in Nat, NEW o2 \in Nat,
           i2 =< i, o =< o2, h + i = h2 + i2, r + o = r2 + o2
    PROVE  /\ h + i - i2 - h2 >= 0 /\ r2 - r + o2 - o >= 0
           /\ r2 - r + o2 - o > 0 => h + i - i2 - h2 > 0
  OBVIOUS

LEMMA CollectProtocol == ASSUME TypeInv, CepBefore, CEP!Collect PROVE CEP!Protocol!Pass
  <1>1. /\ cepProcState = "COLLECT" /\ cepProcState' \in {"COLLECT", "PARSE"}
        /\ UNCHANGED <<cepOut, cepOutBuf, indexWritePos>>
    BY DEF CEP!Collect, CEP!At, CEP!window
  <1>2. Len(cepInBuf) = 0 /\ Len(cepOutBuf) = 0 /\ Len(cepOutBuf)' = 0 /\ Len(cepOut)' = Len(cepOut)
    <2>1. cepInBuf = <<>>
      BY <1>1 DEF TypeInv, CepOK, CEP!TypeOK
    <2>. QED BY <1>1, <2>1, EmptyOK DEF CepBefore, CepNumbers
  <1>3. ~ CEP!Producing /\ ~ CEP!Producing' /\ CEP!Collected' = CEP!Collected
    BY <1>1 DEF CEP!Producing, CEP!Collected
  <1>4. cepReady = 0 /\ cepReady' = 0 /\ cepHeld' - cepHeld = Len(cepInBuf)'
    BY <1>2, <1>3 DEF cepReady, cepHeld, CepBefore, CepNumbers
  <1>5. CASE pamOut # <<>> /\ cepInBuf' = <<Head(pamOut)>> /\ pamOut' = Tail(pamOut)
             /\ cepStatus' = "BUSY"
    <2>1. Len(pamOut)' = Len(pamOut) - 1 /\ Len(cepInBuf)' = 1
      BY <1>5, TakeOK, OneOK DEF TypeInv, CepOK
    <2>3. cepHeld + Len(pamOut) - Len(pamOut)' - cepHeld' = 0
      BY <1>4, <2>1, CepNaturals
    <2>4. Len(pamOut)' =< Len(pamOut)
      BY <2>1 DEF CepBefore, CepNumbers
    <2>. QED BY <1>2, <1>4, <1>5, <2>3, <2>4, CepPassByCounts DEF CepBefore, CepNumbers
  <1>6. CASE pamOut = <<>> /\ cepStatus' = "IDLE" /\ UNCHANGED <<pamOut, cepInBuf>>
    <2>1. Len(pamOut)' = 0 /\ Len(pamOut) = 0 /\ Len(cepInBuf)' = 0
      BY <1>2, <1>6, EmptyOK
    <2>2. cepHeld + Len(pamOut) - Len(pamOut)' - cepHeld' = 0
      BY <1>4, <2>1, CepNaturals
    <2>. QED BY <1>2, <1>4, <1>6, <2>1, <2>2, CepPassByCounts DEF CepBefore, CepNumbers
  <1>. QED BY <1>5, <1>6 DEF CEP!Collect

LEMMA ParseProtocol ==
    ASSUME TypeInv, CepBefore, FramesInv, ~ forced, ~ forced', CEP!Parse
    PROVE  CEP!Protocol!Pass
  <1>1. cepProcState = "PARSE" /\ cepStatus' = "BUSY" /\ UNCHANGED <<pamOut, cepOut>>
    BY DEF CEP!Parse, CEP!ParseNone, CEP!ParseIgnored, CEP!ParseSentenceEnd, CEP!ParsePhone,
           CEP!ParseConsumed, CEP!ParseForward, CEP!ParseStore, CEP!ParseForced,
           CEP!ParsingOther, CEP!Parsing, CEP!At
  <1>2. /\ Len(pamOut)' = Len(pamOut) /\ Len(cepOut)' = Len(cepOut)
        /\ Len(cepOutBuf) = 0 /\ ~ CEP!Producing /\ cepReady = 0
        /\ cepHeld = Len(cepInBuf) + (IF CEP!Collected THEN 1 ELSE 0)
    BY <1>1 DEF CEP!Producing, CepBefore, CepNumbers, cepReady, cepHeld
  <1>3. Len(cepInBuf) \in {0, 1} /\ (cepInBuf = <<>> <=> Len(cepInBuf) = 0)
    <2>1. cepInBuf \in Seq(Items) /\ Len(cepInBuf) \in Nat /\ Len(cepInBuf) =< 1
      BY DEF TypeInv, CepOK, CepBefore, CepNumbers
    <2>2. Len(cepInBuf) \in {0, 1}
      <3>. DEFINE k == Len(cepInBuf)
      <3>. HIDE DEF k
      <3>1. k \in Nat /\ k =< 1
        BY <2>1 DEF k
      <3>2. k \in {0, 1}
        BY <3>1
      <3>. QED BY <3>2 DEF k
    <2>3. cepInBuf = <<>> <=> Len(cepInBuf) = 0
      BY <2>1
    <2>. QED BY <2>2, <2>3
  <1>4. /\ cepHeld' =< cepHeld
        /\ cepReady' = 0 \/ cepHeld' < cepHeld
    <2>1. CASE CEP!ParseNone
      <3>1. cepProcState' = "COLLECT" /\ UNCHANGED <<cepInBuf, indexWritePos, cepOutBuf>>
        BY <2>1 DEF CEP!ParseNone, CEP!window
      <3>2. ~ CEP!Producing' /\ CEP!Collected' = CEP!Collected /\ Len(cepInBuf)' = Len(cepInBuf)
            /\ Len(cepOutBuf)' = 0
        BY <1>2, <3>1 DEF CEP!Producing, CEP!Collected
      <3>. QED BY <1>2, <1>3, <3>2 DEF cepReady, cepHeld, CepBefore, CepCounts
    <2>2. CASE CEP!ParseIgnored \/ CEP!ParseConsumed \/ CEP!ParseStore \/ CEP!ParsePhone
      <3>1. cepProcState' = "PARSE" /\ cepInBuf # <<>> /\ cepInBuf' = <<>> /\ UNCHANGED cepOutBuf
        BY <1>1, <2>2 DEF CEP!ParseIgnored, CEP!ParseConsumed, CEP!ParseStore, CEP!ParsePhone,
                          CEP!ParsingOther
      <3>2. ~ CEP!Producing' /\ Len(cepInBuf)' = 0 /\ Len(cepInBuf) = 1 /\ Len(cepOutBuf)' = 0
        BY <1>2, <1>3, <3>1, EmptyOK DEF CEP!Producing
      <3>3. cepReady' = 0 /\ cepHeld' = (IF CEP!Collected' THEN 1 ELSE 0)
        BY <3>2 DEF cepReady, cepHeld
      <3>4. CASE CEP!Collected
        <4>1. cepHeld = 2 /\ cepHeld' \in {0, 1}
          BY <1>2, <3>2, <3>3, <3>4
        <4>. QED BY <3>3, <4>1
      <3>5. CASE ~ CEP!Collected
        <4>1. cepHeld = 1 /\ cepHeld' \in {0, 1}
          BY <1>2, <3>2, <3>3, <3>5
        <4>. QED BY <3>3, <4>1
      <3>. QED BY <3>4, <3>5
    <2>3. CASE CEP!ParseForward
      <3>1. /\ cepProcState' = "FEED" /\ feedFollowState' = "PARSE" /\ ~ CEP!Collected
            /\ cepInBuf # <<>> /\ cepInBuf' = <<>> /\ UNCHANGED indexWritePos
        BY <2>3 DEF CEP!ParseForward, CEP!ParsingOther
      <3>2. ~ CEP!Collected' /\ Len(cepInBuf)' = 0 /\ Len(cepInBuf) = 1
        BY <1>3, <3>1, EmptyOK DEF CEP!Collected
      <3>3. cepHeld' = 0 /\ cepHeld = 1
        BY <1>2, <3>1, <3>2 DEF cepHeld
      <3>. QED BY <3>3
    <2>4. CASE CEP!ParseSentenceEnd
      <3>1. cepProcState' = "SMOOTH" /\ CEP!Collected /\ UNCHANGED cepInBuf
        BY <2>4 DEF CEP!ParseSentenceEnd, CEP!ToSmooth
      <3>2. CEP!Producing' /\ Len(cepInBuf)' = Len(cepInBuf)
        BY <3>1 DEF CEP!Producing
      <3>3. cepHeld' = Len(cepInBuf) /\ cepHeld = Len(cepInBuf) + 1
        BY <1>2, <3>1, <3>2, SMTT(30) DEF cepHeld, CepBefore, CepNumbers
      <3>. QED BY <1>3, <3>3
    <2>5. CASE CEP!ParseForced
      BY <2>5 DEF CEP!ParseForced
    <2>. QED BY <2>1, <2>2, <2>3, <2>4, <2>5 DEF CEP!Parse
  <1>5. cepHeld \in Nat /\ cepHeld' \in Nat /\ cepReady' \in Nat
    BY DEF CepBefore, CepCounts
  <1>6. /\ cepHeld + Len(pamOut) - Len(pamOut)' - cepHeld' >= 0
        /\ cepReady' - cepReady + Len(cepOut)' - Len(cepOut) >= 0
        /\ cepReady' - cepReady + Len(cepOut)' - Len(cepOut) > 0
              => cepHeld + Len(pamOut) - Len(pamOut)' - cepHeld' > 0
        /\ Len(pamOut)' =< Len(pamOut) /\ Len(cepOut) =< Len(cepOut)'
    <2>. DEFINE i == Len(pamOut)  i2 == Len(pamOut)'  o == Len(cepOut)  o2 == Len(cepOut)'
    <2>1. i \in Nat /\ o \in Nat /\ i2 = i /\ o2 = o
      BY <1>2, CepNaturals
    <2>. HIDE DEF i, i2, o, o2
    <2>2. /\ cepHeld + i - i2 - cepHeld' >= 0 /\ cepReady' - cepReady + o2 - o >= 0
          /\ cepReady' - cepReady + o2 - o > 0 => cepHeld + i - i2 - cepHeld' > 0
          /\ i2 =< i /\ o =< o2
      <3>. DEFINE h == cepHeld  h2 == cepHeld'  r == cepReady  r2 == cepReady'
      <3>1. h \in Nat /\ h2 \in Nat /\ r2 \in Nat /\ r = 0 /\ h2 =< h /\ (r2 = 0 \/ h2 < h)
        BY <1>2, <1>4, <1>5
      <3>. HIDE DEF h, h2, r, r2
      <3>2. /\ h + i - i2 - h2 >= 0 /\ r2 - r + o2 - o >= 0
            /\ r2 - r + o2 - o > 0 => h + i - i2 - h2 > 0
            /\ i2 =< i /\ o =< o2
        BY <2>1, <3>1
      <3>. QED BY <3>2 DEF h, h2, r, r2
    <2>. QED BY <2>2 DEF i, i2, o, o2
  <1>. QED BY <1>1, <1>6, CepPassByCounts DEF CepBefore

\* A pass that works on nothing, but may put what is ready.
LEMMA CepQuietPass ==
    ASSUME CepBefore, UNCHANGED pamOut, cepHeld' = cepHeld, Len(cepOut) =< Len(cepOut)',
           cepReady' + Len(cepOut)' = cepReady + Len(cepOut),
           cepStatus' = "BUSY" \/ (cepStatus' = "OUT_FULL" /\ cepReady' > 0 /\ Len(cepOut)' = Cap)
    PROVE  CEP!Protocol!Pass
  <1>. DEFINE h == cepHeld  h2 == cepHeld'  r == cepReady  r2 == cepReady'
              i == Len(pamOut)  i2 == Len(pamOut)'  o == Len(cepOut)  o2 == Len(cepOut)'
  <1>1. /\ i \in Nat /\ i2 = i /\ o \in Nat /\ o2 \in Nat
        /\ h \in Nat /\ h2 = h /\ r \in Nat /\ r2 \in Nat /\ o =< o2 /\ r2 + o2 = r + o
    BY CepNaturals
  <1>. HIDE DEF h, h2, r, r2, i, i2, o, o2
  <1>2. /\ h + i - i2 - h2 >= 0 /\ r2 - r + o2 - o >= 0
        /\ r2 - r + o2 - o > 0 => h + i - i2 - h2 > 0
        /\ i2 =< i /\ o =< o2
    BY <1>1
  <1>. QED BY <1>2, CepPassByCounts DEF CepBefore, h, h2, r, r2, i, i2, o, o2

\* What is ready while frames are put.
LEMMA PuttingReady ==
    CepBefore => /\ PuttingFrames =>
                       cepReady = Len(cepOutBuf) + (activeEndPos + Len(headx) - headxBottom - indexReadPos)
                 /\ PuttingFrames' =>
                       cepReady' = Len(cepOutBuf)' + (activeEndPos' + Len(headx)' - headxBottom' - indexReadPos')
  BY DEF CepBefore, PuttingFrames, CEP!Producing, cepReady

LEMMA FrameProtocol ==
    ASSUME TypeInv, CepBefore, FramesInv, ~ forced,
           CEP!Smooth \/ CEP!FrameItem \/ CEP!FramePar \/ CEP!FramesDone
    PROVE  CEP!Protocol!Pass
  <1>1. /\ UNCHANGED <<pamOut, cepOut, cepInBuf>> /\ cepStatus' = "BUSY"
        /\ cepProcState \in {"SMOOTH", "FRAME"}
    BY DEF CEP!Smooth, CEP!FrameItem, CEP!FramePar, CEP!FramesDone, CEP!Framing, CEP!At
  <1>2. /\ Len(cepOutBuf) = 0 /\ CEP!Producing
        /\ cepHeld = Len(cepInBuf) /\ Len(cepInBuf)' = Len(cepInBuf)
        /\ Len(cepOut)' = Len(cepOut) /\ Len(cepOut) \in Nat
    BY <1>1, CepNaturals DEF CepBefore, CepNumbers, CEP!Producing, cepHeld
  <1>3. cepHeld' = cepHeld /\ cepReady' = cepReady
    <2>1. CASE CEP!Smooth
      <3>1. /\ cepProcState = "SMOOTH" /\ cepProcState' = "FRAME" /\ indexReadPos' = 0
            /\ UNCHANGED <<headx, headxBottom, activeEndPos, cepOutBuf>>
        BY <2>1 DEF CEP!Smooth, CEP!At, CEP!store
      <3>2. CEP!Producing' /\ Len(headx)' = Len(headx) /\ Len(cepOutBuf)' = Len(cepOutBuf)
        BY <3>1 DEF CEP!Producing
      <3>3. cepHeld' = cepHeld
        BY <1>2, <3>2 DEF cepHeld
      <3>4. cepReady' = cepReady
        BY <1>2, <3>1, <3>2 DEF cepReady
      <3>. QED BY <3>3, <3>4
    <2>2. CASE CEP!FrameItem \/ CEP!FramePar
      <3>1. /\ cepProcState = "FRAME" /\ cepProcState' = "FEED" /\ feedFollowState' = "FRAME"
            /\ UNCHANGED <<headx, activeEndPos>>
            /\ \/ headxBottom' = headxBottom + 1 /\ UNCHANGED indexReadPos
               \/ indexReadPos' = indexReadPos + 1 /\ UNCHANGED headxBottom
        BY <2>2 DEF CEP!FrameItem, CEP!FramePar, CEP!Framing, CEP!At, CEP!store
      <3>2. CEP!Producing' /\ PuttingFrames /\ PuttingFrames' /\ Len(cepOutBuf)' = 1
        BY <3>1 DEF CEP!Producing, PuttingFrames, CepBefore, CepNumbers
      <3>3. cepHeld' = cepHeld
        BY <1>2, <3>2 DEF cepHeld, CepBefore, CepNumbers
      <3>4. cepReady' = cepReady
        <4>. DEFINE k == Len(headx)
        <4>1. cepReady = activeEndPos + k - headxBottom - indexReadPos
          BY <1>2, <3>2, PuttingReady DEF CepBefore, CepNumbers
        <4>2. cepReady' = 1 + (activeEndPos + k - headxBottom' - indexReadPos')
          BY <3>1, <3>2, PuttingReady
        <4>3. /\ k \in Nat /\ headxBottom \in Nat /\ indexReadPos \in 0 .. MaxWinLen
              /\ activeEndPos \in 0 .. MaxWinLen
          BY DEF CepBefore, CepNumbers
        <4>. HIDE DEF k
        <4>4. CASE headxBottom' = headxBottom + 1 /\ UNCHANGED indexReadPos
          BY <4>1, <4>2, <4>3, <4>4, Numbers
        <4>5. CASE indexReadPos' = indexReadPos + 1 /\ UNCHANGED headxBottom
          BY <4>1, <4>2, <4>3, <4>5, Numbers
        <4>. QED BY <3>1, <4>4, <4>5
      <3>. QED BY <3>3, <3>4
    <2>3. CASE CEP!FramesDone
      <3>1. sentenceEnd /\ indexReadPos = activeEndPos /\ headxBottom = Len(headx)
        BY <2>3, AllOut
      <3>2. /\ cepProcState = "FRAME" /\ cepProcState' = "PARSE" /\ indexWritePos' = 0
            /\ UNCHANGED cepOutBuf
        BY <2>3, <3>1 DEF CEP!FramesDone, CEP!Framing, CEP!At
      <3>3. /\ ~ CEP!Producing' /\ ~ CEP!Collected' /\ Len(cepOutBuf)' = 0 /\ PuttingFrames
            /\ Len(cepInBuf) \in Nat
        BY <1>2, <3>2, CepNaturals DEF CEP!Producing, CEP!Collected, PuttingFrames
      <3>4. cepHeld' = cepHeld
        BY <1>2, <3>3 DEF cepHeld
      <3>5. cepReady' = 0
        BY <3>3 DEF cepReady
      <3>6. cepReady = 0
        BY <1>2, <3>1, <3>3, PuttingReady, Numbers DEF CepBefore, CepNumbers
      <3>. QED BY <3>4, <3>5, <3>6
    <2>. QED BY <2>1, <2>2, <2>3
  <1>4. Len(cepOut) =< Len(cepOut)' /\ cepReady' + Len(cepOut)' = cepReady + Len(cepOut)
    BY <1>2, <1>3
  <1>. QED BY <1>1, <1>3, <1>4, CepQuietPass

LEMMA CepFeedProtocol ==
    ASSUME TypeInv, CepBefore, FramesInv, ~ forced, CEP!Feed
    PROVE  CEP!Protocol!Pass
  <1>1. /\ cepProcState = "FEED" /\ feedFollowState \in {"PARSE", "FRAME"}
        /\ UNCHANGED <<pamOut, feedFollowState, cepInBuf, headx, headxBottom, indexReadPos,
                       indexWritePos, activeEndPos>>
    BY DEF CEP!Feed, CEP!At, CEP!store, CEP!window, TypeInv, CepOK
  <1>2. /\ Len(cepOutBuf) = 1 /\ Len(cepInBuf)' = Len(cepInBuf) /\ Len(headx)' = Len(headx)
        /\ CEP!Producing <=> feedFollowState = "FRAME"
        /\ CEP!Collected' = CEP!Collected
    BY <1>1 DEF CepBefore, CepNumbers, CEP!Producing, CEP!Collected
  <1>3. CASE cepOut' = cepOut \o cepOutBuf /\ cepOutBuf' = <<>>
             /\ cepProcState' = feedFollowState /\ cepStatus' = "BUSY"
    <2>1. CEP!Producing' = CEP!Producing /\ cepProcState' # "SMOOTH"
      BY <1>1, <1>2, <1>3 DEF CEP!Producing
    <2>2. Len(cepOut)' = Len(cepOut) + 1 /\ Len(cepOutBuf)' = 0
      <3>1. cepOut \in Seq(Smooth) /\ cepOutBuf \in Seq(Smooth)
        BY DEF TypeInv, CepOK
      <3>2. Len(cepOut \o cepOutBuf) = Len(cepOut) + Len(cepOutBuf)
        BY <3>1, JoinOK, Zenon
      <3>. QED BY <1>2, <1>3, <3>2, EmptyOK
    <2>3. cepHeld' = cepHeld
      BY <1>2, <2>1 DEF cepHeld
    <2>4. cepReady = cepReady' + 1
      <3>. DEFINE w == IF CEP!Producing
                       THEN activeEndPos + Len(headx) - headxBottom - indexReadPos ELSE 0
      <3>1. cepReady = 1 + w /\ cepReady' = 0 + w
        BY <1>1, <1>2, <2>1, <2>2 DEF cepReady
      <3>2. w \in Int
        BY Numbers DEF CepBefore, CepNumbers
      <3>. HIDE DEF w
      <3>. QED BY <3>1, <3>2
    <2>5. Len(cepOut) =< Len(cepOut)' /\ cepReady' + Len(cepOut)' = cepReady + Len(cepOut)
      <3>. DEFINE o == Len(cepOut)  o2 == Len(cepOut)'  r == cepReady  r2 == cepReady'
      <3>1. o \in Nat /\ o2 = o + 1 /\ r2 \in Nat /\ r = r2 + 1
        BY <2>2, <2>4, CepNaturals
      <3>. HIDE DEF o, o2, r, r2
      <3>2. o =< o2 /\ r2 + o2 = r + o
        BY <3>1
      <3>. QED BY <3>2 DEF o, o2, r, r2
    <2>. QED BY <1>1, <1>3, <2>3, <2>5, CepQuietPass
  <1>4. CASE Len(cepOut) >= Cap /\ cepStatus' = "OUT_FULL" /\ UNCHANGED <<cepOut, cepOutBuf, cepProcState>>
    <2>1. CEP!Producing' = CEP!Producing /\ Len(cepOutBuf)' = Len(cepOutBuf)
      BY <1>1, <1>4 DEF CEP!Producing
    <2>2. cepHeld' = cepHeld /\ cepReady' = cepReady
      BY <1>1, <1>2, <1>4, <2>1 DEF cepHeld, cepReady
    <2>3. Len(cepOut) = Cap /\ Len(cepOut)' = Len(cepOut)
      BY <1>4, CepNaturals, Numbers, SMTT(30) DEF CepBefore, CepNumbers
    <2>4. cepReady > 0
      <3>1. CASE feedFollowState = "PARSE"
        BY <1>2, <3>1 DEF cepReady
      <3>2. CASE feedFollowState = "FRAME"
        <4>1. PuttingFrames /\ indexReadPos =< activeEndPos
          BY <1>1, <3>2 DEF PuttingFrames, FramesInv
        <4>2. cepReady = 1 + (activeEndPos + Len(headx) - headxBottom - indexReadPos)
          BY <1>2, <4>1, PuttingReady
        <4>. QED BY <4>1, <4>2, Numbers DEF CepBefore, CepNumbers
      <3>. QED BY <1>1, <3>1, <3>2
    <2>5. Len(cepOut) =< Len(cepOut)' /\ cepReady' + Len(cepOut)' = cepReady + Len(cepOut)
      BY <2>2, <2>3, Numbers
    <2>. QED BY <1>1, <1>4, <2>2, <2>3, <2>4, <2>5, CepQuietPass
  <1>. QED BY <1>3, <1>4 DEF CEP!Feed

LEMMA CepPassProtocol ==
    ASSUME TypeInv, TypeInv', FramesInv, FramesInv', ~ forced', CEP!Pass
    PROVE  CEP!Protocol!Pass
  <1>1. cepStatus = "RUNNING" /\ ~ forced
    BY DEF CEP!Pass, CEP!Collect, CEP!Parse, CEP!ParseNone, CEP!ParseIgnored, CEP!ParseSentenceEnd,
           CEP!ParsePhone, CEP!ParseConsumed, CEP!ParseForward, CEP!ParseStore, CEP!ParseForced,
           CEP!ParsingOther, CEP!Parsing, CEP!At, CEP!Smooth, CEP!FrameItem, CEP!FramePar,
           CEP!FramesDone, CEP!Framing, CEP!Feed
  <1>2. CepBefore
    BY <1>1, CepNumbersOK, CepNumbersOKNext, CepCountsOK, CepCountsOKNext DEF CepBefore
  <1>. QED BY <1>1, <1>2, CollectProtocol, ParseProtocol, FrameProtocol, CepFeedProtocol DEF CEP!Pass

\* Signal generation likewise, in numbers of items.
sigReady == Len(sigOutBuf) + (IF playing > 0 THEN playing ELSE 0)

SigNumbers == /\ Len(cepOut) \in Nat /\ Len(sigOut) \in Nat /\ Len(sigOut) =< Cap
              /\ Len(sigInBuf) = (IF sigProcState \in {"SCHEDULE", "PROCESS"} THEN 1 ELSE 0)
              /\ Len(sigOutBuf) \in 0 .. 2 /\ playing \in -1 .. PlayLen
              /\ sigReady \in 0 .. PlayLen + 2

LEMMA SigNumbersOK == TypeInv => SigNumbers
  <1>. SUFFICES ASSUME TypeInv PROVE SigNumbers
    OBVIOUS
  <1>1. Len(cepOut) \in Nat /\ Len(sigOut) \in Nat /\ Len(sigOut) =< Cap
    <2>1. cepOut \in Seq(Smooth) /\ sigOut \in Seq(Outs) /\ Len(sigOut) =< Cap
      BY Zenon DEF TypeInv, CepOK, SigOK, SIG!TypeOK
    <2>. QED BY <2>1
  <1>2. /\ Len(sigInBuf) = (IF sigProcState \in {"SCHEDULE", "PROCESS"} THEN 1 ELSE 0)
        /\ playing \in -1 .. PlayLen
    BY DEF TypeInv, SigOK, SIG!TypeOK
  <1>3. Len(sigOutBuf) \in 0 .. 2
    <2>1. CASE sigProcState = "FEED"
      BY <2>1 DEF TypeInv, SigOK, SIG!TypeOK
    <2>2. CASE sigProcState # "FEED"
      BY <2>2, EmptyOK DEF TypeInv, SigOK, SIG!TypeOK
    <2>. QED BY <2>1, <2>2
  <1>4. sigReady \in 0 .. PlayLen + 2
    <2>. DEFINE k == Len(sigOutBuf)
    <2>1. k \in 0 .. 2 /\ (sigReady = k \/ (playing > 0 /\ sigReady = k + playing))
      BY <1>3 DEF sigReady
    <2>. HIDE DEF k
    <2>. QED BY <1>2, <2>1, Numbers
  <1>. QED BY <1>1, <1>2, <1>3, <1>4 DEF SigNumbers

LEMMA SigNumbersOKNext == TypeInv' => SigNumbers'
  BY SigNumbersOK, PTL

SigBefore == SigNumbers /\ SigNumbers' /\ sigStatus = "RUNNING"

LEMMA SigNaturals ==
    SigBefore => /\ Len(cepOut) \in Nat /\ Len(cepOut)' \in Nat
                 /\ Len(sigOut) \in Nat /\ Len(sigOut)' \in Nat /\ Len(sigOut)' =< Cap
                 /\ Len(sigInBuf) \in 0 .. 1 /\ Len(sigInBuf)' \in 0 .. 1
                 /\ sigReady \in Nat /\ sigReady' \in Nat /\ sigReady' =< PlayLen + 2
  <1>. SUFFICES ASSUME SigBefore
                PROVE  /\ Len(cepOut) \in Nat /\ Len(cepOut)' \in Nat
                       /\ Len(sigOut) \in Nat /\ Len(sigOut)' \in Nat /\ Len(sigOut)' =< Cap
                       /\ Len(sigInBuf) \in 0 .. 1 /\ Len(sigInBuf)' \in 0 .. 1
                       /\ sigReady \in Nat /\ sigReady' \in Nat /\ sigReady' =< PlayLen + 2
    OBVIOUS
  <1>1. /\ Len(cepOut) \in Nat /\ Len(cepOut)' \in Nat
        /\ Len(sigOut) \in Nat /\ Len(sigOut)' \in Nat /\ Len(sigOut)' =< Cap
        /\ Len(sigInBuf) \in 0 .. 1 /\ Len(sigInBuf)' \in 0 .. 1
    BY DEF SigBefore, SigNumbers
  <1>2. sigReady \in 0 .. PlayLen + 2 /\ sigReady' \in 0 .. PlayLen + 2
    BY DEF SigBefore, SigNumbers
  <1>. QED BY <1>1, <1>2, Numbers

LEMMA SigPassByCounts ==
    ASSUME SigBefore, Len(cepOut)' =< Len(cepOut), Len(sigOut) =< Len(sigOut)',
           Len(sigInBuf) + Len(cepOut) - Len(cepOut)' - Len(sigInBuf)' >= 0,
           sigReady' - sigReady + Len(sigOut)' - Len(sigOut) >= 0,
           sigReady' - sigReady + Len(sigOut)' - Len(sigOut) > 0
              => Len(sigInBuf) + Len(cepOut) - Len(cepOut)' - Len(sigInBuf)' > 0,
           \/ sigStatus' \in {"RUNNING", "BUSY", "ATOMIC"}
           \/ sigStatus' = "IDLE" /\ Len(cepOut)' = 0 /\ sigReady' = 0
           \/ sigStatus' = "OUT_FULL" /\ sigReady' > 0 /\ Len(sigOut)' = Cap
    PROVE  SIG!Protocol!Pass
  <1>. DEFINE i == Len(cepOut)    i2 == Len(cepOut)'
              h == Len(sigInBuf)  h2 == Len(sigInBuf)'
              r == sigReady       r2 == sigReady'
              o == Len(sigOut)    o2 == Len(sigOut)'
              took == i - i2
              put == o2 - o
              done == h + took - h2
              made == r2 - r + put
  <1>1. /\ i \in Nat /\ i2 \in Nat /\ o \in Nat /\ o2 \in Nat /\ o2 =< Cap
        /\ h \in 0 .. 1 /\ h2 \in 0 .. 1 /\ r \in Nat /\ r2 \in Nat /\ r2 =< PlayLen + 2
        /\ Cap \in Nat /\ PlayLen \in Nat
    BY SigNaturals, Numbers
  <1>2. /\ i2 =< i /\ o =< o2 /\ h + i - i2 - h2 >= 0 /\ r2 - r + o2 - o >= 0
        /\ r2 - r + o2 - o > 0 => h + i - i2 - h2 > 0
        /\ \/ sigStatus' \in {"RUNNING", "BUSY", "ATOMIC"}
           \/ sigStatus' = "IDLE" /\ i2 = 0 /\ r2 = 0
           \/ sigStatus' = "OUT_FULL" /\ r2 > 0 /\ o2 = Cap
    OBVIOUS
  <1>. HIDE DEF i, i2, h, h2, r, r2, o, o2
  <1>3. took >= 0 /\ put >= 0 /\ done >= 0 /\ made >= 0
    BY <1>1, <1>2
  <1>4. SIG!Protocol!Unit!Moves(0, took, done, made, put)
    <2>1. /\ took =< i /\ done =< h + took /\ h + took - done =< 1 /\ (made > 0 => done > 0)
          /\ put =< r + made /\ r + made - put =< PlayLen + 2 /\ put =< Cap - o
      BY <1>1, <1>2
    <2>. QED BY <2>1 DEF SIG!Protocol!Unit!Moves, i, h, r, o, sigReady
  <1>5. \/ sigStatus' = "RUNNING"
        \/ /\ sigStatus' \in SIG!Protocol!Unit!PuStatus
           /\ SIG!Protocol!Unit!Reason(0, took, done, made, put, sigStatus')
    <2>1. /\ sigStatus' = "IDLE" => took = i /\ r + made - put = 0
          /\ sigStatus' = "OUT_FULL" => r + made - put > 0 /\ o + put = Cap
          /\ sigStatus' \in {"RUNNING", "BUSY", "ATOMIC", "IDLE", "OUT_FULL"}
      BY <1>1, <1>2
    <2>. QED BY <2>1 DEF SIG!Protocol!Unit!Reason, SIG!Protocol!Unit!ReadyAfter,
                         SIG!Protocol!Unit!PuStatus, i, r, o, sigReady
  <1>. QED BY <1>3, <1>4, <1>5
           DEF SIG!Protocol!Pass, SigBefore, i, i2, h, h2, r, r2, o, o2, sigReady

\* A pass that works on nothing, and one that works off the item at hand.
LEMMA SigQuietPass ==
    ASSUME SigBefore, UNCHANGED cepOut, Len(sigInBuf)' = Len(sigInBuf), Len(sigOut) =< Len(sigOut)',
           sigReady' + Len(sigOut)' = sigReady + Len(sigOut),
           sigStatus' = "BUSY" \/ (sigStatus' = "OUT_FULL" /\ sigReady' > 0 /\ Len(sigOut)' = Cap)
    PROVE  SIG!Protocol!Pass
  <1>. DEFINE h == Len(sigInBuf)  h2 == Len(sigInBuf)'  r == sigReady  r2 == sigReady'
              i == Len(cepOut)  i2 == Len(cepOut)'  o == Len(sigOut)  o2 == Len(sigOut)'
  <1>1. /\ i \in Nat /\ i2 = i /\ o \in Nat /\ o2 \in Nat
        /\ h \in 0 .. 1 /\ h2 = h /\ r \in Nat /\ r2 \in Nat /\ o =< o2 /\ r2 + o2 = r + o
    BY SigNaturals
  <1>. HIDE DEF h, h2, r, r2, i, i2, o, o2
  <1>2. /\ h + i - i2 - h2 >= 0 /\ r2 - r + o2 - o >= 0
        /\ r2 - r + o2 - o > 0 => h + i - i2 - h2 > 0
        /\ i2 =< i /\ o =< o2
    BY <1>1
  <1>. QED BY <1>2, SigPassByCounts DEF h, h2, r, r2, i, i2, o, o2

LEMMA SigWorkingPass ==
    ASSUME SigBefore, UNCHANGED <<cepOut, sigOut>>, Len(sigInBuf) = 1, Len(sigInBuf)' = 0,
           sigReady = 0, sigStatus' = "BUSY"
    PROVE  SIG!Protocol!Pass
  <1>. DEFINE h == Len(sigInBuf)  h2 == Len(sigInBuf)'  r == sigReady  r2 == sigReady'
              i == Len(cepOut)  i2 == Len(cepOut)'  o == Len(sigOut)  o2 == Len(sigOut)'
  <1>1. i \in Nat /\ i2 = i /\ o \in Nat /\ o2 = o /\ h = 1 /\ h2 = 0 /\ r = 0 /\ r2 \in Nat
    BY SigNaturals
  <1>. HIDE DEF h, h2, r, r2, i, i2, o, o2
  <1>2. /\ h + i - i2 - h2 >= 0 /\ r2 - r + o2 - o >= 0
        /\ r2 - r + o2 - o > 0 => h + i - i2 - h2 > 0
        /\ i2 =< i /\ o =< o2
    BY <1>1
  <1>. QED BY <1>2, SigPassByCounts DEF h, h2, r, r2, i, i2, o, o2

\* Each case of sigStep's switch.
LEMMA SigCollectProtocol == ASSUME TypeInv, SigBefore, SIG!Collect PROVE SIG!Protocol!Pass
  <1>1. sigProcState = "COLLECT" /\ UNCHANGED <<sigOut, sigOutBuf, playing>>
    BY DEF SIG!Collect, SIG!At, SIG!files
  <1>2. sigOutBuf = <<>> /\ ~ (playing >= 0)
    BY <1>1 DEF TypeInv, SigOK, SIG!TypeOK
  <1>3. /\ sigReady = 0 /\ sigReady' = 0 /\ Len(sigInBuf) = 0
        /\ Len(sigOut)' = Len(sigOut) /\ Len(sigOut) \in Nat
    <2>1. playing \in -1 .. PlayLen
      BY DEF SigBefore, SigNumbers
    <2>2. ~ (playing > 0)
      BY <1>2, <2>1, Numbers
    <2>3. sigReady = 0 /\ sigReady' = 0
      BY <1>1, <1>2, <2>2, EmptyOK DEF sigReady
    <2>. QED BY <1>1, <2>3, SigNaturals DEF SigBefore, SigNumbers
  <1>4. CASE cepOut # <<>> /\ sigInBuf' = <<Head(cepOut)>> /\ cepOut' = Tail(cepOut)
             /\ sigStatus' = "ATOMIC"
    <2>1. Len(cepOut)' = Len(cepOut) - 1 /\ Len(cepOut) \in Nat
      BY <1>4, TakeOK DEF TypeInv, CepOK
    <2>2. Len(sigInBuf)' = 1
      BY <1>4
    <2>3. /\ Len(cepOut)' =< Len(cepOut) /\ Len(sigOut) =< Len(sigOut)'
          /\ Len(sigInBuf) + Len(cepOut) - Len(cepOut)' - Len(sigInBuf)' = 0
          /\ sigReady' - sigReady + Len(sigOut)' - Len(sigOut) = 0
      <3>. DEFINE i == Len(cepOut)  i2 == Len(cepOut)'  o == Len(sigOut)  o2 == Len(sigOut)'
      <3>1. i \in Nat /\ i2 = i - 1 /\ o \in Nat /\ o2 = o
        BY <1>3, <2>1
      <3>. HIDE DEF i, i2, o, o2
      <3>2. i2 =< i /\ o =< o2 /\ 0 + i - i2 - 1 = 0 /\ 0 - 0 + o2 - o = 0
        BY <3>1
      <3>. QED BY <1>3, <2>2, <3>2 DEF i, i2, o, o2
    <2>. QED BY <1>4, <2>3, SigPassByCounts
  <1>5. CASE cepOut = <<>> /\ sigStatus' = "IDLE" /\ UNCHANGED <<cepOut, sigInBuf>>
    <2>1. Len(cepOut)' = 0 /\ Len(cepOut) = 0 /\ Len(sigInBuf)' = 0
      BY <1>3, <1>5, EmptyOK
    <2>. QED BY <1>3, <1>5, <2>1, SigPassByCounts
  <1>. QED BY <1>4, <1>5 DEF SIG!Collect

LEMMA ScheduleProtocol ==
    ASSUME TypeInv, SigBefore,
           \/ SIG!ScheduleFrame \/ SIG!SchedulePlay \/ SIG!ScheduleSave \/ SIG!ScheduleUnsave
           \/ SIG!ScheduleModifier \/ SIG!ScheduleOther
    PROVE  SIG!Protocol!Pass
  <1>1. /\ sigProcState = "SCHEDULE" /\ UNCHANGED <<cepOut, sigOut>> /\ sigStatus' = "BUSY"
    BY DEF SIG!ScheduleFrame, SIG!SchedulePlay, SIG!ScheduleSave, SIG!ScheduleUnsave,
           SIG!ScheduleModifier, SIG!ScheduleOther, SIG!Scheduling, SIG!At, SIG!GoOn
  <1>2. /\ Len(sigInBuf) = 1 /\ Len(sigOut)' = Len(sigOut) /\ Len(sigOut) \in Nat
    BY <1>1, SigNaturals DEF SigBefore, SigNumbers
  <1>3. sigReady = 0
    <2>1. sigOutBuf = <<>> /\ ~ (playing >= 0)
      BY <1>1 DEF TypeInv, SigOK, SIG!TypeOK
    <2>2. playing \in -1 .. PlayLen
      BY DEF SigBefore, SigNumbers
    <2>3. ~ (playing > 0)
      BY <2>1, <2>2, Numbers
    <2>. QED BY <2>1, <2>3, EmptyOK DEF sigReady
  <1>4. CASE SIG!ScheduleFrame
    <2>1. UNCHANGED <<sigInBuf, sigOutBuf, playing>>
      BY <1>4 DEF SIG!ScheduleFrame, SIG!files
    <2>2. Len(sigInBuf)' = Len(sigInBuf) /\ sigReady' = sigReady
      BY <2>1 DEF sigReady
    <2>3. sigReady' + Len(sigOut)' = sigReady + Len(sigOut) /\ Len(sigOut) =< Len(sigOut)'
      BY <1>2, <2>2
    <2>. QED BY <1>1, <2>2, <2>3, SigQuietPass
  <1>5. CASE ~ SIG!ScheduleFrame
    <2>1. sigInBuf' = <<>>
      BY <1>5 DEF SIG!SchedulePlay, SIG!ScheduleSave, SIG!ScheduleUnsave,
                  SIG!ScheduleModifier, SIG!ScheduleOther
    <2>2. Len(sigInBuf)' = 0
      BY <2>1, EmptyOK
    <2>. QED BY <1>1, <1>2, <1>3, <2>2, SigWorkingPass
  <1>. QED BY <1>4, <1>5

LEMMA ProcessProtocol == ASSUME TypeInv, SigBefore, SIG!Process PROVE SIG!Protocol!Pass
  <1>1. /\ sigProcState = "PROCESS" /\ UNCHANGED <<cepOut, sigOut, playing>> /\ sigStatus' = "BUSY"
    BY DEF SIG!Process, SIG!Load, SIG!Transition, SIG!Spectrum, SIG!ImpulseResponse,
           SIG!Excitation, SIG!OverlapAdd, SIG!PutFrame, SIG!Processing, SIG!At, SIG!files
  <1>2. /\ Len(sigInBuf) = 1 /\ Len(sigOut)' = Len(sigOut) /\ Len(sigOut) \in Nat
    BY <1>1, SigNaturals DEF SigBefore, SigNumbers
  <1>3. CASE SIG!PutFrame
    <2>1. Len(sigInBuf)' = 0
      BY <1>3, EmptyOK DEF SIG!PutFrame
    <2>2. sigReady = 0
      <3>1. sigOutBuf = <<>> /\ ~ (playing >= 0)
        BY <1>1 DEF TypeInv, SigOK, SIG!TypeOK
      <3>2. playing \in -1 .. PlayLen
        BY DEF SigBefore, SigNumbers
      <3>3. ~ (playing > 0)
        BY <3>1, <3>2, Numbers
      <3>. QED BY <3>1, <3>3, EmptyOK DEF sigReady
    <2>. QED BY <1>1, <1>2, <2>1, <2>2, SigWorkingPass
  <1>4. CASE ~ SIG!PutFrame
    <2>1. UNCHANGED <<sigInBuf, sigOutBuf>>
      BY <1>4 DEF SIG!Process, SIG!Load, SIG!Transition, SIG!Spectrum, SIG!ImpulseResponse,
                  SIG!Excitation, SIG!OverlapAdd, SIG!Inner
    <2>2. Len(sigInBuf)' = Len(sigInBuf) /\ sigReady' = sigReady
      BY <1>1, <2>1 DEF sigReady
    <2>3. sigReady' + Len(sigOut)' = sigReady + Len(sigOut) /\ Len(sigOut) =< Len(sigOut)'
      BY <1>2, <2>2
    <2>. QED BY <1>1, <2>2, <2>3, SigQuietPass
  <1>. QED BY <1>3, <1>4

LEMMA PlayProtocol == ASSUME TypeInv, SigBefore, SIG!Play PROVE SIG!Protocol!Pass
  <1>1. sigProcState = "PLAY" /\ UNCHANGED <<cepOut, sigOut, sigInBuf>> /\ sigStatus' = "BUSY"
    BY DEF SIG!Play, SIG!At, SIG!GoOn
  <1>2. /\ sigOutBuf = <<>> /\ Len(sigInBuf)' = Len(sigInBuf) /\ Len(sigOut)' = Len(sigOut)
        /\ Len(sigOut) \in Nat /\ playing \in -1 .. PlayLen
    BY <1>1, SigNaturals DEF TypeInv, SigOK, SIG!TypeOK
  <1>3. sigReady' = sigReady
    <2>1. CASE playing > 0 /\ playing' = playing - 1 /\ Len(sigOutBuf)' = 1
      <3>1. sigReady = playing
        BY <1>2, <2>1, EmptyOK, Numbers DEF sigReady
      <3>2. sigReady' = 1 + (IF playing' > 0 THEN playing' ELSE 0)
        BY <2>1 DEF sigReady
      <3>. QED BY <1>2, <2>1, <3>1, <3>2, Numbers
    <2>2. CASE playing = 0 /\ playing' = -1 /\ UNCHANGED sigOutBuf
      <3>1. sigReady = 0 /\ sigReady' = 0
        BY <1>2, <2>2, EmptyOK DEF sigReady
      <3>. QED BY <3>1
    <2>3. ASSUME playing > 0, playing' = playing - 1,
                 sigOutBuf' = Append(sigOutBuf, [type |-> "FRAME", of |-> SIG!None, half |-> playing])
          PROVE  Len(sigOutBuf)' = 1
      <3>. DEFINE x == [type |-> "FRAME", of |-> SIG!None, half |-> playing]
      <3>. HIDE DEF x
      <3>1. sigOutBuf' = Append(<<>>, x)
        BY <1>2, <2>3 DEF x
      <3>. QED BY <3>1
    <2>. QED BY <2>1, <2>2, <2>3 DEF SIG!Play
  <1>4. sigReady' + Len(sigOut)' = sigReady + Len(sigOut) /\ Len(sigOut) =< Len(sigOut)'
    BY <1>2, <1>3
  <1>. QED BY <1>1, <1>2, <1>4, SigQuietPass

LEMMA SigFeedProtocol ==
    ASSUME TypeInv, SigBefore, SIG!FeedItem \/ SIG!FeedFull
    PROVE  SIG!Protocol!Pass
  <1>1. sigProcState = "FEED" /\ UNCHANGED <<cepOut, sigInBuf, playing>>
    BY DEF SIG!FeedItem, SIG!FeedFull, SIG!Feeding, SIG!At
  <1>2. /\ sigOutBuf \in Seq(Outs) /\ sigOutBuf # <<>> /\ sigOut \in Seq(Outs)
    <2>1. sigOutBuf \in Seq(Outs) /\ sigOut \in Seq(Outs) /\ Len(sigOutBuf) \in 1 .. 2
      BY <1>1 DEF TypeInv, SigOK, SIG!TypeOK
    <2>. QED BY <2>1, EmptyOK
  <1>3. Len(sigInBuf)' = Len(sigInBuf)
    BY <1>1
  <1>. DEFINE w == IF playing > 0 THEN playing ELSE 0
  <1>4. w \in Nat
    <2>1. playing \in -1 .. PlayLen
      BY DEF SigBefore, SigNumbers
    <2>. QED BY <2>1, Numbers
  <1>5. sigReady = Len(sigOutBuf) + w /\ sigReady' = Len(sigOutBuf)' + w
    BY <1>1 DEF sigReady
  <1>. HIDE DEF w
  <1>6. CASE SIG!FeedItem
    <2>1. sigOut' = Append(sigOut, sigOutBuf[1]) /\ sigOutBuf' = Tail(sigOutBuf) /\ sigStatus' = "BUSY"
      BY <1>6 DEF SIG!FeedItem
    <2>2. Len(sigOutBuf)' = Len(sigOutBuf) - 1 /\ Len(sigOutBuf) \in Nat
      BY <1>2, <2>1, TakeOK
    <2>3. Len(sigOut)' = Len(sigOut) + 1 /\ Len(sigOut) \in Nat
      <3>1. sigOutBuf[1] \in Outs
        BY <1>2, TakeOK
      <3>. DEFINE x == sigOutBuf[1]
      <3>. HIDE DEF x
      <3>2. x \in Outs /\ sigOut' = Append(sigOut, x)
        BY <2>1, <3>1 DEF x
      <3>. QED BY <1>2, <3>2, AppendOK
    <2>4. sigReady' + Len(sigOut)' = sigReady + Len(sigOut) /\ Len(sigOut) =< Len(sigOut)'
      BY <1>4, <1>5, <2>2, <2>3
    <2>. QED BY <1>1, <1>3, <2>1, <2>4, SigQuietPass
  <1>7. CASE SIG!FeedFull
    <2>1. Len(sigOut) >= Cap /\ UNCHANGED <<sigOut, sigOutBuf>> /\ sigStatus' = "OUT_FULL"
      BY <1>7 DEF SIG!FeedFull
    <2>2. Len(sigOut)' = Cap /\ Len(sigOut)' = Len(sigOut) /\ Len(sigOut) \in Nat
      BY <2>1, SigNaturals, Numbers
    <2>3. Len(sigOutBuf) \in Nat \ {0} /\ Len(sigOutBuf)' = Len(sigOutBuf)
      BY <1>2, <2>1, TakeOK
    <2>4. sigReady' = sigReady /\ sigReady > 0 /\ sigReady \in Nat
      BY <1>4, <1>5, <2>3
    <2>5. sigReady' + Len(sigOut)' = sigReady + Len(sigOut) /\ Len(sigOut) =< Len(sigOut)'
      BY <2>2, <2>4
    <2>. QED BY <1>1, <1>3, <2>1, <2>2, <2>4, <2>5, SigQuietPass
  <1>. QED BY <1>6, <1>7

\* A pass begins while the unit runs.
LEMMA CepRuns == CEP!Pass => cepStatus = "RUNNING"
  BY DEF CEP!Pass, CEP!Collect, CEP!Parse, CEP!ParseNone, CEP!ParseIgnored, CEP!ParseSentenceEnd,
         CEP!ParsePhone, CEP!ParseConsumed, CEP!ParseForward, CEP!ParseStore, CEP!ParseForced,
         CEP!ParsingOther, CEP!Parsing, CEP!At, CEP!Smooth, CEP!FrameItem, CEP!FramePar,
         CEP!FramesDone, CEP!Framing, CEP!Feed

LEMMA SigRuns == SIG!Pass => sigStatus = "RUNNING"
  BY DEF SIG!Pass, SIG!Collect, SIG!ScheduleFrame, SIG!SchedulePlay, SIG!ScheduleSave,
         SIG!ScheduleUnsave, SIG!ScheduleModifier, SIG!ScheduleOther, SIG!Scheduling, SIG!Process,
         SIG!Load, SIG!Transition, SIG!Spectrum, SIG!ImpulseResponse, SIG!Excitation,
         SIG!OverlapAdd, SIG!PutFrame, SIG!Processing, SIG!Play, SIG!FeedItem, SIG!FeedFull,
         SIG!FeedFails, SIG!Feeding, SIG!At

LEMMA SigPassProtocol ==
    ASSUME TypeInv, TypeInv', sigStatus' # "ERROR", SIG!Pass
    PROVE  SIG!Protocol!Pass
  <1>1. SigBefore
    BY SigRuns, SigNumbersOK, SigNumbersOKNext DEF SigBefore
  <1>2. ~ SIG!FeedFails
    BY DEF SIG!FeedFails
  <1>. QED BY <1>1, <1>2, SigCollectProtocol, ScheduleProtocol, ProcessProtocol, PlayProtocol,
              SigFeedProtocol DEF SIG!Pass

\* Only one unit runs at a time.
LEMMA OneUnitOK == ASSUME OneUnit, [Next]_vars PROVE OneUnit'
  <1>. USE DEF OneUnit
  <1>1. CASE Put \/ Take \/ UNCHANGED vars
    BY <1>1 DEF Put, Take, cepState, sigState, vars, CEP!vars, SIG!vars
  <1>2. CASE CepStep
    BY <1>2 DEF CepStep, Operable, AtRest, sigState
  <1>3. CASE SigStep
    BY <1>3 DEF SigStep, Operable, AtRest, cepState
  <1>4. CASE CepPass
    BY <1>4, CepRuns DEF CepPass, sigState
  <1>5. CASE SigPass
    BY <1>5, SigRuns DEF SigPass, cepState
  <1>6. CASE \E mode \in {"SOFT", "FULL"} : Reset(mode)
    BY <1>6 DEF Reset, CEP!Initialize, SIG!Initialize
  <1>. QED BY <1>1, <1>2, <1>3, <1>4, <1>5, <1>6 DEF Next

\* What the steps of the other unit do to the buffer between the two.
LEMMA CepFills ==
    ASSUME TypeInv, CEP!Pass
    PROVE  Len(cepOut)' >= Len(cepOut)
  <1>0. Len(cepOut) \in Nat /\ cepOut \in Seq(Smooth) /\ cepOutBuf \in Seq(Smooth)
    BY DEF TypeInv, CepOK
  <1>1. CASE UNCHANGED cepOut
    BY <1>0, <1>1
  <1>2. CASE cepOut' = cepOut \o cepOutBuf
    <2>1. /\ Len(cepOut \o cepOutBuf) = Len(cepOut) + Len(cepOutBuf)
          /\ Len(cepOutBuf) \in Nat
      BY <1>0, JoinOK, Zenon
    <2>2. Len(cepOut)' = Len(cepOut) + Len(cepOutBuf)
      BY <1>2, <2>1
    <2>. QED BY <1>0, <2>1, <2>2
  <1>. QED BY <1>1, <1>2
           DEF CEP!Pass, CEP!Collect, CEP!Parse, CEP!ParseNone, CEP!ParseIgnored,
               CEP!ParseSentenceEnd, CEP!ParsePhone, CEP!ParseConsumed, CEP!ParseForward,
               CEP!ParseStore, CEP!ParseForced, CEP!ParsingOther, CEP!Parsing, CEP!Smooth,
               CEP!FrameItem, CEP!FramePar, CEP!FramesDone, CEP!Framing, CEP!Feed

LEMMA SigDrains ==
    ASSUME TypeInv, SIG!Pass
    PROVE  Len(cepOut)' =< Len(cepOut)
  <1>0. Len(cepOut) \in Nat /\ cepOut \in Seq(Smooth)
    BY DEF TypeInv, CepOK
  <1>1. CASE UNCHANGED cepOut
    BY <1>0, <1>1
  <1>2. CASE cepOut # <<>> /\ cepOut' = Tail(cepOut)
    <2>1. Len(cepOut)' = Len(cepOut) - 1
      BY <1>0, <1>2, TakeOK
    <2>. QED BY <1>0, <2>1
  <1>. QED BY <1>1, <1>2
           DEF SIG!Pass, SIG!Collect, SIG!ScheduleFrame, SIG!SchedulePlay, SIG!ScheduleSave,
               SIG!ScheduleUnsave, SIG!ScheduleModifier, SIG!ScheduleOther, SIG!Scheduling,
               SIG!Process, SIG!Load, SIG!Transition, SIG!Spectrum, SIG!ImpulseResponse,
               SIG!Excitation, SIG!OverlapAdd, SIG!PutFrame, SIG!Processing, SIG!Play,
               SIG!FeedItem, SIG!FeedFull, SIG!FeedFails, SIG!Feeding

\* What every step is to smoothing.
LEMMA CepStepsProtocol ==
    ASSUME TypeInv, TypeInv', FramesInv, FramesInv', OneUnit, [Next]_vars
    PROVE  [SmoothingKeeps]_(CEP!Protocol!vars)
  <1>. SUFFICES ASSUME ~ forced' PROVE [CEP!Protocol!Next]_(CEP!Protocol!vars)
    BY DEF SmoothingKeeps
  <1>. USE DEF CEP!Protocol!Next, CEP!Protocol!vars
  <1>. DEFINE state == <<cepProcState, feedFollowState, cepInBuf, cepOutBuf, headx, headxBottom,
                         indexReadPos, indexWritePos, activeEndPos>>
              counts == <<cepHeld, cepReady>>
  <1>0. UNCHANGED state => UNCHANGED counts
    BY DEF cepHeld, cepReady, CEP!Collected, CEP!Producing
  <1>1. CASE Put
    <2>1. /\ cepStatus # "RUNNING" /\ UNCHANGED cepStatus /\ UNCHANGED cepOut /\ UNCHANGED state
          /\ Len(pamOut)' = Len(pamOut) + 1 /\ Len(pamOut) \in Nat /\ Len(cepOut) \in Nat
      <3>1. /\ cepStatus # "RUNNING" /\ UNCHANGED cepStatus /\ UNCHANGED cepOut /\ UNCHANGED state
            /\ text[sent + 1] \in Items /\ pamOut' = Append(pamOut, text[sent + 1])
        BY <1>1 DEF Put, Operable, AtRest, cepState, TypeInv, TextOK
      <3>2. pamOut \in Seq(Items) /\ cepOut \in Seq(Smooth)
        BY DEF TypeInv, CepOK
      <3>. DEFINE x == text[sent + 1]
      <3>. HIDE DEF x
      <3>3. Len(Append(pamOut, x)) = Len(pamOut) + 1 /\ Len(pamOut) \in Nat /\ Len(cepOut) \in Nat
        BY <3>1, <3>2, AppendOK DEF x
      <3>. QED BY <3>1, <3>3 DEF x
    <2>. HIDE DEF state
    <2>2. Len(pamOut)' >= Len(pamOut) /\ Len(cepOut)' =< Len(cepOut) /\ UNCHANGED counts
      BY <1>0, <2>1
    <2>. QED BY <2>1, <2>2 DEF CEP!Protocol!Neighbours, cepHeld, cepReady
  <1>2. CASE Take \/ SigStep
    <2>1. UNCHANGED <<pamOut, cepOut, cepStatus>> /\ UNCHANGED state
      BY <1>2 DEF Take, SigStep, SIG!Call, cepState
    <2>. HIDE DEF state
    <2>. QED BY <1>0, <2>1 DEF cepHeld, cepReady
  <1>3. CASE CepStep
    <2>1. /\ cepStatus # "RUNNING" /\ cepStatus' = "RUNNING" /\ UNCHANGED <<pamOut, cepOut>>
          /\ UNCHANGED state
      BY <1>3 DEF CepStep, CEP!Call, CEP!store, CEP!window
    <2>. HIDE DEF state
    <2>. QED BY <1>0, <2>1 DEF CEP!Protocol!Call, cepHeld, cepReady
  <1>4. CASE CepPass
    BY <1>4, CepPassProtocol DEF CepPass
  <1>5. CASE SigPass
    <2>1. /\ cepStatus # "RUNNING" /\ UNCHANGED <<pamOut, cepStatus>> /\ UNCHANGED state
      BY <1>5, SigRuns DEF SigPass, OneUnit, cepState
    <2>2. Len(pamOut)' >= Len(pamOut) /\ Len(cepOut)' =< Len(cepOut)
      <3>1. Len(pamOut) \in Nat /\ Len(pamOut)' = Len(pamOut)
        BY <2>1 DEF TypeInv, CepOK
      <3>. QED BY <1>5, <3>1, SigDrains DEF SigPass
    <2>. HIDE DEF state
    <2>. QED BY <1>0, <2>1, <2>2 DEF CEP!Protocol!Neighbours, cepHeld, cepReady
  <1>6. CASE \E mode \in {"SOFT", "FULL"} : Reset(mode)
    <2>1. /\ cepStatus # "RUNNING" /\ cepStatus' = "NONE" /\ pamOut' = <<>> /\ cepOut' = <<>>
          /\ cepInBuf' = <<>> /\ cepOutBuf' = <<>> /\ indexWritePos' = 0 /\ cepProcState' = "COLLECT"
      BY <1>6 DEF Reset, AtRest, CEP!Initialize
    <2>. QED BY <2>1, EmptyOK DEF CEP!Protocol!Initialize, CEP!Collected, CEP!Producing
  <1>7. CASE UNCHANGED vars
    <2>1. UNCHANGED <<pamOut, cepOut, cepStatus>> /\ UNCHANGED state
      BY <1>7 DEF vars, CEP!vars, CEP!store, CEP!window
    <2>. HIDE DEF state
    <2>. QED BY <1>0, <2>1 DEF cepHeld, cepReady
  <1>. QED BY <1>1, <1>2, <1>3, <1>4, <1>5, <1>6, <1>7 DEF Next

\* What every step is to signal generation.
LEMMA SigStepsProtocol ==
    ASSUME TypeInv, TypeInv', OneUnit, [Next]_vars
    PROVE  [SignalKeeps]_(SIG!Protocol!vars)
  <1>. SUFFICES ASSUME sigStatus' # "ERROR" PROVE [SIG!Protocol!Next]_(SIG!Protocol!vars)
    BY DEF SignalKeeps
  <1>. USE DEF SIG!Protocol!Next, SIG!Protocol!vars
  <1>1. CASE Put \/ CepStep
    <2>1. UNCHANGED <<cepOut, sigOut, sigInBuf, sigOutBuf, playing, sigStatus>>
      BY <1>1 DEF Put, CepStep, CEP!Call, sigState
    <2>. QED BY <2>1
  <1>2. CASE Take
    <2>1. /\ sigStatus # "RUNNING" /\ UNCHANGED <<cepOut, sigInBuf, sigOutBuf, playing, sigStatus>>
          /\ sigOut # <<>> /\ sigOut' = Tail(sigOut)
      BY <1>2 DEF Take, Operable, AtRest, sigState
    <2>2. Len(sigOut)' =< Len(sigOut) /\ Len(cepOut)' >= Len(cepOut)
      <3>1. sigOut \in Seq(Outs) /\ cepOut \in Seq(Smooth)
        BY DEF TypeInv, CepOK, SigOK
      <3>2. Len(sigOut)' = Len(sigOut) - 1 /\ Len(sigOut) \in Nat /\ Len(cepOut) \in Nat
        BY <2>1, <3>1, TakeOK
      <3>. QED BY <2>1, <3>2
    <2>. QED BY <2>1, <2>2 DEF SIG!Protocol!Neighbours
  <1>3. CASE SigStep
    <2>1. /\ sigStatus # "RUNNING" /\ sigStatus' = "RUNNING"
          /\ UNCHANGED <<cepOut, sigOut, sigInBuf, sigOutBuf, playing>>
      BY <1>3 DEF SigStep, SIG!Call, SIG!files
    <2>. QED BY <2>1 DEF SIG!Protocol!Call
  <1>4. CASE SigPass
    BY <1>4, SigPassProtocol DEF SigPass
  <1>5. CASE CepPass
    <2>1. sigStatus # "RUNNING" /\ UNCHANGED <<sigOut, sigInBuf, sigOutBuf, playing, sigStatus>>
      BY <1>5, CepRuns DEF CepPass, OneUnit, sigState
    <2>2. Len(sigOut)' =< Len(sigOut) /\ Len(cepOut)' >= Len(cepOut)
      <3>1. sigOut \in Seq(Outs) /\ Len(sigOut) \in Nat
        BY DEF TypeInv, SigOK
      <3>. QED BY <1>5, <2>1, <3>1, CepFills DEF CepPass
    <2>. QED BY <2>1, <2>2 DEF SIG!Protocol!Neighbours
  <1>6. CASE \E mode \in {"SOFT", "FULL"} : Reset(mode)
    <2>1. /\ sigStatus # "RUNNING" /\ sigStatus' = "NONE" /\ cepOut' = <<>> /\ sigOut' = <<>>
          /\ sigInBuf' = <<>> /\ sigOutBuf' = <<>> /\ playing' = -1
      BY <1>6 DEF Reset, AtRest, SIG!Initialize
    <2>. QED BY <2>1, EmptyOK DEF SIG!Protocol!Initialize
  <1>7. CASE UNCHANGED vars
    BY <1>7 DEF vars, CEP!vars, SIG!vars, SIG!files
  <1>. QED BY <1>1, <1>2, <1>3, <1>4, <1>5, <1>6, <1>7 DEF Next

\* Each of the two units does what the control and the engine assume of any,
\* until the store for items runs over in cepStep or writing to a file fails in
\* sigStep: it takes what is there, puts what there is room for, makes items
\* only of items, and ends a step as IDLE only when nothing is left that it
\* could do and as OUT_FULL only when its output is full (picodata.h).  So
\* BackEnd implements UnitProtocol twice.
THEOREM BackEndUnitsKeepProtocol == Spec => UnitsKeepProtocol
  <1>. DEFINE KInv == OneUnit /\ FramesInv
  <1>1. Init => KInv /\ CEP!Protocol!Init /\ SIG!Protocol!Init
    <2>1. Init => OneUnit /\ FramesInv
      BY EmptyOK DEF Init, CEP!Blank, SIG!Blank, OneUnit, FramesInv, CEP!Producing, PuttingFrames
    <2>2. Init => CEP!Protocol!Init
      BY EmptyOK DEF Init, CEP!Blank, CEP!Protocol!Init, CEP!Collected, CEP!Producing
    <2>3. Init => SIG!Protocol!Init
      BY EmptyOK DEF Init, SIG!Blank, SIG!Protocol!Init
    <2>. QED BY <2>1, <2>2, <2>3
  <1>2. TypeInv /\ TypeInv' /\ KInv /\ [Next]_vars => KInv'
    BY OneUnitOK, FramesNext
  <1>3. TypeInv /\ TypeInv' /\ KInv /\ KInv' /\ [Next]_vars
           => [SmoothingKeeps]_(CEP!Protocol!vars) /\ [SignalKeeps]_(SIG!Protocol!vars)
    BY CepStepsProtocol, SigStepsProtocol
  <1>. QED BY TypeInit, TypeNext, <1>1, <1>2, <1>3, PTL DEF Spec, UnitsKeepProtocol


\* What is heard is a fold.
SpokenRule == [x \in Outs |-> [s \in Seq(Outs) |-> WithSpoken(s, x)]]
\* Its rule.
LEMMA SpokenRuleOK ==
    /\ Rule(SpokenRule, Outs, Seq(Outs))
    /\ <<>> \in Seq(Outs)
    /\ \A x \in Outs, s \in Seq(Outs) : SpokenRule[x][s] = WithSpoken(s, x)
  BY DEF SpokenRule, Rule, WithSpoken

\* It is made item by item.
LEMMA SpokenInMade == ASSUME NEW q \in Seq(Outs) PROVE Makes(SpokenIn(q), q, <<>>, SpokenRule, Seq(Outs))
  <1>. DEFINE Step(it, P) == IF P = {} THEN <<>> ELSE WithSpoken(it[P \ {Max(P)}], q[Max(P)])
              Is(it) == it = [P \in SUBSET DOMAIN q |-> Step(it, P)]
              it0 == CHOOSE it : Is(it)
  <1>0. Len(q) \in Nat /\ DOMAIN q = 1 .. Len(q) /\ \A i \in 1 .. Len(q) : q[i] \in Outs
    OBVIOUS
  <1>1. \E it : Is(it)
    <2>1. PICK it \in [SUBSET DOMAIN q -> Seq(Outs)] : IsFold(it, q, <<>>, SpokenRule)
      BY FoldExists, SpokenRuleOK, Zenon
    <2>2. ASSUME NEW P \in SUBSET DOMAIN q PROVE it[P] = Step(it, P)
      <3>1. P # {} => q[Max(P)] \in Outs
        BY <1>0, MaxOK, Zenon
      <3>2. it[P \ {Max(P)}] \in Seq(Outs)
        BY Zenon
      <3>3. it[P] = IF P = {} THEN <<>> ELSE SpokenRule[q[Max(P)]][it[P \ {Max(P)}]]
        BY <2>1, Zenon DEF IsFold
      <3>. QED BY <3>1, <3>2, <3>3, SpokenRuleOK, Zenon
    <2>3. Is(it)
      BY <2>2, Zenon
    <2>. QED BY <2>3, Zenon
  <1>2. Is(it0)
    BY <1>1, Zenon
  <1>3. SpokenIn(q) = it0[DOMAIN q]
    BY DEF SpokenIn, FoldLeft, MapThenFoldSet
  <1>4. \A P \in SUBSET DOMAIN q : it0[P] = Step(it0, P)
    BY <1>2, Zenon
  <1>. HIDE DEF it0
  <1>. DEFINE run == [k \in 0 .. Len(q) |-> it0[1 .. k]]
  <1>5. run[0] = <<>> /\ SpokenIn(q) = run[Len(q)]
    <2>1. 0 \in 0 .. Len(q) /\ Len(q) \in 0 .. Len(q) /\ 1 .. 0 = {}
      BY <1>0
    <2>2. it0[{}] = <<>>
      BY <1>4, Zenon
    <2>. QED BY <1>0, <1>3, <2>1, <2>2, Zenon
  <1>6. ASSUME NEW k \in 0 .. Len(q) - 1, run[k] \in Seq(Outs)
        PROVE  run[k + 1] = SpokenRule[q[k + 1]][run[k]]
    <2>1. k + 1 \in 0 .. Len(q) /\ k \in 0 .. Len(q) /\ k + 1 \in 1 .. Len(q)
      BY <1>0
    <2>2. it0[1 .. k + 1] = WithSpoken(it0[1 .. k], q[k + 1])
      <3>1. /\ 1 .. k + 1 \in SUBSET (1 .. Len(q)) /\ 1 .. k + 1 # {}
            /\ Max(1 .. k + 1) = k + 1 /\ (1 .. k + 1) \ {k + 1} = 1 .. k
        BY <1>0, FirstPlaces, Zenon
      <3>. DEFINE P == 1 .. k + 1
      <3>. HIDE DEF P
      <3>2. it0[P] = Step(it0, P)
        BY <1>0, <1>4, <3>1, Zenon DEF P
      <3>. QED BY <3>1, <3>2, Zenon DEF P
    <2>3. run[k + 1] = WithSpoken(run[k], q[k + 1]) /\ q[k + 1] \in Outs
      BY <1>0, <2>1, <2>2, Zenon
    <2>. HIDE DEF run
    <2>. QED BY <1>6, <2>3, SpokenRuleOK, Zenon
  <1>. HIDE DEF run
  <1>. QED BY <1>5, <1>6, Zenon DEF Makes, IsRun

\* What is heard of one more item.
LEMMA SpokenInOK ==
    /\ SpokenIn(<<>>) = <<>>
    /\ \A q \in Seq(Outs) : SpokenIn(q) \in Seq(Outs)
    /\ \A q \in Seq(Outs), x \in Outs : SpokenIn(Append(q, x)) = WithSpoken(SpokenIn(q), x)
  <1>1. PICK F : F = [q \in Seq(Outs) |-> SpokenIn(q)]
    OBVIOUS
  <1>2. \A q \in Seq(Outs) : F[q] = SpokenIn(q)
    BY <1>1, Zenon
  <1>3. \A q \in Seq(Outs) : Makes(F[q], q, <<>>, SpokenRule, Seq(Outs))
    BY <1>2, SpokenInMade, Zenon
  <1>4. /\ F[<<>>] = <<>>
        /\ \A q \in Seq(Outs) : F[q] \in Seq(Outs)
        /\ \A q \in Seq(Outs), x \in Outs : F[Append(q, x)] = SpokenRule[x][F[q]]
    <2>1. Rule(SpokenRule, Outs, Seq(Outs)) /\ <<>> \in Seq(Outs)
      BY SpokenRuleOK, Zenon
    <2>2. Folds(F, Outs, Seq(Outs), <<>>, SpokenRule)
      BY <1>3, <2>1, Zenon DEF Folds
    <2>3. Made(F, Outs, Seq(Outs), <<>>, SpokenRule)
      BY <2>2, FoldOK, Zenon
    <2>. QED BY <2>3, Zenon DEF Made
  <1>5. \A q \in Seq(Outs), x \in Outs : Append(q, x) \in Seq(Outs)
    BY AppendOK
  <1>6. ASSUME NEW q \in Seq(Outs), NEW x \in Outs
        PROVE  SpokenIn(q) \in Seq(Outs) /\ SpokenIn(Append(q, x)) = WithSpoken(SpokenIn(q), x)
    <2>1. F[q] = SpokenIn(q) /\ F[q] \in Seq(Outs)
      BY <1>2, <1>4, Zenon
    <2>2. F[Append(q, x)] = SpokenIn(Append(q, x)) /\ F[Append(q, x)] = SpokenRule[x][F[q]]
      BY <1>2, <1>4, <1>5, Zenon
    <2>. QED BY <2>1, <2>2, SpokenRuleOK, Zenon
  <1>7. SpokenIn(<<>>) = <<>>
    BY <1>2, <1>4, EmptyOK, Zenon
  <1>8. \A q \in Seq(Outs) : SpokenIn(q) \in Seq(Outs)
    BY <1>2, <1>4, Zenon
  <1>. QED BY <1>6, <1>7, <1>8, Zenon

-----------------------------------------------------------------------------
TextPars == [type : {"FRAME_PAR"}, cep : TextFrames, phone : TextFrames]
Sound == Items \union TextPars
Smoothing == [out : Seq(Sound), frames : 0 .. MaxWinLen, ignore : BOOLEAN]
NoSmoothing == [out |-> <<>>, frames |-> 0, ignore |-> FALSE]

\* The frames of a phone, as far as they fit.
LEMMA FittingOK ==
    ASSUME NEW x \in Items, x.type = "PHONE", NEW k \in 0 .. MaxWinLen
    PROVE  LET fr == CEP!UpTo(CEP!FramesOf(x), MaxWinLen - k)
           IN  /\ fr \in Seq(TextFrames) /\ Len(fr) \in Nat /\ k + Len(fr) \in 0 .. MaxWinLen
               /\ \A i \in 1 .. Len(fr) : fr[i] \in TextFrames /\ Par(fr[i]) \in TextPars
               /\ [i \in DOMAIN fr |-> Par(fr[i])] \in Seq(Sound)
               /\ Len([i \in DOMAIN fr |-> Par(fr[i])]) = Len(fr)
  <1>. DEFINE fr == CEP!UpTo(CEP!FramesOf(x), MaxWinLen - k)
              ps == [i \in DOMAIN fr |-> Par(fr[i])]
  <1>1. MaxWinLen - k \in Nat
    BY Numbers
  <1>2. /\ fr \in Seq(TextFrames) /\ Len(fr) \in 0 .. MaxWinLen - k
        /\ \A i \in 1 .. Len(fr) : fr[i] \in TextFrames
    BY <1>1, FramesOfOK, UpToOK, Zenon
  <1>. HIDE DEF fr
  <1>3. \A f \in TextFrames : Par(f) \in TextPars /\ Par(f) \in Sound
    BY DEF Par, TextPars, Sound
  <1>4. Len(fr) \in Nat /\ DOMAIN fr = 1 .. Len(fr) /\ k + Len(fr) \in 0 .. MaxWinLen
    BY <1>1, <1>2, Numbers
  <1>5. \A i \in 1 .. Len(fr) : Par(fr[i]) \in Sound /\ Par(fr[i]) \in TextPars
    BY <1>2, <1>3
  <1>6. ps \in Seq(Sound) /\ Len(ps) = Len(fr)
    BY <1>4, <1>5
  <1>. QED BY <1>2, <1>4, <1>5, <1>6 DEF fr

\* One more item read.
LEMMA SmoothedOneOK == ASSUME NEW s \in Smoothing, NEW x \in Items PROVE SmoothedOne(s, x) \in Smoothing
  <1>1. s.out \in Seq(Sound) /\ s.frames \in 0 .. MaxWinLen /\ s.ignore \in BOOLEAN /\ x \in Sound
        /\ s = [out |-> s.out, frames |-> s.frames, ignore |-> s.ignore]
    BY DEF Smoothing, Sound
  <1>2. CASE x.type = "PHONE" /\ ~ s.ignore
    <2>. DEFINE fr == CEP!UpTo(CEP!FramesOf(x), MaxWinLen - s.frames)
                ps == [i \in DOMAIN fr |-> Par(fr[i])]
    <2>1. ps \in Seq(Sound) /\ s.frames + Len(fr) \in 0 .. MaxWinLen
      BY <1>1, <1>2, FittingOK
    <2>2. SmoothedOne(s, x) = [s EXCEPT !.out = @ \o ps, !.frames = @ + Len(fr)]
      BY <1>2 DEF SmoothedOne
    <2>. HIDE DEF fr, ps
    <2>3. s.out \o ps \in Seq(Sound)
      BY <1>1, <2>1, JoinOK, Zenon
    <2>4. SmoothedOne(s, x) = [out |-> s.out \o ps, frames |-> s.frames + Len(fr), ignore |-> s.ignore]
      BY <2>2 DEF Smoothing
    <2>. QED BY <1>1, <2>1, <2>3, <2>4 DEF Smoothing
  <1>3. CASE x.type # "PHONE" \/ s.ignore
    <2>1. Append(s.out, x) \in Seq(Sound) /\ 0 \in 0 .. MaxWinLen
      BY <1>1, AppendOK, Numbers
    <2>2. \/ SmoothedOne(s, x) = [s EXCEPT !.ignore = x.type # "IGNSIG_END"]
          \/ SmoothedOne(s, x) = [s EXCEPT !.ignore = TRUE]
          \/ SmoothedOne(s, x) = s
          \/ SmoothedOne(s, x) = [s EXCEPT !.out = Append(s.out, x),
                                           !.frames = IF CEP!EndsSentence(x) THEN 0 ELSE s.frames]
      BY <1>1, <1>3, Zenon DEF SmoothedOne
    <2>. QED BY <1>1, <2>1, <2>2 DEF Smoothing
  <1>. QED BY <1>2, <1>3

SmoothRule == [x \in Items |-> [s \in Smoothing |-> SmoothedOne(s, x)]]
\* The rule of smoothing.
LEMMA SmoothRuleOK ==
    /\ Rule(SmoothRule, Items, Smoothing)
    /\ NoSmoothing \in Smoothing
    /\ \A x \in Items, s \in Smoothing : SmoothRule[x][s] = SmoothedOne(s, x)
  <1>1. NoSmoothing \in Smoothing
    BY EmptyOK, Numbers DEF NoSmoothing, Smoothing
  <1>. QED BY <1>1, SmoothedOneOK, Zenon DEF SmoothRule, Rule

\* What smoothing should make is made item by item.
LEMMA SmoothedMade == ASSUME NEW q \in Seq(Items) PROVE Makes(SmoothedAll(q), q, NoSmoothing, SmoothRule, Smoothing)
  <1>. DEFINE Step(it, P) == IF P = {} THEN NoSmoothing ELSE SmoothedOne(it[P \ {Max(P)}], q[Max(P)])
              Is(it) == it = [P \in SUBSET DOMAIN q |-> Step(it, P)]
              it0 == CHOOSE it : Is(it)
  <1>0. Len(q) \in Nat /\ DOMAIN q = 1 .. Len(q) /\ \A i \in 1 .. Len(q) : q[i] \in Items
    OBVIOUS
  <1>1. \E it : Is(it)
    <2>1. PICK it \in [SUBSET DOMAIN q -> Smoothing] : IsFold(it, q, NoSmoothing, SmoothRule)
      BY FoldExists, SmoothRuleOK, Zenon
    <2>2. ASSUME NEW P \in SUBSET DOMAIN q PROVE it[P] = Step(it, P)
      <3>1. P # {} => q[Max(P)] \in Items
        BY <1>0, MaxOK, Zenon
      <3>2. it[P \ {Max(P)}] \in Smoothing
        BY Zenon
      <3>3. it[P] = IF P = {} THEN NoSmoothing ELSE SmoothRule[q[Max(P)]][it[P \ {Max(P)}]]
        BY <2>1, Zenon DEF IsFold
      <3>. QED BY <3>1, <3>2, <3>3, SmoothRuleOK, Zenon
    <2>3. Is(it)
      BY <2>2, Zenon
    <2>. QED BY <2>3, Zenon
  <1>2. Is(it0)
    BY <1>1, Zenon
  <1>3. SmoothedAll(q) = it0[DOMAIN q]
    BY DEF SmoothedAll, NoSmoothing, FoldLeft, MapThenFoldSet
  <1>4. \A P \in SUBSET DOMAIN q : it0[P] = Step(it0, P)
    BY <1>2, Zenon
  <1>. HIDE DEF it0
  <1>. DEFINE run == [k \in 0 .. Len(q) |-> it0[1 .. k]]
  <1>5. run[0] = NoSmoothing /\ SmoothedAll(q) = run[Len(q)]
    <2>1. 0 \in 0 .. Len(q) /\ Len(q) \in 0 .. Len(q) /\ 1 .. 0 = {}
      BY <1>0
    <2>2. it0[{}] = NoSmoothing
      BY <1>4, Zenon
    <2>. QED BY <1>0, <1>3, <2>1, <2>2, Zenon
  <1>6. ASSUME NEW k \in 0 .. Len(q) - 1, run[k] \in Smoothing
        PROVE  run[k + 1] = SmoothRule[q[k + 1]][run[k]]
    <2>1. k + 1 \in 0 .. Len(q) /\ k \in 0 .. Len(q) /\ k + 1 \in 1 .. Len(q)
      BY <1>0
    <2>2. it0[1 .. k + 1] = SmoothedOne(it0[1 .. k], q[k + 1])
      <3>1. /\ 1 .. k + 1 \in SUBSET (1 .. Len(q)) /\ 1 .. k + 1 # {}
            /\ Max(1 .. k + 1) = k + 1 /\ (1 .. k + 1) \ {k + 1} = 1 .. k
        BY <1>0, FirstPlaces, Zenon
      <3>. DEFINE P == 1 .. k + 1
      <3>. HIDE DEF P
      <3>2. it0[P] = Step(it0, P)
        BY <1>0, <1>4, <3>1, Zenon DEF P
      <3>. QED BY <3>1, <3>2, Zenon DEF P
    <2>3. run[k + 1] = SmoothedOne(run[k], q[k + 1]) /\ q[k + 1] \in Items
      BY <1>0, <2>1, <2>2, Zenon
    <2>. HIDE DEF run
    <2>. QED BY <1>6, <2>3, SmoothRuleOK, Zenon
  <1>. HIDE DEF run
  <1>. QED BY <1>5, <1>6, Zenon DEF Makes, IsRun

\* What smoothing makes of one more item.
LEMMA SmoothedOK ==
    /\ SmoothedAll(<<>>) = NoSmoothing
    /\ \A q \in Seq(Items) : SmoothedAll(q) \in Smoothing
    /\ \A q \in Seq(Items), x \in Items : SmoothedAll(Append(q, x)) = SmoothedOne(SmoothedAll(q), x)
  <1>1. PICK F : F = [q \in Seq(Items) |-> SmoothedAll(q)]
    OBVIOUS
  <1>2. \A q \in Seq(Items) : F[q] = SmoothedAll(q)
    BY <1>1, Zenon
  <1>3. \A q \in Seq(Items) : Makes(F[q], q, NoSmoothing, SmoothRule, Smoothing)
    BY <1>2, SmoothedMade, Zenon
  <1>4. /\ F[<<>>] = NoSmoothing
        /\ \A q \in Seq(Items) : F[q] \in Smoothing
        /\ \A q \in Seq(Items), x \in Items : F[Append(q, x)] = SmoothRule[x][F[q]]
    <2>1. Rule(SmoothRule, Items, Smoothing) /\ NoSmoothing \in Smoothing
      BY SmoothRuleOK, Zenon
    <2>2. Folds(F, Items, Smoothing, NoSmoothing, SmoothRule)
      BY <1>3, <2>1, Zenon DEF Folds
    <2>3. Made(F, Items, Smoothing, NoSmoothing, SmoothRule)
      BY <2>2, FoldOK, Zenon
    <2>. QED BY <2>3, Zenon DEF Made
  <1>5. \A q \in Seq(Items), x \in Items : Append(q, x) \in Seq(Items)
    BY AppendOK
  <1>6. ASSUME NEW q \in Seq(Items), NEW x \in Items
        PROVE  SmoothedAll(q) \in Smoothing /\ SmoothedAll(Append(q, x)) = SmoothedOne(SmoothedAll(q), x)
    <2>1. F[q] = SmoothedAll(q) /\ F[q] \in Smoothing
      BY <1>2, <1>4, Zenon
    <2>2. F[Append(q, x)] = SmoothedAll(Append(q, x)) /\ F[Append(q, x)] = SmoothRule[x][F[q]]
      BY <1>2, <1>4, <1>5, Zenon
    <2>. QED BY <2>1, <2>2, SmoothRuleOK, Zenon
  <1>7. SmoothedAll(<<>>) = NoSmoothing
    BY <1>2, <1>4, EmptyOK, Zenon
  <1>8. \A q \in Seq(Items) : SmoothedAll(q) \in Smoothing
    BY <1>2, <1>4, Zenon
  <1>. QED BY <1>6, <1>7, <1>8, Zenon

-----------------------------------------------------------------------------
Signals == [out : Seq(Outs), frames : Seq(TextFrames)]
NoSignal == [out |-> <<>>, frames |-> <<>>]

\* What smoothing makes is among what is sent on.
LEMMA SoundsOK == /\ \A x \in Sound : x \in Smooth /\ x \in Outs
                  /\ \A x \in Sound : x.type = "FRAME_PAR" => x \in TextPars /\ x.cep \in TextFrames
                  /\ \A x \in Sound : x.type # "FRAME_PAR" => x \in Items /\ x.type # "FRAME" /\ Spoken(x)
                  /\ \A f \in TextFrames : f \in Frames /\ f.n # 0
  <1>1. \A f \in TextFrames : f \in Frames /\ f.n # 0
    BY DEF TextFrames, Frames, CEP!Frames
  <1>2. \A x \in TextPars : x \in Pars /\ x.type = "FRAME_PAR" /\ x.cep \in TextFrames
    BY <1>1 DEF TextPars, Pars
  <1>3. \A x \in Items : x.type # "FRAME_PAR" /\ x.type # "FRAME"
    BY ItemsAssumption
  <1>. QED BY <1>1, <1>2, <1>3, Zenon DEF Sound, Smooth, Outs, Spoken, IsFrame

\* Two items of samples.
LEMMA TwoSamples ==
    ASSUME NEW f \in TextFrames
    PROVE  /\ SIG!Samples(f) \in Seq(Outs) /\ Len(SIG!Samples(f)) = 2
           /\ SIG!Samples(f)[1] \in Outs /\ SIG!Samples(f)[2] \in Outs
           /\ Spoken(SIG!Samples(f)[1]) /\ Spoken(SIG!Samples(f)[2])
           /\ SIG!Samples(f) = <<SIG!Samples(f)[1], SIG!Samples(f)[2]>>
  <1>1. f \in Frames /\ f.n # 0
    BY SoundsOK
  <1>2. \A h \in 1 .. 2 : [type |-> "FRAME", of |-> f, half |-> h] \in Outs
                          /\ Spoken([type |-> "FRAME", of |-> f, half |-> h])
    BY <1>1 DEF Outs, Spoken
  <1>3. SIG!Samples(f) = [h \in 1 .. 2 |-> [type |-> "FRAME", of |-> f, half |-> h]]
    BY DEF SIG!Samples
  <1>. QED BY <1>2, <1>3

\* The frame that is put late.
LEMMA LateOK ==
    ASSUME NEW s \in Seq(TextFrames), s # <<>>
    PROVE  Late(s) \in TextFrames
  BY DEF Late

\* The signal of one more item.
LEMMA SignalOneOK == ASSUME NEW s \in Signals, NEW x \in Sound PROVE SignalOne(s, x) \in Signals
  <1>1. s.out \in Seq(Outs) /\ s.frames \in Seq(TextFrames)
        /\ s = [out |-> s.out, frames |-> s.frames]
    BY DEF Signals
  <1>2. CASE x.type = "FRAME_PAR"
    <2>. DEFINE frames == Append(s.frames, x.cep)
    <2>1. x.cep \in TextFrames
      BY <1>2, SoundsOK, Zenon
    <2>2. frames \in Seq(TextFrames) /\ frames # <<>>
      BY <1>1, <2>1
    <2>3. SignalOne(s, x) = [out |-> s.out \o SIG!Samples(Late(frames)), frames |-> frames]
      BY <1>2 DEF SignalOne
    <2>. HIDE DEF frames
    <2>4. s.out \o SIG!Samples(Late(frames)) \in Seq(Outs)
      BY <1>1, <2>2, LateOK, TwoSamples, JoinOK, Zenon
    <2>. QED BY <2>2, <2>3, <2>4 DEF Signals
  <1>3. CASE x.type # "FRAME_PAR"
    <2>1. Append(s.out, x) \in Seq(Outs)
      BY <1>1, SoundsOK, AppendOK, Zenon
    <2>2. SignalOne(s, x) = s \/ SignalOne(s, x) = [s EXCEPT !.out = Append(s.out, x)]
      BY <1>3, Zenon DEF SignalOne
    <2>. QED BY <1>1, <2>1, <2>2 DEF Signals
  <1>. QED BY <1>2, <1>3

SignalRule == [x \in Sound |-> [s \in Signals |-> SignalOne(s, x)]]
\* The rule of the signal.
LEMMA SignalRuleOK ==
    /\ Rule(SignalRule, Sound, Signals)
    /\ NoSignal \in Signals
    /\ \A x \in Sound, s \in Signals : SignalRule[x][s] = SignalOne(s, x)
  <1>1. NoSignal \in Signals
    BY EmptyOK DEF NoSignal, Signals
  <1>. QED BY <1>1, SignalOneOK, Zenon DEF SignalRule, Rule

\* The signal is made item by item.
LEMMA SignalMade == ASSUME NEW q \in Seq(Sound) PROVE Makes(SignalAll(q), q, NoSignal, SignalRule, Signals)
  <1>. DEFINE Step(it, P) == IF P = {} THEN NoSignal ELSE SignalOne(it[P \ {Max(P)}], q[Max(P)])
              Is(it) == it = [P \in SUBSET DOMAIN q |-> Step(it, P)]
              it0 == CHOOSE it : Is(it)
  <1>0. Len(q) \in Nat /\ DOMAIN q = 1 .. Len(q) /\ \A i \in 1 .. Len(q) : q[i] \in Sound
    OBVIOUS
  <1>1. \E it : Is(it)
    <2>1. PICK it \in [SUBSET DOMAIN q -> Signals] : IsFold(it, q, NoSignal, SignalRule)
      BY FoldExists, SignalRuleOK, Zenon
    <2>2. ASSUME NEW P \in SUBSET DOMAIN q PROVE it[P] = Step(it, P)
      <3>1. P # {} => q[Max(P)] \in Sound
        BY <1>0, MaxOK, Zenon
      <3>2. it[P \ {Max(P)}] \in Signals
        BY Zenon
      <3>3. it[P] = IF P = {} THEN NoSignal ELSE SignalRule[q[Max(P)]][it[P \ {Max(P)}]]
        BY <2>1, Zenon DEF IsFold
      <3>. QED BY <3>1, <3>2, <3>3, SignalRuleOK, Zenon
    <2>3. Is(it)
      BY <2>2, Zenon
    <2>. QED BY <2>3, Zenon
  <1>2. Is(it0)
    BY <1>1, Zenon
  <1>3. SignalAll(q) = it0[DOMAIN q]
    BY DEF SignalAll, NoSignal, FoldLeft, MapThenFoldSet
  <1>4. \A P \in SUBSET DOMAIN q : it0[P] = Step(it0, P)
    BY <1>2, Zenon
  <1>. HIDE DEF it0
  <1>. DEFINE run == [k \in 0 .. Len(q) |-> it0[1 .. k]]
  <1>5. run[0] = NoSignal /\ SignalAll(q) = run[Len(q)]
    <2>1. 0 \in 0 .. Len(q) /\ Len(q) \in 0 .. Len(q) /\ 1 .. 0 = {}
      BY <1>0
    <2>2. it0[{}] = NoSignal
      BY <1>4, Zenon
    <2>. QED BY <1>0, <1>3, <2>1, <2>2, Zenon
  <1>6. ASSUME NEW k \in 0 .. Len(q) - 1, run[k] \in Signals
        PROVE  run[k + 1] = SignalRule[q[k + 1]][run[k]]
    <2>1. k + 1 \in 0 .. Len(q) /\ k \in 0 .. Len(q) /\ k + 1 \in 1 .. Len(q)
      BY <1>0
    <2>2. it0[1 .. k + 1] = SignalOne(it0[1 .. k], q[k + 1])
      <3>1. /\ 1 .. k + 1 \in SUBSET (1 .. Len(q)) /\ 1 .. k + 1 # {}
            /\ Max(1 .. k + 1) = k + 1 /\ (1 .. k + 1) \ {k + 1} = 1 .. k
        BY <1>0, FirstPlaces, Zenon
      <3>. DEFINE P == 1 .. k + 1
      <3>. HIDE DEF P
      <3>2. it0[P] = Step(it0, P)
        BY <1>0, <1>4, <3>1, Zenon DEF P
      <3>. QED BY <3>1, <3>2, Zenon DEF P
    <2>3. run[k + 1] = SignalOne(run[k], q[k + 1]) /\ q[k + 1] \in Sound
      BY <1>0, <2>1, <2>2, Zenon
    <2>. HIDE DEF run
    <2>. QED BY <1>6, <2>3, SignalRuleOK, Zenon
  <1>. HIDE DEF run
  <1>. QED BY <1>5, <1>6, Zenon DEF Makes, IsRun

\* The signal of one more item.
LEMMA SignalOK ==
    /\ SignalAll(<<>>) = NoSignal
    /\ \A q \in Seq(Sound) : SignalAll(q) \in Signals
    /\ \A q \in Seq(Sound), x \in Sound : SignalAll(Append(q, x)) = SignalOne(SignalAll(q), x)
  <1>1. PICK F : F = [q \in Seq(Sound) |-> SignalAll(q)]
    OBVIOUS
  <1>2. \A q \in Seq(Sound) : F[q] = SignalAll(q)
    BY <1>1, Zenon
  <1>3. \A q \in Seq(Sound) : Makes(F[q], q, NoSignal, SignalRule, Signals)
    BY <1>2, SignalMade, Zenon
  <1>4. /\ F[<<>>] = NoSignal
        /\ \A q \in Seq(Sound) : F[q] \in Signals
        /\ \A q \in Seq(Sound), x \in Sound : F[Append(q, x)] = SignalRule[x][F[q]]
    <2>1. Rule(SignalRule, Sound, Signals) /\ NoSignal \in Signals
      BY SignalRuleOK, Zenon
    <2>2. Folds(F, Sound, Signals, NoSignal, SignalRule)
      BY <1>3, <2>1, Zenon DEF Folds
    <2>3. Made(F, Sound, Signals, NoSignal, SignalRule)
      BY <2>2, FoldOK, Zenon
    <2>. QED BY <2>3, Zenon DEF Made
  <1>5. \A q \in Seq(Sound), x \in Sound : Append(q, x) \in Seq(Sound)
    BY AppendOK
  <1>6. ASSUME NEW q \in Seq(Sound), NEW x \in Sound
        PROVE  SignalAll(q) \in Signals /\ SignalAll(Append(q, x)) = SignalOne(SignalAll(q), x)
    <2>1. F[q] = SignalAll(q) /\ F[q] \in Signals
      BY <1>2, <1>4, Zenon
    <2>2. F[Append(q, x)] = SignalAll(Append(q, x)) /\ F[Append(q, x)] = SignalRule[x][F[q]]
      BY <1>2, <1>4, <1>5, Zenon
    <2>. QED BY <2>1, <2>2, SignalRuleOK, Zenon
  <1>7. SignalAll(<<>>) = NoSignal
    BY <1>2, <1>4, EmptyOK, Zenon
  <1>8. \A q \in Seq(Sound) : SignalAll(q) \in Signals
    BY <1>2, <1>4, Zenon
  <1>. QED BY <1>6, <1>7, <1>8, Zenon


-----------------------------------------------------------------------------
(* Joining sequences.                                                       *)

\* Three sequences.
LEMMA JoinAssoc ==
    ASSUME NEW S, NEW s \in Seq(S), NEW t \in Seq(S), NEW u \in Seq(S)
    PROVE  (s \o t) \o u = s \o (t \o u)
  OBVIOUS

\* Joining sequences of each kind.
LEMMA JoinsItems ==
    \A a, b, c \in Seq(Items) : (a \o b) \o c = a \o (b \o c) /\ b \o c \in Seq(Items)
  BY SMTT(20)

\* Of what smoothing makes.
LEMMA JoinsSound ==
    \A a, b, c \in Seq(Sound) : (a \o b) \o c = a \o (b \o c) /\ b \o c \in Seq(Sound)
  BY SMTT(20)

\* Of what is in its buffers.
LEMMA JoinsSmooth ==
    \A a, b, c \in Seq(Smooth) : (a \o b) \o c = a \o (b \o c) /\ b \o c \in Seq(Smooth)
  BY SMTT(20)

\* Of what comes out.
LEMMA JoinsOuts ==
    \A a, b, c \in Seq(Outs) : (a \o b) \o c = a \o (b \o c) /\ b \o c \in Seq(Outs)
  BY SMTT(20)

\* Joining does not depend on where three are parted.
Regroups(a, b, c, S) == (a \o b) \o c = a \o (b \o c) /\ b \o c \in Seq(S)

\* That is so of what smoothing makes.
LEMMA RegroupsSound == \A a, b, c \in Seq(Sound) : Regroups(a, b, c, Sound)
  BY JoinsSound, Zenon DEF Regroups

\* And of what is in the buffers.
LEMMA RegroupsSmooth == \A a, b, c \in Seq(Smooth) : Regroups(a, b, c, Smooth)
  BY JoinsSmooth, Zenon DEF Regroups

\* Nor of four.
NestsRight(a, b, c, d) == ((a \o b) \o c) \o d = a \o (b \o (c \o d)) /\ b \o (c \o d) \in Seq(Smooth)

\* That is so of what is in the buffers.
LEMMA NestsRightSmooth == \A a, b, c, d \in Seq(Smooth) : NestsRight(a, b, c, d)
  <1>. SUFFICES ASSUME NEW a \in Seq(Smooth), NEW b \in Seq(Smooth), NEW c \in Seq(Smooth), NEW d \in Seq(Smooth)
                PROVE  NestsRight(a, b, c, d)
    BY Zenon
  <1>1. PICK u \in Seq(Smooth) : u = a \o b
    BY JoinOK, Zenon
  <1>2. PICK v \in Seq(Smooth) : v = c \o d
    BY JoinOK, Zenon
  <1>3. Regroups(u, c, d, Smooth) /\ Regroups(a, b, v, Smooth)
    BY RegroupsSmooth, Zenon
  <1>. QED BY <1>1, <1>2, <1>3, Zenon DEF NestsRight, Regroups

\* d is a and then more.
GoesOn(a, d) == \E u \in Seq(Sound) : d = a \o u

\* What is left of four, the first of them taken off.
LEMMA RestOfFour ==
    \A a, w, r, z \in Seq(Sound) : GoesOn(a, ((a \o w) \o r) \o z)
  <1>. SUFFICES ASSUME NEW a \in Seq(Sound), NEW w \in Seq(Sound),
                       NEW r \in Seq(Sound), NEW z \in Seq(Sound)
                PROVE  GoesOn(a, ((a \o w) \o r) \o z)
    BY Zenon
  <1>1. PICK e \in Seq(Sound) : e = w \o r /\ (a \o w) \o r = a \o e
    <2>1. (a \o w) \o r = a \o (w \o r) /\ w \o r \in Seq(Sound)
      BY JoinsSound
    <2>. QED BY <2>1, Zenon
  <1>2. (a \o e) \o z = a \o (e \o z) /\ e \o z \in Seq(Sound)
    <2>1. Regroups(a, e, z, Sound)
      BY RegroupsSound, Zenon
    <2>. QED BY <2>1, Zenon DEF Regroups
  <1>. QED BY <1>1, <1>2, Zenon DEF GoesOn

\* With nothing.
LEMMA JoinNone ==
    ASSUME NEW S, NEW s \in Seq(S)
    PROVE  s \o <<>> = s /\ <<>> \o s = s
  OBVIOUS

\* With one element.
LEMMA JoinOne ==
    ASSUME NEW S, NEW s \in Seq(S), NEW x \in S
    PROVE  s \o <<x>> = Append(s, x)
  OBVIOUS

\* Or none.
LEMMA AtMostOne == \A s \in Seq(Items) : s # <<>> /\ Len(s) =< 1 => Len(s) = 1
  <1>. SUFFICES ASSUME NEW s \in Seq(Items), s # <<>>, Len(s) =< 1 PROVE Len(s) = 1
    BY Zenon
  <1>1. ASSUME Len(s) = 0 PROVE s = <<>>
    BY <1>1
  <1>2. PICK n : n = Len(s)
    OBVIOUS
  <1>3. n \in Nat /\ n =< 1
    BY <1>2
  <1>4. n # 0
    BY <1>1, <1>2, Zenon
  <1>5. n = 1
    BY <1>3, <1>4
  <1>. QED BY <1>2, <1>5, Zenon

\* A sequence of length 1.
LEMMA OneElement ==
    ASSUME NEW S, NEW s \in Seq(S), Len(s) = 1
    PROVE  s = <<s[1]>> /\ s[1] \in S /\ s # <<>>
  <1>1. s[1] \in S /\ s # <<>>
    OBVIOUS
  <1>2. s = [i \in 1 .. 1 |-> s[i]] /\ <<s[1]>> = [i \in 1 .. 1 |-> s[i]]
    OBVIOUS
  <1>. QED BY <1>1, <1>2

\* A sequence is its head and its tail.
LEMMA HeadAndTail ==
    ASSUME NEW S, NEW s \in Seq(S), s # <<>>
    PROVE  <<Head(s)>> \o Tail(s) = s /\ <<Head(s)>> \in Seq(S) /\ Tail(s) \in Seq(S) /\ Head(s) = s[1]
  <1>1. Head(s) = s[1] /\ Tail(s) \in Seq(S) /\ <<Head(s)>> \in Seq(S)
    OBVIOUS
  <1>2. <<s[1]>> \o Tail(s) = s
    OBVIOUS
  <1>. QED BY <1>1, <1>2

\* Both parts have the elements of the whole.
LEMMA PartsOK ==
    ASSUME NEW S, NEW T, NEW s \in Seq(T), NEW t \in Seq(T), s \o t \in Seq(S)
    PROVE  s \in Seq(S) /\ t \in Seq(S)
  <1>1. /\ Len(s) \in Nat /\ Len(t) \in Nat /\ Len(s \o t) = Len(s) + Len(t)
        /\ DOMAIN s = 1 .. Len(s) /\ DOMAIN t = 1 .. Len(t)
    OBVIOUS
  <1>2. \A i \in 1 .. Len(s) : s[i] \in S
    <2>1. ASSUME NEW i \in 1 .. Len(s) PROVE s[i] \in S
      <3>1. (s \o t)[i] = s[i] /\ i \in 1 .. Len(s \o t)
        BY <1>1
      <3>. QED BY <3>1, ElementOK
    <2>. QED BY <2>1
  <1>3. \A i \in 1 .. Len(t) : t[i] \in S
    <2>1. ASSUME NEW i \in 1 .. Len(t) PROVE t[i] \in S
      <3>1. (s \o t)[Len(s) + i] = t[i] /\ Len(s) + i \in 1 .. Len(s \o t)
        BY <1>1
      <3>. QED BY <3>1, ElementOK
    <2>. QED BY <2>1
  <1>. QED BY <1>1, <1>2, <1>3

\* The first part is a prefix.
LEMMA PrefixOfJoin ==
    ASSUME NEW S, NEW s \in Seq(S), NEW t \in Seq(S)
    PROVE  IsPrefix(s, s \o t)
  BY DEF IsPrefix

\* A function that makes more of one more element makes more of any more.
Extends(F, S, T) == /\ F \in [Seq(S) -> Seq(T)]
                    /\ \A q \in Seq(S), x \in S : \E t \in Seq(T) : F[Append(q, x)] = F[q] \o t
Grown(F, q, r, T) == \E t \in Seq(T) : F[q \o r] = F[q] \o t

\* By induction on what is added.
LEMMA MakesMore ==
    ASSUME NEW S, NEW T, NEW F, Extends(F, S, T),
           NEW q \in Seq(S), NEW r \in Seq(S)
    PROVE  Grown(F, q, r, T)
  <1>. DEFINE n == Len(r)
              part(k) == q \o SubSeq(r, 1, k)
              Good == {k \in 0 .. n : \E t \in Seq(T) : F[part(k)] = F[q] \o t}
  <1>1. n \in Nat /\ part(0) = q /\ part(n) = q \o r
    <2>1. n \in Nat /\ SubSeq(r, 1, 0) = <<>> /\ SubSeq(r, 1, n) = r
      OBVIOUS
    <2>2. q \o <<>> = q
      BY JoinNone
    <2>. QED BY <2>1, <2>2, Zenon
  <1>2. ASSUME NEW k \in 0 .. n - 1
        PROVE  k + 1 \in 0 .. n /\ part(k) \in Seq(S) /\ r[k + 1] \in S
               /\ part(k + 1) = Append(part(k), r[k + 1])
    <2>1. k + 1 \in 0 .. n /\ SubSeq(r, 1, k) \in Seq(S) /\ r[k + 1] \in S
      OBVIOUS
    <2>2. SubSeq(r, 1, k + 1) = Append(SubSeq(r, 1, k), r[k + 1])
      OBVIOUS
    <2>3. PICK u \in Seq(S), x \in S : u = SubSeq(r, 1, k) /\ x = r[k + 1]
      BY <2>1
    <2>4. q \o u \in Seq(S) /\ q \o Append(u, x) = Append(q \o u, x)
      OBVIOUS
    <2>. QED BY <2>1, <2>2, <2>3, <2>4, Zenon
  <1>3. F[q] \in Seq(T)
    BY DEF Extends
  <1>. HIDE DEF n, part
  <1>4. 0 \in Good
    <2>1. F[q] = F[q] \o <<>> /\ <<>> \in Seq(T)
      BY <1>3, JoinNone, EmptyOK
    <2>2. 0 \in 0 .. n
      BY <1>1
    <2>. QED BY <1>1, <2>1, <2>2, Zenon
  <1>5. ASSUME NEW k \in 0 .. n - 1, k \in Good PROVE k + 1 \in Good
    <2>1. PICK t \in Seq(T) : F[part(k)] = F[q] \o t
      BY <1>5
    <2>2. PICK u \in Seq(T) : F[part(k + 1)] = F[part(k)] \o u
      <3>1. \E t2 \in Seq(T) : F[Append(part(k), r[k + 1])] = F[part(k)] \o t2
        BY <1>2, Zenon DEF Extends
      <3>. QED BY <1>2, <3>1, Zenon
    <2>3. F[part(k + 1)] = F[q] \o (t \o u) /\ t \o u \in Seq(T)
      <3>1. (F[q] \o t) \o u = F[q] \o (t \o u)
        <4>1. \A a, b, c \in Seq(T) : (a \o b) \o c = a \o (b \o c)
          OBVIOUS
        <4>. QED BY <1>3, <4>1, Zenon
      <3>2. t \o u \in Seq(T)
        BY JoinOK, Zenon
      <3>. QED BY <2>1, <2>2, <3>1, <3>2, Zenon
    <2>. QED BY <1>2, <2>3, Zenon
  <1>6. n \in Good
    <2>. HIDE DEF Good
    <2>. QED BY <1>1, <1>4, <1>5, AllUpTo, Zenon
  <1>. QED BY <1>1, <1>6, Zenon DEF Grown

\* What is smoothed of a text stays when more of it is.
LEMMA SmoothedGrows ==
    ASSUME NEW q \in Seq(Items), NEW r \in Seq(Items)
    PROVE  \E t \in Seq(Sound) : Smoothed(q \o r) = Smoothed(q) \o t
  <1>1. PICK F : F = [a \in Seq(Items) |-> Smoothed(a)]
    OBVIOUS
  <1>2. \A a \in Seq(Items) : F[a] = SmoothedAll(a).out /\ F[a] \in Seq(Sound) /\ SmoothedAll(a) \in Smoothing
    BY <1>1, SmoothedOK DEF Smoothed, Smoothing
  <1>3. F \in [Seq(Items) -> Seq(Sound)]
    BY <1>1, <1>2, Zenon
  <1>4. ASSUME NEW a \in Seq(Items), NEW x \in Items
        PROVE  \E t \in Seq(Sound) : F[Append(a, x)] = F[a] \o t
    <2>1. PICK s : s = SmoothedAll(a)
      OBVIOUS
    <2>2. s \in Smoothing /\ s.out = F[a] /\ s.out \in Seq(Sound) /\ s.frames \in 0 .. MaxWinLen
      BY <1>2, <2>1 DEF Smoothing
    <2>3. F[Append(a, x)] = SmoothedOne(s, x).out
      BY <1>2, <2>1, SmoothedOK, AppendOK, Zenon
    <2>4. \E t \in Seq(Sound) : SmoothedOne(s, x).out = s.out \o t
      <3>1. CASE x.type = "PHONE" /\ ~ s.ignore
        <4>. DEFINE fr == CEP!UpTo(CEP!FramesOf(x), MaxWinLen - s.frames)
                    ps == [i \in DOMAIN fr |-> Par(fr[i])]
        <4>1. ps \in Seq(Sound)
          BY <2>2, <3>1, FittingOK, Zenon
        <4>2. SmoothedOne(s, x) = [s EXCEPT !.out = @ \o ps, !.frames = @ + Len(fr)]
          BY <3>1 DEF SmoothedOne
        <4>. HIDE DEF fr, ps
        <4>3. SmoothedOne(s, x).out = s.out \o ps
          BY <2>2, <4>2 DEF Smoothing
        <4>. QED BY <4>1, <4>3
      <3>2. CASE x.type # "PHONE" \/ s.ignore
        <4>1. \/ SmoothedOne(s, x) = [s EXCEPT !.ignore = x.type # "IGNSIG_END"]
              \/ SmoothedOne(s, x) = [s EXCEPT !.ignore = TRUE]
              \/ SmoothedOne(s, x) = s
              \/ SmoothedOne(s, x) = [s EXCEPT !.out = Append(s.out, x),
                                               !.frames = IF CEP!EndsSentence(x) THEN 0 ELSE s.frames]
          BY <3>2, Zenon DEF SmoothedOne
        <4>2. SmoothedOne(s, x).out = s.out \/ SmoothedOne(s, x).out = Append(s.out, x)
          BY <2>2, <4>1 DEF Smoothing
        <4>3. s.out = s.out \o <<>> /\ Append(s.out, x) = s.out \o <<x>>
              /\ <<>> \in Seq(Sound) /\ <<x>> \in Seq(Sound)
          BY <2>2, JoinNone, JoinOne, EmptyOK, OneOK DEF Sound
        <4>. QED BY <4>2, <4>3, Zenon
      <3>. QED BY <3>1, <3>2
    <2>. QED BY <2>2, <2>3, <2>4, Zenon
  <1>5. \E t \in Seq(Sound) : F[q \o r] = F[q] \o t
    <2>1. Extends(F, Items, Sound)
      BY <1>3, <1>4, Zenon DEF Extends
    <2>2. Grown(F, q, r, Sound)
      BY <2>1, MakesMore, Zenon
    <2>. QED BY <2>2, Zenon DEF Grown
  <1>6. q \o r \in Seq(Items)
    BY JoinOK, Zenon
  <1>. QED BY <1>1, <1>5, <1>6, Zenon

\* A frame more.
LEMMA OneMoreFrame ==
    \A u \in Seq(TextFrames), c \in TextFrames : Append(u, c) \in Seq(TextFrames) /\ Append(u, c) # <<>>
  <1>. SUFFICES ASSUME NEW u \in Seq(TextFrames), NEW c \in TextFrames
                PROVE  Append(u, c) \in Seq(TextFrames) /\ Append(u, c) # <<>>
    BY Zenon
  <1>1. Append(u, c) \in Seq(TextFrames) /\ Len(Append(u, c)) = Len(u) + 1 /\ Len(u) \in Nat
    BY AppendOK
  <1>2. PICK v : v = Append(u, c)
    OBVIOUS
  <1>3. Len(v) # 0
    BY <1>1, <1>2
  <1>4. v # <<>>
    BY <1>3, EmptyOK, Zenon
  <1>. QED BY <1>1, <1>2, <1>4, Zenon

\* So does the signal.
LEMMA SignalGrows ==
    ASSUME NEW q \in Seq(Sound), NEW r \in Seq(Sound)
    PROVE  \E t \in Seq(Outs) : Signal(q \o r) = Signal(q) \o t
  <1>1. PICK F : F = [a \in Seq(Sound) |-> Signal(a)]
    OBVIOUS
  <1>2. \A a \in Seq(Sound) : F[a] = SignalAll(a).out /\ F[a] \in Seq(Outs) /\ SignalAll(a) \in Signals
    BY <1>1, SignalOK DEF Signal, Signals
  <1>3. F \in [Seq(Sound) -> Seq(Outs)]
    BY <1>1, <1>2, Zenon
  <1>4. ASSUME NEW a \in Seq(Sound), NEW x \in Sound
        PROVE  \E t \in Seq(Outs) : F[Append(a, x)] = F[a] \o t
    <2>1. PICK s : s = SignalAll(a)
      OBVIOUS
    <2>2. s \in Signals /\ s.out = F[a] /\ s.out \in Seq(Outs) /\ s.frames \in Seq(TextFrames)
      BY <1>2, <2>1 DEF Signals
    <2>3. F[Append(a, x)] = SignalOne(s, x).out
      BY <1>2, <2>1, SignalOK, AppendOK, Zenon
    <2>4. \E t \in Seq(Outs) : SignalOne(s, x).out = s.out \o t
      <3>1. CASE x.type = "FRAME_PAR"
        <4>. DEFINE frames == Append(s.frames, x.cep)
        <4>1. x.cep \in TextFrames
          BY <3>1, SoundsOK, Zenon
        <4>2. frames \in Seq(TextFrames) /\ frames # <<>>
          BY <2>2, <4>1, OneMoreFrame, Zenon
        <4>3. SignalOne(s, x) = [out |-> s.out \o SIG!Samples(Late(frames)), frames |-> frames]
          BY <3>1 DEF SignalOne
        <4>. HIDE DEF frames
        <4>4. SIG!Samples(Late(frames)) \in Seq(Outs)
          BY <4>2, LateOK, TwoSamples, Zenon
        <4>5. SignalOne(s, x).out = s.out \o SIG!Samples(Late(frames))
          BY <4>3
        <4>. QED BY <4>4, <4>5, Zenon
      <3>2. CASE x.type # "FRAME_PAR"
        <4>1. SignalOne(s, x) = s \/ SignalOne(s, x) = [s EXCEPT !.out = Append(s.out, x)]
          BY <3>2, Zenon DEF SignalOne
        <4>2. SignalOne(s, x).out = s.out \/ SignalOne(s, x).out = Append(s.out, x)
          BY <2>2, <4>1 DEF Signals
        <4>3. s.out = s.out \o <<>> /\ Append(s.out, x) = s.out \o <<x>>
              /\ <<>> \in Seq(Outs) /\ <<x>> \in Seq(Outs)
          BY <2>2, SoundsOK, JoinNone, JoinOne, EmptyOK, OneOK
        <4>. QED BY <4>2, <4>3, Zenon
      <3>. QED BY <3>1, <3>2
    <2>. QED BY <2>2, <2>3, <2>4, Zenon
  <1>5. \E t \in Seq(Outs) : F[q \o r] = F[q] \o t
    <2>1. Extends(F, Sound, Outs)
      BY <1>3, <1>4, Zenon DEF Extends
    <2>2. Grown(F, q, r, Outs)
      BY <2>1, MakesMore, Zenon
    <2>. QED BY <2>2, Zenon DEF Grown
  <1>6. q \o r \in Seq(Sound)
    BY JoinOK, Zenon
  <1>. QED BY <1>1, <1>5, <1>6, Zenon


-----------------------------------------------------------------------------
(* What waits in smoothing: the frames after the first r of w, and between  *)
(* them the items in the slots after the first b of hx.                     *)

Slots == Seq([item : Items, frame : 0 .. MaxWinLen])
WindowFrames == [1 .. MaxWinLen -> Frames]

\* Of the slots those to j come before frame i, and no other.
Between(hx, b, i, j) == /\ j > b => hx[j].frame < i
                        /\ j < Len(hx) => hx[j + 1].frame >= i

Sorted(r, w, b, hx) ==
    /\ r =< w
    /\ \A j \in b + 1 .. Len(hx) : r =< hx[j].frame /\ hx[j].frame =< w
    /\ \A j, k \in 1 .. Len(hx) : j < k => hx[j].frame =< hx[k].frame

Waits(R, r, w, b, hx, ix) ==
    /\ Len(R) = w - r + Len(hx) - b
    /\ \A j \in b + 1 .. Len(hx) : R[hx[j].frame - r + j - b] = hx[j].item
    /\ \A i \in r + 1 .. w, j \in b .. Len(hx) :
          Between(hx, b, i, j) => R[i - r + j - b] = Par(ix[i])

\* Slots, and their items and frames.
LEMMA SlotsOK ==
    ASSUME NEW hx \in Slots
    PROVE  Len(hx) \in Nat /\ \A j \in 1 .. Len(hx) : hx[j].frame \in Nat /\ hx[j].item \in Items
  <1>1. Len(hx) \in Nat /\ \A j \in 1 .. Len(hx) : hx[j] \in [item : Items, frame : 0 .. MaxWinLen]
    <2>. DEFINE X == [item : Items, frame : 0 .. MaxWinLen]
    <2>1. hx \in Seq(X)
      BY DEF Slots
    <2>. HIDE DEF X
    <2>2. Len(hx) \in Nat /\ \A j \in 1 .. Len(hx) : hx[j] \in X
      BY <2>1
    <2>. QED BY <2>2 DEF X
  <1>2. ASSUME NEW j \in 1 .. Len(hx) PROVE hx[j].frame \in Nat /\ hx[j].item \in Items
    <2>1. hx[j].frame \in 0 .. MaxWinLen /\ hx[j].item \in Items
      BY <1>1
    <2>. QED BY <2>1, Numbers
  <1>. QED BY <1>1, <1>2

\* What is left of a sequence that waits.
LEMMA RestOK ==
    ASSUME NEW R \in Seq(Sound), NEW n \in Nat, Len(R) = n + 1
    PROVE  /\ Tail(R) \in Seq(Sound) /\ Len(Tail(R)) = n /\ Head(R) = R[1] /\ R # <<>>
           /\ \A k \in 1 .. n : Tail(R)[k] = R[k + 1]
  OBVIOUS

\* Places of what waits, when a slot or a frame is gone.
LEMMA PlaceAfterSlot ==
    ASSUME NEW r \in Nat, NEW w \in Nat, NEW b \in Nat, NEW l \in Nat, NEW f \in Nat, NEW j \in Int,
           NEW n \in Int, n = w - r + l - b - 1,
           r =< f, f =< w, b + 1 =< j, j =< l, j > b + 1 \/ f > r
    PROVE  f - r + j - (b + 1) \in 1 .. n /\ (f - r + j - (b + 1)) + 1 = f - r + j - b
  OBVIOUS

\* The same when a frame is gone.
LEMMA PlaceAfterFrame ==
    ASSUME NEW r \in Nat, NEW w \in Nat, NEW b \in Nat, NEW l \in Nat, NEW f \in Nat, NEW j \in Int,
           NEW n \in Int, n = w - r + l - b - 1,
           r + 1 =< f, f =< w, b =< j, j =< l, j > b \/ f > r + 1
    PROVE  f - (r + 1) + j - b \in 1 .. n /\ (f - (r + 1) + j - b) + 1 = f - r + j - b
  OBVIOUS

\* The next slot.
LEMMA SlotAt ==
    ASSUME NEW hx \in Slots, NEW b \in Nat
    PROVE  b < Len(hx) => hx[b + 1].frame \in Nat
  <1>1. Len(hx) \in Nat /\ \A j \in 1 .. Len(hx) : hx[j].frame \in Nat
    BY SlotsOK
  <1>. QED BY <1>1

\* Something more of what smoothing makes.
LEMMA SoundJoined ==
    \A e, r \in Seq(Sound), x \in Sound : Append(r, x) \in Seq(Sound) /\ Append(e \o r, x) = e \o Append(r, x)
  OBVIOUS

\* A slot is due.
LEMMA WaitsSlot ==
    ASSUME NEW r \in Nat, NEW w \in Nat, NEW b \in Nat, NEW hx \in Slots, NEW ix,
           NEW R \in Seq(Sound), Waits(R, r, w, b, hx, ix), Sorted(r, w, b, hx),
           b < Len(hx), hx[b + 1].frame =< r
    PROVE  /\ R # <<>> /\ Head(R) = hx[b + 1].item
           /\ Waits(Tail(R), r, w, b + 1, hx, ix) /\ Sorted(r, w, b + 1, hx)
  <1>. DEFINE l == Len(hx)  n == w - r + l - b - 1
  <1>1. l \in Nat /\ \A j \in 1 .. l : hx[j].frame \in Nat
    BY SlotsOK
  <1>2. /\ r =< w /\ \A j \in b + 1 .. l : r =< hx[j].frame /\ hx[j].frame =< w
        /\ \A j, k \in 1 .. l : j < k => hx[j].frame =< hx[k].frame
    BY DEF Sorted
  <1>3. hx[b + 1].frame = r /\ b + 1 \in b + 1 .. l /\ b + 1 \in 1 .. l /\ n \in Nat /\ b + 1 \in Nat
    BY <1>1, <1>2
  <1>4. Len(R) = n + 1
    BY <1>1 DEF Waits
  <1>n. n = w - r + l - b - 1 /\ b + 1 =< l
    BY <1>1, <1>3
  <1>. HIDE DEF l, n
  <1>5. /\ Tail(R) \in Seq(Sound) /\ Len(Tail(R)) = n /\ Head(R) = R[1] /\ R # <<>>
        /\ \A k \in 1 .. n : Tail(R)[k] = R[k + 1]
    BY <1>3, <1>4, RestOK
  <1>6. Head(R) = hx[b + 1].item
    <2>1. R[hx[b + 1].frame - r + (b + 1) - b] = hx[b + 1].item
      BY <1>3, Zenon DEF Waits, l
    <2>2. hx[b + 1].frame - r + (b + 1) - b = 1
      BY <1>3
    <2>. QED BY <1>5, <2>1, <2>2
  <1>7. ASSUME NEW j \in (b + 1) + 1 .. l
        PROVE  Tail(R)[hx[j].frame - r + j - (b + 1)] = hx[j].item
    <2>1. j \in b + 1 .. l /\ j \in 1 .. l /\ hx[j].frame \in Nat /\ r =< hx[j].frame /\ hx[j].frame =< w
      BY <1>1, <1>2
    <2>2. R[hx[j].frame - r + j - b] = hx[j].item
      BY <2>1 DEF Waits, l
    <2>3. PICK f \in Nat : f = hx[j].frame
      BY <2>1
    <2>4. f - r + j - (b + 1) \in 1 .. n /\ (f - r + j - (b + 1)) + 1 = f - r + j - b
      <3>1. f \in Nat /\ j \in Int /\ n \in Int /\ r =< f /\ f =< w /\ b + 1 =< j /\ j =< l /\ j > b + 1
        BY <1>1, <1>3, <2>1, <2>3
      <3>. QED BY <1>1, <1>n, <3>1, PlaceAfterSlot
    <2>. QED BY <1>5, <2>2, <2>3, <2>4
  <1>8. ASSUME NEW i \in r + 1 .. w, NEW j \in b + 1 .. l, Between(hx, b + 1, i, j)
        PROVE  Tail(R)[i - r + j - (b + 1)] = Par(ix[i])
    <2>1. j \in b .. l /\ Between(hx, b, i, j)
      <3>1. CASE j = b + 1
        BY <1>1, <1>3, <1>8, <3>1 DEF Between
      <3>2. CASE j > b + 1
        BY <1>1, <1>8, <3>2 DEF Between
      <3>. QED BY <1>1, <3>1, <3>2
    <2>2. R[i - r + j - b] = Par(ix[i])
      BY <2>1 DEF Waits, l
    <2>3. i - r + j - (b + 1) \in 1 .. n /\ (i - r + j - (b + 1)) + 1 = i - r + j - b
      <3>1. i \in Nat /\ j \in Int /\ n \in Int /\ r =< i /\ i =< w /\ b + 1 =< j /\ j =< l /\ i > r
        BY <1>1, <1>3
      <3>. QED BY <1>1, <1>n, <3>1, PlaceAfterSlot
    <2>. QED BY <1>5, <2>2, <2>3
  <1>9. Waits(Tail(R), r, w, b + 1, hx, ix)
    <2>1. Len(Tail(R)) = w - r + l - (b + 1)
      BY <1>1, <1>5 DEF n
    <2>. QED BY <1>7, <1>8, <2>1, Zenon DEF Waits, l
  <1>10. Sorted(r, w, b + 1, hx)
    <2>1. \A j \in (b + 1) + 1 .. l : j \in b + 1 .. l
      BY <1>1
    <2>. QED BY <1>2, <2>1, Zenon DEF Sorted, l
  <1>. QED BY <1>5, <1>6, <1>9, <1>10

\* No slot is due, and a frame is put.
LEMMA WaitsFrame ==
    ASSUME NEW r \in Nat, NEW w \in Nat, NEW b \in Nat, NEW hx \in Slots, NEW ix,
           NEW R \in Seq(Sound), Waits(R, r, w, b, hx, ix), Sorted(r, w, b, hx),
           b =< Len(hx), b < Len(hx) => hx[b + 1].frame > r, r < w
    PROVE  /\ R # <<>> /\ Head(R) = Par(ix[r + 1])
           /\ Waits(Tail(R), r + 1, w, b, hx, ix) /\ Sorted(r + 1, w, b, hx)
  <1>. DEFINE l == Len(hx)  n == w - r + l - b - 1
  <1>1. l \in Nat /\ (\A j \in 1 .. l : hx[j].frame \in Nat) /\ n \in Nat
    BY SlotsOK
  <1>2. /\ \A j \in b + 1 .. l : r =< hx[j].frame /\ hx[j].frame =< w
        /\ \A j, k \in 1 .. l : j < k => hx[j].frame =< hx[k].frame
    BY DEF Sorted
  <1>3. Len(R) = n + 1
    BY <1>1 DEF Waits
  <1>n. n = w - r + l - b - 1
    OBVIOUS
  <1>. HIDE DEF l, n
  <1>4. /\ Tail(R) \in Seq(Sound) /\ Len(Tail(R)) = n /\ Head(R) = R[1] /\ R # <<>>
        /\ \A k \in 1 .. n : Tail(R)[k] = R[k + 1]
    BY <1>1, <1>3, RestOK
  <1>5. Head(R) = Par(ix[r + 1])
    <2>1. Between(hx, b, r + 1, b) /\ b \in b .. l /\ r + 1 \in r + 1 .. w
      <3>1. b < l => hx[b + 1].frame >= r + 1
        <4>1. b < l => b + 1 \in 1 .. l
          BY <1>1
        <4>. QED BY <1>1, <4>1 DEF l
      <3>. QED BY <1>1, <3>1 DEF Between, l
    <2>2. R[(r + 1) - r + b - b] = Par(ix[r + 1])
      BY <2>1 DEF Waits, l
    <2>3. (r + 1) - r + b - b = 1
      OBVIOUS
    <2>. QED BY <1>4, <2>2, <2>3
  <1>6. ASSUME NEW j \in b + 1 .. l PROVE r + 1 =< hx[j].frame /\ hx[j].frame =< w /\ hx[j].frame \in Nat
    <2>1. b < l /\ b + 1 \in 1 .. l /\ j \in 1 .. l /\ hx[j].frame \in Nat /\ hx[b + 1].frame \in Nat
      BY <1>1
    <2>2. hx[b + 1].frame > r
      BY <2>1 DEF l
    <2>3. j = b + 1 \/ hx[b + 1].frame =< hx[j].frame
      BY <1>1, <1>2, <2>1
    <2>. QED BY <1>2, <2>1, <2>2, <2>3
  <1>7. ASSUME NEW j \in b + 1 .. l
        PROVE  Tail(R)[hx[j].frame - (r + 1) + j - b] = hx[j].item
    <2>1. R[hx[j].frame - r + j - b] = hx[j].item
      BY DEF Waits, l
    <2>2. PICK f \in Nat : f = hx[j].frame /\ r + 1 =< f /\ f =< w
      BY <1>6
    <2>3. f - (r + 1) + j - b \in 1 .. n /\ (f - (r + 1) + j - b) + 1 = f - r + j - b
      <3>1. j \in Int /\ n \in Int /\ b =< j /\ j =< l /\ j > b
        BY <1>1
      <3>2. f \in Nat /\ r + 1 =< f /\ f =< w
        BY <2>2
      <3>3. l \in Nat
        BY <1>1
      <3>. QED BY <1>n, <3>1, <3>2, <3>3, PlaceAfterFrame
    <2>. QED BY <1>4, <2>1, <2>2, <2>3
  <1>8. ASSUME NEW i \in (r + 1) + 1 .. w, NEW j \in b .. l, Between(hx, b, i, j)
        PROVE  Tail(R)[i - (r + 1) + j - b] = Par(ix[i])
    <2>1. i \in r + 1 .. w
      OBVIOUS
    <2>2. R[i - r + j - b] = Par(ix[i])
      BY <1>8, <2>1 DEF Waits, l
    <2>3. i - (r + 1) + j - b \in 1 .. n /\ (i - (r + 1) + j - b) + 1 = i - r + j - b
      <3>1. i \in Nat /\ r + 1 =< i /\ i =< w /\ i > r + 1
        OBVIOUS
      <3>2. j \in Int /\ b =< j /\ j =< l /\ n \in Int /\ l \in Nat
        BY <1>1
      <3>3. /\ i - (r + 1) + j - b >= 1 /\ i - (r + 1) + j - b \in Int
            /\ (i - (r + 1) + j - b) + 1 = i - r + j - b
        BY <3>1, <3>2
      <3>4. i - (r + 1) + j - b =< n
        BY <1>n, <3>1, <3>2
      <3>. QED BY <3>2, <3>3, <3>4
    <2>. QED BY <1>4, <2>2, <2>3
  <1>9. Waits(Tail(R), r + 1, w, b, hx, ix)
    <2>1. Len(Tail(R)) = w - (r + 1) + l - b
      BY <1>1, <1>4 DEF n
    <2>. QED BY <1>7, <1>8, <2>1, Zenon DEF Waits, l
  <1>10. Sorted(r + 1, w, b, hx)
    <2>1. r + 1 =< w
      OBVIOUS
    <2>. QED BY <1>2, <1>6, <2>1, Zenon DEF Sorted, l
  <1>. QED BY <1>4, <1>5, <1>9, <1>10

\* A phone's frames come.
LEMMA WaitsPhone ==
    ASSUME NEW w \in Nat, NEW hx \in Slots, NEW ix, NEW more,
           NEW R \in Seq(Sound), Waits(R, 0, w, 0, hx, ix), Sorted(0, w, 0, hx),
           NEW ps \in Seq(Sound),
           \A i \in 1 .. w : more[i] = ix[i],
           \A i \in 1 .. Len(ps) : ps[i] = Par(more[w + i])
    PROVE  Waits(R \o ps, 0, w + Len(ps), 0, hx, more) /\ Sorted(0, w + Len(ps), 0, hx)
  <1>. DEFINE l == Len(hx)  m == Len(ps)
  <1>1. l \in Nat /\ m \in Nat /\ \A j \in 1 .. l : hx[j].frame \in Nat
    BY SlotsOK
  <1>2. /\ \A j \in 1 .. l : 0 =< hx[j].frame /\ hx[j].frame =< w
        /\ \A j, k \in 1 .. l : j < k => hx[j].frame =< hx[k].frame
    BY DEF Sorted
  <1>3. Len(R) = w + l
    BY <1>1 DEF Waits
  <1>p. PICK Q : Q = R \o ps
    OBVIOUS
  <1>4. /\ Len(Q) = w + l + m
        /\ \A k \in 1 .. w + l : Q[k] = R[k]
        /\ \A k \in 1 .. m : Q[w + l + k] = ps[k]
    <2>1. /\ Len(R \o ps) = Len(R) + m
          /\ \A k \in 1 .. Len(R) : (R \o ps)[k] = R[k]
          /\ \A k \in 1 .. m : (R \o ps)[Len(R) + k] = ps[k]
      OBVIOUS
    <2>. QED BY <1>3, <1>p, <2>1
  <1>. HIDE DEF l, m
  <1>5. ASSUME NEW j \in 0 + 1 .. l PROVE Q[hx[j].frame - 0 + j - 0] = hx[j].item
    <2>1. R[hx[j].frame - 0 + j - 0] = hx[j].item
      BY DEF Waits, l
    <2>2. j \in 1 .. l /\ hx[j].frame \in Nat /\ hx[j].frame =< w
      BY <1>1, <1>2
    <2>3. hx[j].frame - 0 + j - 0 \in 1 .. w + l
      BY <1>1, <2>2
    <2>. QED BY <1>4, <2>1, <2>3
  <1>6. ASSUME NEW i \in 0 + 1 .. w + m, NEW j \in 0 .. l, Between(hx, 0, i, j)
        PROVE  Q[i - 0 + j - 0] = Par(more[i])
    <2>1. CASE i =< w
      <3>1. i \in 0 + 1 .. w /\ more[i] = ix[i] /\ i - 0 + j - 0 \in 1 .. w + l
        BY <1>1, <2>1
      <3>2. R[i - 0 + j - 0] = Par(ix[i])
        BY <1>6, <3>1 DEF Waits, l
      <3>. QED BY <1>4, <3>1, <3>2
    <2>2. CASE i > w
      <3>1. j = l
        <4>1. j < l => j + 1 \in 1 .. l /\ hx[j + 1].frame >= i
          BY <1>1, <1>6 DEF Between, l
        <4>2. j < l => hx[j + 1].frame \in Nat /\ hx[j + 1].frame =< w
          BY <1>1, <1>2, <4>1
        <4>. QED BY <1>1, <2>2, <4>1, <4>2
      <3>2. i - w \in 1 .. m /\ i - 0 + j - 0 = w + l + (i - w) /\ w + (i - w) = i
        BY <1>1, <2>2, <3>1
      <3>3. ps[i - w] = Par(more[w + (i - w)])
        BY <3>2 DEF m
      <3>. QED BY <1>4, <3>2, <3>3
    <2>. QED BY <1>1, <2>1, <2>2
  <1>7. Waits(Q, 0, w + m, 0, hx, more)
    <2>1. Len(Q) = (w + m) - 0 + l - 0
      BY <1>1, <1>4
    <2>2. \A j \in 0 + 1 .. l : Q[hx[j].frame - 0 + j - 0] = hx[j].item
      BY <1>5, Zenon
    <2>3. \A i \in 0 + 1 .. w + m, j \in 0 .. l : Between(hx, 0, i, j) => Q[i - 0 + j - 0] = Par(more[i])
      BY <1>6, Zenon
    <2>. QED BY <2>1, <2>2, <2>3, Zenon DEF Waits, l
  <1>8. Sorted(0, w + m, 0, hx)
    <2>1. \A j \in 0 + 1 .. l : 0 =< hx[j].frame /\ hx[j].frame =< w + m
      BY <1>1, <1>2
    <2>2. 0 =< w + m
      BY <1>1
    <2>. QED BY <1>2, <2>1, <2>2, Zenon DEF Sorted, l
  <1>. QED BY <1>7, <1>8, <1>p DEF m

\* An item is stored.
LEMMA WaitsStore ==
    ASSUME NEW w \in Nat, NEW hx \in Slots, NEW ix, NEW x \in Sound,
           NEW R \in Seq(Sound), Waits(R, 0, w, 0, hx, ix), Sorted(0, w, 0, hx)
    PROVE  LET more == Append(hx, [item |-> x, frame |-> w])
           IN  Waits(Append(R, x), 0, w, 0, more, ix) /\ Sorted(0, w, 0, more)
  <1>. DEFINE l == Len(hx)  y == [item |-> x, frame |-> w]  more == Append(hx, y)
              Q == Append(R, x)
  <1>1. l \in Nat /\ \A j \in 1 .. l : hx[j].frame \in Nat
    BY SlotsOK
  <1>2. /\ \A j \in 1 .. l : 0 =< hx[j].frame /\ hx[j].frame =< w
        /\ \A j, k \in 1 .. l : j < k => hx[j].frame =< hx[k].frame
    BY DEF Sorted
  <1>3. Len(R) = w + l
    BY <1>1 DEF Waits
  <1>4. Len(Q) = w + l + 1 /\ (\A k \in 1 .. w + l : Q[k] = R[k]) /\ Q[w + l + 1] = x
    BY <1>1, <1>3
  <1>5. Len(more) = l + 1 /\ (\A j \in 1 .. l : more[j] = hx[j])
        /\ more[l + 1].item = x /\ more[l + 1].frame = w
    BY <1>1 DEF Slots
  <1>. HIDE DEF l, y, more, Q
  <1>6. ASSUME NEW j \in 0 + 1 .. Len(more) PROVE Q[more[j].frame - 0 + j - 0] = more[j].item
    <2>1. CASE j = l + 1
      <3>1. more[j].frame - 0 + j - 0 = w + l + 1
        BY <1>1, <1>5, <2>1
      <3>. QED BY <1>4, <1>5, <2>1, <3>1
    <2>2. CASE j # l + 1
      <3>1. j \in 1 .. l /\ more[j] = hx[j] /\ hx[j].frame \in Nat /\ hx[j].frame =< w
        BY <1>1, <1>2, <1>5, <2>2
      <3>2. R[hx[j].frame - 0 + j - 0] = hx[j].item
        BY <3>1 DEF Waits, l
      <3>3. hx[j].frame - 0 + j - 0 \in 1 .. w + l
        BY <1>1, <3>1
      <3>. QED BY <1>4, <3>1, <3>2, <3>3
    <2>. QED BY <2>1, <2>2
  <1>7. ASSUME NEW i \in 0 + 1 .. w, NEW j \in 0 .. Len(more), Between(more, 0, i, j)
        PROVE  Q[i - 0 + j - 0] = Par(ix[i])
    <2>1. j \in 0 .. l
      <3>1. j = l + 1 => more[j].frame < i
        BY <1>1, <1>7 DEF Between
      <3>. QED BY <1>1, <1>5, <3>1
    <2>2. Between(hx, 0, i, j)
      <3>1. j > 0 => j \in 1 .. l /\ more[j].frame < i
        BY <1>1, <1>7, <2>1 DEF Between
      <3>2. j < l => j + 1 \in 1 .. l /\ more[j + 1].frame >= i
        BY <1>1, <1>5, <1>7, <2>1 DEF Between
      <3>. QED BY <1>5, <3>1, <3>2 DEF Between, l
    <2>3. R[i - 0 + j - 0] = Par(ix[i])
      BY <2>1, <2>2 DEF Waits, l
    <2>4. i - 0 + j - 0 \in 1 .. w + l
      BY <1>1, <2>1
    <2>. QED BY <1>4, <2>3, <2>4
  <1>8. Waits(Q, 0, w, 0, more, ix)
    <2>1. Len(Q) = w - 0 + Len(more) - 0
      BY <1>1, <1>4, <1>5
    <2>. QED BY <1>6, <1>7, <2>1, Zenon DEF Waits
  <1>9. Sorted(0, w, 0, more)
    <2>1. ASSUME NEW j \in 1 .. Len(more) PROVE 0 =< more[j].frame /\ more[j].frame =< w
      <3>1. j = l + 1 \/ j \in 1 .. l
        BY <1>1, <1>5
      <3>. QED BY <1>2, <1>5, <3>1
    <2>2. ASSUME NEW j \in 1 .. Len(more), NEW k \in 1 .. Len(more), j < k
          PROVE  more[j].frame =< more[k].frame
      <3>1. j \in 1 .. l /\ (k = l + 1 \/ k \in 1 .. l)
        BY <1>1, <1>5, <2>2
      <3>. QED BY <1>2, <1>5, <2>2, <3>1
    <2>. QED BY <2>1, <2>2 DEF Sorted
  <1>. QED BY <1>8, <1>9 DEF more, y, Q

\* Nothing waits at first, and after all is put.
LEMMA WaitsNone == \A ix : Waits(<<>>, 0, 0, 0, <<>>, ix) /\ Sorted(0, 0, 0, <<>>)
  <1>1. /\ Len(<<>>) = 0 /\ 0 - 0 + 0 - 0 = 0 /\ 0 =< 0
        /\ (\A j : j \notin 0 + 1 .. 0) /\ \A j : j \notin 1 .. 0
    OBVIOUS
  <1>. QED BY <1>1, Zenon DEF Waits, Sorted

\* After all is put.
LEMMA WaitsDone ==
    ASSUME NEW w \in Nat, NEW hx \in Slots, NEW ix,
           NEW R \in Seq(Sound), Waits(R, w, w, Len(hx), hx, ix)
    PROVE  R = <<>>
  <1>1. Len(hx) \in Nat
    BY SlotsOK
  <1>2. Len(R) = 0
    BY <1>1 DEF Waits
  <1>. QED BY <1>2


-----------------------------------------------------------------------------
(* The inductive invariant of the items on their way.  Smoothing has read   *)
(* A, put E of what it makes of A, and R of it waits in its store.          *)

StoreOK ==
    /\ ~ CEP!Producing => indexReadPos = 0 /\ headxBottom = 0 /\ (indexWritePos = 0 => headx = <<>>)
    /\ CEP!Producing => /\ sentenceEnd /\ activeEndPos = indexWritePos
                        /\ cepInBuf # <<>> /\ CEP!EndsSentence(CEP!Item) /\ ~ inIgnoreState
    /\ cepProcState = "SMOOTH" => indexReadPos = 0 /\ headxBottom = 0
    /\ PuttingFrames => \A i \in 1 .. indexWritePos : smooth[i] = indices[i]

\* The window holds the frames of the sentence, or what ends it comes next.
Counted(s) == \/ s.frames = indexWritePos
              \/ /\ indexWritePos = 0 /\ cepProcState = "PARSE" /\ ~ inIgnoreState
                 /\ cepInBuf # <<>> /\ CEP!EndsSentence(CEP!Item)

ReadSoFar(A) == A \o cepInBuf \o pamOut = SubSeq(text, 1, sent)
MadeOf(s, E, R) == s.out = E \o R /\ s.ignore = inIgnoreState /\ Counted(s)
WaitsNow(R) == /\ Sorted(indexReadPos, indexWritePos, headxBottom, headx)
               /\ Waits(R, indexReadPos, indexWritePos, headxBottom, headx, indices)

CepLink(A, E, R) == ReadSoFar(A) /\ MadeOf(SmoothedAll(A), E, R) /\ StoreOK /\ WaitsNow(R)
CepMade(E) == \E A \in Seq(Items), R \in Seq(Sound) : CepLink(A, E, R)

\* What the types say of smoothing.
LEMMA CepFacts ==
    ASSUME TypeInv
    PROVE  /\ cepInBuf \in Seq(Items) /\ pamOut \in Seq(Items) /\ Len(cepInBuf) =< 1
           /\ (cepProcState = "COLLECT" => cepInBuf = <<>>)
           /\ (cepProcState # "FEED" => cepOutBuf = <<>>)
           /\ headx \in Slots /\ indices \in WindowFrames
           /\ indexReadPos \in Nat /\ indexWritePos \in 0 .. MaxWinLen /\ indexWritePos \in Nat
           /\ headxBottom \in Nat /\ headxBottom =< Len(headx)
           /\ text \in Seq(Items) /\ sent \in 0 .. Len(text)
           /\ (cepInBuf # <<>> => CEP!Item \in Items /\ cepInBuf = <<CEP!Item>>)
  <1>1. /\ cepInBuf \in Seq(Items) /\ pamOut \in Seq(Items) /\ Len(cepInBuf) =< 1
        /\ (cepProcState = "COLLECT" => cepInBuf = <<>>)
        /\ headx \in Slots /\ indices \in WindowFrames
        /\ text \in Seq(Items) /\ sent \in 0 .. Len(text)
    BY Zenon DEF TypeInv, CepOK, CEP!TypeOK, TextOK, Slots, WindowFrames
  <1>2. /\ indexReadPos \in 0 .. MaxWinLen /\ indexWritePos \in 0 .. MaxWinLen
        /\ headxBottom \in 0 .. Len(headx) /\ Len(headx) \in Nat
    BY DEF TypeInv, CepOK, CEP!TypeOK
  <1>3. /\ indexReadPos \in Nat /\ indexWritePos \in Nat /\ headxBottom \in Nat /\ headxBottom =< Len(headx)
    BY <1>2, Numbers
  <1>4. cepProcState # "FEED" => cepOutBuf = <<>>
    BY DEF TypeInv, CepOK, CEP!TypeOK
  <1>5. cepInBuf # <<>> => CEP!Item \in Items /\ cepInBuf = <<CEP!Item>>
    <2>1. cepInBuf # <<>> => Len(cepInBuf) = 1
      BY <1>1, AtMostOne, Zenon
    <2>. QED BY <1>1, <2>1, OneElement DEF CEP!Item
  <1>. QED BY <1>1, <1>2, <1>3, <1>4, <1>5

\* The unit reads on: A grows by the item at hand, or not.
LEMMA ReadPut == ASSUME TypeInv, NEW A \in Seq(Items), ReadSoFar(A), Put PROVE ReadSoFar(A)'
  <1>1. /\ pamOut' = Append(pamOut, text[sent + 1]) /\ sent' = sent + 1 /\ sent < Len(text)
        /\ cepInBuf' = cepInBuf /\ text' = text
    BY DEF Put, cepState
  <1>2. text[sent + 1] \in Items /\ SubSeq(text, 1, sent + 1) = Append(SubSeq(text, 1, sent), text[sent + 1])
    <2>1. \A t \in Seq(Items) : \A n \in 0 .. Len(t) : n < Len(t) =>
             t[n + 1] \in Items /\ SubSeq(t, 1, n + 1) = Append(SubSeq(t, 1, n), t[n + 1])
      OBVIOUS
    <2>. QED BY <1>1, <2>1, CepFacts, Zenon
  <1>3. \A a \in Seq(Items), x \in Items : A \o cepInBuf \o Append(a, x) = Append(A \o cepInBuf \o a, x)
    <2>1. PICK b \in Seq(Items) : b = A \o cepInBuf
      BY CepFacts, JoinOK, Zenon
    <2>2. \A a \in Seq(Items), x \in Items : b \o Append(a, x) = Append(b \o a, x)
      OBVIOUS
    <2>. QED BY <2>1, <2>2, Zenon
  <1>. QED BY <1>1, <1>2, <1>3, CepFacts, Zenon DEF ReadSoFar

\* An item moves to the unit's buffer.
LEMMA ReadCollect ==
    ASSUME TypeInv, NEW A \in Seq(Items), ReadSoFar(A), CEP!Collect, UNCHANGED history
    PROVE  ReadSoFar(A)'
  <1>1. text' = text /\ sent' = sent /\ cepInBuf = <<>>
    BY CepFacts DEF history, CEP!Collect, CEP!At
  <1>2. CASE pamOut # <<>> /\ cepInBuf' = <<Head(pamOut)>> /\ pamOut' = Tail(pamOut)
    <2>1. \A a \in Seq(Items) : a # <<>> => (A \o <<>>) \o a = (A \o <<Head(a)>>) \o Tail(a)
      <3>1. ASSUME NEW a \in Seq(Items), a # <<>>
            PROVE  (A \o <<>>) \o a = (A \o <<Head(a)>>) \o Tail(a)
        <4>1. <<Head(a)>> \o Tail(a) = a /\ <<Head(a)>> \in Seq(Items) /\ Tail(a) \in Seq(Items)
          BY <3>1, HeadAndTail
        <4>2. (A \o <<Head(a)>>) \o Tail(a) = A \o (<<Head(a)>> \o Tail(a))
          BY <4>1, JoinAssoc
        <4>. QED BY <4>1, <4>2, JoinNone
      <3>. QED BY <3>1
    <2>. QED BY <1>1, <1>2, <2>1, CepFacts, Zenon DEF ReadSoFar
  <1>3. CASE UNCHANGED <<pamOut, cepInBuf>>
    BY <1>1, <1>3, Zenon DEF ReadSoFar
  <1>. QED BY <1>2, <1>3 DEF CEP!Collect

\* The item at hand is read.
LEMMA ReadOn ==
    ASSUME TypeInv, NEW A \in Seq(Items), ReadSoFar(A), cepInBuf # <<>>,
           cepInBuf' = <<>>, pamOut' = pamOut, UNCHANGED history,
           NEW x, x = CEP!Item
    PROVE  ReadSoFar(Append(A, x))' /\ Append(A, x) \in Seq(Items)
  <1>1. x \in Items /\ cepInBuf = <<x>>
    BY CepFacts
  <1>2. A \o <<x>> = Append(A, x) /\ Append(A, x) \in Seq(Items) /\ Append(A, x) \o <<>> = Append(A, x)
    BY <1>1
  <1>3. text' = text /\ sent' = sent
    BY DEF history
  <1>4. Append(A, x) \o cepInBuf' \o pamOut' = SubSeq(text', 1, sent')
    BY <1>1, <1>2, <1>3, Zenon DEF ReadSoFar
  <1>. QED BY <1>2, <1>4, Zenon DEF ReadSoFar


-----------------------------------------------------------------------------
(* Smoothing's steps keep it.                                               *)

\* What lies in the window and the store stays.
StoreStays == UNCHANGED <<inIgnoreState, headx, headxBottom, indices, indexReadPos, indexWritePos>>

\* What waits stays.
LEMMA WaitsStay ==
    ASSUME NEW R, WaitsNow(R), StoreStays PROVE WaitsNow(R)'
  BY Zenon DEF WaitsNow, StoreStays

\* Nothing is read, and nothing put.
LEMMA LinkStays ==
    ASSUME NEW A, NEW E, NEW R, CepLink(A, E, R), ReadSoFar(A)', StoreStays, StoreOK',
           \A s : Counted(s) => Counted(s)'
    PROVE  CepLink(A, E, R)'
  <1>1. PICK s : s = SmoothedAll(A)
    OBVIOUS
  <1>2. MadeOf(s, E, R) /\ inIgnoreState' = inIgnoreState
    BY <1>1 DEF CepLink, StoreStays
  <1>3. Counted(s)'
    BY <1>2 DEF MadeOf
  <1>4. MadeOf(s, E, R)'
    BY <1>2, <1>3 DEF MadeOf
  <1>5. WaitsNow(R)'
    BY WaitsStay, Zenon DEF CepLink
  <1>. QED BY <1>1, <1>4, <1>5, Zenon DEF CepLink

\* The unit does nothing.
LEMMA LinkSame ==
    ASSUME NEW A, NEW E, NEW R, CepLink(A, E, R), ReadSoFar(A)', UNCHANGED cepState
    PROVE  CepLink(A, E, R)'
  <1>1. UNCHANGED <<cepProcState, feedFollowState, inIgnoreState, sentenceEnd, cepInBuf, headx, headxBottom,
                    indices, indexReadPos, indexWritePos, activeEndPos, smooth>>
    BY DEF cepState
  <1>2. StoreStays
    BY <1>1 DEF StoreStays
  <1>3. StoreOK'
    BY <1>1 DEF CepLink, StoreOK, CEP!Producing, CEP!Item, CEP!EndsSentence, PuttingFrames
  <1>4. \A s : Counted(s) => Counted(s)'
    BY <1>1 DEF Counted, CEP!Item, CEP!EndsSentence
  <1>. QED BY <1>2, <1>3, <1>4, LinkStays

\* An item is collected.
LEMMA LinkCollect ==
    ASSUME TypeInv, NEW A \in Seq(Items), NEW E, NEW R, CepLink(A, E, R), CEP!Collect, UNCHANGED history
    PROVE  CepLink(A, E, R)'
  <1>1. cepProcState = "COLLECT" /\ cepInBuf = <<>> /\ cepProcState' \in {"COLLECT", "PARSE"}
        /\ StoreStays /\ UNCHANGED <<sentenceEnd, activeEndPos, smooth>>
    BY CepFacts DEF CEP!Collect, CEP!At, CEP!store, CEP!window, StoreStays
  <1>2. StoreOK'
    BY <1>1 DEF CepLink, StoreOK, CEP!Producing, PuttingFrames, StoreStays
  <1>3. \A s : Counted(s) => Counted(s)'
    BY <1>1 DEF Counted, StoreStays
  <1>4. ReadSoFar(A)'
    BY ReadCollect, Zenon DEF CepLink
  <1>. QED BY <1>1, <1>2, <1>3, <1>4, LinkStays

\* Nothing at hand, or the end of the sentence, with frames collected.
LEMMA LinkParseNone ==
    ASSUME TypeInv, NEW A \in Seq(Items), NEW E, NEW R, CepLink(A, E, R),
           CEP!ParseNone \/ CEP!ParseSentenceEnd, UNCHANGED history
    PROVE  CepLink(A, E, R)'
  <1>1. cepProcState = "PARSE" /\ StoreStays /\ pamOut' = pamOut /\ cepInBuf' = cepInBuf
    BY DEF CEP!ParseNone, CEP!ParseSentenceEnd, CEP!Parsing, CEP!ToSmooth, CEP!At, CEP!store, CEP!window, StoreStays
  <1>2. StoreOK'
    <2>1. CASE CEP!ParseNone
      <3>1. cepProcState' = "COLLECT"
        BY <2>1 DEF CEP!ParseNone
      <3>. QED BY <1>1, <3>1 DEF CepLink, StoreOK, CEP!Producing, PuttingFrames, StoreStays
    <2>2. CASE CEP!ParseSentenceEnd
      <3>1. cepProcState' = "SMOOTH" /\ sentenceEnd' /\ activeEndPos' = indexWritePos
            /\ cepInBuf # <<>> /\ ~ inIgnoreState /\ CEP!EndsSentence(CEP!Item)
        BY <2>2 DEF CEP!ParseSentenceEnd, CEP!ToSmooth
      <3>. QED BY <1>1, <3>1 DEF CepLink, StoreOK, CEP!Producing, PuttingFrames, StoreStays, CEP!Item, CEP!EndsSentence
    <2>. QED BY <2>1, <2>2
  <1>3. \A s : Counted(s) => Counted(s)'
    <2>1. cepInBuf = <<>> \/ indexWritePos > 0
      BY DEF CEP!ParseNone, CEP!ParseSentenceEnd, CEP!Collected
    <2>2. \A s : Counted(s) => s.frames = indexWritePos
      BY <2>1, CepFacts DEF Counted
    <2>. QED BY <1>1, <2>2 DEF Counted, StoreStays
  <1>4. ReadSoFar(A)'
    BY <1>1 DEF CepLink, ReadSoFar, history
  <1>. QED BY <1>1, <1>2, <1>3, <1>4, LinkStays

\* The window is smoothed.
LEMMA LinkSmooth ==
    ASSUME TypeInv, NEW A \in Seq(Items), NEW E, NEW R, CepLink(A, E, R), CEP!Smooth, UNCHANGED history
    PROVE  CepLink(A, E, R)'
  <1>1. cepProcState = "SMOOTH" /\ pamOut' = pamOut /\ cepInBuf' = cepInBuf /\ cepProcState' = "FRAME"
        /\ smooth' = SubSeq(indices, 1, activeEndPos) /\ indexReadPos' = 0
        /\ UNCHANGED <<inIgnoreState, sentenceEnd, headx, headxBottom, indices, indexWritePos, activeEndPos>>
    BY DEF CEP!Smooth, CEP!At, CEP!store
  <1>2. /\ indexReadPos = 0 /\ headxBottom = 0 /\ sentenceEnd /\ activeEndPos = indexWritePos
        /\ cepInBuf # <<>> /\ CEP!EndsSentence(CEP!Item) /\ ~ inIgnoreState
    BY <1>1 DEF CepLink, StoreOK, CEP!Producing
  <1>3. StoreStays
    BY <1>1, <1>2 DEF StoreStays
  <1>4. \A i \in 1 .. indexWritePos : smooth'[i] = indices[i]
    BY <1>1, <1>2, CepFacts DEF WindowFrames
  <1>5. StoreOK'
    BY <1>1, <1>2, <1>4 DEF StoreOK, CEP!Producing, PuttingFrames, CEP!Item, CEP!EndsSentence
  <1>6. \A s : Counted(s) => Counted(s)'
    BY <1>1 DEF Counted
  <1>7. ReadSoFar(A)'
    BY <1>1 DEF CepLink, ReadSoFar, history
  <1>. QED BY <1>3, <1>5, <1>6, <1>7, LinkStays

\* What was put goes on.
LEMMA LinkFeed ==
    ASSUME TypeInv, NEW A \in Seq(Items), NEW E, NEW R, CepLink(A, E, R), CEP!Feed, UNCHANGED history
    PROVE  CepLink(A, E, R)'
  <1>1. cepProcState = "FEED" /\ pamOut' = pamOut /\ StoreStays
        /\ UNCHANGED <<feedFollowState, inIgnoreState, sentenceEnd, cepInBuf, activeEndPos, smooth>>
        /\ (cepProcState' = feedFollowState \/ cepProcState' = cepProcState)
    BY DEF CEP!Feed, CEP!At, CEP!store, CEP!window, StoreStays
  <1>2. feedFollowState \in {"PARSE", "FRAME"}
    BY <1>1 DEF TypeInv, CepOK
  <1>3. StoreOK'
    <2>1. cepProcState' # "SMOOTH" /\ (CEP!Producing' <=> CEP!Producing) /\ (PuttingFrames' <=> PuttingFrames)
      BY <1>1, <1>2 DEF CEP!Producing, PuttingFrames
    <2>. QED BY <1>1, <2>1 DEF CepLink, StoreOK, StoreStays, CEP!Item, CEP!EndsSentence
  <1>4. \A s : Counted(s) => Counted(s)'
    BY <1>1 DEF Counted, StoreStays
  <1>5. ReadSoFar(A)'
    BY <1>1 DEF CepLink, ReadSoFar, history
  <1>. QED BY <1>1, <1>3, <1>4, <1>5, LinkStays


\* One item x is read: what is made of A and x.
Reading == /\ cepProcState = "PARSE" /\ cepInBuf # <<>>
           /\ cepInBuf' = <<>> /\ pamOut' = pamOut /\ UNCHANGED history
ReadItem(A, E, R, x, s) ==
    /\ x \in Items /\ s \in Smoothing
    /\ s.out = E \o R /\ s.ignore = inIgnoreState
    /\ (inIgnoreState \/ ~ CEP!EndsSentence(x) \/ indexWritePos > 0 => s.frames = indexWritePos)
    /\ indexReadPos = 0 /\ headxBottom = 0 /\ (indexWritePos = 0 => headx = <<>>)
    /\ Append(A, x) \in Seq(Items) /\ ReadSoFar(Append(A, x))'
    /\ SmoothedAll(Append(A, x)) = SmoothedOne(s, x)

\* The item x is the next of the text.
LEMMA ReadOne ==
    ASSUME TypeInv, NEW A \in Seq(Items), NEW E, NEW R, CepLink(A, E, R), Reading,
           NEW x, x = CEP!Item, NEW s, s = SmoothedAll(A)
    PROVE  ReadItem(A, E, R, x, s)
  <1>. USE DEF Reading
  <1>1. x \in Items
    BY CepFacts
  <1>2. s \in Smoothing /\ SmoothedAll(Append(A, x)) = SmoothedOne(s, x)
    BY <1>1, SmoothedOK, Zenon
  <1>3. s.out = E \o R /\ s.ignore = inIgnoreState /\ Counted(s) /\ ReadSoFar(A) /\ StoreOK
    BY Zenon DEF CepLink, MadeOf
  <1>4. ReadSoFar(Append(A, x))' /\ Append(A, x) \in Seq(Items)
    BY <1>3, ReadOn, Zenon
  <1>5. inIgnoreState \/ ~ CEP!EndsSentence(x) \/ indexWritePos > 0 => s.frames = indexWritePos
    BY <1>3 DEF Counted
  <1>6. ~ CEP!Producing
    BY DEF CEP!Producing
  <1>7. indexReadPos = 0 /\ headxBottom = 0 /\ (indexWritePos = 0 => headx = <<>>)
    BY <1>3, <1>6, Zenon DEF StoreOK
  <1>. QED BY <1>1, <1>2, <1>3, <1>4, <1>5, <1>7, Zenon DEF ReadItem

\* At the end of the step nothing is put of the window and the store.
NotPutting == /\ cepProcState' = "PARSE" \/ (cepProcState' = "FEED" /\ feedFollowState' = "PARSE")
              /\ indexReadPos' = 0 /\ headxBottom' = 0 /\ (indexWritePos' = 0 => headx' = <<>>)

\* It is read, and what is made of it waits or goes out.
LEMMA LinkNow ==
    ASSUME NEW A, NEW E, NEW R, NEW s, s = SmoothedAll(A),
           ReadSoFar(A)', s.out = E \o R, s.ignore = inIgnoreState', s.frames = indexWritePos',
           NotPutting, WaitsNow(R)'
    PROVE  CepLink(A, E, R)'
  <1>1. Counted(s)'
    BY DEF Counted
  <1>2. MadeOf(s, E, R)'
    BY <1>1 DEF MadeOf
  <1>3. StoreOK'
    BY DEF NotPutting, StoreOK, CEP!Producing, PuttingFrames
  <1>. QED BY <1>2, <1>3, Zenon DEF CepLink

\* Nothing is made of it.
LEMMA LinkRead ==
    ASSUME TypeInv, NEW A \in Seq(Items), NEW E \in Seq(Sound), NEW R \in Seq(Sound), CepLink(A, E, R),
           CEP!ParseIgnored \/ CEP!ParseConsumed, UNCHANGED history
    PROVE  CepMade(E)'
  <1>1. /\ cepProcState = "PARSE" /\ cepInBuf # <<>> /\ cepInBuf' = <<>> /\ pamOut' = pamOut
        /\ cepProcState' = "PARSE"
        /\ UNCHANGED <<headx, headxBottom, indices, indexReadPos, indexWritePos>>
    BY DEF CEP!ParseIgnored, CEP!ParseConsumed, CEP!ParsingOther, CEP!Parsing, CEP!At, CEP!store, CEP!window
  <1>2. PICK x, s : x = CEP!Item /\ s = SmoothedAll(A)
    OBVIOUS
  <1>3. /\ x \in Items /\ s \in Smoothing
        /\ s.out = E \o R /\ s.ignore = inIgnoreState
        /\ (inIgnoreState \/ ~ CEP!EndsSentence(x) \/ indexWritePos > 0 => s.frames = indexWritePos)
        /\ indexReadPos = 0 /\ headxBottom = 0 /\ (indexWritePos = 0 => headx = <<>>)
        /\ Append(A, x) \in Seq(Items) /\ ReadSoFar(Append(A, x))'
        /\ SmoothedAll(Append(A, x)) = SmoothedOne(s, x)
    <2>1. Reading
      BY <1>1, Zenon DEF Reading
    <2>2. ReadItem(A, E, R, x, s)
      BY <1>2, <2>1, ReadOne
    <2>. QED BY <2>2, Zenon DEF ReadItem
  <1>4. PICK B \in Seq(Items), t \in {SmoothedAll(Append(A, x))} :
            B = Append(A, x) /\ t = SmoothedAll(B) /\ t = SmoothedOne(s, x) /\ ReadSoFar(B)'
    BY <1>3, Zenon
  <1>5. t.out = E \o R /\ t.ignore = inIgnoreState' /\ t.frames = indexWritePos'
    <2>1. CASE CEP!ParseIgnored
      <3>1. inIgnoreState /\ inIgnoreState' = (x.type # "IGNSIG_END")
        BY <1>2, <2>1 DEF CEP!ParseIgnored
      <3>2. t = [s EXCEPT !.ignore = x.type # "IGNSIG_END"]
        BY <1>3, <1>4, <3>1, Zenon DEF SmoothedOne
      <3>. QED BY <1>1, <1>3, <3>1, <3>2 DEF Smoothing
    <2>2. CASE CEP!ParseConsumed
      <3>1. /\ ~ inIgnoreState /\ x.type \in {"IGNSIG_START", "IGNSIG_END"}
            /\ inIgnoreState' = (x.type = "IGNSIG_START")
        BY <1>2, <2>2 DEF CEP!ParseConsumed, CEP!ParsingOther, CEP!Forwarding
      <3>2. ~ CEP!EndsSentence(x)
        BY <3>1 DEF CEP!EndsSentence
      <3>3. x.type = "IGNSIG_START" => t = [s EXCEPT !.ignore = TRUE]
        BY <1>3, <1>4, <3>1 DEF SmoothedOne
      <3>4. x.type = "IGNSIG_END" => t = s
        BY <1>3, <1>4, <3>1 DEF SmoothedOne
      <3>. QED BY <1>1, <1>3, <3>1, <3>2, <3>3, <3>4 DEF Smoothing
    <2>. QED BY <2>1, <2>2
  <1>6. NotPutting
    BY <1>1, <1>3 DEF NotPutting
  <1>7. WaitsNow(R)'
    BY <1>1, Zenon DEF CepLink, WaitsNow
  <1>8. CepLink(B, E, R)'
    BY <1>4, <1>5, <1>6, <1>7, LinkNow, Zenon
  <1>. QED BY <1>4, <1>8, Zenon DEF CepMade

\* No frames wait: an item goes out at once.
LEMMA LinkForward ==
    ASSUME TypeInv, NEW A \in Seq(Items), NEW E \in Seq(Sound), NEW R \in Seq(Sound), CepLink(A, E, R),
           CEP!ParseForward, UNCHANGED history
    PROVE  \E x \in Sound : cepOutBuf' = <<x>> /\ CepMade(Append(E, x))'
  <1>1. /\ cepProcState = "PARSE" /\ cepInBuf # <<>> /\ cepInBuf' = <<>> /\ pamOut' = pamOut
        /\ cepProcState' = "FEED" /\ feedFollowState' = "PARSE" /\ ~ inIgnoreState /\ ~ CEP!Collected
        /\ UNCHANGED <<inIgnoreState, headx, headxBottom, indices, indexReadPos, indexWritePos>>
        /\ CEP!Item.type \notin {"PHONE", "IGNSIG_START", "IGNSIG_END"}
        /\ cepOutBuf' = <<CEP!Item>>
    BY DEF CEP!ParseForward, CEP!ParsingOther, CEP!Parsing, CEP!At, CEP!store, CEP!window, CEP!Forwarding
  <1>2. PICK x, s : x = CEP!Item /\ s = SmoothedAll(A)
    OBVIOUS
  <1>3. /\ x \in Items /\ s \in Smoothing
        /\ s.out = E \o R /\ s.ignore = inIgnoreState
        /\ (inIgnoreState \/ ~ CEP!EndsSentence(x) \/ indexWritePos > 0 => s.frames = indexWritePos)
        /\ indexReadPos = 0 /\ headxBottom = 0 /\ (indexWritePos = 0 => headx = <<>>)
        /\ Append(A, x) \in Seq(Items) /\ ReadSoFar(Append(A, x))'
        /\ SmoothedAll(Append(A, x)) = SmoothedOne(s, x)
    <2>1. Reading
      BY <1>1, Zenon DEF Reading
    <2>2. ReadItem(A, E, R, x, s)
      BY <1>2, <2>1, ReadOne
    <2>. QED BY <2>2, Zenon DEF ReadItem
  <1>4. PICK B \in Seq(Items), t \in {SmoothedAll(Append(A, x))} :
            B = Append(A, x) /\ t = SmoothedAll(B) /\ t = SmoothedOne(s, x) /\ ReadSoFar(B)'
    BY <1>3, Zenon
  <1>5. indexWritePos = 0 /\ R = <<>>
    <2>1. indexWritePos = 0 /\ headx = <<>>
      BY <1>1, <1>3, CepFacts DEF CEP!Collected
    <2>2. Waits(R, 0, 0, 0, headx, indices) /\ Len(headx) = 0
      BY <1>3, <2>1 DEF CepLink, WaitsNow
    <2>3. Waits(R, 0, 0, Len(headx), headx, indices) /\ 0 \in Nat
      BY <2>2, Zenon
    <2>. QED BY <2>1, <2>3, CepFacts, WaitsDone, Zenon
  <1>6. t = [s EXCEPT !.out = Append(s.out, x), !.frames = IF CEP!EndsSentence(x) THEN 0 ELSE s.frames]
    BY <1>1, <1>2, <1>3, <1>4 DEF SmoothedOne
  <1>7. x \in Sound /\ Append(E, x) = Append(E, x) \o R /\ s.out = E
    BY <1>3, <1>5 DEF Sound
  <1>8. t.out = Append(E, x) \o R /\ t.ignore = inIgnoreState' /\ t.frames = indexWritePos'
    BY <1>1, <1>3, <1>5, <1>6, <1>7 DEF Smoothing
  <1>9. NotPutting
    BY <1>1, <1>3 DEF NotPutting
  <1>10. WaitsNow(R)'
    BY <1>1, Zenon DEF CepLink, WaitsNow
  <1>11. PICK E2 : E2 = Append(E, x)
    OBVIOUS
  <1>12. CepLink(B, E2, R)'
    BY <1>4, <1>8, <1>9, <1>10, <1>11, LinkNow, Zenon
  <1>13. CepMade(E2)'
    BY <1>4, <1>12, Zenon DEF CepMade
  <1>. QED BY <1>1, <1>2, <1>7, <1>11, <1>13, Zenon


\* A phone: its frames wait, as far as they fit.
LEMMA LinkPhone ==
    ASSUME TypeInv, NEW A \in Seq(Items), NEW E \in Seq(Sound), NEW R \in Seq(Sound), CepLink(A, E, R),
           CEP!ParsePhone, UNCHANGED history
    PROVE  CepMade(E)'
  <1>1. /\ cepProcState = "PARSE" /\ cepInBuf # <<>> /\ cepInBuf' = <<>> /\ pamOut' = pamOut
        /\ cepProcState' = "PARSE" /\ ~ inIgnoreState
        /\ UNCHANGED <<inIgnoreState, headx, headxBottom, indexReadPos>>
        /\ CEP!Item.type = "PHONE"
    BY DEF CEP!ParsePhone, CEP!Parsing, CEP!At, CEP!store
  <1>2. PICK x, s : x = CEP!Item /\ s = SmoothedAll(A)
    OBVIOUS
  <1>3. /\ x \in Items /\ s \in Smoothing
        /\ s.out = E \o R /\ s.ignore = inIgnoreState
        /\ (inIgnoreState \/ ~ CEP!EndsSentence(x) \/ indexWritePos > 0 => s.frames = indexWritePos)
        /\ indexReadPos = 0 /\ headxBottom = 0 /\ (indexWritePos = 0 => headx = <<>>)
        /\ Append(A, x) \in Seq(Items) /\ ReadSoFar(Append(A, x))'
        /\ SmoothedAll(Append(A, x)) = SmoothedOne(s, x)
    <2>1. Reading
      BY <1>1, Zenon DEF Reading
    <2>2. ReadItem(A, E, R, x, s)
      BY <1>2, <2>1, ReadOne
    <2>. QED BY <2>2, Zenon DEF ReadItem
  <1>4. PICK B \in Seq(Items), t \in {SmoothedAll(Append(A, x))} :
            B = Append(A, x) /\ t = SmoothedAll(B) /\ t = SmoothedOne(s, x) /\ ReadSoFar(B)'
    BY <1>3, Zenon
  <1>5. PICK w \in 0 .. MaxWinLen : w = indexWritePos /\ w = s.frames
    BY <1>1, <1>2, <1>3, CepFacts DEF CEP!EndsSentence
  <1>6. PICK fr : fr = CEP!UpTo(CEP!FramesOf(x), MaxWinLen - w)
    OBVIOUS
  <1>7. PICK ps : ps = [i \in DOMAIN fr |-> Par(fr[i])]
    OBVIOUS
  <1>8. /\ fr \in Seq(TextFrames) /\ Len(fr) \in Nat /\ w + Len(fr) \in 0 .. MaxWinLen
        /\ ps \in Seq(Sound) /\ Len(ps) = Len(fr)
    <2>1. x.type = "PHONE"
      BY <1>1, <1>2
    <2>2. LET g == CEP!UpTo(CEP!FramesOf(x), MaxWinLen - w)
          IN  /\ g \in Seq(TextFrames) /\ Len(g) \in Nat /\ w + Len(g) \in 0 .. MaxWinLen
              /\ [i \in DOMAIN g |-> Par(g[i])] \in Seq(Sound)
              /\ Len([i \in DOMAIN g |-> Par(g[i])]) = Len(g)
      BY <1>3, <2>1, FittingOK, Zenon
    <2>. QED BY <1>6, <1>7, <2>2, Zenon
  <1>9. /\ indexWritePos' = w + Len(ps)
        /\ indices' = [i \in 1 .. MaxWinLen |->
                          IF i \in w + 1 .. w + Len(ps) THEN fr[i - w] ELSE indices[i]]
    <2>1. LET g == CEP!UpTo(CEP!FramesOf(CEP!Item), MaxWinLen - indexWritePos)
          IN  /\ indices' = [i \in 1 .. MaxWinLen |->
                               IF i \in indexWritePos + 1 .. indexWritePos + Len(g)
                               THEN g[i - indexWritePos] ELSE indices[i]]
              /\ indexWritePos' = indexWritePos + Len(g)
      BY Zenon DEF CEP!ParsePhone
    <2>. QED BY <1>2, <1>5, <1>6, <1>8, <2>1, Zenon
  <1>10. /\ \A i \in 1 .. w : indices'[i] = indices[i]
         /\ \A i \in 1 .. Len(ps) : ps[i] = Par(indices'[w + i])
    <2>1. ASSUME NEW i \in 1 .. w PROVE indices'[i] = indices[i]
      <3>1. i \in 1 .. MaxWinLen /\ i \notin w + 1 .. w + Len(ps)
        BY <1>8, Numbers
      <3>. QED BY <1>9, <3>1, Zenon
    <2>2. ASSUME NEW i \in 1 .. Len(ps) PROVE ps[i] = Par(indices'[w + i])
      <3>1. w + i \in 1 .. MaxWinLen /\ w + i \in w + 1 .. w + Len(ps) /\ (w + i) - w = i
        BY <1>8, Numbers
      <3>2. indices'[w + i] = fr[i]
        BY <1>9, <3>1, Zenon
      <3>3. i \in DOMAIN fr
        BY <1>8
      <3>. QED BY <1>7, <3>2, <3>3
    <2>. QED BY <2>1, <2>2
  <1>11. WaitsNow(R \o ps)'
    <2>1. PICK more : more = indices'
      OBVIOUS
    <2>2. w \in Nat /\ Waits(R, 0, w, 0, headx, indices) /\ Sorted(0, w, 0, headx)
      BY <1>3, <1>5, CepFacts, Zenon DEF CepLink, WaitsNow
    <2>3. PICK hx \in Slots, ix \in {indices} : hx = headx /\ ix = indices
      BY CepFacts
    <2>4. /\ \A i \in 1 .. w : more[i] = ix[i]
          /\ \A i \in 1 .. Len(ps) : ps[i] = Par(more[w + i])
      BY <1>10, <2>1, <2>3, Zenon
    <2>5. Waits(R \o ps, 0, w + Len(ps), 0, hx, more) /\ Sorted(0, w + Len(ps), 0, hx)
      BY <1>8, <2>2, <2>3, <2>4, WaitsPhone
    <2>. QED BY <1>1, <1>3, <1>9, <2>1, <2>3, <2>5, Zenon DEF WaitsNow
  <1>12. t = [s EXCEPT !.out = s.out \o ps, !.frames = w + Len(fr)]
    BY <1>1, <1>2, <1>3, <1>4, <1>5, <1>6, <1>7 DEF SmoothedOne
  <1>13. PICK R2 : R2 = R \o ps
    OBVIOUS
  <1>14. R2 \in Seq(Sound) /\ (E \o R) \o ps = E \o R2
    BY <1>8, <1>13, JoinsSound, Zenon
  <1>15. t.out = E \o R2 /\ t.ignore = inIgnoreState' /\ t.frames = indexWritePos'
    BY <1>1, <1>3, <1>8, <1>9, <1>12, <1>14 DEF Smoothing
  <1>16. NotPutting
    <2>1. indexWritePos' = 0 => w = 0
      BY <1>8, <1>9
    <2>. QED BY <1>1, <1>3, <1>5, <2>1 DEF NotPutting
  <1>17. CepLink(B, E, R2)'
    BY <1>4, <1>11, <1>13, <1>15, <1>16, LinkNow, Zenon
  <1>. QED BY <1>4, <1>14, <1>17, Zenon DEF CepMade

\* Another item, with frames before it.
LEMMA LinkStore ==
    ASSUME TypeInv, NEW A \in Seq(Items), NEW E \in Seq(Sound), NEW R \in Seq(Sound), CepLink(A, E, R),
           CEP!ParseStore, UNCHANGED history
    PROVE  CepMade(E)'
  <1>1. /\ cepProcState = "PARSE" /\ cepInBuf # <<>> /\ cepInBuf' = <<>> /\ pamOut' = pamOut
        /\ cepProcState' = "PARSE" /\ ~ inIgnoreState /\ CEP!Collected
        /\ UNCHANGED <<inIgnoreState, headxBottom, indexReadPos, indexWritePos, indices>>
        /\ CEP!Item.type \notin {"PHONE", "IGNSIG_START", "IGNSIG_END"} /\ ~ CEP!EndsSentence(CEP!Item)
        /\ headx' = Append(headx, [item |-> CEP!Item, frame |-> indexWritePos])
    BY DEF CEP!ParseStore, CEP!ParsingOther, CEP!Parsing, CEP!At, CEP!Forwarding
  <1>2. PICK x, s : x = CEP!Item /\ s = SmoothedAll(A)
    OBVIOUS
  <1>3. /\ x \in Items /\ s \in Smoothing
        /\ s.out = E \o R /\ s.ignore = inIgnoreState
        /\ (inIgnoreState \/ ~ CEP!EndsSentence(x) \/ indexWritePos > 0 => s.frames = indexWritePos)
        /\ indexReadPos = 0 /\ headxBottom = 0 /\ (indexWritePos = 0 => headx = <<>>)
        /\ Append(A, x) \in Seq(Items) /\ ReadSoFar(Append(A, x))'
        /\ SmoothedAll(Append(A, x)) = SmoothedOne(s, x)
    <2>1. Reading
      BY <1>1, Zenon DEF Reading
    <2>2. ReadItem(A, E, R, x, s)
      BY <1>2, <2>1, ReadOne
    <2>. QED BY <2>2, Zenon DEF ReadItem
  <1>4. PICK B \in Seq(Items), t \in {SmoothedAll(Append(A, x))} :
            B = Append(A, x) /\ t = SmoothedAll(B) /\ t = SmoothedOne(s, x) /\ ReadSoFar(B)'
    BY <1>3, Zenon
  <1>5. x \in Sound
    BY <1>3 DEF Sound
  <1>6. WaitsNow(Append(R, x))'
    <2>1. PICK w \in Nat, hx \in Slots, ix \in {indices} : w = indexWritePos /\ hx = headx /\ ix = indices
      BY CepFacts
    <2>2. Waits(R, 0, w, 0, hx, ix) /\ Sorted(0, w, 0, hx)
      BY <1>3, <2>1, Zenon DEF CepLink, WaitsNow
    <2>3. PICK more : more = Append(hx, [item |-> x, frame |-> w])
      OBVIOUS
    <2>4. Waits(Append(R, x), 0, w, 0, more, ix) /\ Sorted(0, w, 0, more)
      BY <1>5, <2>2, <2>3, WaitsStore
    <2>. QED BY <1>1, <1>2, <1>3, <2>1, <2>3, <2>4, Zenon DEF WaitsNow
  <1>7. t = [s EXCEPT !.out = Append(s.out, x), !.frames = s.frames]
    BY <1>1, <1>2, <1>3, <1>4 DEF SmoothedOne
  <1>8. PICK R2 : R2 = Append(R, x)
    OBVIOUS
  <1>9. R2 \in Seq(Sound) /\ Append(E \o R, x) = E \o R2
    BY <1>5, <1>8, SoundJoined, Zenon
  <1>10. t.out = E \o R2 /\ t.ignore = inIgnoreState' /\ t.frames = indexWritePos'
    BY <1>1, <1>2, <1>3, <1>7, <1>9 DEF Smoothing
  <1>11. NotPutting
    BY <1>1, <1>3, CepFacts DEF NotPutting, CEP!Collected
  <1>12. CepLink(B, E, R2)'
    BY <1>4, <1>6, <1>8, <1>10, <1>11, LinkNow, Zenon
  <1>. QED BY <1>4, <1>9, <1>12, Zenon DEF CepMade


\* Of what waits the first item is put.
PutOne == /\ cepProcState = "FRAME" /\ cepProcState' = "FEED" /\ feedFollowState' = "FRAME"
          /\ pamOut' = pamOut
          /\ UNCHANGED <<inIgnoreState, sentenceEnd, cepInBuf, headx, indices, indexWritePos, activeEndPos, smooth>>

\* Then the rest waits.
LEMMA LinkPut ==
    ASSUME TypeInv, NEW A \in Seq(Items), NEW E \in Seq(Sound), NEW R \in Seq(Sound), CepLink(A, E, R),
           PutOne, UNCHANGED history,
           R # <<>>, cepOutBuf' = <<Head(R)>>, WaitsNow(Tail(R))'
    PROVE  \E x \in Sound : cepOutBuf' = <<x>> /\ CepMade(Append(E, x))'
  <1>1. PICK s : s = SmoothedAll(A)
    OBVIOUS
  <1>2. MadeOf(s, E, R) /\ ReadSoFar(A) /\ StoreOK
    BY <1>1, Zenon DEF CepLink
  <1>3. PICK x \in Sound, R2 \in Seq(Sound), E2 \in Seq(Sound) :
           x = Head(R) /\ R2 = Tail(R) /\ E2 = Append(E, x) /\ E \o R = E2 \o R2
    <2>1. Head(R) \in Sound /\ Tail(R) \in Seq(Sound) /\ Append(E, Head(R)) \in Seq(Sound)
      OBVIOUS
    <2>2. E \o R = Append(E, Head(R)) \o Tail(R)
      <3>1. <<Head(R)>> \o Tail(R) = R /\ <<Head(R)>> \in Seq(Sound)
        BY HeadAndTail
      <3>2. (E \o <<Head(R)>>) \o Tail(R) = E \o (<<Head(R)>> \o Tail(R))
        BY <2>1, <3>1, JoinAssoc
      <3>3. E \o <<Head(R)>> = Append(E, Head(R))
        BY <2>1, JoinOne
      <3>. QED BY <3>1, <3>2, <3>3
    <2>. QED BY <2>1, <2>2, Zenon
  <1>4. s.frames = indexWritePos
    BY <1>2 DEF MadeOf, Counted, PutOne
  <1>5. MadeOf(s, E2, R2)'
    BY <1>2, <1>3, <1>4 DEF MadeOf, Counted, PutOne
  <1>6. StoreOK'
    BY <1>2 DEF StoreOK, PutOne, CEP!Producing, PuttingFrames, CEP!Item, CEP!EndsSentence
  <1>7. ReadSoFar(A)'
    BY <1>2 DEF ReadSoFar, PutOne, history
  <1>8. WaitsNow(R2)'
    BY <1>3, Zenon
  <1>9. CepLink(A, E2, R2)'
    BY <1>1, <1>5, <1>6, <1>7, <1>8, Zenon DEF CepLink
  <1>10. CepMade(E2)'
    BY <1>9, Zenon DEF CepMade
  <1>. QED BY <1>3, <1>10, Zenon

\* It is an item of the store,
LEMMA LinkItem ==
    ASSUME TypeInv, NEW A \in Seq(Items), NEW E \in Seq(Sound), NEW R \in Seq(Sound), CepLink(A, E, R),
           CEP!FrameItem, UNCHANGED history
    PROVE  \E x \in Sound : cepOutBuf' = <<x>> /\ CepMade(Append(E, x))'
  <1>1. /\ PutOne /\ CEP!Due
        /\ UNCHANGED <<indexReadPos, indexWritePos, headx, indices>>
        /\ headxBottom' = headxBottom + 1
        /\ cepOutBuf' = <<headx[headxBottom + 1].item>>
    BY DEF CEP!FrameItem, CEP!Framing, CEP!At, PutOne
  <1>2. PICK r \in Nat, w \in Nat, b \in Nat, hx \in Slots, ix \in {indices} :
           r = indexReadPos /\ w = indexWritePos /\ b = headxBottom /\ hx = headx /\ ix = indices
    BY CepFacts
  <1>3. Waits(R, r, w, b, hx, ix) /\ Sorted(r, w, b, hx)
    BY <1>2, Zenon DEF CepLink, WaitsNow
  <1>4. b < Len(hx) /\ hx[b + 1].frame =< r
    BY <1>1, <1>2 DEF CEP!Due
  <1>5. /\ R # <<>> /\ Head(R) = hx[b + 1].item
        /\ Waits(Tail(R), r, w, b + 1, hx, ix) /\ Sorted(r, w, b + 1, hx)
    BY <1>3, <1>4, WaitsSlot
  <1>6. WaitsNow(Tail(R))'
    BY <1>1, <1>2, <1>5, Zenon DEF WaitsNow
  <1>7. cepOutBuf' = <<Head(R)>>
    BY <1>1, <1>2, <1>5
  <1>. QED BY <1>1, <1>5, <1>6, <1>7, LinkPut

\* or a frame of the window.
LEMMA LinkPar ==
    ASSUME TypeInv, NEW A \in Seq(Items), NEW E \in Seq(Sound), NEW R \in Seq(Sound), CepLink(A, E, R),
           CEP!FramePar, UNCHANGED history
    PROVE  \E x \in Sound : cepOutBuf' = <<x>> /\ CepMade(Append(E, x))'
  <1>1. /\ PutOne /\ ~ CEP!Due /\ indexReadPos < activeEndPos
        /\ UNCHANGED <<headxBottom, indexWritePos, headx, indices>>
        /\ indexReadPos' = indexReadPos + 1
        /\ cepOutBuf' = <<[type |-> "FRAME_PAR", cep |-> smooth[indexReadPos + 1],
                           phone |-> indices[indexReadPos + 1]]>>
    BY DEF CEP!FramePar, CEP!Framing, CEP!At, CEP!store, PutOne
  <1>2. PICK r \in Nat, w \in Nat, b \in Nat, hx \in Slots, ix \in {indices} :
           r = indexReadPos /\ w = indexWritePos /\ b = headxBottom /\ hx = headx /\ ix = indices
    BY CepFacts
  <1>3. Waits(R, r, w, b, hx, ix) /\ Sorted(r, w, b, hx)
    BY <1>2, Zenon DEF CepLink, WaitsNow
  <1>4. activeEndPos = w /\ r < w /\ b =< Len(hx) /\ \A i \in 1 .. w : smooth[i] = ix[i]
    <2>1. CEP!Producing /\ PuttingFrames /\ StoreOK
      BY <1>1, Zenon DEF PutOne, CEP!Producing, PuttingFrames, CepLink
    <2>2. activeEndPos = indexWritePos /\ \A i \in 1 .. indexWritePos : smooth[i] = indices[i]
      BY <2>1, Zenon DEF StoreOK
    <2>. QED BY <1>1, <1>2, <2>2, CepFacts
  <1>5. b < Len(hx) => hx[b + 1].frame > r
    <2>1. ~ (b < Len(hx) /\ hx[b + 1].frame =< r)
      BY <1>1, <1>2, Zenon DEF CEP!Due
    <2>2. b < Len(hx) => hx[b + 1].frame \in Nat
      BY SlotAt
    <2>. QED BY <2>1, <2>2
  <1>6. /\ R # <<>> /\ Head(R) = Par(ix[r + 1])
        /\ Waits(Tail(R), r + 1, w, b, hx, ix) /\ Sorted(r + 1, w, b, hx)
    BY <1>3, <1>4, <1>5, WaitsFrame
  <1>7. WaitsNow(Tail(R))'
    BY <1>1, <1>2, <1>6, Zenon DEF WaitsNow
  <1>8. cepOutBuf' = <<Head(R)>>
    <2>1. smooth[r + 1] = ix[r + 1]
      BY <1>4
    <2>. QED BY <1>1, <1>2, <1>6, <2>1 DEF Par
  <1>. QED BY <1>1, <1>6, <1>7, <1>8, LinkPut

\* All is put; the window is empty again.
LEMMA LinkDone ==
    ASSUME TypeInv, NEW A \in Seq(Items), NEW E \in Seq(Sound), NEW R \in Seq(Sound), CepLink(A, E, R),
           CEP!FramesDone, UNCHANGED history
    PROVE  CepLink(A, E, R)'
  <1>1. StoreOK /\ CEP!Producing /\ ~ CEP!Due /\ indexReadPos >= activeEndPos
    BY DEF CEP!FramesDone, CEP!Framing, CEP!At, CEP!Producing, CepLink
  <1>2. sentenceEnd /\ activeEndPos = indexWritePos /\ cepInBuf # <<>> /\ CEP!EndsSentence(CEP!Item) /\ ~ inIgnoreState
    BY <1>1, Zenon DEF StoreOK
  <1>3. /\ cepProcState' = "PARSE" /\ pamOut' = pamOut
        /\ indexReadPos' = 0 /\ indexWritePos' = 0 /\ headx' = <<>> /\ headxBottom' = 0
        /\ UNCHANGED <<inIgnoreState, cepInBuf>>
    BY <1>2 DEF CEP!FramesDone, CEP!Framing
  <1>4. R = <<>>
    <2>1. PICK r \in Nat, w \in Nat, b \in Nat, hx \in Slots, ix \in {indices} :
             r = indexReadPos /\ w = indexWritePos /\ b = headxBottom /\ hx = headx /\ ix = indices
      BY CepFacts
    <2>2. Waits(R, r, w, b, hx, ix) /\ Sorted(r, w, b, hx)
      BY <2>1, Zenon DEF CepLink, WaitsNow
    <2>3. r = w
      BY <1>1, <1>2, <2>1, <2>2 DEF Sorted
    <2>4. b = Len(hx)
      <3>1. Len(hx) \in Nat /\ \A j \in 1 .. Len(hx) : hx[j].frame \in Nat
        BY SlotsOK
      <3>2. b =< Len(hx)
        BY <2>1, CepFacts
      <3>3. b < Len(hx) => b + 1 \in b + 1 .. Len(hx) /\ b + 1 \in 1 .. Len(hx)
        BY <3>1
      <3>4. b < Len(hx) => hx[b + 1].frame =< r
        BY <2>2, <2>3, <3>3 DEF Sorted
      <3>5. ~ (b < Len(hx) /\ hx[b + 1].frame =< r)
        BY <1>1, <2>1, Zenon DEF CEP!Due
      <3>. QED BY <3>1, <3>2, <3>4, <3>5
    <2>5. Waits(R, w, w, Len(hx), hx, ix)
      BY <2>2, <2>3, <2>4, Zenon
    <2>. QED BY <2>5, WaitsDone
  <1>5. WaitsNow(R)'
    <2>1. PICK ix : ix = indices'
      OBVIOUS
    <2>2. Waits(<<>>, 0, 0, 0, <<>>, ix) /\ Sorted(0, 0, 0, <<>>)
      BY WaitsNone, Zenon
    <2>. QED BY <1>3, <1>4, <2>1, <2>2, Zenon DEF WaitsNow
  <1>6. PICK s : s = SmoothedAll(A)
    OBVIOUS
  <1>7. MadeOf(s, E, R)'
    <2>1. s.out = E \o R /\ s.ignore = inIgnoreState
      BY <1>6, Zenon DEF CepLink, MadeOf
    <2>2. Counted(s)'
      BY <1>2, <1>3 DEF Counted, CEP!Item, CEP!EndsSentence
    <2>. QED BY <1>3, <2>1, <2>2 DEF MadeOf
  <1>8. StoreOK'
    BY <1>3 DEF StoreOK, CEP!Producing, PuttingFrames
  <1>9. ReadSoFar(A)'
    BY <1>3 DEF CepLink, ReadSoFar, history
  <1>. QED BY <1>5, <1>6, <1>7, <1>8, <1>9, Zenon DEF CepLink


\* A step keeps what is made, or puts one more item of it.
PutsNone(E) == CepMade(E)' /\ cepOut' \o cepOutBuf' = cepOut \o cepOutBuf
Puts(E) == cepOutBuf = <<>> /\ cepOut' = cepOut
           /\ \E x \in Sound : cepOutBuf' = <<x>> /\ CepMade(Append(E, x))'

\* Each step of smoothing, by cases.
LEMMA CepKeepsLink ==
    ASSUME TypeInv, NEW E \in Seq(Sound), CepMade(E), CEP!Pass, ~ forced', UNCHANGED history
    PROVE  PutsNone(E) \/ Puts(E)
  <1>1. PICK A \in Seq(Items), R \in Seq(Sound) : CepLink(A, E, R)
    BY Zenon DEF CepMade
  <1>2. CASE CEP!Collect \/ CEP!ParseNone \/ CEP!ParseSentenceEnd \/ CEP!Smooth \/ CEP!FramesDone
    <2>1. CepLink(A, E, R)'
      BY <1>1, <1>2, LinkCollect, LinkParseNone, LinkSmooth, LinkDone, Zenon
    <2>2. cepOut' = cepOut /\ cepOutBuf' = cepOutBuf
      BY <1>2 DEF CEP!Collect, CEP!ParseNone, CEP!ParseSentenceEnd, CEP!Parsing, CEP!ToSmooth,
                  CEP!Smooth, CEP!FramesDone, CEP!Framing
    <2>3. CepMade(E)'
      BY <2>1, Zenon DEF CepMade
    <2>. QED BY <2>2, <2>3 DEF PutsNone
  <1>3. CASE CEP!ParseIgnored \/ CEP!ParseConsumed \/ CEP!ParsePhone \/ CEP!ParseStore
    <2>1. CepMade(E)'
      BY <1>1, <1>3, LinkRead, LinkPhone, LinkStore, Zenon
    <2>2. cepOut' = cepOut /\ cepOutBuf' = cepOutBuf
      BY <1>3 DEF CEP!ParseIgnored, CEP!ParseConsumed, CEP!ParsePhone, CEP!ParseStore, CEP!ParsingOther, CEP!Parsing
    <2>. QED BY <2>1, <2>2 DEF PutsNone
  <1>4. CASE CEP!ParseForward \/ CEP!FrameItem \/ CEP!FramePar
    <2>1. \E x \in Sound : cepOutBuf' = <<x>> /\ CepMade(Append(E, x))'
      BY <1>1, <1>4, LinkForward, LinkItem, LinkPar, Zenon
    <2>2. cepOut' = cepOut /\ cepOutBuf = <<>>
      BY <1>4, CepFacts DEF CEP!ParseForward, CEP!FrameItem, CEP!FramePar, CEP!ParsingOther, CEP!Parsing, CEP!Framing, CEP!At
    <2>. QED BY <2>1, <2>2, Zenon DEF Puts
  <1>5. CASE CEP!Feed
    <2>1. CepLink(A, E, R)'
      BY <1>1, <1>5, LinkFeed, Zenon
    <2>2. CepMade(E)'
      BY <2>1, Zenon DEF CepMade
    <2>3. cepOut' \o cepOutBuf' = cepOut \o cepOutBuf
      <3>1. cepOut \o cepOutBuf \in Seq(Smooth)
        BY JoinOK, Zenon DEF TypeInv, CepOK
      <3>2. (cepOut' = cepOut \o cepOutBuf /\ cepOutBuf' = <<>>) \/ (cepOut' = cepOut /\ cepOutBuf' = cepOutBuf)
        BY <1>5 DEF CEP!Feed
      <3>3. (cepOut \o cepOutBuf) \o <<>> = cepOut \o cepOutBuf
        BY <3>1, JoinNone, Zenon
      <3>. QED BY <3>2, <3>3, Zenon
    <2>. QED BY <2>2, <2>3, Zenon DEF PutsNone
  <1>6. ~ CEP!ParseForced
    BY DEF CEP!ParseForced
  <1>. QED BY <1>2, <1>3, <1>4, <1>5, <1>6, Zenon DEF CEP!Pass, CEP!Parse

-----------------------------------------------------------------------------
(* Signal generation has made of D what is heard and what it puts; F are    *)
(* the frames of D, and its buffers hold the newest of them.                *)

Newest(F, k) == F[IF Len(F) + k > 3 THEN Len(F) + k - 3 ELSE 1]
BuffersHold(F) ==
    /\ innerProcState = 0 /\ F = <<>> =>
          /\ nAvailable < 3
          /\ nAvailable > 0 => /\ sigProcState = "PROCESS"
                               /\ \A k \in 4 - nAvailable .. 3 : cepBuff[k] = sigInBuf[1].cep
    /\ innerProcState = 0 /\ F # <<>> => nAvailable = 3 /\ \A k \in 1 .. 3 : cepBuff[k] = Newest(F, k)
    /\ innerProcState # 0 => nAvailable = 3 /\ \A k \in 1 .. 3 : cepBuff[k] = Newest(Append(F, sigInBuf[1].cep), k)
    /\ innerProcState >= 7 => imp = cepBuff[1]

Heard(out) == SpokenIn(got \o sigOut \o sigOutBuf) = out
SigLink(D) == Heard(SignalAll(D).out) /\ BuffersHold(SignalAll(D).frames)
OnTheWay(D, E) == E = D \o sigInBuf \o cepOut \o cepOutBuf
SpeechOf(D, E) == OnTheWay(D, E) /\ CepMade(E) /\ SigLink(D)
Speech == \E D \in Seq(Sound), E \in Seq(Sound) : SpeechOf(D, E)
SpeechInv == resetMode = "FULL" /\ ~ forced /\ sigStatus # "ERROR" => Speech

\* Steps of smoothing and before.
LEMMA SigLinkStays ==
    ASSUME NEW D, SigLink(D), UNCHANGED <<got, sigOut, sigState>> PROVE SigLink(D)'
  <1>1. UNCHANGED <<got, sigOut, sigOutBuf, innerProcState, sigProcState, sigInBuf, nAvailable, cepBuff, imp>>
    BY DEF sigState
  <1>2. PICK F, o : F = SignalAll(D).frames /\ o = SignalAll(D).out
    OBVIOUS
  <1>3. Heard(o)'
    BY <1>1, <1>2 DEF SigLink, Heard
  <1>4. BuffersHold(F)'
    BY <1>1, <1>2 DEF SigLink, BuffersHold
  <1>. QED BY <1>2, <1>3, <1>4 DEF SigLink

\* A step of smoothing.
LEMMA SpeechCep ==
    ASSUME TypeInv, Speech, CEP!Pass, ~ forced', UNCHANGED <<sigOut, sigState, history>>
    PROVE  Speech'
  <1>1. PICK D \in Seq(Sound), E \in Seq(Sound) : OnTheWay(D, E) /\ CepMade(E) /\ SigLink(D)
    BY Zenon DEF Speech, SpeechOf
  <1>2. SigLink(D)' /\ sigInBuf' = sigInBuf
    <2>1. UNCHANGED <<got, sigOut, sigState>> /\ sigInBuf' = sigInBuf
      BY DEF history, sigState
    <2>. QED BY <1>1, <2>1, SigLinkStays, Zenon
  <1>3. /\ D \in Seq(Smooth) /\ sigInBuf \in Seq(Smooth) /\ cepOut \in Seq(Smooth) /\ cepOutBuf \in Seq(Smooth)
        /\ sigInBuf' = sigInBuf
    <2>1. Sound \subseteq Smooth
      BY SoundsOK, Zenon
    <2>2. D \in Seq(Smooth)
      BY <2>1
    <2>. QED BY <1>2, <2>2, Zenon DEF TypeInv, CepOK, SigOK
  <1>4. PICK P \in Seq(Smooth) : P = D \o sigInBuf
    BY <1>3, JoinOK, Zenon
  <1>5. CASE PutsNone(E)
    <2>1. cepOut' \in Seq(Smooth) /\ cepOutBuf' \in Seq(Smooth)
      BY CepPassOK, Zenon DEF TypeInv, CepOK
    <2>2. \A a, b \in Seq(Smooth) : (P \o a) \o b = P \o (a \o b)
      BY <1>4, JoinsSmooth, Zenon
    <2>3. (P \o cepOut') \o cepOutBuf' = (P \o cepOut) \o cepOutBuf
      <3>1. cepOut' \o cepOutBuf' = cepOut \o cepOutBuf
        BY <1>5, Zenon DEF PutsNone
      <3>2. (P \o cepOut') \o cepOutBuf' = P \o (cepOut' \o cepOutBuf')
        BY <2>1, <2>2, Zenon
      <3>3. (P \o cepOut) \o cepOutBuf = P \o (cepOut \o cepOutBuf)
        BY <1>3, <2>2, Zenon
      <3>. QED BY <3>1, <3>2, <3>3, Zenon
    <2>4. OnTheWay(D, E)'
      BY <1>1, <1>2, <1>4, <2>3, Zenon DEF OnTheWay
    <2>. QED BY <1>1, <1>2, <1>5, <2>4, Zenon DEF Speech, SpeechOf, PutsNone
  <1>6. CASE Puts(E)
    <2>1. PICK x \in Sound : cepOutBuf' = <<x>> /\ CepMade(Append(E, x))'
      BY <1>6, Zenon DEF Puts
    <2>2. PICK E2 \in Seq(Sound) : E2 = Append(E, x)
      BY AppendOK, Zenon
    <2>3. E2 = (P \o cepOut') \o cepOutBuf'
      <3>1. E = P \o cepOut /\ cepOut' = cepOut
        <4>1. P \o cepOut \in Seq(Smooth)
          BY <1>3, <1>4, JoinOK, Zenon
        <4>2. (P \o cepOut) \o <<>> = P \o cepOut
          BY <4>1, JoinNone, Zenon
        <4>. QED BY <1>1, <1>4, <1>6, <4>2, Zenon DEF OnTheWay, Puts
      <3>2. E \o <<x>> = Append(E, x)
        OBVIOUS
      <3>. QED BY <2>1, <2>2, <3>1, <3>2, Zenon
    <2>4. OnTheWay(D, E2)'
      BY <1>2, <1>4, <2>3, Zenon DEF OnTheWay
    <2>5. CepMade(E2)'
      BY <2>1, <2>2, Zenon
    <2>. QED BY <1>2, <2>4, <2>5, Zenon DEF Speech, SpeechOf
  <1>. QED BY <1>1, <1>5, <1>6, CepKeepsLink, Zenon


\* What the types say of signal generation.
LEMMA SigFacts ==
    ASSUME TypeInv
    PROVE  /\ sigInBuf \in Seq(Smooth) /\ cepOut \in Seq(Smooth) /\ cepOutBuf \in Seq(Smooth)
           /\ got \in Seq(Outs) /\ sigOut \in Seq(Outs) /\ sigOutBuf \in Seq(Outs)
           /\ (sigProcState \in {"SCHEDULE", "PROCESS"} => sigInBuf = <<sigInBuf[1]>> /\ sigInBuf[1] \in Smooth)
           /\ (sigProcState \notin {"SCHEDULE", "PROCESS"} => sigInBuf = <<>>)
           /\ (sigProcState # "FEED" => sigOutBuf = <<>>)
           /\ (sigProcState = "FEED" => sigOutBuf # <<>>)
           /\ (sigProcState = "PROCESS" => sigInBuf[1].type = "FRAME_PAR")
           /\ (sigProcState # "PROCESS" => innerProcState = 0)
           /\ nAvailable \in 0 .. 3
  <1>1. /\ sigInBuf \in Seq(Smooth) /\ cepOut \in Seq(Smooth) /\ cepOutBuf \in Seq(Smooth)
        /\ got \in Seq(Outs) /\ sigOut \in Seq(Outs) /\ sigOutBuf \in Seq(Outs)
        /\ Len(sigInBuf) = (IF sigProcState \in {"SCHEDULE", "PROCESS"} THEN 1 ELSE 0)
        /\ (IF sigProcState = "FEED" THEN Len(sigOutBuf) \in 1 .. 2 ELSE sigOutBuf = <<>>)
        /\ (sigProcState = "PROCESS" => sigInBuf[1].type = "FRAME_PAR")
        /\ (innerProcState # 0 => sigProcState = "PROCESS")
        /\ nAvailable \in 0 .. 3
    BY Zenon DEF TypeInv, CepOK, SigOK, SIG!TypeOK, TextOK
  <1>2. ASSUME sigProcState \in {"SCHEDULE", "PROCESS"} PROVE sigInBuf = <<sigInBuf[1]>> /\ sigInBuf[1] \in Smooth
    <2>1. Len(sigInBuf) = 1
      BY <1>1, <1>2, Zenon
    <2>. QED BY <1>1, <2>1, OneElement
  <1>3. ASSUME sigProcState \notin {"SCHEDULE", "PROCESS"} PROVE sigInBuf = <<>>
    <2>1. Len(sigInBuf) = 0
      BY <1>1, <1>3, Zenon
    <2>. QED BY <1>1, <2>1
  <1>4. ASSUME sigProcState = "FEED" PROVE sigOutBuf # <<>>
    <2>1. Len(sigOutBuf) \in 1 .. 2
      BY <1>1, <1>4, Zenon
    <2>2. Len(sigOutBuf) # 0
      BY <2>1
    <2>. QED BY <2>2, EmptyOK, Zenon
  <1>. QED BY <1>1, <1>2, <1>3, <1>4, Zenon

\* The item at hand comes from what smoothing makes.
LEMMA SoundAtHand ==
    ASSUME TypeInv, NEW D \in Seq(Sound), NEW E \in Seq(Sound), OnTheWay(D, E),
           sigProcState \in {"SCHEDULE", "PROCESS"}
    PROVE  sigInBuf[1] \in Sound /\ sigInBuf = <<sigInBuf[1]>>
  <1>1. D \in Seq(Smooth)
    <2>1. Sound \subseteq Smooth
      BY SoundsOK, Zenon
    <2>. QED BY <2>1
  <1>2. PICK P \in Seq(Smooth), Q \in Seq(Smooth) : P = D \o sigInBuf /\ Q = P \o cepOut
    BY <1>1, SigFacts, JoinOK, Zenon
  <1>3. Q \o cepOutBuf \in Seq(Sound)
    BY <1>2, Zenon DEF OnTheWay
  <1>4. Q \in Seq(Sound)
    BY <1>3, SigFacts, PartsOK
  <1>5. P \in Seq(Sound)
    BY <1>2, <1>4, SigFacts, PartsOK
  <1>6. sigInBuf \in Seq(Sound)
    BY <1>1, <1>2, <1>5, SigFacts, PartsOK
  <1>7. sigInBuf = <<sigInBuf[1]>> /\ Len(sigInBuf) = 1
    BY SigFacts DEF TypeInv, SigOK, SIG!TypeOK
  <1>. QED BY <1>6, <1>7, OneElement

\* What smoothing made stays.
LEMMA CepMadeStays ==
    ASSUME NEW E, CepMade(E), UNCHANGED <<pamOut, cepState, text, sent>> PROVE CepMade(E)'
  <1>1. PICK A \in Seq(Items), R \in Seq(Sound) : CepLink(A, E, R)
    BY Zenon DEF CepMade
  <1>2. ReadSoFar(A)'
    BY <1>1 DEF CepLink, ReadSoFar, cepState
  <1>3. CepLink(A, E, R)'
    BY <1>1, <1>2, LinkSame, Zenon
  <1>. QED BY <1>3, Zenon DEF CepMade

\* No item leaves the way or comes upon it.
SigStays == UNCHANGED <<pamOut, cepOut, cepState, text, sent, sigInBuf>>

\* Only signal generation's buffers have changed.
LEMMA SpeechStays ==
    ASSUME NEW D \in Seq(Sound), NEW E \in Seq(Sound), SpeechOf(D, E), SigStays, SigLink(D)'
    PROVE  Speech'
  <1>1. OnTheWay(D, E) /\ CepMade(E)
    BY Zenon DEF SpeechOf
  <1>2. OnTheWay(D, E)'
    BY <1>1 DEF OnTheWay, SigStays, cepState
  <1>3. CepMade(E)'
    BY <1>1, CepMadeStays DEF SigStays
  <1>. QED BY <1>2, <1>3, Zenon DEF Speech, SpeechOf

\* The item at hand is made signal of.
LEMMA SpeechGrows ==
    ASSUME NEW D \in Seq(Sound), NEW E \in Seq(Sound), SpeechOf(D, E),
           NEW x \in Sound, sigInBuf = <<x>>, sigInBuf' = <<>>,
           UNCHANGED <<pamOut, cepOut, cepState, text, sent>>, SigLink(Append(D, x))'
    PROVE  Speech'
  <1>1. OnTheWay(D, E) /\ CepMade(E)
    BY Zenon DEF SpeechOf
  <1>2. PICK D2 \in Seq(Sound) : D2 = Append(D, x) /\ D \o <<x>> = D2 /\ D2 \o <<>> = D2
    <2>1. Append(D, x) \in Seq(Sound) /\ D \o <<x>> = Append(D, x) /\ Append(D, x) \o <<>> = Append(D, x)
      OBVIOUS
    <2>. QED BY <2>1
  <1>3. OnTheWay(D2, E)'
    <2>1. cepOut' = cepOut /\ cepOutBuf' = cepOutBuf
      BY DEF cepState
    <2>2. E = D2 \o sigInBuf' \o cepOut' \o cepOutBuf'
      BY <1>1, <1>2, <2>1, Zenon DEF OnTheWay
    <2>. QED BY <2>2, Zenon DEF OnTheWay
  <1>4. CepMade(E)'
    BY <1>1, CepMadeStays
  <1>5. SigLink(D2)'
    BY <1>2, Zenon
  <1>. QED BY <1>3, <1>4, <1>5, Zenon DEF Speech, SpeechOf


-----------------------------------------------------------------------------
(* Signal generation's steps keep it.                                       *)

\* The buffers of frames stay, in the same case.
LEMMA BuffersStay ==
    ASSUME TypeInv, NEW F, BuffersHold(F), innerProcState = 0, innerProcState' = 0,
           UNCHANGED <<nAvailable, cepBuff>>, nAvailable = 0 \/ F # <<>>
    PROVE  BuffersHold(F)'
  BY DEF BuffersHold, Newest

\* Nothing is at hand, or what is at hand is not processed yet.
LEMMA NoneLoaded ==
    ASSUME TypeInv, NEW F, BuffersHold(F), sigProcState # "PROCESS"
    PROVE  innerProcState = 0 /\ (nAvailable = 0 \/ F # <<>>)
  <1>1. innerProcState = 0 /\ nAvailable \in 0 .. 3
    BY SigFacts
  <1>2. F = <<>> => ~ (nAvailable > 0)
    BY <1>1 DEF BuffersHold
  <1>. QED BY <1>1, <1>2

\* An item is collected.
LEMMA SpeechCollect ==
    ASSUME TypeInv, Speech, SIG!Collect, UNCHANGED <<pamOut, cepState, history>> PROVE Speech'
  <1>1. PICK D \in Seq(Sound), E \in Seq(Sound) : OnTheWay(D, E) /\ CepMade(E) /\ SigLink(D)
    BY Zenon DEF Speech, SpeechOf
  <1>2. /\ sigProcState = "COLLECT" /\ sigInBuf = <<>> /\ cepOutBuf' = cepOutBuf
        /\ UNCHANGED <<got, sigOut, sigOutBuf, innerProcState, nAvailable, cepBuff, imp, text, sent>>
    BY SigFacts DEF SIG!Collect, SIG!At, SIG!buffers, SIG!points, history, cepState
  <1>3. SigLink(D)'
    <2>1. PICK F, o : F = SignalAll(D).frames /\ o = SignalAll(D).out
      OBVIOUS
    <2>2. Heard(o)' /\ BuffersHold(F)
      BY <1>1, <1>2, <2>1, Zenon DEF SigLink, Heard
    <2>3. innerProcState = 0 /\ (nAvailable = 0 \/ F # <<>>)
      BY <1>2, <2>2, NoneLoaded
    <2>4. BuffersHold(F)'
      BY <1>2, <2>2, <2>3, BuffersStay
    <2>. QED BY <2>1, <2>2, <2>4, Zenon DEF SigLink
  <1>4. CepMade(E)'
    BY <1>1, <1>2, CepMadeStays
  <1>5. OnTheWay(D, E)'
    <2>1. CASE cepOut # <<>> /\ sigInBuf' = <<Head(cepOut)>> /\ cepOut' = Tail(cepOut)
      <3>1. D \in Seq(Smooth)
        <4>1. Sound \subseteq Smooth
          BY SoundsOK, Zenon
        <4>. QED BY <4>1
      <3>2. PICK c \in Seq(Smooth) : c = cepOut
        BY SigFacts
      <3>3. (D \o <<>>) \o c = (D \o <<Head(c)>>) \o Tail(c)
        <4>1. <<Head(c)>> \o Tail(c) = c /\ <<Head(c)>> \in Seq(Smooth) /\ Tail(c) \in Seq(Smooth)
          BY <2>1, <3>2, HeadAndTail
        <4>2. (D \o <<Head(c)>>) \o Tail(c) = D \o (<<Head(c)>> \o Tail(c))
          BY <3>1, <4>1, JoinAssoc
        <4>3. D \o <<>> = D
          BY <3>1, JoinNone
        <4>. QED BY <4>1, <4>2, <4>3
      <3>. QED BY <1>1, <1>2, <2>1, <3>2, <3>3, Zenon DEF OnTheWay
    <2>2. CASE UNCHANGED <<cepOut, sigInBuf>>
      BY <1>1, <1>2, <2>2, Zenon DEF OnTheWay
    <2>. QED BY <2>1, <2>2 DEF SIG!Collect
  <1>. QED BY <1>3, <1>4, <1>5, Zenon DEF Speech, SpeechOf

\* Commands.
Commands == SIG!SchedulePlay \/ SIG!ScheduleSave \/ SIG!ScheduleUnsave \/ SIG!ScheduleModifier

\* Commands are consumed, other items are passed on.
LEMMA SpeechSchedule ==
    ASSUME TypeInv, Speech, Commands \/ SIG!ScheduleOther, UNCHANGED <<pamOut, cepState, history>> PROVE Speech'
  <1>1. PICK D \in Seq(Sound), E \in Seq(Sound) : SpeechOf(D, E)
    BY Zenon DEF Speech
  <1>2. /\ sigProcState = "SCHEDULE" /\ sigInBuf' = <<>> /\ sigOutBuf = <<>>
        /\ UNCHANGED <<got, cepOut, sigOut, innerProcState, nAvailable, cepBuff, imp, text, sent>>
    BY SigFacts DEF Commands, SIG!SchedulePlay, SIG!ScheduleSave, SIG!ScheduleUnsave, SIG!ScheduleModifier,
       SIG!ScheduleOther, SIG!Scheduling, SIG!At, SIG!buffers, SIG!points, history
  <1>3. PICK x \in Sound : x = sigInBuf[1] /\ sigInBuf = <<x>>
    BY <1>1, <1>2, SoundAtHand DEF SpeechOf
  <1>4. PICK s, F, o : s = SignalAll(D) /\ F = s.frames /\ o = s.out
    OBVIOUS
  <1>5. s \in Signals /\ SignalAll(Append(D, x)) = SignalOne(s, x)
    BY <1>4, SignalOK, Zenon
  <1>6. Heard(o) /\ BuffersHold(F)
    BY <1>1, <1>4, Zenon DEF SpeechOf, SigLink
  <1>7. BuffersHold(F)'
    <2>1. innerProcState = 0 /\ (nAvailable = 0 \/ F # <<>>)
      BY <1>2, <1>6, NoneLoaded
    <2>. QED BY <1>2, <1>6, <2>1, BuffersStay
  <1>8. SigLink(Append(D, x))'
    <2>1. CASE Commands
      <3>1. x.type \in {"PLAY", "SAVE", "UNSAVE", "MODIFIER"} /\ sigOutBuf' = sigOutBuf
        BY <1>3, <2>1 DEF Commands, SIG!SchedulePlay, SIG!ScheduleSave, SIG!ScheduleUnsave, SIG!ScheduleModifier,
           SIG!Scheduling, SIG!files
      <3>2. SignalOne(s, x) = s
        BY <3>1 DEF SignalOne
      <3>3. PICK D2 : D2 = Append(D, x)
        OBVIOUS
      <3>4. SignalAll(D2).frames = F /\ SignalAll(D2).out = o
        BY <1>4, <1>5, <3>2, <3>3, Zenon
      <3>5. Heard(o)'
        BY <1>2, <1>6, <3>1, Zenon DEF Heard
      <3>6. SigLink(D2)'
        BY <1>7, <3>4, <3>5, Zenon DEF SigLink
      <3>. QED BY <3>3, <3>6, Zenon
    <2>2. CASE SIG!ScheduleOther
      <3>1. x.type \notin {"FRAME_PAR", "PLAY", "SAVE", "UNSAVE", "MODIFIER"} /\ sigOutBuf' = <<x>>
        BY <1>3, <2>2 DEF SIG!ScheduleOther
      <3>2. SignalOne(s, x) = [s EXCEPT !.out = Append(s.out, x)]
        BY <3>1 DEF SignalOne
      <3>3. PICK D2, o2 : D2 = Append(D, x) /\ o2 = Append(o, x)
        OBVIOUS
      <3>4. SignalAll(D2).frames = F /\ SignalAll(D2).out = o2
        BY <1>4, <1>5, <3>2, <3>3 DEF Signals
      <3>5. x \in Outs /\ Spoken(x)
        BY <3>1, SoundsOK, Zenon
      <3>6. PICK q \in Seq(Outs) : q = got \o sigOut
        BY SigFacts, JoinOK, Zenon
      <3>7. q \o <<>> = q /\ q \o <<x>> = Append(q, x)
        BY <3>5
      <3>8. SpokenIn(q) = o
        BY <1>2, <1>6, <3>6, <3>7, Zenon DEF Heard
      <3>9. SpokenIn(Append(q, x)) = o2
        BY <3>3, <3>5, <3>8, SpokenInOK, Zenon DEF WithSpoken
      <3>10. Heard(o2)'
        BY <1>2, <3>1, <3>6, <3>7, <3>9, Zenon DEF Heard
      <3>11. SigLink(D2)'
        BY <1>7, <3>4, <3>10, Zenon DEF SigLink
      <3>. QED BY <3>3, <3>11, Zenon
    <2>. QED BY <2>1, <2>2
  <1>9. UNCHANGED <<pamOut, cepOut, cepState, text, sent>>
    BY <1>2
  <1>. QED BY <1>1, <1>2, <1>3, <1>8, <1>9, SpeechGrows


\* The newest of one more frame.
LEMMA NewestOK ==
    ASSUME NEW F \in Seq(TextFrames), NEW c \in TextFrames
    PROVE  /\ F = <<>> => \A k \in 1 .. 3 : Newest(Append(F, c), k) = c
           /\ F # <<>> => /\ Newest(Append(F, c), 1) = Newest(F, 2)
                          /\ Newest(Append(F, c), 2) = Newest(F, 3)
           /\ Newest(Append(F, c), 3) = c
           /\ Append(F, c) \in Seq(TextFrames) /\ Append(F, c) # <<>>
           /\ Newest(Append(F, c), 1) = Late(Append(F, c))
  <1>. DEFINE n == Len(F)
  <1>1. PICK G \in Seq(TextFrames) : G = Append(F, c)
    BY AppendOK, Zenon
  <1>2. /\ n \in Nat /\ Len(G) = n + 1 /\ G # <<>> /\ G[n + 1] = c
        /\ \A i \in 1 .. n : G[i] = F[i]
    BY <1>1
  <1>3. F # <<>> => n > 0
    OBVIOUS
  <1>4. F = <<>> => n = 0
    OBVIOUS
  <1>. HIDE DEF n
  <1>5. Newest(G, 3) = c
    BY <1>2 DEF Newest
  <1>6. ASSUME F # <<>> PROVE Newest(G, 1) = Newest(F, 2) /\ Newest(G, 2) = Newest(F, 3)
    <2>1. n > 0 /\ Len(F) = n
      BY <1>3, <1>6 DEF n
    <2>2. /\ n + 1 + 1 > 3 => n + 1 + 1 - 3 \in 1 .. n /\ n + 1 + 1 - 3 = n + 2 - 3
          /\ n + 1 + 2 > 3 => n + 1 + 2 - 3 \in 1 .. n /\ n + 1 + 2 - 3 = n + 3 - 3
          /\ 1 \in 1 .. n
      BY <1>2, <2>1
    <2>3. Newest(G, 1) = Newest(F, 2)
      BY <1>2, <2>1, <2>2 DEF Newest
    <2>4. Newest(G, 2) = Newest(F, 3)
      BY <1>2, <2>1, <2>2 DEF Newest
    <2>. QED BY <2>3, <2>4
  <1>7. ASSUME F = <<>>, NEW k \in 1 .. 3 PROVE Newest(G, k) = c
    BY <1>2, <1>4, <1>7 DEF Newest
  <1>8. Newest(G, 1) = Late(G)
    BY <1>2 DEF Newest, Late
  <1>. QED BY <1>1, <1>2, <1>5, <1>6, <1>7, <1>8

\* Steps that pass no item on.
Inwards == UNCHANGED <<pamOut, cepOut, cepState, text, sent, sigInBuf, got, sigOut, sigOutBuf>>

\* The buffers hold the same frames.
LEMMA SpeechInwards ==
    ASSUME TypeInv, Speech, Inwards,
           ASSUME NEW F \in Seq(TextFrames), BuffersHold(F),
                  sigProcState = "PROCESS" => sigInBuf[1].cep \in TextFrames
           PROVE  BuffersHold(F)'
    PROVE  Speech'
  <1>1. PICK D \in Seq(Sound), E \in Seq(Sound) : SpeechOf(D, E)
    BY Zenon DEF Speech
  <1>2. PICK F, o : F = SignalAll(D).frames /\ o = SignalAll(D).out
    OBVIOUS
  <1>3. F \in Seq(TextFrames)
    BY <1>2, SignalOK DEF Signals
  <1>4. Heard(o) /\ BuffersHold(F)
    BY <1>1, <1>2, Zenon DEF SpeechOf, SigLink
  <1>5. sigProcState = "PROCESS" => sigInBuf[1].cep \in TextFrames
    BY <1>1, SigFacts, SoundAtHand, SoundsOK DEF SpeechOf
  <1>6. BuffersHold(F)'
    BY <1>3, <1>4, <1>5, Zenon
  <1>7. Heard(o)'
    BY <1>4 DEF Heard, Inwards
  <1>8. SigLink(D)'
    BY <1>2, <1>6, <1>7, Zenon DEF SigLink
  <1>9. SigStays
    BY DEF SigStays, Inwards
  <1>. QED BY <1>1, <1>8, <1>9, SpeechStays

\* The unit is called.
LEMMA SpeechCall ==
    ASSUME TypeInv, Speech, SIG!Call \/ SIG!ScheduleFrame, UNCHANGED <<pamOut, cepState, history>> PROVE Speech'
  <1>1. /\ Inwards /\ UNCHANGED <<innerProcState, nAvailable, cepBuff, imp>>
        /\ sigProcState = "PROCESS" => sigProcState' = "PROCESS"
    BY DEF SIG!Call, SIG!ScheduleFrame, SIG!Scheduling, SIG!GoOn, SIG!buffers, SIG!points, SIG!files, history, Inwards
  <1>2. ASSUME NEW F \in Seq(TextFrames), BuffersHold(F) PROVE BuffersHold(F)'
    BY <1>1, <1>2 DEF BuffersHold, Inwards
  <1>. QED BY <1>1, <1>2, SpeechInwards

\* A frame is loaded.
LEMMA SpeechLoad ==
    ASSUME TypeInv, Speech, SIG!Load, UNCHANGED <<pamOut, cepState, history>> PROVE Speech'
  <1>1. /\ Inwards /\ sigProcState = "PROCESS" /\ sigProcState' = "PROCESS"
        /\ innerProcState = 0 /\ innerProcState' \in {0, 3} /\ UNCHANGED <<imp>>
        /\ cepBuff' = Append(Tail(cepBuff), sigInBuf[1].cep)
        /\ nAvailable' = (IF nAvailable < 3 THEN nAvailable + 1 ELSE nAvailable)
        /\ innerProcState' = (IF nAvailable' < 3 THEN 0 ELSE 3)
    BY DEF SIG!Load, SIG!Processing, SIG!Inner, SIG!At, SIG!points, SIG!CEPST_BUFF_SIZE, history, Inwards
  <1>2. ASSUME NEW F \in Seq(TextFrames), BuffersHold(F), sigInBuf[1].cep \in TextFrames
        PROVE  BuffersHold(F)'
    <2>1. PICK c \in TextFrames : c = sigInBuf[1].cep /\ sigInBuf' = sigInBuf
      BY <1>1, <1>2 DEF Inwards
    <2>2. cepBuff'[1] = cepBuff[2] /\ cepBuff'[2] = cepBuff[3] /\ cepBuff'[3] = c
      <3>1. cepBuff \in Seq(Frames) /\ Len(cepBuff) = 3
        BY BuffersOK DEF TypeInv, SigPart, CepOK, CEP!TypeOK
      <3>2. c \in Frames
        BY SoundsOK
      <3>3. PICK s \in Seq(Frames) : s = cepBuff /\ Len(s) = 3 /\ cepBuff' = Append(Tail(s), c)
        BY <1>1, <2>1, <3>1
      <3>4. PICK n \in Nat \ {0} : n = 3
        OBVIOUS
      <3>5. /\ \A i \in 1 .. n - 1 : Append(Tail(s), c)[i] = s[i + 1]
            /\ Append(Tail(s), c)[n] = c
        <4>1. n \in Nat \ {0} /\ Len(s) = n /\ c \in Frames
          BY <3>2, <3>3, <3>4, Zenon
        <4>. QED BY <4>1, Shifted
      <3>6. 1 \in 1 .. n - 1 /\ 2 \in 1 .. n - 1
        BY <3>4
      <3>7. Append(Tail(s), c)[1] = s[1 + 1] /\ Append(Tail(s), c)[2] = s[2 + 1]
        BY <3>5, <3>6, Zenon
      <3>8. 1 + 1 = 2 /\ 2 + 1 = 3
        OBVIOUS
      <3>. QED BY <3>3, <3>4, <3>5, <3>7, <3>8, Zenon
    <2>3. nAvailable \in 0 .. 3
      BY SigFacts
    <2>4. PICK G : G = Append(F, c)
      OBVIOUS
    <2>5. /\ F = <<>> => \A k \in 1 .. 3 : Newest(G, k) = c
          /\ F # <<>> => Newest(G, 1) = Newest(F, 2) /\ Newest(G, 2) = Newest(F, 3)
          /\ Newest(G, 3) = c
      BY <2>4, NewestOK
    <2>6. CASE F = <<>>
      <3>1. nAvailable < 3 /\ nAvailable' = nAvailable + 1
            /\ (nAvailable > 0 => \A k \in 4 - nAvailable .. 3 : cepBuff[k] = c)
        BY <1>1, <1>2, <2>1, <2>6 DEF BuffersHold
      <3>2. \A k \in 4 - nAvailable' .. 3 : cepBuff'[k] = c
        <4>1. ASSUME NEW k \in 4 - nAvailable' .. 3, k # 3 PROVE cepBuff'[k] = c
          <5>1. k \in {1, 2} /\ k + 1 \in 4 - nAvailable .. 3 /\ nAvailable > 0
            BY <2>3, <3>1, <4>1
          <5>2. cepBuff[k + 1] = c
            BY <3>1, <5>1
          <5>3. cepBuff'[k] = cepBuff[k + 1]
            BY <2>2, <5>1
          <5>. QED BY <5>2, <5>3
        <4>. QED BY <2>2, <4>1
      <3>3. CASE nAvailable' < 3
        <4>1. innerProcState' = 0 /\ sigProcState' = "PROCESS" /\ sigInBuf'[1].cep = c /\ ~ (innerProcState' >= 7)
          BY <1>1, <2>1, <3>3
        <4>. QED BY <2>6, <3>2, <3>3, <4>1 DEF BuffersHold
      <3>4. CASE ~ (nAvailable' < 3)
        <4>1. nAvailable' = 3 /\ innerProcState' = 3
          BY <1>1, <2>3, <3>1, <3>4
        <4>2. \A k \in 1 .. 3 : cepBuff'[k] = Newest(G, k)
          BY <2>5, <2>6, <3>2, <4>1
        <4>. QED BY <2>1, <2>4, <4>1, <4>2 DEF BuffersHold
      <3>. QED BY <3>3, <3>4
    <2>7. CASE F # <<>>
      <3>1. nAvailable = 3 /\ \A k \in 1 .. 3 : cepBuff[k] = Newest(F, k)
        BY <1>1, <1>2, <2>7 DEF BuffersHold
      <3>2. nAvailable' = 3 /\ innerProcState' = 3
        BY <1>1, <3>1
      <3>3. \A k \in 1 .. 3 : cepBuff'[k] = Newest(G, k)
        <4>1. cepBuff[2] = Newest(F, 2) /\ cepBuff[3] = Newest(F, 3)
          BY <3>1
        <4>2. cepBuff'[1] = Newest(G, 1) /\ cepBuff'[2] = Newest(G, 2) /\ cepBuff'[3] = Newest(G, 3)
          BY <2>2, <2>5, <2>7, <4>1
        <4>. QED BY <4>2
      <3>. QED BY <2>1, <2>4, <3>2, <3>3 DEF BuffersHold
    <2>. QED BY <2>6, <2>7
  <1>. QED BY <1>1, <1>2, SpeechInwards

\* The steps between.
InnerSteps == SIG!Transition \/ SIG!Spectrum \/ SIG!ImpulseResponse \/ SIG!Excitation \/ SIG!OverlapAdd

\* None of them passes an item on.
LEMMA SpeechInner ==
    ASSUME TypeInv, Speech, InnerSteps, UNCHANGED <<pamOut, cepState, history>> PROVE Speech'
  <1>1. /\ Inwards
        /\ innerProcState # 0 /\ innerProcState' # 0 /\ UNCHANGED <<nAvailable, cepBuff>>
        /\ innerProcState' >= 7 => \/ imp' = cepBuff[1]
                                   \/ imp' = imp /\ innerProcState >= 7
    BY DEF InnerSteps, SIG!Transition, SIG!Spectrum, SIG!ImpulseResponse, SIG!Excitation, SIG!OverlapAdd,
           SIG!Processing, SIG!Inner, SIG!buffers, SIG!points, history, Inwards
  <1>2. ASSUME NEW F \in Seq(TextFrames), BuffersHold(F) PROVE BuffersHold(F)'
    <2>1. PICK G : G = Append(F, sigInBuf[1].cep)
      OBVIOUS
    <2>2. sigInBuf' = sigInBuf
      BY <1>1 DEF Inwards
    <2>3. nAvailable = 3 /\ \A k \in 1 .. 3 : cepBuff[k] = Newest(G, k)
      BY <1>1, <1>2, <2>1 DEF BuffersHold
    <2>4. innerProcState' >= 7 => imp' = cepBuff'[1]
      BY <1>1, <1>2 DEF BuffersHold
    <2>. QED BY <1>1, <2>1, <2>2, <2>3, <2>4 DEF BuffersHold
  <1>. QED BY <1>1, <1>2, SpeechInwards


\* Two items more.
LEMMA JoinTwo ==
    ASSUME NEW S, NEW s \in Seq(S), NEW a \in S, NEW b \in S
    PROVE  s \o <<a, b>> = Append(Append(s, a), b) /\ Append(s, a) \in Seq(S)
  <1>1. s \o <<a, b>> = Append(Append(s, a), b)
    OBVIOUS
  <1>2. Append(s, a) \in Seq(S)
    OBVIOUS
  <1>. QED BY <1>1, <1>2

\* A frame's two items.
LEMMA SpeechPutFrame ==
    ASSUME TypeInv, Speech, SIG!PutFrame, UNCHANGED <<pamOut, cepState, history>> PROVE Speech'
  <1>1. PICK D \in Seq(Sound), E \in Seq(Sound) : SpeechOf(D, E)
    BY Zenon DEF Speech
  <1>2. /\ sigProcState = "PROCESS" /\ innerProcState = 9 /\ innerProcState' = 0
        /\ sigInBuf' = <<>> /\ sigOutBuf = <<>> /\ sigOutBuf' = sigOutBuf \o SIG!Samples(imp)
        /\ UNCHANGED <<pamOut, cepOut, cepState, text, sent, got, sigOut, nAvailable, cepBuff, imp>>
    BY SigFacts DEF SIG!PutFrame, SIG!Processing, SIG!At, SIG!buffers, SIG!points, history
  <1>3. PICK x \in Sound : x = sigInBuf[1] /\ sigInBuf = <<x>>
    BY <1>1, <1>2, SoundAtHand DEF SpeechOf
  <1>4. x.type = "FRAME_PAR" /\ x.cep \in TextFrames
    <2>1. x.type = "FRAME_PAR"
      BY <1>2, <1>3, SigFacts, Zenon
    <2>. QED BY <2>1, SoundsOK, Zenon
  <1>5. PICK s, F, o : s = SignalAll(D) /\ F = s.frames /\ o = s.out
    OBVIOUS
  <1>6. /\ s \in Signals /\ SignalAll(Append(D, x)) = SignalOne(s, x)
        /\ F \in Seq(TextFrames) /\ o \in Seq(Outs)
    <2>1. s \in Signals /\ SignalAll(Append(D, x)) = SignalOne(s, x)
      BY <1>5, SignalOK, Zenon
    <2>. QED BY <1>5, <2>1 DEF Signals
  <1>7. Heard(o) /\ BuffersHold(F)
    BY <1>1, <1>5, Zenon DEF SpeechOf, SigLink
  <1>8. PICK G : G = Append(F, x.cep)
    OBVIOUS
  <1>9. G \in Seq(TextFrames) /\ G # <<>> /\ Newest(G, 1) = Late(G)
    BY <1>4, <1>6, <1>8, NewestOK, Zenon
  <1>10. nAvailable = 3 /\ (\A k \in 1 .. 3 : cepBuff[k] = Newest(G, k)) /\ imp = cepBuff[1]
    BY <1>2, <1>3, <1>7, <1>8 DEF BuffersHold
  <1>11. BuffersHold(G)'
    BY <1>2, <1>9, <1>10 DEF BuffersHold
  <1>12. imp = Late(G) /\ imp \in TextFrames
    BY <1>9, <1>10, LateOK
  <1>13. PICK D2, o2 : D2 = Append(D, x) /\ o2 = o \o SIG!Samples(Late(G))
    OBVIOUS
  <1>14. SignalAll(D2).out = o2 /\ SignalAll(D2).frames = G
    <2>1. SignalOne(s, x) = [out |-> s.out \o SIG!Samples(Late(Append(s.frames, x.cep))), frames |-> Append(s.frames, x.cep)]
      BY <1>4, Zenon DEF SignalOne
    <2>2. SignalAll(D2) = [out |-> o2, frames |-> G]
      BY <1>5, <1>6, <1>8, <1>13, <2>1, Zenon
    <2>. QED BY <2>2
  <1>15. Heard(o2)'
    <2>1. PICK q \in Seq(Outs) : q = got \o sigOut
      BY SigFacts, JoinOK, Zenon
    <2>2. PICK a, b : a = SIG!Samples(imp)[1] /\ b = SIG!Samples(imp)[2]
      OBVIOUS
    <2>3. a \in Outs /\ b \in Outs /\ Spoken(a) /\ Spoken(b) /\ SIG!Samples(imp) = <<a, b>>
      BY <1>12, <2>2, TwoSamples, Zenon
    <2>4. SpokenIn(q) = o
      <3>1. q \o <<>> = q
        OBVIOUS
      <3>. QED BY <1>2, <1>7, <2>1, <3>1, Zenon DEF Heard
    <2>5. /\ q \o <<a, b>> = Append(Append(q, a), b) /\ Append(q, a) \in Seq(Outs)
          /\ o \o <<a, b>> = Append(Append(o, a), b)
      <3>1. \A r \in Seq(Outs) : r \o <<a, b>> = Append(Append(r, a), b) /\ Append(r, a) \in Seq(Outs)
        BY <2>3, JoinTwo
      <3>. QED BY <1>6, <3>1, Zenon
    <2>6. SpokenIn(Append(Append(q, a), b)) = Append(Append(o, a), b)
      BY <2>3, <2>4, <2>5, SpokenInOK, Zenon DEF WithSpoken
    <2>7. sigOutBuf' = <<a, b>>
      BY <1>2, <2>3
    <2>8. o2 = o \o <<a, b>>
      BY <1>12, <1>13, <2>3, Zenon
    <2>. QED BY <1>2, <2>1, <2>5, <2>6, <2>7, <2>8, Zenon DEF Heard
  <1>16. SigLink(D2)'
    BY <1>11, <1>14, <1>15, Zenon DEF SigLink
  <1>17. SigLink(Append(D, x))'
    BY <1>13, <1>16, Zenon
  <1>18. UNCHANGED <<pamOut, cepOut, cepState, text, sent>>
    BY <1>2
  <1>. QED BY <1>1, <1>2, <1>3, <1>17, <1>18, SpeechGrows

\* Steps that pass items on that are made already.
Onwards == UNCHANGED <<pamOut, cepOut, cepState, text, sent, sigInBuf,
                       innerProcState, nAvailable, cepBuff, imp>>
           /\ (sigProcState = "PROCESS" => sigProcState' = "PROCESS")

\* The same is heard.
LEMMA SpeechOnwards ==
    ASSUME TypeInv, Speech, Onwards, ASSUME NEW o, Heard(o) PROVE Heard(o)'
    PROVE  Speech'
  <1>1. PICK D \in Seq(Sound), E \in Seq(Sound) : SpeechOf(D, E)
    BY Zenon DEF Speech
  <1>2. PICK F, o : F = SignalAll(D).frames /\ o = SignalAll(D).out
    OBVIOUS
  <1>3. Heard(o) /\ BuffersHold(F)
    BY <1>1, <1>2, Zenon DEF SpeechOf, SigLink
  <1>4. BuffersHold(F)'
    BY <1>3 DEF BuffersHold, Onwards
  <1>5. Heard(o)'
    BY <1>3, Zenon
  <1>6. SigLink(D)'
    BY <1>2, <1>4, <1>5, Zenon DEF SigLink
  <1>7. SigStays
    BY DEF SigStays, Onwards
  <1>. QED BY <1>1, <1>6, <1>7, SpeechStays

\* A sound file plays: its silence is not heard.
LEMMA SpeechPlay ==
    ASSUME TypeInv, Speech, SIG!Play, UNCHANGED <<pamOut, cepState, history>> PROVE Speech'
  <1>1. /\ Onwards /\ got' = got /\ sigOut' = sigOut /\ sigOutBuf = <<>>
        /\ \/ sigOutBuf' = Append(sigOutBuf, [type |-> "FRAME", of |-> SIG!None, half |-> playing])
           \/ sigOutBuf' = sigOutBuf
    BY SigFacts DEF SIG!Play, SIG!At, SIG!buffers, SIG!points, history, Onwards
  <1>2. ASSUME NEW o, Heard(o) PROVE Heard(o)'
    <2>1. PICK x : x = [type |-> "FRAME", of |-> SIG!None, half |-> playing]
      OBVIOUS
    <2>2. PICK q \in Seq(Outs) : q = got \o sigOut
      BY SigFacts, JoinOK, Zenon
    <2>3. x \in Outs /\ ~ Spoken(x)
      <3>1. playing \in Int
        BY Numbers DEF TypeInv, SigOK, SIG!TypeOK
      <3>. QED BY <2>1, <3>1 DEF Outs, Frames, CEP!Frames, SIG!None, Spoken, IsFrame
    <2>4. q \o <<>> = q /\ q \o <<x>> = Append(q, x) /\ Append(<<>>, x) = <<x>>
      BY <2>3
    <2>5. SpokenIn(Append(q, x)) = SpokenIn(q)
      BY <2>3, SpokenInOK, Zenon DEF WithSpoken
    <2>. QED BY <1>1, <1>2, <2>1, <2>2, <2>4, <2>5, Zenon DEF Heard
  <1>. QED BY <1>1, <1>2, SpeechOnwards

\* An item is put, or not.
LEMMA SpeechFeed ==
    ASSUME TypeInv, Speech, SIG!FeedItem \/ SIG!FeedFull, UNCHANGED <<pamOut, cepState, history>>
    PROVE  Speech'
  <1>1. /\ Onwards /\ got' = got
        /\ \/ sigOut' = Append(sigOut, sigOutBuf[1]) /\ sigOutBuf' = Tail(sigOutBuf)
           \/ sigOut' = sigOut /\ sigOutBuf' = sigOutBuf
        /\ sigOutBuf # <<>>
    BY SigFacts DEF SIG!FeedItem, SIG!FeedFull, SIG!Feeding, SIG!At, SIG!buffers, SIG!points, history, Onwards
  <1>2. got \o Append(sigOut, sigOutBuf[1]) \o Tail(sigOutBuf) = got \o sigOut \o sigOutBuf
    <2>1. PICK b \in Seq(Outs), y \in Outs, t \in Seq(Outs) : b = sigOutBuf /\ y = sigOutBuf[1] /\ t = Tail(sigOutBuf)
                                                             /\ <<y>> \o t = b
      <3>1. PICK b \in Seq(Outs) : b = sigOutBuf /\ b # <<>>
        BY <1>1, SigFacts
      <3>2. <<Head(b)>> \o Tail(b) = b /\ Tail(b) \in Seq(Outs) /\ Head(b) = b[1] /\ Head(b) \in Outs
        BY <3>1, HeadAndTail
      <3>. QED BY <3>1, <3>2, Zenon
    <2>2. \A g, o \in Seq(Outs) : (g \o Append(o, y)) \o t = (g \o o) \o (<<y>> \o t)
      <3>1. ASSUME NEW g \in Seq(Outs), NEW o \in Seq(Outs)
            PROVE  (g \o Append(o, y)) \o t = (g \o o) \o (<<y>> \o t)
        <4>1. PICK q \in Seq(Outs) : q = g \o o
          BY JoinOK, Zenon
        <4>2. g \o Append(o, y) = Append(g \o o, y)
          OBVIOUS
        <4>3. Append(q, y) = q \o <<y>> /\ <<y>> \in Seq(Outs)
          OBVIOUS
        <4>4. (q \o <<y>>) \o t = q \o (<<y>> \o t)
          BY <4>3, JoinAssoc
        <4>. QED BY <4>1, <4>2, <4>3, <4>4, Zenon
      <3>. QED BY <3>1
    <2>3. got \o Append(sigOut, y) \o t = got \o sigOut \o (<<y>> \o t)
      BY <2>2, SigFacts, Zenon
    <2>. QED BY <2>1, <2>3, Zenon
  <1>3. ASSUME NEW o, Heard(o) PROVE Heard(o)'
    BY <1>1, <1>2, <1>3, Zenon DEF Heard
  <1>. QED BY <1>1, <1>3, SpeechOnwards

\* An item is taken.
LEMMA SpeechTake == ASSUME TypeInv, Speech, Take PROVE Speech'
  <1>1. /\ Onwards /\ got' = Append(got, Head(sigOut)) /\ sigOut' = Tail(sigOut) /\ sigOutBuf' = sigOutBuf
        /\ sigOut # <<>>
    BY DEF Take, sigState, Onwards
  <1>2. Append(got, Head(sigOut)) \o Tail(sigOut) = got \o sigOut
    <2>1. PICK b \in Seq(Outs), g \in Seq(Outs) : b = sigOut /\ g = got /\ b # <<>>
      BY <1>1, SigFacts
    <2>2. PICK y \in Outs, t \in Seq(Outs) : y = Head(b) /\ t = Tail(b) /\ <<y>> \o t = b
      <3>1. <<Head(b)>> \o Tail(b) = b /\ Tail(b) \in Seq(Outs) /\ Head(b) \in Outs
        BY <2>1, HeadAndTail
      <3>. QED BY <3>1, Zenon
    <2>3. Append(g, y) = g \o <<y>> /\ <<y>> \in Seq(Outs)
      OBVIOUS
    <2>4. (g \o <<y>>) \o t = g \o (<<y>> \o t)
      BY <2>3, JoinAssoc
    <2>. QED BY <2>1, <2>2, <2>3, <2>4, Zenon
  <1>3. ASSUME NEW o, Heard(o) PROVE Heard(o)'
    BY <1>1, <1>2, <1>3, Zenon DEF Heard
  <1>. QED BY <1>1, <1>3, SpeechOnwards


\* At the start and after a full reset nothing is on the way.
SpeechIsBlank ==
    /\ pamOut = <<>> /\ cepOut = <<>> /\ sigOut = <<>> /\ got = <<>> /\ sent = 0 /\ text \in Seq(Items)
    /\ cepInBuf = <<>> /\ cepOutBuf = <<>> /\ sigInBuf = <<>> /\ sigOutBuf = <<>>
    /\ cepProcState = "COLLECT" /\ inIgnoreState = FALSE
    /\ headx = <<>> /\ headxBottom = 0 /\ indexReadPos = 0 /\ indexWritePos = 0
    /\ innerProcState = 0 /\ nAvailable = 0

\* All sequences are empty.
LEMMA SpeechBlank == SpeechIsBlank => Speech
  <1>. SUFFICES ASSUME SpeechIsBlank PROVE Speech
    OBVIOUS
  <1>. USE DEF SpeechIsBlank
  <1>1. PICK e : e = <<>>
    OBVIOUS
  <1>2. e \in Seq(Items) /\ e \in Seq(Sound) /\ e \o e = e /\ SubSeq(text, 1, 0) = e
    BY <1>1
  <1>3. SmoothedAll(e) = NoSmoothing /\ SignalAll(e) = NoSignal /\ SpokenIn(e) = e
    BY <1>1, SmoothedOK, SignalOK, SpokenInOK, Zenon
  <1>4. ReadSoFar(e)
    BY <1>1, <1>2, Zenon DEF ReadSoFar
  <1>5. MadeOf(SmoothedAll(e), e, e)
    <2>1. PICK s : s = SmoothedAll(e)
      OBVIOUS
    <2>2. s.out = e /\ s.frames = 0 /\ s.ignore = FALSE
      BY <1>1, <1>3, <2>1 DEF NoSmoothing
    <2>3. Counted(s)
      BY <2>2 DEF Counted
    <2>4. s.out = e \o e /\ s.ignore = inIgnoreState
      BY <1>2, <2>2
    <2>. QED BY <2>1, <2>3, <2>4, Zenon DEF MadeOf
  <1>6. StoreOK
    BY DEF StoreOK, CEP!Producing, PuttingFrames
  <1>7. WaitsNow(e)
    BY <1>1, WaitsNone, Zenon DEF WaitsNow
  <1>8. CepMade(e)
    BY <1>2, <1>4, <1>5, <1>6, <1>7, Zenon DEF CepMade, CepLink
  <1>9. OnTheWay(e, e)
    BY <1>1, <1>2, Zenon DEF OnTheWay
  <1>10. SigLink(e)
    <2>1. Heard(e)
      BY <1>1, <1>2, <1>3, Zenon DEF Heard
    <2>2. BuffersHold(e)
      BY <1>1 DEF BuffersHold
    <2>3. SignalAll(e).out = e /\ SignalAll(e).frames = e
      BY <1>1, <1>3 DEF NoSignal
    <2>. QED BY <2>1, <2>2, <2>3, Zenon DEF SigLink
  <1>. QED BY <1>2, <1>8, <1>9, <1>10, Zenon DEF Speech, SpeechOf

\* The same after a step.
LEMMA SpeechBlankNext == SpeechIsBlank' => Speech'
  BY SpeechBlank, PTL

\* At the start.
LEMMA SpeechInit == Init => SpeechInv
  <1>. SUFFICES ASSUME Init PROVE SpeechInv
    OBVIOUS
  <1>1. text \in Seq(Items)
    BY BackEndAssumption DEF Init
  <1>2. SpeechIsBlank
    BY <1>1 DEF SpeechIsBlank, Init, CEP!Blank, SIG!Blank
  <1>. QED BY <1>2, SpeechBlank DEF SpeechInv

\* The step before the two units, and those of their control.
LEMMA SpeechOutside ==
    ASSUME TypeInv, Speech, Put \/ CepStep \/ UNCHANGED vars PROVE Speech'
  <1>1. PICK D \in Seq(Sound), E \in Seq(Sound) : OnTheWay(D, E) /\ CepMade(E) /\ SigLink(D)
    BY Zenon DEF Speech, SpeechOf
  <1>2. PICK A \in Seq(Items), R \in Seq(Sound) : CepLink(A, E, R)
    BY <1>1, Zenon DEF CepMade
  <1>3. UNCHANGED <<cepOut, cepOutBuf, sigInBuf, got, sigOut, sigState>>
    BY DEF Put, CepStep, CEP!Call, vars, CEP!vars, SIG!vars, SIG!files, SIG!buffers, SIG!points, cepState, sigState, history
  <1>4. SigLink(D)'
    <2>1. UNCHANGED <<got, sigOut, sigState>>
      BY <1>3
    <2>. QED BY <1>1, <2>1, SigLinkStays
  <1>5. OnTheWay(D, E)'
    BY <1>1, <1>3, Zenon DEF OnTheWay
  <1>6. CepMade(E)'
    <2>1. CASE Put
      <3>1. ReadSoFar(A)'
        BY <1>2, <2>1, ReadPut DEF CepLink
      <3>2. UNCHANGED cepState
        BY <2>1 DEF Put
      <3>3. CepLink(A, E, R)'
        BY <1>2, <3>1, <3>2, LinkSame
      <3>. QED BY <3>3, Zenon DEF CepMade
    <2>2. CASE CepStep \/ UNCHANGED vars
      <3>1. /\ UNCHANGED <<pamOut, cepInBuf, text, sent, cepProcState, sentenceEnd, activeEndPos, smooth, feedFollowState>>
            /\ StoreStays
        BY <2>2 DEF CepStep, CEP!Call, CEP!store, CEP!window, vars, CEP!vars, history, StoreStays
      <3>2. ReadSoFar(A)'
        BY <1>2, <3>1 DEF CepLink, ReadSoFar
      <3>3. StoreOK'
        BY <1>2, <3>1 DEF CepLink, StoreOK, CEP!Producing, CEP!Item, CEP!EndsSentence, PuttingFrames, StoreStays
      <3>4. \A s : Counted(s) => Counted(s)'
        BY <3>1 DEF Counted, CEP!Item, CEP!EndsSentence, StoreStays
      <3>5. CepLink(A, E, R)'
        BY <1>2, <3>1, <3>2, <3>3, <3>4, LinkStays
      <3>. QED BY <1>2, <3>5, Zenon DEF CepMade
    <2>. QED BY <2>1, <2>2
  <1>. QED BY <1>4, <1>5, <1>6, Zenon DEF Speech, SpeechOf

\* Every step keeps the invariant.
LEMMA SpeechNext == ASSUME TypeInv, SpeechInv, [Next]_vars PROVE SpeechInv'
  <1>. SUFFICES ASSUME resetMode' = "FULL", ~ forced', sigStatus' # "ERROR" PROVE Speech'
    BY DEF SpeechInv
  <1>1. CASE Put \/ Take \/ CepStep \/ UNCHANGED vars
    <2>1. resetMode' = resetMode /\ forced' = forced /\ sigStatus' = sigStatus
      BY <1>1 DEF Put, Take, CepStep, CEP!Call, vars, CEP!vars, SIG!vars, cepState, sigState, history
    <2>2. Speech
      BY <2>1, Zenon DEF SpeechInv
    <2>. QED BY <1>1, <2>2, SpeechOutside, SpeechTake, Zenon
  <1>2. CASE CepPass
    <2>1. resetMode' = resetMode /\ sigStatus' = sigStatus /\ CEP!Pass /\ UNCHANGED <<sigOut, sigState, history>>
      BY <1>2 DEF CepPass, sigState, history
    <2>2. ~ forced
      BY <2>1 DEF CEP!Pass, CEP!Parse, CEP!Collect, CEP!ParseNone, CEP!ParseIgnored, CEP!ParseSentenceEnd, CEP!ParsePhone,
                  CEP!ParseConsumed, CEP!ParseForward, CEP!ParseStore, CEP!ParseForced, CEP!Smooth, CEP!Framing,
                  CEP!FrameItem, CEP!FramePar, CEP!FramesDone, CEP!Feed
    <2>3. Speech
      BY <2>1, <2>2, Zenon DEF SpeechInv
    <2>. QED BY <2>1, <2>3, SpeechCep
  <1>3. CASE SigStep \/ SigPass
    <2>1. /\ resetMode' = resetMode /\ forced' = forced /\ UNCHANGED <<pamOut, cepState, history>>
          /\ SIG!Call \/ SIG!Pass
      BY <1>3 DEF SigStep, SigPass, cepState, history
    <2>2. sigStatus # "ERROR"
      BY <1>3, SigRuns DEF SigStep, SigPass, Operable
    <2>3. Speech
      BY <2>1, <2>2, Zenon DEF SpeechInv
    <2>4. ~ SIG!FeedFails
      BY DEF SIG!FeedFails
    <2>. QED BY <2>1, <2>3, <2>4, SpeechCall, SpeechCollect, SpeechSchedule, SpeechLoad, SpeechInner, SpeechPutFrame,
                SpeechPlay, SpeechFeed, Zenon DEF SIG!Pass, SIG!Process, Commands, InnerSteps
  <1>4. ASSUME NEW mode \in {"SOFT", "FULL"}, Reset(mode) PROVE Speech'
    <2>1. mode = "FULL" /\ text' \in Seq(Items)
      BY <1>4, BackEndAssumption DEF Reset
    <2>2. SpeechIsBlank'
      BY <1>4, <2>1 DEF Reset, CEP!Initialize, SIG!Initialize, SpeechIsBlank
    <2>. QED BY <2>2, SpeechBlankNext
  <1>. QED BY <1>1, <1>2, <1>3, <1>4, Zenon DEF Next


\* What is heard of more begins with what is heard.
LEMMA SpokenGrows ==
    ASSUME NEW q \in Seq(Outs), NEW r \in Seq(Outs)
    PROVE  \E t \in Seq(Outs) : SpokenIn(q \o r) = SpokenIn(q) \o t
  <1>1. PICK F : F = [a \in Seq(Outs) |-> SpokenIn(a)]
    OBVIOUS
  <1>2. \A a \in Seq(Outs) : F[a] = SpokenIn(a) /\ F[a] \in Seq(Outs)
    BY <1>1, SpokenInOK, Zenon
  <1>3. F \in [Seq(Outs) -> Seq(Outs)]
    BY <1>1, <1>2, Zenon
  <1>4. ASSUME NEW a \in Seq(Outs), NEW x \in Outs
        PROVE  \E t \in Seq(Outs) : F[Append(a, x)] = F[a] \o t
    <2>1. PICK s \in Seq(Outs) : s = SpokenIn(a)
      BY SpokenInOK, Zenon
    <2>2. F[Append(a, x)] = WithSpoken(s, x)
      BY <1>2, <2>1, SpokenInOK, AppendOK, Zenon
    <2>3. Append(s, x) = s \o <<x>> /\ s = s \o <<>> /\ <<x>> \in Seq(Outs) /\ <<>> \in Seq(Outs)
      OBVIOUS
    <2>4. WithSpoken(s, x) = Append(s, x) \/ WithSpoken(s, x) = s
      BY DEF WithSpoken
    <2>. QED BY <1>2, <2>1, <2>2, <2>3, <2>4, Zenon
  <1>5. Extends(F, Outs, Outs)
    BY <1>3, <1>4, Zenon DEF Extends
  <1>6. Grown(F, q, r, Outs)
    BY <1>5, MakesMore, Zenon
  <1>7. q \o r \in Seq(Outs)
    BY JoinOK, Zenon
  <1>. QED BY <1>2, <1>6, <1>7, Zenon DEF Grown

\* The invariant implies what is to be shown.
LEMMA SpeechInvAsSent == ASSUME TypeInv, SpeechInv PROVE SpeechAsSent
  <1>. SUFFICES ASSUME Speech
                PROVE  IsPrefix(SpokenIn(got \o sigOut), Signal(Smoothed(SubSeq(text, 1, sent))))
    BY DEF SpeechInv, SpeechAsSent
  <1>1. PICK D \in Seq(Sound), E \in Seq(Sound) : OnTheWay(D, E) /\ CepMade(E) /\ SigLink(D)
    BY Zenon DEF Speech, SpeechOf
  <1>2. PICK A \in Seq(Items), R \in Seq(Sound) : ReadSoFar(A) /\ MadeOf(SmoothedAll(A), E, R)
    BY <1>1, Zenon DEF CepMade, CepLink
  <1>3. PICK B \in Seq(Items) : A \o B = SubSeq(text, 1, sent)
    <2>1. PICK b \in Seq(Items), p \in Seq(Items) : b = cepInBuf /\ p = pamOut
      BY CepFacts
    <2>2. b \o p \in Seq(Items) /\ (A \o b) \o p = A \o (b \o p)
      BY JoinsItems, Zenon
    <2>. QED BY <1>2, <2>1, <2>2, Zenon DEF ReadSoFar
  <1>4. PICK t \in Seq(Sound) : Smoothed(SubSeq(text, 1, sent)) = (E \o R) \o t
    <2>1. \E t \in Seq(Sound) : Smoothed(A \o B) = Smoothed(A) \o t
      BY SmoothedGrows
    <2>2. Smoothed(A) = E \o R
      BY <1>2, Zenon DEF Smoothed, MadeOf
    <2>. QED BY <1>3, <2>1, <2>2, Zenon
  <1>5. PICK U \in Seq(Sound) : Smoothed(SubSeq(text, 1, sent)) = D \o U
    <2>1. PICK s \in Seq(Smooth), c \in Seq(Smooth), o \in Seq(Smooth), d \in Seq(Smooth) :
             s = sigInBuf /\ c = cepOut /\ o = cepOutBuf /\ d = D
      <3>1. Sound \subseteq Smooth
        BY SoundsOK, Zenon
      <3>2. D \in Seq(Smooth)
        BY <3>1
      <3>. QED BY <3>2, SigFacts, Zenon
    <2>2. /\ ((d \o s) \o c) \o o = d \o (s \o (c \o o)) /\ s \o (c \o o) \in Seq(Smooth)
      <3>1. NestsRight(d, s, c, o)
        BY NestsRightSmooth, Zenon
      <3>. QED BY <3>1, Zenon DEF NestsRight
    <2>3. PICK w \in Seq(Smooth) : E = d \o w
      BY <1>1, <2>1, <2>2, Zenon DEF OnTheWay
    <2>4. w \in Seq(Sound)
      BY <2>3, PartsOK
    <2>5. D \in Seq(Sound) /\ w \in Seq(Sound) /\ R \in Seq(Sound) /\ t \in Seq(Sound)
      BY <2>4
    <2>6. Smoothed(SubSeq(text, 1, sent)) = ((D \o w) \o R) \o t
      BY <1>4, <2>1, <2>3, Zenon
    <2>7. GoesOn(D, ((D \o w) \o R) \o t)
      BY <2>5, RestOfFour, Zenon
    <2>. QED BY <2>6, <2>7, Zenon DEF GoesOn
  <1>6. PICK v \in Seq(Outs) : Signal(D \o U) = Signal(D) \o v
    BY SignalGrows
  <1>7. PICK q \in Seq(Outs), b \in Seq(Outs) : q = got \o sigOut /\ b = sigOutBuf
    BY SigFacts, JoinOK, Zenon
  <1>8. PICK y \in Seq(Outs) : Signal(D) = SpokenIn(q) \o y
    <2>1. \E t2 \in Seq(Outs) : SpokenIn(q \o b) = SpokenIn(q) \o t2
      BY SpokenGrows
    <2>2. SpokenIn(q \o b) = Signal(D)
      BY <1>1, <1>7, Zenon DEF SigLink, Heard, Signal
    <2>. QED BY <2>1, <2>2, Zenon
  <1>9. PICK h \in Seq(Outs) : h = SpokenIn(q)
    BY SpokenInOK, Zenon
  <1>10. (h \o y) \o v = h \o (y \o v) /\ y \o v \in Seq(Outs)
    BY JoinsOuts, Zenon
  <1>11. IsPrefix(h, h \o (y \o v))
    BY <1>10, PrefixOfJoin
  <1>. QED BY <1>5, <1>6, <1>7, <1>8, <1>9, <1>10, <1>11, Zenon

\* As long as the store for items has not run over and files can be written,
\* what is heard of a text is its signal: no frame and no other item is lost,
\* doubled or moved on the way through the two units, wherever the steps of
\* the units meet full and empty buffers (cepStep, sigStep and sigProcess).
THEOREM BackEndSpeechAsSent == Spec => []SpeechAsSent
  <1>1. Init => TypeInv /\ SpeechInv
    BY TypeInit, SpeechInit, Zenon
  <1>2. TypeInv /\ SpeechInv /\ [Next]_vars => (TypeInv /\ SpeechInv)'
    BY TypeNext, SpeechNext, Zenon
  <1>3. TypeInv /\ SpeechInv => SpeechAsSent
    BY SpeechInvAsSent, Zenon
  <1>. QED BY <1>1, <1>2, <1>3, PTL DEF Spec


-----------------------------------------------------------------------------
(* The frames among what comes out, a fold too.                             *)
FrameRule == [x \in Outs |-> [s \in Seq(Outs) |-> WithFrame(s, x)]]
\* Its rule.
LEMMA FrameRuleOK ==
    /\ Rule(FrameRule, Outs, Seq(Outs))
    /\ <<>> \in Seq(Outs)
    /\ \A x \in Outs, s \in Seq(Outs) : FrameRule[x][s] = WithFrame(s, x)
  BY DEF FrameRule, Rule, WithFrame

\* They are found item by item.
LEMMA FramesInMade == ASSUME NEW q \in Seq(Outs) PROVE Makes(FramesIn(q), q, <<>>, FrameRule, Seq(Outs))
  <1>. DEFINE Step(it, P) == IF P = {} THEN <<>> ELSE WithFrame(it[P \ {Max(P)}], q[Max(P)])
              Is(it) == it = [P \in SUBSET DOMAIN q |-> Step(it, P)]
              it0 == CHOOSE it : Is(it)
  <1>0. Len(q) \in Nat /\ DOMAIN q = 1 .. Len(q) /\ \A i \in 1 .. Len(q) : q[i] \in Outs
    OBVIOUS
  <1>1. \E it : Is(it)
    <2>1. PICK it \in [SUBSET DOMAIN q -> Seq(Outs)] : IsFold(it, q, <<>>, FrameRule)
      BY FoldExists, FrameRuleOK, Zenon
    <2>2. ASSUME NEW P \in SUBSET DOMAIN q PROVE it[P] = Step(it, P)
      <3>1. P # {} => q[Max(P)] \in Outs
        BY <1>0, MaxOK, Zenon
      <3>2. it[P \ {Max(P)}] \in Seq(Outs)
        BY Zenon
      <3>3. it[P] = IF P = {} THEN <<>> ELSE FrameRule[q[Max(P)]][it[P \ {Max(P)}]]
        BY <2>1, Zenon DEF IsFold
      <3>. QED BY <3>1, <3>2, <3>3, FrameRuleOK, Zenon
    <2>3. Is(it)
      BY <2>2, Zenon
    <2>. QED BY <2>3, Zenon
  <1>2. Is(it0)
    BY <1>1, Zenon
  <1>3. FramesIn(q) = it0[DOMAIN q]
    BY DEF FramesIn, FoldLeft, MapThenFoldSet
  <1>4. \A P \in SUBSET DOMAIN q : it0[P] = Step(it0, P)
    BY <1>2, Zenon
  <1>. HIDE DEF it0
  <1>. DEFINE run == [k \in 0 .. Len(q) |-> it0[1 .. k]]
  <1>5. run[0] = <<>> /\ FramesIn(q) = run[Len(q)]
    <2>1. 0 \in 0 .. Len(q) /\ Len(q) \in 0 .. Len(q) /\ 1 .. 0 = {}
      BY <1>0
    <2>2. it0[{}] = <<>>
      BY <1>4, Zenon
    <2>. QED BY <1>0, <1>3, <2>1, <2>2, Zenon
  <1>6. ASSUME NEW k \in 0 .. Len(q) - 1, run[k] \in Seq(Outs)
        PROVE  run[k + 1] = FrameRule[q[k + 1]][run[k]]
    <2>1. k + 1 \in 0 .. Len(q) /\ k \in 0 .. Len(q) /\ k + 1 \in 1 .. Len(q)
      BY <1>0
    <2>2. it0[1 .. k + 1] = WithFrame(it0[1 .. k], q[k + 1])
      <3>1. /\ 1 .. k + 1 \in SUBSET (1 .. Len(q)) /\ 1 .. k + 1 # {}
            /\ Max(1 .. k + 1) = k + 1 /\ (1 .. k + 1) \ {k + 1} = 1 .. k
        BY <1>0, FirstPlaces, Zenon
      <3>. DEFINE P == 1 .. k + 1
      <3>. HIDE DEF P
      <3>2. it0[P] = Step(it0, P)
        BY <1>0, <1>4, <3>1, Zenon DEF P
      <3>. QED BY <3>1, <3>2, Zenon DEF P
    <2>3. run[k + 1] = WithFrame(run[k], q[k + 1]) /\ q[k + 1] \in Outs
      BY <1>0, <2>1, <2>2, Zenon
    <2>. HIDE DEF run
    <2>. QED BY <1>6, <2>3, FrameRuleOK, Zenon
  <1>. HIDE DEF run
  <1>. QED BY <1>5, <1>6, Zenon DEF Makes, IsRun

\* The frames among one more item.
LEMMA FramesInOK ==
    /\ FramesIn(<<>>) = <<>>
    /\ \A q \in Seq(Outs) : FramesIn(q) \in Seq(Outs)
    /\ \A q \in Seq(Outs), x \in Outs : FramesIn(Append(q, x)) = WithFrame(FramesIn(q), x)
  <1>1. PICK F : F = [q \in Seq(Outs) |-> FramesIn(q)]
    OBVIOUS
  <1>2. \A q \in Seq(Outs) : F[q] = FramesIn(q)
    BY <1>1, Zenon
  <1>3. \A q \in Seq(Outs) : Makes(F[q], q, <<>>, FrameRule, Seq(Outs))
    BY <1>2, FramesInMade, Zenon
  <1>4. /\ F[<<>>] = <<>>
        /\ \A q \in Seq(Outs) : F[q] \in Seq(Outs)
        /\ \A q \in Seq(Outs), x \in Outs : F[Append(q, x)] = FrameRule[x][F[q]]
    <2>1. Rule(FrameRule, Outs, Seq(Outs)) /\ <<>> \in Seq(Outs)
      BY FrameRuleOK, Zenon
    <2>2. Folds(F, Outs, Seq(Outs), <<>>, FrameRule)
      BY <1>3, <2>1, Zenon DEF Folds
    <2>3. Made(F, Outs, Seq(Outs), <<>>, FrameRule)
      BY <2>2, FoldOK, Zenon
    <2>. QED BY <2>3, Zenon DEF Made
  <1>5. \A q \in Seq(Outs), x \in Outs : Append(q, x) \in Seq(Outs)
    BY AppendOK
  <1>6. ASSUME NEW q \in Seq(Outs), NEW x \in Outs
        PROVE  FramesIn(q) \in Seq(Outs) /\ FramesIn(Append(q, x)) = WithFrame(FramesIn(q), x)
    <2>1. F[q] = FramesIn(q) /\ F[q] \in Seq(Outs)
      BY <1>2, <1>4, Zenon
    <2>2. F[Append(q, x)] = FramesIn(Append(q, x)) /\ F[Append(q, x)] = FrameRule[x][F[q]]
      BY <1>2, <1>4, <1>5, Zenon
    <2>. QED BY <2>1, <2>2, FrameRuleOK, Zenon
  <1>7. FramesIn(<<>>) = <<>>
    BY <1>2, <1>4, EmptyOK, Zenon
  <1>8. \A q \in Seq(Outs) : FramesIn(q) \in Seq(Outs)
    BY <1>2, <1>4, Zenon
  <1>. QED BY <1>6, <1>7, <1>8, Zenon

-----------------------------------------------------------------------------
(* The saved file.  s are the frames of the file, h those heard, T the      *)
(* tries that repeat the one before, b the frames from before the file.     *)

\* The places behind the i-th of the file that are no repetitions.
Behind(s, T, i) == {j \in i + 1 .. Len(s) : j \notin T}
PlaceOf(s, h, T, i) == Len(h) - Cardinality(Behind(s, T, i))
Fits(s, h, T, b) ==
    /\ T \subseteq 2 .. Len(s)
    /\ Len(s) - Cardinality(T) = Len(h) - b
    /\ \A i \in 1 .. Len(s) : PlaceOf(s, h, T, i) >= 1 /\ s[i] = h[PlaceOf(s, h, T, i)]

\* Numbers behind a place, and one more.
LEMMA BehindGrows ==
    ASSUME NEW n \in Nat, NEW T, NEW i \in 1 .. n
    PROVE  /\ n + 1 \notin T =>
                {j \in i + 1 .. n + 1 : j \notin T} = {j \in i + 1 .. n : j \notin T} \union {n + 1}
           /\ {j \in i + 1 .. n + 1 : j \notin T \union {n + 1}} = {j \in i + 1 .. n : j \notin T}
           /\ n + 1 \notin {j \in i + 1 .. n : j \notin T}
           /\ {j \in (n + 1) + 1 .. n + 1 : j \notin T} = {}
  OBVIOUS

\* They are finitely many.
LEMMA BehindFinite ==
    ASSUME NEW n \in Nat, NEW T, NEW i \in Nat
    PROVE  /\ IsFiniteSet({j \in i + 1 .. n : j \notin T})
           /\ Cardinality({j \in i + 1 .. n : j \notin T}) \in Nat
  <1>1. IsFiniteSet(i + 1 .. n)
    BY FS_Interval
  <1>2. {j \in i + 1 .. n : j \notin T} \in SUBSET (i + 1 .. n)
    OBVIOUS
  <1>3. IsFiniteSet({j \in i + 1 .. n : j \notin T})
    BY <1>1, <1>2, FS_Subset, Zenon
  <1>. QED BY <1>3, FS_CardinalityType, Zenon

\* So are the tries.
LEMMA TriesFinite ==
    ASSUME NEW n \in Nat, NEW T, T \subseteq 2 .. n
    PROVE  IsFiniteSet(T) /\ Cardinality(T) \in Nat /\ n + 1 \notin T
  <1>1. IsFiniteSet(2 .. n)
    BY FS_Interval
  <1>2. IsFiniteSet(T)
    BY <1>1, FS_Subset, Zenon
  <1>. QED BY <1>2, FS_CardinalityType, SMT

\* A frame is heard, and written.
LEMMA FitsNew ==
    ASSUME NEW s \in Seq(Outs), NEW h \in Seq(Outs), NEW x \in Outs, NEW T, NEW b \in Nat, Fits(s, h, T, b)
    PROVE  Fits(Append(s, x), Append(h, x), T, b)
  <1>. DEFINE s2 == Append(s, x)
              h2 == Append(h, x)
              n == Len(s)
              m == Len(h)
  <1>1. n \in Nat /\ m \in Nat /\ Len(s2) = n + 1 /\ Len(h2) = m + 1 /\ s2[n + 1] = x /\ h2[m + 1] = x
    OBVIOUS
  <1>2. (\A i \in 1 .. n : s2[i] = s[i]) /\ (\A i \in 1 .. m : h2[i] = h[i])
    OBVIOUS
  <1>. HIDE DEF s2, h2, n, m
  <1>3. T \subseteq 2 .. n /\ n - Cardinality(T) = m - b
    BY DEF Fits, n, m
  <1>4. Cardinality(T) \in Nat /\ n + 1 \notin T
    BY <1>1, <1>3, TriesFinite, Zenon
  <1>5. T \subseteq 2 .. Len(s2) /\ Len(s2) - Cardinality(T) = Len(h2) - b
    BY <1>1, <1>3, <1>4
  <1>6. ASSUME NEW i \in 1 .. n
        PROVE  PlaceOf(s2, h2, T, i) = PlaceOf(s, h, T, i) /\ PlaceOf(s, h, T, i) \in Int
               /\ PlaceOf(s, h, T, i) =< m
    <2>. DEFINE B == {j \in i + 1 .. n : j \notin T}
    <2>0. i \in Nat
      BY <1>1
    <2>1. i \in Nat /\ IsFiniteSet(B) /\ Cardinality(B) \in Nat
      BY <1>1, <2>0, BehindFinite, Zenon
    <2>2. Behind(s2, T, i) = B \union {n + 1} /\ n + 1 \notin B
      BY <1>1, <1>4, BehindGrows, Zenon DEF Behind
    <2>3. Behind(s, T, i) = B
      BY DEF Behind, n
    <2>. HIDE DEF B
    <2>4. Cardinality(B \union {n + 1}) = Cardinality(B) + 1
      BY <2>1, <2>2, FS_AddElement, Zenon
    <2>5. PlaceOf(s2, h2, T, i) = (m + 1) - (Cardinality(B) + 1) /\ PlaceOf(s, h, T, i) = m - Cardinality(B)
      BY <1>1, <2>2, <2>3, <2>4, Zenon DEF PlaceOf, m
    <2>. QED BY <1>1, <2>1, <2>5, SMT
  <1>7. PlaceOf(s2, h2, T, n + 1) = m + 1
    <2>1. Behind(s2, T, n + 1) = {}
      BY <1>1 DEF Behind
    <2>2. Cardinality({}) = 0
      BY FS_EmptySet, Zenon
    <2>3. PlaceOf(s2, h2, T, n + 1) = (m + 1) - 0
      BY <1>1, <2>1, <2>2, Zenon DEF PlaceOf
    <2>. QED BY <1>1, <2>3
  <1>8. ASSUME NEW i \in 1 .. Len(s2)
        PROVE  PlaceOf(s2, h2, T, i) >= 1 /\ s2[i] = h2[PlaceOf(s2, h2, T, i)]
    <2>1. CASE i = n + 1
      <3>1. m + 1 >= 1
        BY <1>1
      <3>. QED BY <1>1, <1>7, <2>1, <3>1, Zenon
    <2>2. CASE i # n + 1
      <3>1. i \in 1 .. n
        BY <1>1, <2>2
      <3>2. PICK k : k = PlaceOf(s, h, T, i)
        OBVIOUS
      <3>3. k >= 1 /\ s[i] = h[k]
        BY <3>1, <3>2, Zenon DEF Fits, n
      <3>4. k \in 1 .. m /\ PlaceOf(s2, h2, T, i) = k
        BY <1>1, <1>6, <3>1, <3>2, <3>3
      <3>. QED BY <1>2, <3>1, <3>3, <3>4, Zenon
    <2>. QED BY <2>1, <2>2, Zenon
  <1>9. Fits(s2, h2, T, b)
    BY <1>5, <1>8, Zenon DEF Fits
  <1>. QED BY <1>9, Zenon DEF s2, h2

\* A frame is written once more.
LEMMA FitsAgain ==
    ASSUME NEW s \in Seq(Outs), NEW h \in Seq(Outs), NEW x \in Outs, NEW T, NEW b \in Nat, Fits(s, h, T, b),
           s # <<>>, h # <<>>, h[Len(h)] = x
    PROVE  Fits(Append(s, x), h, T \union {Len(s) + 1}, b)
  <1>. DEFINE s2 == Append(s, x)
              n == Len(s)
              m == Len(h)
              T2 == T \union {n + 1}
  <1>1. n \in Nat /\ n >= 1 /\ m \in Nat /\ m >= 1 /\ Len(s2) = n + 1 /\ s2[n + 1] = x /\ h[m] = x
    OBVIOUS
  <1>2. \A i \in 1 .. n : s2[i] = s[i]
    OBVIOUS
  <1>. HIDE DEF s2, n, m, T2
  <1>3. T \subseteq 2 .. n /\ n - Cardinality(T) = m - b
    BY DEF Fits, n, m
  <1>4. IsFiniteSet(T) /\ Cardinality(T) \in Nat /\ n + 1 \notin T
    BY <1>1, <1>3, TriesFinite, Zenon
  <1>5. T2 \subseteq 2 .. Len(s2) /\ Len(s2) - Cardinality(T2) = m - b
    <2>1. Cardinality(T2) = Cardinality(T) + 1
      BY <1>4, FS_AddElement, Zenon DEF T2
    <2>2. T2 \subseteq 2 .. n + 1
      BY <1>1, <1>3 DEF T2
    <2>. QED BY <1>1, <1>3, <1>4, <2>1, <2>2, SMT
  <1>6. ASSUME NEW i \in 1 .. n
        PROVE  PlaceOf(s2, h, T2, i) = PlaceOf(s, h, T, i) /\ PlaceOf(s, h, T, i) \in Int
    <2>. DEFINE B == {j \in i + 1 .. n : j \notin T}
    <2>0. i \in Nat
      BY <1>1
    <2>1. i \in Nat /\ IsFiniteSet(B) /\ Cardinality(B) \in Nat
      BY <1>1, <2>0, BehindFinite, Zenon
    <2>2. Behind(s2, T2, i) = B
      <3>1. {j \in i + 1 .. n + 1 : j \notin T \union {n + 1}} = B
        BY <1>1
      <3>. QED BY <1>1, <3>1, Zenon DEF Behind, T2
    <2>3. Behind(s, T, i) = B
      BY DEF Behind, n
    <2>. HIDE DEF B
    <2>. QED BY <1>1, <2>1, <2>2, <2>3, SMT DEF PlaceOf, m
  <1>7. PlaceOf(s2, h, T2, n + 1) = m
    <2>1. Behind(s2, T2, n + 1) = {}
      BY <1>1 DEF Behind
    <2>2. Cardinality({}) = 0
      BY FS_EmptySet, Zenon
    <2>3. PlaceOf(s2, h, T2, n + 1) = m - 0
      BY <2>1, <2>2, Zenon DEF PlaceOf, m
    <2>. QED BY <1>1, <2>3
  <1>8. ASSUME NEW i \in 1 .. Len(s2)
        PROVE  PlaceOf(s2, h, T2, i) >= 1 /\ s2[i] = h[PlaceOf(s2, h, T2, i)]
    <2>1. CASE i = n + 1
      BY <1>1, <1>7, <2>1, Zenon
    <2>2. CASE i # n + 1
      <3>1. i \in 1 .. n
        BY <1>1, <2>2
      <3>2. PlaceOf(s, h, T, i) >= 1 /\ s[i] = h[PlaceOf(s, h, T, i)]
        BY <3>1, Zenon DEF Fits, n
      <3>. QED BY <1>2, <1>6, <3>1, <3>2, Zenon
    <2>. QED BY <2>1, <2>2, Zenon
  <1>9. Fits(s2, h, T2, b)
    BY <1>5, <1>8, Zenon DEF Fits, m
  <1>. QED BY <1>9, Zenon DEF s2, T2, n

\* An empty file.
LEMMA FitsNone == ASSUME NEW h \in Seq(Outs) PROVE Fits(<<>>, h, {}, Len(h))
  <1>1. Len(<<>>) = 0 /\ 1 .. 0 = {} /\ {} \subseteq 2 .. 0
    OBVIOUS
  <1>2. Cardinality({}) = 0
    BY FS_EmptySet, Zenon
  <1>3. Len(<<>>) - Cardinality({}) = Len(h) - Len(h)
    BY <1>1, <1>2
  <1>. QED BY <1>1, <1>3, Zenon DEF Fits


\* The frames in the file are those heard, or one more: that at the front of
\* what is put, which is written and then found the buffer full.
FitsSome(h) == \E T \in SUBSET (2 .. Len(saved)) : Fits(saved, h, T, before)
SavedAll == FitsSome(FramesIn(got \o sigOut))
SavedOneMore == /\ sigProcState = "FEED" /\ IsFrame(sigOutBuf[1]) /\ saved # <<>>
                /\ FitsSome(Append(FramesIn(got \o sigOut), sigOutBuf[1]))
SavedInv == /\ saved \in Seq(Outs) /\ before \in Nat
            /\ outSwitch => SavedAll \/ SavedOneMore

\* The frames that come out and those that have.
LEMMA OutsOK ==
    ASSUME TypeInv
    PROVE  /\ got \o sigOut \in Seq(Outs)
           /\ FramesIn(got \o sigOut) \in Seq(Outs)
           /\ Len(FramesIn(got \o sigOut)) \in Nat
  <1>1. PICK q \in Seq(Outs) : q = got \o sigOut
    BY SigFacts, JoinOK, Zenon
  <1>2. FramesIn(q) \in Seq(Outs)
    BY FramesInOK, Zenon
  <1>3. Len(FramesIn(q)) \in Nat
    BY <1>2
  <1>. QED BY <1>1, <1>2, <1>3, Zenon

\* What is put is the newest of what comes out.
LEMMA OneMorePut ==
    ASSUME TypeInv, NEW x \in Outs
    PROVE  /\ got \o Append(sigOut, x) = Append(got \o sigOut, x)
           /\ FramesIn(Append(got \o sigOut, x)) = WithFrame(FramesIn(got \o sigOut), x)
  <1>1. PICK g \in Seq(Outs), o \in Seq(Outs) : g = got /\ o = sigOut
    BY SigFacts
  <1>2. g \o Append(o, x) = Append(g \o o, x)
    OBVIOUS
  <1>3. PICK q \in Seq(Outs) : q = got \o sigOut
    BY SigFacts, JoinOK, Zenon
  <1>4. FramesIn(Append(q, x)) = WithFrame(FramesIn(q), x)
    BY FramesInOK, Zenon
  <1>. QED BY <1>1, <1>2, <1>3, <1>4, Zenon

\* What is taken is still heard.
LEMMA TakenStays == ASSUME TypeInv, sigOut # <<>> PROVE Append(got, Head(sigOut)) \o Tail(sigOut) = got \o sigOut
  <1>1. PICK b \in Seq(Outs), g \in Seq(Outs) : b = sigOut /\ g = got /\ b # <<>>
    BY SigFacts
  <1>2. PICK y \in Outs, t \in Seq(Outs) : y = Head(b) /\ t = Tail(b) /\ <<y>> \o t = b
    <2>1. <<Head(b)>> \o Tail(b) = b /\ Tail(b) \in Seq(Outs) /\ Head(b) \in Outs
      BY <1>1, HeadAndTail
    <2>. QED BY <2>1, Zenon
  <1>3. Append(g, y) = g \o <<y>> /\ <<y>> \in Seq(Outs)
    OBVIOUS
  <1>4. (g \o <<y>>) \o t = g \o (<<y>> \o t)
    BY <1>3, JoinAssoc
  <1>. QED BY <1>1, <1>2, <1>3, <1>4, Zenon

\* What is at the front of what is put.
LEMMA FrontOK == ASSUME TypeInv, sigProcState = "FEED" PROVE sigOutBuf[1] \in Outs /\ sigOutBuf # <<>>
  <1>1. PICK b \in Seq(Outs) : b = sigOutBuf /\ b # <<>>
    BY SigFacts
  <1>2. b[1] \in Outs
    BY <1>1, TakeOK
  <1>. QED BY <1>1, <1>2, Zenon

\* What is appended is the last.
LEMMA LastOK ==
    \A h \in Seq(Outs), y \in Outs :
        Append(h, y) \in Seq(Outs) /\ Append(h, y) # <<>> /\ Append(h, y)[Len(Append(h, y))] = y
  OBVIOUS

\* Steps that touch neither the file nor what is at hand for it.
FileStays == /\ UNCHANGED <<outSwitch, saved, before>>
             /\ got' \o sigOut' = got \o sigOut
             /\ sigProcState = "FEED" => UNCHANGED <<sigProcState, sigOutBuf>>

\* They keep the invariant.
LEMMA SavedStays == ASSUME SavedInv, FileStays PROVE SavedInv'
  <1>1. saved' \in Seq(Outs) /\ before' \in Nat
    BY DEF SavedInv, FileStays
  <1>2. PICK h : h = FramesIn(got \o sigOut)
    OBVIOUS
  <1>3. FramesIn(got \o sigOut)' = h
    BY <1>2, Zenon DEF FileStays
  <1>4. ASSUME NEW k PROVE FitsSome(k) => FitsSome(k)'
    BY Zenon DEF FitsSome, FileStays
  <1>5. SavedAll => SavedAll'
    BY <1>2, <1>3, <1>4, Zenon DEF SavedAll
  <1>6. SavedOneMore => SavedOneMore'
    <2>. SUFFICES ASSUME SavedOneMore PROVE SavedOneMore'
      OBVIOUS
    <2>1. sigProcState' = "FEED" /\ sigOutBuf' = sigOutBuf /\ saved' = saved
      BY DEF SavedOneMore, FileStays
    <2>2. PICK k : k = Append(h, sigOutBuf[1])
      OBVIOUS
    <2>3. FitsSome(k)'
      BY <1>2, <1>4, <2>2, Zenon DEF SavedOneMore
    <2>. QED BY <1>3, <2>1, <2>2, <2>3, Zenon DEF SavedOneMore
  <1>. QED BY <1>1, <1>5, <1>6, Zenon DEF SavedInv, FileStays

\* No file is open.
LEMMA SavedClosed == ASSUME outSwitch' = FALSE, saved' = <<>>, before' \in Nat PROVE SavedInv'
  BY DEF SavedInv

\* A file is opened.
LEMMA SavedOpened ==
    ASSUME TypeInv, saved' = <<>>, before' = Len(FramesIn(got \o sigOut)), UNCHANGED <<got, sigOut>>
    PROVE  SavedInv'
  <1>1. PICK h \in Seq(Outs) : h = FramesIn(got \o sigOut)
    BY OutsOK, Zenon
  <1>2. FramesIn(got \o sigOut)' = h
    BY <1>1, Zenon
  <1>3. Fits(<<>>, h, {}, Len(h))
    BY FitsNone, Zenon
  <1>4. FitsSome(h)'
    BY <1>1, <1>3, Zenon DEF FitsSome
  <1>5. SavedAll'
    BY <1>2, <1>4, Zenon DEF SavedAll
  <1>6. saved' \in Seq(Outs) /\ before' \in Nat
    BY OutsOK, EmptyOK, Zenon
  <1>. QED BY <1>5, <1>6, Zenon DEF SavedInv

\* A frame at the front is written: for the first time, or once more.
LEMMA FrameWritten ==
    ASSUME TypeInv, SavedInv, outSwitch, sigProcState = "FEED", IsFrame(sigOutBuf[1])
    PROVE  \E T : Fits(Append(saved, sigOutBuf[1]), Append(FramesIn(got \o sigOut), sigOutBuf[1]), T, before)
  <1>1. PICK h \in Seq(Outs), s \in Seq(Outs), b \in Nat, y \in Outs :
             h = FramesIn(got \o sigOut) /\ s = saved /\ b = before /\ y = sigOutBuf[1]
    BY OutsOK, FrontOK, Zenon DEF SavedInv
  <1>2. CASE SavedAll
    <2>1. PICK T \in SUBSET (2 .. Len(s)) : Fits(s, h, T, b)
      BY <1>1, <1>2, Zenon DEF SavedAll, FitsSome
    <2>. QED BY <1>1, <2>1, FitsNew, Zenon
  <1>3. CASE SavedOneMore
    <2>1. PICK k \in Seq(Outs) : k = Append(h, y) /\ k # <<>> /\ k[Len(k)] = y
      BY LastOK, Zenon
    <2>2. PICK T \in SUBSET (2 .. Len(s)) : Fits(s, k, T, b)
      BY <1>1, <1>3, <2>1, Zenon DEF SavedOneMore, FitsSome
    <2>3. s # <<>>
      BY <1>1, <1>3 DEF SavedOneMore
    <2>4. Fits(Append(s, y), k, T \union {Len(s) + 1}, b)
      BY <2>1, <2>2, <2>3, FitsAgain, Zenon
    <2>. QED BY <1>1, <2>1, <2>4, Zenon
  <1>. QED BY <1>2, <1>3, Zenon DEF SavedInv

\* An item is put, a frame into the file first.
LEMMA SavedPut ==
    ASSUME TypeInv, SavedInv, SIG!FeedItem, UNCHANGED <<got, before>>
    PROVE  SavedInv'
  <1>. DEFINE x == sigOutBuf[1]
  <1>1. /\ sigProcState = "FEED" /\ sigOut' = Append(sigOut, x) /\ saved' = SIG!Written /\ outSwitch' = outSwitch
        /\ got' = got /\ before' = before
    BY DEF SIG!FeedItem, SIG!Feeding, SIG!At
  <1>2. PICK y \in Outs : y = x
    BY <1>1, FrontOK, Zenon
  <1>3. PICK h \in Seq(Outs), s \in Seq(Outs), b \in Nat : h = FramesIn(got \o sigOut) /\ s = saved /\ b = before
    BY OutsOK, Zenon DEF SavedInv
  <1>. HIDE DEF x
  <1>4. FramesIn(got \o sigOut)' = WithFrame(h, y)
    BY <1>1, <1>2, <1>3, OneMorePut, Zenon
  <1>5. s \in Seq(Outs) /\ Append(s, y) \in Seq(Outs) /\ Append(s, y) # <<>>
    OBVIOUS
  <1>6. CASE ~ outSwitch
    <2>1. saved' = s
      BY <1>1, <1>3, <1>6 DEF SIG!Written, SIG!ToFile
    <2>. QED BY <1>1, <1>3, <1>6, <2>1, Zenon DEF SavedInv
  <1>7. CASE outSwitch /\ ~ IsFrame(y)
    <2>1. saved' = s
      BY <1>1, <1>2, <1>3, <1>7 DEF SIG!Written, SIG!ToFile, IsFrame, x
    <2>2. FramesIn(got \o sigOut)' = h
      BY <1>4, <1>7 DEF WithFrame
    <2>3. SavedAll
      BY <1>2, <1>7, Zenon DEF SavedInv, SavedOneMore, x
    <2>4. PICK T \in SUBSET (2 .. Len(s)) : Fits(s, h, T, b)
      BY <1>3, <2>3, Zenon DEF SavedAll, FitsSome
    <2>5. FitsSome(h)'
      BY <1>1, <1>3, <2>1, <2>4, Zenon DEF FitsSome
    <2>. QED BY <1>1, <1>3, <2>1, <2>2, <2>5, Zenon DEF SavedInv, SavedAll
  <1>8. CASE outSwitch /\ IsFrame(y)
    <2>1. saved' = Append(s, y)
      BY <1>1, <1>2, <1>3, <1>8 DEF SIG!Written, SIG!ToFile, IsFrame, x
    <2>2. FramesIn(got \o sigOut)' = Append(h, y)
      BY <1>4, <1>8 DEF WithFrame
    <2>3. \E T : Fits(Append(s, y), Append(h, y), T, b)
      BY <1>1, <1>2, <1>3, <1>8, FrameWritten, Zenon DEF x
    <2>4. FitsSome(Append(h, y))'
      <3>1. PICK T : Fits(Append(s, y), Append(h, y), T, b)
        BY <2>3, Zenon
      <3>2. T \in SUBSET (2 .. Len(Append(s, y)))
        BY <3>1, Zenon DEF Fits
      <3>. QED BY <1>1, <1>3, <2>1, <3>1, <3>2, Zenon DEF FitsSome
    <2>. QED BY <1>1, <1>3, <1>5, <2>1, <2>2, <2>4, Zenon DEF SavedInv, SavedAll
  <1>. QED BY <1>6, <1>7, <1>8

\* The buffer is full: a frame is in the file all the same.
LEMMA SavedTried ==
    ASSUME TypeInv, SavedInv, SIG!FeedFull, UNCHANGED <<got, before>>
    PROVE  SavedInv'
  <1>. DEFINE x == sigOutBuf[1]
  <1>1. /\ sigProcState = "FEED" /\ sigOut' = sigOut /\ saved' = SIG!Written /\ outSwitch' = outSwitch
        /\ got' = got /\ before' = before /\ sigProcState' = sigProcState /\ sigOutBuf' = sigOutBuf
    BY DEF SIG!FeedFull, SIG!Feeding, SIG!At
  <1>2. PICK y \in Outs : y = x
    BY <1>1, FrontOK, Zenon
  <1>3. PICK h \in Seq(Outs), s \in Seq(Outs), b \in Nat : h = FramesIn(got \o sigOut) /\ s = saved /\ b = before
    BY OutsOK, Zenon DEF SavedInv
  <1>. HIDE DEF x
  <1>4. FramesIn(got \o sigOut)' = h
    BY <1>1, <1>3, Zenon
  <1>5. s \in Seq(Outs) /\ Append(s, y) \in Seq(Outs) /\ Append(s, y) # <<>>
    OBVIOUS
  <1>6. CASE ~ outSwitch \/ ~ IsFrame(y)
    <2>1. saved' = saved
      BY <1>1, <1>2, <1>6 DEF SIG!Written, SIG!ToFile, IsFrame, x
    <2>2. FileStays
      BY <1>1, <2>1 DEF FileStays
    <2>. QED BY <2>2, SavedStays
  <1>7. CASE outSwitch /\ IsFrame(y)
    <2>1. saved' = Append(s, y)
      BY <1>1, <1>2, <1>3, <1>7 DEF SIG!Written, SIG!ToFile, IsFrame, x
    <2>2. \E T : Fits(Append(s, y), Append(h, y), T, b)
      BY <1>1, <1>2, <1>3, <1>7, FrameWritten, Zenon DEF x
    <2>3. FitsSome(Append(h, y))'
      <3>1. PICK T : Fits(Append(s, y), Append(h, y), T, b)
        BY <2>2, Zenon
      <3>2. T \in SUBSET (2 .. Len(Append(s, y)))
        BY <3>1, Zenon DEF Fits
      <3>. QED BY <1>1, <1>3, <2>1, <3>1, <3>2, Zenon DEF FitsSome
    <2>4. SavedOneMore'
      <3>1. sigOutBuf'[1] = y /\ sigProcState' = "FEED"
        BY <1>1, <1>2 DEF x
      <3>. QED BY <1>4, <1>5, <1>7, <2>1, <2>3, <3>1, Zenon DEF SavedOneMore
    <2>. QED BY <1>1, <1>3, <1>5, <2>1, <2>4, Zenon DEF SavedInv
  <1>. QED BY <1>6, <1>7

\* Every step keeps the invariant.
LEMMA SavedNext == ASSUME TypeInv, TypeInv', SavedInv, [Next]_vars PROVE SavedInv'
  <1>1. CASE Put \/ CepStep \/ CepPass \/ SigStep \/ UNCHANGED vars
    <2>1. FileStays
      BY <1>1 DEF Put, CepStep, CepPass, SigStep, SIG!Call, SIG!files, sigState, history, vars, SIG!vars, FileStays
    <2>. QED BY <2>1, SavedStays
  <1>2. CASE Take
    <2>1. /\ UNCHANGED <<outSwitch, saved, before, sigProcState, sigOutBuf>> /\ sigOut # <<>>
          /\ got' = Append(got, Head(sigOut)) /\ sigOut' = Tail(sigOut)
      BY <1>2 DEF Take, sigState
    <2>2. got' \o sigOut' = got \o sigOut
      BY <2>1, TakenStays, Zenon
    <2>. QED BY <2>1, <2>2, SavedStays DEF FileStays
  <1>3. CASE SigPass
    <2>1. SIG!Pass /\ got' = got /\ before' = IF ~ outSwitch /\ outSwitch' THEN Len(FramesIn(got \o sigOut)) ELSE before
      BY <1>3 DEF SigPass, history
    <2>2. before \in Nat /\ outSwitch \in BOOLEAN
      BY DEF SavedInv, TypeInv, SigOK
    <2>3. CASE SIG!Collect \/ SIG!ScheduleFrame \/ SIG!SchedulePlay \/ SIG!ScheduleModifier \/ SIG!ScheduleOther
               \/ SIG!Process \/ SIG!Play
      <3>1. UNCHANGED <<outSwitch, saved, sigOut>> /\ sigProcState # "FEED"
        BY <2>3 DEF SIG!Collect, SIG!Scheduling, SIG!ScheduleFrame, SIG!SchedulePlay, SIG!ScheduleModifier, SIG!ScheduleOther,
                    SIG!Process, SIG!Processing, SIG!Load, SIG!Transition, SIG!Spectrum, SIG!ImpulseResponse,
                    SIG!Excitation, SIG!OverlapAdd, SIG!PutFrame, SIG!Play, SIG!At, SIG!files
      <3>2. before' = before
        BY <2>1, <3>1
      <3>3. FileStays
        BY <2>1, <3>1, <3>2 DEF FileStays
      <3>. QED BY <3>3, SavedStays
    <2>4. CASE SIG!ScheduleSave
      <3>1. UNCHANGED sigOut /\ sigProcState # "FEED"
        BY <2>4 DEF SIG!ScheduleSave, SIG!Scheduling, SIG!At
      <3>2. CASE ~ outSwitch /\ outSwitch' = TRUE /\ saved' = <<>>
        BY <2>1, <3>1, <3>2, SavedOpened
      <3>3. CASE UNCHANGED <<outSwitch, saved>>
        <4>1. before' = before
          BY <2>1, <3>3
        <4>. QED BY <2>1, <3>1, <3>3, <4>1, SavedStays DEF FileStays
      <3>. QED BY <2>4, <3>2, <3>3 DEF SIG!ScheduleSave
    <2>5. CASE SIG!ScheduleUnsave \/ SIG!FeedFails
      <3>1. outSwitch' = FALSE /\ saved' = <<>>
        BY <2>5 DEF SIG!ScheduleUnsave, SIG!FeedFails
      <3>. QED BY <2>1, <2>2, <3>1, SavedClosed
    <2>6. CASE SIG!FeedItem \/ SIG!FeedFull
      <3>1. outSwitch' = outSwitch
        BY <2>6 DEF SIG!FeedItem, SIG!FeedFull
      <3>2. before' = before
        BY <2>1, <3>1
      <3>. QED BY <2>1, <2>6, <3>2, SavedPut, SavedTried
    <2>. QED BY <2>1, <2>3, <2>4, <2>5, <2>6 DEF SIG!Pass
  <1>4. ASSUME NEW mode \in {"SOFT", "FULL"}, Reset(mode) PROVE SavedInv'
    <2>1. outSwitch' = FALSE /\ saved' = <<>> /\ before' = 0
      BY <1>4 DEF Reset, SIG!Initialize
    <2>. QED BY <2>1, SavedClosed
  <1>. QED BY <1>1, <1>2, <1>3, <1>4 DEF Next

\* The invariant implies what is to be shown.
LEMMA SavedInvAsHeard == ASSUME TypeInv, SavedInv PROVE SavedAsHeard
  <1>. SUFFICES ASSUME outSwitch
                PROVE  \E heard \in {FramesIn(got \o sigOut), FramesIn(got \o sigOut \o CEP!UpTo(sigOutBuf, 1))} :
                       \E tries \in SUBSET (2 .. Len(saved)) : Saves(heard, tries)
    BY DEF SavedAsHeard
  <1>1. ASSUME NEW h, FitsSome(h) PROVE \E tries \in SUBSET (2 .. Len(saved)) : Saves(h, tries)
    <2>1. PICK T \in SUBSET (2 .. Len(saved)) : Fits(saved, h, T, before)
      BY <1>1, Zenon DEF FitsSome
    <2>2. Saves(h, T)
      BY <2>1, Zenon DEF Fits, PlaceOf, Behind, Saves
    <2>. QED BY <2>2, Zenon
  <1>2. CASE SavedAll
    BY <1>1, <1>2, Zenon DEF SavedAll
  <1>3. CASE SavedOneMore
    <2>1. PICK b \in Seq(Outs), y \in Outs : b = sigOutBuf /\ y = b[1] /\ b # <<>>
      BY <1>3, FrontOK, SigFacts, Zenon DEF SavedOneMore
    <2>2. CEP!UpTo(b, 1) = <<y>>
      <3>1. Len(b) \in Nat \ {0}
        BY <2>1
      <3>2. CEP!UpTo(b, 1) = SubSeq(b, 1, 1)
        BY <3>1 DEF CEP!UpTo
      <3>. QED BY <2>1, <3>1, <3>2
    <2>3. PICK q \in Seq(Outs) : q = got \o sigOut
      BY OutsOK, Zenon
    <2>4. q \o <<y>> = Append(q, y)
      OBVIOUS
    <2>5. FramesIn(Append(q, y)) = WithFrame(FramesIn(q), y)
      BY FramesInOK, Zenon
    <2>6. WithFrame(FramesIn(q), y) = Append(FramesIn(q), y)
      BY <1>3, <2>1 DEF SavedOneMore, WithFrame
    <2>7. FitsSome(Append(FramesIn(q), y))
      BY <1>3, <2>1, <2>3, Zenon DEF SavedOneMore
    <2>8. FramesIn(got \o sigOut \o CEP!UpTo(sigOutBuf, 1)) = Append(FramesIn(q), y)
      BY <2>1, <2>2, <2>3, <2>4, <2>5, <2>6, Zenon
    <2>. QED BY <1>1, <2>7, <2>8, Zenon
  <1>. QED BY <1>2, <1>3, Zenon DEF SavedInv

\* A file has the frames that were put since it was opened, in their order
\* and none left out, each as often in a row as it was tried to put (FEED in
\* sigStep, where a frame is written before there is a look at the buffer).
THEOREM BackEndSavedAsHeard == Spec => []SavedAsHeard
  <1>1. Init => TypeInv /\ SavedInv
    <2>1. Init => outSwitch = FALSE /\ saved = <<>> /\ before = 0
      BY DEF Init, SIG!Blank
    <2>2. Init => SavedInv
      BY <2>1 DEF SavedInv
    <2>. QED BY <2>2, TypeInit, Zenon
  <1>2. TypeInv /\ SavedInv /\ [Next]_vars => (TypeInv /\ SavedInv)'
    BY TypeNext, SavedNext, Zenon
  <1>3. TypeInv /\ SavedInv => SavedAsHeard
    BY SavedInvAsHeard, Zenon
  <1>. QED BY <1>1, <1>2, <1>3, PTL DEF Spec
=============================================================================
