-------------------------- MODULE MCPhoneFeatures --------------------------
(***************************************************************************)
(* PhoneFeatures for TLC: all sentences of a few syllables, with every kind *)
(* of bound between them, against what the features mean.                   *)
(***************************************************************************)
EXTENDS PhoneFeatures, FiniteSets
LOCAL INSTANCE SequencesExt

CONSTANT MaxUttSyll    \* syllables of a sentence

MCVowels == {5}

\* Syllable i has i phones; the second is its vowel, the fourth has none.
PhonesOf(i) == [k \in 1 .. i |-> IF k = 2 /\ i # 4 THEN 5 ELSE 10 * i + k]

\* Some syllables are stressed, some of these accented.
AccentsAt(i) == IF i % 2 = 1 THEN {0, 1} ELSE {0, 3}

Syll(i, a) == [type |-> "SYLLPHON", kind |-> "NONE", sort |-> "NONE", acc |-> a, phones |-> PhonesOf(i),
               min |-> 0, max |-> 0]
\* A PHR2 comes from a break in the text, which asks for its length.
Bound(kind, sort) == [type |-> "BOUND", kind |-> kind, sort |-> sort, acc |-> 0, phones |-> <<>>,
                      min |-> IF kind = "PHR2" THEN 1000 ELSE 0,
                      max |-> IF kind = "PHR2" THEN 1000 ELSE 0]
SyllablesIn(items) == SelectSeq(items, LAMBDA x : x.type = "SYLLPHON")

\* A bound that begins a phrase has its type: P, for the last one T or Q.
Begins(x) == x.kind \in {"SBEG", "PHR1", "PHR2", "PHR3"}
LastPhrase == \E i \in DOMAIN fed : Begins(fed[i]) /\ fed[i].sort # "P"

NextItems ==
    LET n == Len(SyllablesIn(fed))
        syllables == IF n < MaxUttSyll THEN {Syll(n + 1, a) : a \in AccentsAt(n + 1)} ELSE {}
        bounds == IF n = MaxUttSyll THEN {}
                  ELSE {Bound("PHR0", "P")}
                       \union IF LastPhrase THEN {}
                              ELSE {Bound(k, sort) : k \in {"PHR3", IF n = 1 THEN "PHR2" ELSE "PHR1"}, sort \in {"P", "T", "Q"}}
    IN  CASE fed = <<>> -> {Bound("SBEG", sort) : sort \in {"P", "T", "Q"}} \union syllables
          [] fed # <<>> /\ fed[Len(fed)].type = "BOUND" -> syllables
          [] OTHER -> syllables \union bounds \union {Bound(IF LastPhrase THEN "SEND" ELSE "TERM", "P")}

Next == \/ \E x \in NextItems : Forward(x)
        \/ Begin
        \/ BackwardPause \/ BackwardBound \/ BackwardSyll
        \/ Pauses
        \/ NextSentence

Spec == Init /\ [][Next]_<<pass, pam, fed>>

-----------------------------------------------------------------------------
(* What the features of a syllable mean, in a sentence u: the accent of each *)
(* syllable, the bound after it and the type of its phrase.                  *)

Sentence ==
    FoldLeft(LAMBDA u, x :
                 IF x.type = "SYLLPHON"
                 THEN [u EXCEPT !.acc = Append(u.acc, x.acc), !.sep = Append(u.sep, "NONE"),
                                !.sort = Append(u.sort, u.now), !.len = Append(u.len, Len(x.phones))]
                 ELSE [u EXCEPT !.sep = IF u.sep = <<>> THEN <<>>
                                        ELSE [u.sep EXCEPT ![Len(u.sep)] = x.kind],
                                !.now = IF Begins(x) THEN x.sort ELSE u.now],
             [acc |-> <<>>, sep |-> <<>>, sort |-> <<>>, len |-> <<>>, now |-> "T"], fed)

NSyll(u) == Len(u.acc)
Syllables(u) == 1 .. NSyll(u)
\* No bound of one of these kinds stands between two syllables.
Together(u, i, j, kinds) ==
    \A k \in Syllables(u) : (k >= i /\ k < j) \/ (k >= j /\ k < i) => u.sep[k] \notin kinds
Group(u, i, kinds) == {j \in Syllables(u) : Together(u, i, j, kinds)}
WordOf(u, i) == Group(u, i, {"PHR0", "PHR3", "PHR2", "PHR1"})
SecOf(u, i) == Group(u, i, {"PHR3", "PHR2", "PHR1"})
PrimOf(u, i) == Group(u, i, {"PHR2", "PHR1"})

Before(i, S) == {j \in S : j < i}
After(i, S) == {j \in S : j > i}
Latest(S) == CHOOSE j \in S : \A k \in S : k =< j
Earliest(S) == CHOOSE j \in S : \A k \in S : j =< k
Words(u, S) == Cardinality({WordOf(u, j) : j \in S})
Secs(u, S) == Cardinality({SecOf(u, j) : j \in S})

Stressed(u) == {j \in Syllables(u) : u.acc[j] \in 1 .. 4}
Accented(u) == {j \in Syllables(u) : u.acc[j] \in 1 .. 2}
ContentWord(u, i) == \E j \in WordOf(u, i) : u.acc[j] > 0

\* The syllables of the phrase before and after, in the primary phrase.
SecBefore(u, i) == LET S == Before(i, PrimOf(u, i)) \ SecOf(u, i)
                   IN  IF S = {} THEN {} ELSE SecOf(u, Latest(S))
SecAfter(u, i) == LET S == After(i, PrimOf(u, i)) \ SecOf(u, i)
                  IN  IF S = {} THEN {} ELSE SecOf(u, Earliest(S))
WordBefore(u, i) == LET S == Before(i, PrimOf(u, i)) \ WordOf(u, i)
                    IN  IF S = {} THEN {} ELSE WordOf(u, Latest(S))
WordAfter(u, i) == LET S == After(i, PrimOf(u, i)) \ WordOf(u, i)
                   IN  IF S = {} THEN {} ELSE WordOf(u, Earliest(S))

\* The first and the last phrase of a sentence end at its first, and begin after
\* its last bound that is not a word's.
InFirst(u, i) == SecOf(u, i) = SecOf(u, 1)
InLast(u, i) == SecOf(u, i) = SecOf(u, NSyll(u))

OrDC(holds, v) == IF holds THEN v ELSE DontCare
Question(u, i) == u.sort[i] = "Q"

\* The syllables strictly between i and the nearest one in S, if there is one.
Gap(i, S, nearest) == OrDC(S # {}, IF nearest > i THEN nearest - i - 1 ELSE i - nearest - 1)
NearestBefore(S) == IF S = {} THEN 0 ELSE Latest(S)
NearestAfter(S) == IF S = {} THEN 0 ELSE Earliest(S)

PhraseType(u, i) ==
    CASE u.sort[i] = "Q" -> "Y"
      [] u.sort[i] = "T" -> "T"
      [] OTHER ->
           LET start == Earliest(SecOf(u, i))
           IN  IF \/ start > 1 /\ u.sep[start - 1] = "PHR3"
                  \/ SecAfter(u, i) # {}
               THEN "p" ELSE "P"

\* The words strictly between the word of i and the nearest content word in S.
ContentGap(u, i, S, before) ==
    LET C == {j \in S : ContentWord(u, j)}
        nearest == IF before THEN Latest(C) ELSE Earliest(C)
    IN  OrDC(C # {}, Words(u, {j \in S : IF before THEN j > nearest ELSE j < nearest}
                              \ WordOf(u, nearest)))

FeaturesMeant(u, i) ==
    LET word == WordOf(u, i)
        sec == SecOf(u, i)
        prim == PrimOf(u, i)
        before == Before(i, prim)
        after == After(i, prim)
        wordsBefore == before \ word
        wordsAfter == after \ word
        first == InFirst(u, i)
        last == InLast(u, i)
        Length(S) == Cardinality(S)
    IN  [A3 |-> IF before = {} THEN 0 ELSE u.len[i - 1], B3 |-> u.len[i],
         C3 |-> IF after = {} THEN 0 ELSE u.len[i + 1],
         B4 |-> 1 + Length(Before(i, word)), B5 |-> 1 + Length(After(i, word)),
         B6 |-> OrDC(SecBefore(u, i) # {}, 1 + Length(Before(i, sec))),
         B7 |-> OrDC(SecAfter(u, i) # {}, 1 + Length(After(i, sec))),
         B8 |-> Length(before \cap Stressed(u)), B9 |-> Length(after \cap Stressed(u)),
         B10 |-> Length(before \cap Accented(u)), B11 |-> Length(after \cap Accented(u)),
         B12 |-> Gap(i, before \cap Stressed(u), NearestBefore(before \cap Stressed(u))),
         B13 |-> Gap(i, after \cap Stressed(u), NearestAfter(after \cap Stressed(u))),
         B14 |-> Gap(i, before \cap Accented(u), NearestBefore(before \cap Accented(u))),
         B15 |-> Gap(i, after \cap Accented(u), NearestAfter(after \cap Accented(u))),
         B17 |-> OrDC(~ first, 1 + Length(before)), B19 |-> OrDC(first, 1 + Length(before)),
         B18 |-> OrDC(~ last, 1 + Length(after)),
         B20 |-> OrDC(last /\ ~ Question(u, i), 1 + Length(after)),
         B21 |-> OrDC(last /\ Question(u, i), 1 + Length(after)),
         D2 |-> Length(WordBefore(u, i)), E2 |-> Length(word), F2 |-> Length(WordAfter(u, i)),
         E1 |-> IF ContentWord(u, i) THEN 1 ELSE 0,
         E3 |-> OrDC(SecBefore(u, i) # {}, 1 + Words(u, Before(i, sec) \ word)),
         E4 |-> OrDC(SecAfter(u, i) # {}, 1 + Words(u, After(i, sec) \ word)),
         E5 |-> Words(u, {j \in wordsBefore : ContentWord(u, j)}),
         E6 |-> Words(u, {j \in wordsAfter : ContentWord(u, j)}),
         E7 |-> ContentGap(u, i, wordsBefore, TRUE), E8 |-> ContentGap(u, i, wordsAfter, FALSE),
         E9 |-> OrDC(~ first, 1 + Words(u, wordsBefore)),
         E11 |-> OrDC(first, 1 + Words(u, wordsBefore)),
         E10 |-> OrDC(~ last, 1 + Words(u, wordsAfter)),
         E12 |-> OrDC(last /\ ~ Question(u, i), 1 + Words(u, wordsAfter)),
         E13 |-> OrDC(last /\ Question(u, i), 1 + Words(u, wordsAfter)),
         G1 |-> Length(SecBefore(u, i)), G2 |-> Words(u, SecBefore(u, i)),
         H1 |-> Length(sec), H2 |-> Words(u, sec),
         H3 |-> Secs(u, 1 .. i), H4 |-> Secs(u, i .. NSyll(u)),
         H5 |-> PhraseType(u, i),
         I1 |-> Length(SecAfter(u, i)), I2 |-> Words(u, SecAfter(u, i)),
         J1 |-> NSyll(u), J2 |-> Words(u, Syllables(u)), J3 |-> Secs(u, Syllables(u))]

\* Where the vector of syllable i is: after the pauses before it.
IndexOf(u, i) == i + Cardinality({j \in 1 .. i - 1 : u.sep[j] \in {"PHR1", "PHR2"}})

\* A syllable's features are those its place in the sentence asks for (picopam.c:3100).
FeaturesAsCounted ==
    pass = "DONE" =>
        LET u == Sentence
        IN  \A i \in Syllables(u) :
                LET meant == FeaturesMeant(u, i)
                IN  \A feat \in DOMAIN meant : pam.f[IndexOf(u, i)][feat] = meant[feat]

\* The phones of the sentence, with a pause at its begin, its end and its primary
\* bounds.
PhonesFed ==
    FoldLeft(LAMBDA all, x :
                 all \o IF x.type = "SYLLPHON" THEN x.phones
                        ELSE IF x.kind \in {"PHR0", "PHR3"} THEN <<>> ELSE <<PauseId>>,
             IF fed[1].type = "SYLLPHON" THEN <<PauseId>> ELSE <<>>, fed)

\* Some durations of a phone's five states.
Frames == {<<1, 1, 1, 1, 1>>, <<10, 20, 30, 20, 10>>, <<0, 0, 3, 0, 0>>, <<60, 60, 60, 60, 60>>,
           <<40, 1, 0, 9, 2>>}

\* A tree is asked about a phone with the phones around it in the sentence, its
\* place in the syllable and the syllable's features.
VectorAsMeant(c, k, at) ==
    LET full == pam_expand_vector([pam EXCEPT !.cur = c], k)
        v == pamCompressVector(full)
        all == PhonesFed
        Phone(i) == IF i \in DOMAIN all THEN all[i] ELSE PhDontCare
        pause == all[at] = PauseId
        later == {j \in at + 1 .. at + pam.f[c].B3 - 1 - k : all[j] \in Vowels}
    IN  /\ <<v.P1, v.P2, v.P3, v.P4, v.P5>> =
               <<Phone(at - 2), Phone(at - 1), Phone(at), Phone(at + 1), Phone(at + 2)>>
        /\ v.P6 + v.P7 = pam.f[c].B3 + 1
        /\ v.P8 = 1 <=> pause \/ (all[at] \notin Vowels /\ later # {})
        /\ \A feat \in DOMAIN v \ {"H5"} : full[feat] = DontCare <=> v[feat] = DontCareVal

\* A pause lasts as long as its bound asks, but for a frame and for what the
\* factor of its states, in 1024th of a frame, cuts off; one of 255 frames at most
\* always fits in the states.  A sentence begins with 8 ms.
PauseAsAsked(c, frames) ==
    LET here == pam.f[c]
        limits == [min |-> here.Min, max |-> here.Max]
        ms == Frame * Total(FramesPut(frames, c, 0, here.bnd, limits))
        weights == Total([i \in 1 .. 5 |-> frames[i] * SilWeights(here.bnd)[i]])
        cut == Frame + weights \div InFrames
    IN  CASE c = 0 -> ms = 8
          [] c > 0 /\ here.Max \in 1 .. 255 * Frame -> here.Min - cut =< ms /\ ms =< here.Max + cut
          [] OTHER -> ms = Frame * Total(frames)

\* Speech at another speed lasts as long as it should: the rest that each state
\* leaves is not lost.
StretchedInFull ==
    \A frames \in Frames, speed \in {50, 90, 100, 300}, rest \in {0, 49} :
        LET d == pam_get_duration(frames, speed, rest)
        IN  /\ Total(d.frames) * speed + d.rest = Total(frames) * 100 + rest
            /\ d.rest \in 0 .. speed - 1

\* The trees see every component of the vector, once.
Reorganised ==
    LET order == pamReorgVector([i \in 1 .. Len(InOrder) |-> i])
    IN  {order[i] : i \in DOMAIN order} = 1 .. Len(InOrder)

\* Durations go to the trees in steps of 20 ms up to 160 and of 100 ms up to 600,
\* pitch in steps of 30 Hz, both as near as these steps allow and never down
\* when they go up.
Quantized ==
    LET Update(dur, f0) == pam_update_vector([cur |-> 1], 0, dur, f0)
        Dist(a, b) == IF a < b THEN b - a ELSE a - b
    IN  /\ \A dur \in 0 .. 700 :
               LET q == 10 * Update(dur, 0).DUR
               IN  /\ dur \in 40 .. 160 => Dist(q, dur) =< 10
                   /\ dur \in 170 .. 649 => Dist(q, dur) =< 60 /\ q % 100 = 0
                   /\ q \in 40 .. 600 /\ q =< 10 * Update(dur + 1, 0).DUR
        /\ \A f0 \in 90 .. 374 : LET q == 10 * Update(0, f0).F0
                                IN  q \in 90 .. 360 /\ Dist(q, f0) =< 15

\* Each phone is put with the features and for the time it is meant to have
\* (picopam.c:1377, 1518, 1605, 1721, 1896 and picodata.c:767).
PhonesAsMeant ==
    pass = "DONE" =>
        /\ \A c \in DOMAIN pam.f : \A k \in 0 .. pam.f[c].B3 - 1 :
               VectorAsMeant(c, k, pam.f[c].FID + k + 1)
        /\ \A c \in DOMAIN pam.f, frames \in Frames :
               pam.f[c].P1 = 1 => PauseAsAsked(c, frames)
        /\ Len(PhonesFed) = Len(pam.phIds)
        /\ StretchedInFull /\ Reorganised /\ Quantized
=============================================================================
