--------------------------- MODULE PhoneFeatures ---------------------------
(***************************************************************************)
(* How picopam.c works out the features its decision trees are asked with: *)
(* every syllable of a sentence, and every pause, gets a vector of numbers  *)
(* that say where in its word, secondary and primary phrase it is and what  *)
(* stands around it.  A forward pass counts while the items come in, a      *)
(* backward pass counts from the sentence's end, and the pauses take theirs *)
(* from their neighbours.  For each phone the vector is then completed,     *)
(* compressed and brought in the order of the trees.                        *)
(*                                                                          *)
(* A pass is a state s:                                                     *)
(*    cur    nCurrSyllable, f   sSyllFeats: the vector of each syllable,    *)
(*    n      the counters of the processors, under their names in the code, *)
(*    sType, pType   sentence and phrase type, phIds   sPhIds.              *)
(* An item is [type, kind, sort, acc, phones, min, max]: a BOUND with its   *)
(* kind and sort (PHR1, Q) and, unless both are 0, limits for its pause; or *)
(* a SYLLPHON with its accent and phones.                                   *)
(***************************************************************************)
EXTENDS Integers, Sequences, TLC, Durations
LOCAL INSTANCE SequencesExt

CONSTANT Vowels    \* the phones picoktab_isSyllCarrier holds for

VARIABLES pass,    \* FORWARD, BACKWARD, PAUSES or DONE; BEGUN before a sentence's first
                   \* syllable, AT_SYLL between a bound and the syllable before it
          pam,     \* the unit's state in the pass
          fed      \* history: the items of the sentence

DontCare == 250    \* PICOPAM_DONT_CARE_VALUE
DontCareVal == 10  \* PICOPAM_DONT_CARE_VAL
PhDontCare == 7    \* PICOPAM_PH_DONT_CARE_VAL
PauseId == 100     \* what pam_get_pause_id returns

DECLARATIVE == 0
INTERROGATIVE == 1

\* The fields of a vector: bnd, which shares its byte with P7, has a field of
\* its own; ITM is left out (see AcousticMapping).
Fields == {"P1", "P2", "P3", "P4", "P5", "P6", "P7", "P8", "bnd", "A3",
           "B1", "B2", "B3", "B4", "B5", "B6", "B7", "B8", "B9", "B10", "B11", "B12", "B13",
           "B14", "B15", "B16", "B17", "B18", "B19", "B20", "B21", "C3", "D2",
           "E1", "E2", "E3", "E4", "E5", "E6", "E7", "E8", "E9", "E10", "E11", "E12", "E13",
           "F2", "G1", "G2", "H1", "H2", "H3", "H4", "H5", "I1", "I2", "J1", "J2", "J3", "FID",
           "Min", "Max"}

\* Field feat of the syllable at hand, of one before or after it; the code also
\* reads before the first one, a value nobody uses.
Feat(s, feat) == s.f[s.cur][feat]
At(s, i, feat) == IF i \in DOMAIN s.f THEN s.f[i][feat] ELSE 0
Set(s, feat, v) == [s EXCEPT !.f[s.cur][feat] = v]
With(s, changes) == [s EXCEPT !.n = changes @@ s.n]

-----------------------------------------------------------------------------
(* The processors, in the order of their features: each takes an event, a    *)
(* syllable or a primary, secondary or word bound, forwards or backwards.    *)

\* Length of the syllable before.
ProcessA3(s, e, dir) ==
    IF dir = "BACK" THEN s
    ELSE CASE e = "SYLL" ->
               With(Set(s, "A3", IF /\ Feat(s, "P1") = 1 \/ s.n.a3_primary_phrase_syllable >= 1
                                    /\ s.n.a3_overall_syllable >= 1
                                 THEN At(s, s.cur - 1, "B3") ELSE 0),
                    [a3_primary_phrase_syllable |-> s.n.a3_primary_phrase_syllable + 1,
                     a3_overall_syllable |-> s.n.a3_overall_syllable + 1])
           [] e = "P" -> With(s, [a3_primary_phrase_syllable |-> 0])
           [] OTHER -> s

\* Position in the word, from its begin (B4) and its end (B5).
ProcessB4(s, e, dir) ==
    LET dest == IF dir = "FORW" THEN "B4" ELSE "B5"
    IN  CASE e = "SYLL" /\ Feat(s, "P1") = 0 ->
               With(Set(s, dest, s.n.b4_b5_syllable), [b4_b5_syllable |-> s.n.b4_b5_syllable + 1])
          [] e = "SYLL" /\ Feat(s, "P1") # 0 -> Set(s, dest, 0)
          [] OTHER -> With(s, [b4_b5_syllable |-> 1])

\* Position in the secondary phrase, after a secondary bound.
ProcessB6(s, e, dir) ==
    LET dest == IF dir = "FORW" THEN "B6" ELSE "B7"
    IN  CASE e = "SYLL" /\ s.n.b6_b7_state = 0 -> Set(s, dest, DontCare)
          [] e = "SYLL" /\ s.n.b6_b7_state = 1 ->
               With(Set(s, dest, s.n.b6_b7_syllable), [b6_b7_syllable |-> s.n.b6_b7_syllable + 1])
          [] e = "S" -> With(s, [b6_b7_syllable |-> 1, b6_b7_state |-> 1])
          [] e = "P" -> With(s, [b6_b7_state |-> 0])
          [] OTHER -> s

\* Stressed syllables before and after in the primary phrase.
ProcessB8(s, e, dir) ==
    CASE e = "SYLL" ->
           With(Set(s, IF dir = "FORW" THEN "B8" ELSE "B9", s.n.b8_b9_stressed_syllable),
                [b8_b9_stressed_syllable |->
                     s.n.b8_b9_stressed_syllable + IF Feat(s, "B1") = 1 THEN 1 ELSE 0])
      [] e = "P" -> With(s, [b8_b9_stressed_syllable |-> 0])
      [] OTHER -> s

\* Accented syllables before and after in the primary phrase.
ProcessB10(s, e, dir) ==
    CASE e = "SYLL" ->
           With(Set(s, IF dir = "FORW" THEN "B10" ELSE "B11", s.n.b10_b11_accented_syllable),
                [b10_b11_accented_syllable |->
                     s.n.b10_b11_accented_syllable + IF Feat(s, "B2") = 1 THEN 1 ELSE 0])
      [] e = "P" -> With(s, [b10_b11_accented_syllable |-> 0])
      [] OTHER -> s

\* Syllables since the last stressed one, and to the next.
ProcessB12(s, e, dir) ==
    LET dest == IF dir = "FORW" THEN "B12" ELSE "B13"
        stressed == Feat(s, "B1") = 1
    IN  CASE e = "SYLL" /\ s.n.b12_b13_state = 0 ->
               With(Set(s, dest, DontCare),
                    IF stressed THEN [b12_b13_syllable |-> 0, b12_b13_state |-> 1] ELSE <<>>)
          [] e = "SYLL" /\ s.n.b12_b13_state # 0 ->
               With(Set(s, dest, s.n.b12_b13_syllable),
                    [b12_b13_syllable |-> IF stressed THEN 0 ELSE s.n.b12_b13_syllable + 1,
                     b12_b13_state |-> 2])
          [] e = "P" -> With(s, [b12_b13_state |-> 0])
          [] OTHER -> s

\* Syllables since the last accented one, and to the next.
ProcessB14(s, e, dir) ==
    LET dest == IF dir = "FORW" THEN "B14" ELSE "B15"
        accented == Feat(s, "B2") = 1
    IN  CASE e = "SYLL" /\ s.n.b14_b15_state = 0 ->
               With(Set(s, dest, DontCare),
                    IF accented THEN [b14_b15_syllable |-> 0, b14_b15_state |-> 1] ELSE <<>>)
          [] e = "SYLL" /\ s.n.b14_b15_state # 0 ->
               With(Set(s, dest, s.n.b14_b15_syllable),
                    [b14_b15_syllable |-> IF accented THEN 0 ELSE s.n.b14_b15_syllable + 1,
                     b14_b15_state |-> 2])
          [] e = "P" -> With(s, [b14_b15_state |-> 0])
          [] OTHER -> s

\* Position in the primary phrase: B19 in the sentence's first phrase, B17 after.
ProcessB17(s, e, dir) ==
    LET first == s.n.b17_b19_state = 0
    IN  CASE dir = "BACK" -> s
          [] dir = "FORW" /\ e = "SYLL" ->
               With(Set(Set(s, "B17", IF first THEN DontCare ELSE s.n.b17_b19_syllable),
                        "B19", IF first THEN s.n.b17_b19_syllable ELSE DontCare),
                    [b17_b19_syllable |-> s.n.b17_b19_syllable + 1])
          [] dir = "FORW" /\ e \in {"P", "S"} /\ (~ first \/ s.n.b17_b19_syllable > 1) ->
               With(s, [b17_b19_syllable |-> IF e = "P" THEN 1 ELSE s.n.b17_b19_syllable,
                        b17_b19_state |-> 1])
          [] OTHER -> s

\* Position from the end: B20 or, in a question, B21 in the last phrase, B18 before.
ProcessB18(s, e, dir) ==
    LET last == s.n.b18_b20_b21_state = 0
        declarative == Feat(s, "P6") = DECLARATIVE
        Value(here) == IF here THEN s.n.b18_b20_b21_syllable ELSE DontCare
    IN  CASE dir = "FORW" -> s
          [] dir = "BACK" /\ e = "SYLL" ->
               With(Set(Set(Set(s, "B18", Value(~ last)),
                            "B20", Value(last /\ declarative)),
                        "B21", Value(last /\ ~ declarative)),
                    [b18_b20_b21_syllable |-> s.n.b18_b20_b21_syllable + 1])
          [] dir = "BACK" /\ e \in {"P", "S"} /\ (~ last \/ s.n.b18_b20_b21_syllable > 1) ->
               With(s, [b18_b20_b21_syllable |-> IF e = "P" THEN 1 ELSE s.n.b18_b20_b21_syllable,
                        b18_b20_b21_state |-> 1])
          [] OTHER -> s

\* Length of the next syllable.
ProcessC3(s, e, dir) ==
    IF dir = "FORW" THEN s
    ELSE CASE e = "SYLL" ->
               With(Set(s, "C3", IF /\ Feat(s, "P1") = 1 \/ s.n.c3_primary_phrase_syllable >= 1
                                    /\ s.n.c3_overall_syllable >= 1
                                 THEN At(s, s.cur + 1, "B3") ELSE 0),
                    [c3_primary_phrase_syllable |-> s.n.c3_primary_phrase_syllable + 1,
                     c3_overall_syllable |-> s.n.c3_overall_syllable + 1])
           [] e = "P" -> With(s, [c3_primary_phrase_syllable |-> 0])
           [] OTHER -> s

\* Length of the word before.
ProcessD2(s, e, dir) ==
    IF dir = "BACK" THEN s
    ELSE IF e = "SYLL"
    THEN With(Set(s, "D2", IF Feat(s, "P1") = 1 \/ s.n.d2_current_primary_phrase_word >= 1
                           THEN s.n.d2_prev_syllable_in_word ELSE 0),
              [d2_syllable_in_word |-> s.n.d2_syllable_in_word + 1])
    ELSE With(s, [d2_current_primary_phrase_word |-> IF e = "P" THEN 0 ELSE 1,
                  d2_prev_syllable_in_word |-> s.n.d2_syllable_in_word,
                  d2_syllable_in_word |-> 0])

\* The syllables of a word get a value at its end.
SetWord(s, from, to, feat, v) ==
    IF from = -1 \/ to = -1 THEN s
    ELSE [s EXCEPT !.f = [i \in DOMAIN s.f |->
                              IF i \in from .. to THEN [s.f[i] EXCEPT ![feat] = v] ELSE s.f[i]]]

\* Is this a content word?
ProcessE1(s, e, dir) ==
    IF dir = "BACK" THEN s
    ELSE IF e = "SYLL"
    THEN With(s, [e1_syllable_word_start |-> IF s.n.e1_syllable_word_start = -1 THEN s.cur
                                             ELSE s.n.e1_syllable_word_start,
                  e1_content |-> IF Feat(s, "P5") = 1 THEN 1 ELSE s.n.e1_content,
                  e1_syllable_word_end |-> s.cur])
    ELSE With(SetWord(s, s.n.e1_syllable_word_start, s.n.e1_syllable_word_end, "E1", s.n.e1_content),
              [e1_content |-> 0, e1_syllable_word_start |-> -1, e1_syllable_word_end |-> -1])

\* Length of the word; it is e1_content that it clears.
ProcessE2(s, e, dir) ==
    IF dir = "BACK" THEN s
    ELSE IF e = "SYLL"
    THEN With(s, [e2_syllable_word_start |-> IF s.n.e2_syllable_word_start = -1 THEN s.cur
                                             ELSE s.n.e2_syllable_word_start,
                  e2_syllable_word_end |-> s.cur])
    ELSE With(SetWord(s, s.n.e2_syllable_word_start, s.n.e2_syllable_word_end, "E2",
                      s.n.e2_syllable_word_end - s.n.e2_syllable_word_start + 1),
              [e1_content |-> 0, e2_syllable_word_start |-> -1, e2_syllable_word_end |-> -1])

\* Words in the secondary phrase before and after, beside a secondary bound.
ProcessE3(s, e, dir) ==
    CASE e = "SYLL" -> Set(s, IF dir = "FORW" THEN "E3" ELSE "E4",
                           IF s.n.e3_e4_state = 0 THEN DontCare ELSE s.n.e3_e4_word)
      [] e = "S" -> With(s, [e3_e4_word |-> 1, e3_e4_state |-> 1])
      [] e = "W" /\ s.n.e3_e4_state = 1 -> With(s, [e3_e4_word |-> s.n.e3_e4_word + 1])
      [] e = "P" -> With(s, [e3_e4_state |-> 0])
      [] OTHER -> s

\* Content words before and after in the primary phrase.
ProcessE5(s, e, dir) ==
    IF e = "SYLL"
    THEN With(Set(s, IF dir = "FORW" THEN "E5" ELSE "E6", s.n.e5_e6_content_word),
              [e5_e6_content |-> IF Feat(s, "P5") = 1 THEN 1 ELSE s.n.e5_e6_content])
    ELSE With(s, [e5_e6_content_word |-> IF e = "P" THEN 0
                                         ELSE s.n.e5_e6_content_word + s.n.e5_e6_content,
                  e5_e6_content |-> 0])

\* Mutant of ProcessE7: a content word at the end of a primary phrase counts in
\* the next one.
ProcessE7Kept(s, e, dir) ==
    CASE e = "SYLL" ->
           With(Set(s, IF dir = "FORW" THEN "E7" ELSE "E8",
                    IF s.n.e7_e8_state = 0 THEN DontCare ELSE s.n.e7_e8_word),
                [e7_e8_content |-> IF Feat(s, "P5") = 1 THEN 1 ELSE s.n.e7_e8_content])
      [] e \in {"W", "S"} /\ s.n.e7_e8_content = 1 ->
           With(s, [e7_e8_word |-> 0, e7_e8_content |-> 0, e7_e8_state |-> 1])
      [] e \in {"W", "S"} /\ s.n.e7_e8_content = 0 /\ s.n.e7_e8_state = 1 ->
           With(s, [e7_e8_word |-> s.n.e7_e8_word + 1])
      [] e = "P" -> With(s, [e7_e8_state |-> 0])
      [] OTHER -> s

\* Words since the last content word, and to the next.
ProcessE7(s, e, dir) ==
    CASE e = "SYLL" ->
           With(Set(s, IF dir = "FORW" THEN "E7" ELSE "E8",
                    IF s.n.e7_e8_state = 0 THEN DontCare ELSE s.n.e7_e8_word),
                [e7_e8_content |-> IF Feat(s, "P5") = 1 THEN 1 ELSE s.n.e7_e8_content])
      [] e \in {"W", "S"} /\ s.n.e7_e8_content = 1 ->
           With(s, [e7_e8_word |-> 0, e7_e8_content |-> 0, e7_e8_state |-> 1])
      [] e \in {"W", "S"} /\ s.n.e7_e8_content = 0 /\ s.n.e7_e8_state = 1 ->
           With(s, [e7_e8_word |-> s.n.e7_e8_word + 1])
      [] e = "P" -> With(s, [e7_e8_state |-> 0, e7_e8_content |-> 0])
      [] OTHER -> s

\* The word's position: E11 in the sentence's first phrase, E9 after.
ProcessE9(s, e, dir) ==
    LET first == s.n.e9_e11_state = 0
        next == IF e = "P" THEN 1 ELSE s.n.e9_e11_word + 1
    IN  CASE dir = "BACK" -> s
          [] dir = "FORW" /\ e = "SYLL" ->
               With(Set(Set(s, "E9", IF first THEN DontCare ELSE s.n.e9_e11_word),
                        "E11", IF first THEN s.n.e9_e11_word ELSE DontCare),
                    IF first THEN [e9_e11_saw_word |-> 1] ELSE <<>>)
          [] dir = "FORW" /\ (e = "W" \/ (e \in {"P", "S"} /\ ~ first)) ->
               With(s, [e9_e11_word |-> next])
          [] dir = "FORW" /\ e \in {"P", "S"} /\ first /\ s.n.e9_e11_saw_word = 1 ->
               With(s, [e9_e11_word |-> next, e9_e11_state |-> 1])
          [] OTHER -> s

\* The word's position from the end: E12 or, in a question, E13 in the last
\* phrase, E10 before.
ProcessE10(s, e, dir) ==
    LET last == s.n.e10_e12_e13_state = 0
        declarative == Feat(s, "P6") = DECLARATIVE
        next == IF e = "P" THEN 1 ELSE s.n.e10_e12_e13_word + 1
        Value(here) == IF here THEN s.n.e10_e12_e13_word ELSE DontCare
    IN  CASE dir = "FORW" -> s
          [] dir = "BACK" /\ e = "SYLL" ->
               With(Set(Set(Set(s, "E10", Value(~ last)),
                            "E12", Value(last /\ declarative)),
                        "E13", Value(last /\ ~ declarative)),
                    IF last THEN [e10_e12_e13_saw_word |-> 1] ELSE <<>>)
          [] dir = "BACK" /\ (e = "W" \/ (e \in {"P", "S"} /\ ~ last)) ->
               With(s, [e10_e12_e13_word |-> next])
          [] dir = "BACK" /\ e \in {"P", "S"} /\ last /\ s.n.e10_e12_e13_saw_word > 0 ->
               With(s, [e10_e12_e13_word |-> next, e10_e12_e13_state |-> 1])
          [] OTHER -> s

\* Length of the next word.
ProcessF2(s, e, dir) ==
    IF dir = "FORW" THEN s
    ELSE IF e = "SYLL"
    THEN With(Set(s, "F2", IF s.n.f2_current_primary_phrase_word >= 1
                           THEN s.n.f2_next_word_syllable ELSE 0),
              [f2_word_syllable |-> s.n.f2_word_syllable + 1])
    ELSE With(s, [f2_next_word_syllable |-> s.n.f2_word_syllable,
                  f2_word_syllable |-> 0,
                  f2_current_primary_phrase_word |->
                      IF e = "P" THEN 0 ELSE s.n.f2_current_primary_phrase_word + 1])

\* Syllables of the secondary phrase before.
ProcessG1(s, e, dir) ==
    CASE dir = "FORW" /\ e = "SYLL" ->
           With(Set(s, "G1", s.n.g1_current_secondary_phrase_syllable),
                [g1_current_syllable |-> s.n.g1_current_syllable + 1])
      [] dir = "FORW" /\ e \in {"S", "P"} ->
           With(s, [g1_current_secondary_phrase_syllable |->
                        IF e = "S" THEN s.n.g1_current_syllable ELSE 0,
                    g1_current_syllable |-> 0])
      [] OTHER -> s

\* Words of the secondary phrase before.
ProcessG2(s, e, dir) ==
    CASE dir = "FORW" /\ e = "SYLL" -> Set(s, "G2", s.n.g2_current_secondary_phrase_word)
      [] dir = "FORW" /\ e = "W" -> With(s, [g2_current_word |-> s.n.g2_current_word + 1])
      [] dir = "FORW" /\ e \in {"S", "P"} ->
           With(s, [g2_current_secondary_phrase_word |->
                        IF e = "S" THEN s.n.g2_current_word + 1 ELSE 0,
                    g2_current_word |-> 0])
      [] OTHER -> s

\* Syllables of the secondary phrase: counted forwards, spread backwards.
ProcessH1(s, e, dir) ==
    LET h1 == s.n.h1_current_secondary_phrase_syll
    IN  CASE dir = "FORW" /\ e = "SYLL" ->
               With(Set(s, "H1", h1 + 1), [h1_current_secondary_phrase_syll |-> h1 + 1])
          [] dir = "FORW" /\ e \in {"S", "P"} -> With(s, [h1_current_secondary_phrase_syll |-> 0])
          [] dir = "BACK" /\ e = "SYLL" -> Set(s, "H1", h1)
          [] dir = "BACK" /\ e = "S" ->
               With(s, [h1_current_secondary_phrase_syll |-> Feat(s, "H1")])
          [] dir = "BACK" /\ e = "P" ->
               With(s, [h1_current_secondary_phrase_syll |-> At(s, s.cur - 1, "H1")])
          [] OTHER -> s

\* Words of the secondary phrase: put at its end forwards, spread backwards.
ProcessH2(s, e, dir) ==
    LET h2 == s.n.h2_current_secondary_phrase_word
        Counted(c) == [h2_current_secondary_phrase_word |-> c]
    IN  CASE e = "SYLL" -> Set(s, "H2", h2)
          [] dir = "FORW" /\ e = "W" -> With(Set(s, "H2", h2 + 1), Counted(h2 + 1))
          [] dir = "FORW" /\ e = "S" -> With(Set(s, "H2", h2 + 1), Counted(0))
          [] dir = "FORW" /\ e = "P" ->
               With(IF s.cur > 1 THEN [s EXCEPT !.f[s.cur - 1].H2 = h2 + 1] ELSE s, Counted(0))
          [] dir = "BACK" /\ e = "S" -> With(s, Counted(Feat(s, "H2")))
          [] dir = "BACK" /\ e = "P" -> With(s, Counted(At(s, s.cur - 1, "H2")))
          [] OTHER -> s

\* The secondary phrase's position in the sentence, from its begin and its end.
ProcessH3(s, e, dir) ==
    LET h3 == s.n.h3_h4_current_secondary_phrase_word
    IN  CASE e = "SYLL" -> Set(s, IF dir = "FORW" THEN "H3" ELSE "H4", h3)
          [] e \in {"S", "P"} -> With(s, [h3_h4_current_secondary_phrase_word |-> h3 + 1])
          [] OTHER -> s

\* The phrase type: P becomes p before a secondary bound.
ProcessH5(s, e, dir) ==
    CASE dir = "BACK" /\ e = "S" -> With(s, [h5_state |-> 1])
      [] dir = "BACK" /\ e = "P" -> With(s, [h5_state |-> 0])
      [] dir = "BACK" /\ e = "SYLL" /\ s.n.h5_state = 1
         /\ Feat(s, "H5") = "P" /\ Feat(s, "P1") = 0 -> Set(s, "H5", "p")
      [] OTHER -> s

\* Syllables of the next secondary phrase.
ProcessI1(s, e, dir) ==
    LET i1 == s.n.i1_secondary_phrase_syllable
    IN  CASE dir = "FORW" /\ e = "SYLL" ->
               With(Set(s, "I1", i1 + 1), [i1_secondary_phrase_syllable |-> i1 + 1])
          [] dir = "FORW" /\ e \in {"S", "P"} -> With(s, [i1_secondary_phrase_syllable |-> 0])
          [] dir = "BACK" /\ e = "SYLL" -> Set(s, "I1", s.n.i1_next_secondary_phrase_syllable)
          [] dir = "BACK" /\ e \in {"S", "P"} ->
               With(s, [i1_next_secondary_phrase_syllable |-> IF e = "S" THEN i1 ELSE 0,
                        i1_secondary_phrase_syllable |->
                            At(s, IF e = "S" THEN s.cur ELSE s.cur - 1, "I1")])
          [] OTHER -> s

\* Words of the next secondary phrase.
ProcessI2(s, e, dir) ==
    LET i2 == s.n.i2_secondary_phrase_word
    IN  CASE dir = "FORW" /\ e = "SYLL" -> Set(s, "I2", i2)
          [] dir = "FORW" /\ e # "SYLL" ->
               With(s, [i2_secondary_phrase_word |-> IF e = "W" THEN i2 + 1 ELSE 1])
          [] dir = "BACK" /\ e = "SYLL" -> Set(s, "I2", s.n.i2_next_secondary_phrase_word)
          [] dir = "BACK" /\ e \in {"S", "P"} ->
               With(s, [i2_next_secondary_phrase_word |-> IF e = "S" THEN i2 ELSE 0,
                        i2_secondary_phrase_word |->
                            At(s, IF e = "S" THEN s.cur ELSE s.cur - 1, "I2")])
          [] OTHER -> s

\* Syllables of the sentence.
ProcessJ1(s, e, dir) ==
    CASE dir = "BACK" -> Set(s, "J1", s.n.j1_utterance_syllable)
      [] dir = "FORW" /\ e = "SYLL" /\ Feat(s, "P1") # 1 ->
           With(s, [j1_utterance_syllable |-> s.n.j1_utterance_syllable + 1])
      [] OTHER -> s

\* Words of the sentence: the bounds but its begin.
ProcessJ2(s, e, dir) ==
    CASE dir = "BACK" -> Set(s, "J2", s.n.j2_utterance_word - 1)
      [] dir = "FORW" /\ e # "SYLL" -> With(s, [j2_utterance_word |-> s.n.j2_utterance_word + 1])
      [] OTHER -> s

\* Secondary phrases of the sentence.
ProcessJ3(s, e, dir) ==
    CASE dir = "BACK" -> Set(s, "J3", s.n.j3_utterance_sec_phrases - 1)
      [] dir = "FORW" /\ e \in {"S", "P"} ->
           With(s, [j3_utterance_sec_phrases |-> s.n.j3_utterance_sec_phrases + 1])
      [] OTHER -> s

-----------------------------------------------------------------------------
(* The passes.                                                              *)

Processors == <<"A3", "B4", "B6", "B8", "B10", "B12", "B14", "B17", "B18", "C3", "D2",
                "E1", "E2", "E3", "E5", "E7", "E9", "E10", "F2",
                "G1", "G2", "H1", "H2", "H3", "H5", "I1", "I2", "J1", "J2", "J3">>

pam_process_event_feature(s, feature, e, dir) ==
    CASE feature = "A3" -> ProcessA3(s, e, dir)   [] feature = "B4" -> ProcessB4(s, e, dir)
      [] feature = "B6" -> ProcessB6(s, e, dir)   [] feature = "B8" -> ProcessB8(s, e, dir)
      [] feature = "B10" -> ProcessB10(s, e, dir) [] feature = "B12" -> ProcessB12(s, e, dir)
      [] feature = "B14" -> ProcessB14(s, e, dir) [] feature = "B17" -> ProcessB17(s, e, dir)
      [] feature = "B18" -> ProcessB18(s, e, dir) [] feature = "C3" -> ProcessC3(s, e, dir)
      [] feature = "D2" -> ProcessD2(s, e, dir)   [] feature = "E1" -> ProcessE1(s, e, dir)
      [] feature = "E2" -> ProcessE2(s, e, dir)   [] feature = "E3" -> ProcessE3(s, e, dir)
      [] feature = "E5" -> ProcessE5(s, e, dir)   [] feature = "E7" -> ProcessE7(s, e, dir)
      [] feature = "E9" -> ProcessE9(s, e, dir)   [] feature = "E10" -> ProcessE10(s, e, dir)
      [] feature = "F2" -> ProcessF2(s, e, dir)   [] feature = "G1" -> ProcessG1(s, e, dir)
      [] feature = "G2" -> ProcessG2(s, e, dir)   [] feature = "H1" -> ProcessH1(s, e, dir)
      [] feature = "H2" -> ProcessH2(s, e, dir)   [] feature = "H3" -> ProcessH3(s, e, dir)
      [] feature = "H5" -> ProcessH5(s, e, dir)   [] feature = "I1" -> ProcessI1(s, e, dir)
      [] feature = "I2" -> ProcessI2(s, e, dir)   [] feature = "J1" -> ProcessJ1(s, e, dir)
      [] feature = "J2" -> ProcessJ2(s, e, dir)   [] feature = "J3" -> ProcessJ3(s, e, dir)

\* Forwards a bound is marked at the syllable before it, for the backward pass.
pam_process_event(s, e, dir) ==
    LET marked == CASE dir = "FORW" /\ e = "P" -> Set(s, "P2", 1)
                    [] dir = "FORW" /\ e = "S" -> Set(s, "P3", 1)
                    [] dir = "FORW" /\ e = "W" -> Set(s, "P4", 1)
                    [] OTHER -> s
    IN  FoldLeft(LAMBDA t, feature : pam_process_event_feature(t, feature, e, dir), marked, Processors)

ToOne == {"b4_b5_syllable", "b17_b19_syllable", "b18_b20_b21_syllable", "e9_e11_word",
          "e10_e12_e13_word", "e7_e8_word", "h2_current_secondary_phrase_word"}
ToNone == {"e1_syllable_word_start", "e1_syllable_word_end",
           "e2_syllable_word_start", "e2_syllable_word_end"}
ToZero == {"a3_overall_syllable", "a3_primary_phrase_syllable", "b6_b7_syllable", "b6_b7_state",
           "b8_b9_stressed_syllable", "b10_b11_accented_syllable", "b12_b13_syllable",
           "b12_b13_state", "b14_b15_syllable", "b14_b15_state", "b17_b19_state",
           "b18_b20_b21_state", "c3_overall_syllable", "c3_primary_phrase_syllable",
           "d2_syllable_in_word", "d2_prev_syllable_in_word", "d2_current_primary_phrase_word",
           "e1_content", "e3_e4_word", "e3_e4_state", "e5_e6_content_word", "e5_e6_content",
           "e7_e8_content", "e7_e8_state", "e9_e11_saw_word", "e9_e11_state",
           "e10_e12_e13_state", "e10_e12_e13_saw_word", "f2_word_syllable",
           "f2_next_word_syllable", "f2_current_primary_phrase_word",
           "g1_current_secondary_phrase_syllable", "g1_current_syllable",
           "g2_current_secondary_phrase_word", "g2_current_word",
           "h1_current_secondary_phrase_syll", "h3_h4_current_secondary_phrase_word", "h5_state",
           "i1_secondary_phrase_syllable", "i1_next_secondary_phrase_syllable",
           "i2_secondary_phrase_word", "i2_next_secondary_phrase_word"}
OfUtterance == {"j1_utterance_syllable", "j2_utterance_word", "j3_utterance_sec_phrases"}

Started(names) == [c \in names |-> IF c \in ToOne THEN 1 ELSE IF c \in ToNone THEN -1 ELSE 0]

\* At a sentence begin; the backward pass keeps the totals of the forward one.
pam_reset_processors(s) ==
    [s EXCEPT !.cur = -1, !.n = Started(ToZero \union ToOne \union ToNone \union OfUtterance),
              !.sType = DECLARATIVE, !.pType = "T", !.phIds = <<>>, !.total = 0]
pam_reset_processors_back(s) == With(s, Started(ToZero \union ToOne \union ToNone))

pam_map_sentence_type(sort) == IF sort = "Q" THEN INTERROGATIVE ELSE DECLARATIVE
pam_map_phrase_type(kind, sort) ==
    CASE sort = "P" -> IF kind = "PHR3" THEN "p" ELSE "P"
      [] sort = "Q" -> "Y"
      [] OTHER -> "T"

pam_get_vowel_name(phones) ==
    LET carriers == {i \in DOMAIN phones : phones[i] \in Vowels}
        first == CHOOSE i \in carriers : \A j \in carriers : i =< j
    IN  IF carriers = {} THEN [name |-> 0, pos |-> 0]
        ELSE [name |-> phones[first], pos |-> first - 1]

\* A new syllable, all of whose fields are 0 but those of changes.
Opened(s, changes, phones) ==
    LET zero == [x \in Fields |-> 0]
    IN  [s EXCEPT !.cur = s.cur + 1,
                  !.f = [i \in 0 .. s.cur + 1 |->
                             IF i =< s.cur THEN s.f[i]
                             ELSE [P6 |-> s.sType, H5 |-> s.pType, FID |-> Len(s.phIds)]
                                  @@ changes @@ zero],
                  !.phIds = s.phIds \o phones,
                  !.total = s.total + 1]

pam_create_pause(s, kind, limits) ==
    LET default == get_default_boundary_limit(kind)
        asked == IF limits.min = 0 /\ limits.max = 0 THEN default ELSE limits
    IN  Opened(s, [Min |-> asked.min, Max |-> asked.max,
               bnd |-> kind, P1 |-> 1, P8 |-> 1, B3 |-> 1, B4 |-> 1, B5 |-> 1, B6 |-> 1, B7 |-> 1,
               B16 |-> PhDontCare, E2 |-> 1, E3 |-> 1, E4 |-> 1], <<PauseId>>)

pam_create_syllable(s, x) ==
    LET Flag(holds) == IF holds THEN 1 ELSE 0
        vowel == pam_get_vowel_name(x.phones)
    IN  Opened(s, [bnd |-> "NONE", P5 |-> Flag(x.acc > 0), B1 |-> Flag(x.acc \in 1 .. 4),
                   B2 |-> Flag(x.acc \in 1 .. 2), B3 |-> Len(x.phones),
                   B16 |-> vowel.name, P8 |-> vowel.pos], x.phones)

Typed(s, x) == [s EXCEPT !.sType = pam_map_sentence_type(x.sort),
                         !.pType = pam_map_phrase_type(x.kind, x.sort)]
Paused(s, kind, limits) == pam_process_event(pam_create_pause(s, kind, limits), "P", "FORW")

\* One item of a sentence.
pam_adapter_forward_step(s, x) ==
    CASE x.type = "SYLLPHON" ->
           pam_process_event(pam_create_syllable(s, x), "SYLL", "FORW")
      [] x.type = "BOUND" /\ x.kind = "SBEG" -> Paused(Typed(pam_reset_processors(s), x), x.kind, x)
      [] x.type = "BOUND" /\ x.kind \in {"PHR1", "PHR2"} -> Paused(Typed(s, x), x.kind, x)
      [] x.type = "BOUND" /\ x.kind = "PHR3" -> Typed(pam_process_event(s, "S", "FORW"), x)
      [] x.type = "BOUND" /\ x.kind = "PHR0" -> pam_process_event(s, "W", "FORW")
      [] x.type = "BOUND" /\ (x.kind = "SEND" \/ (x.kind = "TERM" /\ s.cur # -1)) ->
           Paused(s, x.kind, x)
      [] OTHER -> s

\* A pause takes what it can from the syllable before and from the next.
pam_do_pause(s) ==
    LET here == s.f[s.cur]
        last == s.f[s.cur - 1]
        next == s.f[s.cur + 1]
        before == IF s.cur > 0
                  THEN [A3 |-> last.B3, B8 |-> last.B8, B10 |-> last.B10, B12 |-> last.B12,
                        B14 |-> last.B14, B17 |-> last.B17, B19 |-> last.B19, B20 |-> last.B20,
                        B21 |-> last.B21, D2 |-> last.E2, G1 |-> last.H1, G2 |-> last.H2,
                        E5 |-> last.E5, E7 |-> last.E7, E9 |-> last.E9, E11 |-> last.E11,
                        E12 |-> last.E12, E13 |-> last.E13,
                        H1 |-> last.H1, H2 |-> last.H2, H3 |-> last.H3, H4 |-> last.H4]
                  ELSE [feat \in {"A3", "B8", "B10", "B12", "B14", "B17", "B19", "B20", "B21",
                                  "E5", "E9", "E11", "E12", "H1", "H2", "H3"} |-> 0]
                       @@ [H4 |-> here.J3, H5 |-> "p"]
        after == IF s.cur < s.total - 1
                 THEN [C3 |-> next.B3, F2 |-> next.E2, I1 |-> next.H1, I2 |-> next.H2]
                 ELSE [C3 |-> 0, F2 |-> 0, I1 |-> 0, I2 |-> 0]
    IN  [s EXCEPT !.f[s.cur] = [B18 |-> 0] @@ before @@ after @@ here]

\* What a unit without a sentence knows: also after one, whose vectors a new
\* syllable overwrites.
NoSentence == pam_reset_processors([cur |-> -1, f |-> [i \in {} |-> 0], n |-> [c \in {} |-> 0],
                                    sType |-> DECLARATIVE, pType |-> "T", phIds |-> <<>>,
                                    total |-> 0])

Init == pass = "FORWARD" /\ pam = NoSentence /\ fed = <<>>

\* A syllable without a sentence begins one: first its pause.
Begin == /\ pass = "FORWARD" /\ pam.cur = -1
         /\ pam' = Paused(pam_reset_processors(pam), "SBEG", [min |-> 0, max |-> 0])
         /\ pass' = "BEGUN"
         /\ UNCHANGED fed

\* One item; the sentence's end begins the backward pass.
Forward(x) ==
    LET next == pam_adapter_forward_step(pam, x)
    IN  /\ pass = "FORWARD" /\ pam.cur = -1 => x.kind = "SBEG"
        /\ pass = "BEGUN" => x.type = "SYLLPHON"
        /\ pass \in {"FORWARD", "BEGUN"}
        /\ fed' = Append(fed, x)
        /\ IF x.type = "BOUND" /\ x.kind \in {"SEND", "TERM"}
           THEN pass' = "BACKWARD" /\ pam' = pam_reset_processors_back(next)
           ELSE pass' = "FORWARD" /\ pam' = next

\* The loops of pam_adapter_backward_step and pam_adapter_do_pauses, from the
\* last syllable to the first.
Onwards(s, next) ==
    IF s.cur = 0 THEN pass' = next /\ pam' = [s EXCEPT !.cur = s.total - 1]
    ELSE /\ pass' = IF pass = "PAUSES" THEN pass ELSE "BACKWARD"
         /\ pam' = [s EXCEPT !.cur = s.cur - 1]

\* A pause is a bound and no syllable.
BackwardPause == /\ pass = "BACKWARD" /\ Feat(pam, "P2") = 1
                 /\ Onwards(pam_process_event(pam, "P", "BACK"), "PAUSES")
                 /\ UNCHANGED fed

\* The bound after a syllable comes before it.
BackwardBound == /\ pass = "BACKWARD" /\ Feat(pam, "P2") # 1
                 /\ Feat(pam, "P3") = 1 \/ Feat(pam, "P4") = 1
                 /\ pam' = pam_process_event(pam, IF Feat(pam, "P3") = 1 THEN "S" ELSE "W", "BACK")
                 /\ pass' = "AT_SYLL"
                 /\ UNCHANGED fed

BackwardSyll == /\ \/ pass = "AT_SYLL"
                   \/ pass = "BACKWARD" /\ \A feat \in {"P2", "P3", "P4"} : Feat(pam, feat) # 1
                /\ Onwards(pam_process_event(pam, "SYLL", "BACK"), "PAUSES")
                /\ UNCHANGED fed

Pauses == /\ pass = "PAUSES"
          /\ Onwards(IF Feat(pam, "P2") = 1 THEN pam_do_pause(pam) ELSE pam, "DONE")
          /\ UNCHANGED fed

\* The phones have been put.
NextSentence == pass = "DONE" /\ pass' = "FORWARD" /\ pam' = NoSentence /\ fed' = <<>>

-----------------------------------------------------------------------------
(* The vector of one phone, number k (from 0) of the syllable at hand.      *)

pam_expand_vector(s, k) ==
    LET here == s.f[s.cur]
        PhoneAt(i) == IF i \in 0 .. Len(s.phIds) - 1 THEN s.phIds[i + 1] ELSE PhDontCare
        at == here.FID + k
    IN  [P1 |-> PhoneAt(at - 2), P2 |-> PhoneAt(at - 1), P3 |-> PhoneAt(at),
         P4 |-> PhoneAt(at + 1), P5 |-> PhoneAt(at + 2),
         P6 |-> k + 1, P7 |-> here.B3 - k, P8 |-> IF k < here.P8 THEN 1 ELSE 0]
        @@ [feat \in Fields \ {"FID", "bnd", "Min", "Max"} |-> here[feat]]

\* Duration in ms and pitch in Hz of the phone, in tens, quantized; the first
\* pause of a sentence is short.
pam_update_vector(s, k, phonDur, f0avg) ==
    LET Quantized(v, q) == ((2 * v + q) \div (2 * q)) * q
        Clamped(v, low, high) == IF v < low THEN low ELSE IF v > high THEN high ELSE v
        short == Clamped(Quantized(IF s.cur = 0 /\ k = 0 THEN 8 ELSE phonDur, 20), 40, 10000)
    IN  [DUR |-> (IF short > 160 THEN Clamped(Quantized(short, 100), 0, 600) ELSE short) \div 10,
         F0 |-> Clamped(Quantized(f0avg, 30), 90, 360) \div 10]

pamCompressComponent(v) ==
    CASE v =< 5 -> v
      [] v \in 6 .. 10 -> 6
      [] v \in 11 .. 20 -> 7
      [] v \in 21 .. 30 -> 8
      [] OTHER -> 9

pamCompressVector(vector) ==
    [feat \in DOMAIN vector |->
         IF feat \in {"P1", "P2", "P3", "P4", "P5", "B1", "B2", "B16", "E1", "H5"}
         THEN vector[feat]
         ELSE IF vector[feat] = DontCare THEN DontCareVal ELSE pamCompressComponent(vector[feat])]

\* The fields of a vector in their order in the code, and those that the trees
\* take in another order, from position 8 on.
InOrder == <<"P1", "P2", "P3", "P4", "P5", "P6", "P7", "P8", "A3",
             "B1", "B2", "B3", "B4", "B5", "B6", "B7", "B8", "B9", "B10", "B11", "B12", "B13",
             "B14", "B15", "B16", "B17", "B18", "B19", "B20", "B21", "C3", "D2",
             "E1", "E2", "E3", "E4", "E5", "E6", "E7", "E8", "E9", "E10", "E11", "E12", "E13",
             "F2", "G1", "G2", "H1", "H2", "H3", "H4", "H5", "I1", "I2", "J1", "J2", "J3",
             "DUR", "F0">>
TreeOrder == <<"B1", "B2", "B3", "B4", "B5", "B6", "B7", "B8", "B9", "B10", "B11", "B12", "B13",
               "B14", "B15", "B16", "B17", "B18", "B19", "B20", "B21",
               "E1", "E2", "E3", "E4", "E5", "E6", "E7", "E8", "E9", "E10", "E11", "E12", "E13",
               "A3", "C3", "D2", "F2", "G1", "I1", "G2", "I2", "H1", "H2", "H3", "H4", "H5">>
Laid(vector) == [i \in 1 .. Len(InOrder) |-> vector[InOrder[i]]]
pamReorgVector(vector) ==
    SubSeq(vector, 1, 8)
    \o [i \in 1 .. Len(TreeOrder) |->
            vector[CHOOSE j \in DOMAIN InOrder : InOrder[j] = TreeOrder[i]]]
    \o SubSeq(vector, 9 + Len(TreeOrder), Len(vector))
=============================================================================
