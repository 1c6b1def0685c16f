------------------------ MODULE AccentuationPhrasing ------------------------
(***************************************************************************)
(* The accentuation and phrasing unit, picoacph.c: it collects a phrase as  *)
(* saStep does, lets two decision trees find secondary phrases and accents, *)
(* and puts the phrase with BOUND items in place of its punctuation.        *)
(*                                                                          *)
(* An item is [n, type, kind, sort, arg, phones]: its number in the text,   *)
(* its type and what the units of the chain look at in its head and its     *)
(* content: of a WORDPHON the accent (sort) and the phones, of a PUNC the   *)
(* kind and sort, of a CMD the kind and its number (arg), of a BOUND its    *)
(* strength (kind), phrase type (sort) and pause (arg).  The classes the    *)
(* phrasing tree finds are left open; the accentuation tree is a parameter, *)
(* asked with the numbers of words and syllables around the word and with   *)
(* its own last answers.  Parts of speech, which both are asked with too,   *)
(* are left out.                                                            *)
(***************************************************************************)
EXTENDS Integers, Sequences
LOCAL INSTANCE FiniteSetsExt
LOCAL INSTANCE SequencesExt
LOCAL INSTANCE TLC

CONSTANTS Cap,          \* items the output buffer takes
          AcphHeadx,    \* PICOACPH_MAXNR_HEADX
          AcphCbuf,     \* PICOACPH_MAXSIZE_CBUF
          MaxItemSize,  \* PICODATA_MAX_ITEMSIZE
          Strengths,    \* classes of the phrasing tree
          AccClass(_)   \* class of the accentuation tree for its inputs

VARIABLES in, out,
          procState,
          boundStrengthState,          \* SSEP: a sentence begins; PPHR: a phrase does
          inspaceok, needsmoreitems,
          headx,        \* [item, strength, sort], from headxBottom on
          atBottom,     \* headxBottom = 0
          cbufLen,
          status        \* RUNNING, or what the last step returned

collecting == <<inspaceok, needsmoreitems, cbufLen>>
vars == <<in, out, procState, boundStrengthState, collecting, headx, atBottom, status>>

Blank == /\ procState = "COLLECT" /\ boundStrengthState = "SSEP"
         /\ inspaceok = TRUE /\ needsmoreitems = TRUE
         /\ headx = <<>> /\ atBottom = TRUE /\ cbufLen = 0
         /\ status = "NONE"

\* acphInitialize, after either reset.
Initialize == /\ procState' = "COLLECT" /\ boundStrengthState' = "SSEP"
              /\ inspaceok' = TRUE /\ needsmoreitems' = TRUE
              /\ headx' = <<>> /\ atBottom' = TRUE /\ cbufLen' = 0
              /\ status' = "NONE"

Call == /\ status # "RUNNING"
        /\ status' = "RUNNING"
        /\ UNCHANGED <<in, out, procState, boundStrengthState, collecting, headx, atBottom>>

At(state) == status = "RUNNING" /\ procState = state

-----------------------------------------------------------------------------
(* COLLECT.                                                                 *)

Collecting == At("COLLECT") /\ inspaceok /\ needsmoreitems

\* A flush command ends a phrase.
Converted(x) == IF x.type = "CMD" /\ x.kind = "FLUSH"
                THEN [x EXCEPT !.type = "PUNC", !.sort = "T"] ELSE x

\* A slot is kept for forcing; space is judged before the item is added.
SpaceFor(n, used) == n < AcphHeadx - 2 /\ AcphCbuf - used >= MaxItemSize

Entry(x) == [item |-> x, strength |-> "NA", sort |-> "NA"]

CollectItem ==
    /\ Collecting /\ in # <<>>
    /\ in' = Tail(in)
    /\ UNCHANGED <<out, procState, boundStrengthState, atBottom>>
    /\ LET x == Converted(Head(in)) IN
       \/ /\ Len(x.phones) =< AcphCbuf - cbufLen
          /\ headx' = Append(headx, Entry(x))
          /\ needsmoreitems' = (x.type # "PUNC")
          /\ inspaceok' = SpaceFor(Len(headx), cbufLen)
          /\ cbufLen' = cbufLen + Len(x.phones)
          /\ UNCHANGED status
       \/ /\ Len(x.phones) > AcphCbuf - cbufLen
          /\ status' = "ERROR"
          /\ UNCHANGED <<headx, collecting>>

CollectNone == /\ Collecting /\ in = <<>>
               /\ status' = "IDLE"
               /\ UNCHANGED <<in, out, procState, boundStrengthState, collecting, headx, atBottom>>

PhraseEnd == /\ At("COLLECT") /\ ~ needsmoreitems
             /\ procState' = "PROCESS_PHR"
             /\ status' = "ATOMIC"
             /\ UNCHANGED <<in, out, boundStrengthState, collecting, headx, atBottom>>

Forced == [n |-> 0, type |-> "PUNC", kind |-> "PHRASEEND", sort |-> "FORCED", arg |-> -1, phones |-> <<>>]

ForcedPhraseEnd == /\ At("COLLECT") /\ needsmoreitems /\ ~ inspaceok
                   /\ headx' = Append(headx, Entry(Forced))
                   /\ needsmoreitems' = FALSE
                   /\ procState' = "PROCESS_PHR"
                   /\ status' = "ATOMIC"
                   /\ UNCHANGED <<in, out, boundStrengthState, inspaceok, cbufLen, atBottom>>

-----------------------------------------------------------------------------
(* PROCESS_PHR: the strengths and types of the bounds before the items.     *)

Secondary == {"PHR2", "PHR3"}
Punc == headx[Len(headx)].item
\* The type of the phrase that the PUNC ends.
TypeByPunc == IF Punc.sort \in {"T", "Q", "E"} THEN Punc.sort ELSE "P"

Words == {i \in DOMAIN headx : headx[i].item.type = "WORDPHON"}
\* Each word but the first gets a class.
Classified == Words \ (IF Words = {} THEN {} ELSE {Min(Words)})

\* acphSubPhrasing, given the tree's classes.  The last secondary phrase has the
\* type of the PUNC, and the ones before it are P.
SubPhrased(class) ==
    LET subs == {i \in Classified : class[i] \in Secondary}
        Sub(i) == [headx[i] EXCEPT !.strength = class[i],
                                   !.sort = IF i \notin subs THEN @
                                            ELSE IF i = Max(subs) THEN TypeByPunc ELSE "P"]
    IN  [i \in DOMAIN headx |->
           IF i = 1 THEN [headx[1] EXCEPT
                            !.strength = IF boundStrengthState = "SSEP" THEN "SBEG" ELSE "PHR1",
                            !.sort = IF subs = {} THEN TypeByPunc ELSE "P"]
           ELSE IF i \in Classified THEN Sub(i) ELSE headx[i]]

(* PROCESS_ACC, in the same call: from right to left the words' accents.     *)

IsWord(e) == e.item.type = "WORDPHON"
Has(x, mark) == \E p \in DOMAIN x.phones : x.phones[p] = mark
Count(x, from, to) == Cardinality({p \in DOMAIN x.phones \cap from .. to : x.phones[p] = "."})

acphGetNrSylls(x) == 1 + Count(x, 1, Len(x.phones))

\* Syllables before and after the first one with primary stress, or twice all of
\* them.
acphAccNrSyllParts(x) ==
    IF ~ Has(x, "'") THEN [s1 |-> acphGetNrSylls(x), s2 |-> acphGetNrSylls(x)]
    ELSE LET stressed == Min({p \in DOMAIN x.phones : x.phones[p] = "'"})
         IN  [s1 |-> Count(x, 1, stressed), s2 |-> Count(x, stressed, Len(x.phones))]

WordsAt(hx, range) == {i \in range : IsWord(hx[i])}
SyllsAt(hx, range) == MapThenSumSet(LAMBDA i : acphGetNrSylls(hx[i].item), WordsAt(hx, range))

\* To the next entry that is no word inside a phrase, and to the next accent.
acphAccGetNrsRight(hx, ind) ==
    LET Until(Ends(_)) == Min({i \in ind + 1 .. Len(hx) : Ends(hx[i])} \union {Len(hx) + 1})
        bound == Until(LAMBDA e : e.strength # "PHR0")
        foot == Until(LAMBDA e : e.item.sort = "ACC1")
        s2 == acphAccNrSyllParts(hx[ind].item).s2
    IN  [nrwordsfol |-> Cardinality(WordsAt(hx, ind + 1 .. bound - 1)),
         nrsyllsfol |-> s2 + SyllsAt(hx, ind + 1 .. bound - 1),
         footwordsfol |-> Cardinality(WordsAt(hx, ind + 1 .. foot - 1)),
         footsyllsfol |-> s2 + SyllsAt(hx, ind + 1 .. foot - 1)
                          + (IF foot =< Len(hx) THEN acphAccNrSyllParts(hx[foot].item).s1 ELSE 0)]

\* From the entry before, whatever the word's own strength; the one that ends the
\* run counts as well if it is a word, unless it is the first entry.
acphAccGetNrsLeft(hx, ind) ==
    LET end == Max({i \in 1 .. ind - 1 : hx[i].strength # "PHR0"} \union {0})
        range == (IF end > 1 THEN end ELSE end + 1) .. ind - 1
    IN  [nrwordspre |-> Cardinality(WordsAt(hx, range)),
         nrsyllspre |-> acphAccNrSyllParts(hx[ind].item).s1 + SyllsAt(hx, range)]

\* Where there is no history yet it is ACC0's.
ACCconstructInVec(hist1, hist2, left, right) ==
    LET Reverse0(hist) == IF hist = "ZERO" THEN "ACC0" ELSE hist
    IN  left @@ right @@ [hist1 |-> Reverse0(hist1), hist2 |-> Reverse0(hist2)]

acphIsWordWithoutStress(x) == ~ Has(x, "'") /\ ~ Has(x, ",")

\* Mutant of Accented: the tree is told the accents put instead of its answers.
AccentedByPut(entries) ==
    LET Given(s, ind) ==
            LET hx == s.headx
                class == AccClass(ACCconstructInVec(s.prevout, s.hist1,
                                                    acphAccGetNrsLeft(hx, ind), acphAccGetNrsRight(hx, ind)))
                accent == IF acphIsWordWithoutStress(hx[ind].item) /\ class # "ACC0" THEN "ACC3" ELSE class
            IN  [headx |-> [i \in DOMAIN hx |-> IF i = ind THEN [hx[i] EXCEPT !.item.sort = accent] ELSE hx[i]],
                 prevout |-> accent, hist1 |-> s.prevout]
        Give(t, ind) == CHOOSE g \in {Given(s, ind) : s \in {t}} : TRUE     \* t evaluated once
        leftwards == SelectSeq(Reverse([i \in DOMAIN entries |-> i]), LAMBDA i : IsWord(entries[i]))
    IN  FoldLeft(Give, [headx |-> entries, prevout |-> "ZERO", hist1 |-> "ZERO"], leftwards).headx

\* acphAccentuation
Accented(entries) ==
    LET Given(s, ind) ==
            LET hx == s.headx
                class == AccClass(ACCconstructInVec(s.prevout, s.hist1,
                                                    acphAccGetNrsLeft(hx, ind), acphAccGetNrsRight(hx, ind)))
                accent == IF acphIsWordWithoutStress(hx[ind].item) /\ class # "ACC0" THEN "ACC3" ELSE class
            IN  [headx |-> [i \in DOMAIN hx |-> IF i = ind THEN [hx[i] EXCEPT !.item.sort = accent] ELSE hx[i]],
                 prevout |-> class, hist1 |-> s.prevout]
        Give(t, ind) == CHOOSE g \in {Given(s, ind) : s \in {t}} : TRUE     \* t evaluated once
        leftwards == SelectSeq(Reverse([i \in DOMAIN entries |-> i]), LAMBDA i : IsWord(entries[i]))
    IN  FoldLeft(Give, [headx |-> entries, prevout |-> "ZERO", hist1 |-> "ZERO"], leftwards).headx

\* Mutant of ProcessPhr: a forced phrase end ends the sentence.
ProcessPhrSentence ==
    /\ At("PROCESS_PHR")
    /\ \E class \in [Classified -> Strengths] : headx' = Accented(SubPhrased(class))
    /\ boundStrengthState' = "SSEP"
    /\ procState' = "FEED"
    /\ UNCHANGED <<in, out, collecting, atBottom, status>>

\* PROCESS_PHR and, in the same call, PROCESS_ACC.
ProcessPhr ==
    /\ At("PROCESS_PHR")
    /\ \E class \in [Classified -> Strengths] : headx' = Accented(SubPhrased(class))
    /\ boundStrengthState' = IF Punc.kind = "PHRASEEND" THEN "PPHR" ELSE "SSEP"
    /\ procState' = "FEED"
    /\ UNCHANGED <<in, out, collecting, atBottom, status>>

-----------------------------------------------------------------------------
(* FEED: in one go, all that the output takes.                              *)

Bound(strength, sort) == [n |-> 0, type |-> "BOUND", kind |-> strength, sort |-> sort,
                          arg |-> -1, phones |-> <<>>]

\* Not before a flush.  As long as no item is out, each try starts with it.
FirstBound == IF atBottom /\ headx[1].item.kind # "FLUSH"
              THEN <<Bound(headx[1].strength, headx[1].sort)>> ELSE <<>>

\* What is put for an entry: the bound before it and the item, or the bound the
\* last PUNC stands for.
PutsFor(e) ==
    IF e.item.type = "PUNC"
    THEN CASE e.item.kind = "SENTEND" -> <<Bound("SEND", "NA")>>
           [] e.item.kind = "FLUSH" -> <<Bound("TERM", "NA")>>
           [] OTHER -> <<>>
    ELSE (IF e.strength \in Secondary THEN <<Bound(e.strength, e.sort)>> ELSE <<>>) \o <<e.item>>

Puts == FirstBound \o FlattenSeq([i \in DOMAIN headx |-> PutsFor(headx[i])])
Room == Cap - Len(out)

FeedAll == /\ At("FEED") /\ Len(Puts) =< Room
           /\ out' = out \o Puts
           /\ headx' = <<>> /\ atBottom' = TRUE /\ cbufLen' = 0
           /\ inspaceok' = TRUE /\ needsmoreitems' = TRUE
           /\ procState' = "COLLECT"
           /\ status' = "BUSY"
           /\ UNCHANGED <<in, boundStrengthState>>

\* The first thing refused is looked at again: if it is an item the bound before
\* it is out already, and forgotten.
FeedSome ==
    /\ At("FEED") /\ Len(Puts) > Room
    /\ out' = out \o SubSeq(Puts, 1, Room)
    /\ LET done == Len(SelectSeq(SubSeq(Puts, 1, Room), LAMBDA x : x.type # "BOUND"))
           rest == SubSeq(headx, done + 1, Len(headx))
       IN  /\ headx' = IF Puts[Room + 1].type = "BOUND" THEN rest
                       ELSE [rest EXCEPT ![1].strength = "NA"]
           /\ atBottom' = (atBottom /\ done = 0)
    /\ status' = "OUT_FULL"
    /\ UNCHANGED <<in, procState, boundStrengthState, collecting>>

Pass == \/ CollectItem \/ CollectNone \/ PhraseEnd \/ ForcedPhraseEnd
        \/ ProcessPhr \/ FeedAll \/ FeedSome

-----------------------------------------------------------------------------
TypeOK ==
    /\ procState \in {"COLLECT", "PROCESS_PHR", "FEED"}
    /\ boundStrengthState \in {"SSEP", "PPHR"}
    /\ {inspaceok, needsmoreitems, atBottom} \subseteq BOOLEAN
    /\ Len(headx) =< AcphHeadx
    /\ procState # "COLLECT" => headx # <<>> /\ Punc.type = "PUNC"
    /\ cbufLen \in 0 .. AcphCbuf
    /\ status \in {"NONE", "RUNNING", "IDLE", "ATOMIC", "BUSY", "OUT_FULL", "ERROR"}
    /\ Len(out) =< Cap

Protocol == INSTANCE UnitProtocol WITH
                in <- Len(in), out <- Len(out),
                held <- IF procState = "FEED" THEN 0
                        ELSE Len(SelectSeq(headx, LAMBDA e : e.item # Forced)),
                ready <- IF procState = "FEED" THEN Len(Puts) ELSE 0,
                MaxHeld <- AcphHeadx, MaxReady <- 2 * AcphHeadx
=============================================================================
