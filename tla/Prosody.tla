------------------------------ MODULE Prosody ------------------------------
(***************************************************************************)
(* Accentuation and phrasing, phonological transduction and acoustic        *)
(* mapping at work on one text, stepped by the control as ctrlStep does it  *)
(* (Control!Schedule says which unit is next).  Between two steps the unit  *)
(* before puts items, what is put at the end is taken, and the engine may   *)
(* be reset.                                                                *)
(***************************************************************************)
EXTENDS Integers, Sequences
LOCAL INSTANCE FiniteSetsExt
LOCAL INSTANCE SequencesExt
LOCAL INSTANCE TLC

CONSTANTS Texts,        \* what the unit before may put before the first reset: sequences of items
          NextTexts,    \* and after it
          Cap,
          AcphHeadx, AcphCbuf, MaxItemSize, Strengths, AccClass(_),     \* see AccentuationPhrasing
          SphoHeadx, SphoCbuf, MaxPhons, Targets,          \* see SentencePhonology
          MaxSyll, MaxPh, MaxItems, OutBufSize, FrameItemSize,   \* see AcousticMapping
          MaxResets     \* bound: resets that no error asks for

ASSUME ProsodyAssumption ==
    /\ {Cap, AcphHeadx, AcphCbuf, MaxItemSize, SphoHeadx, SphoCbuf, MaxPhons,
        MaxSyll, MaxPh, MaxItems, OutBufSize, FrameItemSize} \subseteq Nat \ {0}
    /\ MaxResets \in Nat
    /\ FrameItemSize + 4 =< OutBufSize

VARIABLES saOut, acphOut, sphoOut, pamOut,             \* the buffers
          acphProcState, boundStrengthState, inspaceok, needsmoreitems, acphHeadx, atBottom, cbufLen, acphStatus,
          sphoProcState, feedFollowState, sphoHeadx, headxReadPos, outReadPos,
          activeStartPos, penultima, activeEndPos, phonBuf, phonReadPos,
          needMoreInput, force, sentenceStarted, suppressParseWordBound,
          suppressRecombWordBound, wordStarted,
          breakPending, breakTime, lastPhraseType, lastPhraseBoundPos,
          sphoOutBuf, lost, astray, sphoStatus,
          pamProcState, pamInBuf, pamOutBuf, syll, syll0,
          sSyllItems, sSyllItemOffs, nLastAttachedItemId, nAttachedItemsSize,
          nCurrSyllable, nSyllPhoneme, nCurrAttachedItem, mod, overrun, pamStatus,
          curPU, procStatus, output,    \* the control's, and whether the step has put anything
          text,         \* the items put and to be put since the last reset
          sent,         \* how many of them are put
          speed,        \* history: the speed at its begin
          phrased,      \* history: items the first unit has put since then,
          syllabified,  \* the second one,
          got,          \* and what has been taken from the third one
          resets        \* bound counter: resets so far

ACPH == INSTANCE AccentuationPhrasing WITH
          in <- saOut, out <- acphOut, procState <- acphProcState, headx <- acphHeadx, status <- acphStatus
SPHO == INSTANCE SentencePhonology WITH
          in <- acphOut, out <- sphoOut, procState <- sphoProcState, headx <- sphoHeadx,
          outBuf <- sphoOutBuf, status <- sphoStatus
PAM == INSTANCE AcousticMapping WITH
          in <- sphoOut, out <- pamOut, procState <- pamProcState, inBuf <- pamInBuf, outBuf <- pamOutBuf,
          status <- pamStatus
CTL == INSTANCE Control WITH
          NumProcUnits <- 3, MaxHeld <- 1, MaxReady <- 1, MaxText <- 0, MayFail <- TRUE,
          buf <- <<>>, held <- <<>>, ready <- <<>>, result <- "NONE", text <- 0

acphState == <<acphProcState, boundStrengthState, inspaceok, needsmoreitems, acphHeadx, atBottom, cbufLen, acphStatus>>
sphoState == <<sphoProcState, feedFollowState, sphoHeadx, headxReadPos, outReadPos,
               activeStartPos, penultima, activeEndPos, phonBuf, phonReadPos,
               needMoreInput, force, sentenceStarted, suppressParseWordBound,
               suppressRecombWordBound, wordStarted,
               breakPending, breakTime, lastPhraseType, lastPhraseBoundPos,
               sphoOutBuf, lost, astray, sphoStatus>>
pamState == <<pamProcState, pamInBuf, pamOutBuf, syll, syll0,
              sSyllItems, sSyllItemOffs, nLastAttachedItemId, nAttachedItemsSize,
              nCurrSyllable, nSyllPhoneme, nCurrAttachedItem, mod, overrun, pamStatus>>
control == <<curPU, procStatus, output>>
history == <<phrased, syllabified, got>>
vars == <<saOut, acphOut, sphoOut, pamOut, acphState, sphoState, pamState, control, text, sent, speed, history, resets>>

Init == /\ saOut = <<>> /\ acphOut = <<>> /\ sphoOut = <<>> /\ pamOut = <<>>
        /\ ACPH!Blank /\ SPHO!Blank /\ PAM!Blank
        /\ curPU = 0 /\ procStatus = [i \in 0 .. 2 |-> "IDLE"] /\ output = FALSE
        /\ text \in Texts /\ sent = 0 /\ speed = 100
        /\ phrased = <<>> /\ syllabified = <<>> /\ got = <<>> /\ resets = 0

\* Between two steps; after one that failed the engine is reset.
AtRest == "RUNNING" \notin {acphStatus, sphoStatus, pamStatus}
Failed == "ERROR" \in {acphStatus, sphoStatus}
Operable == AtRest /\ ~ Failed

Put == /\ Operable
       /\ sent < Len(text) /\ Len(saOut) < Cap
       /\ saOut' = Append(saOut, text[sent + 1]) /\ sent' = sent + 1
       /\ UNCHANGED <<acphOut, sphoOut, pamOut, acphState, sphoState, pamState, control, text, speed, history, resets>>

Take == /\ Operable /\ pamOut # <<>>
        /\ got' = Append(got, Head(pamOut)) /\ pamOut' = Tail(pamOut)
        /\ UNCHANGED <<saOut, acphOut, sphoOut, acphState, sphoState, pamState, control, text, sent, speed,
                       phrased, syllabified, resets>>

\* ctrlStep calls the unit at curPU.
Step == /\ Operable
        /\ \/ curPU = 0 /\ ACPH!Call /\ UNCHANGED <<sphoState, pamState, sphoOut, pamOut>>
           \/ curPU = 1 /\ SPHO!Call /\ UNCHANGED <<acphState, pamState, saOut, pamOut>>
           \/ curPU = 2 /\ PAM!Call /\ UNCHANGED <<acphState, sphoState, saOut, acphOut>>
        /\ output' = FALSE
        /\ UNCHANGED <<curPU, procStatus, text, sent, speed, history, resets>>

\* The unit went on from having put old to new; when its step returns, the next
\* one is chosen.
Added(old, new) == SubSeq(new, Len(old) + 1, Len(new))
Scheduled(status, old, new) ==
    /\ output' = (output \/ new # old)
    /\ IF status = "RUNNING" THEN UNCHANGED <<curPU, procStatus>> ELSE CTL!Schedule(status, output')

AcphPass == /\ ACPH!Pass /\ Scheduled(acphStatus', acphOut, acphOut')
            /\ phrased' = phrased \o Added(acphOut, acphOut')
            /\ UNCHANGED <<sphoState, pamState, sphoOut, pamOut, text, sent, speed, syllabified, got, resets>>
SphoPass == /\ SPHO!Pass /\ Scheduled(sphoStatus', sphoOut, sphoOut')
            /\ syllabified' = syllabified \o Added(sphoOut, sphoOut')
            /\ UNCHANGED <<acphState, pamState, saOut, pamOut, text, sent, speed, phrased, got, resets>>
PamPass == /\ PAM!Pass /\ Scheduled(pamStatus', pamOut, pamOut')
           /\ UNCHANGED <<acphState, sphoState, saOut, acphOut, text, sent, speed, history, resets>>

\* As in Control!EngReset.
Reset(mode) == /\ AtRest /\ (resets < MaxResets \/ Failed)
               /\ resets' = IF resets < MaxResets THEN resets + 1 ELSE resets
               /\ ACPH!Initialize /\ SPHO!Initialize /\ PAM!Initialize(mode)
               /\ saOut' = <<>> /\ acphOut' = <<>> /\ sphoOut' = <<>> /\ pamOut' = <<>>
               /\ curPU' = 0 /\ output' = FALSE /\ UNCHANGED procStatus
               /\ text' \in NextTexts /\ sent' = 0 /\ speed' = IF mode = "SOFT" THEN mod.SPEED ELSE 100
               /\ phrased' = <<>> /\ syllabified' = <<>> /\ got' = <<>>

Next == \/ Put \/ Take \/ Step
        \/ AcphPass \/ SphoPass \/ PamPass
        \/ \E mode \in {"SOFT", "FULL"} : Reset(mode)

Spec == Init /\ [][Next]_vars

\* The engine steps the control, and both of its neighbours get their turns.
FairSpec == /\ Spec
            /\ WF_vars(Step) /\ WF_vars(AcphPass) /\ WF_vars(SphoPass) /\ WF_vars(PamPass)
            /\ SF_vars(Put) /\ SF_vars(Take)

-----------------------------------------------------------------------------
TypeOK == ACPH!TypeOK /\ SPHO!TypeOK /\ PAM!TypeOK

\* What the units make of the items of a text does not hold once an item did not
\* fit, a window began at a word taken for another, or a sentence did not fit.
Astray == lost # <<>> \/ astray \/ overrun

EndsSentence(x) == x.type = "PUNC" /\ x.kind \in {"SENTEND", "FLUSH"}
IsBound(x, kinds) == x.type = "BOUND" /\ x.kind \in kinds
Bounds == {"SBEG", "PHR1", "PHR2", "PHR3"}

(* The items of a text with SBEG before each sentence, and SEND or TERM for *)
(* the PUNC that ends it.                                                   *)
Sentences(items) ==
    LET Bound(strength) == <<"BOUND", strength>>
        Add(s, x) ==
            LET begun == IF s.inside \/ x.kind = "FLUSH" THEN s.out ELSE Append(s.out, Bound("SBEG"))
            IN  IF EndsSentence(x)
                THEN [out |-> Append(begun, Bound(IF x.kind = "FLUSH" THEN "TERM" ELSE "SEND")), inside |-> FALSE]
                ELSE [out |-> IF x.type = "PUNC" THEN begun ELSE Append(begun, <<x.type, x.n>>), inside |-> TRUE]
    IN  FoldLeft(Add, [out |-> <<>>, inside |-> FALSE], items).out

Without(x, marks) == {p \in DOMAIN x.phones : x.phones[p] \in marks} = {}
Sylls(words) == FoldLeft(LAMBDA sum, x : sum + 1 + Len(SelectSeq(x.phones, LAMBDA p : p = ".")), 0, words)
\* The syllables of a word before and after its stress; of one without, all twice.
Before(x) == IF Without(x, {"'"}) THEN Sylls(<<x>>)
             ELSE Sylls(<<[x EXCEPT !.phones = SubSeq(@, 1, SelectInSeq(@, LAMBDA p : p = "'"))]>>) - 1
After(x) == IF Without(x, {"'"}) THEN Sylls(<<x>>) ELSE Sylls(<<x>>) - Before(x) - 1

(* The accents of a phrase, read off the phrase as it was put: how many     *)
(* words and syllables are on the word's right up to the next bound or      *)
(* command, and up to the next accent wherever it is, and on its left, its  *)
(* own bound not looked at, the first word of all not counted, and what the *)
(* tree said of the two words on its right.                                 *)
AccentsOf(p) ==
    LET IsW(x) == x.type = "WORDPHON"
        Words(from, to) == SelectSeq(SubSeq(p, from, to), IsW)
        Next1(k, Test(_)) == Min({j \in k + 1 .. Len(p) : Test(p[j])} \union {Len(p) + 1})
        Inputs(k) ==
            LET own == IF k > 1 /\ p[k - 1].type = "BOUND" THEN k - 1 ELSE k
                stop == Max({j \in 1 .. own - 1 : ~ IsW(p[j])} \union {0})
                left == Words(IF stop = 0 THEN 2 ELSE stop + 1, own - 1)
                right == Words(k + 1, Next1(k, LAMBDA x : ~ IsW(x)) - 1)
                accent == Next1(k, LAMBDA x : x.sort = "ACC1")
                foot == Words(k + 1, accent - 1)
            IN  [nrwordspre |-> Len(left), nrsyllspre |-> Before(p[k]) + Sylls(left),
                 nrwordsfol |-> Len(right), nrsyllsfol |-> After(p[k]) + Sylls(right),
                 footwordsfol |-> Len(foot),
                 footsyllsfol |-> After(p[k]) + Sylls(foot) + (IF accent > Len(p) THEN 0 ELSE Before(p[accent]))]
        \* From the last place on; what is no word does not count.
        Class(on, k) == CHOOSE classes \in
                          {IF ~ IsW(p[k]) THEN c
                           ELSE <<AccClass(Inputs(k) @@ [hist1 |-> c[1], hist2 |-> c[2]])>> \o c : c \in {on}} : TRUE
        given == FoldRight(LAMBDA k, classes : Class(classes, k), [k \in DOMAIN p |-> k], <<"ACC0", "ACC0">>)
        class == [k \in DOMAIN p |-> given[Len(Words(1, k))]]
    IN  [k \in {k \in DOMAIN p : IsW(p[k])} |->
           IF Without(p[k], {"'", ","}) /\ class[k] # "ACC0" THEN "ACC3" ELSE class[k]]

(* Each word has the accent the tree gives for where it stands in its       *)
(* phrase (here the last one put whole): accents are found from the end of  *)
(* a phrase to its begin, by counts that run over bounds, commands and the  *)
(* accents given before, whatever was in the window before and wherever the *)
(* output was full.                                                         *)
AccentedAsRead ==
    LET primary == {i \in DOMAIN phrased : IsBound(phrased[i], {"SBEG", "PHR1", "SEND", "TERM"})}
        end == Max(primary)
        p == SubSeq(phrased, Max(primary \ {end}) + 1, end - 1)
        accents == AccentsOf(p)
    IN  Cardinality(primary) > 1 => \A k \in DOMAIN accents : p[k].sort = accents[k]

(* Phrasing loses, doubles and moves no item, and puts each sentence        *)
(* between its own bounds, however often the output is full in between and  *)
(* wherever a phrase had to be ended by force: without the bounds between   *)
(* phrases what it puts is the text, so far.  No two bounds between phrases *)
(* follow each other, and the phrase before a sentence's end has the type   *)
(* its punctuation says, the others P.                                      *)
BoundsAsRead ==
    LET frame == SelectSeq(phrased, LAMBDA x : ~ IsBound(x, Bounds \ {"SBEG"}))
        ends == SelectSeq(text, EndsSentence)
        EndsTo(i) == Cardinality({j \in 1 .. i : IsBound(phrased[j], {"SEND", "TERM"})})
        PhraseOf(i) == LET at == {j \in 1 .. i - 1 : IsBound(phrased[j], Bounds \union {"SEND", "TERM"})}
                       IN  IF at = {} THEN 0 ELSE Max(at)
    IN  /\ IsPrefix([i \in DOMAIN frame |-> <<frame[i].type, IF frame[i].type = "BOUND" THEN frame[i].kind ELSE frame[i].n>>],
                    Sentences(text))
        /\ \A i \in 2 .. Len(phrased) : LET begin == PhraseOf(i) IN
              /\ IsBound(phrased[i], Bounds) => ~ IsBound(phrased[i - 1], Bounds)
              /\ begin > 0 /\ phrased[begin].kind \in Bounds =>
                   CASE IsBound(phrased[i], {"SEND", "TERM"}) -> phrased[begin].sort = ends[EndsTo(i)].sort
                     [] IsBound(phrased[i], {"PHR1", "PHR2", "PHR3"}) -> phrased[begin].sort = "P"
                     [] OTHER -> TRUE

(* What accentuation and phrasing make of a text, whatever the windows.     *)
PhrasedAsRead == BoundsAsRead /\ AccentedAsRead

(* What is to be heard of a text: the phones of its words, at the speed of  *)
(* the last command before them, and the commands that go on to the back    *)
(* end, all in their order.                                                 *)
Speech(items) ==
    LET Phones(x) == SelectSeq(x.phones, LAMBDA p : p \notin {".", "'", ","})
        Add(s, x) ==
            CASE x.type = "WORDPHON" ->
                   [s EXCEPT !.out = @ \o [i \in DOMAIN Phones(x) |-> <<x.n, Phones(x)[i], s.speed>>]]
              [] x.type = "CMD" /\ x.kind = "SPEED" -> [s EXCEPT !.speed = x.arg]
              [] x.type = "PUNC" \/ x.kind = "SIL" \/ x.sort = "TO_PAM" -> s
              [] OTHER -> [s EXCEPT !.out = Append(@, <<x.n, x.kind, 0>>)]
    IN  FoldLeft(Add, [out |-> <<>>, speed |-> speed], items).out

(* Three units, several windows, a forward and a backward run later: no     *)
(* phone and no command is lost, doubled or moved against the others, and   *)
(* a speed takes effect at the word it stands before, neither at the next   *)
(* sentence nor at the one being collected.                                 *)
SpokenInOrder ==
    LET heard == SelectSeq(got \o pamOut, LAMBDA x : x.n > 0)
    IN  ~ Astray => IsPrefix([i \in DOMAIN heard |->
                                IF heard[i].type = "PHONE" THEN <<heard[i].n, heard[i].phones[1], heard[i].arg>>
                                ELSE <<heard[i].n, heard[i].kind, 0>>],
                             Speech(text))

(* A pause that the text asks for is made where it asks for it, and once:   *)
(* between two items put (a word, a command) the bounds have silence for    *)
(* the SIL commands that stand between them in the text, at most the        *)
(* smallest one before and one after a command that needs silence more, and *)
(* less only where all of it does not fit into a signed number of 16 bits.  *)
PausesAsAsked ==
    LET at == {i \in DOMAIN syllabified : syllabified[i].n > 0}
        Silence(i, j) == FoldLeft(LAMBDA sum, x : sum + (IF x.arg > 0 THEN x.arg ELSE 0), 0,
                                  SelectSeq(SubSeq(syllabified, i + 1, j - 1), LAMBDA x : x.type = "BOUND"))
        Asked(m, n) == FoldLeft(LAMBDA sum, x : sum + (IF x.kind = "SIL" THEN x.arg ELSE 0), 0, SubSeq(text, m + 1, n - 1))
    IN  ~ Astray => \A j \in at :
            LET before == {i \in at : i < j}
                i == IF before = {} THEN 0 ELSE Max(before)
                m == IF i = 0 THEN 0 ELSE syllabified[i].n
                n == syllabified[j].n
                longest == Asked(m, n) + 2
            IN  n > m => /\ Silence(i, j) =< longest
                         /\ longest =< 32767 => Silence(i, j) >= Asked(m, n)

(* The repository's assertion in picospho.c where it looks for the symbol   *)
(* of a bound: what it finds is one.                                        *)
BoundsAreBounds ==
    /\ sphoStatus = "RUNNING" /\ sphoProcState = "BOUNDS"
    /\ activeStartPos =< outReadPos /\ outReadPos < activeEndPos
    /\ SPHO!Expected /\ SPHO!HasNext(outReadPos + 1)
    => SPHO!NextSym.plane = "BOUND"

(* Each unit does in every step what Control assumes of it.                 *)
PhrasingKeeps == ACPH!Protocol!Next \/ acphStatus' = "ERROR"
PhonologyKeeps == SPHO!Protocol!Next \/ sphoStatus' = "ERROR" \/ Astray'
MappingKeeps == PAM!Protocol!Next \/ Astray'
UnitsKeepProtocol == /\ ACPH!Protocol!Init /\ [][PhrasingKeeps]_(ACPH!Protocol!vars)
                     /\ SPHO!Protocol!Init /\ [][PhonologyKeeps]_(SPHO!Protocol!vars)
                     /\ PAM!Protocol!Init /\ [][MappingKeeps]_(PAM!Protocol!vars)

(* What ends a sentence comes out, and with it all that is before it: again *)
(* and again none is on its way.  Not once a unit has failed, or a window   *)
(* that is full of commands behind one word has nothing it could put.       *)
Stuck == sphoProcState = "SHIFT" /\ penultima = -2 /\ activeEndPos = 0
OnItsWay == \/ \E x \in ToSet(saOut) \union {e.item : e \in ToSet(acphHeadx)} : EndsSentence(x)
            \/ \E x \in ToSet(acphOut \o sphoOutBuf \o sphoOut \o pamInBuf \o pamOutBuf)
                        \union {e.item : e \in ToSet(sphoHeadx)} : IsBound(x, {"SEND", "TERM"})
            \/ pamProcState \in {"PROCESS", "FEED"}
SentencesComeOut == []<>(Failed \/ Stuck \/ Astray \/ ~ OnItsWay)
=============================================================================
