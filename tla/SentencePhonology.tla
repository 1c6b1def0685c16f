------------------------- MODULE SentencePhonology -------------------------
(***************************************************************************)
(* The phonological transduction unit, picospho.c: it collects items in     *)
(* headx, as much of a sentence as it has room for, transduces the phones   *)
(* of all words together, decides anew which bounds there are, and puts     *)
(* syllables in place of words.  Of the window [0, headxReadPos) that is    *)
(* transduced only the active range [activeStartPos, activeEndPos) is put;  *)
(* what is before it is left context, and what is behind it comes again in  *)
(* the next window.  Positions count from 0, as in the code.                *)
(*                                                                          *)
(* phonBuf has the symbols that go through the transducers, each with the   *)
(* position of its item: [pos, plane, sym].  A transducer may change the    *)
(* strength of bounds; what it does to phones is left out.  Items are those *)
(* of AccentuationPhrasing.                                                 *)
(***************************************************************************)
EXTENDS Integers, Sequences
LOCAL INSTANCE FiniteSetsExt
LOCAL INSTANCE SequencesExt

CONSTANTS Cap,          \* items the output buffer takes
          SphoHeadx,    \* SPHO_MAXNR_HEADX
          SphoCbuf,     \* SPHO_MAXSIZE_CBUF
          MaxPhons,     \* 2 * PICOTRNS_MAX_NUM_POSSYM
          Targets       \* strengths a transducer may give a bound

VARIABLES in, out,
          procState, feedFollowState,
          headx,        \* [item, strength, sort, sildur]: items with the side bound before them
          headxReadPos, outReadPos,
          activeStartPos, penultima, activeEndPos,
          phonBuf, phonReadPos,
          needMoreInput, force, sentenceStarted, suppressParseWordBound,
          suppressRecombWordBound, wordStarted,
          breakPending, breakTime, lastPhraseType, lastPhraseBoundPos,
          outBuf,       \* <<>> or <<item>>
          lost,         \* history: the items taken that did not fit in cbuf
          astray,       \* history: the first word of a window was taken for one behind a bound
          status        \* RUNNING, or what the last step returned

window == <<activeStartPos, penultima, activeEndPos>>
parsing == <<needMoreInput, force, sentenceStarted, suppressParseWordBound>>
recombining == <<suppressRecombWordBound, wordStarted>>
breaking == <<breakPending, breakTime, lastPhraseType, lastPhraseBoundPos>>
history == <<lost, astray>>
vars == <<in, out, procState, feedFollowState, headx, headxReadPos, outReadPos, window,
          phonBuf, phonReadPos, parsing, recombining, breaking, outBuf, history, status>>

INVALID == -2     \* SPHO_POS_INVALID
IGNORE == -3      \* PICOTRNS_POS_IGNORE
SmallestSil == 1  \* SPHO_SMALLEST_SIL_DUR

Blank == /\ procState = "INIT" /\ feedFollowState = "RECOMB"
         /\ headx = <<>> /\ headxReadPos = 0 /\ outReadPos = 0
         /\ activeStartPos = 0 /\ penultima = INVALID /\ activeEndPos = INVALID
         /\ phonBuf = <<>> /\ phonReadPos = 0
         /\ needMoreInput = TRUE /\ force = FALSE /\ sentenceStarted = FALSE
         /\ suppressParseWordBound = FALSE
         /\ suppressRecombWordBound = FALSE /\ wordStarted = FALSE
         /\ breakPending = FALSE /\ breakTime = 0
         /\ lastPhraseType = "NA" /\ lastPhraseBoundPos = -1
         /\ outBuf = <<>> /\ lost = <<>> /\ astray = FALSE /\ status = "NONE"

\* sphoReset, after either reset; what it leaves alone is set before it is used.
Initialize == /\ procState' = "INIT" /\ feedFollowState' = "RECOMB"
              /\ headx' = <<>> /\ headxReadPos' = 0 /\ outReadPos' = 0
              /\ activeStartPos' = 0 /\ penultima' = INVALID /\ activeEndPos' = INVALID
              /\ phonBuf' = <<>> /\ phonReadPos' = 0
              /\ needMoreInput' = TRUE /\ force' = FALSE /\ sentenceStarted' = FALSE
              /\ suppressParseWordBound' = FALSE
              /\ suppressRecombWordBound' = FALSE /\ wordStarted' = FALSE
              /\ breakPending' = FALSE /\ breakTime' = 0
              /\ lastPhraseType' = "NA" /\ lastPhraseBoundPos' = -1
              /\ outBuf' = <<>> /\ lost' = <<>> /\ astray' = FALSE /\ status' = "NONE"

Call == /\ status # "RUNNING"
        /\ status' = "RUNNING"
        /\ UNCHANGED <<in, out, procState, feedFollowState, headx, headxReadPos, outReadPos, window,
                       phonBuf, phonReadPos, parsing, recombining, breaking, outBuf, history>>

At(state) == status = "RUNNING" /\ procState = state

-----------------------------------------------------------------------------
(* INIT, COLLECT.                                                           *)

StartWindow == /\ At("INIT")
               /\ penultima' = INVALID /\ activeEndPos' = INVALID
               /\ headxReadPos' = 0
               /\ phonBuf' = <<>> /\ phonReadPos' = 0
               /\ lastPhraseType' = "NA" /\ lastPhraseBoundPos' = -1
               /\ procState' = "COLLECT"
               /\ UNCHANGED <<in, out, feedFollowState, headx, outReadPos, activeStartPos, parsing,
                              recombining, breakPending, breakTime, outBuf, history, status>>

LengthOf(items) == FoldLeft(LAMBDA sum, x : sum + Len(x.phones), 0, items)
CbufUsed == LengthOf([i \in DOMAIN headx |-> headx[i].item])

\* Room for one more item when the first k of the input are stored.
MoreRoom(k) == /\ Len(headx) + k < SphoHeadx
               /\ CbufUsed + LengthOf(SubSeq(in, 1, k)) < SphoCbuf
\* Items are taken while there is any room; the last one may turn out too long.
Taken == Max({0} \union {k \in 1 .. Len(in) : \A j \in 1 .. k : MoreRoom(j - 1)})
TooLong == Taken > 0 /\ CbufUsed + LengthOf(SubSeq(in, 1, Taken)) > SphoCbuf
Stored == IF TooLong THEN Taken - 1 ELSE Taken
Full == TooLong \/ ~ MoreRoom(Stored)

Entry(x) == [item |-> x, strength |-> "NA", sort |-> "NA", sildur |-> -1]

Collecting == /\ At("COLLECT")
              /\ in' = SubSeq(in, Taken + 1, Len(in))
              /\ headx' = headx \o [i \in 1 .. Stored |-> Entry(in[i])]
              /\ lost' = IF TooLong THEN Append(lost, in[Taken]) ELSE lost
              /\ UNCHANGED <<out, feedFollowState, headxReadPos, outReadPos, window, phonBuf, phonReadPos,
                             sentenceStarted, suppressParseWordBound, recombining, breaking, outBuf, astray>>

CollectIdle == /\ Collecting /\ ~ Full /\ Stored = 0 /\ needMoreInput
               /\ status' = "IDLE"
               /\ UNCHANGED <<procState, needMoreInput, force>>

\* Mutant of CollectSome: with no room left parsing is not forced to an end.
CollectSomeUnforced == /\ Collecting /\ (Full \/ Stored > 0 \/ ~ needMoreInput)
                       /\ needMoreInput' = FALSE
                       /\ procState' = "PARSE"
                       /\ UNCHANGED <<force, status>>

\* If there is no room for what parsing asked for, it has to do without.
CollectSome == /\ Collecting /\ (Full \/ Stored > 0 \/ ~ needMoreInput)
               /\ needMoreInput' = FALSE
               /\ force' = (force \/ (Full /\ needMoreInput))
               /\ procState' = "PARSE"
               /\ UNCHANGED status

-----------------------------------------------------------------------------
(* PROCESS_PARSE: one item at a time.                                       *)

ItemAt(pos) == headx[pos + 1].item
IsBound(x, kinds) == x.type = "BOUND" /\ x.kind \in kinds

Here == ItemAt(headxReadPos)
AtEnd == headxReadPos >= Len(headx)

\* The flag was left from the window before: this one begins with a word.
Misread == ~ AtEnd /\ Here.type = "WORDPHON" /\ suppressParseWordBound /\ phonBuf = <<>>

Parsing == /\ At("PARSE")
           /\ UNCHANGED <<in, out, headx, outReadPos, activeStartPos, phonReadPos, recombining, breaking, lost, status>>
           /\ astray' = (astray \/ Misread)

ParseForced == /\ Parsing /\ AtEnd /\ force
               /\ force' = FALSE
               /\ activeEndPos' = IF activeEndPos = INVALID THEN headxReadPos ELSE activeEndPos
               /\ procState' = "TRANSDUCE"
               /\ UNCHANGED <<feedFollowState, headxReadPos, penultima, phonBuf,
                              needMoreInput, sentenceStarted, suppressParseWordBound, outBuf>>

ParseMore == /\ Parsing /\ AtEnd /\ ~ force
             /\ needMoreInput' = TRUE
             /\ procState' = "COLLECT"
             /\ UNCHANGED <<feedFollowState, headxReadPos, penultima, activeEndPos, phonBuf,
                            force, sentenceStarted, suppressParseWordBound, outBuf>>

Sym(pos, plane, sym) == [pos |-> pos, plane |-> plane, sym |-> sym]
\* sphoAddPhoneme where its result is not looked at.
WithPhoneme(buf, s) == IF Len(buf) < MaxPhons THEN Append(buf, s) ELSE buf

\* All up to the sentence end can be put, and discarded then.  Of the two
\* phonemes only the first is added: 0 stands for success, and stops the &&.
ParseSentenceEnd == /\ Parsing /\ ~ AtEnd /\ IsBound(Here, {"SEND", "TERM"}) /\ sentenceStarted
                    /\ sentenceStarted' = FALSE
                    /\ phonBuf' = WithPhoneme(phonBuf, Sym(headxReadPos, "BOUND", "SEND"))
                    /\ headxReadPos' = headxReadPos + 1
                    /\ activeEndPos' = headxReadPos + 1 /\ penultima' = headxReadPos + 1
                    /\ procState' = "TRANSDUCE"
                    /\ UNCHANGED <<feedFollowState, needMoreInput, force, suppressParseWordBound, outBuf>>

\* A flush without a sentence is passed on at once.  (A SEND without one never
\* comes: AccentuationPhrasing puts SBEG first.)
ParseTerm == /\ Parsing /\ ~ AtEnd /\ IsBound(Here, {"TERM"}) /\ ~ sentenceStarted
             /\ outBuf' = <<Here>>
             /\ headxReadPos' = headxReadPos + 1
             /\ activeEndPos' = headxReadPos + 1 /\ penultima' = INVALID
             /\ feedFollowState' = "SHIFT" /\ procState' = "FEED"
             /\ UNCHANGED <<phonBuf, parsing>>

ParseOther == /\ Parsing /\ ~ AtEnd /\ Here.type \notin {"WORDPHON", "BOUND"}
              /\ headxReadPos' = headxReadPos + 1
              /\ UNCHANGED <<procState, feedFollowState, penultima, activeEndPos, phonBuf, parsing, outBuf>>

\* sphoGetSylAccent, by the stress marks of the syllable.
SylAccent(accent, marks) == CASE "'" \in marks -> accent
                              [] "'" \notin marks /\ "," \in marks /\ accent # "ACC0" -> "ACC4"
                              [] OTHER -> "ACC0"
Stress == {"'", ","}

\* sphoExtractPhonemes: before a word a word bound, unless a bound is there;
\* each syllable begins with its accent and the word's part of speech.
Extracted(x, pos, suppressed) ==
    LET SyllableFrom(i) == {x.phones[j] : j \in {j \in i .. Len(x.phones) : \A m \in i .. j : x.phones[m] # "."}}
        Head2(i) == <<Sym(pos, "ACCENT", SylAccent(x.sort, SyllableFrom(i))), Sym(pos, "POS", "POS")>>
        Symbols(i) == CASE x.phones[i] = "." -> <<Sym(pos, "PHONEME", ".")>> \o Head2(i + 1)
                        [] x.phones[i] \in Stress -> <<>>
                        [] OTHER -> <<Sym(pos, "PHONEME", x.phones[i])>>
    IN  IF x.type = "BOUND" THEN <<Sym(pos, "BOUND", IF x.kind \in {"SBEG", "TERM"} THEN "SEND" ELSE x.kind)>>
        ELSE (IF suppressed THEN <<>> ELSE <<Sym(pos, "BOUND", "PHR0")>>)
             \o Head2(1) \o FlattenSeq([i \in DOMAIN x.phones |-> Symbols(i)])

\* Word or bound: the active end moves to it, but from one word not to a bound.
MovesEnd(pos) == /\ activeStartPos =< pos
                 /\ \/ ItemAt(pos).type = "WORDPHON" \/ activeEndPos = INVALID
                    \/ ItemAt(activeEndPos).type = "BOUND"

ParseItem ==
    LET x == Here
        begins == IsBound(x, {"SBEG"})
        buf == IF begins THEN WithPhoneme(phonBuf, Sym(IGNORE, "INTERN", "START")) ELSE phonBuf
        symbols == Extracted(x, headxReadPos, suppressParseWordBound)
    IN  /\ Parsing /\ ~ AtEnd /\ x.type \in {"WORDPHON", "BOUND"}
        /\ ~ IsBound(x, {"SEND", "TERM"})
        /\ sentenceStarted' = (sentenceStarted \/ begins)
        /\ suppressParseWordBound' = (x.type = "BOUND")
        /\ UNCHANGED <<feedFollowState, needMoreInput, force, outBuf>>
        /\ \/ /\ Len(buf) + Len(symbols) =< MaxPhons
              /\ phonBuf' = buf \o symbols
              /\ IF MovesEnd(headxReadPos)
                 THEN penultima' = activeEndPos /\ activeEndPos' = headxReadPos
                 ELSE UNCHANGED <<penultima, activeEndPos>>
              /\ headxReadPos' = headxReadPos + 1
              /\ UNCHANGED procState
           \/ /\ Len(buf) + Len(symbols) > MaxPhons
              /\ phonBuf' = buf
              /\ activeEndPos' = IF activeEndPos \in {INVALID, activeStartPos} THEN headxReadPos ELSE activeEndPos
              /\ procState' = "TRANSDUCE"
              /\ UNCHANGED <<penultima, headxReadPos>>

Parse == ParseForced \/ ParseMore \/ ParseSentenceEnd \/ ParseTerm \/ ParseOther \/ ParseItem

-----------------------------------------------------------------------------
(* PROCESS_TRANSDUCE: all transducers, one after the other, in one go.      *)

Changeable == {"PHR0", "PHR1", "PHR2", "PHR3"}
Transduced(buf) ==
    {buf} \union {[buf EXCEPT ![i].sym = t] : t \in Targets,
                     i \in {i \in DOMAIN buf : buf[i].plane = "BOUND" /\ buf[i].sym \in Changeable}}

Transduce == /\ At("TRANSDUCE")
             /\ phonBuf' \in Transduced(phonBuf)
             /\ outReadPos' = 0 /\ phonReadPos' = 0
             /\ suppressRecombWordBound' = FALSE
             /\ procState' = "BOUNDS"
             /\ UNCHANGED <<in, out, feedFollowState, headx, headxReadPos, window, parsing, wordStarted,
                            breaking, outBuf, history, status>>

-----------------------------------------------------------------------------
(* PROCESS_BOUNDS: the strength, type and pause of the bound before each    *)
(* item of the active range.                                                *)

\* getNextPosSym: where in phonBuf the next symbol is, if its item is before
\* rangeEnd, and where reading stops when all of those are skipped.
Symbols == {j \in phonReadPos .. Len(phonBuf) - 1 : phonBuf[j + 1].pos # IGNORE}
Beyond(rangeEnd) == {j \in Symbols : phonBuf[j + 1].pos >= rangeEnd}
HasNext(rangeEnd) == Symbols # {} /\ Min(Symbols) \notin Beyond(rangeEnd)
NextSym == phonBuf[Min(Symbols) + 1]
SkipTo(rangeEnd) == IF Beyond(rangeEnd) = {} THEN Len(phonBuf) ELSE Min(Beyond(rangeEnd))

fstModifiedBoundStrength(orig, target) ==
    CASE orig \in {"PHR1", "PHR2"} /\ target = "PHR0" -> "PHR3"
      [] orig \in Changeable /\ ~ (orig \in {"PHR1", "PHR2"} /\ target = "PHR0") -> target
      [] OTHER -> orig

breakModifiedBoundStrength(orig, time, wasPrimary) ==
    CASE orig \notin Changeable -> orig
      [] orig = "PHR0" /\ time = 0 -> "PHR0"
      [] orig = "PHR3" /\ time = 0 /\ ~ wasPrimary -> "PHR0"
      [] OTHER -> IF time = 0 THEN "PHR3" ELSE IF time > 50 THEN "PHR1" ELSE "PHR2"

\* breakStateInterrupting: commands that must have silence before or behind them.
\* (PLAY has a branch of its own before it is asked.)
Interrupting(x) == x.type \in {"WORDPHON", "CMD"}
BreakBefore(x) == x.type = "CMD" /\ x.kind \in {"SAVE", "UNSAVE", "IGNSIG_START"}
BreakAfter(x) == x.type = "CMD" /\ x.kind \in {"SAVE", "UNSAVE", "IGNSIG_END"}

\* The state of setSideBound for the item at pos.
BreakState == [headx |-> headx, pending |-> breakPending, time |-> breakTime,
               type |-> lastPhraseType, at |-> lastPhraseBoundPos]
WithBreak(b, time) == [b EXCEPT !.pending = TRUE, !.time = time]
\* At least the smallest break, where none is due.
Interrupted(b) == IF b.pending /\ b.time > 0 THEN b ELSE WithBreak(b, SmallestSil)

\* A break is kept in 16 bits, and as the duration of a bound in 16 signed ones:
\* from 32768 ms on it is negative there.
AsUInt16(n) == n % 65536
AsInt16(n) == IF n < 32768 THEN n ELSE n - 65536

\* The strength by transduction (target), where there was a bound (orig), and by
\* the break that is due.
Strengthened(b, pos, orig, target) ==
    LET fst == IF orig = "NA" THEN "PHR0" ELSE fstModifiedBoundStrength(orig, target)
        e == b.headx[pos + 1]
        withFst == IF orig = "NA" THEN e ELSE [e EXCEPT !.strength = fst, !.sildur = -1]
        strength == IF b.pending THEN breakModifiedBoundStrength(fst, b.time, orig = "PHR1") ELSE fst
        withBreak == IF b.pending THEN [withFst EXCEPT !.strength = strength, !.sildur = AsInt16(b.time)] ELSE withFst
    IN  [b EXCEPT !.headx[pos + 1] = withBreak, !.pending = FALSE]

\* The phrase types: where a phrase bound is made or unmade, that of the phrase
\* bound before changes as long as it is in reach.
SetPhraseType(b, pos, orig, origType) ==
    LET fromPhrase == orig \notin {"NA", "PHR0"}
        strength == b.headx[pos + 1].strength
        Before(c, type) == IF activeStartPos =< c.at THEN [c EXCEPT !.headx[c.at + 1].sort = type] ELSE c
    IN  CASE strength = "NA" -> b
          [] strength \notin {"NA", "PHR0"} ->
               LET typed == IF fromPhrase THEN [b EXCEPT !.type = origType] ELSE Before(b, "P")
               IN  [typed EXCEPT !.at = pos, !.headx[pos + 1].sort = typed.type]
          [] OTHER ->
               LET plain == [b EXCEPT !.headx[pos + 1].sort = "NA"]
               IN  IF fromPhrase THEN Before([plain EXCEPT !.type = origType], origType) ELSE plain

\* Mutant of setSideBound: a pending break stays pending once it is set.
setSideBoundKeepsBreak(b, pos, orig, origType, target) ==
    [SetPhraseType(Strengthened(b, pos, orig, target), pos, orig, origType) EXCEPT !.pending = b.pending]

setSideBound(b, pos, orig, origType, target) ==
    SetPhraseType(Strengthened(b, pos, orig, target), pos, orig, origType)

InBounds == /\ At("BOUNDS")
            /\ UNCHANGED <<in, out, feedFollowState, headxReadPos, window, phonBuf, parsing, wordStarted,
                           outBuf, history>>
InContext == outReadPos < activeStartPos

\* In the left context, only whether a bound comes last.
BoundsContext ==
    /\ InBounds /\ InContext
    /\ LET x == ItemAt(outReadPos) IN
         suppressRecombWordBound' = (x.type = "BOUND" \/ (suppressRecombWordBound /\ x.type # "WORDPHON"))
    /\ outReadPos' = outReadPos + 1
    /\ phonReadPos' = SkipTo(outReadPos + 1)
    /\ UNCHANGED <<headx, breaking, procState, status>>

\* The break state the item at pos leaves, given the symbol that stands for its bound.
Broken(b, pos, hasBound, symbol) ==
    LET x == ItemAt(pos) IN
    CASE hasBound -> setSideBound(b, pos, IF x.type = "BOUND" THEN x.kind ELSE "PHR0",
                                  IF x.type = "BOUND" THEN x.sort ELSE "NA", symbol)
      [] ~ hasBound /\ x.type = "CMD" /\ x.kind = "SIL" ->
            WithBreak(b, IF b.pending THEN AsUInt16(b.time + x.arg) ELSE x.arg)
      [] ~ hasBound /\ x.type = "CMD" /\ x.kind = "PLAY" ->
            WithBreak(setSideBound(Interrupted(b), pos, "NA", "NA", "NA"), SmallestSil)
      [] ~ hasBound /\ Interrupting(x) /\ ~ (x.type = "CMD" /\ x.kind \in {"SIL", "PLAY"}) ->
            LET before == IF BreakBefore(x) THEN Interrupted(b) ELSE b
                set == setSideBound(before, pos, "NA", "NA", "NA")
            IN  IF BreakAfter(x) THEN WithBreak(set, SmallestSil) ELSE set
      [] OTHER -> b

Expected == ItemAt(outReadPos).type = "BOUND"
            \/ (ItemAt(outReadPos).type = "WORDPHON" /\ ~ suppressRecombWordBound)

BoundsItem ==
    /\ InBounds /\ ~ InContext /\ outReadPos < activeEndPos
    /\ Expected => HasNext(outReadPos + 1)
    /\ LET b == Broken(BreakState, outReadPos, Expected, IF Expected THEN NextSym.sym ELSE "NA") IN
         /\ headx' = b.headx /\ breakPending' = b.pending /\ breakTime' = b.time
         /\ lastPhraseType' = b.type /\ lastPhraseBoundPos' = b.at
    /\ LET x == ItemAt(outReadPos) IN
         suppressRecombWordBound' = (x.type = "BOUND" \/ (suppressRecombWordBound /\ x.type # "WORDPHON"))
    /\ outReadPos' = outReadPos + 1
    /\ phonReadPos' = SkipTo(outReadPos + 1)
    /\ UNCHANGED <<procState, status>>

\* No symbol where the item has a bound: an exception.
BoundsMissing == /\ InBounds /\ ~ InContext /\ outReadPos < activeEndPos
                 /\ Expected /\ ~ HasNext(outReadPos + 1)
                 /\ status' = "ERROR"
                 /\ UNCHANGED <<headx, breaking, suppressRecombWordBound, outReadPos, phonReadPos, procState>>

BoundsDone == /\ InBounds /\ ~ InContext /\ outReadPos >= activeEndPos
              /\ outReadPos' = 0 /\ phonReadPos' = 0
              /\ suppressRecombWordBound' = FALSE
              /\ procState' = "RECOMB" /\ status' = "ATOMIC"
              /\ UNCHANGED <<headx, breaking>>

Bounds == BoundsContext \/ BoundsItem \/ BoundsMissing \/ BoundsDone

-----------------------------------------------------------------------------
(* PROCESS_RECOMB, PROCESS_SYL: the items of the active range and the       *)
(* bounds before them, words as syllables.                                  *)

Recombining == /\ At("RECOMB")
               /\ UNCHANGED <<in, out, headxReadPos, window, phonBuf, parsing, breaking, history, status>>
Current == ItemAt(outReadPos)
InActive == ~ InContext /\ outReadPos < activeEndPos
SideBound == headx[outReadPos + 1].strength # "NA"
ToFeed == feedFollowState' = "RECOMB" /\ procState' = "FEED"

RecombDone == /\ Recombining /\ outReadPos >= activeEndPos
              /\ procState' = "SHIFT"
              /\ feedFollowState' = "RECOMB"
              /\ UNCHANGED <<headx, outReadPos, phonReadPos, recombining, outBuf>>

RecombContext ==
    /\ Recombining /\ InContext /\ outReadPos < activeEndPos
    /\ suppressRecombWordBound' = (Current.type = "BOUND"
                                   \/ (suppressRecombWordBound /\ Current.type # "WORDPHON"))
    /\ phonReadPos' = SkipTo(outReadPos + 1)
    /\ outReadPos' = outReadPos + 1
    /\ UNCHANGED <<procState, feedFollowState, headx, wordStarted, outBuf>>

\* putSideBoundToOutput: a bound is silent only if its strength is, and its
\* duration not negative.
RecombSideBound ==
    /\ Recombining /\ InActive /\ SideBound
    /\ LET e == headx[outReadPos + 1] IN
         outBuf' = <<[n |-> 0, type |-> "BOUND", kind |-> e.strength, sort |-> e.sort,
                      arg |-> IF e.sildur < 0 \/ e.strength \in {"PHR0", "PHR3"} THEN -1 ELSE e.sildur,
                      phones |-> <<>>]>>
    /\ headx' = [headx EXCEPT ![outReadPos + 1].strength = "NA"]
    /\ ToFeed
    /\ UNCHANGED <<outReadPos, phonReadPos, recombining>>

RecombBound == /\ Recombining /\ InActive /\ ~ SideBound /\ Current.type = "BOUND"
               /\ phonReadPos' = Min(Symbols) + 1
               /\ suppressRecombWordBound' = TRUE
               /\ outReadPos' = outReadPos + 1
               /\ UNCHANGED <<procState, feedFollowState, headx, wordStarted, outBuf>>

RecombWord == /\ Recombining /\ InActive /\ ~ SideBound /\ Current.type = "WORDPHON"
              /\ wordStarted' = TRUE
              /\ phonReadPos' = IF suppressRecombWordBound THEN phonReadPos ELSE Min(Symbols) + 1
              /\ suppressRecombWordBound' = FALSE
              /\ procState' = "SYL"
              /\ UNCHANGED <<feedFollowState, headx, outReadPos, outBuf>>

RecombOther == /\ Recombining /\ InActive /\ ~ SideBound /\ Current.type \notin {"BOUND", "WORDPHON"}
               /\ outReadPos' = outReadPos + 1
               /\ \/ Current.kind = "SIL" /\ UNCHANGED <<procState, feedFollowState, outBuf>>
                  \/ Current.kind # "SIL" /\ outBuf' = <<Current>> /\ ToFeed
               /\ UNCHANGED <<headx, phonReadPos, recombining>>

\* The symbols of the word that are left.
WordSymbols == LET at == {j \in Symbols : phonBuf[j + 1].pos =< outReadPos}
               IN  [i \in 1 .. Cardinality(at) |-> phonBuf[Min(at) + i]]

\* Accent and part of speech, and the phones to the next syllable bound or the
\* end of the word.  Only the first one tells the part of speech; without phones
\* it is left out.
Syllable ==
    LET w == WordSymbols
        seps == {i \in 3 .. Len(w) : w[i] = Sym(outReadPos, "PHONEME", ".")}
        last == IF seps = {} THEN Len(w) ELSE Min(seps) - 1
        syl == [n |-> Current.n, type |-> "SYLLPHON", kind |-> IF wordStarted THEN w[2].sym ELSE "NA",
                sort |-> w[1].sym, arg |-> -1, phones |-> [i \in 1 .. last - 2 |-> w[i + 2].sym]]
    IN  /\ At("SYL")
        /\ wordStarted' = FALSE
        /\ phonReadPos' = Min(Symbols) + last + (IF seps = {} THEN 0 ELSE 1)
        /\ outReadPos' = IF seps = {} THEN outReadPos + 1 ELSE outReadPos
        /\ feedFollowState' = IF seps = {} THEN "RECOMB" ELSE "SYL"
        /\ IF syl.phones = <<>> THEN procState' = feedFollowState' /\ UNCHANGED outBuf
                                ELSE procState' = "FEED" /\ outBuf' = <<syl>>
        /\ UNCHANGED <<in, out, headx, headxReadPos, window, phonBuf, parsing, suppressRecombWordBound,
                       breaking, history, status>>

Feed == /\ At("FEED")
        /\ \/ /\ Len(out) < Cap
              /\ out' = out \o outBuf /\ outBuf' = <<>>
              /\ procState' = feedFollowState /\ status' = "BUSY"
           \/ /\ Len(out) >= Cap
              /\ status' = "OUT_FULL"
              /\ UNCHANGED <<out, outBuf, procState>>
        /\ UNCHANGED <<in, feedFollowState, headx, headxReadPos, outReadPos, window, phonBuf, phonReadPos,
                       parsing, recombining, breaking, history>>

-----------------------------------------------------------------------------
(* SHIFT: headx without what is done.                                       *)

Without(from, to) == SubSeq(headx, 1, from) \o SubSeq(headx, to + 1, Len(headx))

Shifting == /\ At("SHIFT")
            /\ procState' = "INIT"
            /\ UNCHANGED <<in, out, feedFollowState, headxReadPos, outReadPos, phonBuf, phonReadPos,
                           needMoreInput, force, sentenceStarted, wordStarted, breaking, outBuf, history, status>>

\* Mutant of ShiftPenultima: the left context counts as active again.
ShiftPenultimaActive ==
    /\ Shifting /\ penultima # INVALID
    /\ headx' = Without(0, penultima)
    /\ activeStartPos' = 0
    /\ penultima' = 0
    /\ suppressParseWordBound' = FALSE /\ suppressRecombWordBound' = FALSE
    /\ UNCHANGED activeEndPos

\* From penultima to the active end there is the new left context.
ShiftPenultima ==
    /\ Shifting /\ penultima # INVALID
    /\ headx' = Without(0, penultima)
    /\ activeStartPos' = activeEndPos - penultima
    /\ penultima' = 0
    /\ suppressParseWordBound' = FALSE /\ suppressRecombWordBound' = FALSE
    /\ UNCHANGED activeEndPos

\* The active range goes; if nothing was active, the left context does.
ShiftActive ==
    LET start == IF activeStartPos = activeEndPos THEN 0 ELSE activeStartPos
    IN  /\ Shifting /\ penultima = INVALID
        /\ headx' = Without(start, activeEndPos)
        /\ activeStartPos' = start /\ activeEndPos' = start
        /\ UNCHANGED <<penultima, suppressParseWordBound, suppressRecombWordBound>>

Pass == \/ StartWindow \/ CollectIdle \/ CollectSome \/ Parse
        \/ Transduce \/ Bounds
        \/ RecombDone \/ RecombContext \/ RecombSideBound \/ RecombBound \/ RecombWord \/ RecombOther
        \/ Syllable \/ Feed
        \/ ShiftPenultima \/ ShiftActive

-----------------------------------------------------------------------------
(* headx and cbuf never overflow, the active range and what comes before it *)
(* lie in headx, and procState says what is at hand.                        *)
TypeOK ==
    /\ procState \in {"INIT", "COLLECT", "PARSE", "TRANSDUCE", "BOUNDS", "RECOMB", "SYL", "FEED", "SHIFT"}
    /\ Len(headx) =< SphoHeadx /\ CbufUsed =< SphoCbuf
    /\ Len(phonBuf) =< MaxPhons
    /\ activeStartPos \in 0 .. Len(headx)
    /\ procState # "INIT" => /\ headxReadPos \in 0 .. Len(headx)
                             /\ activeEndPos \in {INVALID} \union activeStartPos .. Len(headx)
                             /\ penultima \in {INVALID} \union 0 .. Len(headx)
    /\ procState \in {"TRANSDUCE", "BOUNDS", "RECOMB", "SYL", "SHIFT"} => activeEndPos # INVALID
    /\ procState = "SYL" => outReadPos < activeEndPos /\ Current.type = "WORDPHON"
    /\ Len(outBuf) = (IF procState = "FEED" THEN 1 ELSE 0)
    /\ status \in {"NONE", "RUNNING", "IDLE", "ATOMIC", "BUSY", "OUT_FULL", "ERROR"}
    /\ Len(out) =< Cap

\* What the unit holds is the items it has not put, or is not putting.
Putting == procState \in {"RECOMB", "SYL", "FEED", "SHIFT"}
Left(pos) == LET e == headx[pos + 1]
                 syllables == IF pos = outReadPos /\ procState \in {"SYL", "FEED"} /\ feedFollowState = "SYL"
                                 /\ ~ wordStarted /\ e.item.type = "WORDPHON"
                              THEN Len(SelectSeq(WordSymbols, LAMBDA y : y.plane = "ACCENT"))
                              ELSE Len(SelectSeq(e.item.phones, LAMBDA y : y = ".")) + 1
             IN  (IF e.strength # "NA" THEN 1 ELSE 0)
                 + (CASE e.item.type = "WORDPHON" -> IF e.item.phones = <<>> THEN 0 ELSE syllables
                      [] e.item.type = "BOUND" \/ e.item.kind = "SIL" -> 0
                      [] OTHER -> 1)
Protocol == INSTANCE UnitProtocol WITH
                in <- Len(in), out <- Len(out),
                held <- Len(headx) - (IF Putting THEN activeEndPos ELSE activeStartPos),
                ready <- IF ~ Putting THEN 0
                         ELSE Len(outBuf)
                              + (IF feedFollowState = "SHIFT" THEN 0 ELSE
                                 FoldLeft(+, 0, [i \in 1 .. activeEndPos |->
                                    IF i - 1 < outReadPos \/ i - 1 < activeStartPos THEN 0 ELSE Left(i - 1)])),
                MaxHeld <- SphoHeadx, MaxReady <- 4 * SphoHeadx
=============================================================================
