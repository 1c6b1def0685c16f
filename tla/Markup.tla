------------------------------- MODULE Markup -------------------------------
(***************************************************************************)
(* What the tags in a text mean: tok_interpretMarkup and what it calls, as  *)
(* operators on the tokenizer's state t (see Tokenizer).  They put commands *)
(* into its outBuf, count levels to ignore, and keep the file being saved.  *)
(*                                                                          *)
(* An item is [type, kind, info, val, str, n]: a TOKEN with its token type  *)
(* (kind), subtype (info) and characters (str), or a CMD with the number or *)
(* the name it carries; n is the place in the text of what it comes from.   *)
(* A character is [c, n], with the place it stands at; a keyword or a       *)
(* number of a tag is one character here.                                   *)
(***************************************************************************)
EXTENDS Integers, Sequences
LOCAL INSTANCE FiniteSetsExt
LOCAL INSTANCE SequencesExt

CONSTANTS OutBufSize,     \* OUT_BUF_SIZE
          Files,          \* files that exist: sequences of characters
          Phonetic,       \* strings picodata_mapPAStrToPAIds can map
          Number          \* the number written by some of the characters

-----------------------------------------------------------------------------
(* tok_putItem.                                                             *)
Cmd(t, kind, info, val, str) ==
    [type |-> "CMD", kind |-> kind, info |-> info, val |-> val, str |-> str, n |-> t.at]

Valued == {"SPEED", "PITCH", "VOLUME", "SPELL", "SIL", "SPEAKER"}
Size(x) == 4 + (IF x.type = "CMD" /\ x.kind \in Valued THEN 2 ELSE Len(x.str))
Used(t) == MapThenSumSet(LAMBDA i : Size(t.outBuf[i]), DOMAIN t.outBuf)

IsFlush(x) == x.type = "CMD" /\ x.kind = "FLUSH"
Places(str) == {str[i].n : i \in DOMAIN str} \ {0}

\* A flush command goes in unseen; anything else not while text is ignored, and
\* not if it does not fit.
PutItem(t, x) ==
    IF IsFlush(x) \/ (t.ignLevel =< 0 /\ Used(t) + Size(x) < OutBufSize)
    THEN [t EXCEPT !.outBuf = Append(@, x)]
    ELSE [t EXCEPT !.skipped = @ \union (IF x.type = "TOKEN" THEN Places(x.str) ELSE {})]

-----------------------------------------------------------------------------
(* Attributes.                                                              *)
ParamId(t, i) == IF i =< Len(t.params) THEN t.params[i].id ELSE <<>>
ParamVal(t, i) == IF i =< Len(t.params) THEN t.params[i].val ELSE <<>>
\* The value of the attribute, wherever it stands; empty without it.
ParamStr(t, id) == LET at == {i \in DOMAIN t.params : t.params[i].id = id}
                   IN  IF at = {} THEN <<>> ELSE t.params[Min(at)].val

AtoiOf(str) == IF str # <<>> /\ str[1] \in DOMAIN Number THEN Number[str[1]] ELSE 0
Atoi(str) == IF str # <<>> /\ str[1] \in {"+", "-"}
             THEN (IF str[1] = "-" THEN -1 ELSE 1) * AtoiOf(Tail(str)) ELSE AtoiOf(str)

\* tok_isRelative: a percentage, of which one with a sign is added to the whole.
IsRelative(str) == str # <<>> /\ Last(str) = "%"
Factor(str) == (IF str[1] \in {"+", "-"} THEN 1000 ELSE 0) + 10 * Atoi(Front(str))

\* tok_checkLimits, of an unsigned number: a negative one becomes the maximum.
WithinLimits(value, min, max) == CASE value < 0 \/ value > max -> max
                                   [] 0 =< value /\ value < min -> min
                                   [] OTHER -> value

\* tok_getDur: a number, and its unit.
IsDuration(str) == str # <<>> /\ Last(str) \in {"s", "ms"} /\ Len(str) =< 2
                   /\ (Len(str) = 2 => str[1] \in DOMAIN Number)
Duration(str) == IF IsDuration(str)
                 THEN WithinLimits((IF Last(str) = "s" THEN 1000 ELSE 1) * AtoiOf(str), 0, 65535) ELSE 0

-----------------------------------------------------------------------------
(* tok_interpretMarkup: a tag that does not have its attributes is an error,*)
(* and is then read as text.                                                *)
Uninterpreted(t) == [t EXCEPT !.markupTagErr = TRUE]
Plain(t) == ParamId(t, 1) = <<>>

InterpretIgnore(t, isStart) ==
    CASE ~ Plain(t) -> Uninterpreted(t)
      [] Plain(t) /\ isStart -> [t EXCEPT !.ignLevel = @ + 1]
      [] OTHER -> [t EXCEPT !.ignLevel = IF @ > 0 THEN @ - 1 ELSE @]

Least == [SPEED |-> 20, PITCH |-> 50, VOLUME |-> 0, SPEAKER |-> 20]
Most == [SPEED |-> 500, PITCH |-> 200, VOLUME |-> 500, SPEAKER |-> 180]

\* speed, pitch, volume, speaker: set, or set back to 100.
InterpretLevel(t, isStart, kind) ==
    LET level == ParamVal(t, 1)
        ToPut == IF IsRelative(level)
                 THEN Cmd(t, kind, "RELATIVE", WithinLimits(Factor(level), 500, 2000), <<>>)
                 ELSE Cmd(t, kind, "ABSOLUTE", WithinLimits(Atoi(level), Least[kind], Most[kind]), <<>>)
    IN  CASE isStart /\ ParamId(t, 1) = <<"level">> -> PutItem(t, ToPut)
          [] ~ isStart /\ Plain(t) -> PutItem(t, Cmd(t, kind, "ABSOLUTE", 100, <<>>))
          [] OTHER -> Uninterpreted(t)

Flush(t) == PutItem(t, Cmd(t, "FLUSH", "", 0, <<>>))
ProsDomain(t, info, str) == PutItem(t, Cmd(t, "PROSDOMAIN", info, 0, str))

InterpretVoice(t, isStart) ==
    IF (isStart /\ ParamId(t, 1) = <<"name">>) \/ (~ isStart /\ Plain(t))
    THEN ProsDomain(Flush(PutItem(t, Cmd(t, "VOICE", "", 0, ParamVal(t, 1)))), "0", <<>>)
    ELSE Uninterpreted(t)

InterpretContext(t, isStart) ==
    CASE isStart /\ ParamId(t, 1) = <<"name">> -> PutItem(t, Cmd(t, "CONTEXT", "", 0, ParamVal(t, 1)))
      [] ~ isStart /\ Plain(t) -> PutItem(t, Cmd(t, "CONTEXT", "", 0, <<"DEFAULT">>))
      [] OTHER -> Uninterpreted(t)

InterpretMark(t, isStart) ==
    CASE isStart /\ ParamId(t, 1) = <<"name">> -> PutItem(t, Cmd(t, "MARKER", "", 0, ParamVal(t, 1)))
      [] ~ isStart /\ Plain(t) -> t
      [] OTHER -> Uninterpreted(t)

\* sentence and paragraph; a paragraph ends with a pause.
InterpretDomain(t, isStart, info) ==
    LET pause == IF info = "1" /\ ~ isStart THEN PutItem(Flush(t), Cmd(t, "SIL", "", 500, <<>>)) ELSE Flush(t)
    IN  IF isStart \/ Plain(t)
        THEN ProsDomain(pause, info, IF isStart THEN ParamStr(t, <<"prosodydomain">>) ELSE <<>>)
        ELSE Uninterpreted(t)

InterpretBreak(t, isStart) ==
    CASE isStart /\ ParamId(t, 1) = <<"time">> /\ IsDuration(ParamVal(t, 1)) ->
            PutItem(t, Cmd(t, "SIL", "", Duration(ParamVal(t, 1)), <<>>))
      [] ~ isStart /\ Plain(t) -> t
      [] OTHER -> Uninterpreted(t)

\* 1: with a phrase break after each letter, 2: with a sentence break; any
\* other mode is a pause, of no length if it is not a duration.
InterpretSpell(t, isStart) ==
    LET mode == CASE ParamId(t, 1) # <<"mode">> \/ ParamVal(t, 1) = <<"pb">> -> 1
                  [] ParamVal(t, 1) = <<"sb">> -> 2
                  [] OTHER -> Duration(ParamVal(t, 1))
    IN  CASE isStart -> PutItem(t, Cmd(t, "SPELL", "START", mode, <<>>))
          [] ~ isStart /\ Plain(t) -> PutItem(t, Cmd(t, "SPELL", "END", 0, <<>>))
          [] OTHER -> Uninterpreted(t)

\* genfile: a file that is being saved is ended first.
InterpretGenFile(t, isStart) ==
    LET Ended(str) == IF t.saveFile = <<>> THEN t ELSE PutItem(t, Cmd(t, "UNSAVE", "", 0, str))
        file == ParamVal(t, 1)
    IN  CASE isStart /\ ParamId(t, 1) = <<"file">> ->
                [PutItem(Ended(t.saveFile), Cmd(t, "SAVE", "", 0, file)) EXCEPT !.saveFile = file]
          [] ~ isStart /\ Plain(t) -> [Ended(<<>>) EXCEPT !.saveFile = <<>>]
          [] OTHER -> Uninterpreted(t)

\* play: the text up to its end is ignored, unless there is no such file.
InterpretPlay(t, isStart) ==
    LET file == ParamVal(t, 1)
        Ignoring(u) == [u EXCEPT !.ignLevel = @ + 1]
    IN  CASE isStart /\ ParamId(t, 1) = <<"file">> ->
                CASE file \in Files -> Ignoring(PutItem(t, Cmd(t, "PLAY", "", 0, file)))
                  [] file \notin Files /\ t.ignLevel > 0 -> Ignoring(t)
                  [] OTHER -> t
          [] ~ isStart /\ Plain(t) -> [t EXCEPT !.ignLevel = IF @ > 0 THEN @ - 1 ELSE @]
          [] OTHER -> Uninterpreted(t)

\* usesig: the text is read, but what it would sound like is not put.
InterpretUseSig(t, isStart) ==
    LET file == ParamVal(t, 1)
    IN  CASE isStart /\ ParamId(t, 1) = <<"file">> ->
                IF file \notin Files THEN t
                ELSE PutItem(PutItem(t, Cmd(t, "PLAY", "", 0, file)), Cmd(t, "IGNSIG", "START", 0, <<>>))
          [] ~ isStart /\ Plain(t) -> PutItem(t, Cmd(t, "IGNSIG", "END", 0, <<>>))
          [] OTHER -> Uninterpreted(t)

\* phoneme: without a string that can be mapped the text is read.
InterpretPhoneme(t, isStart) ==
    LET at == CASE ParamId(t, 1) = <<"alphabet">> /\ ParamId(t, 2) = <<"ph">> -> 2
                [] ParamId(t, 1) = <<"ph">> -> 1
                [] OTHER -> 0
    IN  CASE isStart /\ at > 0 ->
                IF ParamVal(t, at) \notin Phonetic THEN t
                ELSE PutItem(t, Cmd(t, "PHONEME", "START", 0, ParamVal(t, at)))
          [] ~ isStart /\ Plain(t) -> PutItem(t, Cmd(t, "PHONEME", "END", 0, <<>>))
          [] OTHER -> Uninterpreted(t)

\* item: what it says, put unseen (tok_putItem2).
InterpretItem(t, isStart) ==
    LET named == <<ParamId(t, 1), ParamId(t, 2), ParamId(t, 3), ParamId(t, 4)>>
                   = <<<<"type">>, <<"info1">>, <<"info2">>, <<"data">>>>
        data == SelectSeq(ParamVal(t, 4), LAMBDA c : c \notin {" ", ","})
        valid == ParamVal(t, 1) \in {<<"C">>, <<"t">>} /\ \A i \in DOMAIN data : AtoiOf(<<data[i]>>) < 256
    IN  CASE isStart /\ named /\ valid ->
                [t EXCEPT !.outBuf = Append(@, [type |-> "ITEM", kind |-> ParamVal(t, 2), info |-> ParamVal(t, 3),
                                                val |-> 0, str |-> data, n |-> t.at])]
          [] ~ isStart /\ Plain(t) -> t
          [] OTHER -> Uninterpreted(t)

\* tok_markupTagId knows these names.
Known == {<<"ignore">>, <<"speed">>, <<"pitch">>, <<"volume">>, <<"speaker">>, <<"voice">>, <<"preproccontext">>,
          <<"mark">>, <<"play">>, <<"usesig">>, <<"genfile">>, <<"sentence">>, <<"s">>, <<"paragraph">>, <<"p">>,
          <<"break">>, <<"spell">>, <<"phoneme">>, <<"item">>}

InterpretMarkup(t, isStart) ==
    LET is(names) == t.tagName \in {<<name>> : name \in names} IN
    CASE is({"ignore"}) -> InterpretIgnore(t, isStart)
      [] is({"speed"}) -> InterpretLevel(t, isStart, "SPEED")
      [] is({"pitch"}) -> InterpretLevel(t, isStart, "PITCH")
      [] is({"volume"}) -> InterpretLevel(t, isStart, "VOLUME")
      [] is({"speaker"}) -> InterpretLevel(t, isStart, "SPEAKER")
      [] is({"voice"}) -> InterpretVoice(t, isStart)
      [] is({"preproccontext"}) -> InterpretContext(t, isStart)
      [] is({"mark"}) -> InterpretMark(t, isStart)
      [] is({"sentence", "s"}) -> InterpretDomain(t, isStart, "2")
      [] is({"paragraph", "p"}) -> InterpretDomain(t, isStart, "1")
      [] is({"break"}) -> InterpretBreak(t, isStart)
      [] is({"spell"}) -> InterpretSpell(t, isStart)
      [] is({"genfile"}) -> InterpretGenFile(t, isStart)
      [] is({"play"}) -> InterpretPlay(t, isStart)
      [] is({"usesig"}) -> InterpretUseSig(t, isStart)
      [] is({"phoneme"}) -> InterpretPhoneme(t, isStart)
      [] is({"item"}) -> InterpretItem(t, isStart)
=============================================================================
