---------------------------- MODULE PreprocOutput ----------------------------
(***************************************************************************)
(* What a production of the preprocessor puts out: pr_getOutputItemList and *)
(* pr_genCommands of picopr.c, as operators from the output items of the    *)
(* network, the variables set on the way (a list of items each) and the     *)
(* file being saved to, to s = [items, save].                               *)
(***************************************************************************)
EXTENDS PreprocNetwork
LOCAL INSTANCE SequencesExt

CONSTANT Phonetic    \* strings picodata_mapPAStrToPAIds can map

Word(str) == [type |-> "TOKEN", kind |-> "UNDEFINED", info |-> -1, val |-> 0, str |-> str, n |-> 0]
Command(kind, info, val, str) ==
    [type |-> "CMD", kind |-> kind, info |-> info, val |-> val, str |-> str, n |-> 0]
IsToken(x) == x.type = "TOKEN"
Put(s, x) == [s EXCEPT !.items = Append(@, x)]

\* The list a variable holds, and its text.
Variable(vars, id) == IF id \in DOMAIN vars THEN vars[id] ELSE <<>>
TextOfAll(items) == FlattenSeq([i \in DOMAIN items |-> IF IsToken(items[i]) THEN items[i].str ELSE <<>>])
FirstToken(items) == IF items # <<>> /\ IsToken(items[1]) THEN <<items[1]>> ELSE <<>>

Comma == [Word(<<",">>) EXCEPT !.kind = "CHAR"]
Flush == Command("FLUSH", "", 0, <<>>)

\* pr_putItem puts no phoneme command: it is not implemented.
PutCommand(s, kind, info, val, str) ==
    IF kind = "PHONEME" THEN s ELSE Put(s, Command(kind, info, val, str))

-----------------------------------------------------------------------------
(* Items made of one item or more.                                          *)

\* The letters one by one, each with its pause: -1 a phrase break, -2 the end of
\* a sentence, 0 none.
Spelled(x, mode) ==
    LET Letter(c) == [x EXCEPT !.str = IF c \in Vowels THEN <<c, "SPEC">> ELSE <<c>>, !.val = 0]
        Pause == CASE mode = -2 -> <<Flush>> [] mode = -1 \/ mode > 0 -> <<Comma>> [] mode = 0 -> <<>>
    IN  IF IsToken(x) THEN FlattenSeq([i \in DOMAIN x.str |-> <<Letter(x.str[i])>> \o Pause]) ELSE <<x>>

\* The text between commands put together.
Concatenated(items) ==
    LET Add(s, x) == IF IsToken(x) THEN [s EXCEPT !.str = @ \o x.str]
                     ELSE [items |-> s.items \o <<Word(s.str), x>>, str |-> <<>>]
        all == FoldLeft(Add, [items |-> <<>>, str |-> <<>>], items)
    IN  Append(all.items, Word(all.str))

RomanToCard(x) == IF ~ LatinNumber(x.str).ok THEN x
                  ELSE [x EXCEPT !.str = IntToString(LatinNumber(x.str).val), !.val = LatinNumber(x.str).val]

Least(a, b) == IF a < b THEN a ELSE b
Left(x, n) == [x EXCEPT !.str = SubSeq(@, 1, Least(n, Len(@)))]
Right(x, n) == [x EXCEPT !.str = SubSeq(@, IF Len(@) > n THEN Len(@) - n + 1 ELSE 1, Len(@))]
RemoveLeadingZeros(x) ==
    LET zeros == {k \in 0 .. Len(x.str) : \A i \in 1 .. k : x.str[i] = "0"}
    IN  [x EXCEPT !.str = SubSeq(@, (CHOOSE k \in zeros : \A j \in zeros : j =< k) + 1, Len(@))]

-----------------------------------------------------------------------------
RECURSIVE Produce(_, _, _)

ProduceAll(s, list, vars) == FoldLeft(LAMBDA u, o : Produce(u, o, vars), s, list)

\* The items a list of output items makes, by themselves.
Made(s, list, vars) == ProduceAll([s EXCEPT !.items = <<>>], list, vars).items

\* The number an argument stands for, as a sequence of none or one.
NumberOf(s, o, vars) ==
    LET of == o.arg[1]
        first == FirstToken(IF of.op = "Var" THEN Variable(vars, of.val) ELSE Made(s, o.arg, vars))
    IN  CASE of.op = "Val" -> <<of.val>>
          [] of.op # "Val" -> [i \in DOMAIN first |-> DigitStrToInt(first[i].str)]

\* The name an argument stands for.
NameOf(s, o, vars) ==
    LET of == o.arg[1]
        first == FirstToken(Made(s, o.arg, vars))
    IN  CASE of.op = "Var" -> <<TextOfAll(Variable(vars, of.val))>>
          [] of.op = "Str" -> IF of.str = <<>> THEN <<>> ELSE <<of.str>>
          [] OTHER -> [i \in DOMAIN first |-> first[i].str]

Levels == {"PITCH", "SPEED", "VOLUME"}
GenLevel(s, o, vars) ==
    LET numbers == IF o.arg = <<>> THEN <<100>> ELSE NumberOf(s, o, vars)
    IN  FoldLeft(LAMBDA u, n : PutCommand(u, o.op, "ABSOLUTE", n, <<>>), s, numbers)

\* The tokens behind the string become empty ones, between two commands that
\* are not put.
GenPhon(s, o, vars) ==
    LET made == IF o.arg = <<>> THEN <<>> ELSE Made(s, o.arg, vars)
        empty == [i \in DOMAIN SelectSeq(Tail(made), IsToken) |-> Word(<<>>)]
    IN  IF FirstToken(made) = <<>> \/ made[1].str \notin Phonetic THEN s
        ELSE PutCommand([PutCommand(s, "PHONEME", "START", 0, made[1].str) EXCEPT !.items = @ \o empty],
                        "PHONEME", "END", 0, <<>>)

GenSent(s) == PutCommand(s, "FLUSH", "", 0, <<>>)
GenPara(s, o) == IF o.val = 1 THEN PutCommand(GenSent(s), "SIL", "", 500, <<>>) ELSE GenSent(s)

GenBreak(s, o, vars) ==
    LET numbers == IF o.arg = <<>> THEN <<>> ELSE NumberOf(s, o, vars)
    IN  FoldLeft(LAMBDA u, n : PutCommand(u, "SIL", "", n, <<>>), s, numbers)

GenName(s, o, vars) ==
    LET names == CASE o.arg # <<>> -> NameOf(s, o, vars)
                   [] o.arg = <<>> /\ o.op = "CONTEXT" -> <<<<"DEFAULT">>>>
                   [] OTHER -> <<<<>>>>
    IN  FoldLeft(LAMBDA u, name : PutCommand(u, o.op, "", 0, name), s, names)

\* A file being saved is ended before another one begins; the command that has
\* no argument, to end it, puts nothing; a name given as such is put twice.
GenFile(s, o, vars) ==
    LET names == IF o.arg = <<>> THEN <<>> ELSE NameOf(s, o, vars)
        Save(u, name) ==
            LET ended == IF u.save = <<>> THEN u ELSE PutCommand(u, "UNSAVE", "", 0, u.save)
            IN  IF name \notin SavedFiles THEN u
                ELSE [PutCommand(ended, "SAVE", "", 0, name) EXCEPT !.save = name]
        Again(u, name) == IF o.arg[1].op = "Str" THEN PutCommand(u, "SAVE", "", 0, name) ELSE u
    IN  FoldLeft(LAMBDA u, name : Again(Save(u, name), name), s, names)

\* A file to be played instead of text or, for USESIG, of its sound; a variable's
\* name is put twice.
GenPlay(s, o, vars) ==
    LET names == IF o.arg = <<>> THEN <<>> ELSE NameOf(s, o, vars)
        Play(u, name) == PutCommand(u, "PLAY", "", 0, name)
        twice == o.arg # <<>> /\ o.arg[1].op = "Var"
        played == FoldLeft(LAMBDA u, name : IF twice THEN Play(Play(u, name), name) ELSE Play(u, name), s, names)
    IN  PutCommand(played, IF o.op = "USESIG" THEN "IGNSIG" ELSE "IGNORE",
                   IF o.arg # <<>> THEN "START" ELSE "END", 0, <<>>)

-----------------------------------------------------------------------------
\* One item of the output.
Produce(s, o, vars) ==
    LET made == Made(s, o.arg, vars)
        PutAll(items) == [s EXCEPT !.items = @ \o items]
        Each(Op(_)) == PutAll([i \in DOMAIN FirstToken(made) |-> Op(FirstToken(made)[i])])
        n == o.arg[1].val
    IN  CASE o.op = "Str" -> Put(s, Word(o.str))
          [] o.op = "Var" -> PutAll(Variable(vars, o.val))
          [] o.op = "Spell" -> PutAll(FlattenSeq([i \in DOMAIN made |->
                                        Spelled(made[i], IF Len(o.arg) > 1 THEN o.arg[2].val ELSE 0)]))
          [] o.op = "Concat" -> PutAll(Concatenated(made))
          [] o.op = "RomanToCard" -> Each(RomanToCard)
          [] o.op = "Val" -> s
          [] o.op = "Left" -> Each(LAMBDA x : Left(x, n))
          [] o.op = "Right" -> Each(LAMBDA x : Right(x, n))
          [] o.op = "Item" -> PutAll(IF n \in DOMAIN made THEN FirstToken(SubSeq(made, n, n)) ELSE <<>>)
          [] o.op = "RLZ" -> Each(RemoveLeadingZeros)
          [] o.op = "IGNORE" -> PutCommand(s, "IGNORE", IF o.val = 0 THEN "START" ELSE "END", 0, <<>>)
          [] o.op \in Levels -> GenLevel(s, o, vars)
          [] o.op = "Phon" -> GenPhon(s, o, vars)
          [] o.op = "Sent" -> GenSent(s)
          [] o.op = "Para" -> GenPara(s, o)
          [] o.op = "Break" -> GenBreak(s, o, vars)
          [] o.op \in {"VOICE", "CONTEXT", "MARKER"} -> GenName(s, o, vars)
          [] o.op = "GenFile" -> GenFile(s, o, vars)
          [] o.op \in {"PLAY", "USESIG"} -> GenPlay(s, o, vars)
=============================================================================
