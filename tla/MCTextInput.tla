----------------------------- MODULE MCTextInput -----------------------------
(* An instance of TextInput for TLC: short texts with each kind of tag, tags *)
(* that are none, characters of two bytes and tokens that are too long, and  *)
(* a network of numbers, dates, words and abbreviations.                     *)
EXTENDS TextInput
LOCAL INSTANCE TLC

MCUtf8Length == [c \in {"a", "b", "c", "I", "V", "1", "2", " ", "EOL", ".", ",", "<", ">", "/", "=", "'", "%", "+",
                        "70", "ms", "pb", "sb", "f", "g", "speed", "level", "spell", "mode", "break", "time", "mark",
                        "name", "preproccontext", "voice", "play", "file", "ignore", "phoneme", "ph", "usesig",
                        "genfile", "p", "item", "type", "info1", "info2", "data", "C", "t", "NUL"} |-> 1]
                @@ ("two" :> 2) @@ ("rest" :> 0)
Of(type) == [type |-> type, sub |-> -1]
MCGraphs == [str \in {<<c>> : c \in {"a", "b", "c", "I", "V", "speed", "level"}} \union {<<"two", "rest">>} |-> Of("LETTER")]
            @@ [str \in {<<"1">>, <<"2">>} |-> Of("DIGIT")]
            @@ [str \in {<<".">>, <<",">>} |-> Of("CHAR")]
            @@ [str \in {<<"<">>, <<"'">>, <<"=">>, <<"/">>} |-> Of("SEQ")]
MCLowerCase == "I" :> "i" @@ "V" :> "v"
MCLetters == {"a", "b", "f", "speed", "level", "spell", "mode", "break", "time", "mark", "name", "preproccontext",
              "voice", "play", "file", "ignore", "phoneme", "ph", "usesig", "genfile", "p", "item", "type",
              "info1", "info2", "data", "C", "t"}
MCDigits == {"1", "2"}
MCNumber == "70" :> 70 @@ "1" :> 1 @@ "2" :> 2
MCPhonetic == {<<"a">>}
MCFiles == {<<"f">>}
MCDigitValue == "0" :> 0 @@ "1" :> 1 @@ "2" :> 2 @@ "3" :> 3 @@ "4" :> 4 @@ "5" :> 5 @@ "6" :> 6 @@ "7" :> 7
                @@ "8" :> 8 @@ "9" :> 9
MCRank == "EOL" :> -1 @@ " " :> 0 @@ "." :> 1 @@ "," :> 2 @@ "1" :> 3 @@ "2" :> 4 @@ "a" :> 5 @@ "b" :> 6 @@ "c" :> 7 @@ "i" :> 8 @@ "v" :> 9
          @@ "two" :> 10 @@ "<" :> 11 @@ "speed" :> 12 @@ "level" :> 13 @@ "=" :> 14 @@ "'" :> 15 @@ "/" :> 16 @@ ">" :> 17
          @@ "rest" :> 18
MCVowels == {"a"}
MCSavedFiles == {<<"f">>}
MCPunct == "." :> "SENTEND" @@ "," :> "PHRASEEND"
MCSubs == "V" :> <<"v", "v">>

None == [k \in {} |-> 0]
Tok(np, wp, next, altL, altR) == [np |-> np, wp |-> wp, next |-> next, altL |-> altL, altR |-> altR]
Out(op, val, str, arg) == [op |-> op, val |-> val, str |-> str, arg |-> arg]
Var(id) == Out("Var", id, <<>>, <<>>)
Accepted == Tok({"ACCEPT"}, None, 0, 0, 0)
MCNet == <<
    \* 1: a number
    Tok({"DIGIT"}, [VAR |-> 1], 2, 0, 0), Tok({}, [OUT |-> <<Var(1)>>], 3, 0, 0), Accepted,
    \* 4: a date: two numbers with a dot between them
    Tok({"DIGIT"}, [VAR |-> 1], 5, 0, 0), Tok({"CHAR"}, [STR |-> <<".">>], 6, 0, 0),
    Tok({"DIGIT"}, [VAR |-> 2, MIN |-> 2], 7, 0, 0), Tok({}, [OUT |-> <<Var(1), Var(2)>>], 8, 0, 0), Accepted,
    \* 9: one of three words, then space, then a b, read by another production
    Tok({"LETTER"}, [STR |-> <<"b">>], 12, 10, 11), Tok({"LETTER"}, [STR |-> <<"a">>, COST |-> 3], 12, 0, 0),
    Tok({"LETTER"}, [STR |-> <<"c">>], 12, 0, 0), Tok({"SPACE"}, None, 12, 0, 13),
    Tok({}, [PROD |-> 4, VAR |-> 1], 14, 0, 0), Tok({}, [OUT |-> <<Out("Concat", 0, <<>>, <<Var(1)>>)>>], 15, 0, 0),
    Accepted,
    \* 16: that b
    Tok({"LETTER"}, [STR |-> <<"b">>, VAR |-> 1], 17, 0, 0),
    Tok({}, [OUT |-> <<Var(1)>>], 18, 0, 0), Accepted,
    \* 19: a roman number
    Tok({"LETTER", "ROMAN", "AUC"}, [VAR |-> 1], 20, 0, 0),
    Tok({}, [OUT |-> <<Out("RomanToCard", 0, <<>>, <<Var(1)>>)>>], 21, 0, 0), Accepted,
    \* 22: a word, without a variable, put out letter by letter and with a pause
    Tok({}, [PROD |-> 9, PRODEXT |-> "word"], 23, 0, 36),
    Tok({}, [OUT |-> <<Out("Spell", 0, <<>>, <<Out("Str", 0, <<"a", "b">>, <<>>)>>),
                       Out("Break", 0, <<>>, <<Out("Val", 70, <<>>, <<>>)>>)>>], 24, 0, 0), Accepted,
    \* 25: the word, or two of them
    Tok({"LETTER"}, None, 26, 0, 0), Accepted,
    \* 27: two numbers with space between them
    Tok({"DIGIT"}, [VAR |-> 1], 28, 0, 0), Tok({"SPACE"}, None, 29, 0, 0), Tok({"DIGIT"}, [VAR |-> 2], 30, 0, 0),
    Tok({}, [OUT |-> <<Var(1), Out("Str", 0, <<",">>, <<>>), Var(2)>>], 31, 0, 0), Accepted,
    \* 32: an abbreviation, which stands for a longer word
    Tok({"LETTER"}, [STR |-> <<"b">>], 34, 33, 0), Tok({"LETTER"}, [STR |-> <<"a">>, COST |-> 5], 34, 0, 0),
    Tok({}, [OUT |-> <<Out("Str", 0, <<"V", " ", "c">>, <<>>)>>], 35, 0, 0), Accepted,
    \* 36: a production of another network, which is not loaded
    Tok({}, [PROD |-> 7, PRODEXT |-> "none"], 24, 0, 0) >>
Prod(name, first, pref) == [name |-> name, first |-> first, pref |-> pref]
MCProds == << Prod("number", 1, 0), Prod("date", 4, 5), Prod("words", 9, 0), Prod("b", 16, 0), Prod("roman", 19, 0),
              Prod("spelled", 22, 0), Prod("word", 25, 2), Prod("numbers", 27, 0), Prod("short", 32, 1) >>
Entry(ctx, prod) == [ctx |-> <<ctx>>, prod |-> prod]
MCContexts == <<Entry("DEFAULT", 1), Entry("DEFAULT", 2), Entry("DEFAULT", 3), Entry("DEFAULT", 5), Entry("DEFAULT", 8), Entry("DEFAULT", 9), Entry("g", 6)>>

Text(chars) == [i \in 1 .. Len(chars) + 1 |-> [c |-> Append(chars, "NUL")[i], n |-> i]]
Tag(name, attr, val) == <<"<", name, " ", attr, "=", "'">> \o val \o <<"'", ">">>
Attr(name, val) == <<name, "=", "'", val, "'">>
End(name) == <<"<", "/", name, " ", ">">>
MCTexts == {Text(str) : str \in {
    <<"1", ".", "2", "1", " ", "1", ".", "2", " ">>,
    <<"1">> \o Tag("mark", "name", <<"a">>) \o Tag("mark", "name", <<"b">>) \o <<"2">>,
    <<"c">> \o [i \in 1 .. 9 |-> " "] \o <<"b">>, <<"1", ".", "a">>, <<"1">>, <<"a", " ", "b">>, <<"2", " ", "1", ".">>,
    <<"a", "b", "c", "two", "rest", "rest", "two", "a", "EOL", "EOL">>,
    <<"b">> \o Tag("speed", "level", <<"70">>) \o <<"b", "c", " ", "a">>,
    <<"1">> \o Tag("break", "time", <<"70", "ms">>) \o <<"I", "V">>,
    Tag("spell", "mode", <<"sb">>) \o <<"a", "b">> \o End("spell") \o <<"a">>,
    <<"a">> \o Tag("spell", "mode", <<"sb">>) \o <<" ">> \o End("spell") \o <<"b">>,
    <<"<", "speed", " ", "level", "a", ".">>,
    Tag("speed", "level", <<"+", "2", "%">>) \o <<"a">> \o Tag("play", "file", <<"g">>) \o <<"1">> \o End("play"),
    <<"<", "speed", " ", "level", "=", "'", "two", "rest">> \o [i \in 1 .. 20 |-> "a"],
    <<"<", "speed", " ", "level", "=", "'">> \o [i \in 1 .. 17 |-> "a"] \o <<"two", "rest", "b">>,
    <<"<", "item", " ">> \o Attr("type", "t") \o Attr("info1", "1") \o Attr("info2", "2") \o Attr("data", "1")
        \o <<">", "<", "ignore", ">", "a", "1">> \o End("ignore") \o <<"2">>,
    Tag("genfile", "file", <<"f">>) \o <<"1", "<", "p", ">">> \o Tag("genfile", "file", <<"a">>) \o End("p"),
    Tag("preproccontext", "name", <<"g">>) \o <<"c", "V", " ", "a">>,
    Tag("play", "file", <<"f">>) \o <<"a">> \o End("play") \o <<"b">>,
    <<"a">> \o Tag("phoneme", "ph", <<"a">>) \o Tag("usesig", "file", <<"f">>) \o <<"c">>,
    <<"c">> \o Tag("mark", "name", <<"a">>) \o Tag("voice", "name", <<"a">>) \o <<".">> }}
MCNextTexts == {Text(<<"a", ".">>)}
=============================================================================
