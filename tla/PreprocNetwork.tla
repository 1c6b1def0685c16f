--------------------------- MODULE PreprocNetwork ---------------------------
(***************************************************************************)
(* What the preprocessor's networks say (picopr.c on the tables picokpr.c   *)
(* reads): which items a token of a network matches, and which items the    *)
(* output of a production makes.                                            *)
(*                                                                          *)
(* A token of a network is [np, wp, next, altL, altR]: its flags, its       *)
(* attributes that have a value, what follows it and what is tried instead  *)
(* of it, 0 for nothing.  An item of an output is [op, arg, val, str]: its  *)
(* arguments are again such items.  Items of text are Tokenizer's, with the *)
(* characters alone in str.  Tokens of several words (LEX) never match.     *)
(***************************************************************************)
EXTENDS Integers, Sequences
LOCAL INSTANCE FiniteSetsExt
LOCAL INSTANCE SequencesExt

CONSTANTS Net,          \* the tokens, by their offsets
          Rank,         \* the codes of the characters
          LowerCase,    \* of the characters that have another one
          DigitValue,   \* of the digits
          Vowels,       \* characters spelled with SPEC_CHAR behind them (LETTERV)
          SavedFiles    \* names that picodata_getPuTypeFromExtension knows to save to

-----------------------------------------------------------------------------
(* Strings.                                                                 *)
ToLower(str) == [i \in DOMAIN str |-> IF str[i] \in DOMAIN LowerCase THEN LowerCase[str[i]] ELSE str[i]]
IsLowerCase(str) == ToLower(str) = str
LowerLetters == {LowerCase[c] : c \in DOMAIN LowerCase}
IsUpperCase(str) == \A i \in DOMAIN str : str[i] \notin LowerLetters
FirstToLower(str) == IF str = <<>> THEN str ELSE ToLower(<<str[1]>>) \o Tail(str)
IsSUC(str) == str = <<>> \/ (IsUpperCase(<<str[1]>>) /\ IsLowerCase(Tail(str)))

\* tok_tokenDigitStrToInt, and the picoos_atoi of what is all digits.
DigitStrToInt(str) == FoldLeft(LAMBDA v, c : IF c \in DOMAIN DigitValue THEN 10 * v + DigitValue[c] ELSE v, 0, str)

RECURSIVE IntToString(_)
\* Nothing is left of a zero.
IntToString(n) == IF n =< 0 THEN <<>>
                  ELSE Append(IntToString(n \div 10), CHOOSE c \in DOMAIN DigitValue : DigitValue[c] = n % 10)

\* pr_compare of a string in lower case with one to be put so.
Compare(lower, str) ==
    LET other == ToLower(str)
        differ == {i \in 1 .. Min({Len(lower), Len(other)}) : lower[i] # other[i]}
    IN  CASE lower = other -> "EQUAL"
          [] differ = {} /\ lower # other -> IF Len(lower) < Len(other) THEN "SMALLER" ELSE "LARGER"
          [] OTHER -> IF Rank[lower[Min(differ)]] < Rank[other[Min(differ)]] THEN "SMALLER" ELSE "LARGER"

-----------------------------------------------------------------------------
(* pr_isLatinNumber: what is read lowers the limit (seq) of what can follow.*)
LatinSymbols(upper) ==
    IF upper THEN <<"I", "V", "X", "L", "C", "D", "M">> ELSE <<"i", "v", "x", "l", "c", "d", "m">>
LatinValues == <<1, 5, 10, 50, 100, 500, 1000>>
LatinNumber(str) ==
    LET sym == LatinSymbols(str # <<>> /\ IsUpperCase(<<str[1]>>))
        Is(i, v) == i \in DOMAIN str /\ \E k \in 1 .. 7 : LatinValues[k] = v /\ str[i] = sym[k]
        Pair(s, u, k) == [s EXCEPT !.val = @ + k * u, !.seq = u, !.skip = TRUE]
        One(s, i, u) ==
            CASE ~ Is(i - 1, u) /\ s.seq >= 4 * u /\ Is(i + 1, 5 * u) -> Pair(s, u, 4)
              [] ~ Is(i - 1, u) /\ s.seq >= 4 * u /\ Is(i + 1, 10 * u) -> Pair(s, u, 9)
              [] ~ Is(i - 1, u) /\ s.seq >= 4 * u -> [s EXCEPT !.val = @ + u, !.seq = 3 * u]
              [] OTHER -> [s EXCEPT !.val = @ + u, !.seq = @ - u]
        Add(s, i) ==
            CASE s.skip -> [s EXCEPT !.skip = FALSE]
              [] ~ s.skip /\ \E u \in {1, 10, 100} : Is(i, u) /\ s.seq > u ->
                    One(s, i, CHOOSE u \in {1, 10, 100} : Is(i, u))
              [] ~ s.skip /\ \E u \in {1, 10, 100} : Is(i, 5 * u) /\ s.seq > 5 * u ->
                    LET u == CHOOSE u \in {1, 10, 100} : Is(i, 5 * u)
                    IN  [s EXCEPT !.val = @ + 5 * u, !.seq = 5 * u]
              [] ~ s.skip /\ Is(i, 1000) /\ s.seq >= 1000 -> [s EXCEPT !.val = @ + 1000]
              [] OTHER -> [s EXCEPT !.ok = FALSE]
    IN  FoldLeft(Add, [val |-> 0, seq |-> 1000, skip |-> FALSE, ok |-> TRUE], [i \in 1 .. Len(str) |-> i])

-----------------------------------------------------------------------------
(* pr_matchTokens: what each kind of token looks at.                        *)
Np(tok) == Net[tok].np
Wp(tok) == Net[tok].wp
Has(tok, a) == a \in DOMAIN Net[tok].wp

TokenKinds == {"SPACE", "DIGIT", "LETTER", "SEQ", "CHAR", "BEGIN", "END"}
HasToken(tok) == Np(tok) \intersect TokenKinds # {} \/ Has(tok, "LEX")
IsMultiToken(tok) == Has(tok, "LEX") /\ "LETTER" \notin Np(tok)

Comparison(tok, item) == IF Has(tok, "STR") THEN Compare(ToLower(item.str), Wp(tok).STR) ELSE "EQUAL"

\* The text a letter token compares: without case, without that of the first
\* letter, or as it is.
TextOf(tok, item) == CASE item.kind = "LETTER" /\ "CI" \in Np(tok) -> ToLower(item.str)
                       [] item.kind = "LETTER" /\ "CI" \notin Np(tok) /\ "CIS" \in Np(tok) -> FirstToLower(item.str)
                       [] OTHER -> item.str

\* A number has its value for a measure, anything else its length.
MatchesMeasure(tok, item) ==
    LET measure == IF item.kind = "DIGIT" THEN item.val ELSE Len(item.str)
    IN  item.kind \in {"SPACE", "DIGIT", "SEQ", "LETTER"} =>
            /\ Has(tok, "LEN") => Len(item.str) = Wp(tok).LEN
            /\ Has(tok, "MIN") => measure >= Wp(tok).MIN
            /\ Has(tok, "MAX") => measure =< Wp(tok).MAX

MatchesValue(tok, item) ==
    Has(tok, "VAL") => CASE item.kind = "DIGIT" -> item.val = Wp(tok).VAL
                         [] item.kind = "SPACE" -> Len(SelectSeq(item.str, LAMBDA c : c = "EOL")) = Wp(tok).VAL
                         [] OTHER -> TRUE

MatchesText(tok, item) ==
    LET text == TextOf(tok, item)
        Mid(part) == \E i \in 0 .. Len(text) - Len(part) : SubSeq(text, i + 1, i + Len(part)) = part
    IN  /\ Has(tok, "STR") => IF item.kind = "LETTER" /\ "CI" \notin Np(tok) THEN text = Wp(tok).STR
                              ELSE Comparison(tok, item) = "EQUAL"
        /\ item.kind \in {"DIGIT", "SEQ", "LETTER"} =>
              /\ Has(tok, "HEAD") => IsPrefix(Wp(tok).HEAD, text)
              /\ Has(tok, "MID") => Mid(Wp(tok).MID)
              /\ Has(tok, "TAIL") => IsSuffix(Wp(tok).TAIL, text)

MatchesLetters(tok, item) ==
    /\ "AUC" \in Np(tok) => IsUpperCase(item.str)
    /\ "ALC" \in Np(tok) => IsLowerCase(item.str)
    /\ "SUC" \in Np(tok) => IsSUC(item.str)
    /\ "ROMAN" \in Np(tok) => LatinNumber(item.str).ok

MatchTokens(tok, item) ==
    /\ item.kind \in Np(tok) /\ ~ IsMultiToken(tok)
    /\ item.kind \notin {"BEGIN", "END"} =>
          /\ MatchesMeasure(tok, item) /\ MatchesValue(tok, item) /\ MatchesText(tok, item)
          /\ item.kind = "DIGIT" /\ "NLZ" \in Np(tok) => item.str[1] # "0"
          /\ item.kind = "LETTER" => MatchesLetters(tok, item)
          /\ Has(tok, "ID") => item.info = Wp(tok).ID
=============================================================================
