----------------------------- MODULE MCProsody -----------------------------
(* An instance of Prosody for TLC: texts of a few items, chosen so that     *)
(* windows, phrases and sentences run over, and that each kind of bound and *)
(* command is there.                                                        *)
EXTENDS Prosody

It(type, kind, sort, arg, phones) ==
    [n |-> 0, type |-> type, kind |-> kind, sort |-> sort, arg |-> arg, phones |-> phones]
W(phones) == It("WORDPHON", "", "NA", -1, phones)
SEND(sort) == It("PUNC", "SENTEND", sort, -1, <<>>)
PEND == It("PUNC", "PHRASEEND", "P", -1, <<>>)
FLUSH == It("PUNC", "FLUSH", "T", -1, <<>>)
Cmd(kind, arg) == It("CMD", kind, "", arg, <<>>)
PlayToPam == It("CMD", "PLAY", "TO_PAM", -1, <<>>)
w1 == W(<<"'", "a">>)
w2 == W(<<"'", "a", ".", "b">>)
w3 == W(<<"a">>)
Numbered(items) == [i \in DOMAIN items |-> [items[i] EXCEPT !.n = i]]
MCTexts == {Numbered(t) : t \in {
    <<w1, w2, SEND("T"), w1, FLUSH>>,
    <<w3, w1, PEND, w2, FLUSH>>,
    <<w1, Cmd("SIL", 80), w2, Cmd("PLAY", -1), SEND("Q"), FLUSH>>,
    <<w1, Cmd("SPEED", 50), Cmd("PITCH", 70), w1, Cmd("SAVE", -1), FLUSH>>,
    <<Cmd("SIL", 40), w1, Cmd("SPEED", 50), SEND("E"), w1, PlayToPam, Cmd("SIL", 9), SEND("T")>>,
    <<w2, w3, w1, PEND, Cmd("PITCH", 60), Cmd("PITCH", 70), w1, FLUSH>>,
    <<w1, Cmd("SIL", 80), w1, w1, Cmd("SIL", 9), Cmd("SIL", 8), w1, SEND("Q")>>,
    <<w1, Cmd("SIL", 40000), w1, Cmd("SIL", 40000), Cmd("SIL", 30000), w1, SEND("Q")>>,
    <<w2, w2, w2, w2>> }}
MCNextTexts == {Numbered(<<w1, FLUSH>>)}
\* One more or less in any of the inputs makes another class.
MCAccClass(x) ==
    LET Level(accent) == CHOOSE n \in 0 .. 3 : accent = <<"ACC0", "ACC1", "ACC2", "ACC3">>[n + 1]
        sum == Level(x.hist1) + 2 * Level(x.hist2) + x.nrwordspre + x.nrsyllspre
               + x.nrwordsfol + x.nrsyllsfol + x.footwordsfol + x.footsyllsfol
    IN  <<"ACC1", "ACC0", "ACC2">>[1 + (sum % 3)]
=============================================================================
