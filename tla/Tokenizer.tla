------------------------------ MODULE Tokenizer ------------------------------
(***************************************************************************)
(* The tokenizer, picotok.c: it reads the text byte by byte, makes runs of  *)
(* characters of one type to tokens, recognises tags and turns them into    *)
(* commands (Markup), and puts both as items.                               *)
(*                                                                          *)
(* All the code keeps between two bytes is the record t: ignLevel, utf (the *)
(* bytes of a character so far), nrEOL, the token (tokenStr, tokenType,     *)
(* tokenSubType), the tag (markupState, markupStr, tagName, tagType, params,*)
(* strDelim, isFileAttr, markupTagErr), saveFile, outBuf; and at, the place *)
(* in the text of the byte being treated.  As history, skipped has the      *)
(* places of bytes that become no part of a token, tagged those of tags,    *)
(* doubled those of bytes that become part of two, and overwritten those of *)
(* bytes the code loses (PutToMarkup).  lost is a choice for one byte.      *)
(***************************************************************************)
EXTENDS Markup
LOCAL INSTANCE SequencesExt
LOCAL INSTANCE FiniteSetsExt

CONSTANTS Cap,            \* items the output buffer takes
          TokenMax,       \* IN_BUF_SIZE: bytes of a token
          MarkupMax,      \* MARKUP_STRING_BUF_SIZE
          PosLow,         \* 256: what the low byte of markupPos counts
          MaxParams,      \* MAX_NR_MARKUP_PARAMS
          Utf8Length,     \* picobase_det_utf8_length of each byte
          Graphs,         \* the graph table: [type, sub] of a character
          LowerCase,      \* of the characters that have another one
          Letters, Digits \* of tags

VARIABLES in, out, t, status

vars == <<in, out, t, status>>

Undefined == [type |-> "UNDEFINED", sub |-> -1]

Fresh == [ignLevel |-> 0, utf |-> <<>>, nrEOL |-> 0, at |-> 0,
          tokenStr |-> <<>>, tokenType |-> "UNDEFINED", tokenSubType |-> -1,
          markupState |-> "NotInMarkup", markupStr |-> <<>>, tagName |-> <<>>, tagType |-> "None",
          params |-> <<>>, nrParams |-> 0, strDelim |-> "", isFileAttr |-> FALSE, markupTagErr |-> FALSE,
          saveFile |-> <<>>, outBuf |-> <<>>, skipped |-> {}, tagged |-> {}, doubled |-> {},
          overwritten |-> {}, lost |-> FALSE]

Blank == t = Fresh /\ status = "NONE"
Initialize == t' = Fresh /\ status' = "NONE"

Call == status # "RUNNING" /\ status' = "RUNNING" /\ UNCHANGED <<in, out, t>>

-----------------------------------------------------------------------------
(* Tokens.                                                                  *)
Token(u) == [type |-> "TOKEN", kind |-> u.tokenType, info |-> u.tokenSubType, val |-> 0, str |-> u.tokenStr,
             n |-> Max({0} \union Places(u.tokenStr))]

\* tok_treatSimpleToken outside of a tag.  Text that is ignored gets no further.
EndToken(u) ==
    LET ended == [u EXCEPT !.tokenStr = <<>>, !.tokenType = "UNDEFINED", !.tokenSubType = -1]
    IN  CASE u.tokenStr = <<>> -> ended
          [] u.tokenStr # <<>> /\ (u.ignLevel =< 0 \/ u.tokenType = "SPACE") -> PutItem(ended, Token(u))
          [] OTHER -> [ended EXCEPT !.skipped = @ \union Places(u.tokenStr)]

\* A token that is too long ends anywhere, between two bytes of a character too;
\* what is left of it has no type until its last byte.
PutToSimpleToken(u, str, type, sub) ==
    LET Add(v, ch) == LET w == IF Len(v.tokenStr) >= TokenMax THEN EndToken(v) ELSE v
                      IN  [w EXCEPT !.tokenStr = Append(@, ch)]
    IN  [FoldLeft(Add, u, str) EXCEPT !.tokenType = type, !.tokenSubType = sub]

Char(str) == [i \in DOMAIN str |-> str[i].c]
Spaces == {" ", "EOL"}
IsSpace(u) == Last(u.utf).c \in Spaces
Graph(u) == CASE Char(u.utf) \in DOMAIN Graphs -> Graphs[Char(u.utf)]
              [] Char(u.utf) \notin DOMAIN Graphs /\ IsSpace(u) -> [type |-> "SPACE", sub |-> -1]
              [] OTHER -> Undefined

\* The second end of a line in a row ends a sentence.
FullStop(u) == EndToken(PutToSimpleToken(EndToken(u), <<[c |-> ".", n |-> 0]>>, "CHAR", -1))

\* tok_treatChar, of a complete character outside of a tag: one without a type
\* is no part of any token.
PlainChar(u) ==
    LET g == Graph(u)
        before == CASE g.type # u.tokenType \/ g.type = "CHAR" \/ g.sub # u.tokenSubType -> EndToken(u)
                    [] g.type = u.tokenType /\ Last(u.utf).c = "EOL" /\ u.nrEOL = 2 -> FullStop(u)
                    [] OTHER -> u
    IN  IF g.type = "UNDEFINED" THEN [EndToken(u) EXCEPT !.skipped = @ \union Places(u.utf)]
        ELSE PutToSimpleToken(before, u.utf, g.type, g.sub)

-----------------------------------------------------------------------------
(* tok_putToUtf: bytes to characters.                                       *)
PutToUtf(u, ch) == [u EXCEPT !.utf = Append(@, ch)]
Complete(u) == Len(u.utf) = Utf8Length[u.utf[1].c]
Malformed(u) == \/ Utf8Length[u.utf[1].c] = 0
                \/ \E i \in 2 .. Len(u.utf) : Utf8Length[u.utf[i].c] # 0
NextChar(u) == [u EXCEPT !.utf = <<>>]
DropChar(u) == NextChar([u EXCEPT !.skipped = @ \union Places(u.utf)])

Counted(u) == [u EXCEPT !.nrEOL = CASE ~ IsSpace(u) -> 0 [] Last(u.utf).c = "EOL" -> @ + 1 [] OTHER -> @]

\* tok_treatChar without markup handling.
TreatPlain(u, ch) ==
    LET v == PutToUtf(u, ch)
    IN  CASE Malformed(v) -> DropChar(v)
          [] ~ Malformed(v) /\ Complete(v) -> NextChar(PlainChar(Counted(v)))
          [] OTHER -> v

-----------------------------------------------------------------------------
(* Tags.                                                                    *)

\* tok_treatMarkupAsSimpleToken: what looked like a tag is text.
AsSimpleToken(u) ==
    LET v == [u EXCEPT !.utf = <<>>, !.markupState = "NotInMarkup", !.markupStr = <<>>]
    IN  FoldLeft(TreatPlain, v, u.markupStr)

AttrChar(c, first) == c \in Letters \/ (~ first /\ c \in Digits)
IdChar(c, first) == AttrChar(c, first) \/ (~ first /\ c = ":")
Lower(str) == [i \in DOMAIN str |-> IF str[i] \in DOMAIN LowerCase THEN LowerCase[str[i]] ELSE str[i]]

InTag(u, state) == [u EXCEPT !.markupState = state]
Wrong(u) == [u EXCEPT !.markupState = "Error", !.markupTagErr = TRUE]

\* The attribute being read; one too many is not kept.
Param(u) == u.nrParams + 1
ToParamId(u, c) == IF u.nrParams >= MaxParams THEN u
                   ELSE [u EXCEPT !.params = [i \in 1 .. Param(u) |->
                            IF i < Param(u) THEN u.params[i]
                            ELSE [id |-> IF Len(u.params) < i THEN <<c>> ELSE Append(u.params[i].id, c), val |-> <<>>]]]
ToParamVal(u, c) == IF u.nrParams >= MaxParams THEN u
                    ELSE [u EXCEPT !.params[Param(u)].val = Append(@, c)]
GotId(u) == LET id == IF u.nrParams >= MaxParams THEN <<>> ELSE Lower(u.params[Param(u)].id)
            IN  [u EXCEPT !.params = IF id = <<>> THEN @ ELSE [@ EXCEPT ![Param(u)].id = id],
                          !.isFileAttr = (id = <<"file">>)]

TagBegin(u, c) ==
    IF c = "<" THEN [InTag(u, "GotStart") EXCEPT !.params = <<>>, !.nrParams = 0, !.tagType = "Start"] ELSE Wrong(u)
TagStart(u, c) ==
    CASE c = "/" -> [InTag(u, "ExpectingTagName") EXCEPT !.tagType = "End"]
      [] c = " " -> InTag(u, "ExpectingTagName")
      [] IdChar(c, TRUE) -> [InTag(u, "InTagName") EXCEPT !.tagName = <<c>>]
      [] OTHER -> Wrong(u)
\* The name is in lower case if a space follows it.
TagNaming(u, c) ==
    CASE IdChar(c, u.markupState = "ExpectingTagName") ->
            [InTag(u, "InTagName") EXCEPT !.tagName = IF u.markupState = "InTagName" THEN Append(@, c) ELSE <<c>>]
      [] c = " " /\ u.markupState = "InTagName" -> [InTag(u, "GotTagName") EXCEPT !.tagName = Lower(@)]
      [] OTHER -> Wrong(u)
AttrBegin(u, c) ==
    IF AttrChar(c, TRUE) /\ u.tagType # "End" THEN InTag(ToParamId(u, c), "InAttrName") ELSE Wrong(u)
AttrNaming(u, c) ==
    CASE u.markupState = "InAttrName" /\ AttrChar(c, FALSE) -> ToParamId(u, c)
      [] u.markupState = "InAttrName" /\ c = " " -> InTag(GotId(u), "GotAttrName")
      [] c = "=" -> InTag(IF u.markupState = "InAttrName" THEN GotId(u) ELSE u, "GotEqual")
      [] OTHER -> Wrong(u)
AttrQuote(u, c) ==
    IF c \in {"'", "\""} THEN [InTag(u, "InAttrValue") EXCEPT !.strDelim = c] ELSE Wrong(u)
AttrValue(u, c) ==
    CASE u.markupState = "InAttrValueEscaped" -> InTag(ToParamVal(u, c), "InAttrValue")
      [] c = "\\" /\ ~ u.isFileAttr -> InTag(u, "InAttrValueEscaped")
      [] c = u.strDelim -> [InTag(u, "GotAttrValue") EXCEPT !.nrParams = IF @ < MaxParams THEN @ + 1 ELSE @]
      [] OTHER -> ToParamVal(u, c)

Gap == {"ExpectingTagName", "GotTagName", "GotAttrName", "GotEqual", "GotAttrValue"}
MayEnd == {"GotTagName", "InTagName", "GotAttrValue"}

\* tok_putToMarkup, of one byte: the next state.
MarkupNext(u, c) ==
    LET state == u.markupState IN
    CASE c = " " /\ state \in Gap -> u
      [] c = ">" /\ state \in MayEnd \union {"GotEndSlash"} -> InTag(u, "GotEnd")
      [] c = "/" /\ state \in MayEnd ->
            IF u.tagType = "End" THEN Wrong(u) ELSE [InTag(u, "GotEndSlash") EXCEPT !.tagType = "Empty"]
      [] OTHER ->
            CASE state = "NotInMarkup" -> TagBegin(u, c)
              [] state = "GotStart" -> TagStart(u, c)
              [] state \in {"InTagName", "ExpectingTagName"} -> TagNaming(u, c)
              [] state \in {"GotTagName", "GotAttrValue"} -> AttrBegin(u, c)
              [] state \in {"InAttrName", "GotAttrName"} -> AttrNaming(u, c)
              [] state = "GotEqual" -> AttrQuote(u, c)
              [] state \in {"InAttrValue", "InAttrValueEscaped"} -> AttrValue(u, c)
              [] OTHER -> Wrong(u)

\* The 0 behind a byte that is one too many for markupStr is written to the low
\* byte of markupPos, which is next to it (picotok.c:224): what is behind that
\* place is not read again.  Whether it is so is up to the build, which may have
\* markupPos in a register: lost says it.
EndMarkupStr(u) ==
    LET str == u.markupStr
        pos == IF u.lost /\ Len(str) = MarkupMax + 1 THEN Len(str) - (Len(str) % PosLow) ELSE Len(str)
    IN  [u EXCEPT !.markupStr = SubSeq(str, 1, pos),
                  !.overwritten = @ \union (Places(SubSeq(str, pos + 1, Len(str))) \ Places(u.utf))]

\* A byte the tag cannot have is not kept with it; one that the tag is too long
\* for is.
PutToMarkup(u) ==
    LET Add(v, ch) ==
            LET w == IF Len(v.markupStr) >= MarkupMax - 1 THEN InTag(v, "ErrorTooLong") ELSE MarkupNext(v, ch.c)
            IN  IF w.markupTagErr THEN w ELSE EndMarkupStr([w EXCEPT !.markupStr = Append(@, ch)])
    IN  FoldLeft(Add, [u EXCEPT !.markupTagErr = FALSE], u.utf)

\* tok_treatMarkup: a tag of a known name is a space between tokens.
Space == <<[c |-> " ", n |-> 0]>>
TreatMarkup(u) ==
    LET v == IF u.tokenType \in {"SPACE", "UNDEFINED"} THEN u ELSE EndToken(InTag(u, "NotInMarkup"))
        w == [PutToSimpleToken(v, Space, "SPACE", -1) EXCEPT !.markupState = "NotInMarkup"]
        x == IF u.tagType \in {"Start", "Empty"} THEN InterpretMarkup(w, TRUE) ELSE w
        y == IF u.tagType \in {"End", "Empty"}
             THEN InterpretMarkup([x EXCEPT !.params = <<>>, !.nrParams = 0], FALSE) ELSE x
    IN  CASE u.tagName \notin Known -> AsSimpleToken(u)
          [] u.tagName \in Known /\ y.markupTagErr -> AsSimpleToken(y)
          [] OTHER -> [y EXCEPT !.markupStr = <<>>, !.tagged = @ \union Places(u.markupStr)]

\* tok_treatChar outside of a tag: one may begin.
TreatOutside(u, ch) ==
    LET v == PutToUtf(u, ch)
    IN  CASE Malformed(v) -> DropChar(v)
          [] ~ Malformed(v) /\ Complete(v) ->
                NextChar(IF Last(v.utf).c = "<" THEN PutToMarkup(Counted(v)) ELSE PlainChar(Counted(v)))
          [] OTHER -> v

\* Mutant of BeginAgain: the character that shows the tag is none is lost.
BeginAgainLate(u) == [AsSimpleToken(u) EXCEPT !.nrEOL = u.nrEOL]

\* What looked like a tag is text, and its last character is treated again.
BeginAgain(u) ==
    LET v == [u EXCEPT !.doubled = @ \union (Places(u.utf) \intersect Places(u.markupStr))]
    IN  FoldLeft(TreatOutside, AsSimpleToken(v), u.utf)

TreatInside(u, ch) ==
    LET v == PutToUtf(u, ch)
        w == PutToMarkup(Counted(v))
    IN  CASE Malformed(v) -> DropChar(v)
          [] ~ Malformed(v) /\ Complete(v) ->
                NextChar(CASE w.markupState \in {"Error", "ErrorTooLong"} -> BeginAgain(w)
                           [] w.markupState = "GotEnd" -> TreatMarkup(w)
                           [] OTHER -> w)
          [] OTHER -> v

\* tok_treatSimpleToken: a tag that is not finished is text.
TreatSimpleToken(u) == EndToken(IF u.markupState = "NotInMarkup" THEN u
                                ELSE AsSimpleToken([u EXCEPT !.skipped = @ \union Places(u.utf)]))

\* tok_treatChar.
TreatChar(u, ch) ==
    LET v == [u EXCEPT !.at = ch.n] IN
    CASE ch.c = "NUL" -> Flush(TreatSimpleToken(v))
      [] ch.c # "NUL" /\ v.markupState = "NotInMarkup" -> TreatOutside(v, ch)
      [] OTHER -> TreatInside(v, ch)

-----------------------------------------------------------------------------
(* tokStep.                                                                 *)
Running == status = "RUNNING"

PutOut == /\ Running /\ t.outBuf # <<>> /\ Len(out) < Cap
          /\ out' = Append(out, Head(t.outBuf))
          /\ t' = [t EXCEPT !.outBuf = Tail(@)]
          /\ UNCHANGED <<in, status>>

OutFull == /\ Running /\ t.outBuf # <<>> /\ Len(out) >= Cap
           /\ status' = "OUT_FULL"
           /\ UNCHANGED <<in, out, t>>

Treat == /\ Running /\ t.outBuf = <<>> /\ in # <<>>
         /\ \E lost \in BOOLEAN : t' = [TreatChar([t EXCEPT !.lost = lost], Head(in)) EXCEPT !.lost = FALSE]
         /\ in' = Tail(in)
         /\ UNCHANGED <<out, status>>

Idle == /\ Running /\ t.outBuf = <<>> /\ in = <<>>
        /\ status' = "IDLE"
        /\ UNCHANGED <<in, out, t>>

Pass == PutOut \/ OutFull \/ Treat \/ Idle

-----------------------------------------------------------------------------
TypeOK ==
    /\ t.ignLevel \in Nat /\ t.nrEOL \in Nat
    /\ Len(t.utf) =< 3 /\ (t.utf # <<>> => ~ Complete(t) /\ ~ Malformed(t))
    /\ Len(t.tokenStr) =< TokenMax
    /\ t.tokenStr = <<>> => t.tokenType = "UNDEFINED"
    /\ t.markupState = "NotInMarkup" <=> t.markupStr = <<>>
    /\ t.markupState \notin {"GotEnd", "Error", "ErrorTooLong"}
    /\ Len(t.markupStr) < MarkupMax
    /\ Used(t) =< OutBufSize
    /\ status \in {"NONE", "RUNNING", "IDLE", "OUT_FULL"}
    /\ Len(out) =< Cap

\* Bytes that are not put yet are held until a token, a tag or a flush ends them.
Protocol == INSTANCE UnitProtocol WITH
                in <- Len(in), out <- Len(out), held <- Len(t.utf) + Len(t.tokenStr) + Len(t.markupStr),
                ready <- Len(t.outBuf), MaxHeld <- 3 + TokenMax + MarkupMax, MaxReady <- OutBufSize
=============================================================================
