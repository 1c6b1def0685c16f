------------------------------ MODULE TextInput ------------------------------
(***************************************************************************)
(* Tokenizer and preprocessor at work on one text, stepped by the control   *)
(* as ctrlStep does it (Control!Schedule says which unit is next).  Between *)
(* two steps the engine feeds bytes of the text, each with its place n in   *)
(* it, what is put at the end is taken, and the engine may be reset.        *)
(***************************************************************************)
EXTENDS Integers, Sequences
LOCAL INSTANCE FiniteSetsExt
LOCAL INSTANCE SequencesExt

CONSTANTS Texts,          \* what may be fed before the first reset: sequences of [c, n]
          NextTexts,      \* and after it
          Cap, OutBufSize, TokenMax, MarkupMax, PosLow, MaxParams,       \* see Tokenizer, Markup
          Utf8Length, Graphs, LowerCase, Letters, Digits, Number, Phonetic, Files,
          MaxInItems, MaxIterations, MaxPathLen,                 \* see Preprocessor
          Net, Prods, Contexts, Rank, DigitValue, Vowels, SavedFiles, Punct, Subs,
          MaxResets       \* bound: resets

ASSUME TextInputAssumption ==
    /\ {Cap, OutBufSize, TokenMax, MarkupMax, PosLow, MaxParams, MaxInItems, MaxIterations, MaxPathLen} \subseteq Nat \ {0}
    /\ MaxResets \in Nat
    /\ TokenMax + 4 < OutBufSize

VARIABLES tokIn, tokOut, prOut,           \* the buffers
          t, tokStatus,
          pc, inItems, search, put, forceOutput, nrIterations, inBuf, outBuf, prStatus,
          curPU, procStatus, output,      \* the control's, and whether the step has put anything
          text,         \* the bytes fed and to be fed since the last reset
          fed,          \* how many of them are fed
          tokenized,    \* history: items the tokenizer has put since then,
          got,          \* and what has been taken at the end
          resets        \* bound counter: resets so far

TOK == INSTANCE Tokenizer WITH in <- tokIn, out <- tokOut, status <- tokStatus
PR == INSTANCE Preprocessor WITH in <- tokOut, out <- prOut, status <- prStatus
CTL == INSTANCE Control WITH
          NumProcUnits <- 2, MaxHeld <- 1, MaxReady <- 1, MaxText <- 0, MayFail <- TRUE,
          buf <- <<>>, held <- <<>>, ready <- <<>>, result <- "NONE", text <- 0

tokState == <<t, tokStatus>>
prState == <<pc, inItems, search, put, forceOutput, nrIterations, inBuf, outBuf, prStatus>>
control == <<curPU, procStatus, output>>
history == <<tokenized, got>>
vars == <<tokIn, tokOut, prOut, tokState, prState, control, text, fed, history, resets>>

Init == /\ tokIn = <<>> /\ tokOut = <<>> /\ prOut = <<>>
        /\ TOK!Blank /\ PR!Blank
        /\ curPU = 0 /\ procStatus = [i \in 0 .. 1 |-> "IDLE"] /\ output = FALSE
        /\ text \in Texts /\ fed = 0 /\ tokenized = <<>> /\ got = <<>> /\ resets = 0

\* Between two steps; there is no more of them when the process has ended.
AtRest == "RUNNING" \notin {tokStatus, prStatus} /\ ~ PR!Crashed

Feed == /\ AtRest
        /\ fed < Len(text) /\ Len(tokIn) < Cap
        /\ tokIn' = Append(tokIn, text[fed + 1]) /\ fed' = fed + 1
        /\ UNCHANGED <<tokOut, prOut, tokState, prState, control, text, history, resets>>

Take == /\ AtRest /\ prOut # <<>>
        /\ got' = Append(got, Head(prOut)) /\ prOut' = Tail(prOut)
        /\ UNCHANGED <<tokIn, tokOut, tokState, prState, control, text, fed, tokenized, resets>>

\* ctrlStep calls the unit at curPU.
Step == /\ AtRest
        /\ \/ curPU = 0 /\ TOK!Call /\ UNCHANGED <<prState, prOut>>
           \/ curPU = 1 /\ PR!Call /\ UNCHANGED <<tokState, tokIn>>
        /\ output' = FALSE
        /\ UNCHANGED <<curPU, procStatus, text, fed, history, resets>>

\* The unit went on from having put old to new; when its step returns, the next
\* one is chosen.
Scheduled(status, old, new) ==
    /\ output' = (output \/ new # old)
    /\ IF status = "RUNNING" THEN UNCHANGED <<curPU, procStatus>> ELSE CTL!Schedule(status, output')

TokPass == /\ TOK!Pass /\ Scheduled(tokStatus', tokOut, tokOut')
           /\ tokenized' = tokenized \o SubSeq(tokOut', Len(tokOut) + 1, Len(tokOut'))
           /\ UNCHANGED <<prState, prOut, text, fed, got, resets>>
PrPass == /\ PR!Pass /\ Scheduled(prStatus', prOut, prOut')
          /\ UNCHANGED <<tokState, tokIn, text, fed, history, resets>>

\* As in Control!EngReset.
Reset == /\ AtRest /\ resets < MaxResets /\ resets' = resets + 1
         /\ TOK!Initialize /\ PR!Initialize
         /\ tokIn' = <<>> /\ tokOut' = <<>> /\ prOut' = <<>>
         /\ curPU' = 0 /\ output' = FALSE /\ UNCHANGED procStatus
         /\ text' \in NextTexts /\ fed' = 0 /\ tokenized' = <<>> /\ got' = <<>>

Next == Feed \/ Take \/ Step \/ TokPass \/ PrPass \/ Reset

Spec == Init /\ [][Next]_vars

\* Weak fairness of passes, which a unit can make whenever it runs, if the
\* process has not ended.
TokGoesOn == []<>(tokStatus # "RUNNING") \/ []<><<TokPass>>_vars
PrGoesOn == []<>(prStatus # "RUNNING" \/ PR!Crashed) \/ []<><<PrPass>>_vars

\* The engine steps the control, its caller goes on feeding, and what is put is
\* taken.
FairSpec == /\ Spec
            /\ TokGoesOn /\ PrGoesOn /\ WF_vars(Step)
            /\ SF_vars(Feed) /\ SF_vars(Take)

-----------------------------------------------------------------------------
(* Every byte the tokenizer has read is accounted for, once and in order,   *)
(* however a tag that breaks off in the middle, a character of several      *)
(* bytes, a full token or a full tag had to be taken back: it is in a token *)
(* put or being made, in what may become a tag or a character, or it was a  *)
(* tag, or it was skipped.  Only a character that a tag is too long for is  *)
(* kept twice, or, where that overwrites the tag's length, the end of the   *)
(* tag before that character is lost (Tokenizer!EndMarkupStr).              *)
TokensAsWritten ==
    LET Spoken(x) == x.type = "TOKEN"
        tokens == SelectSeq(tokenized \o t.outBuf, Spoken)
        written == FlattenSeq([i \in DOMAIN tokens |-> tokens[i].str])
                     \o t.tokenStr \o t.markupStr \o t.utf
        own == SelectSeq(written, LAMBDA ch : ch.n > 0)
        read == {text[i].n : i \in 1 .. fed - Len(tokIn)}
        ends == {text[i].n : i \in {j \in 1 .. fed - Len(tokIn) : text[j].c = "NUL"}}
        places == {own[i].n : i \in DOMAIN own}
    IN  /\ \A i \in 1 .. Len(own) - 1 : own[i].n < own[i + 1].n \/ own[i + 1].n \in t.doubled
        /\ places \union t.skipped \union t.tagged \union t.overwritten = read \ ends
        /\ (t.tagged \union t.overwritten) \intersect places = {}
        /\ t.skipped \intersect places \subseteq t.doubled

-----------------------------------------------------------------------------
(* What the networks say of the tokens at hand, without a search: from tok, *)
(* i tokens read, every way to the end of its production, as its cost and   *)
(* the tokens read then.                                                    *)
Alternatives(tok) ==
    LET Wider(set) == set \union (({Net[a].altL : a \in set} \union {Net[a].altR : a \in set}) \ {0})
    IN  Wider(Wider(Wider(Wider({tok}))))

RECURSIVE Readings(_, _)
ReadingsBy(a, i) ==
    LET cost == PR!Cost(a)
        After(j) == IF Net[a].next = 0 THEN {} ELSE {<<cost + r[1], r[2]>> : r \in Readings(Net[a].next, j)}
        reads == PR!HasToken(a) /\ ~ PR!Has(a, "OUT")
    IN  CASE "ACCEPT" \in PR!Np(a) -> {<<cost, i>>}
          [] "ACCEPT" \notin PR!Np(a) /\ PR!Has(a, "PROD") ->
                IF PR!Entered(a) = 0 THEN {}
                ELSE UNION {{<<s[1] + r[1], s[2]>> : s \in After(r[2])} : r \in Readings(PR!Entered(a), i)}
          [] OTHER -> CASE ~ reads -> After(i)
                        [] reads /\ i < Len(PR!Tokens) /\ PR!MatchTokens(a, PR!Tokens[i + 1]) -> After(i + 1)
                        [] OTHER -> {}
Readings(tok, i) == UNION {ReadingsBy(a, i) : a \in Alternatives(tok)}

\* The preference of a production counts if its first token is not replaced by
\* an alternative, and not if that stands for a production, whose own counts.
Costs(prod) ==
    LET first == Prods[prod].first
        Pref(a) == CASE PR!Has(a, "PROD") -> PR!Charged(a)
                     [] ~ PR!Has(a, "PROD") /\ a = first -> Prods[prod].pref
                     [] OTHER -> 0
    IN  {Pref(r[1]) + r[2][1] : r \in UNION {{a} \X ReadingsBy(a, 0) : a \in Alternatives(first)}}
AllCosts == LET prods == PR!ProdList(put.ctx)
            IN  UNION {Costs(prods[i]) : i \in DOMAIN prods}

(* The search leaves itself for tokens to come and after so many steps,     *)
(* takes the alternatives by a comparison of strings, and keeps one path.   *)
(* When it ends it has found a reading if there is one, and the cheapest.   *)
(* Not if what it waited for did not come, but a command or the end of the  *)
(* text: then it goes back without trying what else could stand there.      *)
BestReading ==
    pc = "CONCLUDE" /\ search.state \in {"Found", "NotFound"} /\ ~ search.cut =>
        /\ search.state = "Found" <=> AllCosts # {}
        /\ search.state = "Found" => search.cost = Min(AllCosts)

-----------------------------------------------------------------------------
(* Tokens wait in the search while commands between them do not end it, and *)
(* productions put out anything they like.  Yet what comes of a text keeps  *)
(* its order: no word is put before or behind a command on the wrong side,  *)
(* and every command the tokenizer put is there once, in its place, unless  *)
(* it tells the preprocessor itself something, stands in text ignored, or   *)
(* between the tokens of a production whose output no variable takes.  Of   *)
(* space nothing is said, which a tag does not end and which is not heard;  *)
(* nor of a process that has ended at a letter to be spelled.               *)
InOrder ==
    LET Meant(x) == x.type # "TOKEN" /\ ~ (x.type = "CMD" /\ x.kind \in {"SPELL", "CONTEXT"}) /\ x \notin put.gone
        come == got \o prOut \o outBuf \o put.items
        wait == inItems \o inBuf \o tokOut
        IsCommand(x) == x.type \in {"CMD", "ITEM"} /\ x.n > 0 /\ x \in ToSet(SelectSeq(tokenized, Meant))
        all == come \o wait
        placed == SelectSeq(all, LAMBDA x : x.n > 0 /\ ~ (x.type = "TOKEN" /\ x.kind = "SPACE"))
    IN  ~ PR!Crashed =>
            /\ SelectSeq(all, IsCommand) = SelectSeq(tokenized, Meant)
            /\ \A i \in 1 .. Len(placed) - 1 : placed[i].n =< placed[i + 1].n

(* Each unit does in every step what Control assumes of it.                 *)
UnitsKeepProtocol == /\ TOK!Protocol!Spec
                     /\ PR!Protocol!Spec

(* The end of a text comes out at the other end, and with it what is before *)
(* it: again and again none is on its way.  Not if a text to be spelled has *)
(* ended the process.                                                       *)
IsFlush(x) == x.type = "CMD" /\ x.kind = "FLUSH"
OnItsWay == \/ \E i \in DOMAIN tokIn : tokIn[i].c = "NUL"
            \/ SelectSeq(t.outBuf \o tokOut \o inBuf \o inItems \o put.items \o outBuf, IsFlush) # <<>>
TextComesOut == []<>(~ OnItsWay \/ PR!Crashed)
=============================================================================
