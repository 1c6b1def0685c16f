------------------------------ MODULE FrontEnd ------------------------------
(***************************************************************************)
(* Word analysis and sentence analysis at work on one text: the buffer      *)
(* between them, and in any order the steps of the two, the unit before     *)
(* them that puts items, the unit behind them that takes some, and resets.  *)
(* The engine runs one step at a time, so a step is not interrupted; that   *)
(* ctrlStep takes the units in a certain order is not used.                 *)
(***************************************************************************)
EXTENDS Integers, Sequences

CONSTANTS Kinds,        \* what the unit before puts: [type, len]
          MaxSent,      \* bound: items put between two resets
          Cap, MaxHeadx, CbufSize, MaxItemSize, NumFsts   \* see SentenceAnalysis

ASSUME FrontEndAssumption ==
    /\ \A k \in Kinds : k.len \in Nat
    /\ MaxSent \in Nat /\ Cap \in Nat \ {0}
    /\ MaxHeadx \in Nat /\ MaxHeadx >= 2
    /\ CbufSize \in Nat /\ MaxItemSize \in Nat
    /\ NumFsts \in Nat

VARIABLES prOut, waOut, saOut,                     \* the buffers
          waProcState, waInBuf, waOutBuf, waStatus,
          saProcState, inspaceok, needsmoreitems, headx, cbuf1Len,
          tmpbuf, applied, phonesTransduced, curFst, saStatus,
          sent,         \* history: items put since the last reset
          got,          \* history: items taken since then
          resetMode     \* of the last reset (FULL at first)

WA == INSTANCE WordAnalysis WITH
          in <- prOut, out <- waOut, procState <- waProcState,
          inBuf <- waInBuf, outBuf <- waOutBuf, status <- waStatus
SA == INSTANCE SentenceAnalysis WITH
          in <- waOut, out <- saOut, procState <- saProcState, status <- saStatus

history == <<sent, got, resetMode>>
vars == <<WA!vars, SA!vars, history>>

Init == /\ prOut = <<>> /\ waOut = <<>> /\ saOut = <<>>
        /\ WA!Blank /\ SA!Blank
        /\ sent = <<>> /\ got = <<>> /\ resetMode = "FULL"

waState == <<waProcState, waInBuf, waOutBuf, waStatus>>
saState == <<saProcState, inspaceok, needsmoreitems, headx, cbuf1Len,
             tmpbuf, applied, phonesTransduced, curFst, saStatus>>

\* Between two steps; after one that failed the engine is reset.
AtRest == "RUNNING" \notin {waStatus, saStatus}
Operable == AtRest /\ saStatus # "ERROR"

Put == /\ Operable
       /\ Len(sent) < MaxSent /\ Len(prOut) < Cap
       /\ \E k \in Kinds :
            LET x == [n |-> Len(sent) + 1, type |-> k.type, len |-> k.len, skipped |-> {}]
            IN  sent' = Append(sent, x) /\ prOut' = Append(prOut, x)
       /\ UNCHANGED <<waOut, saOut, waState, saState, got, resetMode>>

Take == /\ Operable /\ saOut # <<>>
        /\ got' = Append(got, Head(saOut))
        /\ saOut' = Tail(saOut)
        /\ UNCHANGED <<prOut, waOut, waState, saState, sent, resetMode>>

WordStep == Operable /\ WA!Call /\ UNCHANGED <<saOut, saState, history>>
WordPass == WA!Pass /\ UNCHANGED <<saOut, saState, history>>

SentenceStep == Operable /\ SA!Call /\ UNCHANGED <<prOut, waState, history>>
SentencePass == SA!Pass /\ UNCHANGED <<prOut, waState, history>>

Reset(mode) == /\ AtRest
               /\ WA!Initialize /\ SA!Initialize(mode)
               /\ prOut' = <<>> /\ waOut' = <<>> /\ saOut' = <<>>
               /\ sent' = <<>> /\ got' = <<>> /\ resetMode' = mode

Next == \/ Put \/ Take
        \/ WordStep \/ WordPass \/ SentenceStep \/ SentencePass
        \/ \E mode \in {"SOFT", "FULL"} : Reset(mode)

Spec == Init /\ [][Next]_vars

\* The control comes back to each unit, and its consumer to the output.
FairSpec == /\ Spec
            /\ WF_vars(WordPass) /\ WF_vars(SentencePass)
            /\ SF_vars(WordStep) /\ SF_vars(SentenceStep) /\ SF_vars(Take)

-----------------------------------------------------------------------------
TypeOK == WA!TypeOK /\ SA!TypeOK

\* The items of the text under way, those behind first.
UnderWay == got \o saOut \o tmpbuf \o headx \o waOut \o waOutBuf \o waInBuf \o prOut

\* An item of the text that waStep does not skip; the numbers of those in s.
Genuine(x) == x.n > 0 /\ ~ WA!Skipped(x)
Numbers(s) == {s[i].n : i \in {k \in DOMAIN s : Genuine(s[k])}}
InOrder(s) == \A i, j \in DOMAIN s : i < j /\ Genuine(s[i]) /\ Genuine(s[j]) => s[i].n < s[j].n

(* No item of the text is lost, doubled or overtaken on its way through two *)
(* units and five buffers, whatever the order of the steps and however full *)
(* the buffers, unless a step reports an error; only what waStep skips, and *)
(* forced phrase ends, come and go.                                         *)
NothingLost == saStatus # "ERROR" => InOrder(UnderWay) /\ Numbers(UnderWay) = Numbers(sent)

\* Items in a row without a phrase end leave a slot of headx for one.
Fitting(s) ==
    \A i, j \in DOMAIN s : (i =< j /\ \A m \in i .. j : s[m].type # "PUNC") => j - i + 1 < MaxHeadx

(* picosa.h: a phrase end is added artificially to ensure a phrase fits in  *)
(* the unit's memory.  So behind it no phrase has more items than headx has *)
(* slots, one of them for the PUNC: what the next unit's arrays rely on.    *)
PhraseFits == Fitting(got \o saOut)

(* Both together: phrases come out whole, and small enough for what follows. *)
PhrasesKept == NothingLost /\ PhraseFits

(* Each word that is transduced at all goes through all transducers, though *)
(* the step returns after each one of them and its output may be full.      *)
AllTransduced == \A i \in DOMAIN (got \o saOut) : (got \o saOut)[i].skipped = {}

(* The same as long as the engine has not been reset softly.                *)
AllTransducedUntilSoftReset == resetMode = "FULL" => AllTransduced

(* picosa.h: a phrase end is added "to ensure a phrase fits in the PUs      *)
(* memory": collecting a phrase does not fail for want of space.            *)
PhraseEndForcedInTime == saStatus # "ERROR"

(* Each unit does in every step what Control assumes of it.                 *)
UnitsKeepProtocol == WA!Protocol!Spec /\ SA!Protocol!Spec

(* What ends a phrase comes out, and with it all before it: again and again *)
(* no phrase end is on its way, unless a step has failed.  (Between resets  *)
(* only so many items are put, so each has to come out for that.)           *)
PhrasesComeOut ==
    []<>(\/ saStatus = "ERROR"
         \/ \A i \in DOMAIN UnderWay \ DOMAIN got : UnderWay[i].type \notin {"PUNC", "FLUSH"})
=============================================================================
