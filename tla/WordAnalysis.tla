---------------------------- MODULE WordAnalysis ----------------------------
(***************************************************************************)
(* The word analysis unit, picowa.c: waStep takes one item, looks a word up *)
(* in the lexica, and feeds the result to its output.  Its switch cases are *)
(* the actions here; the step runs from Call until a case returns a status. *)
(*                                                                          *)
(* An item is its number n in the text, its type and the length of its      *)
(* content; what the lexica and the tree for parts of speech say of a word  *)
(* decides nothing but whether it goes on as a word or as an index.         *)
(***************************************************************************)
EXTENDS Integers, Sequences

CONSTANT Cap         \* items the output buffer takes

VARIABLES in,        \* items in cbIn
          out,       \* items in cbOut
          procState,
          inBuf,     \* the item in inBuf: <<>> (inLen is 0) or <<item>>
          outBuf,    \* the same of outBuf
          status     \* RUNNING, or what the last step returned

vars == <<in, out, procState, inBuf, outBuf, status>>

\* waInitialize; nothing else of the unit's state survives an item.
Blank == procState = "COLLECT" /\ inBuf = <<>> /\ outBuf = <<>> /\ status = "NONE"

Initialize == /\ procState' = "COLLECT" /\ inBuf' = <<>> /\ outBuf' = <<>>
              /\ status' = "NONE"

Call == /\ status # "RUNNING"
        /\ status' = "RUNNING"
        /\ UNCHANGED <<in, out, procState, inBuf, outBuf>>

At(state) == status = "RUNNING" /\ procState = state

-----------------------------------------------------------------------------
Collect == /\ At("COLLECT")
           /\ \/ /\ in # <<>>
                 /\ inBuf' = <<Head(in)>>
                 /\ in' = Tail(in)
                 /\ procState' = "PROCESS"
                 /\ UNCHANGED <<out, outBuf, status>>
              \/ /\ in = <<>>
                 /\ status' = "IDLE"
                 /\ UNCHANGED <<in, out, procState, inBuf, outBuf>>

\* Skipped: an OTHER item and an empty word.
Skipped(x) == x.type = "OTHER" \/ (x.type = "WORDGRAPH" /\ x.len = 0)

\* waProcessWordgraph: a word whose pronunciation is in a lexicon becomes an
\* index into it, any other one stays, with its parts of speech.
Analysed(x) == IF x.type = "WORDGRAPH" THEN {x, [x EXCEPT !.type = "WORDINDEX"]} ELSE {x}

Process == /\ At("PROCESS")
           /\ inBuf' = <<>>
           /\ UNCHANGED <<in, out>>
           /\ LET x == inBuf[1] IN
              \/ /\ Skipped(x)
                 /\ procState' = "COLLECT"
                 /\ status' = "BUSY"
                 /\ UNCHANGED outBuf
              \/ /\ ~ Skipped(x)
                 /\ \E y \in Analysed(x) : outBuf' = <<y>>
                 /\ procState' = "FEED"
                 /\ UNCHANGED status

\* Mutant of Feed: once its item is put the unit says it needs more.
FeedThenIdle == /\ At("FEED")
                /\ UNCHANGED <<in, inBuf>>
                /\ \/ /\ Len(out) < Cap
                      /\ out' = out \o outBuf
                      /\ outBuf' = <<>>
                      /\ procState' = "COLLECT"
                      /\ status' = "IDLE"
                   \/ /\ Len(out) >= Cap
                      /\ status' = "OUT_FULL"
                      /\ UNCHANGED <<out, procState, outBuf>>

Feed == /\ At("FEED")
        /\ UNCHANGED <<in, inBuf>>
        /\ \/ /\ Len(out) < Cap
              /\ out' = out \o outBuf
              /\ outBuf' = <<>>
              /\ procState' = "COLLECT"
              /\ status' = "BUSY"
           \/ /\ Len(out) >= Cap
              /\ status' = "OUT_FULL"
              /\ UNCHANGED <<out, procState, outBuf>>

Pass == Collect \/ Process \/ Feed

-----------------------------------------------------------------------------
\* The state between two passes: one item at most, and where procState says.
TypeOK == /\ procState \in {"COLLECT", "PROCESS", "FEED"}
          /\ Len(inBuf) = (IF procState = "PROCESS" THEN 1 ELSE 0)
          /\ Len(outBuf) = (IF procState = "FEED" THEN 1 ELSE 0)
          /\ status \in {"NONE", "RUNNING", "IDLE", "BUSY", "OUT_FULL"}
          /\ Len(out) =< Cap

Protocol == INSTANCE UnitProtocol WITH
                in <- Len(in), out <- Len(out), held <- Len(inBuf), ready <- Len(outBuf),
                MaxHeld <- 1, MaxReady <- 1
=============================================================================
