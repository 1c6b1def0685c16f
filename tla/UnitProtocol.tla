---------------------------- MODULE UnitProtocol ----------------------------
(***************************************************************************)
(* What Control assumes of one processing unit, its step cut into passes:   *)
(* between a call of its step function and the return the unit takes items  *)
(* from its input, works on what it holds and puts what is ready, in as     *)
(* many passes as it likes; when it returns, its status says the truth      *)
(* (Control!Reason).  While it does not run, its neighbours and the engine  *)
(* use its buffers.                                                         *)
(***************************************************************************)
EXTENDS Integers

CONSTANTS Cap,       \* items the output buffer takes
          MaxHeld,   \* items the unit can collect before it must work on them
          MaxReady   \* finished items the unit can keep

VARIABLES in,        \* items in the input buffer
          out,       \* items in the output buffer
          held,      \* items collected and not worked on
          ready,     \* finished items not put yet
          status     \* RUNNING, or what the last step returned (NONE: no step yet)

vars == <<in, out, held, ready, status>>

\* This unit as a chain of its own.
Unit == INSTANCE Control WITH
            NumProcUnits <- 1, MaxText <- 0, MaxResets <- 0, MayFail <- TRUE,
            buf <- [i \in 0 .. 1 |-> IF i = 0 THEN in ELSE out],
            held <- [i \in {0} |-> held], ready <- [i \in {0} |-> ready],
            procStatus <- [i \in {0} |-> status],
            curPU <- 0, result <- "NONE", text <- 0, resets <- 0

Init == in = 0 /\ out = 0 /\ held = 0 /\ ready = 0 /\ status = "NONE"

Call == /\ status # "RUNNING"
        /\ status' = "RUNNING"
        /\ UNCHANGED <<in, out, held, ready>>

\* A pass, after which the step goes on or returns; what it took, worked on,
\* made and put can be told from the counts before and after it.
Pass == /\ status = "RUNNING"
        /\ \E took \in {in - in'}, put \in {out' - out} :
           \E done \in {held + took - held'}, made \in {ready' - ready + put} :
              /\ took >= 0 /\ put >= 0 /\ done >= 0 /\ made >= 0
              /\ Unit!Moves(0, took, done, made, put)
              /\ \/ status' = "RUNNING"
                 \/ status' \in Unit!PuStatus /\ Unit!Reason(0, took, done, made, put, status')

\* The unit before puts items, the unit behind takes some.
Neighbours == /\ status # "RUNNING"
              /\ in' >= in /\ out' =< out
              /\ UNCHANGED <<held, ready, status>>

Initialize == /\ status # "RUNNING"
              /\ in' = 0 /\ out' = 0 /\ held' = 0 /\ ready' = 0
              /\ status' = "NONE"

Next == Call \/ Pass \/ Neighbours \/ Initialize

Spec == Init /\ [][Next]_vars
=============================================================================
