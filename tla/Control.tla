------------------------------- MODULE Control -------------------------------
(***************************************************************************)
(* The control and the engine of picoctrl.c: a chain of processing units    *)
(* (PUs) that exchange items over char buffers, run one step at a time by   *)
(* ctrlStep, which picks the next unit from the status each step returned.  *)
(* The engine feeds text into the first buffer and takes speech out of the  *)
(* last one.                                                                *)
(*                                                                          *)
(* Unit i reads buffer i and writes buffer i+1; buffer 0 is the engine's    *)
(* cbIn and buffer NumProcUnits its cbOut.  Here an item is something to be *)
(* counted: what is in it is the units' business (see CharBuffer for the    *)
(* ring it travels in).  Of a unit the model keeps what the protocol of     *)
(* picodata.h lets the control see: the items it has collected (held), the  *)
(* items it has finished and not yet put (ready), and its step's status.    *)
(***************************************************************************)
EXTENDS Integers

CONSTANTS NumProcUnits,  \* length of the chain
          Cap,           \* items a buffer takes
          MaxHeld,       \* items a unit can collect before it must work on them
          MaxReady,      \* finished items a unit can keep
          MaxText,       \* bound: characters fed in a behaviour
          MaxResets,     \* bound: resets in a behaviour
          MayFail        \* whether units can fail and callers' buffers be too small

ASSUME ControlAssumption ==
    /\ NumProcUnits \in Nat \ {0}
    /\ Cap \in Nat \ {0} /\ MaxHeld \in Nat \ {0} /\ MaxReady \in Nat \ {0}
    /\ MaxText \in Nat /\ MaxResets \in Nat
    /\ MayFail \in BOOLEAN

Units == 0 .. NumProcUnits - 1
Buffers == 0 .. NumProcUnits
Last == NumProcUnits - 1
PuStatus == {"ERROR", "IDLE", "BUSY", "ATOMIC", "OUT_FULL"}
Results == {"NONE", "OK", "IDLE", "BUSY", "ERROR"}

VARIABLES buf,         \* buf[i]: items in buffer i
          held,        \* held[i]: items unit i has collected and not worked on
          ready,       \* ready[i]: items unit i wants to put
          procStatus,  \* ctrl->procStatus
          curPU,       \* ctrl->curPU
          result,      \* what the last call of the engine returned
          text,        \* characters fed so far
          resets       \* resets so far

chain == <<buf, held, ready>>
vars == <<buf, held, ready, procStatus, curPU, result, text, resets>>

Init == /\ buf = [i \in Buffers |-> 0]
        /\ held = [i \in Units |-> 0]
        /\ ready = [i \in Units |-> 0]
        /\ procStatus = [i \in Units |-> "IDLE"]
        /\ curPU = 0
        /\ result = "NONE"
        /\ text = 0
        /\ resets = 0

\* Something unit i could take or put at once.
Pending(i) == buf[i] > 0 \/ ready[i] > 0

Drained == /\ \A i \in Units : ~ Pending(i)
           /\ buf[NumProcUnits] = 0

-----------------------------------------------------------------------------
(* One step of unit i, by the protocol of picodata.h: it takes items from   *)
(* its input, works on some of those it holds (done) and so finishes others *)
(* (made; none for what it swallows), and puts finished ones.               *)

Moves(i, took, done, made, put) ==
    /\ took =< buf[i]
    /\ done =< held[i] + took /\ held[i] + took - done =< MaxHeld
    /\ made > 0 => done > 0
    /\ put =< ready[i] + made /\ ready[i] + made - put =< MaxReady
    /\ put =< Cap - buf[i + 1]

BufAfter(i, took, put) == [buf EXCEPT ![i] = @ - took, ![i + 1] = @ + put]
ReadyAfter(i, made, put) == ready[i] + made - put

\* The status tells the control why the step ended.  BUSY and ATOMIC promise
\* nothing: a unit goes through many such steps over the items it holds.
Reason(i, took, done, made, put, status) ==
    CASE status = "IDLE"     -> took = buf[i] /\ ReadyAfter(i, made, put) = 0
      [] status = "OUT_FULL" -> ReadyAfter(i, made, put) > 0 /\ buf[i + 1] + put = Cap
      [] status = "ERROR"    -> MayFail
      [] OTHER               -> TRUE

\* numBytesOutput is not 0 if something was put, but a unit that ended on a
\* full output may report the 0 bytes of the refused put.
Reported(put, status, output) == \/ output = (put > 0)
                                 \/ status = "OUT_FULL" /\ output = FALSE

UnitStep(i, status, output, took, done, made, put) ==
    /\ Reason(i, took, done, made, put, status)
    /\ Reported(put, status, output)
    /\ held' = [held EXCEPT ![i] = @ + took - done]
    /\ ready' = [ready EXCEPT ![i] = @ + made - put]

-----------------------------------------------------------------------------
(* ctrlStep after the current unit's step: the choice of the next unit.     *)

\* Mutant of Stepped: output does not wake the next unit.
SteppedQuietly(status, output) == [procStatus EXCEPT ![curPU] = status]

Stepped(status, output) ==
    [i \in Units |-> IF i = curPU THEN status
                     ELSE IF i = curPU + 1 /\ output THEN "BUSY"
                     ELSE procStatus[i]]

NextIsBusy(st) == curPU < Last /\ st[curPU + 1] = "BUSY"

Stay(st) == curPU' = curPU /\ procStatus' = st
Down(st) == curPU' = curPU + 1 /\ procStatus' = st

\* To the closest unit above whose status is not IDLE, or to the first one.
Up(st) == \E j \in 0 .. curPU :
            /\ j = 0 \/ st[j] # "IDLE"
            /\ \A m \in j + 1 .. curPU : st[m] = "IDLE"
            /\ curPU' = j
            /\ procStatus' = [st EXCEPT ![j] = "BUSY"]

\* Mutant of Schedule: a unit whose output is full is just tried again.
ScheduleRetryFull(status, output) ==
    LET st == Stepped(status, output) IN
    \/ status \in {"ATOMIC", "ERROR", "OUT_FULL"} /\ Stay(st)
    \/ status = "BUSY" /\ ~ NextIsBusy(st) /\ Stay(st)
    \/ status \in {"BUSY", "IDLE"} /\ NextIsBusy(st) /\ Down(st)
    \/ status = "IDLE" /\ ~ NextIsBusy(st) /\ (IF curPU = 0 THEN Stay(st) ELSE Up(st))

Schedule(status, output) ==
    LET st == Stepped(status, output) IN
    \/ status \in {"ATOMIC", "ERROR"} /\ Stay(st)
    \/ status = "BUSY" /\ ~ NextIsBusy(st) /\ Stay(st)
    \/ status \in {"BUSY", "IDLE"} /\ NextIsBusy(st) /\ Down(st)
    \/ status = "IDLE" /\ ~ NextIsBusy(st) /\ curPU = 0 /\ Stay(st)
    \/ status = "IDLE" /\ ~ NextIsBusy(st) /\ curPU > 0 /\ Up(st)
    \/ status = "OUT_FULL" /\ curPU < Last /\ Down([st EXCEPT ![curPU + 1] = "BUSY"])
    \/ status = "OUT_FULL" /\ curPU = Last /\ Stay(st)

\* Mutant of StepResult: the status of the unit stepped.
StepResultOfUnit(status) == status

\* What ctrlStep returns, once the next unit is chosen.
StepResult(status) == IF status \in {"IDLE", "OUT_FULL"} THEN procStatus'[curPU'] ELSE status

-----------------------------------------------------------------------------
(* The engine.                                                              *)

\* Mutant of FeedText: a full buffer is not noticed.
FeedTextUnchecked(size) ==
    /\ text + size =< MaxText
    /\ buf' = [buf EXCEPT ![0] = @ + size]
    /\ text' = text + size
    /\ result' = "OK"
    /\ UNCHANGED <<held, ready, procStatus, curPU, resets>>

\* picoctrl_engFeedText: characters go into cbIn until it is full.
FeedText(size) ==
    LET fed == IF size < Cap - buf[0] THEN size ELSE Cap - buf[0] IN
    /\ text + size =< MaxText
    /\ buf' = [buf EXCEPT ![0] = @ + fed]
    /\ text' = text + fed
    /\ result' = "OK"
    /\ UNCHANGED <<held, ready, procStatus, curPU, resets>>

\* The rest of picoctrl_engFetchOutputItemBytes after the control's step left
\* the buffers b: one item is taken from cbOut if the caller's buffer fits it.
Deliver(b, step, fits) ==
    \/ step = "ERROR" /\ buf' = b /\ result' = "ERROR"
    \/ /\ step # "ERROR" /\ b[NumProcUnits] = 0
       /\ buf' = b
       /\ result' = IF step = "IDLE" THEN "IDLE" ELSE "BUSY"
    \/ /\ step # "ERROR" /\ b[NumProcUnits] > 0 /\ fits
       /\ buf' = [b EXCEPT ![NumProcUnits] = @ - 1]
       /\ result' = "BUSY"
    \/ /\ step # "ERROR" /\ b[NumProcUnits] > 0 /\ ~ fits
       /\ buf' = b
       /\ result' = "ERROR"

FetchWith(fits, status, output, took, done, made, put) ==
    /\ UnitStep(curPU, status, output, took, done, made, put)
    /\ Schedule(status, output)
    /\ Deliver(BufAfter(curPU, took, put), StepResult(status), fits)
    /\ UNCHANGED <<text, resets>>

FetchOutput(fits) ==
    \E took \in 0 .. Cap, put \in 0 .. Cap,
       done \in 0 .. MaxHeld + Cap, made \in 0 .. MaxReady + Cap :
        /\ Moves(curPU, took, done, made, put)
        /\ \E status \in PuStatus, output \in BOOLEAN :
              FetchWith(fits, status, output, took, done, made, put)

\* A fetch whose step is not one more pass of a unit over what it holds.
FetchMoving(fits) ==
    \E took \in 0 .. Cap, put \in 0 .. Cap,
       done \in 0 .. MaxHeld + Cap, made \in 0 .. MaxReady + Cap :
        /\ Moves(curPU, took, done, made, put)
        /\ \E status \in PuStatus, output \in BOOLEAN :
              /\ status \in {"BUSY", "ATOMIC"} => took + done + put > 0
              /\ FetchWith(fits, status, output, took, done, made, put)

\* ctrlInitialize: each unit is initialised, then its output buffer reset.
\* The statuses keep what the steps before left in them.
Initialize == /\ curPU' = 0
              /\ held' = [i \in Units |-> 0]
              /\ ready' = [i \in Units |-> 0]
              /\ UNCHANGED procStatus

\* picoctrl_engReset: terminate, initialise, empty cbIn and cbOut.  (A unit's
\* initialiser fails only for a knowledge base its voice lacks, and then the
\* engine was never created.)
EngReset ==
    /\ resets < MaxResets
    /\ resets' = resets + 1
    /\ Initialize
    /\ buf' = [i \in Buffers |-> 0]
    /\ result' = "OK"
    /\ UNCHANGED text

Next == \/ \E size \in 1 .. MaxText : FeedText(size)
        \/ \E fits \in (IF MayFail THEN BOOLEAN ELSE {TRUE}) : FetchOutput(fits)
        \/ EngReset

\* The caller of an engine goes on fetching, and no unit makes passes over what
\* it holds for ever.
Fairness == WF_vars(FetchMoving(TRUE))

Spec == Init /\ [][Next]_vars
FairSpec == Spec /\ Fairness

-----------------------------------------------------------------------------
TypeOK == /\ buf \in [Buffers -> 0 .. Cap]
          /\ held \in [Units -> 0 .. MaxHeld]
          /\ ready \in [Units -> 0 .. MaxReady]
          /\ procStatus \in [Units -> PuStatus]
          /\ curPU \in Units
          /\ result \in Results
          /\ text \in 0 .. MaxText
          /\ resets \in 0 .. MaxResets

(* No unit with work to do is forgotten: the control is at it, or comes to  *)
(* it next because its status says BUSY, or finds it on the way up because  *)
(* its status is not IDLE; text at the top is found at the end of that way. *)
(* It has to hold over stale statuses, back-pressure, failed steps and resets. *)
NothingStranded ==
    \A i \in Units : Pending(i) =>
        \/ i = curPU
        \/ i = 0
        \/ i < curPU /\ procStatus[i] # "IDLE"
        \/ i = curPU + 1 /\ procStatus[i] = "BUSY"

(* picoapi.h on pico_getData: PICO_STEP_IDLE is returned once all data is   *)
(* returned and there is no more text in the input buffer.  The control     *)
(* never looks at a buffer to find that out, only at statuses.              *)
IdleMeansDrained == result = "IDLE" => Drained

(* Text is never kept for ever: whoever goes on fetching is told IDLE again *)
(* and again, whatever the units' rates and however small the buffers, if   *)
(* the steps stop failing.                                                  *)
IdleAgainAndAgain == <>[](result # "ERROR") => []<>(result = "IDLE")
=============================================================================
