---------------------------- MODULE ControlProofs ----------------------------
(***************************************************************************)
(* Proofs about Control, for chains of every length and buffers and units   *)
(* of every capacity: no unit with work to do is ever stranded, and IDLE is *)
(* reported only when the chain is drained.                                 *)
(***************************************************************************)
EXTENDS Control, TLAPS

-----------------------------------------------------------------------------
(* What a step of the current unit leaves in the chain.                     *)

\* The parameters a fetch chooses.
Choice(status, output, took, done, made, put) ==
    /\ status \in PuStatus /\ output \in BOOLEAN
    /\ took \in 0 .. Cap /\ done \in 0 .. MaxHeld + Cap
    /\ made \in 0 .. MaxReady + Cap /\ put \in 0 .. Cap
    /\ Moves(curPU, took, done, made, put)
    /\ Reason(curPU, took, done, made, put, status)
    /\ Reported(put, status, output)

\* Only the two buffers of the unit change, and stay within their capacity.
LEMMA BufferStep ==
    ASSUME TypeOK, NEW status, NEW output, NEW took, NEW done, NEW made, NEW put,
           Choice(status, output, took, done, made, put)
    PROVE  /\ BufAfter(curPU, took, put) \in [Buffers -> 0 .. Cap]
           /\ \A i \in Buffers : BufAfter(curPU, took, put)[i] =
                IF i = curPU THEN buf[i] - took
                ELSE IF i = curPU + 1 THEN buf[i] + put ELSE buf[i]
  <1>. DEFINE c == curPU
  <1>1. c \in Buffers /\ c + 1 \in Buffers /\ c # c + 1
    BY ControlAssumption, SMT DEF TypeOK, Buffers, Units, Last
  <1>2. buf \in [Buffers -> 0 .. Cap]
    BY Zenon DEF TypeOK
  <1>3. took \in 0 .. Cap /\ put \in 0 .. Cap /\ took =< buf[c] /\ put =< Cap - buf[c + 1]
    BY Zenon DEF Choice, Moves
  <1>4. BufAfter(c, took, put) = [buf EXCEPT ![c] = @ - took, ![c + 1] = @ + put]
    BY Zenon DEF BufAfter
  <1>. HIDE DEF c
  <1>5. /\ BufAfter(c, took, put) \in [Buffers -> 0 .. Cap]
        /\ \A i \in Buffers : BufAfter(c, took, put)[i] =
                IF i = c THEN buf[i] - took ELSE IF i = c + 1 THEN buf[i] + put ELSE buf[i]
    BY <1>1, <1>2, <1>3, <1>4, ControlAssumption, SMT
  <1>. QED BY <1>5, Zenon DEF c

\* The schedule keeps the current unit and the statuses in their types.
LEMMA ScheduleTypes ==
    ASSUME TypeOK, NEW status \in PuStatus, NEW output \in BOOLEAN, Schedule(status, output)
    PROVE  /\ curPU' \in Units
           /\ procStatus' \in [Units -> PuStatus]
  <1>. DEFINE st == Stepped(status, output)
  <1>1. st \in [Units -> PuStatus]
    BY SMT DEF TypeOK, Stepped, PuStatus
  <1>2. curPU \in Units /\ curPU \in Int
    BY ControlAssumption, SMT DEF TypeOK, Units, Last
  <1>. HIDE DEF st
  <1>3. CASE Stay(st)
    BY <1>1, <1>2, <1>3, Zenon DEF Stay
  <1>4. CASE curPU < Last /\ (Down(st) \/ Down([st EXCEPT ![curPU + 1] = "BUSY"]))
    BY <1>1, <1>2, <1>4, ControlAssumption, SMT DEF Down, Units, Last, PuStatus
  <1>5. CASE Up(st)
    BY <1>1, <1>2, <1>5, ControlAssumption, SMT DEF Up, Units, Last, PuStatus
  <1>. QED BY <1>3, <1>4, <1>5, Zenon DEF Schedule, st, NextIsBusy

\* Delivering takes at most one item out of the last buffer.
LEMMA DeliverTypes ==
    ASSUME ControlAssumption, NEW b \in [Buffers -> 0 .. Cap], NEW step, NEW fits, Deliver(b, step, fits)
    PROVE  /\ buf' \in [Buffers -> 0 .. Cap]
           /\ \A i \in Units : buf'[i] = b[i]
           /\ result' \in Results
           /\ result' = "IDLE" => step = "IDLE" /\ buf'[NumProcUnits] = 0
  BY SMT DEF Deliver, Buffers, Units, Last, Results, ControlAssumption

\* Type correctness of the control: no buffer over its capacity, no unit out of the chain.
THEOREM ControlTypeOK == Spec => []TypeOK
  <1>1. Init => TypeOK
    <2>1. 0 \in 0 .. Cap /\ 0 \in 0 .. MaxHeld /\ 0 \in 0 .. MaxReady
          /\ 0 \in 0 .. MaxText /\ 0 \in 0 .. MaxResets /\ 0 \in Units
      BY ControlAssumption, SMT DEF Units, Last
    <2>. QED BY <2>1, Zenon DEF Init, TypeOK, PuStatus, Results
  <1>2. TypeOK /\ [Next]_vars => TypeOK'
    <2>. SUFFICES ASSUME TypeOK, [Next]_vars PROVE TypeOK'
      OBVIOUS
    <2>1. ASSUME NEW size \in 1 .. MaxText, FeedText(size) PROVE TypeOK'
      <3>. DEFINE fed == IF size < Cap - buf[0] THEN size ELSE Cap - buf[0]
      <3>1. 0 \in Buffers /\ buf \in [Buffers -> 0 .. Cap] /\ text \in 0 .. MaxText
        BY ControlAssumption, SMT DEF TypeOK, Buffers
      <3>2. fed \in 0 .. size /\ fed =< Cap - buf[0]
        BY <3>1, ControlAssumption, SMT
      <3>3. text + size =< MaxText /\ buf' = [buf EXCEPT ![0] = @ + fed] /\ text' = text + fed
        BY <2>1, Zenon DEF FeedText
      <3>. HIDE DEF fed
      <3>4. buf[0] + fed \in 0 .. Cap
        BY <3>1, <3>2, ControlAssumption, SMT
      <3>5. buf' \in [Buffers -> 0 .. Cap]
        BY <3>1, <3>3, <3>4, Zenon
      <3>6. text' \in 0 .. MaxText
        BY <3>1, <3>2, <3>3, ControlAssumption, SMT
      <3>. QED BY <2>1, <3>5, <3>6, Zenon DEF FeedText, TypeOK, Results
    <2>2. ASSUME NEW fits \in BOOLEAN, FetchOutput(fits) PROVE TypeOK'
      <3>1. PICK status \in PuStatus, output \in BOOLEAN,
                 took \in 0 .. Cap, done \in 0 .. MaxHeld + Cap,
                 made \in 0 .. MaxReady + Cap, put \in 0 .. Cap :
              /\ Moves(curPU, took, done, made, put)
              /\ UnitStep(curPU, status, output, took, done, made, put)
              /\ Schedule(status, output)
              /\ Deliver(BufAfter(curPU, took, put), StepResult(status), fits)
              /\ UNCHANGED <<text, resets>>
        BY <2>2, Zenon DEF FetchOutput, FetchWith
      <3>6. Choice(status, output, took, done, made, put)
        BY <3>1, Zenon DEF Choice, UnitStep
      <3>2. curPU' \in Units /\ procStatus' \in [Units -> PuStatus]
        BY <3>1, ScheduleTypes, Zenon
      <3>3. BufAfter(curPU, took, put) \in [Buffers -> 0 .. Cap]
        BY <3>6, BufferStep, Zenon
      <3>4. buf' \in [Buffers -> 0 .. Cap] /\ result' \in Results
        BY <3>1, <3>3, DeliverTypes, ControlAssumption, Zenon
      <3>5. held' \in [Units -> 0 .. MaxHeld] /\ ready' \in [Units -> 0 .. MaxReady]
        <4>1. /\ curPU \in Units /\ held[curPU] \in Int /\ ready[curPU] \in Int
              /\ took \in Int /\ done \in Int /\ made \in Int /\ put \in Int
          BY ControlAssumption, SMT DEF TypeOK
        <4>2. /\ done =< held[curPU] + took /\ held[curPU] + took - done =< MaxHeld
              /\ put =< ready[curPU] + made /\ ready[curPU] + made - put =< MaxReady
          BY <3>6, Zenon DEF Choice, Moves
        <4>3. held[curPU] + took - done \in 0 .. MaxHeld /\ ready[curPU] + made - put \in 0 .. MaxReady
          BY <4>1, <4>2, ControlAssumption, SMT
        <4>. QED BY <3>1, <4>1, <4>3, Zenon DEF TypeOK, UnitStep
      <3>. QED BY <3>1, <3>2, <3>4, <3>5, Zenon DEF TypeOK
    <2>3. ASSUME EngReset PROVE TypeOK'
      BY <2>3, ControlAssumption, SMT
         DEF EngReset, Initialize, TypeOK, Buffers, Units, Last, Results
    <2>4. CASE UNCHANGED vars
      BY <2>4, Zenon DEF vars, chain, TypeOK
    <2>. QED BY <2>1, <2>2, <2>3, <2>4, Zenon DEF Next
  <1>. QED BY <1>1, <1>2, PTL DEF Spec

-----------------------------------------------------------------------------
(* The heart of the matter: a unit that a step leaves with work to do.      *)

\* Work to do after the current unit's step, when the buffers are b.
PendingAfter(i, b, r) == b[i] > 0 \/ r[i] > 0

\* Such a unit is the current one, or one whose status tells: below the
\* current unit only the next one, woken; above it, one that is not IDLE.
Told(st, b, r) ==
    \A i \in Units : PendingAfter(i, b, r) =>
        \/ i = curPU /\ st[i] # "IDLE"
        \/ i = 0 /\ curPU # 0
        \/ i < curPU /\ st[i] # "IDLE"
        \/ i = curPU + 1 /\ st[i] = "BUSY"

\* Unless the output is full, when the next unit may not have been woken.
ToldUnlessFull(st, b, r) ==
    \A i \in Units : PendingAfter(i, b, r) =>
        \/ i = curPU
        \/ i = 0
        \/ i < curPU /\ st[i] # "IDLE"
        \/ i = curPU + 1

LEMMA StepTells ==
    ASSUME TypeOK, NothingStranded,
           NEW status, NEW output, NEW took, NEW done, NEW made, NEW put,
           Choice(status, output, took, done, made, put),
           NEW r, r = [ready EXCEPT ![curPU] = @ + made - put]
    PROVE  /\ status # "OUT_FULL" => Told(Stepped(status, output), BufAfter(curPU, took, put), r)
           /\ ToldUnlessFull(Stepped(status, output), BufAfter(curPU, took, put), r)
  <1>. DEFINE b == BufAfter(curPU, took, put)
              st == Stepped(status, output)
  <1>1. \A i \in Buffers : b[i] = IF i = curPU THEN buf[i] - took
                                  ELSE IF i = curPU + 1 THEN buf[i] + put ELSE buf[i]
    BY BufferStep
  <1>2. \A i \in Units : st[i] = IF i = curPU THEN status
                                 ELSE IF i = curPU + 1 /\ output THEN "BUSY" ELSE procStatus[i]
    BY Zenon DEF Stepped
  <1>3. \A i \in Units : r[i] = IF i = curPU THEN ready[i] + made - put ELSE ready[i]
    BY Zenon DEF TypeOK
  <1>4. curPU \in Int /\ took \in Int /\ put \in Int /\ made \in Int
        /\ \A i \in Units : i \in Int /\ i >= 0 /\ i \in Buffers
                            /\ buf[i] \in Int /\ buf[i] >= 0 /\ ready[i] \in Int
    <2>1. curPU \in Int /\ took \in Int /\ put \in Int /\ made \in Int
      BY ControlAssumption, SMT DEF TypeOK, Choice, Units, Last
    <2>2. \A i \in Units : i \in Int /\ i >= 0 /\ i \in Buffers
      BY ControlAssumption, SMT DEF Units, Last, Buffers
    <2>3. \A i \in Buffers : buf[i] \in 0 .. Cap
      BY Zenon DEF TypeOK
    <2>4. \A i \in Units : ready[i] \in 0 .. MaxReady
      BY Zenon DEF TypeOK
    <2>. QED BY <2>1, <2>2, <2>3, <2>4, ControlAssumption, SMT
  <1>5. status = "IDLE" => took = buf[curPU] /\ ready[curPU] + made - put = 0
    BY Zenon DEF Choice, Reason, ReadyAfter
  <1>6. put >= 0 /\ (status # "OUT_FULL" => output = (put > 0))
    BY ControlAssumption, SMT DEF Choice, Reported
  <1>7. curPU \in Units
    BY Zenon DEF TypeOK
  <1>. HIDE DEF b, st
  <1>8. ASSUME status # "OUT_FULL" PROVE Told(st, b, r)
    <2>. SUFFICES ASSUME NEW i \in Units, PendingAfter(i, b, r)
                  PROVE  \/ i = curPU /\ st[i] # "IDLE"
                         \/ i = 0 /\ curPU # 0
                         \/ i < curPU /\ st[i] # "IDLE"
                         \/ i = curPU + 1 /\ st[i] = "BUSY"
      BY Zenon DEF Told
    <2>1. CASE i = curPU
      <3>1. ASSUME status = "IDLE" PROVE FALSE
        <4>1. b[curPU] = buf[curPU] - buf[curPU] /\ r[curPU] = 0
          BY <1>1, <1>3, <1>4, <1>5, <1>7, <3>1, Zenon
        <4>2. b[curPU] = 0
          BY <4>1, <1>4, <1>7, SMT
        <4>. QED BY <2>1, <4>1, <4>2, SMT DEF PendingAfter
      <3>2. st[i] = status
        BY <2>1, <1>2, Zenon
      <3>. QED BY <2>1, <3>1, <3>2, Zenon
    <2>2. CASE i = curPU + 1
      <3>1. CASE put > 0
        <4>1. i # curPU
          BY <2>2, <1>4, SMT
        <4>2. output
          BY <3>1, <1>6, <1>8, Zenon
        <4>. QED BY <2>2, <4>1, <4>2, <1>2, Zenon
      <3>2. CASE put = 0
        BY <2>2, <3>2, <1>1, <1>2, <1>3, <1>4, <1>6, <1>7, <1>8, SMT DEF PendingAfter, NothingStranded, Pending
      <3>. QED BY <3>1, <3>2, <1>4, <1>6, SMT
    <2>3. CASE i # curPU /\ i # curPU + 1
      BY <2>3, <1>1, <1>2, <1>3, <1>4, <1>7, SMT DEF PendingAfter, NothingStranded, Pending
    <2>. QED BY <2>1, <2>2, <2>3, Zenon
  <1>9. ToldUnlessFull(st, b, r)
    BY <1>1, <1>2, <1>3, <1>4, <1>7, SMT DEF ToldUnlessFull, PendingAfter, NothingStranded, Pending
  <1>. QED BY <1>8, <1>9, Zenon DEF b, st

-----------------------------------------------------------------------------
(* How the schedule keeps what the step told.                               *)

\* What NothingStranded says of the state a step ends in.
Found(st, b, r, c) ==
    \A i \in Units : PendingAfter(i, b, r) =>
        \/ i = c
        \/ i = 0
        \/ i < c /\ st[i] # "IDLE"
        \/ i = c + 1 /\ st[i] = "BUSY"

LEMMA ScheduleFinds ==
    ASSUME TypeOK, NEW status \in PuStatus, NEW output \in BOOLEAN, NEW b, NEW r,
           status # "OUT_FULL" => Told(Stepped(status, output), b, r),
           ToldUnlessFull(Stepped(status, output), b, r),
           Schedule(status, output)
    PROVE  Found(procStatus', b, r, curPU')
  <1>. DEFINE st == Stepped(status, output)
              full == [st EXCEPT ![curPU + 1] = "BUSY"]
  <1>1. curPU \in Units /\ curPU \in Int /\ curPU >= 0 /\ curPU =< Last /\ Last \in Int
        /\ \A i \in Units : i \in Int /\ i >= 0 /\ i =< Last
    BY ControlAssumption, SMT DEF TypeOK, Units, Last
  <1>2. st[curPU] = status /\ DOMAIN st = Units
    BY <1>1, Zenon DEF Stepped
  <1>3. /\ status # "OUT_FULL" => Told(st, b, r)
        /\ ToldUnlessFull(st, b, r)
    BY Zenon
  <1>4. \/ status # "OUT_FULL" /\ Stay(st)
        \/ status \in {"BUSY", "IDLE"} /\ NextIsBusy(st) /\ Down(st)
        \/ status = "IDLE" /\ ~ NextIsBusy(st) /\ Up(st)
        \/ status = "OUT_FULL" /\ curPU < Last /\ Down(full)
        \/ status = "OUT_FULL" /\ curPU = Last /\ Stay(st)
    BY Zenon DEF Schedule
  <1>. HIDE DEF st
  <1>5. CASE status # "OUT_FULL" /\ Stay(st)
    BY <1>3, <1>5, Zenon DEF Stay, Told, Found
  <1>6. CASE status \in {"BUSY", "IDLE"} /\ NextIsBusy(st) /\ Down(st)
    BY <1>1, <1>3, <1>6, SMT DEF Down, Told, Found
  <1>7. CASE status = "IDLE" /\ ~ NextIsBusy(st) /\ Up(st)
    <2>1. PICK j \in 0 .. curPU : /\ \A m \in j + 1 .. curPU : st[m] = "IDLE"
                                  /\ curPU' = j
                                  /\ procStatus' = [st EXCEPT ![j] = "BUSY"]
      BY <1>7, Zenon DEF Up
    <2>. SUFFICES ASSUME NEW i \in Units, PendingAfter(i, b, r), i # j, i # 0
                  PROVE  i < j /\ procStatus'[i] # "IDLE"
      BY <2>1, Zenon DEF Found
    <2>2. \/ i = curPU /\ st[i] # "IDLE"
          \/ i < curPU /\ st[i] # "IDLE"
          \/ i = curPU + 1 /\ st[i] = "BUSY"
      BY <1>3, <1>7, Zenon DEF Told
    <2>3. i =< curPU /\ st[i] # "IDLE"
      <3>1. CASE i = curPU + 1 /\ st[i] = "BUSY"
        <4>1. curPU < Last
          BY <3>1, <1>1, SMT
        <4>. QED BY <3>1, <4>1, <1>7, Zenon DEF NextIsBusy
      <3>. QED BY <2>2, <3>1, <1>1, SMT
    <2>4. i < j
      BY <2>1, <2>3, <1>1, SMT
    <2>5. procStatus'[i] = st[i]
      BY <2>1, <1>2, Zenon
    <2>. QED BY <2>3, <2>4, <2>5, Zenon
  <1>8. CASE status = "OUT_FULL" /\ curPU < Last /\ Down(full)
    <2>1. curPU' = curPU + 1 /\ procStatus' = full
      BY <1>8, Zenon DEF Down
    <2>. SUFFICES ASSUME NEW i \in Units, PendingAfter(i, b, r), i # curPU + 1, i # 0
                  PROVE  i < curPU + 1 /\ full[i] # "IDLE"
      BY <2>1, Zenon DEF Found
    <2>2. \/ i = curPU
          \/ i < curPU /\ st[i] # "IDLE"
      BY <1>3, Zenon DEF ToldUnlessFull
    <2>3. full[i] = st[i]
      BY <1>2, Zenon
    <2>4. st[i] # "IDLE"
      BY <1>2, <1>8, <2>2, Zenon
    <2>5. i < curPU + 1
      BY <2>2, <1>1, SMT
    <2>. QED BY <2>3, <2>4, <2>5, Zenon
  <1>9. CASE status = "OUT_FULL" /\ curPU = Last /\ Stay(st)
    <2>1. \A i \in Units : i # curPU + 1
      BY <1>1, <1>9, SMT
    <2>. QED BY <2>1, <1>3, <1>9, Zenon DEF Stay, ToldUnlessFull, Found
  <1>. QED BY <1>4, <1>5, <1>6, <1>7, <1>8, <1>9, Zenon

-----------------------------------------------------------------------------
(* Nothing is stranded (the control forgets no unit with work to do), and   *)
(* IDLE is told only of a drained chain.                                    *)

\* Everything a fetch gives, for the two theorems.
LEMMA FetchParts ==
    ASSUME TypeOK, NothingStranded, NEW fits \in BOOLEAN, FetchOutput(fits)
    PROVE  \E status \in PuStatus, output \in BOOLEAN, b \in [Buffers -> 0 .. Cap] :
              /\ status # "OUT_FULL" => Told(Stepped(status, output), b, ready')
              /\ ToldUnlessFull(Stepped(status, output), b, ready')
              /\ Schedule(status, output)
              /\ Deliver(b, StepResult(status), fits)
  <1>1. PICK status \in PuStatus, output \in BOOLEAN,
             took \in 0 .. Cap, done \in 0 .. MaxHeld + Cap,
             made \in 0 .. MaxReady + Cap, put \in 0 .. Cap :
          /\ Moves(curPU, took, done, made, put)
          /\ UnitStep(curPU, status, output, took, done, made, put)
          /\ Schedule(status, output)
          /\ Deliver(BufAfter(curPU, took, put), StepResult(status), fits)
    BY Zenon DEF FetchOutput, FetchWith
  <1>4. /\ Choice(status, output, took, done, made, put)
        /\ ready' = [ready EXCEPT ![curPU] = @ + made - put]
    BY <1>1, Zenon DEF Choice, UnitStep
  <1>2. BufAfter(curPU, took, put) \in [Buffers -> 0 .. Cap]
    BY <1>4, BufferStep, Zenon
  <1>3. /\ status # "OUT_FULL" => Told(Stepped(status, output), BufAfter(curPU, took, put), ready')
        /\ ToldUnlessFull(Stepped(status, output), BufAfter(curPU, took, put), ready')
    BY <1>4, StepTells
  <1>. QED BY <1>1, <1>2, <1>3, Zenon

\* ctrlStep never leaves a unit with work to do where it will not look again.
THEOREM ControlStrandsNothing == Spec => []NothingStranded
  <1>1. Init => NothingStranded
    <2>. SUFFICES ASSUME Init, NEW i \in Units PROVE ~ Pending(i)
      BY Zenon DEF NothingStranded
    <2>1. buf[i] = 0 /\ ready[i] = 0
      BY ControlAssumption, SMT DEF Init, Units, Last, Buffers
    <2>. QED BY <2>1, SMT DEF Pending
  <1>2. TypeOK /\ NothingStranded /\ [Next]_vars => NothingStranded'
    <2>. SUFFICES ASSUME TypeOK, NothingStranded, [Next]_vars PROVE NothingStranded'
      OBVIOUS
    <2>1. ASSUME NEW size \in 1 .. MaxText, FeedText(size) PROVE NothingStranded'
      <3>1. \A i \in Units : i = 0 \/ buf'[i] = buf[i]
        BY <2>1, ControlAssumption, SMT DEF FeedText, TypeOK, Buffers, Units, Last
      <3>. QED BY <2>1, <3>1, Zenon DEF FeedText, NothingStranded, Pending
    <2>2. ASSUME NEW fits \in BOOLEAN, FetchOutput(fits) PROVE NothingStranded'
      <3>1. PICK status \in PuStatus, output \in BOOLEAN, b \in [Buffers -> 0 .. Cap] :
              /\ status # "OUT_FULL" => Told(Stepped(status, output), b, ready')
              /\ ToldUnlessFull(Stepped(status, output), b, ready')
              /\ Schedule(status, output)
              /\ Deliver(b, StepResult(status), fits)
        BY <2>2, FetchParts, Zenon
      <3>2. Found(procStatus', b, ready', curPU')
        BY <3>1, ScheduleFinds, Zenon
      <3>3. \A i \in Units : buf'[i] = b[i]
        BY <3>1, DeliverTypes, ControlAssumption, Zenon
      <3>. QED BY <3>1, <3>2, <3>3, Zenon DEF Found, PendingAfter, NothingStranded, Pending
    <2>3. ASSUME EngReset PROVE NothingStranded'
      <3>. SUFFICES ASSUME NEW i \in Units PROVE ~ Pending(i)'
        BY Zenon DEF NothingStranded
      <3>1. buf'[i] = 0 /\ ready'[i] = 0
        BY <2>3, ControlAssumption, SMT DEF EngReset, Initialize, Units, Last, Buffers
      <3>. QED BY <3>1, SMT DEF Pending
    <2>4. CASE UNCHANGED vars
      BY <2>4, Zenon DEF vars, chain, NothingStranded, Pending
    <2>. QED BY <2>1, <2>2, <2>3, <2>4, Zenon DEF Next
  <1>. QED BY <1>1, <1>2, ControlTypeOK, PTL DEF Spec

\* When the step of a chain with nothing stranded returns IDLE, every unit is idle.
LEMMA IdleStep ==
    ASSUME TypeOK, NEW status \in PuStatus, NEW output \in BOOLEAN, NEW b, NEW r,
           status # "OUT_FULL" => Told(Stepped(status, output), b, r),
           Schedule(status, output), StepResult(status) = "IDLE"
    PROVE  \A i \in Units : ~ PendingAfter(i, b, r)
  <1>. DEFINE st == Stepped(status, output)
              full == [st EXCEPT ![curPU + 1] = "BUSY"]
  <1>1. curPU \in Units /\ curPU \in Int /\ curPU >= 0 /\ curPU =< Last /\ Last \in Int
        /\ Last \in Units
        /\ \A i \in Units : i \in Int /\ i >= 0 /\ i =< Last
    BY ControlAssumption, SMT DEF TypeOK, Units, Last
  <1>2. st[curPU] = status /\ DOMAIN st = Units
    BY <1>1, Zenon DEF Stepped
  <1>. HIDE DEF st
  <1>3. status \in {"IDLE", "OUT_FULL"} /\ procStatus'[curPU'] = "IDLE"
    BY Zenon DEF StepResult
  <1>4. status # "OUT_FULL"
    <2>. SUFFICES ASSUME status = "OUT_FULL" PROVE FALSE
      OBVIOUS
    <2>1. \/ curPU < Last /\ Down(full)
          \/ Stay(st)
      BY Zenon DEF Schedule, st
    <2>2. ~ Stay(st)
      BY <1>2, <1>3, Zenon DEF Stay
    <2>3. curPU < Last => curPU + 1 \in Units
      BY ControlAssumption, SMT DEF TypeOK, Units, Last
    <2>. QED BY <1>2, <1>3, <2>1, <2>2, <2>3, Zenon DEF Down
  <1>5. status = "IDLE" /\ ~ NextIsBusy(st) /\ curPU = 0
    <2>1. \/ NextIsBusy(st) /\ Down(st)
          \/ ~ NextIsBusy(st) /\ curPU = 0
          \/ Up(st)
      BY <1>3, <1>4, Zenon DEF Schedule, st
    <2>2. ~ (NextIsBusy(st) /\ Down(st))
      BY <1>3, Zenon DEF NextIsBusy, Down
    <2>3. ASSUME NEW j \in 0 .. curPU, curPU' = j, procStatus' = [st EXCEPT ![j] = "BUSY"]
          PROVE  FALSE
      <3>1. j \in Units
        BY <1>1, ControlAssumption, SMT DEF Units, Last
      <3>. QED BY <1>2, <1>3, <2>3, <3>1, Zenon
    <2>. QED BY <1>3, <1>4, <2>1, <2>2, <2>3, Zenon DEF Up
  <1>6. Told(st, b, r)
    BY <1>4, Zenon DEF st
  <1>. SUFFICES ASSUME NEW i \in Units, PendingAfter(i, b, r) PROVE FALSE
    OBVIOUS
  <1>7. \/ i = curPU /\ st[i] # "IDLE"
        \/ i < curPU
        \/ i = curPU + 1 /\ st[i] = "BUSY"
    BY <1>5, <1>6, Zenon DEF Told
  <1>8. i = curPU + 1 => curPU < Last
    BY <1>1, SMT
  <1>9. ~ (i < curPU)
    BY <1>1, <1>5, SMT
  <1>. QED BY <1>2, <1>5, <1>7, <1>8, <1>9, Zenon DEF NextIsBusy

\* picoctrl_engFetchOutputItemBytes reports IDLE of a drained chain only.
THEOREM ControlIdleMeansDrained == Spec => []IdleMeansDrained
  <1>1. Init => IdleMeansDrained
    BY Zenon DEF Init, IdleMeansDrained
  <1>2. TypeOK /\ NothingStranded /\ IdleMeansDrained /\ [Next]_vars => IdleMeansDrained'
    <2>. SUFFICES ASSUME TypeOK, NothingStranded, IdleMeansDrained, [Next]_vars PROVE IdleMeansDrained'
      OBVIOUS
    <2>1. ASSUME NEW size \in 1 .. MaxText, FeedText(size) PROVE IdleMeansDrained'
      BY <2>1, Zenon DEF FeedText, IdleMeansDrained
    <2>2. ASSUME NEW fits \in BOOLEAN, FetchOutput(fits) PROVE IdleMeansDrained'
      <3>. SUFFICES ASSUME result' = "IDLE" PROVE Drained'
        BY Zenon DEF IdleMeansDrained
      <3>1. PICK status \in PuStatus, output \in BOOLEAN, b \in [Buffers -> 0 .. Cap] :
              /\ status # "OUT_FULL" => Told(Stepped(status, output), b, ready')
              /\ ToldUnlessFull(Stepped(status, output), b, ready')
              /\ Schedule(status, output)
              /\ Deliver(b, StepResult(status), fits)
        BY <2>2, FetchParts, Zenon
      <3>2. /\ \A i \in Units : buf'[i] = b[i]
            /\ result' = "IDLE" => StepResult(status) = "IDLE" /\ buf'[NumProcUnits] = 0
        BY <3>1, DeliverTypes, ControlAssumption
      <3>3. \A i \in Units : ~ PendingAfter(i, b, ready')
        BY <3>1, <3>2, IdleStep, Zenon
      <3>. QED BY <3>1, <3>2, <3>3, Zenon DEF PendingAfter, Pending, Drained
    <2>3. ASSUME EngReset PROVE IdleMeansDrained'
      BY <2>3, Zenon DEF EngReset, IdleMeansDrained
    <2>4. CASE UNCHANGED vars
      BY <2>4, Zenon DEF vars, chain, IdleMeansDrained, Drained, Pending
    <2>. QED BY <2>1, <2>2, <2>3, <2>4, Zenon DEF Next
  <1>. QED BY <1>1, <1>2, ControlTypeOK, ControlStrandsNothing, PTL DEF Spec
=============================================================================
