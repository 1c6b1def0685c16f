-------------------------- MODULE SignalGeneration --------------------------
(***************************************************************************)
(* The signal generation unit, picosig.c with picosig2.c: each parameter    *)
(* item becomes two items of samples, in ten steps; commands play a sound   *)
(* file, or save what is put to one; other items are passed on.             *)
(*                                                                          *)
(* Of the signal only this is kept: which frame each buffer belongs to,     *)
(* where the excitation points lie, and which frame's impulse response is   *)
(* added up there.  A frame is [n, f, voiced] (see CepstralSmoothing).      *)
(***************************************************************************)
EXTENDS Integers, Sequences
LOCAL INSTANCE SequencesExt

CONSTANTS Cap,           \* items the output buffer takes
          Hop,           \* PICODSP_DISPLACE, samples
          VPeriod, UPeriod,  \* between two excitation points, voiced and unvoiced
          PlayLen        \* items of samples a sound file gives

VARIABLES in, out,
          procState, retState, innerProcState,
          inBuf,         \* <<>> or <<item>>
          outBuf,        \* the items between outReadPos and outWritePos
          playing,       \* sInSDFile: the items it still gives, -1 if none is open
          outSwitch,     \* an output file is open (sOutSDFile)
          saved,         \* the items in the output file
          cepBuff,       \* CepBuff, F0Buff, VoicingBuff...: frames, the oldest first
          phsBuff,       \* PhsBuff and VoxBndBuff
          nAvailable,
          voiced, prevVoiced, voicTrans,
          locV, locU,    \* excitation points (LocV, LocU)
          nextPeak,
          imp, impResp,  \* the frames of the impulse response and of the saved one
          status

files == <<playing, outSwitch, saved>>
buffers == <<cepBuff, phsBuff, nAvailable, voiced, prevVoiced>>
points == <<voicTrans, locV, locU, nextPeak, imp, impResp>>
vars == <<in, out, procState, retState, innerProcState, inBuf, outBuf,
          files, buffers, points, status>>

WinLen == 4 * Hop        \* PICODSP_FFTSIZE
CEPST_BUFF_SIZE == 3
PHASE_BUFF_SIZE == 5
None == [n |-> 0, f |-> 0, voiced |-> FALSE]

\* sigInitialize(PICO_RESET_FULL) with sigDspInitialize
Blank == /\ procState = "COLLECT" /\ retState = "COLLECT" /\ innerProcState = 0
         /\ inBuf = <<>> /\ outBuf = <<>>
         /\ playing = -1 /\ outSwitch = FALSE /\ saved = <<>>
         /\ cepBuff = [i \in 1 .. CEPST_BUFF_SIZE |-> None]
         /\ phsBuff = [i \in 1 .. PHASE_BUFF_SIZE |-> None]
         /\ nAvailable = 0
         /\ voiced = FALSE /\ prevVoiced = FALSE /\ voicTrans = FALSE
         /\ locV = <<>> /\ locU = <<>> /\ nextPeak = 3 * Hop
         /\ imp = None /\ impResp = None
         /\ status = "NONE"

\* sigInitialize: open files are forgotten, not closed; the signal's state is
\* set back in a full reset only, and the last transition not even then.
Initialize(resetMode) ==
    /\ procState' = "COLLECT" /\ retState' = "COLLECT" /\ innerProcState' = 0
    /\ inBuf' = <<>> /\ outBuf' = <<>>
    /\ playing' = -1 /\ outSwitch' = FALSE /\ saved' = <<>>
    /\ \/ resetMode = "SOFT" /\ UNCHANGED <<buffers, locV, locU, nextPeak>>
       \/ /\ resetMode = "FULL"
          /\ cepBuff' = [i \in 1 .. CEPST_BUFF_SIZE |-> None]
          /\ phsBuff' = [i \in 1 .. PHASE_BUFF_SIZE |-> None]
          /\ nAvailable' = 0 /\ voiced' = FALSE
          /\ locV' = <<>> /\ locU' = <<>> /\ nextPeak' = 3 * Hop
          /\ UNCHANGED prevVoiced
    /\ UNCHANGED <<voicTrans, imp, impResp>>
    /\ status' = "NONE"

Call == /\ status # "RUNNING"
        /\ status' = "RUNNING"
        /\ UNCHANGED <<in, out, procState, retState, innerProcState, inBuf, outBuf,
                       files, buffers, points>>

At(state) == status = "RUNNING" /\ procState = state

GoOn(state, ret) == procState' = state /\ retState' = ret /\ status' = "BUSY"

-----------------------------------------------------------------------------
Collect == /\ At("COLLECT")
           /\ \/ /\ in # <<>>
                 /\ inBuf' = <<Head(in)>> /\ in' = Tail(in)
                 /\ procState' = "SCHEDULE" /\ status' = "ATOMIC"
              \/ /\ in = <<>>
                 /\ status' = "IDLE"
                 /\ UNCHANGED <<in, inBuf, procState>>
           /\ UNCHANGED <<out, retState, innerProcState, outBuf, files, buffers, points>>

-----------------------------------------------------------------------------
(* SCHEDULE: one action for each kind of item.                              *)
Scheduling(types) == /\ At("SCHEDULE") /\ inBuf[1].type \in types
                     /\ UNCHANGED <<in, out, innerProcState, buffers, points>>

ScheduleFrame == /\ Scheduling({"FRAME_PAR"})
                 /\ GoOn("PROCESS", "COLLECT")
                 /\ UNCHANGED <<inBuf, outBuf, files>>

\* Consumed whether or not the file can be opened; not if it is the one being
\* written.  (No other is open then: one plays to its end.)
SchedulePlay == /\ Scheduling({"PLAY"})
                /\ inBuf' = <<>>
                /\ \/ playing' = PlayLen /\ GoOn("PLAY", "PLAY")
                   \/ playing' = -1 /\ GoOn("COLLECT", "COLLECT")
                /\ UNCHANGED <<outBuf, outSwitch, saved>>

ScheduleSave == /\ Scheduling({"SAVE"})
                /\ inBuf' = <<>>
                /\ GoOn("COLLECT", "COLLECT")
                /\ \/ ~ outSwitch /\ outSwitch' = TRUE /\ saved' = <<>>
                   \/ UNCHANGED <<outSwitch, saved>>
                /\ UNCHANGED <<outBuf, playing>>

ScheduleUnsave == /\ Scheduling({"UNSAVE"})
                  /\ inBuf' = <<>>
                  /\ GoOn("COLLECT", "COLLECT")
                  /\ outSwitch' = FALSE /\ saved' = <<>>
                  /\ UNCHANGED <<outBuf, playing>>

\* Modifiers of pitch, volume and speaker; they tell nothing apart here.
ScheduleModifier == /\ Scheduling({"MODIFIER"})
                    /\ inBuf' = <<>>
                    /\ GoOn("COLLECT", "COLLECT")
                    /\ UNCHANGED <<outBuf, files>>

\* Copied to outBuf, which is empty here (TypeOK): were it not, the step would
\* be BUSY for ever without doing anything.
ScheduleOther == /\ At("SCHEDULE")
                 /\ inBuf[1].type \notin {"FRAME_PAR", "PLAY", "SAVE", "UNSAVE", "MODIFIER"}
                 /\ outBuf' = inBuf /\ inBuf' = <<>>
                 /\ GoOn("FEED", "COLLECT")
                 /\ UNCHANGED <<in, out, innerProcState, files, buffers, points>>

-----------------------------------------------------------------------------
(* PROCESS: sigProcess, one case a step.                                    *)
Processing(inner) == /\ At("PROCESS") /\ innerProcState = inner
                     /\ status' = "BUSY"
                     /\ UNCHANGED <<in, out, files>>
Inner(inner) == /\ innerProcState' = inner
                /\ UNCHANGED <<procState, retState, inBuf, outBuf>>

\* Into the newest place of each buffer; worked on is the oldest one.  The
\* first frame is loaded until the buffers are full.
Load == /\ Processing(0)
        /\ cepBuff' = Append(Tail(cepBuff), inBuf[1].cep)
        /\ phsBuff' = Append(Tail(phsBuff), inBuf[1].phone)
        /\ prevVoiced' = voiced
        /\ voiced' = cepBuff'[1].voiced
        /\ nAvailable' = IF nAvailable < CEPST_BUFF_SIZE THEN nAvailable + 1 ELSE nAvailable
        /\ Inner(IF nAvailable' < CEPST_BUFF_SIZE THEN 0 ELSE 3)
        /\ UNCHANGED points

\* Mutant of Transition: points of the new voicing are kept from before.
TransitionKeepsPoints ==
    /\ Processing(3)
    /\ IF voiced # prevVoiced
       THEN voicTrans' = prevVoiced /\ impResp' = imp /\ UNCHANGED <<locV, locU>>
       ELSE UNCHANGED <<voicTrans, impResp, locV, locU>>
    /\ Inner(4)
    /\ UNCHANGED <<buffers, nextPeak, imp>>

\* save_transition_frame (and mel_2_lin_lookup): when the voicing changes the
\* response is saved, for the points that are left, and points left from the
\* last stretch of the new voicing are dropped.
Transition ==
    /\ Processing(3)
    /\ IF voiced # prevVoiced
       THEN /\ voicTrans' = prevVoiced /\ impResp' = imp
            /\ locV' = IF voiced THEN <<>> ELSE locV
            /\ locU' = IF voiced THEN locU ELSE <<>>
       ELSE UNCHANGED <<voicTrans, impResp, locV, locU>>
    /\ Inner(4)
    /\ UNCHANGED <<buffers, nextPeak, imp>>

\* phase_spec2 and env_spec: the phases of the frame in the middle of phsBuff.
Spectrum == \E inner \in {4, 5} : Processing(inner) /\ Inner(inner + 1) /\ UNCHANGED <<buffers, points>>

ImpulseResponse == /\ Processing(6)
                   /\ imp' = cepBuff[1]
                   /\ Inner(7)
                   /\ UNCHANGED <<buffers, voicTrans, locV, locU, nextPeak, impResp>>

\* get_simple_excitation (in td_psola2): the points move on by a hop, those at
\* the front that are before the window now are dropped, new ones are set up
\* to its end.
FirstKept(loc) == CHOOSE k \in 1 .. Len(loc) + 1 :
                      /\ \A i \in 1 .. k - 1 : loc[i] - Hop < 0
                      /\ k =< Len(loc) => loc[k] - Hop >= 0
Moved(loc) == [i \in 1 .. Len(loc) + 1 - FirstKept(loc) |-> loc[FirstKept(loc) + i - 1] - Hop]
Period == IF voiced THEN VPeriod ELSE UPeriod
Peak == nextPeak - Hop
NewPoints == LET count == IF Peak >= WinLen THEN 0 ELSE (WinLen - Peak + Period - 1) \div Period
             IN  [i \in 1 .. count |-> Peak + (i - 1) * Period]

Excitation ==
    /\ Processing(7)
    /\ locV' = Moved(locV) \o (IF voiced THEN NewPoints ELSE <<>>)
    /\ locU' = Moved(locU) \o (IF voiced THEN <<>> ELSE NewPoints)
    /\ nextPeak' = Peak + Len(NewPoints) * Period
    /\ Inner(8)
    /\ UNCHANGED <<buffers, voicTrans, imp, impResp>>

\* The rest of td_psola2: the frames whose responses are added at the voiced
\* and at the unvoiced points.
ResponseV == IF (voiced /\ locU = <<>>) \/ ~ voicTrans THEN imp ELSE impResp
ResponseU == IF (~ voiced /\ locV = <<>>) \/ voicTrans THEN imp ELSE impResp

OverlapAdd == Processing(8) /\ Inner(9) /\ UNCHANGED <<buffers, points>>

\* Two items of half a hop each.
Samples(frame) == [h \in 1 .. 2 |-> [type |-> "FRAME", of |-> frame, half |-> h]]
PutFrame == /\ Processing(9)
            /\ outBuf' = outBuf \o Samples(imp)
            /\ inBuf' = <<>>
            /\ innerProcState' = 0
            /\ procState' = "FEED" /\ retState' = "COLLECT"
            /\ UNCHANGED <<buffers, points>>

Process == Load \/ Transition \/ Spectrum \/ ImpulseResponse \/ Excitation \/ OverlapAdd \/ PutFrame

-----------------------------------------------------------------------------
Play == /\ At("PLAY")
        /\ \/ /\ playing > 0
              /\ playing' = playing - 1
              /\ outBuf' = Append(outBuf, [type |-> "FRAME", of |-> None, half |-> playing])
              /\ GoOn("FEED", "PLAY")
           \/ /\ playing = 0
              /\ playing' = -1
              /\ GoOn("COLLECT", "COLLECT")
              /\ UNCHANGED outBuf
        /\ UNCHANGED <<in, out, innerProcState, inBuf, outSwitch, saved, buffers, points>>

(* FEED: one item, and a frame into the file first if one is open.          *)
Feeding == At("FEED") /\ UNCHANGED <<in, retState, innerProcState, inBuf, playing, buffers, points>>

\* Mutant of ToFile: whatever is put is written.
ToFileAny == outSwitch

ToFile == outSwitch /\ outBuf[1].type = "FRAME"
Written == IF ToFile THEN Append(saved, outBuf[1]) ELSE saved

\* Mutant of FeedItem: after the first item the unit goes on.
FeedItemOnce == /\ Feeding
                /\ Len(out) < Cap
                /\ out' = Append(out, outBuf[1])
                /\ saved' = Written
                /\ outBuf' = <<>>
                /\ procState' = retState
                /\ status' = "BUSY"
                /\ UNCHANGED outSwitch

FeedItem == /\ Feeding
            /\ Len(out) < Cap
            /\ out' = Append(out, outBuf[1])
            /\ saved' = Written
            /\ outBuf' = Tail(outBuf)
            /\ procState' = IF Tail(outBuf) = <<>> THEN retState ELSE "FEED"
            /\ status' = "BUSY"
            /\ UNCHANGED outSwitch

\* The frame has gone to the file all the same, and will again.
FeedFull == /\ Feeding
            /\ Len(out) >= Cap
            /\ saved' = Written
            /\ status' = "OUT_FULL"
            /\ UNCHANGED <<out, outBuf, procState, outSwitch>>

\* Writing to the file fails: it is closed, and what is in outBuf discarded.
FeedFails == /\ Feeding /\ ToFile
             /\ outSwitch' = FALSE /\ saved' = <<>>
             /\ outBuf' = <<>>
             /\ procState' = retState
             /\ status' = "ERROR"
             /\ UNCHANGED out

Pass == \/ Collect
        \/ ScheduleFrame \/ SchedulePlay \/ ScheduleSave \/ ScheduleUnsave
        \/ ScheduleModifier \/ ScheduleOther
        \/ Process \/ Play
        \/ FeedItem \/ FeedFull \/ FeedFails

-----------------------------------------------------------------------------
(* outBuf is empty wherever something is put there, but between two halves. *)
TypeOK ==
    /\ procState \in {"COLLECT", "SCHEDULE", "PROCESS", "PLAY", "FEED"}
    /\ Len(inBuf) = (IF procState \in {"SCHEDULE", "PROCESS"} THEN 1 ELSE 0)
    /\ IF procState = "FEED" THEN Len(outBuf) \in 1 .. 2 ELSE outBuf = <<>>
    /\ innerProcState \in {0, 3, 4, 5, 6, 7, 8, 9}
    /\ innerProcState # 0 => procState = "PROCESS"
    /\ Len(cepBuff) = CEPST_BUFF_SIZE /\ Len(phsBuff) = PHASE_BUFF_SIZE
    /\ playing \in -1 .. PlayLen
    /\ playing >= 0 <=> procState = "PLAY" \/ (procState = "FEED" /\ retState = "PLAY")
    /\ status \in {"NONE", "RUNNING", "IDLE", "ATOMIC", "BUSY", "OUT_FULL", "ERROR"}
    /\ Len(out) =< Cap

Protocol == INSTANCE UnitProtocol WITH
                in <- Len(in), out <- Len(out), held <- Len(inBuf),
                ready <- Len(outBuf) + (IF playing > 0 THEN playing ELSE 0),
                MaxHeld <- 1, MaxReady <- PlayLen + 2
=============================================================================
