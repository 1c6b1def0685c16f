------------------------------ MODULE BackEnd ------------------------------
(***************************************************************************)
(* Cepstral smoothing and signal generation at work on one text: as in      *)
(* FrontEnd, in any order the steps of the two units, the unit before them  *)
(* that puts items, the engine that takes the samples, and resets.          *)
(***************************************************************************)
EXTENDS Integers, Sequences
LOCAL INSTANCE SequencesExt
LOCAL INSTANCE FiniteSets

CONSTANTS Items,        \* what the unit before makes
          Texts,        \* sequences of items it may put before the first reset
          NextTexts,    \* and after it
          Cap, MaxWinLen, CepHeadx, CepCbuf,     \* see CepstralSmoothing
          Hop, VPeriod, UPeriod, PlayLen,        \* see SignalGeneration
          MaxSaved,     \* bound: items in a saved file
          MaxGot,       \* bound: items taken, more than any text makes
          MaxResets     \* bound: resets that no error asks for

ASSUME BackEndAssumption ==
    /\ {Cap, MaxWinLen, CepHeadx, CepCbuf, Hop, VPeriod, UPeriod} \subseteq Nat \ {0}
    /\ {PlayLen, MaxSaved, MaxGot, MaxResets} \subseteq Nat
    /\ Texts \union NextTexts \subseteq Seq(Items)

VARIABLES pamOut, cepOut, sigOut,                     \* the buffers
          cepProcState, feedFollowState, inIgnoreState, sentenceEnd, cepInBuf,
          headx, headxBottom, cbufWritePos,
          indices, indexReadPos, indexWritePos, activeEndPos, smooth, cepOutBuf, forced, cepStatus,
          sigProcState, retState, innerProcState, sigInBuf, sigOutBuf,
          playing, outSwitch, saved,
          cepBuff, phsBuff, nAvailable, voiced, prevVoiced,
          voicTrans, locV, locU, nextPeak, imp, impResp, sigStatus,
          text,         \* the items put and to be put since the last reset
          sent,         \* how many of them are put
          got,          \* history: items taken since then,
          before,       \* and of them and those put, frames from before the last SAVE
          resetMode,    \* of the last reset (FULL at first)
          resets        \* bound counter: resets so far

CEP == INSTANCE CepstralSmoothing WITH
          in <- pamOut, out <- cepOut, procState <- cepProcState,
          inBuf <- cepInBuf, outBuf <- cepOutBuf, status <- cepStatus
SIG == INSTANCE SignalGeneration WITH
          in <- cepOut, out <- sigOut, procState <- sigProcState,
          inBuf <- sigInBuf, outBuf <- sigOutBuf, status <- sigStatus

\* No unit before makes items of parameters or samples; a phone has its number
\* in the text, from 1 on, and a number of frames for each of its states.
ASSUME ItemsAssumption ==
    \A x \in Items : /\ x.type \notin {"FRAME_PAR", "FRAME"}
                     /\ x.len \in Nat
                     /\ x.type = "PHONE" => /\ x.n \in Nat \ {0} /\ x.voiced \in BOOLEAN
                                           /\ x.frames \in Seq(Nat)

history == <<text, sent, got, resetMode, resets>>
vars == <<CEP!vars, SIG!vars, before, history>>

Init == /\ pamOut = <<>> /\ cepOut = <<>> /\ sigOut = <<>>
        /\ CEP!Blank /\ SIG!Blank
        /\ text \in Texts /\ sent = 0 /\ got = <<>> /\ before = 0 /\ resetMode = "FULL" /\ resets = 0

cepState == <<cepProcState, feedFollowState, inIgnoreState, sentenceEnd, cepInBuf,
              headx, headxBottom, cbufWritePos,
              indices, indexReadPos, indexWritePos, activeEndPos, smooth, cepOutBuf, forced, cepStatus>>
sigState == <<sigProcState, retState, innerProcState, sigInBuf, sigOutBuf, playing, outSwitch, saved,
              cepBuff, phsBuff, nAvailable, voiced, prevVoiced,
              voicTrans, locV, locU, nextPeak, imp, impResp, sigStatus, before>>

\* Between two steps; after one that failed the engine is reset.
AtRest == "RUNNING" \notin {cepStatus, sigStatus}
Operable == AtRest /\ sigStatus # "ERROR"

Put == /\ Operable
       /\ sent < Len(text) /\ Len(pamOut) < Cap
       /\ pamOut' = Append(pamOut, text[sent + 1])
       /\ sent' = sent + 1
       /\ UNCHANGED <<cepOut, sigOut, cepState, sigState, text, got, resetMode, resets>>

\* MaxGot bounds what is taken once the store has run over in cepStep, which
\* then puts the same frames for ever.
Take == /\ Operable /\ sigOut # <<>> /\ Len(got) < MaxGot
        /\ got' = Append(got, Head(sigOut))
        /\ sigOut' = Tail(sigOut)
        /\ UNCHANGED <<pamOut, cepOut, cepState, sigState, text, sent, resetMode, resets>>

CepStep == Operable /\ CEP!Call /\ UNCHANGED <<sigOut, sigState, history>>
CepPass == CEP!Pass /\ UNCHANGED <<sigOut, sigState, history>>

\* A frame that finds the buffer full is written to the file once more at each
\* try: MaxSaved bounds the tries.
SigStep == /\ Operable /\ (Len(sigOut) < Cap \/ Len(saved) < MaxSaved)
           /\ SIG!Call /\ UNCHANGED <<pamOut, cepState, before, history>>

\* The frames among items.
IsFrame(x) == x.type = "FRAME"
WithFrame(s, x) == IF IsFrame(x) THEN Append(s, x) ELSE s
FramesIn(items) == FoldLeft(WithFrame, <<>>, items)

SigPass == /\ SIG!Pass /\ UNCHANGED <<pamOut, cepState, history>>
           /\ before' = IF ~ outSwitch /\ outSwitch' THEN Len(FramesIn(got \o sigOut)) ELSE before

Reset(mode) == /\ AtRest /\ (resets < MaxResets \/ sigStatus = "ERROR")
               /\ resets' = IF resets < MaxResets THEN resets + 1 ELSE resets
               /\ CEP!Initialize /\ SIG!Initialize(mode)
               /\ pamOut' = <<>> /\ cepOut' = <<>> /\ sigOut' = <<>>
               /\ text' \in NextTexts /\ sent' = 0 /\ got' = <<>> /\ before' = 0 /\ resetMode' = mode

Next == \/ Put \/ Take
        \/ CepStep \/ CepPass \/ SigStep \/ SigPass
        \/ \E mode \in {"SOFT", "FULL"} : Reset(mode)

Spec == Init /\ [][Next]_vars

\* The control comes back to each unit, and its consumer to the output.
FairSpec == /\ Spec
            /\ WF_vars(CepPass) /\ WF_vars(SigPass)
            /\ WF_vars(Put) /\ SF_vars(CepStep) /\ SF_vars(SigStep) /\ SF_vars(Take)

-----------------------------------------------------------------------------
TypeOK == CEP!TypeOK /\ SIG!TypeOK

(* What smoothing should make of a text: the items in their order, a phone  *)
(* replaced by its frames as far as the sentence's window goes, without     *)
(* what is to be ignored; s.frames counts the frames of the sentence.       *)
Par(fr) == [type |-> "FRAME_PAR", cep |-> fr, phone |-> fr]
SmoothedOne(s, x) ==
    IF s.ignore THEN [s EXCEPT !.ignore = x.type # "IGNSIG_END"]
    ELSE CASE x.type = "IGNSIG_START" -> [s EXCEPT !.ignore = TRUE]
           [] x.type = "IGNSIG_END" -> s
           [] x.type = "PHONE" ->
                LET fr == CEP!UpTo(CEP!FramesOf(x), MaxWinLen - s.frames)
                IN  [s EXCEPT !.out = @ \o [i \in DOMAIN fr |-> Par(fr[i])], !.frames = @ + Len(fr)]
           [] OTHER ->
                [s EXCEPT !.out = Append(@, x), !.frames = IF CEP!EndsSentence(x) THEN 0 ELSE @]
SmoothedAll(items) == FoldLeft(SmoothedOne, [out |-> <<>>, frames |-> 0, ignore |-> FALSE], items)
Smoothed(items) == SmoothedAll(items).out

(* And the signal: two items for a frame, two frames late (the first one    *)
(* thrice at the start), without the commands.                              *)
Late(frames) == frames[IF Len(frames) > 2 THEN Len(frames) - 2 ELSE 1]
SignalOne(s, x) ==
    CASE x.type = "FRAME_PAR" -> LET frames == Append(s.frames, x.cep)
                                 IN  [out |-> s.out \o SIG!Samples(Late(frames)), frames |-> frames]
      [] x.type \in {"PLAY", "SAVE", "UNSAVE", "MODIFIER"} -> s
      [] OTHER -> [s EXCEPT !.out = Append(@, x)]
SignalAll(items) == FoldLeft(SignalOne, [out |-> <<>>, frames |-> <<>>], items)
Signal(items) == SignalAll(items).out

\* Without the silence of sound files.
Spoken(x) == ~ (IsFrame(x) /\ x.of.n = 0)
WithSpoken(s, x) == IF Spoken(x) THEN Append(s, x) ELSE s
SpokenIn(items) == FoldLeft(WithSpoken, <<>>, items)

(* No frame of a text and no other item is lost, doubled or moved against   *)
(* the others on its way through the two units, however full the buffers,   *)
(* as long as the store for items has not run over in cepStep and writing   *)
(* to a file has not failed: what is heard is the signal of the text, so    *)
(* far.  Not after a soft reset, when frames of the text before come first. *)
SpeechAsSent ==
    resetMode = "FULL" /\ ~ forced /\ sigStatus # "ERROR" =>
        IsPrefix(SpokenIn(got \o sigOut), Signal(Smoothed(SubSeq(text, 1, sent))))

(* td_psola2 adds up at each excitation point a response of the point's own *)
(* voicing: the new one or, where points from before the last change of     *)
(* voicing are left, the one saved then; none are left from the stretch     *)
(* before that.  The points of one voicing lie in the window a period       *)
(* apart, without a gap or a point set twice from frame to frame.  (A soft  *)
(* reset between two steps can lose the change of voicing; then points of   *)
(* two stretches meet.)                                                     *)
Apart(loc, period) == /\ \A i \in DOMAIN loc : loc[i] \in 0 .. 4 * Hop - 1
                      /\ \A i \in 1 .. Len(loc) - 1 : loc[i + 1] - loc[i] = period
PointsFit ==
    resetMode = "FULL" =>
        /\ Apart(locV, VPeriod) /\ Apart(locU, UPeriod)
        /\ innerProcState = 8 =>
              /\ locV # <<>> => SIG!ResponseV.voiced
              /\ locU # <<>> => ~ SIG!ResponseU.voiced
              /\ voiced # prevVoiced =>
                    \A i \in DOMAIN (IF voiced THEN locV ELSE locU) :
                        (IF voiced THEN locV ELSE locU)[i] >= 2 * Hop

(* A saved file has the frames that were put since it was opened, all of    *)
(* them and in their order, each as often in a row as it was tried to put:  *)
(* one that finds the buffer full is written at each try.  Saves says so of *)
(* the frames heard, when the tries are those that repeat the one before.   *)
Saves(heard, tries) ==
    LET n == Len(saved)
    IN  /\ n - Cardinality(tries) = Len(heard) - before
        /\ \A i \in 1 .. n :
              saved[i] = heard[Len(heard) - Cardinality({j \in i + 1 .. n : j \notin tries})]
SavedAsHeard ==
    outSwitch =>
        \E heard \in {FramesIn(got \o sigOut), FramesIn(got \o sigOut \o CEP!UpTo(sigOutBuf, 1))} :
        \E tries \in SUBSET (2 .. Len(saved)) : Saves(heard, tries)

(* picocep.c: "buffer full, smooth and output whatever we got": also when   *)
(* its store for items runs over, what is put is the text so far.           *)
OutputWhatWeGot ==
    resetMode = "FULL" /\ sigStatus # "ERROR" =>
        IsPrefix(SpokenIn(got \o sigOut), Signal(Smoothed(SubSeq(text, 1, sent))))

(* Each unit does in every step what Control assumes of it; smoothing as    *)
(* long as its store for items has not run over, signal generation but when *)
(* it discards items because writing to a file fails.                       *)
SmoothingKeeps == CEP!Protocol!Next \/ forced'
SignalKeeps == SIG!Protocol!Next \/ sigStatus' = "ERROR"
UnitsKeepProtocol == /\ CEP!Protocol!Init /\ [][SmoothingKeeps]_(CEP!Protocol!vars)
                     /\ SIG!Protocol!Init /\ [][SignalKeeps]_(SIG!Protocol!vars)

(* What ends a sentence comes out, and with it all frames before it: again  *)
(* and again none is on its way, unless the store for items has run over or *)
(* writing to a file has failed.                                            *)
SentencesComeOut ==
    []<>(\/ forced \/ sigStatus = "ERROR"
         \/ \A x \in ToSet(pamOut \o cepInBuf \o cepOutBuf \o cepOut \o sigInBuf \o sigOutBuf) :
                ~ CEP!EndsSentence(x))
=============================================================================
