-------------------------- MODULE CepstralSmoothing --------------------------
(***************************************************************************)
(* The cepstral smoothing unit, picocep.c: it collects the frames of a      *)
(* sentence, that is for each the index of a distribution, smooths their    *)
(* coefficients all at once at the sentence's end, and then puts one item   *)
(* for each frame.  Other items that come between two phones wait in headx  *)
(* and go out between the same two frames.  Each case of cepStep is one     *)
(* pass; what smoothing computes is in Smoothing.                           *)
(*                                                                          *)
(* An item is its number n, its type, its length, and for a phone how many  *)
(* frames each of its states has and whether they are voiced; a frame is    *)
(* [n, f, voiced], one frame of phone n.                                    *)
(***************************************************************************)
EXTENDS Integers, Sequences, SequencesExt

CONSTANTS Cap,           \* items the output buffer takes
          MaxWinLen,     \* PICOCEP_MAXWINLEN
          CepHeadx,      \* PICOCEP_MAXNR_HEADX
          CepCbuf        \* PICOCEP_MAXSIZE_CBUF

VARIABLES in, out,
          procState, feedFollowState, inIgnoreState, sentenceEnd,
          inBuf,         \* the item in inBuf from inReadPos on: <<>> or <<item>>
          headx,         \* [item, frame], from the first slot on
          headxBottom,   \* of them are out already
          cbufWritePos,
          indices,       \* indicesLFZ, indicesMGC and phoneId: one array of frames
          indexReadPos, indexWritePos, activeEndPos,
          smooth,        \* outF0, outXCep and outVoiced: the frames they are of
          outBuf,        \* <<>> or <<item>>
          forced,        \* history: headx or cbuf has run over
          status         \* RUNNING, or what the last step returned

store == <<headx, headxBottom, cbufWritePos>>
window == <<indices, indexReadPos, indexWritePos, activeEndPos, smooth>>
vars == <<in, out, procState, feedFollowState, inIgnoreState, sentenceEnd,
          inBuf, store, window, outBuf, forced, status>>

Frames == [n : Nat, f : Nat, voiced : BOOLEAN]

\* What is in the arrays before anything is written there.
NoFrame == [n |-> 0, f |-> 0, voiced |-> FALSE]

Blank == /\ procState = "COLLECT" /\ feedFollowState = "COLLECT"
         /\ inIgnoreState = FALSE /\ sentenceEnd = FALSE
         /\ inBuf = <<>> /\ headx = <<>> /\ headxBottom = 0 /\ cbufWritePos = 0
         /\ indices = [i \in 1 .. MaxWinLen |-> NoFrame]
         /\ indexReadPos = 0 /\ indexWritePos = 0 /\ activeEndPos = MaxWinLen
         /\ smooth = <<>> /\ outBuf = <<>>
         /\ forced = FALSE /\ status = "NONE"

\* cepInitialize, after either reset.  The arrays keep their contents; smooth
\* and feedFollowState are set again before they are used.
Initialize == /\ procState' = "COLLECT" /\ feedFollowState' = "COLLECT"
              /\ inIgnoreState' = FALSE /\ sentenceEnd' = FALSE
              /\ inBuf' = <<>> /\ headx' = <<>> /\ headxBottom' = 0 /\ cbufWritePos' = 0
              /\ indexReadPos' = 0 /\ indexWritePos' = 0 /\ activeEndPos' = MaxWinLen
              /\ smooth' = <<>> /\ outBuf' = <<>>
              /\ forced' = FALSE /\ status' = "NONE"
              /\ UNCHANGED indices

Call == /\ status # "RUNNING"
        /\ status' = "RUNNING"
        /\ UNCHANGED <<in, out, procState, feedFollowState, inIgnoreState, sentenceEnd,
                       inBuf, store, window, outBuf, forced>>

At(state) == status = "RUNNING" /\ procState = state

-----------------------------------------------------------------------------
Collect == /\ At("COLLECT")
           /\ \/ /\ in # <<>>
                 /\ inBuf' = <<Head(in)>> /\ in' = Tail(in)
                 /\ procState' = "PARSE" /\ status' = "BUSY"
              \/ /\ in = <<>>
                 /\ status' = "IDLE"
                 /\ UNCHANGED <<in, inBuf, procState>>
           /\ UNCHANGED <<out, feedFollowState, inIgnoreState, sentenceEnd,
                          store, window, outBuf, forced>>

(* PARSE: one item, or back to COLLECT for one.                             *)
Parsing == /\ At("PARSE")
           /\ status' = "BUSY"
           /\ UNCHANGED <<in, out>>

ParseNone == /\ Parsing /\ inBuf = <<>>
             /\ procState' = "COLLECT"
             /\ UNCHANGED <<feedFollowState, inIgnoreState, sentenceEnd, inBuf,
                            store, window, outBuf, forced>>

Item == inBuf[1]
EndsSentence(x) == x.type \in {"SEND", "TERM"}
Collected == indexWritePos > 0

\* Consumed while ignored, up to the end of what is to be ignored.
ParseIgnored == /\ Parsing /\ inBuf # <<>> /\ inIgnoreState
                /\ inIgnoreState' = (Item.type # "IGNSIG_END")
                /\ inBuf' = <<>>
                /\ UNCHANGED <<procState, feedFollowState, sentenceEnd,
                               store, window, outBuf, forced>>

ToSmooth == procState' = "SMOOTH" /\ UNCHANGED <<inBuf, feedFollowState, inIgnoreState, store, outBuf,
                                                 indices, indexReadPos, indexWritePos, smooth>>

\* Mutant of ParseSentenceEnd: also when nothing is collected.
ParseSentenceEndAgain == /\ Parsing /\ inBuf # <<>> /\ ~ inIgnoreState
                         /\ EndsSentence(Item)
                         /\ activeEndPos' = indexWritePos
                         /\ sentenceEnd' = TRUE
                         /\ ToSmooth
                         /\ UNCHANGED forced

\* The item that ends the sentence is looked at again after its frames are out.
ParseSentenceEnd == /\ Parsing /\ inBuf # <<>> /\ ~ inIgnoreState
                    /\ EndsSentence(Item) /\ Collected
                    /\ activeEndPos' = indexWritePos
                    /\ sentenceEnd' = TRUE
                    /\ ToSmooth
                    /\ UNCHANGED forced

\* treat_phone: the frames of one state after the other as far as they fit;
\* with the buffer full the rest of the phone is dropped.
FramesOf(x) == FlattenSeq([s \in DOMAIN x.frames |-> [f \in 1 .. x.frames[s] |-> [n |-> x.n, f |-> 10 * s + f, voiced |-> x.voiced]]])

UpTo(s, k) == SubSeq(s, 1, IF k < Len(s) THEN k ELSE Len(s))

\* Mutant of ParsePhone: frames are written without a look at the end.
ParsePhoneUnbounded ==
    /\ Parsing /\ inBuf # <<>> /\ ~ inIgnoreState
    /\ Item.type = "PHONE"
    /\ indices' = SubSeq(indices, 1, indexWritePos) \o FramesOf(Item)
                  \o SubSeq(indices, indexWritePos + Len(FramesOf(Item)) + 1, MaxWinLen)
    /\ indexWritePos' = indexWritePos + Len(FramesOf(Item))
    /\ inBuf' = <<>>
    /\ UNCHANGED <<procState, feedFollowState, inIgnoreState, sentenceEnd, store,
                   indexReadPos, activeEndPos, smooth, outBuf, forced>>

ParsePhone ==
    /\ Parsing /\ inBuf # <<>> /\ ~ inIgnoreState
    /\ Item.type = "PHONE"
    /\ LET fr == UpTo(FramesOf(Item), MaxWinLen - indexWritePos) IN
         /\ indices' = [i \in 1 .. MaxWinLen |->
                          IF i \in indexWritePos + 1 .. indexWritePos + Len(fr)
                          THEN fr[i - indexWritePos] ELSE indices[i]]
         /\ indexWritePos' = indexWritePos + Len(fr)
    /\ inBuf' = <<>>
    /\ UNCHANGED <<procState, feedFollowState, inIgnoreState, sentenceEnd, store,
                   indexReadPos, activeEndPos, smooth, outBuf, forced>>

\* Any other item.  What tells whether frames are to be ignored is not passed on.
ParsingOther == /\ Parsing /\ inBuf # <<>> /\ ~ inIgnoreState
                /\ Item.type # "PHONE" /\ ~ (EndsSentence(Item) /\ Collected)
                /\ UNCHANGED <<sentenceEnd, indices, indexReadPos, indexWritePos, smooth>>
Forwarding == Item.type \notin {"IGNSIG_START", "IGNSIG_END"}

ParseConsumed == /\ ParsingOther /\ ~ Forwarding
                 /\ inIgnoreState' = (Item.type = "IGNSIG_START")
                 /\ inBuf' = <<>>
                 /\ UNCHANGED <<procState, feedFollowState, store, activeEndPos, outBuf, forced>>

\* No frames before it that wait: it goes out at once.
ParseForward == /\ ParsingOther /\ Forwarding /\ ~ Collected
                /\ outBuf' = <<Item>> /\ inBuf' = <<>>
                /\ feedFollowState' = "PARSE" /\ procState' = "FEED"
                /\ UNCHANGED <<inIgnoreState, store, activeEndPos, forced>>

Room == Len(headx) < CepHeadx /\ cbufWritePos + Item.len < CepCbuf

\* Mutant of ParseStore: an item is put back by one frame.
ParseStoreEarly == /\ ParsingOther /\ Forwarding /\ Collected /\ Room
                   /\ headx' = Append(headx, [item |-> Item, frame |-> indexWritePos - 1])
                   /\ cbufWritePos' = cbufWritePos + Item.len
                   /\ inBuf' = <<>>
                   /\ UNCHANGED <<procState, feedFollowState, inIgnoreState, headxBottom, activeEndPos,
                                  outBuf, forced>>

ParseStore == /\ ParsingOther /\ Forwarding /\ Collected /\ Room
              /\ headx' = Append(headx, [item |-> Item, frame |-> indexWritePos])
              /\ cbufWritePos' = cbufWritePos + Item.len
              /\ inBuf' = <<>>
              /\ UNCHANGED <<procState, feedFollowState, inIgnoreState, headxBottom, activeEndPos,
                             outBuf, forced>>

\* No room: smoothing without a sentence end; activeEndPos stays what it was.
ParseForced == /\ ParsingOther /\ Forwarding /\ Collected /\ ~ Room
               /\ ToSmooth
               /\ forced' = TRUE
               /\ UNCHANGED activeEndPos

Parse == \/ ParseNone \/ ParseIgnored \/ ParseSentenceEnd \/ ParsePhone
         \/ ParseConsumed \/ ParseForward \/ ParseStore \/ ParseForced

-----------------------------------------------------------------------------
Smooth == /\ At("SMOOTH")
          /\ smooth' = SubSeq(indices, 1, activeEndPos)
          /\ indexReadPos' = 0
          /\ procState' = "FRAME" /\ status' = "BUSY"
          /\ UNCHANGED <<in, out, feedFollowState, inIgnoreState, sentenceEnd, inBuf,
                         store, indices, indexWritePos, activeEndPos, outBuf, forced>>

Framing == /\ At("FRAME")
           /\ status' = "BUSY"
           /\ UNCHANGED <<in, out, inIgnoreState, inBuf, indices, smooth, forced>>

\* The next item in headx is due.
Due == headxBottom < Len(headx) /\ headx[headxBottom + 1].frame =< indexReadPos

FrameItem == /\ Framing /\ Due
             /\ outBuf' = <<headx[headxBottom + 1].item>>
             /\ headxBottom' = headxBottom + 1
             /\ feedFollowState' = "FRAME" /\ procState' = "FEED"
             /\ UNCHANGED <<sentenceEnd, headx, cbufWritePos,
                            indexReadPos, indexWritePos, activeEndPos>>

\* One FRAME_PAR: the coefficients, and the phone and index they belong to.
FramePar == /\ Framing /\ ~ Due /\ indexReadPos < activeEndPos
            /\ outBuf' = <<[type |-> "FRAME_PAR", cep |-> smooth[indexReadPos + 1],
                            phone |-> indices[indexReadPos + 1]]>>
            /\ indexReadPos' = indexReadPos + 1
            /\ feedFollowState' = "FRAME" /\ procState' = "FEED"
            /\ UNCHANGED <<sentenceEnd, store, indexWritePos, activeEndPos>>

FramesDone == /\ Framing /\ ~ Due /\ indexReadPos >= activeEndPos
              /\ procState' = "PARSE"
              /\ \/ /\ sentenceEnd
                    /\ sentenceEnd' = FALSE
                    /\ indexReadPos' = 0 /\ indexWritePos' = 0 /\ activeEndPos' = MaxWinLen
                    /\ headx' = <<>> /\ headxBottom' = 0 /\ cbufWritePos' = 0
                 \/ /\ ~ sentenceEnd
                    /\ UNCHANGED <<sentenceEnd, store, indexReadPos, indexWritePos, activeEndPos>>
              /\ UNCHANGED <<feedFollowState, outBuf>>

Feed == /\ At("FEED")
        /\ \/ /\ Len(out) < Cap
              /\ out' = out \o outBuf /\ outBuf' = <<>>
              /\ procState' = feedFollowState /\ status' = "BUSY"
           \/ /\ Len(out) >= Cap
              /\ status' = "OUT_FULL"
              /\ UNCHANGED <<out, outBuf, procState>>
        /\ UNCHANGED <<in, feedFollowState, inIgnoreState, sentenceEnd, inBuf,
                       store, window, forced>>

Pass == Collect \/ Parse \/ Smooth \/ FrameItem \/ FramePar \/ FramesDone \/ Feed

-----------------------------------------------------------------------------
TypeOK ==
    /\ procState \in {"COLLECT", "PARSE", "SMOOTH", "FRAME", "FEED"}
    /\ Len(inBuf) =< 1 /\ (procState = "COLLECT" => inBuf = <<>>)
    /\ Len(outBuf) = (IF procState = "FEED" THEN 1 ELSE 0)
    /\ headxBottom \in 0 .. Len(headx) /\ Len(headx) =< CepHeadx
    /\ cbufWritePos \in 0 .. CepCbuf
    /\ Len(indices) = MaxWinLen
    /\ {indexReadPos, indexWritePos, activeEndPos} \subseteq 0 .. MaxWinLen
    /\ status \in {"NONE", "RUNNING", "IDLE", "BUSY", "OUT_FULL"}
    /\ Len(out) =< Cap

Producing == procState \in {"SMOOTH", "FRAME"} \/ (procState = "FEED" /\ feedFollowState = "FRAME")

\* Between phones and frames: one thing is held for all that is collected.
Protocol == INSTANCE UnitProtocol WITH
                in <- Len(in), out <- Len(out),
                held <- Len(inBuf) + (IF Collected /\ ~ Producing THEN 1 ELSE 0),
                ready <- Len(outBuf) + (IF Producing
                            THEN activeEndPos + Len(headx) - headxBottom
                                 - (IF procState = "SMOOTH" THEN 0 ELSE indexReadPos) ELSE 0),
                MaxHeld <- 2, MaxReady <- MaxWinLen + CepHeadx
=============================================================================
