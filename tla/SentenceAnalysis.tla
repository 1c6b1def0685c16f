-------------------------- MODULE SentenceAnalysis --------------------------
(***************************************************************************)
(* The sentence analysis unit, picosa.c: saStep collects a phrase (items up *)
(* to a PUNC, or as many as it has room for and a forced PUNC), chooses     *)
(* parts of speech, turns words into phones, and passes the phrase on item  *)
(* by item, each word transduced by a series of finite state transducers.   *)
(* Its switch cases are the actions here; the step runs from Call until a   *)
(* case returns a status.                                                   *)
(*                                                                          *)
(* Of the content of an item the model keeps its length while it has to fit *)
(* in cbuf1, and which transducers missed it (skipped) when it leaves.      *)
(***************************************************************************)
EXTENDS Integers, Sequences

CONSTANTS Cap,          \* items the output buffer takes
          MaxHeadx,     \* PICOSA_MAXNR_HEADX
          CbufSize,     \* PICOSA_MAXSIZE_CBUF
          MaxItemSize,  \* PICOSA_MAXITEMSIZE
          NumFsts       \* sa->numFsts: word-level transducers of the voice

VARIABLES in,           \* items in cbIn
          out,          \* items in cbOut
          procState,
          inspaceok, needsmoreitems,
          headx,        \* the items from headxBottom on
          cbuf1Len,
          tmpbuf,       \* the item taken from headx: <<>> or <<item>>
          applied,      \* transducers that have been applied to phonBuf
          phonesTransduced, curFst,
          status        \* RUNNING, or what the last step returned

collecting == <<inspaceok, needsmoreitems, cbuf1Len>>
transducing == <<applied, phonesTransduced, curFst>>
vars == <<in, out, procState, collecting, headx, tmpbuf, transducing, status>>

Fsts == 0 .. NumFsts - 1

\* saInitialize(PICO_RESET_FULL)
Blank == /\ procState = "COLLECT" /\ inspaceok = TRUE /\ needsmoreitems = TRUE
         /\ headx = <<>> /\ cbuf1Len = 0 /\ tmpbuf = <<>>
         /\ applied = {} /\ phonesTransduced = FALSE /\ curFst = 0
         /\ status = "NONE"

\* saInitialize: the transducer to go on with is set in a full reset only.
Initialize(resetMode) ==
    /\ procState' = "COLLECT" /\ inspaceok' = TRUE /\ needsmoreitems' = TRUE
    /\ headx' = <<>> /\ cbuf1Len' = 0 /\ tmpbuf' = <<>>
    /\ applied' = {} /\ phonesTransduced' = FALSE
    /\ curFst' = IF resetMode = "SOFT" THEN curFst ELSE 0
    /\ status' = "NONE"

Call == /\ status # "RUNNING"
        /\ status' = "RUNNING"
        /\ UNCHANGED <<in, out, procState, collecting, headx, tmpbuf, transducing>>

At(state) == status = "RUNNING" /\ procState = state

-----------------------------------------------------------------------------
(* COLLECT.                                                                 *)

Collecting == At("COLLECT") /\ inspaceok /\ needsmoreitems

\* A flush command ends a phrase; phones given by the text are a word.
Converted(x) == CASE x.type = "FLUSH"   -> [x EXCEPT !.type = "PUNC"]
                  [] x.type = "PHONEME" -> [x EXCEPT !.type = "WORDPHON"]
                  [] OTHER              -> x

\* Mutant of SpaceFor: the slot for a forced PUNC is not kept.
SpaceForAllSlots(n, used) == n < MaxHeadx - 1 /\ CbufSize - used >= MaxItemSize

\* Another item has space in headx (a slot is kept for forcing) and in cbuf1.
SpaceFor(n, used) == n < MaxHeadx - 2 /\ CbufSize - used >= MaxItemSize

\* An item is added to the phrase.  Space is judged by the number and the
\* length of what was there before it.
CollectItem ==
    /\ Collecting /\ in # <<>>
    /\ in' = Tail(in)
    /\ UNCHANGED <<out, procState, tmpbuf, transducing>>
    /\ LET x == Converted(Head(in)) IN
       \/ /\ x.len =< CbufSize - cbuf1Len
          /\ headx' = Append(headx, x)
          /\ needsmoreitems' = (x.type # "PUNC")
          /\ inspaceok' = SpaceFor(Len(headx), cbuf1Len)
          /\ cbuf1Len' = cbuf1Len + x.len
          /\ UNCHANGED status
       \/ /\ x.len > CbufSize - cbuf1Len
          /\ status' = "ERROR"
          /\ UNCHANGED <<headx, collecting>>

CollectNone == /\ Collecting /\ in = <<>>
               /\ status' = "IDLE"
               /\ UNCHANGED <<in, out, procState, collecting, headx, tmpbuf, transducing>>

PhraseEnd == /\ At("COLLECT") /\ ~ needsmoreitems
             /\ procState' = "PROCESS_POSD"
             /\ status' = "ATOMIC"
             /\ UNCHANGED <<in, out, collecting, headx, tmpbuf, transducing>>

Forced == [n |-> 0, type |-> "PUNC", len |-> 0, skipped |-> {}]

\* Mutant of ForcedPhraseEnd: the phrase is processed without a PUNC.
ForcedWithoutPunc == /\ At("COLLECT") /\ needsmoreitems /\ ~ inspaceok
                     /\ needsmoreitems' = FALSE
                     /\ procState' = "PROCESS_POSD"
                     /\ status' = "ATOMIC"
                     /\ UNCHANGED <<in, out, inspaceok, headx, cbuf1Len, tmpbuf, transducing>>

ForcedPhraseEnd == /\ At("COLLECT") /\ needsmoreitems /\ ~ inspaceok
                   /\ headx' = Append(headx, Forced)
                   /\ needsmoreitems' = FALSE
                   /\ procState' = "PROCESS_POSD"
                   /\ status' = "ATOMIC"
                   /\ UNCHANGED <<in, out, inspaceok, cbuf1Len, tmpbuf, transducing>>

-----------------------------------------------------------------------------
(* PROCESS: parts of speech, then phones.                                   *)

\* saDisambPos changes no more than parts of speech and the choice among the
\* indices of a word.
DisambPos == /\ At("PROCESS_POSD")
             /\ procState' = "PROCESS_WPHO"
             /\ UNCHANGED <<in, out, collecting, headx, tmpbuf, transducing, status>>

\* A word becomes phones: by its letters, from the last to the first, each asked of
\* the tree, or by the lexicon's index that was chosen.  All other content is
\* copied.  What does not fit in cbuf2 is cut, so lengths do not matter any more.
saGraphemeToPhoneme(x) == [x EXCEPT !.type = "WORDPHON", !.len = 0]
saLexIndLookup(x) == [x EXCEPT !.type = "WORDPHON", !.len = 0]
saCopyItemContent1to2(x) == [x EXCEPT !.len = 0]

Phones(x) == CASE x.type = "WORDGRAPH" -> saGraphemeToPhoneme(x)
               [] x.type = "WORDINDEX" -> saLexIndLookup(x)
               [] OTHER -> saCopyItemContent1to2(x)

WordPhones == /\ At("PROCESS_WPHO")
              /\ headx' = [i \in DOMAIN headx |-> Phones(headx[i])]
              /\ cbuf1Len' = 0
              /\ procState' = "PROCESS_TRNS_PARSE"
              /\ UNCHANGED <<in, out, inspaceok, needsmoreitems, tmpbuf, transducing, status>>

-----------------------------------------------------------------------------
(* PROCESS_TRNS_PARSE, PROCESS_TRNS_FST: one item after the other.          *)

\* Mutant of PhraseDone: the flags for collecting keep what they were.
PhraseDoneOnly == /\ At("PROCESS_TRNS_PARSE") /\ headx = <<>>
                  /\ procState' = "COLLECT"
                  /\ status' = "BUSY"
                  /\ UNCHANGED <<in, out, collecting, headx, tmpbuf, transducing>>

PhraseDone == /\ At("PROCESS_TRNS_PARSE") /\ headx = <<>>
              /\ inspaceok' = TRUE /\ needsmoreitems' = TRUE
              /\ procState' = "COLLECT"
              /\ status' = "BUSY"
              /\ UNCHANGED <<in, out, cbuf1Len, headx, tmpbuf, transducing>>

\* A word with more phones than the transducers take goes on as it is.
ParseItem == /\ At("PROCESS_TRNS_PARSE") /\ headx # <<>>
             /\ tmpbuf' = <<Head(headx)>>
             /\ headx' = Tail(headx)
             /\ \/ /\ procState' = "FEED"
                   /\ UNCHANGED applied
                \/ /\ Head(headx).type = "WORDPHON"
                   /\ procState' = "PROCESS_TRNS_FST"
                   /\ applied' = {}
             /\ UNCHANGED <<in, out, collecting, phonesTransduced, curFst, status>>

Transduce == /\ At("PROCESS_TRNS_FST") /\ curFst < NumFsts
             /\ applied' = applied \union {curFst}
             /\ phonesTransduced' = TRUE
             /\ curFst' = curFst + 1
             /\ status' = "ATOMIC"
             /\ UNCHANGED <<in, out, procState, collecting, headx, tmpbuf>>

\* Mutant of Transduced: the next word starts where this one ended.
TransducedKeepsFst == /\ At("PROCESS_TRNS_FST") /\ curFst >= NumFsts
                      /\ phonesTransduced' = TRUE
                      /\ procState' = "FEED"
                      /\ UNCHANGED <<in, out, collecting, headx, tmpbuf, applied, curFst, status>>

\* All of them applied; without any the word has been syllabified instead.
Transduced == /\ At("PROCESS_TRNS_FST") /\ curFst >= NumFsts
              /\ curFst' = 0
              /\ phonesTransduced' = TRUE
              /\ procState' = "FEED"
              /\ UNCHANGED <<in, out, collecting, headx, tmpbuf, applied, status>>

-----------------------------------------------------------------------------
(* FEED: the phones of the item are replaced by the transduced ones once,   *)
(* then it is put, as often as it takes.                                    *)

Finished == IF phonesTransduced THEN [tmpbuf[1] EXCEPT !.skipped = Fsts \ applied]
                                ELSE tmpbuf[1]

\* Mutant of Feed: an item that was refused is given up.
FeedGivesUp ==
    /\ At("FEED")
    /\ phonesTransduced' = FALSE
    /\ tmpbuf' = <<>>
    /\ procState' = "PROCESS_TRNS_PARSE"
    /\ \/ /\ Len(out) < Cap
          /\ out' = Append(out, Finished)
          /\ UNCHANGED status
       \/ /\ Len(out) >= Cap
          /\ status' = "OUT_FULL"
          /\ UNCHANGED out
    /\ UNCHANGED <<in, collecting, headx, applied, curFst>>

Feed == /\ At("FEED")
        /\ phonesTransduced' = FALSE
        /\ UNCHANGED <<in, collecting, headx, applied, curFst>>
        /\ \/ /\ Len(out) < Cap
              /\ out' = Append(out, Finished)
              /\ tmpbuf' = <<>>
              /\ procState' = "PROCESS_TRNS_PARSE"
              /\ UNCHANGED status
           \/ /\ Len(out) >= Cap
              /\ tmpbuf' = <<Finished>>
              /\ status' = "OUT_FULL"
              /\ UNCHANGED <<out, procState>>

Pass == \/ CollectItem \/ CollectNone \/ PhraseEnd \/ ForcedPhraseEnd
        \/ DisambPos \/ WordPhones
        \/ PhraseDone \/ ParseItem \/ Transduce \/ Transduced
        \/ Feed

-----------------------------------------------------------------------------
(* The arrays of the unit never overflow: an item is only stored in a slot  *)
(* of headx that exists, the forced PUNC included, and only as far as cbuf1 *)
(* goes; and procState says what is at hand.                                *)
TypeOK ==
    /\ procState \in {"COLLECT", "PROCESS_POSD", "PROCESS_WPHO",
                      "PROCESS_TRNS_PARSE", "PROCESS_TRNS_FST", "FEED"}
    /\ inspaceok \in BOOLEAN /\ needsmoreitems \in BOOLEAN /\ phonesTransduced \in BOOLEAN
    /\ Len(headx) =< MaxHeadx
    /\ cbuf1Len \in 0 .. CbufSize
    /\ Len(tmpbuf) = (IF procState \in {"PROCESS_TRNS_FST", "FEED"} THEN 1 ELSE 0)
    /\ applied \subseteq Fsts
    /\ curFst \in 0 .. NumFsts
    /\ status \in {"NONE", "RUNNING", "IDLE", "ATOMIC", "BUSY", "OUT_FULL", "ERROR"}
    /\ Len(out) =< Cap

Protocol == INSTANCE UnitProtocol WITH
                in <- Len(in), out <- Len(out),
                held <- IF procState = "COLLECT" THEN Len(headx) ELSE 0,
                ready <- IF procState = "COLLECT" THEN 0 ELSE Len(headx) + Len(tmpbuf),
                MaxHeld <- MaxHeadx, MaxReady <- MaxHeadx
=============================================================================
