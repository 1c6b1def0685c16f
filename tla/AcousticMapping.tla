-------------------------- MODULE AcousticMapping --------------------------
(***************************************************************************)
(* The phonetic to acoustic mapping unit, picopam.c: it collects a sentence *)
(* of syllables, works out the features of each, forwards and backwards,    *)
(* and then puts the phones of each syllable, and after them the items that *)
(* were attached to it.  When a sentence does not fit it is ended by force. *)
(*                                                                          *)
(* A PHONE item has the phone, the number of its syllable's item and, in    *)
(* arg, the speed that holds for it; features, trees and densities are left *)
(* out (see PhoneFeatures).  Items are those of AccentuationPhrasing.       *)
(***************************************************************************)
EXTENDS Integers, Sequences
LOCAL INSTANCE SequencesExt

CONSTANTS Cap,           \* items the output buffer takes
          MaxSyll,       \* PICOPAM_MAX_SYLL_PER_SENT
          MaxPh,         \* PICOPAM_MAX_PH_PER_SENT
          MaxItems,      \* PICOPAM_MAX_ITEM_SIZE_PER_SENT
          OutBufSize,    \* PICOPAM_OUT_PAM_SIZE
          FrameItemSize  \* PICOPAM_FRAME_ITEM_SIZE

VARIABLES in, out,
          procState,
          inBuf, outBuf,             \* sequences of items
          syll,                      \* [n, phones, ITM, itm]: sSyllFeats, from the sentence's begin
          syll0,                     \* what the fields ITM and itm of syllable 0 keep without a sentence
          sSyllItems, sSyllItemOffs, \* items stored, by offset; offsets, from 1
          nLastAttachedItemId, nAttachedItemsSize,
          nCurrSyllable, nSyllPhoneme, nCurrAttachedItem,
          mod,                       \* [SPEED, PITCH]: dMod and pMod
          overrun,                   \* history: a sentence or an item did not fit
          status                     \* RUNNING, or what the last step returned

stored == <<sSyllItems, sSyllItemOffs, nLastAttachedItemId, nAttachedItemsSize>>
position == <<nCurrSyllable, nSyllPhoneme, nCurrAttachedItem>>
vars == <<in, out, procState, inBuf, outBuf, syll, syll0, stored, position, mod, overrun, status>>

NoItems == [ITM |-> 0, itm |-> 0]
Modifiers == [SPEED |-> 100, PITCH |-> 100]

Blank == /\ procState = "COLLECT" /\ inBuf = <<>> /\ outBuf = <<>>
         /\ syll = <<>> /\ syll0 = NoItems
         /\ sSyllItems = <<>> /\ sSyllItemOffs = <<>>
         /\ nLastAttachedItemId = 0 /\ nAttachedItemsSize = 0
         /\ nCurrSyllable = -1 /\ nSyllPhoneme = 0 /\ nCurrAttachedItem = 0
         /\ mod = Modifiers /\ overrun = FALSE /\ status = "NONE"

\* pam_initialize: a soft reset leaves the modifiers.
Initialize(mode) ==
    /\ procState' = "COLLECT" /\ inBuf' = <<>> /\ outBuf' = <<>>
    /\ syll' = <<>> /\ syll0' = NoItems
    /\ sSyllItems' = <<>> /\ sSyllItemOffs' = <<>>
    /\ nLastAttachedItemId' = 0 /\ nAttachedItemsSize' = 0
    /\ nCurrSyllable' = -1 /\ nSyllPhoneme' = 0 /\ nCurrAttachedItem' = 0
    /\ mod' = IF mode = "SOFT" THEN mod ELSE Modifiers
    /\ overrun' = FALSE /\ status' = "NONE"

Call == /\ status # "RUNNING"
        /\ status' = "RUNNING"
        /\ UNCHANGED <<in, out, procState, inBuf, outBuf, syll, syll0, stored, position, mod, overrun>>

At(state) == status = "RUNNING" /\ procState = state

IsBound(x, kinds) == x.type = "BOUND" /\ x.kind \in kinds
is_pam_command(x) == x.type = "CMD" /\ x.kind \in {"PITCH", "SPEED"}
is_pam_play_command(x) == x.type = "CMD" /\ x.kind = "PLAY" /\ x.sort = "TO_PAM"

-----------------------------------------------------------------------------
(* COLLECT and SCHEDULE: what to do with the next item.                     *)

CollectItem == /\ At("COLLECT") /\ in # <<>>
               /\ inBuf' = <<Head(in)>> /\ in' = Tail(in)
               /\ procState' = "SCHEDULE" /\ status' = "BUSY"
               /\ UNCHANGED <<out, outBuf, syll, syll0, stored, position, mod, overrun>>

CollectNone == /\ At("COLLECT") /\ in = <<>>
               /\ status' = "IDLE"
               /\ UNCHANGED <<in, out, procState, inBuf, outBuf, syll, syll0, stored, position, mod, overrun>>

\* The length of an item's content and, with its head, its size.
LenOf(x) == CASE x.arg < 0 -> Len(x.phones)
              [] x.arg >= 0 /\ x.type = "BOUND" -> 4
              [] OTHER -> 2
SizeOf(x) == 4 + LenOf(x)

nCurrPhoneme == FoldLeft(LAMBDA sum, s : sum + Len(s.phones), 0, syll)

\* Before a sentence all but a syllable, a sentence begin and its own commands
\* goes straight on.
pam_check_immediate(x) ==
    nCurrSyllable = -1 /\ x.type # "SYLLPHON" /\ ~ IsBound(x, {"SBEG"}) /\ ~ is_pam_command(x)

pamCheckResourceLimits(x) ==
    CASE x.type = "SYLLPHON" -> \/ nCurrSyllable >= MaxSyll - 2
                                \/ nCurrPhoneme + LenOf(x) >= MaxPh - 2
      [] x.type = "BOUND" -> /\ x.kind \in {"SBEG", "PHR1", "PHR2", "SEND", "TERM"}
                             /\ nCurrSyllable >= MaxSyll - 2 \/ nCurrPhoneme + 1 >= MaxPh - 2
      [] OTHER -> nAttachedItemsSize + LenOf(x) >= MaxItems - 1

pam_hastobe_queued(x) == x.type # "SYLLPHON" /\ ~ IsBound(x, {"PHR0", "PHR3"})

\* The item store with x, and the range of the items attached to the syllable
\* at hand, which was i; an item that does not fit is dropped.
pam_queue(x, i) ==
    IF nAttachedItemsSize + SizeOf(x) >= MaxItems - 1
    THEN [items |-> sSyllItems, offs |-> sSyllItemOffs, last |-> nLastAttachedItemId,
          size |-> nAttachedItemsSize, range |-> i]
    ELSE LET from == nAttachedItemsSize
             to == from + SizeOf(x)
             last == nLastAttachedItemId + 1
         IN  [items |-> [o \in (DOMAIN sSyllItems \ (from .. to - 1)) \union {from} |->
                            IF o = from THEN x ELSE sSyllItems[o]],
              offs |-> SubSeq(sSyllItemOffs, 1, last - 1) \o <<from>>
                       \o SubSeq(sSyllItemOffs, last + 1, Len(sSyllItemOffs)),
              last |-> last, size |-> to,
              range |-> [ITM |-> IF i.ITM = 0 THEN last ELSE i.ITM, itm |-> last]]

Queued(q) == /\ sSyllItems' = q.items /\ sSyllItemOffs' = q.offs
             /\ nLastAttachedItemId' = q.last /\ nAttachedItemsSize' = q.size
             /\ overrun' = (overrun \/ procState = "FORCE_TERM" \/ q.last = nLastAttachedItemId)

ItemsOf(k) == IF k = 0 THEN syll0 ELSE [ITM |-> syll[k + 1].ITM, itm |-> syll[k + 1].itm]

Scheduling == /\ At("SCHEDULE")
              /\ status' = "BUSY"
              /\ UNCHANGED <<in, out, outBuf, position, mod>>

\* Where the next item goes.
Destination(x) == CASE pam_check_immediate(x) -> "IMMEDIATE"
                    [] ~ pam_check_immediate(x) /\ pamCheckResourceLimits(x) -> "FORCE_TERM"
                    [] OTHER -> IF x.type \in {"SYLLPHON", "BOUND"} THEN "FORWARD" ELSE "QUEUE"

ScheduleNone == /\ Scheduling /\ inBuf = <<>>
                /\ procState' = "COLLECT"
                /\ UNCHANGED <<inBuf, syll, syll0, stored, overrun>>

ScheduleTo == /\ Scheduling /\ inBuf # <<>> /\ ~ is_pam_play_command(Head(inBuf))
              /\ Destination(Head(inBuf)) # "QUEUE"
              /\ procState' = Destination(Head(inBuf))
              /\ UNCHANGED <<inBuf, syll, syll0, stored, overrun>>

SchedulePlay == /\ Scheduling /\ inBuf # <<>> /\ is_pam_play_command(Head(inBuf))
                /\ inBuf' = <<>>
                /\ UNCHANGED <<procState, syll, syll0, stored, overrun>>

\* A command is attached to the syllable before it; without one, to the first.
ScheduleQueue ==
    /\ Scheduling /\ inBuf # <<>>
    /\ LET x == Head(inBuf)
           k == IF nCurrSyllable = -1 THEN 0 ELSE nCurrSyllable
           q == pam_queue(x, ItemsOf(k))
       IN  /\ ~ is_pam_play_command(x) /\ Destination(x) = "QUEUE"
           /\ Queued(q)
           /\ IF k = 0 THEN syll0' = q.range /\ UNCHANGED syll
              ELSE syll' = [syll EXCEPT ![k + 1].ITM = q.range.ITM, ![k + 1].itm = q.range.itm]
                   /\ UNCHANGED syll0
    /\ inBuf' = <<>>
    /\ UNCHANGED procState

Immediate == /\ At("IMMEDIATE")
             /\ outBuf' = outBuf \o inBuf /\ inBuf' = <<>>
             /\ procState' = "FEED" /\ status' = "BUSY"
             /\ UNCHANGED <<in, out, syll, syll0, stored, position, mod, overrun>>

-----------------------------------------------------------------------------
(* FORWARD, FORWARD_FORCE_TERM: one more syllable, and the sentence's end.  *)

\* pam_create_syllable: a silence, or the syllable itself; what is attached to
\* the first one stays.
Silence == [n |-> 0, phones |-> <<"_">>, ITM |-> 0, itm |-> 0]
Syllable(x) == [n |-> x.n, phones |-> x.phones, ITM |-> 0, itm |-> 0]

\* The sentence after pam_adapter_forward_step(x): a syllable without a sentence
\* begin gets a silence before it.
Forwarded(x) == CASE IsBound(x, {"SBEG"}) -> <<Silence>>
                  [] IsBound(x, {"PHR1", "PHR2", "SEND", "TERM"}) -> Append(syll, Silence)
                  [] x.type = "SYLLPHON" -> (IF syll = <<>> THEN <<Silence>> ELSE syll) \o <<Syllable(x)>>
                  [] OTHER -> syll
Known == {"SBEG", "PHR0", "PHR1", "PHR2", "PHR3", "SEND", "TERM"}

\* The sentence has s for its syllables, and x is attached to the last one.
Attach(s, x) ==
    LET k == Len(s) - 1
        q == pam_queue(x, IF k = 0 THEN syll0 ELSE [ITM |-> s[k + 1].ITM, itm |-> s[k + 1].itm])
    IN  /\ Queued(q)
        /\ IF k = 0 THEN syll' = s /\ syll0' = q.range
           ELSE syll' = [s EXCEPT ![k + 1].ITM = q.range.ITM, ![k + 1].itm = q.range.itm]
                /\ UNCHANGED syll0

\* pam_adapter_backward_step, as far as the position goes.
ToFirst == nCurrSyllable' = 0 /\ nSyllPhoneme' = 0 /\ UNCHANGED nCurrAttachedItem

\* A bound of no known strength (see astray) is stored and goes straight on, too.
Forward ==
    /\ At("FORWARD")
    /\ LET x == Head(inBuf) IN
         /\ IF pam_hastobe_queued(x) THEN Attach(Forwarded(x), x)
            ELSE syll' = Forwarded(x) /\ UNCHANGED <<syll0, stored, overrun>>
         /\ \/ /\ IsBound(x, {"SEND", "TERM"})
               /\ ToFirst
               /\ procState' = "PROCESS" /\ status' = "BUSY"
               /\ inBuf' = <<>>
            \/ /\ x.type = "BOUND" /\ x.kind \notin Known
               /\ procState' = "IMMEDIATE" /\ status' = "BUSY"
               /\ UNCHANGED <<inBuf, position>>
            \/ /\ x.type # "BOUND" \/ x.kind \in Known \ {"SEND", "TERM"}
               /\ nCurrSyllable' = Len(Forwarded(x)) - 1
               /\ nSyllPhoneme' = 0
               /\ procState' = "SCHEDULE" /\ status' = "ATOMIC"
               /\ inBuf' = <<>>
               /\ UNCHANGED nCurrAttachedItem
    /\ UNCHANGED <<in, out, outBuf, mod>>

Term == [n |-> 0, type |-> "BOUND", kind |-> "TERM", sort |-> "T", arg |-> -1, phones |-> <<>>]

\* pam_reset_processors and the item numbers, but not what is attached to the
\* first syllable.
Discard == /\ syll' = <<>> /\ nCurrSyllable' = -1 /\ nSyllPhoneme' = 0
           /\ nLastAttachedItemId' = 0 /\ nCurrAttachedItem' = 0 /\ nAttachedItemsSize' = 0
           /\ UNCHANGED <<syll0, sSyllItems, sSyllItemOffs>>

\* The item at hand is looked at again.  (There is a sentence: the commands that
\* SentencePhonology can put in a row fit without one.)
ForceTerm == /\ At("FORCE_TERM")
             /\ Attach(Append(syll, Silence), Term)
             /\ ToFirst
             /\ procState' = "PROCESS" /\ status' = "BUSY"
             /\ UNCHANGED <<in, out, inBuf, outBuf, mod>>

-----------------------------------------------------------------------------
(* PROCESS: the next phone, or the next item attached to the syllable.      *)

isItemToPut(x) == ~ (x.type = "CMD" /\ x.kind = "SPEED")
                  /\ ~ IsBound(x, {"SBEG", "PHR0", "PHR1", "PHR2", "PHR3"})

pamHasToProcess(s) == /\ s.cur \in 0 .. Len(syll) - 1
                      /\ s.ph < Len(syll[s.cur + 1].phones)
\* Mutant of pamHasToPop: the last item of a syllable is not put.
pamHasToPopBefore(s) == /\ s.cur \in 0 .. Len(syll) - 1
                        /\ ItemsOf(s.cur).ITM > 0
                        /\ s.att < ItemsOf(s.cur).itm
pamHasToPop(s) == /\ s.cur \in 0 .. Len(syll) - 1
                  /\ ItemsOf(s.cur).ITM > 0
                  /\ s.att =< ItemsOf(s.cur).itm

\* Mutant of pamUpdateProcess: only the first item of a syllable is put.
pamUpdateProcessOne(s) ==
    LET B3 == Len(syll[s.cur + 1].phones)
        i == ItemsOf(s.cur)
        done == IF s.ph = B3 - 1 THEN s.ph + 1 ELSE s.ph
    IN  CASE s.ph < B3 - 1 -> [s EXCEPT !.ph = @ + 1]
          [] s.ph >= B3 - 1 /\ i.ITM > 0 /\ s.att = 0 -> [s EXCEPT !.ph = done, !.att = i.ITM]
          [] OTHER -> IF s.cur < Len(syll) - 1 THEN [cur |-> s.cur + 1, ph |-> 0, att |-> 0]
                      ELSE [s EXCEPT !.cur = @ + 1, !.ph = 0]

\* The position after a phone or an item is done.
pamUpdateProcess(s) ==
    LET B3 == Len(syll[s.cur + 1].phones)
        i == ItemsOf(s.cur)
        done == IF s.ph = B3 - 1 THEN s.ph + 1 ELSE s.ph
    IN  CASE s.ph < B3 - 1 -> [s EXCEPT !.ph = @ + 1]
          [] s.ph >= B3 - 1 /\ i.ITM > 0 /\ s.att = 0 -> [s EXCEPT !.ph = done, !.att = i.ITM]
          [] s.ph >= B3 - 1 /\ i.ITM > 0 /\ s.att > 0 /\ s.att < i.itm -> [s EXCEPT !.ph = done, !.att = @ + 1]
          [] OTHER -> IF s.cur < Len(syll) - 1 THEN [cur |-> s.cur + 1, ph |-> 0, att |-> 0]
                      ELSE [s EXCEPT !.cur = @ + 1, !.ph = 0]

Here == [cur |-> nCurrSyllable, ph |-> nSyllPhoneme, att |-> nCurrAttachedItem]
MoveTo(s) == nCurrSyllable' = s.cur /\ nSyllPhoneme' = s.ph /\ nCurrAttachedItem' = s.att

\* The item with number k (from 1); where another was written over its begin
\* there is none.
Junk == [n |-> 0, type |-> "JUNK", kind |-> "", sort |-> "", arg |-> -1, phones |-> <<>>]
ItemNr(k) == LET o == sSyllItemOffs[k] IN IF o \in DOMAIN sSyllItems THEN sSyllItems[o] ELSE Junk

\* pamPopAttachedSy0: before the phones of the first syllable.
HasPre == /\ nCurrSyllable = 0
          /\ syll0.ITM > 0
          /\ nCurrAttachedItem = 0 \/ nCurrAttachedItem < syll0.itm
PreItem == ItemNr(nCurrAttachedItem + 1)
\* pamDoPreSyll returns PICOPAM_PRE_SYLL_ENDED for an item that is neither put
\* nor a command: it is passed over, and phones or items follow at once.
PassedOver == HasPre /\ ~ IsBound(PreItem, {"SBEG"}) /\ ~ isItemToPut(PreItem) /\ ~ is_pam_command(PreItem)

OutBytes == FoldLeft(LAMBDA sum, x : sum + SizeOf(x), 0, outBuf)
OutRoom == FrameItemSize + 4 =< OutBufSize - OutBytes

Processing == /\ At("PROCESS")
              /\ status' = "BUSY"
              /\ UNCHANGED <<in, out, inBuf, syll, syll0, stored, overrun>>

\* Nothing empties the buffer: the unit is busy for ever.
ProcessNoRoom == /\ Processing /\ ~ OutRoom
                 /\ UNCHANGED <<procState, outBuf, position, mod>>

pamDoCommand(x) == mod' = IF is_pam_command(x) THEN [mod EXCEPT ![x.kind] = x.arg] ELSE mod

\* A command among the items stays in PROCESS, and what is put for it waits.
ProcessPre == /\ Processing /\ OutRoom /\ HasPre /\ ~ PassedOver
              /\ LET x == PreItem IN
                   /\ outBuf' = IF isItemToPut(x) \/ IsBound(x, {"SBEG"}) THEN Append(outBuf, x) ELSE outBuf
                   /\ procState' = IF is_pam_command(x) THEN "PROCESS" ELSE "FEED"
                   /\ pamDoCommand(x)
              /\ nCurrAttachedItem' = nCurrAttachedItem + 1
              /\ UNCHANGED <<nCurrSyllable, nSyllPhoneme>>

AfterPre == IF PassedOver THEN [Here EXCEPT !.att = @ + 1] ELSE Here

ProcessPhone == /\ Processing /\ OutRoom /\ (HasPre => PassedOver)
                /\ pamHasToProcess(AfterPre)
                /\ LET s == syll[nCurrSyllable + 1] IN
                     outBuf' = Append(outBuf, [n |-> s.n, type |-> "PHONE", kind |-> "", sort |-> "",
                                               arg |-> mod.SPEED, phones |-> <<s.phones[nSyllPhoneme + 1]>>])
                /\ MoveTo(pamUpdateProcess(AfterPre))
                /\ procState' = "FEED"
                /\ UNCHANGED mod

\* (There is one: FEED looks for it, and the last item of a sentence is put.)
ProcessItem == /\ Processing /\ OutRoom /\ (HasPre => PassedOver)
               /\ ~ pamHasToProcess(AfterPre) /\ pamHasToPop(AfterPre)
               /\ LET x == ItemNr(AfterPre.att) IN
                    /\ IF isItemToPut(x) THEN outBuf' = Append(outBuf, x) /\ procState' = "FEED"
                       ELSE UNCHANGED <<outBuf, procState>>
                    /\ pamDoCommand(x)
               /\ MoveTo(pamUpdateProcess(AfterPre))

Feed == /\ At("FEED")
        /\ UNCHANGED <<in, inBuf, mod, overrun>>
        /\ \/ /\ Len(out) < Cap
              /\ out' = Append(out, Head(outBuf)) /\ outBuf' = Tail(outBuf)
              /\ status' = "BUSY"
              /\ CASE Len(outBuf) > 1 -> UNCHANGED <<procState, syll, syll0, stored, position>>
                   [] Len(outBuf) = 1 /\ (pamHasToProcess(Here) \/ pamHasToPop(Here)) ->
                        procState' = "PROCESS" /\ UNCHANGED <<syll, syll0, stored, position>>
                   [] OTHER -> procState' = "SCHEDULE" /\ Discard
           \/ /\ Len(out) >= Cap
              /\ status' = "OUT_FULL"
              /\ UNCHANGED <<out, outBuf, procState, syll, syll0, stored, position>>

Pass == \/ CollectItem \/ CollectNone
        \/ ScheduleNone \/ ScheduleTo \/ SchedulePlay \/ ScheduleQueue
        \/ Immediate \/ Forward \/ ForceTerm
        \/ ProcessNoRoom \/ ProcessPre \/ ProcessPhone \/ ProcessItem \/ Feed

-----------------------------------------------------------------------------
(* Neither syllables nor items overrun their stores, and procState says     *)
(* what is at hand.                                                         *)
TypeOK ==
    /\ procState \in {"COLLECT", "SCHEDULE", "IMMEDIATE", "FORWARD", "FORCE_TERM", "PROCESS", "FEED"}
    /\ Len(syll) =< MaxSyll /\ nCurrPhoneme =< MaxPh
    /\ nAttachedItemsSize \in 0 .. MaxItems
    /\ nLastAttachedItemId =< Len(sSyllItemOffs)
    /\ procState \in {"COLLECT", "SCHEDULE", "IMMEDIATE", "FORWARD", "FORCE_TERM"} => nCurrSyllable = Len(syll) - 1
    /\ procState \in {"IMMEDIATE", "FORWARD", "FORCE_TERM"} => inBuf # <<>>
    /\ procState = "PROCESS" => nCurrSyllable \in 0 .. Len(syll) - 1
    /\ procState = "FEED" => outBuf # <<>> /\ OutBytes =< OutBufSize
    /\ \A k \in 0 .. Len(syll) - 1 : ItemsOf(k).itm =< Len(sSyllItemOffs)
    /\ status \in {"NONE", "RUNNING", "IDLE", "BUSY", "ATOMIC", "OUT_FULL"}
    /\ Len(out) =< Cap

\* What is still to be put for the sentence: phones, then items, of each syllable.
PutOf(from, to) == Len(SelectSeq([i \in 1 .. to - from + 1 |-> ItemNr(from + i - 1)], isItemToPut))
Left(k) == LET s == syll[k + 1]
               i == ItemsOf(k)
               phones == IF k = nCurrSyllable THEN Len(s.phones) - nSyllPhoneme ELSE Len(s.phones)
               begun == k = nCurrSyllable /\ nSyllPhoneme >= Len(s.phones)
           IN  CASE k = 0 -> phones + Len(SelectSeq([j \in 1 .. syll0.itm - nCurrAttachedItem |->
                                                       ItemNr(nCurrAttachedItem + j)],
                                                    LAMBDA x : isItemToPut(x) \/ IsBound(x, {"SBEG"})))
                 [] k > 0 /\ i.ITM = 0 -> phones
                 [] OTHER -> phones + PutOf(IF begun THEN nCurrAttachedItem ELSE i.ITM, i.itm)

\* What the unit holds is the item at hand and the sentence so far.
Putting == procState \in {"PROCESS", "FEED"} /\ nCurrSyllable >= 0
Protocol == INSTANCE UnitProtocol WITH
                in <- Len(in), out <- Len(out),
                held <- Len(inBuf) + (IF Putting \/ syll = <<>> THEN 0 ELSE 1),
                ready <- Len(outBuf) + (IF ~ Putting THEN 0 ELSE
                                        FoldLeft(+, 0, [i \in 1 .. Len(syll) - nCurrSyllable |->
                                                          Left(nCurrSyllable + i - 1)])),
                MaxHeld <- 2, MaxReady <- MaxPh + MaxItems
=============================================================================
