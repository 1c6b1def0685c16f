--------------------------- MODULE FrontEndProofs ---------------------------
(***************************************************************************)
(* Proofs about FrontEnd, for every number of slots, size of buffers and    *)
(* number of transducers: the arrays of the sentence analysis do not        *)
(* overflow, until a soft reset every word goes through all transducers,    *)
(* no item is lost or changes its place and phrases end where they should,  *)
(* and both units keep the protocol that Control assumes.                   *)
(***************************************************************************)
EXTENDS FrontEnd, SequenceTheorems, TLAPS

-----------------------------------------------------------------------------
(* The inductive invariant.                                                 *)

Types == {k.type : k \in Kinds} \union {"PUNC", "WORDINDEX", "WORDPHON"}
Item == [n : Nat, type : Types, len : Nat, skipped : SUBSET SA!Fsts]

\* What has not been transduced yet has missed no transducer.
Fresh == [n : Nat, type : Types, len : Nat, skipped : {{}}]

\* What leaves has missed none either, while there is no soft reset.
Leaving == IF resetMode = "FULL" THEN Fresh ELSE Item

QueuesOK == /\ prOut \in Seq(Fresh) /\ waInBuf \in Seq(Fresh) /\ waOutBuf \in Seq(Fresh)
            /\ waOut \in Seq(Fresh) /\ headx \in Seq(Fresh) /\ sent \in Seq(Fresh)

LeavingOK == /\ tmpbuf \in Seq(Leaving) /\ saOut \in Seq(Leaving) /\ got \in Seq(Leaving)
             /\ resetMode \in {"SOFT", "FULL"}

\* While a phrase is collected there is a slot for the PUNC, and one more for
\* the item that inspaceok lets in.
SlotsOK == saProcState = "COLLECT" =>
              Len(headx) =< IF inspaceok /\ needsmoreitems THEN MaxHeadx - 2 ELSE MaxHeadx - 1

\* The transducers applied are those before curFst, which is 0 between words.
FstOK == /\ phonesTransduced => saProcState \in {"PROCESS_TRNS_FST", "FEED"}
         /\ resetMode = "FULL" =>
              /\ saProcState # "PROCESS_TRNS_FST" => curFst = 0
              /\ saProcState = "PROCESS_TRNS_FST" => applied = 0 .. curFst - 1
              /\ saProcState = "FEED" /\ phonesTransduced => applied = SA!Fsts

IInv == TypeOK /\ QueuesOK /\ LeavingOK /\ SlotsOK /\ FstOK

-----------------------------------------------------------------------------
(* Sequences and items.                                                     *)

\* Appending to a sequence.
LEMMA AppendOK ==
    ASSUME NEW S, NEW s \in Seq(S), NEW x \in S
    PROVE  /\ Append(s, x) \in Seq(S)
           /\ Len(Append(s, x)) = Len(s) + 1
  OBVIOUS

\* Taking from a sequence.
LEMMA TakeOK ==
    ASSUME NEW S, NEW s \in Seq(S), s # <<>>
    PROVE  /\ Head(s) \in S
           /\ Tail(s) \in Seq(S)
           /\ Len(Tail(s)) = Len(s) - 1
           /\ Len(s) \in Nat \ {0}
  OBVIOUS

\* Joining two sequences.
LEMMA JoinOK ==
    ASSUME NEW S, NEW s \in Seq(S), NEW t \in Seq(S)
    PROVE  /\ s \o t \in Seq(S)
           /\ Len(s \o t) = Len(s) + Len(t)
           /\ Len(s) \in Nat
  OBVIOUS

\* A sequence of one element.
LEMMA OneOK ==
    ASSUME NEW S, NEW x \in S
    PROVE  <<x>> \in Seq(S) /\ Len(<<x>>) = 1
  OBVIOUS

\* The only element of a sequence of length one.
LEMMA OnlyOK ==
    ASSUME NEW S, NEW s \in Seq(S), Len(s) = 1
    PROVE  s[1] \in S
  OBVIOUS

\* No item that leaves is worse than one that has missed a transducer.
LEMMA FreshLeaves == \A x \in Fresh : x \in Item /\ x \in Leaving
  BY DEF Fresh, Item, Leaving

\* Changes of type and length keep an item fresh.
LEMMA StaysFresh ==
    ASSUME NEW x \in Fresh, NEW t \in Types, NEW l \in Nat
    PROVE  /\ [x EXCEPT !.type = t] \in Fresh
           /\ [x EXCEPT !.type = t, !.len = l] \in Fresh
           /\ x.type \in Types /\ x.len \in Nat
  BY DEF Fresh

-----------------------------------------------------------------------------
(* The actions outside the two units.                                       *)

LEMMA InitOK == Init => IInv
  <1> SUFFICES ASSUME Init PROVE IInv
    OBVIOUS
  <1> USE DEF Init, WA!Blank, SA!Blank
  <1>1. TypeOK
    <2>1. WA!TypeOK
      BY FrontEndAssumption DEF WA!TypeOK
    <2>2. 0 =< MaxHeadx /\ 0 \in 0 .. CbufSize /\ 0 \in 0 .. NumFsts /\ 0 =< Cap
      BY FrontEndAssumption
    <2>3. SA!TypeOK
      BY <2>2 DEF SA!TypeOK
    <2> QED BY <2>1, <2>3 DEF TypeOK
  <1>2. QueuesOK /\ LeavingOK
    BY DEF QueuesOK, LeavingOK
  <1>3. SlotsOK /\ FstOK
    BY FrontEndAssumption DEF SlotsOK, FstOK
  <1> QED BY <1>1, <1>2, <1>3 DEF IInv

LEMMA PutOK == ASSUME IInv, Put PROVE IInv'
  <1> USE DEF IInv
  <1>0. PICK k \in Kinds :
          LET x == [n |-> Len(sent) + 1, type |-> k.type, len |-> k.len, skipped |-> {}]
          IN  sent' = Append(sent, x) /\ prOut' = Append(prOut, x)
    BY DEF Put
  <1>1. UNCHANGED <<waOut, saOut, waState, saState, got, resetMode>>
    BY DEF Put
  <1> DEFINE x == [n |-> Len(sent) + 1, type |-> k.type, len |-> k.len, skipped |-> {}]
  <1>2. Len(sent) \in Nat
    BY DEF QueuesOK
  <1>3. k.type \in Types /\ k.len \in Nat
    BY FrontEndAssumption DEF Types
  <1>33. x \in Fresh
    BY <1>2, <1>3 DEF Fresh
  <1>4. sent' \in Seq(Fresh) /\ prOut' \in Seq(Fresh)
    BY <1>0, <1>33, AppendOK, Zenon DEF QueuesOK
  <1>5. TypeOK'
    BY <1>1 DEF TypeOK, WA!TypeOK, SA!TypeOK, waState, saState
  <1>6. QueuesOK'
    BY <1>1, <1>4 DEF QueuesOK, waState, saState
  <1>7. LeavingOK' /\ SlotsOK' /\ FstOK'
    BY <1>1 DEF LeavingOK, Leaving, SlotsOK, FstOK, saState
  <1> QED BY <1>5, <1>6, <1>7

LEMMA TakeStepOK == ASSUME IInv, Take PROVE IInv'
  <1> USE DEF IInv
  <1>1. UNCHANGED <<prOut, waOut, waState, saState, sent, resetMode>>
    BY DEF Take
  <1>2. /\ Head(saOut) \in Leaving
        /\ Tail(saOut) \in Seq(Leaving)
        /\ Len(Tail(saOut)) = Len(saOut) - 1 /\ Len(saOut) \in Nat
    BY TakeOK DEF Take, LeavingOK
  <1>3. got' \in Seq(Leaving) /\ saOut' \in Seq(Leaving)
    BY <1>2, AppendOK, Zenon DEF Take, LeavingOK
  <1>4. TypeOK'
    BY <1>1, <1>2, FrontEndAssumption DEF Take, TypeOK, WA!TypeOK, SA!TypeOK, waState, saState
  <1>5. QueuesOK' /\ SlotsOK' /\ FstOK'
    BY <1>1 DEF QueuesOK, SlotsOK, FstOK, waState, saState
  <1>6. LeavingOK'
    BY <1>1, <1>3 DEF LeavingOK, Leaving, saState
  <1> QED BY <1>4, <1>5, <1>6

LEMMA ResetOK == ASSUME IInv, NEW mode \in {"SOFT", "FULL"}, Reset(mode) PROVE IInv'
  <1> USE DEF IInv, Reset, WA!Initialize, SA!Initialize
  <1>1. TypeOK'
    <2>1. WA!TypeOK'
      BY FrontEndAssumption DEF WA!TypeOK
    <2>2. 0 =< MaxHeadx /\ 0 \in 0 .. CbufSize /\ 0 \in 0 .. NumFsts /\ 0 =< Cap
      BY FrontEndAssumption
    <2>3. curFst' \in 0 .. NumFsts
      BY <2>2 DEF TypeOK, SA!TypeOK
    <2>4. SA!TypeOK'
      BY <2>2, <2>3 DEF SA!TypeOK
    <2> QED BY <2>1, <2>4 DEF TypeOK
  <1>2. QueuesOK' /\ LeavingOK'
    BY DEF QueuesOK, LeavingOK
  <1>3. SlotsOK' /\ FstOK'
    BY FrontEndAssumption DEF SlotsOK, FstOK
  <1> QED BY <1>1, <1>2, <1>3

-----------------------------------------------------------------------------
(* Word analysis: it works on items that are fresh, and they stay so.       *)

WordPart == /\ WA!TypeOK
            /\ prOut \in Seq(Fresh) /\ waInBuf \in Seq(Fresh)
            /\ waOutBuf \in Seq(Fresh) /\ waOut \in Seq(Fresh)

\* What a step of word analysis leaves alone.
LEMMA WordOK ==
    ASSUME IInv, UNCHANGED <<saOut, saState, history>>, WordPart'
    PROVE  IInv'
  <1> USE DEF IInv, WordPart
  <1>1. TypeOK'
    BY DEF TypeOK, SA!TypeOK, saState
  <1>2. QueuesOK'
    BY DEF QueuesOK, saState, history
  <1>3. LeavingOK' /\ SlotsOK' /\ FstOK'
    BY DEF LeavingOK, Leaving, SlotsOK, FstOK, saState, history
  <1> QED BY <1>1, <1>2, <1>3

LEMMA WordCallOK == WordPart /\ WA!Call => WordPart'
  BY DEF WordPart, WA!TypeOK, WA!Call

LEMMA CollectOK == ASSUME WordPart, WA!Collect PROVE WordPart'
  <1> USE DEF WordPart, WA!TypeOK
  <1>1. CASE prOut # <<>> /\ waInBuf' = <<Head(prOut)>> /\ prOut' = Tail(prOut)
             /\ waProcState' = "PROCESS" /\ UNCHANGED <<waOut, waOutBuf, waStatus>>
    <2>1. Head(prOut) \in Fresh /\ Tail(prOut) \in Seq(Fresh)
      BY <1>1, TakeOK
    <2>2. waInBuf' \in Seq(Fresh) /\ Len(waInBuf') = 1
      BY <2>1, <1>1, OneOK
    <2> QED BY <2>1, <2>2, <1>1 DEF WA!Collect, WA!At
  <1>2. CASE UNCHANGED <<prOut, waOut, waProcState, waInBuf, waOutBuf>> /\ waStatus' = "IDLE"
    BY <1>2
  <1> QED BY <1>1, <1>2 DEF WA!Collect

LEMMA ProcessOK == ASSUME WordPart, WA!Process PROVE WordPart'
  <1> USE DEF WordPart, WA!TypeOK
  <1>1. waInBuf[1] \in Fresh
    BY OnlyOK DEF WA!Process, WA!At
  <1>2. CASE waProcState' = "COLLECT" /\ waStatus' = "BUSY" /\ UNCHANGED waOutBuf
    BY <1>2 DEF WA!Process, WA!At
  <1>3. ASSUME NEW y \in WA!Analysed(waInBuf[1]),
               waOutBuf' = <<y>>, waProcState' = "FEED", UNCHANGED waStatus
        PROVE  WordPart'
    <2>1. "WORDINDEX" \in Types
      BY DEF Types
    <2>2. y \in Fresh
      BY <1>1, <2>1, StaysFresh DEF WA!Analysed
    <2>3. waOutBuf' \in Seq(Fresh) /\ Len(waOutBuf') = 1
      BY <1>3, <2>2, OneOK
    <2> QED BY <1>3, <2>3 DEF WA!Process, WA!At
  <1> QED BY <1>2, <1>3, Zenon DEF WA!Process

LEMMA WordFeedOK == ASSUME WordPart, WA!Feed PROVE WordPart'
  <1> USE DEF WordPart, WA!TypeOK
  <1>1. CASE Len(waOut) < Cap /\ waOut' = waOut \o waOutBuf /\ waOutBuf' = <<>>
             /\ waProcState' = "COLLECT" /\ waStatus' = "BUSY"
    <2>1. /\ waOut' \in Seq(Fresh) /\ Len(waOut') = Len(waOut) + Len(waOutBuf)
          /\ Len(waOut) \in Nat
      BY <1>1, JoinOK, Zenon
    <2>2. Len(waOut') =< Cap
      BY <2>1, <1>1, FrontEndAssumption DEF WA!Feed, WA!At
    <2> QED BY <2>1, <2>2, <1>1 DEF WA!Feed, WA!At
  <1>2. CASE waStatus' = "OUT_FULL" /\ UNCHANGED <<waOut, waProcState, waOutBuf>>
    BY <1>2 DEF WA!Feed
  <1> QED BY <1>1, <1>2 DEF WA!Feed

LEMMA WordStepsOK == ASSUME IInv, WordStep \/ WordPass PROVE IInv'
  <1>1. WordPart
    BY DEF IInv, TypeOK, QueuesOK, WordPart
  <1>2. UNCHANGED <<saOut, saState, history>> /\ (WA!Call \/ WA!Pass)
    BY DEF WordStep, WordPass
  <1>3. WordPart'
    BY <1>1, <1>2, WordCallOK, CollectOK, ProcessOK, WordFeedOK, Zenon DEF WA!Pass
  <1> QED BY <1>2, <1>3, WordOK, Zenon

-----------------------------------------------------------------------------
(* Sentence analysis.                                                       *)

SentencePart == /\ SA!TypeOK
                /\ waOut \in Seq(Fresh) /\ Len(waOut) =< Cap
                /\ headx \in Seq(Fresh)
                /\ tmpbuf \in Seq(Leaving) /\ saOut \in Seq(Leaving)
                /\ SlotsOK /\ FstOK

\* What a step of sentence analysis leaves alone.
LEMMA SentenceOK ==
    ASSUME IInv, UNCHANGED <<prOut, waState, history>>, SentencePart'
    PROVE  IInv'
  <1> USE DEF IInv, SentencePart
  <1>1. TypeOK'
    BY DEF TypeOK, WA!TypeOK, waState
  <1>2. QueuesOK'
    BY DEF QueuesOK, waState, history
  <1>3. LeavingOK' /\ SlotsOK' /\ FstOK'
    BY DEF LeavingOK, Leaving, history
  <1> QED BY <1>1, <1>2, <1>3

LEMMA SentenceCallOK == ASSUME SentencePart, SA!Call, UNCHANGED resetMode PROVE SentencePart'
  BY DEF SentencePart, SA!TypeOK, SlotsOK, FstOK, Leaving, SA!Call, SA!collecting, SA!transducing

LEMMA CollectItemOK ==
    ASSUME SentencePart, SA!CollectItem, UNCHANGED resetMode
    PROVE  SentencePart'
  <1> DEFINE x == SA!Converted(Head(waOut))
  <1> USE DEF SentencePart
  <1>1. /\ waOut' = Tail(waOut) /\ waOut # <<>>
        /\ UNCHANGED <<saOut, saProcState, tmpbuf, applied, phonesTransduced, curFst>>
        /\ saProcState = "COLLECT" /\ inspaceok /\ needsmoreitems
    BY DEF SA!CollectItem, SA!transducing, SA!Collecting, SA!At
  <1>2. Head(waOut) \in Fresh /\ waOut' \in Seq(Fresh) /\ Len(waOut') =< Cap
    BY <1>1, TakeOK, FrontEndAssumption
  <1>3. x \in Fresh /\ x.len \in Nat
    BY <1>2, StaysFresh DEF SA!Converted, Types
  <1>4. Len(headx) \in Nat /\ Len(headx) =< MaxHeadx - 2
    BY <1>1 DEF SlotsOK
  <1>5. CASE /\ x.len =< CbufSize - cbuf1Len
             /\ headx' = Append(headx, x)
             /\ needsmoreitems' = (x.type # "PUNC")
             /\ inspaceok' = SA!SpaceFor(Len(headx), cbuf1Len)
             /\ cbuf1Len' = cbuf1Len + x.len
             /\ UNCHANGED saStatus
    <2> HIDE DEF x
    <2>1. headx' \in Seq(Fresh) /\ Len(headx') = Len(headx) + 1
      BY <1>3, <1>5, AppendOK
    <2>2. cbuf1Len' \in 0 .. CbufSize
      <3>1. cbuf1Len \in 0 .. CbufSize /\ CbufSize \in Nat
        BY FrontEndAssumption DEF SA!TypeOK
      <3>2. x.len \in Nat /\ x.len =< CbufSize - cbuf1Len /\ cbuf1Len' = cbuf1Len + x.len
        BY <1>3, <1>5
      <3> DEFINE l == x.len
      <3> HIDE DEF l
      <3>3. l \in Nat /\ l =< CbufSize - cbuf1Len /\ cbuf1Len' = cbuf1Len + l
        BY <3>2 DEF l
      <3> QED BY <3>1, <3>3
    <2>3. inspaceok' => Len(headx') =< MaxHeadx - 2
      <3>1. inspaceok' => Len(headx) < MaxHeadx - 2
        BY <1>5, Zenon DEF SA!SpaceFor
      <3> QED BY <3>1, <1>4, <2>1, FrontEndAssumption
    <2>4. Len(headx') =< MaxHeadx - 1
      BY <1>4, <2>1, FrontEndAssumption
    <2>5. inspaceok' \in BOOLEAN /\ needsmoreitems' \in BOOLEAN
      BY <1>5 DEF SA!SpaceFor
    <2>6. SA!TypeOK'
      BY <1>1, <1>5, <2>2, <2>4, <2>5, FrontEndAssumption DEF SA!TypeOK
    <2>7. SlotsOK' /\ FstOK'
      BY <1>1, <2>3, <2>4 DEF SlotsOK, FstOK
    <2> QED BY <1>1, <1>2, <2>1, <2>6, <2>7 DEF Leaving
  <1>6. CASE saStatus' = "ERROR" /\ UNCHANGED <<headx, inspaceok, needsmoreitems, cbuf1Len>>
    BY <1>1, <1>2, <1>6 DEF SA!TypeOK, SlotsOK, FstOK, Leaving
  <1> QED BY <1>5, <1>6 DEF SA!CollectItem, SA!collecting

LEMMA CollectEndsOK ==
    ASSUME SentencePart, SA!CollectNone \/ SA!PhraseEnd, UNCHANGED resetMode
    PROVE  SentencePart'
  BY DEF SentencePart, SA!TypeOK, SlotsOK, FstOK, Leaving, SA!CollectNone, SA!PhraseEnd,
         SA!Collecting, SA!At, SA!collecting, SA!transducing

LEMMA ForcedOK ==
    ASSUME SentencePart, SA!ForcedPhraseEnd, UNCHANGED resetMode
    PROVE  SentencePart'
  <1> USE DEF SentencePart, SA!ForcedPhraseEnd, SA!At
  <1>1. SA!Forced \in Fresh
    BY DEF SA!Forced, Fresh, Types
  <1>2. headx' \in Seq(Fresh) /\ Len(headx') = Len(headx) + 1
    BY <1>1, AppendOK
  <1>3. Len(headx') =< MaxHeadx
    BY <1>2, FrontEndAssumption DEF SlotsOK
  <1>4. SA!TypeOK'
    BY <1>3 DEF SA!TypeOK, SA!transducing
  <1>5. SlotsOK' /\ FstOK'
    BY DEF SlotsOK, FstOK, SA!transducing
  <1> QED BY <1>2, <1>4, <1>5 DEF Leaving

LEMMA DisambPosOK ==
    ASSUME SentencePart, SA!DisambPos, UNCHANGED resetMode
    PROVE  SentencePart'
  BY DEF SentencePart, SA!TypeOK, SlotsOK, FstOK, Leaving, SA!DisambPos, SA!At,
         SA!collecting, SA!transducing

LEMMA WordPhonesOK ==
    ASSUME SentencePart, SA!WordPhones, UNCHANGED resetMode
    PROVE  SentencePart'
  <1> USE DEF SentencePart, SA!WordPhones, SA!At
  <1>1. \A y \in Fresh : SA!Phones(y) \in Fresh
    BY DEF SA!Phones, SA!saGraphemeToPhoneme, SA!saLexIndLookup, SA!saCopyItemContent1to2, Fresh, Types
  <1>2. headx' \in Seq(Fresh) /\ Len(headx') = Len(headx)
    <2>1. \A i \in 1 .. Len(headx) : SA!Phones(headx[i]) \in Fresh
      BY <1>1
    <2>2. headx' = [i \in 1 .. Len(headx) |-> SA!Phones(headx[i])] /\ Len(headx) \in Nat
      OBVIOUS
    <2> HIDE DEF SA!WordPhones
    <2> QED BY <2>1, <2>2
  <1>3. SA!TypeOK'
    BY <1>2, FrontEndAssumption DEF SA!TypeOK, SA!transducing
  <1>4. SlotsOK' /\ FstOK'
    BY DEF SlotsOK, FstOK, SA!transducing
  <1> QED BY <1>2, <1>3, <1>4 DEF Leaving

LEMMA PhraseDoneOK ==
    ASSUME SentencePart, SA!PhraseDone, UNCHANGED resetMode
    PROVE  SentencePart'
  <1> USE DEF SentencePart, SA!PhraseDone, SA!At
  <1>1. SA!TypeOK'
    BY DEF SA!TypeOK, SA!transducing
  <1>2. SlotsOK' /\ FstOK'
    BY FrontEndAssumption DEF SlotsOK, FstOK, SA!transducing
  <1> QED BY <1>1, <1>2 DEF Leaving

LEMMA ParseItemOK ==
    ASSUME SentencePart, SA!ParseItem, UNCHANGED resetMode
    PROVE  SentencePart'
  <1> USE DEF SentencePart, SA!ParseItem, SA!At
  <1>1. Head(headx) \in Leaving /\ headx' \in Seq(Fresh) /\ Len(headx') =< MaxHeadx
    BY TakeOK, FreshLeaves, FrontEndAssumption DEF SA!TypeOK
  <1>2. tmpbuf' \in Seq(Leaving) /\ Len(tmpbuf') = 1
    BY <1>1, OneOK
  <1>3. saProcState' \in {"PROCESS_TRNS_FST", "FEED"} /\ applied' \subseteq SA!Fsts
    BY DEF SA!TypeOK
  <1>4. SA!TypeOK'
    BY <1>1, <1>2, <1>3 DEF SA!TypeOK, SA!collecting
  <1>5. SlotsOK' /\ FstOK'
    <2>1. ~ phonesTransduced' /\ UNCHANGED <<curFst, resetMode>>
      BY DEF FstOK
    <2>2. resetMode = "FULL" => curFst = 0
      BY DEF FstOK
    <2>3. saProcState' = "PROCESS_TRNS_FST" => applied' = {}
      OBVIOUS
    <2>4. {} = 0 .. 0 - 1
      OBVIOUS
    <2> QED BY <1>3, <2>1, <2>2, <2>3, <2>4 DEF SlotsOK, FstOK
  <1> QED BY <1>1, <1>2, <1>4, <1>5 DEF Leaving

LEMMA TransduceOK ==
    ASSUME SentencePart, SA!Transduce, UNCHANGED resetMode
    PROVE  SentencePart'
  <1> USE DEF SentencePart, SA!Transduce, SA!At
  <1>1. curFst \in SA!Fsts /\ curFst + 1 \in 0 .. NumFsts
    BY FrontEndAssumption DEF SA!Fsts, SA!TypeOK
  <1>2. SA!TypeOK'
    BY <1>1 DEF SA!TypeOK, SA!collecting
  <1>3. applied = 0 .. curFst - 1 => applied' = 0 .. curFst' - 1
    BY <1>1 DEF SA!Fsts
  <1>4. SlotsOK' /\ FstOK'
    BY <1>3 DEF SlotsOK, FstOK
  <1> QED BY <1>2, <1>4 DEF Leaving

LEMMA TransducedOK ==
    ASSUME SentencePart, SA!Transduced, UNCHANGED resetMode
    PROVE  SentencePart'
  <1> USE DEF SentencePart, SA!Transduced, SA!At
  <1>1. curFst = NumFsts /\ 0 \in 0 .. NumFsts
    BY FrontEndAssumption DEF SA!TypeOK
  <1>2. SA!TypeOK'
    BY <1>1 DEF SA!TypeOK, SA!collecting
  <1>3. SlotsOK' /\ FstOK'
    BY <1>1 DEF SlotsOK, FstOK, SA!Fsts
  <1> QED BY <1>2, <1>3 DEF Leaving

LEMMA FeedOK ==
    ASSUME SentencePart, SA!Feed, UNCHANGED resetMode
    PROVE  SentencePart'
  <1> USE DEF SentencePart, SA!Feed, SA!At
  <1>1. tmpbuf[1] \in Leaving
    BY OnlyOK DEF SA!TypeOK
  <1>2. SA!Finished \in Leaving
    <2>1. CASE resetMode = "FULL"
      BY <1>1, <2>1 DEF Leaving, Fresh, SA!Finished, FstOK
    <2>2. CASE resetMode # "FULL"
      BY <1>1, <2>2 DEF Leaving, Item, SA!Finished
    <2> QED BY <2>1, <2>2
  <1>3. CASE Len(saOut) < Cap /\ saOut' = Append(saOut, SA!Finished) /\ tmpbuf' = <<>>
             /\ saProcState' = "PROCESS_TRNS_PARSE" /\ UNCHANGED saStatus
    <2>1. saOut' \in Seq(Leaving) /\ Len(saOut') =< Cap
      BY <1>2, <1>3, AppendOK, FrontEndAssumption
    <2>2. SA!TypeOK' /\ SlotsOK' /\ FstOK'
      BY <1>3, <2>1 DEF SA!TypeOK, SA!collecting, SlotsOK, FstOK
    <2> QED BY <1>3, <2>1, <2>2 DEF Leaving
  <1>4. CASE tmpbuf' = <<SA!Finished>> /\ saStatus' = "OUT_FULL" /\ UNCHANGED <<saOut, saProcState>>
    <2>1. tmpbuf' \in Seq(Leaving) /\ Len(tmpbuf') = 1
      BY <1>2, <1>4, OneOK
    <2>2. SA!TypeOK' /\ SlotsOK' /\ FstOK'
      BY <1>4, <2>1 DEF SA!TypeOK, SA!collecting, SlotsOK, FstOK
    <2> QED BY <1>4, <2>1, <2>2 DEF Leaving
  <1> QED BY <1>3, <1>4

LEMMA SentenceStepsOK == ASSUME IInv, SentenceStep \/ SentencePass PROVE IInv'
  <1>1. SentencePart
    BY DEF IInv, TypeOK, WA!TypeOK, QueuesOK, LeavingOK, SentencePart
  <1>2. UNCHANGED <<prOut, waState, history>> /\ (SA!Call \/ SA!Pass) /\ UNCHANGED resetMode
    BY DEF SentenceStep, SentencePass, history
  <1>3. SentencePart'
    BY <1>1, <1>2, SentenceCallOK, CollectItemOK, CollectEndsOK, ForcedOK, DisambPosOK,
       WordPhonesOK, PhraseDoneOK, ParseItemOK, TransduceOK, TransducedOK, FeedOK, Zenon
       DEF SA!Pass
  <1> QED BY <1>2, <1>3, SentenceOK, Zenon

-----------------------------------------------------------------------------
(* The theorems.                                                            *)

\* The invariant holds in every reachable state.
THEOREM FrontEndInvariant == Spec => []IInv
  <1>1. IInv /\ [Next]_vars => IInv'
    <2> SUFFICES ASSUME IInv, [Next]_vars PROVE IInv'
      OBVIOUS
    <2>1. CASE Next
      BY <2>1, PutOK, TakeStepOK, WordStepsOK, SentenceStepsOK, ResetOK, Zenon DEF Next
    <2>2. CASE UNCHANGED vars
      BY <2>2 DEF vars, WA!vars, SA!vars, SA!collecting, SA!transducing, history, IInv, TypeOK,
                  WA!TypeOK, SA!TypeOK, QueuesOK, LeavingOK, Leaving, SlotsOK, FstOK
    <2> QED BY <2>1, <2>2
  <1> QED BY InitOK, <1>1, PTL DEF Spec

\* The unit stores no item beyond headx or cbuf1, the forced phrase end
\* included, whatever their sizes and whatever the text (saStep).
THEOREM FrontEndTypeOK == Spec => []TypeOK
  <1>1. IInv => TypeOK
    BY DEF IInv
  <1> QED BY FrontEndInvariant, <1>1, PTL

\* Until a soft reset every word that leaves has gone through all transducers
\* of the voice, however many there are (saStep, PROCESS_TRNS_FST).
THEOREM TransducedUntilSoftReset == Spec => []AllTransducedUntilSoftReset
  <1>1. IInv => AllTransducedUntilSoftReset
    <2> SUFFICES ASSUME IInv, resetMode = "FULL",
                        NEW i \in DOMAIN (got \o saOut)
                 PROVE  (got \o saOut)[i].skipped = {}
      BY DEF AllTransducedUntilSoftReset, AllTransduced
    <2>1. got \o saOut \in Seq(Fresh)
      BY DEF IInv, LeavingOK, Leaving
    <2>2. (got \o saOut)[i] \in Fresh
      BY <2>1
    <2> QED BY <2>2 DEF Fresh
  <1> QED BY FrontEndInvariant, <1>1, PTL

-----------------------------------------------------------------------------
(* Order: what two sequences of items that stand for the same text agree    *)
(* on, and how it survives joining.                                         *)

Same(s, t) == Numbers(s) = Numbers(t) /\ (InOrder(s) <=> InOrder(t))

\* The items of two sequences joined: the numbers of both, in order if each is
\* and the second one is behind the first.
LEMMA JoinedInOrder ==
    ASSUME NEW s \in Seq(Item), NEW t \in Seq(Item)
    PROVE  /\ Numbers(s \o t) = Numbers(s) \union Numbers(t)
           /\ InOrder(s \o t) <=> /\ InOrder(s) /\ InOrder(t)
                                  /\ \A a \in Numbers(s), b \in Numbers(t) : a < b
  <1> DEFINE u == s \o t
  <1>1. /\ u \in Seq(Item) /\ Len(u) = Len(s) + Len(t)
        /\ Len(s) \in Nat /\ Len(t) \in Nat
        /\ DOMAIN u = 1 .. Len(s) + Len(t) /\ DOMAIN s = 1 .. Len(s) /\ DOMAIN t = 1 .. Len(t)
        /\ \A i \in 1 .. Len(s) : u[i] = s[i]
        /\ \A i \in 1 .. Len(t) : u[Len(s) + i] = t[i]
    OBVIOUS
  <1> HIDE DEF u
  <1>2. \A i \in DOMAIN s : i \in DOMAIN u /\ u[i] = s[i]
    BY <1>1
  <1>3. \A i \in DOMAIN t : Len(s) + i \in DOMAIN u /\ u[Len(s) + i] = t[i]
    BY <1>1
  <1>4. \A i \in DOMAIN u : i \in DOMAIN s \/ \E k \in DOMAIN t : i = Len(s) + k
    <2> SUFFICES ASSUME NEW i \in DOMAIN u, i \notin DOMAIN s
                 PROVE  \E k \in DOMAIN t : i = Len(s) + k
      OBVIOUS
    <2>1. i - Len(s) \in DOMAIN t /\ i = Len(s) + (i - Len(s))
      BY <1>1
    <2> QED BY <2>1
  <1>5. Numbers(u) = Numbers(s) \union Numbers(t)
    <2>1. \A i \in DOMAIN u : Genuine(u[i]) => u[i].n \in Numbers(s) \union Numbers(t)
      BY <1>2, <1>3, <1>4 DEF Numbers
    <2>2. \A i \in DOMAIN s : Genuine(s[i]) => s[i].n \in Numbers(u)
      BY <1>2 DEF Numbers
    <2>3. \A i \in DOMAIN t : Genuine(t[i]) => t[i].n \in Numbers(u)
      BY <1>3 DEF Numbers
    <2> QED BY <2>1, <2>2, <2>3 DEF Numbers
  <1>6. ASSUME InOrder(u) PROVE InOrder(s) /\ InOrder(t)
    <2>1. InOrder(s)
      BY <1>2, <1>6 DEF InOrder
    <2>2. ASSUME NEW i \in DOMAIN t, NEW j \in DOMAIN t, i < j, Genuine(t[i]), Genuine(t[j])
          PROVE  t[i].n < t[j].n
      <3>1. Len(s) + i < Len(s) + j
        BY <1>1, <2>2
      <3> QED BY <1>3, <1>6, <2>2, <3>1 DEF InOrder
    <2> QED BY <2>1, <2>2 DEF InOrder
  <1>7. ASSUME InOrder(u), NEW a \in Numbers(s), NEW b \in Numbers(t) PROVE a < b
    <2>1. PICK i \in DOMAIN s : Genuine(s[i]) /\ a = s[i].n
      BY DEF Numbers
    <2>2. PICK j \in DOMAIN t : Genuine(t[j]) /\ b = t[j].n
      BY DEF Numbers
    <2>3. i < Len(s) + j
      BY <1>1
    <2> QED BY <1>2, <1>3, <1>7, <2>1, <2>2, <2>3 DEF InOrder
  <1>8. ASSUME InOrder(s), InOrder(t), \A a \in Numbers(s), b \in Numbers(t) : a < b,
               NEW i \in DOMAIN u, NEW j \in DOMAIN u, i < j, Genuine(u[i]), Genuine(u[j])
        PROVE  u[i].n < u[j].n
    <2>1. CASE i \in DOMAIN s /\ j \in DOMAIN s
      BY <1>2, <1>8, <2>1 DEF InOrder
    <2>2. CASE i \in DOMAIN s /\ j \notin DOMAIN s
      <3>1. PICK k \in DOMAIN t : j = Len(s) + k
        BY <1>4, <2>2
      <3>2. u[i].n \in Numbers(s) /\ u[j].n \in Numbers(t)
        BY <1>2, <1>3, <1>8, <2>2, <3>1 DEF Numbers
      <3> QED BY <1>8, <3>2
    <2>3. CASE i \notin DOMAIN s
      <3>1. PICK k \in DOMAIN t : i = Len(s) + k
        BY <1>4, <2>3
      <3>2. PICK l \in DOMAIN t : j = Len(s) + l
        <4>1. j \notin DOMAIN s
          BY <1>1, <1>8, <3>1
        <4> QED BY <1>4, <4>1
      <3>3. k < l
        BY <1>1, <1>8, <3>1, <3>2
      <3> QED BY <1>3, <1>8, <3>1, <3>2, <3>3 DEF InOrder
    <2> QED BY <2>1, <2>2, <2>3
  <1>9. InOrder(s) /\ InOrder(t) /\ (\A a \in Numbers(s), b \in Numbers(t) : a < b) => InOrder(u)
    BY <1>8 DEF InOrder
  <1> QED BY <1>5, <1>6, <1>7, <1>9 DEF u

\* What is put behind or before two such sequences makes no difference.
LEMMA SameJoined ==
    ASSUME NEW s \in Seq(Item), NEW s2 \in Seq(Item), NEW t \in Seq(Item), NEW t2 \in Seq(Item),
           Same(s, s2), Same(t, t2)
    PROVE  Same(s \o t, s2 \o t2)
  <1>1. /\ Numbers(s \o t) = Numbers(s) \union Numbers(t)
        /\ InOrder(s \o t) <=> /\ InOrder(s) /\ InOrder(t)
                               /\ \A a \in Numbers(s), b \in Numbers(t) : a < b
    BY JoinedInOrder, Zenon
  <1>2. /\ Numbers(s2 \o t2) = Numbers(s2) \union Numbers(t2)
        /\ InOrder(s2 \o t2) <=> /\ InOrder(s2) /\ InOrder(t2)
                                 /\ \A a \in Numbers(s2), b \in Numbers(t2) : a < b
    BY JoinedInOrder, Zenon
  <1> QED BY <1>1, <1>2, Zenon DEF Same

LEMMA SameBehind ==
    ASSUME NEW s \in Seq(Item), NEW s2 \in Seq(Item), NEW t \in Seq(Item), Same(s, s2)
    PROVE  Same(s \o t, s2 \o t)
  BY SameJoined, Zenon DEF Same

\* Two queues side by side may change as long as both together stay the same.
LEMMA SameBetween ==
    ASSUME NEW p \in Seq(Item), NEW s \in Seq(Item), NEW t \in Seq(Item),
           NEW s2 \in Seq(Item), NEW t2 \in Seq(Item),
           Same(s \o t, s2 \o t2)
    PROVE  Same((p \o s) \o t, (p \o s2) \o t2)
  <1>1. /\ (p \o s) \o t = p \o (s \o t)
        /\ (p \o s2) \o t2 = p \o (s2 \o t2)
    <2>1. (p \o s) \o t = p \o (s \o t)
      BY ConcatAssociative, SMTT(60)
    <2>2. (p \o s2) \o t2 = p \o (s2 \o t2)
      BY ConcatAssociative, SMTT(60)
    <2> QED BY <2>1, <2>2
  <1>2. s \o t \in Seq(Item) /\ s2 \o t2 \in Seq(Item)
    BY JoinOK, Zenon
  <1>3. Same(p, p)
    BY DEF Same
  <1>4. Same(p \o (s \o t), p \o (s2 \o t2))
    BY <1>2, <1>3, SameJoined, Zenon
  <1> QED BY <1>1, <1>4, Zenon

\* Items may change as long as each keeps its number and stays what it was to
\* waStep.
LEMMA SameItems ==
    ASSUME NEW s \in Seq(Item), NEW t \in Seq(Item), Len(t) = Len(s),
           \A i \in DOMAIN s : t[i].n = s[i].n /\ (Genuine(t[i]) <=> Genuine(s[i]))
    PROVE  Same(s, t)
  <1>1. DOMAIN s = DOMAIN t
    OBVIOUS
  <1>2. Numbers(s) = Numbers(t)
    BY <1>1 DEF Numbers
  <1>3. InOrder(s) <=> InOrder(t)
    BY <1>1 DEF InOrder
  <1> QED BY <1>2, <1>3 DEF Same

\* An item that is not one of the text, or is skipped, may come or go.
LEMMA SameWithout ==
    ASSUME NEW s \in Seq(Item), Len(s) = 1, ~ Genuine(s[1])
    PROVE  Same(s, <<>>)
  <1>1. DOMAIN s = {1}
    OBVIOUS
  <1>2. Numbers(s) = {} /\ InOrder(s)
    BY <1>1 DEF Numbers, InOrder
  <1>3. Numbers(<<>>) = {} /\ InOrder(<<>>)
    BY DEF Numbers, InOrder
  <1> QED BY <1>2, <1>3 DEF Same

\* One item moves from the front of a queue to the end of the next one.
LEMMA MovedOn ==
    ASSUME NEW S, NEW s \in Seq(S), NEW t \in Seq(S), t # <<>>
    PROVE  Append(s, Head(t)) \o Tail(t) = s \o t
  <1>1. Head(t) \in S /\ Tail(t) \in Seq(S) /\ <<Head(t)>> \in Seq(S)
    OBVIOUS
  <1>2. <<Head(t)>> \o Tail(t) = t
    BY <1>1
  <1>3. Append(s, Head(t)) = s \o <<Head(t)>>
    BY <1>1
  <1>4. (s \o <<Head(t)>>) \o Tail(t) = s \o (<<Head(t)>> \o Tail(t))
    BY <1>1, ConcatAssociative, SMTT(60)
  <1> QED BY <1>2, <1>3, <1>4

\* Nothing at either side.
LEMMA JoinedEmpty ==
    ASSUME NEW S, NEW s \in Seq(S)
    PROVE  s \o <<>> = s /\ <<>> \o s = s /\ <<>> \in Seq(S)
  OBVIOUS

-----------------------------------------------------------------------------
(* Every item comes through, in order.                                      *)

\* Nothing of it would be skipped by waStep.
Passed(s) == \A i \in DOMAIN s : ~ WA!Skipped(s[i])

\* Items are numbered as they are put, what is past waProcess is not skipped
\* (so WordPhones, which forgets lengths, turns no word into a skipped one),
\* and from one end to the other nothing is lost.
Lossless == /\ \A i \in DOMAIN sent : sent[i].n = i
            /\ Passed(waOutBuf) /\ Passed(waOut) /\ Passed(headx)
            /\ NothingLost

\* All the queues as sequences of items.
QueuesOfItems == /\ got \in Seq(Item) /\ saOut \in Seq(Item) /\ tmpbuf \in Seq(Item)
                 /\ headx \in Seq(Item) /\ waOut \in Seq(Item) /\ waOutBuf \in Seq(Item)
                 /\ waInBuf \in Seq(Item) /\ prOut \in Seq(Item)

LEMMA ItemsOnly == IInv => QueuesOfItems
  <1>1. Fresh \subseteq Item /\ Leaving \subseteq Item
    BY FreshLeaves DEF Leaving
  <1>2. Seq(Fresh) \subseteq Seq(Item) /\ Seq(Leaving) \subseteq Seq(Item)
    BY <1>1
  <1> QED BY <1>2 DEF IInv, QueuesOK, LeavingOK, QueuesOfItems

\* The queues up to and including each of them.
JoinedOfItems == /\ got \o saOut \in Seq(Item)
                 /\ got \o saOut \o tmpbuf \in Seq(Item)
                 /\ got \o saOut \o tmpbuf \o headx \in Seq(Item)
                 /\ got \o saOut \o tmpbuf \o headx \o waOut \in Seq(Item)
                 /\ got \o saOut \o tmpbuf \o headx \o waOut \o waOutBuf \in Seq(Item)
                 /\ got \o saOut \o tmpbuf \o headx \o waOut \o waOutBuf \o waInBuf \in Seq(Item)
                 /\ UnderWay \in Seq(Item)

LEMMA QueuesJoined == IInv => QueuesOfItems /\ JoinedOfItems
  <1> SUFFICES ASSUME IInv PROVE QueuesOfItems /\ JoinedOfItems
    OBVIOUS
  <1>0. QueuesOfItems
    BY ItemsOnly
  <1> USE <1>0 DEF QueuesOfItems
  <1>1. got \o saOut \in Seq(Item)
    BY JoinOK, Zenon
  <1>2. got \o saOut \o tmpbuf \in Seq(Item)
    BY <1>1, JoinOK, Zenon
  <1>3. got \o saOut \o tmpbuf \o headx \in Seq(Item)
    BY <1>2, JoinOK, Zenon
  <1>4. got \o saOut \o tmpbuf \o headx \o waOut \in Seq(Item)
    BY <1>3, JoinOK, Zenon
  <1>5. got \o saOut \o tmpbuf \o headx \o waOut \o waOutBuf \in Seq(Item)
    BY <1>4, JoinOK, Zenon
  <1>6. got \o saOut \o tmpbuf \o headx \o waOut \o waOutBuf \o waInBuf \in Seq(Item)
    BY <1>5, JoinOK, Zenon
  <1>7. UnderWay \in Seq(Item)
    BY <1>6, JoinOK, Zenon DEF UnderWay
  <1> QED BY <1>1, <1>2, <1>3, <1>4, <1>5, <1>6, <1>7 DEF JoinedOfItems

\* The same one step later.
LEMMA QueuesJoinedNext == IInv' => QueuesOfItems' /\ JoinedOfItems'
  BY QueuesJoined, PTL

\* A step that changes the queues up to one of them and not those before it
\* leaves the whole the same if it leaves that part the same.
LEMMA UpToHeadx ==
    ASSUME IInv, IInv', UNCHANGED <<waOut, waOutBuf, waInBuf, prOut>>,
           Same(got \o saOut \o tmpbuf \o headx, (got \o saOut \o tmpbuf \o headx)')
    PROVE  Same(UnderWay, UnderWay')
  <1> DEFINE a == got \o saOut \o tmpbuf \o headx
             b == got' \o saOut' \o tmpbuf' \o headx'
  <1>1. a \in Seq(Item) /\ b \in Seq(Item) /\ Same(a, b)
    BY QueuesJoined, QueuesJoinedNext DEF JoinedOfItems
  <1>2. /\ waOut \in Seq(Item) /\ waOutBuf \in Seq(Item)
        /\ waInBuf \in Seq(Item) /\ prOut \in Seq(Item)
    BY QueuesJoined DEF QueuesOfItems
  <1>3. /\ UnderWay = a \o waOut \o waOutBuf \o waInBuf \o prOut
        /\ UnderWay' = b \o waOut \o waOutBuf \o waInBuf \o prOut
    BY DEF UnderWay
  <1> HIDE DEF a, b
  <1>4. /\ a \o waOut \in Seq(Item) /\ b \o waOut \in Seq(Item)
        /\ Same(a \o waOut, b \o waOut)
    BY <1>1, <1>2, SameBehind, JoinOK, Zenon
  <1>5. /\ a \o waOut \o waOutBuf \in Seq(Item) /\ b \o waOut \o waOutBuf \in Seq(Item)
        /\ Same(a \o waOut \o waOutBuf, b \o waOut \o waOutBuf)
    BY <1>2, <1>4, SameBehind, JoinOK, Zenon
  <1>6. /\ a \o waOut \o waOutBuf \o waInBuf \in Seq(Item)
        /\ b \o waOut \o waOutBuf \o waInBuf \in Seq(Item)
        /\ Same(a \o waOut \o waOutBuf \o waInBuf, b \o waOut \o waOutBuf \o waInBuf)
    BY <1>2, <1>5, SameBehind, JoinOK, Zenon
  <1> QED BY <1>2, <1>3, <1>6, SameBehind, Zenon

\* A step that changes nothing that counts keeps what is lossless.
LEMMA SameIsLossless ==
    ASSUME Lossless, Same(UnderWay, UnderWay'), UNCHANGED sent, saStatus # "ERROR",
           Passed(waOutBuf'), Passed(waOut'), Passed(headx')
    PROVE  Lossless'
  <1>1. NothingLost'
    BY DEF Lossless, NothingLost, Same
  <1>2. (\A i \in DOMAIN sent : sent[i].n = i)'
    BY DEF Lossless
  <1> QED BY <1>1, <1>2 DEF Lossless

\* Appending is joining.
LEMMA AppendJoins ==
    ASSUME NEW S, NEW s \in Seq(S), NEW x \in S
    PROVE  Append(s, x) = s \o <<x>>
  OBVIOUS

LEMMA PutLossless == ASSUME IInv, IInv', Lossless, Put PROVE Lossless'
  <1>0. PICK k \in Kinds :
          LET x == [n |-> Len(sent) + 1, type |-> k.type, len |-> k.len, skipped |-> {}]
          IN  sent' = Append(sent, x) /\ prOut' = Append(prOut, x)
    BY DEF Put
  <1> DEFINE x == [n |-> Len(sent) + 1, type |-> k.type, len |-> k.len, skipped |-> {}]
             r == got \o saOut \o tmpbuf \o headx \o waOut \o waOutBuf \o waInBuf
  <1>1. /\ UNCHANGED <<got, saOut, tmpbuf, headx, waOut, waOutBuf, waInBuf>>
        /\ saStatus # "ERROR"
    BY DEF Put, Operable, waState, saState
  <1>2. /\ UnderWay \in Seq(Item) /\ r \in Seq(Item) /\ prOut \in Seq(Item)
    BY QueuesJoined DEF QueuesOfItems, JoinedOfItems
  <1>3. sent \in Seq(Fresh) /\ sent \in Seq(Item) /\ Len(sent) \in Nat
    <2>1. Fresh \subseteq Item
      BY FreshLeaves
    <2>2. sent \in Seq(Fresh)
      BY DEF IInv, QueuesOK
    <2> QED BY <2>1, <2>2
  <1>4. x \in Item /\ <<x>> \in Seq(Item)
    <2>1. k.type \in Types /\ k.len \in Nat
      BY FrontEndAssumption DEF Types
    <2> QED BY <1>3, <2>1 DEF Item
  <1>5. UnderWay' = UnderWay \o <<x>>
    <2>1. UnderWay = r \o prOut /\ UnderWay' = r \o prOut'
      BY <1>1 DEF UnderWay
    <2>2. prOut' = Append(prOut, x)
      BY <1>0
    <2> HIDE DEF r, x
    <2>22. prOut' = prOut \o <<x>>
      BY <1>2, <1>4, <2>2, AppendJoins, Zenon
    <2>3. (r \o prOut) \o <<x>> = r \o (prOut \o <<x>>)
      BY <1>2, <1>4, ConcatAssociative, SMTT(60)
    <2> QED BY <2>1, <2>22, <2>3
  <1>6. sent' = sent \o <<x>>
    <2>1. sent' = Append(sent, x)
      BY <1>0
    <2> HIDE DEF x
    <2> QED BY <1>3, <1>4, <2>1, AppendJoins, Zenon
  <1>7. (\A i \in DOMAIN sent : sent[i].n = i)'
    <2>1. DOMAIN sent' = 1 .. Len(sent) + 1 /\ DOMAIN sent = 1 .. Len(sent)
      BY <1>0, <1>3, <1>4
    <2>2. \A i \in 1 .. Len(sent) : sent'[i] = sent[i]
      BY <1>0, <1>3, <1>4
    <2>3. sent'[Len(sent) + 1].n = Len(sent) + 1
      BY <1>0, <1>3, <1>4
    <2>4. \A i \in 1 .. Len(sent) : sent[i].n = i
      BY <2>1 DEF Lossless
    <2> QED BY <1>3, <2>1, <2>2, <2>3, <2>4
  <1>8. \A a \in Numbers(sent), b \in Numbers(<<x>>) : a < b
    <2>1. \A a \in Numbers(sent) : a =< Len(sent) /\ a \in Nat
      BY <1>3 DEF Numbers, Lossless
    <2>2. \A b \in Numbers(<<x>>) : b = Len(sent) + 1
      BY DEF Numbers
    <2> QED BY <1>3, <2>1, <2>2
  <1>9. InOrder(<<x>>)
    BY DEF InOrder
  <1>10. InOrder(UnderWay) /\ Numbers(UnderWay) = Numbers(sent)
    BY <1>1 DEF Lossless, NothingLost
  <1> HIDE DEF x
  <1>11. /\ InOrder(UnderWay \o <<x>>)
         /\ Numbers(UnderWay \o <<x>>) = Numbers(sent \o <<x>>)
    <2>1. /\ Numbers(sent \o <<x>>) = Numbers(sent) \union Numbers(<<x>>)
          /\ Numbers(UnderWay \o <<x>>) = Numbers(UnderWay) \union Numbers(<<x>>)
      BY <1>2, <1>3, <1>4, JoinedInOrder, Zenon
    <2>2. InOrder(UnderWay \o <<x>>)
      <3>1. \A a \in Numbers(UnderWay), b \in Numbers(<<x>>) : a < b
        BY <1>8, <1>10
      <3> QED BY <1>2, <1>4, <1>9, <1>10, <3>1, JoinedInOrder, Zenon
    <2> QED BY <1>10, <2>1, <2>2
  <1>12. NothingLost'
    BY <1>5, <1>6, <1>11 DEF NothingLost
  <1> QED BY <1>1, <1>7, <1>12 DEF Lossless

LEMMA TakeLossless == ASSUME IInv, IInv', Lossless, Take PROVE Lossless'
  <1>1. /\ UNCHANGED <<tmpbuf, headx, waOut, waOutBuf, waInBuf, prOut, sent>>
        /\ saStatus # "ERROR"
    BY DEF Take, Operable, waState, saState
  <1>2. got' \o saOut' = got \o saOut
    <2>1. got \in Seq(Item) /\ saOut \in Seq(Item) /\ saOut # <<>>
      BY ItemsOnly DEF QueuesOfItems, Take
    <2> QED BY <2>1, MovedOn DEF Take
  <1>3. UnderWay' = UnderWay
    BY <1>1, <1>2 DEF UnderWay
  <1>4. Same(UnderWay, UnderWay')
    BY <1>3 DEF Same
  <1> QED BY <1>1, <1>4, SameIsLossless DEF Lossless

\* waStep takes an item: it is waInBuf now.
LEMMA WordCollectSame ==
    ASSUME IInv, IInv', WA!Collect, UNCHANGED <<got, saOut, tmpbuf, headx>>
    PROVE  Same(UnderWay, UnderWay') /\ UNCHANGED <<waOut, waOutBuf>>
  <1> DEFINE r == got \o saOut \o tmpbuf \o headx \o waOut \o waOutBuf
  <1>1. UNCHANGED <<waOut, waOutBuf>>
    BY DEF WA!Collect
  <1>2. waInBuf' \o prOut' = waInBuf \o prOut
    <2>1. CASE prOut # <<>> /\ waInBuf' = <<Head(prOut)>> /\ prOut' = Tail(prOut)
      <3>1. waInBuf = <<>>
        BY DEF IInv, TypeOK, WA!TypeOK, WA!Collect, WA!At, QueuesOK
      <3>2. prOut \in Seq(Fresh)
        BY DEF IInv, QueuesOK
      <3>3. <<Head(prOut)>> \o Tail(prOut) = prOut
        BY <2>1, <3>2
      <3> QED BY <2>1, <3>1, <3>2, <3>3
    <2>2. CASE UNCHANGED <<prOut, waInBuf>>
      BY <2>2
    <2> QED BY <2>1, <2>2 DEF WA!Collect
  <1>3. /\ r \in Seq(Item)
        /\ waInBuf \in Seq(Item) /\ prOut \in Seq(Item)
        /\ waInBuf' \in Seq(Item) /\ prOut' \in Seq(Item)
    BY QueuesJoined, QueuesJoinedNext DEF QueuesOfItems, JoinedOfItems
  <1>4. UnderWay = (r \o waInBuf) \o prOut /\ UnderWay' = (r \o waInBuf') \o prOut'
    BY <1>1 DEF UnderWay
  <1>5. Same(waInBuf \o prOut, waInBuf' \o prOut')
    BY <1>2 DEF Same
  <1> HIDE DEF r
  <1> QED BY <1>1, <1>3, <1>4, <1>5, SameBetween, Zenon

\* waProcess: an item that is skipped was none of those that count; any other
\* one goes on under its number.
LEMMA WordProcessSame ==
    ASSUME IInv, IInv', WA!Process, UNCHANGED <<got, saOut, tmpbuf, headx>>
    PROVE  Same(UnderWay, UnderWay') /\ Passed(waOutBuf') /\ UNCHANGED waOut
  <1> DEFINE r == got \o saOut \o tmpbuf \o headx \o waOut
             x == waInBuf[1]
  <1>1. UNCHANGED <<waOut, prOut>> /\ waInBuf' = <<>> /\ waOutBuf = <<>> /\ Len(waInBuf) = 1
    BY DEF WA!Process, WA!At, IInv, TypeOK, WA!TypeOK, QueuesOK
  <1>2. /\ r \in Seq(Item) /\ prOut \in Seq(Item)
        /\ waOutBuf \in Seq(Item) /\ waInBuf \in Seq(Item)
        /\ waOutBuf' \in Seq(Item) /\ waInBuf' \in Seq(Item)
    BY QueuesJoined, QueuesJoinedNext DEF QueuesOfItems, JoinedOfItems
  <1>3. Same(waInBuf, waOutBuf') /\ Passed(waOutBuf')
    <2>1. CASE WA!Skipped(x) /\ UNCHANGED waOutBuf
      <3>1. ~ Genuine(waInBuf[1])
        BY <2>1 DEF Genuine
      <3>2. waOutBuf' = <<>>
        BY <1>1, <2>1
      <3>3. Passed(waOutBuf')
        BY <3>2 DEF Passed
      <3> QED BY <1>1, <1>2, <3>1, <3>2, <3>3, SameWithout
    <2>2. ASSUME ~ WA!Skipped(x), NEW y \in WA!Analysed(x), waOutBuf' = <<y>>
          PROVE  Same(waInBuf, waOutBuf') /\ Passed(waOutBuf')
      <3>1. x \in Item
        BY <1>1, <1>2, OnlyOK, Zenon
      <3>2. y.n = x.n /\ ~ WA!Skipped(y)
        BY <2>2, <3>1 DEF WA!Analysed, WA!Skipped, Item
      <3>3. Len(waOutBuf') = 1 /\ waOutBuf'[1] = y /\ DOMAIN waOutBuf' = {1}
        BY <2>2
      <3>4. DOMAIN waInBuf = {1}
        BY <1>1, <1>2
      <3>5. \A i \in DOMAIN waInBuf : /\ waOutBuf'[i].n = waInBuf[i].n
                                      /\ Genuine(waOutBuf'[i]) <=> Genuine(waInBuf[i])
        BY <2>2, <3>2, <3>3, <3>4 DEF Genuine
      <3>6. Passed(waOutBuf')
        BY <3>2, <3>3 DEF Passed
      <3>7. Len(waOutBuf') = Len(waInBuf)
        BY <1>1, <3>3
      <3> QED BY <1>2, <3>5, <3>6, <3>7, SameItems, Zenon
    <2> QED BY <2>1, <2>2 DEF WA!Process
  <1>4. Same(waOutBuf \o waInBuf, waOutBuf' \o waInBuf')
    <2>1. waOutBuf \o waInBuf = waInBuf /\ waOutBuf' \o waInBuf' = waOutBuf'
      BY <1>1, <1>2, JoinedEmpty
    <2> QED BY <1>3, <2>1
  <1>5. /\ UnderWay = ((r \o waOutBuf) \o waInBuf) \o prOut
        /\ UnderWay' = ((r \o waOutBuf') \o waInBuf') \o prOut
    BY <1>1 DEF UnderWay
  <1> HIDE DEF r
  <1>6. Same((r \o waOutBuf) \o waInBuf, (r \o waOutBuf') \o waInBuf')
    BY <1>2, <1>4, SameBetween, Zenon
  <1>7. (r \o waOutBuf) \o waInBuf \in Seq(Item) /\ (r \o waOutBuf') \o waInBuf' \in Seq(Item)
    BY <1>2, JoinOK, Zenon
  <1>8. Same(UnderWay, UnderWay')
    BY <1>2, <1>5, <1>6, <1>7, SameBehind, Zenon
  <1> QED BY <1>1, <1>3, <1>8

\* waStep puts its item, or keeps it.
LEMMA WordFeedSame ==
    ASSUME IInv, IInv', Lossless, WA!Feed, UNCHANGED <<got, saOut, tmpbuf, headx>>
    PROVE  Same(UnderWay, UnderWay') /\ Passed(waOutBuf') /\ Passed(waOut')
  <1> DEFINE r == got \o saOut \o tmpbuf \o headx
  <1>1. UNCHANGED <<waInBuf, prOut>>
    BY DEF WA!Feed
  <1>2. /\ r \in Seq(Item) /\ waInBuf \in Seq(Item) /\ prOut \in Seq(Item)
        /\ waOut \in Seq(Item) /\ waOutBuf \in Seq(Item)
        /\ waOut' \in Seq(Item) /\ waOutBuf' \in Seq(Item)
    BY QueuesJoined, QueuesJoinedNext DEF QueuesOfItems, JoinedOfItems
  <1>3. waOut' \o waOutBuf' = waOut \o waOutBuf /\ Passed(waOutBuf') /\ Passed(waOut')
    <2>1. CASE waOut' = waOut \o waOutBuf /\ waOutBuf' = <<>>
      <3>1. waOut' \o waOutBuf' = waOut \o waOutBuf
        BY <1>2, <2>1, JoinedEmpty
      <3>2. Passed(waOutBuf) /\ Passed(waOut)
        BY DEF Lossless
      <3>3. Passed(waOutBuf')
        BY <2>1 DEF Passed
      <3>4. ASSUME NEW i \in DOMAIN waOut' PROVE ~ WA!Skipped(waOut'[i])
        <4>1. \/ i \in DOMAIN waOut /\ waOut'[i] = waOut[i]
              \/ /\ i - Len(waOut) \in DOMAIN waOutBuf
                 /\ waOut'[i] = waOutBuf[i - Len(waOut)]
          BY <1>2, <2>1
        <4> QED BY <3>2, <4>1 DEF Passed
      <3> QED BY <3>1, <3>3, <3>4 DEF Passed
    <2>2. CASE UNCHANGED <<waOut, waOutBuf>>
      BY <2>2 DEF Lossless
    <2> QED BY <2>1, <2>2 DEF WA!Feed
  <1>4. /\ UnderWay = (((r \o waOut) \o waOutBuf) \o waInBuf) \o prOut
        /\ UnderWay' = (((r \o waOut') \o waOutBuf') \o waInBuf) \o prOut
    BY <1>1 DEF UnderWay
  <1> HIDE DEF r
  <1>5. /\ Same((r \o waOut) \o waOutBuf, (r \o waOut') \o waOutBuf')
        /\ (r \o waOut) \o waOutBuf \in Seq(Item) /\ (r \o waOut') \o waOutBuf' \in Seq(Item)
    <2>1. Same(waOut \o waOutBuf, waOut' \o waOutBuf')
      BY <1>3 DEF Same
    <2> QED BY <1>2, <2>1, SameBetween, JoinOK, Zenon
  <1>6. /\ Same(((r \o waOut) \o waOutBuf) \o waInBuf, ((r \o waOut') \o waOutBuf') \o waInBuf)
        /\ ((r \o waOut) \o waOutBuf) \o waInBuf \in Seq(Item)
        /\ ((r \o waOut') \o waOutBuf') \o waInBuf \in Seq(Item)
    BY <1>2, <1>5, SameBehind, JoinOK, Zenon
  <1>7. Same(UnderWay, UnderWay')
    BY <1>2, <1>4, <1>6, SameBehind, Zenon
  <1> QED BY <1>3, <1>7

LEMMA WordStepsLossless ==
    ASSUME IInv, IInv', Lossless, WordStep \/ WordPass
    PROVE  Lossless'
  <1>1. /\ UNCHANGED <<got, saOut, tmpbuf, headx, sent, saStatus>>
        /\ WA!Call \/ WA!Pass
    BY DEF WordStep, WordPass, saState, history
  <1>2. /\ Same(UnderWay, UnderWay')
        /\ Passed(waOutBuf') /\ Passed(waOut') /\ Passed(headx')
    <2>1. Passed(waOutBuf) /\ Passed(waOut) /\ Passed(headx')
      BY <1>1 DEF Lossless
    <2>2. CASE WA!Call
      <3>1. UNCHANGED <<waOut, waOutBuf, waInBuf, prOut>>
        BY <2>2 DEF WA!Call
      <3>2. UnderWay' = UnderWay
        BY <1>1, <3>1 DEF UnderWay
      <3>3. Same(UnderWay, UnderWay')
        BY <3>2 DEF Same
      <3> QED BY <2>1, <3>1, <3>3
    <2>3. CASE WA!Collect
      BY <1>1, <2>1, <2>3, WordCollectSame
    <2>4. CASE WA!Process
      BY <1>1, <2>1, <2>4, WordProcessSame
    <2>5. CASE WA!Feed
      BY <1>1, <2>1, <2>5, WordFeedSame
    <2> QED BY <1>1, <2>2, <2>3, <2>4, <2>5 DEF WA!Pass
  <1>3. CASE saStatus = "ERROR"
    BY <1>1, <1>2, <1>3 DEF Lossless, NothingLost
  <1>4. CASE saStatus # "ERROR"
    BY <1>1, <1>2, <1>4, SameIsLossless
  <1> QED BY <1>3, <1>4

\* saStep collects an item: a conversion leaves its number and what waStep
\* would think of it.
LEMMA CollectItemSame ==
    ASSUME IInv, IInv', Lossless, SA!CollectItem,
           headx' = Append(headx, SA!Converted(Head(waOut))),
           UNCHANGED <<got, waOutBuf, waInBuf, prOut>>
    PROVE  Same(UnderWay, UnderWay') /\ Passed(waOut') /\ Passed(headx')
  <1> DEFINE r == got \o saOut \o tmpbuf
             x == Head(waOut)
             y == SA!Converted(x)
  <1>1. UNCHANGED <<saOut, tmpbuf>> /\ waOut # <<>> /\ waOut' = Tail(waOut)
    BY DEF SA!CollectItem
  <1>2. /\ r \in Seq(Item) /\ waOutBuf \in Seq(Item) /\ waInBuf \in Seq(Item)
        /\ prOut \in Seq(Item) /\ headx \in Seq(Item) /\ waOut \in Seq(Item)
        /\ waOut' \in Seq(Item) /\ headx' \in Seq(Item)
    BY QueuesJoined, QueuesJoinedNext DEF QueuesOfItems, JoinedOfItems
  <1>3. x \in Item /\ ~ WA!Skipped(x) /\ Passed(waOut')
    <2>1. x \in Item /\ x = waOut[1] /\ 1 \in DOMAIN waOut
      BY <1>1, <1>2
    <2>2. \A i \in DOMAIN waOut' : i + 1 \in DOMAIN waOut /\ waOut'[i] = waOut[i + 1]
      BY <1>1, <1>2
    <2> QED BY <2>1, <2>2 DEF Lossless, Passed
  <1>4. y \in Item /\ y.n = x.n /\ ~ WA!Skipped(y)
    BY <1>3 DEF SA!Converted, WA!Skipped, Item, Types
  <1> DEFINE with == Append(headx, x)
  <1>5. /\ with \in Seq(Item) /\ DOMAIN with = 1 .. Len(headx) + 1
        /\ DOMAIN headx = 1 .. Len(headx) /\ Len(headx) \in Nat
        /\ \A i \in DOMAIN headx : with[i] = headx[i]
        /\ with[Len(headx) + 1] = x
    BY <1>2, <1>3
  <1>6. /\ DOMAIN headx' = 1 .. Len(headx) + 1
        /\ \A i \in DOMAIN headx : headx'[i] = headx[i]
        /\ headx'[Len(headx) + 1] = y
        /\ Len(headx') = Len(with)
    BY <1>2, <1>3, <1>4, SMTT(30)
  <1>7. Passed(headx')
    <2>1. \A i \in DOMAIN headx' : i \in DOMAIN headx \/ i = Len(headx) + 1
      BY <1>5, <1>6
    <2>2. Passed(headx)
      BY DEF Lossless
    <2> QED BY <1>4, <1>6, <2>1, <2>2 DEF Passed
  <1>8. Same(with \o waOut', headx' \o waOut')
    <2>1. Genuine(y) <=> Genuine(x)
      BY <1>3, <1>4 DEF Genuine
    <2>2. \A i \in DOMAIN with : i \in DOMAIN headx \/ i = Len(headx) + 1
      BY <1>5
    <2> HIDE DEF with, x, y
    <2>3. \A i \in DOMAIN with : /\ headx'[i].n = with[i].n
                                 /\ Genuine(headx'[i]) <=> Genuine(with[i])
      BY <1>4, <1>5, <1>6, <2>1, <2>2
    <2>35. with \in Seq(Item) /\ headx' \in Seq(Item) /\ Len(headx') = Len(with)
      BY <1>2, <1>5, <1>6
    <2>4. Same(with, headx')
      BY <2>3, <2>35, SameItems, Zenon
    <2> QED BY <1>2, <1>5, <2>4, SameBehind, Zenon
  <1>9. with \o waOut' = headx \o waOut
    BY <1>1, <1>2, MovedOn
  <1>10. /\ UnderWay = ((((r \o headx) \o waOut) \o waOutBuf) \o waInBuf) \o prOut
         /\ UnderWay' = ((((r \o headx') \o waOut') \o waOutBuf) \o waInBuf) \o prOut
    BY <1>1 DEF UnderWay
  <1> HIDE DEF r, with
  <1>11. /\ Same((r \o headx) \o waOut, (r \o headx') \o waOut')
         /\ (r \o headx) \o waOut \in Seq(Item) /\ (r \o headx') \o waOut' \in Seq(Item)
    <2>1. Same(headx \o waOut, headx' \o waOut')
      BY <1>8, <1>9
    <2> QED BY <1>2, <2>1, SameBetween, JoinOK, Zenon
  <1>12. /\ Same(((r \o headx) \o waOut) \o waOutBuf, ((r \o headx') \o waOut') \o waOutBuf)
         /\ ((r \o headx) \o waOut) \o waOutBuf \in Seq(Item)
         /\ ((r \o headx') \o waOut') \o waOutBuf \in Seq(Item)
    BY <1>2, <1>11, SameBehind, JoinOK, Zenon
  <1>13. /\ Same((((r \o headx) \o waOut) \o waOutBuf) \o waInBuf,
                 (((r \o headx') \o waOut') \o waOutBuf) \o waInBuf)
         /\ (((r \o headx) \o waOut) \o waOutBuf) \o waInBuf \in Seq(Item)
         /\ (((r \o headx') \o waOut') \o waOutBuf) \o waInBuf \in Seq(Item)
    BY <1>2, <1>12, SameBehind, JoinOK, Zenon
  <1>14. Same(UnderWay, UnderWay')
    BY <1>2, <1>10, <1>13, SameBehind, Zenon
  <1> QED BY <1>3, <1>7, <1>14

\* The forced phrase end is no item of the text.
LEMMA ForcedSame ==
    ASSUME IInv, IInv', Lossless, SA!ForcedPhraseEnd,
           UNCHANGED <<got, waOutBuf, waInBuf, prOut>>
    PROVE  Same(UnderWay, UnderWay') /\ Passed(headx')
  <1> DEFINE r == got \o saOut \o tmpbuf
  <1>1. UNCHANGED <<saOut, tmpbuf, waOut>> /\ headx' = Append(headx, SA!Forced)
    BY DEF SA!ForcedPhraseEnd
  <1>2. r \in Seq(Item) /\ headx \in Seq(Item) /\ headx' \in Seq(Item)
    BY QueuesJoined, QueuesJoinedNext DEF QueuesOfItems, JoinedOfItems
  <1>3. SA!Forced \in Item /\ ~ WA!Skipped(SA!Forced) /\ ~ Genuine(SA!Forced)
    BY DEF SA!Forced, Item, Types, WA!Skipped, Genuine
  <1>4. headx' = headx \o <<SA!Forced>> /\ <<SA!Forced>> \in Seq(Item)
    BY <1>1, <1>2, <1>3, AppendJoins, OneOK, Zenon
  <1>5. Same(<<>>, <<SA!Forced>>) /\ <<>> \in Seq(Item)
    <2>1. Len(<<SA!Forced>>) = 1 /\ <<SA!Forced>>[1] = SA!Forced
      BY <1>3
    <2>2. Same(<<SA!Forced>>, <<>>)
      BY <1>3, <1>4, <2>1, SameWithout
    <2> QED BY <2>2, JoinedEmpty DEF Same
  <1>6. Same(headx, headx')
    <2>1. Same(headx, headx)
      BY DEF Same
    <2>2. Same(headx \o <<>>, headx \o <<SA!Forced>>)
      BY <1>2, <1>4, <1>5, <2>1, SameJoined, Zenon
    <2>3. headx \o <<>> = headx
      BY <1>2, JoinedEmpty
    <2> QED BY <1>4, <2>2, <2>3
  <1>7. Passed(headx')
    <2>1. \A i \in DOMAIN headx' : \/ i \in DOMAIN headx /\ headx'[i] = headx[i]
                                   \/ headx'[i] = SA!Forced
      BY <1>1, <1>2, <1>3
    <2> QED BY <1>3, <2>1 DEF Lossless, Passed
  <1>8. Same(r, r)
    BY DEF Same
  <1>9. Same(r \o headx, r \o headx')
    BY <1>2, <1>6, <1>8, SameJoined, Zenon
  <1>10. Same(UnderWay, UnderWay')
    BY <1>1, <1>9, UpToHeadx
  <1> QED BY <1>7, <1>10

\* Words become phones: what was not skipped would not be skipped now.
LEMMA WordPhonesSame ==
    ASSUME IInv, IInv', Lossless, SA!WordPhones,
           UNCHANGED <<got, waOutBuf, waInBuf, prOut>>
    PROVE  Same(UnderWay, UnderWay') /\ Passed(headx')
  <1> DEFINE r == got \o saOut \o tmpbuf
  <1>1. /\ UNCHANGED <<saOut, tmpbuf, waOut>>
        /\ headx' = [i \in DOMAIN headx |-> SA!Phones(headx[i])]
    BY DEF SA!WordPhones
  <1>2. r \in Seq(Item) /\ headx \in Seq(Item) /\ headx' \in Seq(Item)
    BY QueuesJoined, QueuesJoinedNext DEF QueuesOfItems, JoinedOfItems
  <1>3. \A x \in Item : ~ WA!Skipped(x) => SA!Phones(x).n = x.n /\ ~ WA!Skipped(SA!Phones(x))
    BY DEF Item, Types, WA!Skipped, SA!Phones, SA!saGraphemeToPhoneme, SA!saLexIndLookup,
           SA!saCopyItemContent1to2
  <1>4. \A i \in DOMAIN headx : /\ headx'[i].n = headx[i].n
                                /\ ~ WA!Skipped(headx[i]) /\ ~ WA!Skipped(headx'[i])
    <2>1. \A i \in DOMAIN headx : headx[i] \in Item /\ headx'[i] = SA!Phones(headx[i])
      BY <1>1, <1>2
    <2>2. \A i \in DOMAIN headx : ~ WA!Skipped(headx[i])
      BY DEF Lossless, Passed
    <2> QED BY <1>3, <2>1, <2>2
  <1>5. DOMAIN headx' = DOMAIN headx /\ Len(headx') = Len(headx)
    BY <1>1, <1>2
  <1>6. \A i \in DOMAIN headx : /\ headx'[i].n = headx[i].n
                                /\ Genuine(headx'[i]) <=> Genuine(headx[i])
    BY <1>4 DEF Genuine
  <1>7. Same(headx, headx')
    BY <1>2, <1>5, <1>6, SameItems, Zenon
  <1>8. Same(r \o headx, r \o headx')
    <2>1. Same(r, r)
      BY DEF Same
    <2> QED BY <1>2, <1>7, <2>1, SameJoined, Zenon
  <1>9. Same(UnderWay, UnderWay')
    BY <1>1, <1>8, UpToHeadx
  <1> QED BY <1>4, <1>5, <1>9 DEF Passed

\* An item of the phrase is taken to be transduced.
LEMMA ParseItemSame ==
    ASSUME IInv, IInv', Lossless, SA!ParseItem,
           UNCHANGED <<got, waOutBuf, waInBuf, prOut>>
    PROVE  Same(UnderWay, UnderWay') /\ Passed(headx')
  <1> DEFINE r == got \o saOut
  <1>1. /\ UNCHANGED <<saOut, waOut>> /\ headx # <<>>
        /\ tmpbuf = <<>> /\ tmpbuf' = <<Head(headx)>> /\ headx' = Tail(headx)
    BY DEF SA!ParseItem, SA!At, IInv, TypeOK, SA!TypeOK, LeavingOK
  <1>2. /\ r \in Seq(Item) /\ tmpbuf \in Seq(Item) /\ headx \in Seq(Item)
        /\ tmpbuf' \in Seq(Item) /\ headx' \in Seq(Item)
    BY QueuesJoined, QueuesJoinedNext DEF QueuesOfItems, JoinedOfItems
  <1>3. tmpbuf' \o headx' = tmpbuf \o headx
    <2>1. <<Head(headx)>> \o Tail(headx) = headx
      BY <1>1, <1>2
    <2> QED BY <1>1, <1>2, <2>1
  <1>4. Passed(headx')
    <2>1. \A i \in DOMAIN headx' : i + 1 \in DOMAIN headx /\ headx'[i] = headx[i + 1]
      BY <1>1, <1>2
    <2> QED BY <2>1 DEF Lossless, Passed
  <1>5. Same((r \o tmpbuf) \o headx, (r \o tmpbuf') \o headx')
    <2>1. Same(tmpbuf \o headx, tmpbuf' \o headx')
      BY <1>3 DEF Same
    <2> HIDE DEF r
    <2> QED BY <1>2, <2>1, SameBetween, Zenon
  <1>6. Same(UnderWay, UnderWay')
    BY <1>1, <1>5, UpToHeadx
  <1> QED BY <1>4, <1>6

\* The item is put, with its new phones, or refused and kept.
LEMMA FeedSame ==
    ASSUME IInv, IInv', SA!Feed, UNCHANGED <<got, waOutBuf, waInBuf, prOut>>
    PROVE  Same(UnderWay, UnderWay')
  <1>1. UNCHANGED <<headx, waOut>> /\ Len(tmpbuf) = 1
    BY DEF SA!Feed, SA!At, IInv, TypeOK, SA!TypeOK
  <1>2. /\ got \in Seq(Item) /\ saOut \in Seq(Item) /\ tmpbuf \in Seq(Item) /\ headx \in Seq(Item)
        /\ saOut' \in Seq(Item) /\ tmpbuf' \in Seq(Item)
    BY QueuesJoined, QueuesJoinedNext DEF QueuesOfItems, JoinedOfItems
  <1>3. tmpbuf[1] \in Item
    BY <1>1, <1>2, OnlyOK, Zenon
  <1>4. /\ SA!Finished \in Item /\ SA!Finished.n = tmpbuf[1].n
        /\ Genuine(SA!Finished) <=> Genuine(tmpbuf[1])
    BY <1>3 DEF SA!Finished, Genuine, WA!Skipped, Item
  <1> DEFINE y == SA!Finished
  <1>5. Same(tmpbuf, <<y>>) /\ <<y>> \in Seq(Item)
    <2>1. /\ DOMAIN tmpbuf = {1} /\ <<y>> \in Seq(Item) /\ Len(<<y>>) = Len(tmpbuf)
          /\ <<y>>[1] = y
      BY <1>1, <1>2, <1>4
    <2> HIDE DEF y
    <2>2. \A i \in DOMAIN tmpbuf : /\ <<y>>[i].n = tmpbuf[i].n
                                   /\ Genuine(<<y>>[i]) <=> Genuine(tmpbuf[i])
      BY <1>4, <2>1 DEF y
    <2> QED BY <1>2, <2>1, <2>2, SameItems, Zenon
  <1>6. Same(saOut, saOut)
    BY DEF Same
  <1>7. saOut' \o tmpbuf' = saOut \o <<y>>
    <2>1. CASE saOut' = Append(saOut, y) /\ tmpbuf' = <<>>
      <3>1. Append(saOut, y) = saOut \o <<y>>
        BY <1>2, <1>4, AppendJoins, Zenon
      <3>2. Append(saOut, y) \o <<>> = Append(saOut, y)
        BY <1>2, <2>1, JoinedEmpty
      <3> QED BY <2>1, <3>1, <3>2
    <2>2. CASE UNCHANGED saOut /\ tmpbuf' = <<y>>
      BY <2>2
    <2> QED BY <2>1, <2>2 DEF SA!Feed
  <1> HIDE DEF y
  <1>8. Same(saOut \o tmpbuf, saOut' \o tmpbuf')
    <2>1. Same(saOut \o tmpbuf, saOut \o <<y>>)
      BY <1>2, <1>5, <1>6, SameJoined, Zenon
    <2> QED BY <1>7, <2>1
  <1>9. /\ Same((got \o saOut) \o tmpbuf, (got \o saOut') \o tmpbuf')
        /\ (got \o saOut) \o tmpbuf \in Seq(Item) /\ (got \o saOut') \o tmpbuf' \in Seq(Item)
    BY <1>2, <1>8, SameBetween, JoinOK, Zenon
  <1>10. Same(((got \o saOut) \o tmpbuf) \o headx, ((got \o saOut') \o tmpbuf') \o headx)
    BY <1>2, <1>9, SameBehind, Zenon
  <1> QED BY <1>1, <1>10, UpToHeadx

LEMMA SentenceStepsLossless ==
    ASSUME IInv, IInv', Lossless, SentenceStep \/ SentencePass
    PROVE  Lossless'
  <1>1. /\ UNCHANGED <<got, waOutBuf, waInBuf, prOut, sent>> /\ saStatus # "ERROR"
        /\ SA!Call \/ SA!Pass
    BY DEF SentenceStep, SentencePass, waState, history, Operable, SA!Pass, SA!At, SA!Collecting,
           SA!CollectItem, SA!CollectNone, SA!PhraseEnd, SA!ForcedPhraseEnd, SA!DisambPos,
           SA!WordPhones, SA!PhraseDone, SA!ParseItem, SA!Transduce, SA!Transduced, SA!Feed
  <1>2. Passed(waOutBuf') /\ Passed(waOut) /\ Passed(headx)
    BY <1>1 DEF Lossless
  <1>3. CASE UNCHANGED <<saOut, tmpbuf, headx, waOut>>
    <2>1. UnderWay' = UnderWay
      BY <1>1, <1>3 DEF UnderWay
    <2>2. Same(UnderWay, UnderWay')
      BY <2>1 DEF Same
    <2> QED BY <1>1, <1>2, <1>3, <2>2, SameIsLossless
  <1>4. CASE SA!CollectItem
    <2>1. CASE headx' = Append(headx, SA!Converted(Head(waOut)))
      <3>1. Same(UnderWay, UnderWay') /\ Passed(waOut') /\ Passed(headx')
        BY <1>1, <1>4, <2>1, CollectItemSame
      <3> QED BY <1>1, <1>2, <3>1, SameIsLossless
    <2>2. CASE saStatus' = "ERROR" /\ UNCHANGED headx
      <3>1. Passed(waOut')
        <4>1. waOut \in Seq(Fresh) /\ waOut # <<>> /\ waOut' = Tail(waOut)
          BY <1>4 DEF SA!CollectItem, IInv, QueuesOK
        <4>2. \A i \in DOMAIN waOut' : i + 1 \in DOMAIN waOut /\ waOut'[i] = waOut[i + 1]
          BY <4>1
        <4> QED BY <1>2, <4>2 DEF Passed
      <3> QED BY <1>1, <1>2, <2>2, <3>1 DEF Lossless, NothingLost
    <2> QED BY <1>4, <2>1, <2>2 DEF SA!CollectItem, SA!collecting
  <1>5. CASE SA!ForcedPhraseEnd
    <2>1. Same(UnderWay, UnderWay') /\ Passed(headx') /\ UNCHANGED waOut
      BY <1>1, <1>5, ForcedSame DEF SA!ForcedPhraseEnd
    <2> QED BY <1>1, <1>2, <2>1, SameIsLossless
  <1>6. CASE SA!WordPhones
    <2>1. Same(UnderWay, UnderWay') /\ Passed(headx') /\ UNCHANGED waOut
      BY <1>1, <1>6, WordPhonesSame DEF SA!WordPhones
    <2> QED BY <1>1, <1>2, <2>1, SameIsLossless
  <1>7. CASE SA!ParseItem
    <2>1. Same(UnderWay, UnderWay') /\ Passed(headx') /\ UNCHANGED waOut
      BY <1>1, <1>7, ParseItemSame DEF SA!ParseItem
    <2> QED BY <1>1, <1>2, <2>1, SameIsLossless
  <1>8. CASE SA!Feed
    <2>1. Same(UnderWay, UnderWay') /\ UNCHANGED <<headx, waOut>>
      BY <1>1, <1>8, FeedSame DEF SA!Feed
    <2> QED BY <1>1, <1>2, <2>1, SameIsLossless
  <1> QED BY <1>1, <1>3, <1>4, <1>5, <1>6, <1>7, <1>8
          DEF SA!Call, SA!Pass, SA!CollectNone, SA!PhraseEnd, SA!DisambPos, SA!PhraseDone,
              SA!Transduce, SA!Transduced

LEMMA ResetLossless == ASSUME NEW mode, Reset(mode) PROVE Lossless'
  <1>1. /\ got' = <<>> /\ saOut' = <<>> /\ tmpbuf' = <<>> /\ headx' = <<>> /\ waOut' = <<>>
        /\ waOutBuf' = <<>> /\ waInBuf' = <<>> /\ prOut' = <<>> /\ sent' = <<>>
    BY DEF Reset, WA!Initialize, SA!Initialize
  <1>2. UnderWay' = <<>>
    BY <1>1 DEF UnderWay
  <1>3. InOrder(UnderWay') /\ Numbers(UnderWay') = Numbers(sent')
    BY <1>1, <1>2 DEF InOrder
  <1> QED BY <1>1, <1>3 DEF Lossless, NothingLost, Passed

LEMMA InitLossless == Init => Lossless
  <1> SUFFICES ASSUME Init PROVE Lossless
    OBVIOUS
  <1>1. /\ got = <<>> /\ saOut = <<>> /\ tmpbuf = <<>> /\ headx = <<>> /\ waOut = <<>>
        /\ waOutBuf = <<>> /\ waInBuf = <<>> /\ prOut = <<>> /\ sent = <<>>
    BY DEF Init, WA!Blank, SA!Blank
  <1>2. UnderWay = <<>>
    BY <1>1 DEF UnderWay
  <1>3. InOrder(UnderWay) /\ Numbers(UnderWay) = Numbers(sent)
    BY <1>1, <1>2 DEF InOrder
  <1> QED BY <1>1, <1>3 DEF Lossless, NothingLost, Passed

-----------------------------------------------------------------------------
(* Phrases fit.                                                             *)

Closed(s) == s = <<>> \/ s[Len(s)].type = "PUNC"
NoPunc(s) == \A i \in DOMAIN s : s[i].type # "PUNC"

\* The items that have been collected.
Collected == got \o saOut \o tmpbuf \o headx

\* They fit; while a phrase is collected all those before it end in a PUNC and
\* it has none, and from then on it ends in one, too.
PhrasesEnd ==
    /\ Fitting(Collected)
    /\ saProcState = "COLLECT" =>
          Closed(got \o saOut) /\ (IF needsmoreitems THEN NoPunc(headx) ELSE Closed(headx))
    /\ saProcState # "COLLECT" => Closed(Collected)

\* Only where the phrase ends are counts.
LEMMA SamePhrases ==
    ASSUME NEW s \in Seq(Item), NEW t \in Seq(Item), Len(t) = Len(s),
           \A i \in DOMAIN s : t[i].type = "PUNC" <=> s[i].type = "PUNC"
    PROVE  (Fitting(s) => Fitting(t)) /\ (Closed(s) => Closed(t))
  <1>1. DOMAIN s = 1 .. Len(s) /\ DOMAIN t = 1 .. Len(s) /\ Len(s) \in Nat
    OBVIOUS
  <1>2. ASSUME Fitting(s), NEW i \in DOMAIN t, NEW j \in DOMAIN t,
               i =< j, \A m \in i .. j : t[m].type # "PUNC"
        PROVE  j - i + 1 < MaxHeadx
    <2>1. \A m \in i .. j : m \in DOMAIN s
      BY <1>1
    <2>2. \A m \in i .. j : s[m].type # "PUNC"
      BY <1>2, <2>1
    <2> QED BY <1>1, <1>2, <2>2 DEF Fitting
  <1>3. ASSUME Closed(s) PROVE Closed(t)
    <2>1. s = <<>> => t = <<>>
      OBVIOUS
    <2>2. s # <<>> => Len(s) \in DOMAIN s
      BY <1>1
    <2> QED BY <1>1, <1>3, <2>1, <2>2 DEF Closed
  <1> QED BY <1>2, <1>3 DEF Fitting

\* A phrase end fits anywhere.
LEMMA PuncFits ==
    ASSUME NEW s \in Seq(Item), NEW x \in Item, x.type = "PUNC", Fitting(s)
    PROVE  Fitting(Append(s, x)) /\ Closed(Append(s, x))
  <1> DEFINE t == Append(s, x)
  <1>1. /\ DOMAIN t = 1 .. Len(s) + 1 /\ DOMAIN s = 1 .. Len(s) /\ Len(s) \in Nat
        /\ \A i \in DOMAIN s : t[i] = s[i]
        /\ t[Len(s) + 1] = x /\ Len(t) = Len(s) + 1
    OBVIOUS
  <1> HIDE DEF t
  <1>2. ASSUME NEW i \in DOMAIN t, NEW j \in DOMAIN t,
               i =< j, \A m \in i .. j : t[m].type # "PUNC"
        PROVE  j - i + 1 < MaxHeadx
    <2>1. j \in i .. j
      BY <1>1, <1>2
    <2>2. j # Len(s) + 1
      BY <1>1, <1>2, <2>1
    <2>3. i \in DOMAIN s /\ j \in DOMAIN s
      BY <1>1, <1>2, <2>2
    <2>4. \A m \in i .. j : m \in DOMAIN s /\ s[m].type # "PUNC"
      <3>1. \A m \in i .. j : m \in DOMAIN s
        BY <1>1, <2>3
      <3> QED BY <1>1, <1>2, <3>1
    <2> QED BY <1>2, <2>3, <2>4 DEF Fitting
  <1>3. Closed(t)
    BY <1>1 DEF Closed
  <1> QED BY <1>2, <1>3 DEF t, Fitting

\* So does, behind a phrase end, a phrase that is short enough.
LEMMA PhraseFitsBehind ==
    ASSUME NEW s \in Seq(Item), NEW t \in Seq(Item), Fitting(s), Closed(s),
           NoPunc(t), Len(t) < MaxHeadx
    PROVE  Fitting(s \o t)
  <1> DEFINE u == s \o t
  <1>1. /\ DOMAIN u = 1 .. Len(s) + Len(t) /\ DOMAIN s = 1 .. Len(s)
        /\ Len(s) \in Nat /\ Len(t) \in Nat
        /\ \A i \in DOMAIN s : u[i] = s[i]
    OBVIOUS
  <1>2. Len(s) > 0 => u[Len(s)].type = "PUNC"
    <2>1. Len(s) > 0 => s # <<>> /\ Len(s) \in DOMAIN s
      BY <1>1
    <2> QED BY <1>1, <2>1 DEF Closed
  <1> HIDE DEF u
  <1>3. ASSUME NEW i \in DOMAIN u, NEW j \in DOMAIN u,
               i =< j, \A m \in i .. j : u[m].type # "PUNC"
        PROVE  j - i + 1 < MaxHeadx
    <2>1. CASE j =< Len(s)
      <3>1. i \in DOMAIN s /\ j \in DOMAIN s /\ \A m \in i .. j : m \in DOMAIN s
        BY <1>1, <1>3, <2>1
      <3> QED BY <1>1, <1>3, <3>1 DEF Fitting
    <2>2. CASE j > Len(s) /\ i =< Len(s)
      <3>1. Len(s) \in i .. j /\ Len(s) > 0
        BY <1>1, <1>3, <2>2
      <3> QED BY <1>2, <1>3, <3>1
    <2>3. CASE i > Len(s)
      BY <1>1, <1>3, <2>3, FrontEndAssumption
    <2> QED BY <1>1, <2>1, <2>2, <2>3
  <1> QED BY <1>3 DEF u, Fitting

LEMMA ClosedJoined ==
    ASSUME NEW s \in Seq(Item), NEW t \in Seq(Item), Closed(s), Closed(t)
    PROVE  Closed(s \o t)
  <1>1. CASE t = <<>>
    BY <1>1, JoinedEmpty
  <1>2. CASE t # <<>>
    <2>1. Len(s \o t) = Len(s) + Len(t) /\ (s \o t)[Len(s) + Len(t)] = t[Len(t)]
      BY <1>2
    <2> QED BY <1>2, <2>1 DEF Closed
  <1> QED BY <1>1, <1>2

\* Whether an item ends a phrase is not changed by what is done to it.
LEMMA PhrasesAlike ==
    ASSUME IInv, IInv', Len(Collected') = Len(Collected),
           \A i \in DOMAIN Collected : Collected'[i].type = "PUNC" <=> Collected[i].type = "PUNC",
           PhrasesEnd
    PROVE  Fitting(Collected') /\ (Closed(Collected) => Closed(Collected'))
  <1>1. Collected \in Seq(Item) /\ Collected' \in Seq(Item)
    BY QueuesJoined, QueuesJoinedNext DEF JoinedOfItems, Collected
  <1> HIDE DEF Collected
  <1> QED BY <1>1, SamePhrases DEF PhrasesEnd

LEMMA TakePhrases == ASSUME IInv, PhrasesEnd, Take PROVE PhrasesEnd'
  <1>1. UNCHANGED <<tmpbuf, headx, saProcState, needsmoreitems>>
    BY DEF Take, saState
  <1>2. got' \o saOut' = got \o saOut
    <2>1. got \in Seq(Item) /\ saOut \in Seq(Item) /\ saOut # <<>>
      BY QueuesJoined DEF QueuesOfItems, Take
    <2> QED BY <2>1, MovedOn DEF Take
  <1>3. Collected' = Collected
    BY <1>1, <1>2 DEF Collected
  <1> QED BY <1>1, <1>2, <1>3 DEF PhrasesEnd

\* A sequence of one item.
LEMMA OnlyItem ==
    ASSUME NEW S, NEW s \in Seq(S), Len(s) = 1
    PROVE  s[1] \in S /\ s = <<s[1]>>
  <1>1. s[1] \in S
    BY OnlyOK, Zenon
  <1>2. <<s[1]>> \in Seq(S) /\ Len(<<s[1]>>) = 1 /\ <<s[1]>>[1] = s[1]
    BY <1>1
  <1>3. \A i \in 1 .. Len(s) : s[i] = <<s[1]>>[i]
    BY <1>2
  <1> QED BY <1>1, <1>2, <1>3, SeqEqual, Zenon

\* While a phrase is collected nothing is between it and the output.
LEMMA CollectedBehind ==
    ASSUME IInv, saProcState = "COLLECT"
    PROVE  Collected = (got \o saOut) \o headx /\ tmpbuf = <<>>
  <1>1. tmpbuf = <<>>
    BY DEF IInv, TypeOK, SA!TypeOK, LeavingOK
  <1>2. got \o saOut \in Seq(Item)
    BY QueuesJoined DEF JoinedOfItems
  <1>3. (got \o saOut) \o <<>> = got \o saOut
    BY <1>2, JoinedEmpty
  <1> QED BY <1>1, <1>3 DEF Collected

LEMMA CollectItemPhrases ==
    ASSUME IInv, IInv', PhrasesEnd, SA!CollectItem, UNCHANGED got
    PROVE  PhrasesEnd'
  <1> DEFINE q == got \o saOut
             x == SA!Converted(Head(waOut))
  <1>1. /\ saProcState = "COLLECT" /\ needsmoreitems
        /\ UNCHANGED <<saOut, tmpbuf, saProcState>>
    BY DEF SA!CollectItem, SA!Collecting, SA!At
  <1>2. /\ q \in Seq(Item) /\ headx \in Seq(Item) /\ headx' \in Seq(Item)
        /\ waOut \in Seq(Item) /\ waOut # <<>>
    BY QueuesJoined, QueuesJoinedNext DEF QueuesOfItems, JoinedOfItems, SA!CollectItem
  <1>3. Collected = q \o headx /\ tmpbuf = <<>> /\ Collected' = q \o headx'
    <2>1. q \o <<>> = q
      BY <1>2, JoinedEmpty
    <2> QED BY <1>1, <2>1, CollectedBehind DEF Collected
  <1>4. Fitting(q \o headx) /\ Closed(q) /\ NoPunc(headx)
    BY <1>1, <1>3 DEF PhrasesEnd
  <1>5. CASE headx' = Append(headx, x) /\ needsmoreitems' = (x.type # "PUNC")
    <2>1. x \in Item
      <3>1. Head(waOut) \in Item
        BY <1>2
      <3> QED BY <3>1 DEF SA!Converted, Item, Types
    <2> HIDE DEF x, q
    <2>2. /\ headx' = headx \o <<x>> /\ <<x>> \in Seq(Item)
      BY <1>2, <1>5, <2>1, AppendJoins, OneOK, Zenon
    <2>3. CASE x.type = "PUNC"
      <3>1. q \o headx \in Seq(Item)
        BY <1>2, JoinOK, Zenon
      <3>2. q \o headx' = Append(q \o headx, x)
        <4>1. (q \o headx) \o <<x>> = q \o (headx \o <<x>>)
          BY <1>2, <2>2, ConcatAssociative, SMTT(60)
        <4>2. Append(q \o headx, x) = (q \o headx) \o <<x>>
          BY <2>1, <3>1, AppendJoins, Zenon
        <4> QED BY <2>2, <4>1, <4>2
      <3>3. Fitting(Collected')
        BY <1>3, <1>4, <2>1, <2>3, <3>1, <3>2, PuncFits
      <3>4. Closed(headx')
        BY <1>2, <1>5, <2>1, <2>3 DEF Closed
      <3>5. Closed((got \o saOut)')
        BY <1>1, <1>4 DEF q
      <3> QED BY <1>1, <1>5, <2>3, <3>3, <3>4, <3>5 DEF PhrasesEnd
    <2>4. CASE x.type # "PUNC"
      <3>1. NoPunc(headx')
        <4>1. \A i \in DOMAIN headx' : \/ i \in DOMAIN headx /\ headx'[i] = headx[i]
                                       \/ headx'[i] = x
          BY <1>2, <1>5, <2>1
        <4> QED BY <1>4, <2>4, <4>1 DEF NoPunc
      <3>2. Len(headx') < MaxHeadx
        BY <1>1, <1>2, FrontEndAssumption DEF IInv, SlotsOK
      <3>3. Fitting(q)
        <4>1. DOMAIN q = 1 .. Len(q) /\ \A i \in DOMAIN q : i \in DOMAIN (q \o headx)
                                                            /\ (q \o headx)[i] = q[i]
          BY <1>2
        <4>2. ASSUME NEW i \in DOMAIN q, NEW j \in DOMAIN q,
                     i =< j, \A m \in i .. j : q[m].type # "PUNC"
              PROVE  j - i + 1 < MaxHeadx
          <5>1. \A m \in i .. j : m \in DOMAIN q
            BY <1>2, <4>1
          <5>2. \A m \in i .. j : (q \o headx)[m].type # "PUNC"
            BY <4>1, <4>2, <5>1
          <5> QED BY <1>4, <4>1, <4>2, <5>2 DEF Fitting
        <4> QED BY <4>2 DEF Fitting
      <3>4. Fitting(Collected')
        BY <1>2, <1>3, <1>4, <3>1, <3>2, <3>3, PhraseFitsBehind
      <3>5. Closed((got \o saOut)')
        BY <1>1, <1>4 DEF q
      <3> QED BY <1>1, <1>5, <2>4, <3>1, <3>4, <3>5 DEF PhrasesEnd
    <2> QED BY <2>3, <2>4
  <1>6. CASE UNCHANGED <<headx, needsmoreitems>>
    BY <1>1, <1>6 DEF PhrasesEnd, Collected
  <1> QED BY <1>5, <1>6 DEF SA!CollectItem, SA!collecting

LEMMA PhraseEndPhrases ==
    ASSUME IInv, IInv', PhrasesEnd, SA!PhraseEnd \/ SA!ForcedPhraseEnd, UNCHANGED got
    PROVE  PhrasesEnd'
  <1> DEFINE q == got \o saOut
  <1>1. /\ saProcState = "COLLECT" /\ saProcState' = "PROCESS_POSD"
        /\ UNCHANGED <<saOut, tmpbuf>>
    BY DEF SA!PhraseEnd, SA!ForcedPhraseEnd, SA!At
  <1>2. q \in Seq(Item) /\ headx \in Seq(Item)
    BY QueuesJoined DEF QueuesOfItems, JoinedOfItems
  <1>3. Collected = q \o headx /\ tmpbuf = <<>> /\ Collected' = q \o headx'
    <2>1. q \o <<>> = q
      BY <1>2, JoinedEmpty
    <2> QED BY <1>1, <2>1, CollectedBehind DEF Collected
  <1>4. Fitting(q \o headx) /\ Closed(q)
    BY <1>1, <1>3 DEF PhrasesEnd
  <1>5. CASE SA!PhraseEnd
    <2>1. UNCHANGED headx /\ Closed(headx)
      BY <1>1, <1>5 DEF SA!PhraseEnd, PhrasesEnd
    <2>2. Closed(q \o headx)
      BY <1>2, <1>4, <2>1, ClosedJoined
    <2> QED BY <1>1, <1>3, <1>4, <2>1, <2>2 DEF PhrasesEnd
  <1>6. CASE SA!ForcedPhraseEnd
    <2> DEFINE x == SA!Forced
    <2>1. headx' = Append(headx, x) /\ x \in Item /\ x.type = "PUNC"
      BY <1>6 DEF SA!ForcedPhraseEnd, SA!Forced, Item, Types
    <2> HIDE DEF x, q
    <2>2. headx' = headx \o <<x>> /\ <<x>> \in Seq(Item) /\ q \o headx \in Seq(Item)
      BY <1>2, <2>1, AppendJoins, OneOK, JoinOK, Zenon
    <2>3. q \o headx' = Append(q \o headx, x)
      <3>1. (q \o headx) \o <<x>> = q \o (headx \o <<x>>)
        BY <1>2, <2>2, ConcatAssociative, SMTT(60)
      <3>2. Append(q \o headx, x) = (q \o headx) \o <<x>>
        BY <2>1, <2>2, AppendJoins, Zenon
      <3> QED BY <2>2, <3>1, <3>2
    <2>4. Fitting(Collected') /\ Closed(Collected')
      BY <1>3, <1>4, <2>1, <2>2, <2>3, PuncFits
    <2> QED BY <1>1, <2>4 DEF PhrasesEnd
  <1> QED BY <1>5, <1>6

LEMMA WordPhonesPhrases ==
    ASSUME IInv, IInv', PhrasesEnd, SA!WordPhones, UNCHANGED got
    PROVE  PhrasesEnd'
  <1> DEFINE q == got \o saOut \o tmpbuf
  <1>1. /\ saProcState # "COLLECT" /\ saProcState' # "COLLECT" /\ UNCHANGED <<saOut, tmpbuf>>
        /\ headx' = [i \in DOMAIN headx |-> SA!Phones(headx[i])]
    BY DEF SA!WordPhones, SA!At
  <1>2. q \in Seq(Item) /\ headx \in Seq(Item) /\ headx' \in Seq(Item)
    BY QueuesJoined, QueuesJoinedNext DEF QueuesOfItems, JoinedOfItems
  <1>3. \A x \in Item : SA!Phones(x).type = "PUNC" <=> x.type = "PUNC"
    BY DEF Item, SA!Phones, SA!saGraphemeToPhoneme, SA!saLexIndLookup, SA!saCopyItemContent1to2
  <1>4. /\ Len(headx') = Len(headx)
        /\ \A i \in DOMAIN headx : headx'[i].type = "PUNC" <=> headx[i].type = "PUNC"
    <2>1. \A i \in DOMAIN headx : headx[i] \in Item /\ headx'[i] = SA!Phones(headx[i])
      BY <1>1, <1>2
    <2>2. Len(headx') = Len(headx)
      BY <1>1, <1>2
    <2> QED BY <1>3, <2>1, <2>2
  <1>5. Collected = q \o headx /\ Collected' = q \o headx'
    BY <1>1 DEF Collected
  <1> HIDE DEF q
  <1>6. /\ Len(Collected') = Len(Collected)
        /\ \A i \in DOMAIN Collected : Collected'[i].type = "PUNC" <=> Collected[i].type = "PUNC"
    <2>0. Len(q \o headx) = Len(q) + Len(headx) /\ Len(q \o headx') = Len(q) + Len(headx')
      BY <1>2, JoinOK, Zenon
    <2>1. /\ DOMAIN (q \o headx) = 1 .. Len(q) + Len(headx) /\ Len(q \o headx') = Len(q \o headx)
          /\ Len(q) \in Nat /\ Len(headx) \in Nat /\ DOMAIN headx = 1 .. Len(headx)
      BY <1>2, <1>4, <2>0
    <2>2. \A i \in 1 .. Len(q) + Len(headx) :
             \/ (q \o headx)[i] = q[i] /\ (q \o headx')[i] = q[i]
             \/ /\ i - Len(q) \in DOMAIN headx
                /\ (q \o headx)[i] = headx[i - Len(q)] /\ (q \o headx')[i] = headx'[i - Len(q)]
      BY <1>2, <1>4
    <2> QED BY <1>4, <1>5, <2>1, <2>2
  <1> QED BY <1>1, <1>6, PhrasesAlike DEF PhrasesEnd

LEMMA ParseItemPhrases ==
    ASSUME IInv, PhrasesEnd, SA!ParseItem, UNCHANGED got
    PROVE  PhrasesEnd'
  <1> DEFINE q == got \o saOut
  <1>1. /\ UNCHANGED saOut /\ headx # <<>> /\ saProcState # "COLLECT" /\ saProcState' # "COLLECT"
        /\ tmpbuf = <<>> /\ tmpbuf' = <<Head(headx)>> /\ headx' = Tail(headx)
    BY DEF SA!ParseItem, SA!At, IInv, TypeOK, SA!TypeOK, LeavingOK
  <1>2. q \in Seq(Item) /\ headx \in Seq(Item) /\ Head(headx) \in Item
    BY <1>1, QueuesJoined DEF QueuesOfItems, JoinedOfItems
  <1>3. Collected' = Collected
    <2>1. Collected = (q \o <<>>) \o headx /\ Collected' = (q \o <<Head(headx)>>) \o Tail(headx)
      BY <1>1 DEF Collected
    <2> HIDE DEF q
    <2>2. q \o <<>> = q
      BY <1>2, JoinedEmpty
    <2>3. Append(q, Head(headx)) = q \o <<Head(headx)>>
      BY <1>2, AppendJoins, Zenon
    <2>4. Append(q, Head(headx)) \o Tail(headx) = q \o headx
      BY <1>1, <1>2, MovedOn
    <2> QED BY <2>1, <2>2, <2>3, <2>4
  <1> QED BY <1>1, <1>3 DEF PhrasesEnd

LEMMA FeedPhrases ==
    ASSUME IInv, IInv', PhrasesEnd, SA!Feed, UNCHANGED got
    PROVE  PhrasesEnd'
  <1> DEFINE q == got \o saOut
             y == SA!Finished
  <1>1. /\ UNCHANGED headx /\ Len(tmpbuf) = 1
        /\ saProcState # "COLLECT" /\ saProcState' # "COLLECT"
    BY DEF SA!Feed, SA!At, IInv, TypeOK, SA!TypeOK
  <1>2. /\ got \in Seq(Item) /\ saOut \in Seq(Item) /\ tmpbuf \in Seq(Item) /\ headx \in Seq(Item)
        /\ q \in Seq(Item)
    BY QueuesJoined DEF QueuesOfItems, JoinedOfItems
  <1>3. y \in Item /\ (y.type = "PUNC" <=> tmpbuf[1].type = "PUNC") /\ tmpbuf = <<tmpbuf[1]>>
    <2>1. tmpbuf[1] \in Item /\ tmpbuf = <<tmpbuf[1]>>
      BY <1>1, <1>2, OnlyItem, Zenon
    <2> QED BY <2>1 DEF SA!Finished, Item
  <1>4. Collected' = (q \o <<y>>) \o headx
    <2>1. CASE saOut' = Append(saOut, y) /\ tmpbuf' = <<>>
      <3>1. Collected' = ((got \o Append(saOut, y)) \o <<>>) \o headx
        BY <1>1, <2>1 DEF Collected
      <3> HIDE DEF y
      <3>2. Append(saOut, y) = saOut \o <<y>> /\ <<y>> \in Seq(Item)
        BY <1>2, <1>3, AppendJoins, OneOK, Zenon
      <3>3. got \o (saOut \o <<y>>) = (got \o saOut) \o <<y>>
        BY <1>2, <3>2, ConcatAssociative, SMTT(60)
      <3>4. q \o <<y>> \in Seq(Item)
        BY <1>2, <3>2, JoinOK, Zenon
      <3>5. (q \o <<y>>) \o <<>> = q \o <<y>>
        BY <3>4, JoinedEmpty
      <3> QED BY <3>1, <3>2, <3>3, <3>5
    <2>2. CASE UNCHANGED saOut /\ tmpbuf' = <<y>>
      BY <1>1, <2>2 DEF Collected
    <2> QED BY <2>1, <2>2 DEF SA!Feed
  <1>5. Collected = (q \o tmpbuf) \o headx
    BY DEF Collected
  <1>6. /\ Len(Collected') = Len(Collected)
        /\ \A i \in DOMAIN Collected : Collected'[i].type = "PUNC" <=> Collected[i].type = "PUNC"
    <2> DEFINE x == tmpbuf[1]
    <2>0. x \in Item /\ tmpbuf = <<x>>
      BY <1>1, <1>2, OnlyItem, Zenon
    <2>1. Collected = (q \o <<x>>) \o headx /\ x \in Item
      <3> HIDE DEF x
      <3> QED BY <1>5, <2>0
    <2>2. y.type = "PUNC" <=> x.type = "PUNC"
      BY <1>3
    <2> HIDE DEF q, x, y
    <2> DEFINE n == Len(q)
               s == (q \o <<x>>) \o headx
               t == (q \o <<y>>) \o headx
    <2>3. /\ Len(s) = n + 1 + Len(headx) /\ Len(t) = Len(s)
          /\ DOMAIN s = 1 .. n + 1 + Len(headx) /\ Len(headx) \in Nat /\ n \in Nat
      BY <1>2, <1>3, <2>1
    <2>4. \A i \in 1 .. n : s[i] = q[i] /\ t[i] = q[i]
      BY <1>2, <1>3, <2>1
    <2>5. s[n + 1] = x /\ t[n + 1] = y
      BY <1>2, <1>3, <2>1
    <2>6. \A i \in n + 2 .. n + 1 + Len(headx) : s[i] = headx[i - n - 1] /\ t[i] = headx[i - n - 1]
      BY <1>2, <1>3, <2>1
    <2> HIDE DEF s, t, n
    <2>7. \A i \in DOMAIN s : i \in 1 .. n \/ i = n + 1 \/ i \in n + 2 .. n + 1 + Len(headx)
      BY <2>3
    <2>8. \A i \in DOMAIN s : t[i].type = "PUNC" <=> s[i].type = "PUNC"
      BY <2>2, <2>4, <2>5, <2>6, <2>7
    <2> QED BY <1>4, <2>1, <2>3, <2>8 DEF s, t
  <1> QED BY <1>1, <1>6, PhrasesAlike DEF PhrasesEnd

LEMMA SentenceStepsPhrases ==
    ASSUME IInv, IInv', PhrasesEnd, SentenceStep \/ SentencePass
    PROVE  PhrasesEnd'
  <1>1. UNCHANGED got /\ (SA!Call \/ SA!Pass)
    BY DEF SentenceStep, SentencePass, history
  <1>2. CASE SA!PhraseDone
    <2>1. /\ headx = <<>> /\ tmpbuf = <<>> /\ saProcState = "PROCESS_TRNS_PARSE"
          /\ UNCHANGED <<saOut, tmpbuf, headx>>
      BY <1>2 DEF SA!PhraseDone, SA!At, IInv, TypeOK, SA!TypeOK, LeavingOK
    <2>2. Collected = got \o saOut
      <3>1. got \o saOut \in Seq(Item)
        BY QueuesJoined DEF JoinedOfItems
      <3>2. (got \o saOut) \o <<>> = got \o saOut
        BY <3>1, JoinedEmpty
      <3> QED BY <2>1, <3>2 DEF Collected
    <2>3. needsmoreitems' = TRUE
      BY <1>2 DEF SA!PhraseDone
    <2>4. Collected' = Collected /\ (got \o saOut)' = got \o saOut
      BY <1>1, <2>1 DEF Collected
    <2>5. NoPunc(headx')
      BY <2>1 DEF NoPunc
    <2> QED BY <1>2, <2>1, <2>2, <2>3, <2>4, <2>5 DEF PhrasesEnd, SA!PhraseDone
  <1>3. CASE SA!Call \/ SA!CollectNone \/ SA!DisambPos \/ SA!Transduce \/ SA!Transduced
    <2>1. /\ UNCHANGED <<got, saOut, tmpbuf, headx, needsmoreitems>>
          /\ saProcState' = "COLLECT" <=> saProcState = "COLLECT"
      BY <1>1, <1>3 DEF SA!Call, SA!CollectNone, SA!DisambPos, SA!Transduce, SA!Transduced,
                        SA!At, SA!collecting
    <2>2. Collected' = Collected
      BY <2>1 DEF Collected
    <2> QED BY <2>1, <2>2 DEF PhrasesEnd
  <1> QED BY <1>1, <1>2, <1>3, CollectItemPhrases, PhraseEndPhrases, WordPhonesPhrases,
             ParseItemPhrases, FeedPhrases
          DEF SA!Pass

LEMMA OtherStepsPhrases ==
    ASSUME PhrasesEnd, Put \/ WordStep \/ WordPass
    PROVE  PhrasesEnd'
  <1>1. UNCHANGED <<got, saOut, tmpbuf, headx, saProcState, needsmoreitems>>
    BY DEF Put, WordStep, WordPass, saState, history
  <1>2. Collected' = Collected
    BY <1>1 DEF Collected
  <1> QED BY <1>1, <1>2 DEF PhrasesEnd

LEMMA ResetPhrases == ASSUME NEW mode, Reset(mode) PROVE PhrasesEnd'
  <1>1. /\ got' = <<>> /\ saOut' = <<>> /\ tmpbuf' = <<>> /\ headx' = <<>>
        /\ needsmoreitems' = TRUE /\ saProcState' = "COLLECT"
    BY DEF Reset, SA!Initialize
  <1>2. Collected' = <<>> /\ (got \o saOut)' = <<>>
    BY <1>1 DEF Collected
  <1> QED BY <1>1, <1>2 DEF PhrasesEnd, Fitting, Closed, NoPunc

LEMMA InitPhrases == Init => PhrasesEnd
  <1> SUFFICES ASSUME Init PROVE PhrasesEnd
    OBVIOUS
  <1>1. /\ got = <<>> /\ saOut = <<>> /\ tmpbuf = <<>> /\ headx = <<>>
        /\ needsmoreitems = TRUE /\ saProcState = "COLLECT"
    BY DEF Init, SA!Blank
  <1>2. Collected = <<>> /\ got \o saOut = <<>>
    BY <1>1 DEF Collected
  <1> QED BY <1>1, <1>2 DEF PhrasesEnd, Fitting, Closed, NoPunc

\* What has come out is part of what has been collected.
LEMMA CollectedFits == IInv /\ Fitting(Collected) => PhraseFits
  <1> SUFFICES ASSUME IInv, Fitting(Collected) PROVE Fitting(got \o saOut)
    BY DEF PhraseFits
  <1> DEFINE q == got \o saOut
  <1>1. q \in Seq(Item) /\ tmpbuf \in Seq(Item) /\ headx \in Seq(Item)
    BY QueuesJoined DEF QueuesOfItems, JoinedOfItems
  <1>2. Collected = (q \o tmpbuf) \o headx
    BY DEF Collected
  <1> HIDE DEF q
  <1>3. /\ DOMAIN q = 1 .. Len(q) /\ Len(q) \in Nat
        /\ \A i \in DOMAIN q : i \in DOMAIN Collected /\ Collected[i] = q[i]
    BY <1>1, <1>2
  <1>4. ASSUME NEW i \in DOMAIN q, NEW j \in DOMAIN q,
               i =< j, \A m \in i .. j : q[m].type # "PUNC"
        PROVE  j - i + 1 < MaxHeadx
    <2>1. \A m \in i .. j : m \in DOMAIN q
      BY <1>3
    <2>2. \A m \in i .. j : Collected[m].type # "PUNC"
      BY <1>3, <1>4, <2>1
    <2> QED BY <1>3, <1>4, <2>2 DEF Fitting
  <1> QED BY <1>4 DEF q, Fitting

\* Nothing of a text is lost, doubled or overtaken in the two units and the
\* buffers around them while no step fails, and no phrase comes out that is
\* longer than the next unit expects: whatever the sizes of the buffers and
\* headx, the voice's transducers, the items and the order of the steps
\* (waStep, saStep).
THEOREM FrontEndPhrasesKept == Spec => []PhrasesKept
  <1> DEFINE KInv == Lossless /\ PhrasesEnd
  <1>1. Init => KInv
    BY InitLossless, InitPhrases
  <1>2. IInv /\ IInv' /\ KInv /\ [Next]_vars => KInv'
    <2> SUFFICES ASSUME IInv, IInv', Lossless, PhrasesEnd, [Next]_vars
                 PROVE  Lossless' /\ PhrasesEnd'
      OBVIOUS
    <2>1. CASE Put
      BY <2>1, PutLossless, OtherStepsPhrases
    <2>2. CASE Take
      BY <2>2, TakeLossless, TakePhrases
    <2>3. CASE WordStep \/ WordPass
      BY <2>3, WordStepsLossless, OtherStepsPhrases
    <2>4. CASE SentenceStep \/ SentencePass
      BY <2>4, SentenceStepsLossless, SentenceStepsPhrases
    <2>5. CASE \E mode \in {"SOFT", "FULL"} : Reset(mode)
      BY <2>5, ResetLossless, ResetPhrases
    <2>6. CASE UNCHANGED vars
      <3>1. UNCHANGED <<got, saOut, tmpbuf, headx, waOut, waOutBuf, waInBuf, prOut, sent,
                        saStatus, saProcState, needsmoreitems>>
        BY <2>6 DEF vars, WA!vars, SA!vars, SA!collecting, history
      <3>2. UnderWay' = UnderWay /\ Collected' = Collected /\ (got \o saOut)' = got \o saOut
        BY <3>1 DEF UnderWay, Collected
      <3> QED BY <3>1, <3>2 DEF Lossless, NothingLost, PhrasesEnd
    <2> QED BY <2>1, <2>2, <2>3, <2>4, <2>5, <2>6 DEF Next
  <1>3. IInv /\ KInv => PhrasesKept
    BY CollectedFits DEF Lossless, PhrasesEnd, PhrasesKept
  <1> QED BY FrontEndInvariant, <1>1, <1>2, <1>3, PTL DEF Spec

-----------------------------------------------------------------------------
(* The units keep the protocol that the control relies on.                  *)

\* A step of one unit has ended when the other one's begins; a phrase that is
\* ended for want of space has an item; and what is processed fits in headx.
OneUnit == ~ (waStatus = "RUNNING" /\ saStatus = "RUNNING")

PhraseCounts ==
    IF saProcState = "COLLECT" THEN needsmoreitems /\ ~ inspaceok => headx # <<>>
                               ELSE Len(headx) + Len(tmpbuf) =< MaxHeadx

\* The queues as numbers of items.
CountsOK == /\ Len(prOut) \in Nat /\ Len(waInBuf) \in Nat /\ Len(waOutBuf) \in Nat
            /\ Len(waOut) \in Nat /\ Len(headx) \in Nat /\ Len(tmpbuf) \in Nat
            /\ Len(saOut) \in Nat
            /\ Len(waOut) =< Cap /\ Len(saOut) =< Cap /\ Len(headx) =< MaxHeadx
            /\ Len(waInBuf) =< 1 /\ Len(waOutBuf) =< 1

LEMMA CountsOfQueues == IInv => CountsOK
  <1> SUFFICES ASSUME IInv PROVE CountsOK
    OBVIOUS
  <1>1. /\ Len(prOut) \in Nat /\ Len(waInBuf) \in Nat /\ Len(waOutBuf) \in Nat
        /\ Len(waOut) \in Nat /\ Len(headx) \in Nat /\ Len(tmpbuf) \in Nat
        /\ Len(saOut) \in Nat
    BY DEF IInv, QueuesOK, LeavingOK
  <1>2. /\ Len(waOut) =< Cap /\ Len(saOut) =< Cap /\ Len(headx) =< MaxHeadx
        /\ Len(waInBuf) =< 1 /\ Len(waOutBuf) =< 1
    BY <1>1 DEF IInv, TypeOK, WA!TypeOK, SA!TypeOK
  <1> QED BY <1>1, <1>2 DEF CountsOK

LEMMA CountsOfQueuesNext == IInv' => CountsOK'
  BY CountsOfQueues, PTL

\* What the protocol asks of a pass, in numbers of items before and after it.
LEMMA WordPassByCounts ==
    ASSUME CountsOK, CountsOK', waStatus = "RUNNING",
           Len(prOut)' =< Len(prOut), Len(waOut) =< Len(waOut)',
           Len(waInBuf) + Len(prOut) - Len(prOut)' - Len(waInBuf)' >= 0,
           Len(waOutBuf)' - Len(waOutBuf) + Len(waOut)' - Len(waOut) >= 0,
           Len(waOutBuf)' - Len(waOutBuf) + Len(waOut)' - Len(waOut) > 0
              => Len(waInBuf) + Len(prOut) - Len(prOut)' - Len(waInBuf)' > 0,
           \/ waStatus' \in {"RUNNING", "BUSY"}
           \/ waStatus' = "IDLE" /\ Len(prOut)' = 0 /\ Len(waOutBuf)' = 0
           \/ waStatus' = "OUT_FULL" /\ Len(waOutBuf)' > 0 /\ Len(waOut)' = Cap
    PROVE  WA!Protocol!Pass
  <1> DEFINE i == Len(prOut)     i2 == Len(prOut)'
             h == Len(waInBuf)   h2 == Len(waInBuf)'
             r == Len(waOutBuf)  r2 == Len(waOutBuf)'
             o == Len(waOut)     o2 == Len(waOut)'
             took == i - i2
             put == o2 - o
             done == h + took - h2
             made == r2 - r + put
  <1>1. /\ i \in Nat /\ i2 \in Nat /\ h \in Nat /\ h2 \in Nat /\ r \in Nat /\ r2 \in Nat
        /\ o \in Nat /\ o2 \in Nat /\ h2 =< 1 /\ r2 =< 1 /\ o2 =< Cap /\ Cap \in Nat
    BY FrontEndAssumption DEF CountsOK
  <1>2. /\ i2 =< i /\ o =< o2 /\ h + i - i2 - h2 >= 0 /\ r2 - r + o2 - o >= 0
        /\ r2 - r + o2 - o > 0 => h + i - i2 - h2 > 0
        /\ \/ waStatus' \in {"RUNNING", "BUSY"}
           \/ waStatus' = "IDLE" /\ i2 = 0 /\ r2 = 0
           \/ waStatus' = "OUT_FULL" /\ r2 > 0 /\ o2 = Cap
    OBVIOUS
  <1> HIDE DEF i, i2, h, h2, r, r2, o, o2
  <1>3. took >= 0 /\ put >= 0 /\ done >= 0 /\ made >= 0
    BY <1>1, <1>2
  <1>4. WA!Protocol!Unit!Moves(0, took, done, made, put)
    <2>1. /\ took =< i /\ done =< h + took /\ h + took - done =< 1 /\ (made > 0 => done > 0)
          /\ put =< r + made /\ r + made - put =< 1 /\ put =< Cap - o
      BY <1>1, <1>2
    <2> QED BY <2>1 DEF WA!Protocol!Unit!Moves, i, h, r, o
  <1>5. \/ waStatus' = "RUNNING"
        \/ /\ waStatus' \in WA!Protocol!Unit!PuStatus
           /\ WA!Protocol!Unit!Reason(0, took, done, made, put, waStatus')
    <2>1. /\ waStatus' = "IDLE" => took = i /\ r + made - put = 0
          /\ waStatus' = "OUT_FULL" => r + made - put > 0 /\ o + put = Cap
          /\ waStatus' \in {"RUNNING", "BUSY", "IDLE", "OUT_FULL"}
      BY <1>1, <1>2
    <2> QED BY <2>1 DEF WA!Protocol!Unit!Reason, WA!Protocol!Unit!ReadyAfter,
                        WA!Protocol!Unit!PuStatus, i, r, o
  <1> QED BY <1>3, <1>4, <1>5 DEF WA!Protocol!Pass, i, i2, h, h2, r, r2, o, o2

LEMMA WordPassProtocol ==
    ASSUME IInv, IInv', WA!Pass
    PROVE  WA!Protocol!Pass
  <1>1. CountsOK /\ CountsOK' /\ waStatus = "RUNNING"
    BY CountsOfQueues, CountsOfQueuesNext DEF WA!Pass, WA!Collect, WA!Process, WA!Feed, WA!At
  <1>2. CASE WA!Collect
    <2>1. Len(waInBuf) = 0 /\ Len(waOutBuf) = 0
      BY <1>2 DEF IInv, TypeOK, WA!TypeOK, WA!Collect, WA!At
    <2>2. CASE prOut # <<>> /\ waInBuf' = <<Head(prOut)>> /\ prOut' = Tail(prOut)
               /\ UNCHANGED <<waOut, waOutBuf, waStatus>>
      <3>1. Len(prOut)' = Len(prOut) - 1 /\ Len(waInBuf)' = 1
        <4>1. prOut \in Seq(Fresh)
          BY DEF IInv, QueuesOK
        <4> QED BY <2>2, <4>1
      <3>2. UNCHANGED <<Len(waOut), Len(waOutBuf)>> /\ waStatus' = "RUNNING"
        BY <1>1, <2>2
      <3> HIDE <1>2
      <3> QED BY <1>1, <2>1, <3>1, <3>2, WordPassByCounts DEF CountsOK
    <2>3. CASE UNCHANGED <<prOut, waInBuf, waOut, waOutBuf>> /\ waStatus' = "IDLE" /\ prOut = <<>>
      <3>1. /\ UNCHANGED <<Len(prOut), Len(waInBuf), Len(waOut), Len(waOutBuf)>>
            /\ Len(prOut) = 0
        BY <2>3
      <3> QED BY <1>1, <2>1, <2>3, <3>1, WordPassByCounts DEF CountsOK
    <2> QED BY <1>2, <2>2, <2>3 DEF WA!Collect
  <1>3. CASE WA!Process
    <2>1. /\ Len(waInBuf) = 1 /\ Len(waInBuf)' = 0 /\ Len(waOutBuf) = 0
          /\ UNCHANGED <<Len(prOut), Len(waOut)>>
      BY <1>3 DEF IInv, TypeOK, WA!TypeOK, WA!Process, WA!At
    <2>2. Len(waOutBuf)' \in {0, 1} /\ waStatus' \in {"RUNNING", "BUSY"}
      BY <1>1, <1>3, <2>1 DEF WA!Process, CountsOK
    <2> QED BY <1>1, <2>1, <2>2, WordPassByCounts DEF CountsOK
  <1>4. CASE WA!Feed
    <2>1. Len(waOutBuf) = 1 /\ UNCHANGED <<Len(prOut), Len(waInBuf)>>
      BY <1>4 DEF IInv, TypeOK, WA!TypeOK, WA!Feed, WA!At
    <2>2. CASE waOut' = waOut \o waOutBuf /\ waOutBuf' = <<>> /\ waStatus' = "BUSY"
      <3>1. Len(waOut)' = Len(waOut) + Len(waOutBuf) /\ Len(waOutBuf)' = 0
        <4>1. waOut \in Seq(Fresh) /\ waOutBuf \in Seq(Fresh)
          BY DEF IInv, QueuesOK
        <4> QED BY <2>2, <4>1
      <3> QED BY <1>1, <2>1, <2>2, <3>1, WordPassByCounts DEF CountsOK
    <2>3. CASE Len(waOut) >= Cap /\ waStatus' = "OUT_FULL" /\ UNCHANGED <<waOut, waOutBuf>>
      <3>1. Len(waOut) = Cap /\ Len(waOut)' = Cap /\ Len(waOutBuf)' = 1
        BY <1>1, <2>1, <2>3, FrontEndAssumption DEF CountsOK
      <3>2. /\ Len(prOut)' = Len(prOut) /\ Len(waInBuf)' = Len(waInBuf)
            /\ Len(waInBuf) + Len(prOut) - Len(prOut)' - Len(waInBuf)' = 0
            /\ Len(waOutBuf)' - Len(waOutBuf) + Len(waOut)' - Len(waOut) = 0
        BY <1>1, <2>1, <3>1, FrontEndAssumption DEF CountsOK
      <3> QED BY <1>1, <2>3, <3>1, <3>2, WordPassByCounts DEF CountsOK
    <2> QED BY <1>4, <2>2, <2>3 DEF WA!Feed
  <1> QED BY <1>2, <1>3, <1>4 DEF WA!Pass

\* What the other steps are to word analysis.
LEMMA WordStepsProtocol ==
    ASSUME IInv, IInv', OneUnit, [Next]_vars
    PROVE  [WA!Protocol!Next]_WA!Protocol!vars
  <1> USE DEF WA!Protocol!Next, WA!Protocol!vars
  <1>0. CountsOK /\ CountsOK'
    BY CountsOfQueues, CountsOfQueuesNext
  <1>1. CASE Put
    <2>1. /\ waStatus # "RUNNING" /\ UNCHANGED <<waOut, waInBuf, waOutBuf, waStatus>>
          /\ Len(prOut)' = Len(prOut) + 1
      BY <1>1 DEF Put, Operable, AtRest, waState, IInv, QueuesOK
    <2> QED BY <1>0, <2>1 DEF WA!Protocol!Neighbours, CountsOK
  <1>2. CASE Take \/ SentenceStep
    <2>1. UNCHANGED <<prOut, waOut, waInBuf, waOutBuf, waStatus>>
      BY <1>2 DEF Take, SentenceStep, SA!Call, waState
    <2> QED BY <2>1
  <1>3. CASE WordStep
    <2>1. /\ waStatus # "RUNNING" /\ waStatus' = "RUNNING"
          /\ UNCHANGED <<prOut, waOut, waInBuf, waOutBuf>>
      BY <1>3 DEF WordStep, WA!Call
    <2> QED BY <2>1 DEF WA!Protocol!Call
  <1>4. CASE WordPass
    BY <1>4, WordPassProtocol DEF WordPass
  <1>5. CASE SentencePass
    <2>1. UNCHANGED <<prOut, waInBuf, waOutBuf, waStatus>> /\ SA!Pass
      BY <1>5 DEF SentencePass, waState
    <2>2. waStatus # "RUNNING"
      BY <2>1 DEF OneUnit, SA!Pass, SA!At, SA!Collecting, SA!CollectItem, SA!CollectNone,
                  SA!PhraseEnd, SA!ForcedPhraseEnd, SA!DisambPos, SA!WordPhones, SA!PhraseDone,
                  SA!ParseItem, SA!Transduce, SA!Transduced, SA!Feed
    <2>3. Len(waOut)' =< Len(waOut)
      <3>1. CASE SA!CollectItem
        BY <3>1 DEF SA!CollectItem, IInv, QueuesOK
      <3>2. CASE UNCHANGED waOut
        BY <1>0, <3>2 DEF CountsOK
      <3> QED BY <2>1, <3>1, <3>2
              DEF SA!Pass, SA!CollectNone, SA!PhraseEnd, SA!ForcedPhraseEnd, SA!DisambPos,
                  SA!WordPhones, SA!PhraseDone, SA!ParseItem, SA!Transduce, SA!Transduced, SA!Feed
    <2> QED BY <1>0, <2>1, <2>2, <2>3 DEF WA!Protocol!Neighbours, CountsOK
  <1>6. CASE \E mode \in {"SOFT", "FULL"} : Reset(mode)
    <2>1. /\ waStatus # "RUNNING" /\ waStatus' = "NONE"
          /\ prOut' = <<>> /\ waOut' = <<>> /\ waInBuf' = <<>> /\ waOutBuf' = <<>>
      BY <1>6 DEF Reset, AtRest, WA!Initialize
    <2> QED BY <2>1 DEF WA!Protocol!Initialize
  <1>7. CASE UNCHANGED vars
    BY <1>7 DEF vars, WA!vars
  <1> QED BY <1>1, <1>2, <1>3, <1>4, <1>5, <1>6, <1>7 DEF Next

\* What the sentence analysis holds and has ready, and what the protocol asks of
\* its passes.
saHeld == IF saProcState = "COLLECT" THEN Len(headx) ELSE 0
saReady == IF saProcState = "COLLECT" THEN 0 ELSE Len(headx) + Len(tmpbuf)

LEMMA SentencePassByCounts ==
    ASSUME CountsOK, CountsOK', PhraseCounts', saStatus = "RUNNING",
           Len(waOut)' =< Len(waOut), Len(saOut) =< Len(saOut)',
           saHeld + Len(waOut) - Len(waOut)' - saHeld' >= 0,
           saReady' - saReady + Len(saOut)' - Len(saOut) >= 0,
           saReady' - saReady + Len(saOut)' - Len(saOut) > 0
              => saHeld + Len(waOut) - Len(waOut)' - saHeld' > 0,
           \/ saStatus' \in {"RUNNING", "BUSY", "ATOMIC", "ERROR"}
           \/ saStatus' = "IDLE" /\ Len(waOut)' = 0 /\ saReady' = 0
           \/ saStatus' = "OUT_FULL" /\ saReady' > 0 /\ Len(saOut)' = Cap
    PROVE  SA!Protocol!Pass
  <1> DEFINE i == Len(waOut)   i2 == Len(waOut)'
             h == saHeld       h2 == saHeld'
             r == saReady      r2 == saReady'
             o == Len(saOut)   o2 == Len(saOut)'
             took == i - i2
             put == o2 - o
             done == h + took - h2
             made == r2 - r + put
  <1>1. /\ i \in Nat /\ i2 \in Nat /\ o \in Nat /\ o2 \in Nat /\ o2 =< Cap
        /\ h \in Nat /\ h2 \in Nat /\ r \in Nat /\ r2 \in Nat
        /\ h2 =< MaxHeadx /\ r2 =< MaxHeadx /\ Cap \in Nat /\ MaxHeadx \in Nat
    <2>1. /\ i \in Nat /\ i2 \in Nat /\ o \in Nat /\ o2 \in Nat /\ o2 =< Cap
          /\ Cap \in Nat /\ MaxHeadx \in Nat
      BY FrontEndAssumption DEF CountsOK
    <2>2. h \in Nat /\ r \in Nat
      BY DEF CountsOK, saHeld, saReady
    <2>3. CASE saProcState' = "COLLECT"
      <3>1. h2 = Len(headx)' /\ r2 = 0
        BY <2>3 DEF saHeld, saReady
      <3>2. Len(headx)' \in Nat /\ Len(headx)' =< MaxHeadx
        BY DEF CountsOK
      <3> HIDE DEF i, i2, h, h2, r, r2, o, o2
      <3> QED BY <2>1, <2>2, <3>1, <3>2
    <2>4. CASE saProcState' # "COLLECT"
      <3>1. h2 = 0 /\ r2 = Len(headx)' + Len(tmpbuf)'
        BY <2>4 DEF saHeld, saReady
      <3>2. Len(headx)' \in Nat /\ Len(tmpbuf)' \in Nat /\ Len(headx)' + Len(tmpbuf)' =< MaxHeadx
        BY <2>4 DEF CountsOK, PhraseCounts
      <3> HIDE DEF i, i2, h, h2, r, r2, o, o2
      <3> QED BY <2>1, <2>2, <3>1, <3>2
    <2> QED BY <2>3, <2>4
  <1>2. /\ i2 =< i /\ o =< o2 /\ h + i - i2 - h2 >= 0 /\ r2 - r + o2 - o >= 0
        /\ r2 - r + o2 - o > 0 => h + i - i2 - h2 > 0
        /\ \/ saStatus' \in {"RUNNING", "BUSY", "ATOMIC", "ERROR"}
           \/ saStatus' = "IDLE" /\ i2 = 0 /\ r2 = 0
           \/ saStatus' = "OUT_FULL" /\ r2 > 0 /\ o2 = Cap
    OBVIOUS
  <1> HIDE DEF i, i2, h, h2, r, r2, o, o2
  <1>3. took >= 0 /\ put >= 0 /\ done >= 0 /\ made >= 0
    BY <1>1, <1>2
  <1>4. SA!Protocol!Unit!Moves(0, took, done, made, put)
    <2>1. /\ took =< i /\ done =< h + took /\ h + took - done =< MaxHeadx
          /\ made > 0 => done > 0
          /\ put =< r + made /\ r + made - put =< MaxHeadx /\ put =< Cap - o
      BY <1>1, <1>2
    <2> QED BY <2>1 DEF SA!Protocol!Unit!Moves, i, h, r, o, saHeld, saReady
  <1>5. \/ saStatus' = "RUNNING"
        \/ /\ saStatus' \in SA!Protocol!Unit!PuStatus
           /\ SA!Protocol!Unit!Reason(0, took, done, made, put, saStatus')
    <2>1. /\ saStatus' = "IDLE" => took = i /\ r + made - put = 0
          /\ saStatus' = "OUT_FULL" => r + made - put > 0 /\ o + put = Cap
          /\ saStatus' \in {"RUNNING", "BUSY", "ATOMIC", "ERROR", "IDLE", "OUT_FULL"}
      BY <1>1, <1>2
    <2> QED BY <2>1 DEF SA!Protocol!Unit!Reason, SA!Protocol!Unit!ReadyAfter,
                        SA!Protocol!Unit!PuStatus, i, r, o, saReady
  <1> QED BY <1>3, <1>4, <1>5
          DEF SA!Protocol!Pass, i, i2, h, h2, r, r2, o, o2, saHeld, saReady

\* The same for each case of saStep's switch.
LEMMA CollectProtocol ==
    ASSUME IInv, CountsOK, CountsOK', PhraseCounts', SA!CollectItem \/ SA!CollectNone
    PROVE  SA!Protocol!Pass
  <1>1. /\ saStatus = "RUNNING" /\ saProcState = "COLLECT" /\ saProcState' = "COLLECT"
        /\ UNCHANGED saOut
    BY DEF SA!CollectItem, SA!CollectNone, SA!Collecting, SA!At
  <1>2. /\ saHeld = Len(headx) /\ saHeld' = Len(headx)' /\ saReady = 0 /\ saReady' = 0
        /\ Len(saOut)' = Len(saOut)
    BY <1>1 DEF saHeld, saReady
  <1>3. CASE SA!CollectItem
    <2>1. Len(waOut)' = Len(waOut) - 1
      <3>1. waOut \in Seq(Fresh) /\ waOut # <<>> /\ waOut' = Tail(waOut)
        BY <1>3 DEF SA!CollectItem, IInv, QueuesOK
      <3> QED BY <3>1
    <2>2. Len(headx)' \in {Len(headx), Len(headx) + 1} /\ saStatus' \in {"RUNNING", "ERROR"}
      <3>1. CASE headx' = Append(headx, SA!Converted(Head(waOut))) /\ UNCHANGED saStatus
        <4> DEFINE x == SA!Converted(Head(waOut))
        <4> HIDE DEF x
        <4>1. headx' = Append(headx, x)
          BY <3>1 DEF x
        <4>2. headx \in Seq(Fresh)
          BY DEF IInv, QueuesOK
        <4>3. Len(headx)' = Len(headx) + 1
          BY <4>1, <4>2
        <4> QED BY <1>1, <3>1, <4>3
      <3>2. CASE saStatus' = "ERROR" /\ UNCHANGED headx
        BY <3>2
      <3> QED BY <1>3, <3>1, <3>2 DEF SA!CollectItem, SA!collecting
    <2> HIDE <1>3
    <2> QED BY <1>1, <1>2, <2>1, <2>2, SentencePassByCounts, SMTT(30) DEF CountsOK
  <1>4. CASE SA!CollectNone
    <2>1. Len(waOut) = 0 /\ Len(waOut)' = 0 /\ Len(headx)' = Len(headx) /\ saStatus' = "IDLE"
      BY <1>4 DEF SA!CollectNone
    <2> HIDE <1>4
    <2> QED BY <1>1, <1>2, <2>1, SentencePassByCounts DEF CountsOK
  <1> QED BY <1>3, <1>4

LEMMA PhraseEndProtocol ==
    ASSUME IInv, CountsOK, CountsOK', PhraseCounts, PhraseCounts',
           SA!PhraseEnd \/ SA!ForcedPhraseEnd
    PROVE  SA!Protocol!Pass
  <1>1. /\ saStatus = "RUNNING" /\ saProcState = "COLLECT" /\ saProcState' = "PROCESS_POSD"
        /\ UNCHANGED <<saOut, waOut, tmpbuf>> /\ saStatus' = "ATOMIC"
    BY DEF SA!PhraseEnd, SA!ForcedPhraseEnd, SA!At
  <1>2. Len(tmpbuf) = 0 /\ Len(tmpbuf)' = 0
    BY <1>1 DEF IInv, TypeOK, SA!TypeOK
  <1>3. /\ saHeld = Len(headx) /\ saHeld' = 0 /\ saReady = 0 /\ saReady' = Len(headx)'
        /\ Len(saOut)' = Len(saOut) /\ Len(waOut)' = Len(waOut)
    BY <1>1, <1>2 DEF saHeld, saReady, CountsOK
  <1>4. CASE SA!PhraseEnd
    <2>1. Len(headx)' = Len(headx)
      BY <1>4 DEF SA!PhraseEnd
    <2> HIDE <1>4
    <2> QED BY <1>1, <1>3, <2>1, SentencePassByCounts DEF CountsOK
  <1>5. CASE SA!ForcedPhraseEnd
    <2>1. headx \in Seq(Fresh) /\ headx # <<>> /\ headx' = Append(headx, SA!Forced)
      BY <1>1, <1>5 DEF SA!ForcedPhraseEnd, PhraseCounts, IInv, QueuesOK
    <2>2. Len(headx)' = Len(headx) + 1 /\ Len(headx) > 0
      <3> DEFINE x == SA!Forced
      <3> HIDE DEF x
      <3>1. headx' = Append(headx, x)
        BY <2>1 DEF x
      <3> QED BY <2>1, <3>1
    <2> HIDE <1>5
    <2> QED BY <1>1, <1>3, <2>2, SentencePassByCounts DEF CountsOK
  <1> QED BY <1>4, <1>5

LEMMA ProcessProtocol ==
    ASSUME IInv, CountsOK, CountsOK', PhraseCounts',
           \/ SA!DisambPos \/ SA!WordPhones \/ SA!PhraseDone
           \/ SA!ParseItem \/ SA!Transduce \/ SA!Transduced
    PROVE  SA!Protocol!Pass
  <1>1. /\ saStatus = "RUNNING" /\ saProcState # "COLLECT" /\ UNCHANGED <<waOut, saOut>>
        /\ saStatus' \in {"RUNNING", "BUSY", "ATOMIC"}
    BY DEF SA!DisambPos, SA!WordPhones, SA!PhraseDone, SA!ParseItem, SA!Transduce,
           SA!Transduced, SA!At
  <1>2. /\ saHeld = 0 /\ saReady = Len(headx) + Len(tmpbuf)
        /\ Len(saOut)' = Len(saOut) /\ Len(waOut)' = Len(waOut)
    BY <1>1 DEF saHeld, saReady
  <1>3. saHeld' = 0 /\ saReady' = saReady
    <2>1. CASE SA!PhraseDone
      <3>1. /\ Len(headx) = 0 /\ Len(headx)' = 0 /\ Len(tmpbuf) = 0 /\ saProcState' = "COLLECT"
        BY <2>1 DEF SA!PhraseDone, SA!At, IInv, TypeOK, SA!TypeOK
      <3> QED BY <1>2, <3>1 DEF saHeld, saReady
    <2>2. CASE SA!ParseItem
      <3>1. /\ Len(tmpbuf) = 0 /\ Len(tmpbuf)' = 1 /\ saProcState' # "COLLECT"
        BY <2>2 DEF SA!ParseItem, SA!At, IInv, TypeOK, SA!TypeOK
      <3>2. Len(headx)' = Len(headx) - 1 /\ Len(headx) \in Nat
        <4>1. headx \in Seq(Fresh) /\ headx # <<>> /\ headx' = Tail(headx)
          BY <2>2 DEF SA!ParseItem, IInv, QueuesOK
        <4> QED BY <4>1
      <3>3. saHeld' = 0 /\ saReady' = Len(headx)' + Len(tmpbuf)'
        BY <3>1 DEF saHeld, saReady
      <3> QED BY <1>2, <3>1, <3>2, <3>3
    <2>3. CASE SA!WordPhones
      <3>1. UNCHANGED tmpbuf /\ saProcState' # "COLLECT"
        BY <2>3 DEF SA!WordPhones
      <3>2. Len(headx)' = Len(headx)
        <4>1. headx \in Seq(Fresh) /\ headx' = [i \in DOMAIN headx |-> SA!Phones(headx[i])]
          BY <2>3 DEF SA!WordPhones, IInv, QueuesOK
        <4> QED BY <4>1
      <3> QED BY <1>2, <3>1, <3>2 DEF saHeld, saReady
    <2>4. CASE SA!DisambPos \/ SA!Transduce \/ SA!Transduced
      <3>1. UNCHANGED <<headx, tmpbuf>> /\ saProcState' # "COLLECT"
        BY <2>4 DEF SA!DisambPos, SA!Transduce, SA!Transduced, SA!At
      <3> QED BY <1>2, <3>1 DEF saHeld, saReady
    <2> QED BY <2>1, <2>2, <2>3, <2>4
  <1>4. saReady \in Nat
    BY <1>2 DEF CountsOK
  <1>5. /\ saHeld + Len(waOut) - Len(waOut)' - saHeld' = 0
        /\ saReady' - saReady + Len(saOut)' - Len(saOut) = 0
    BY <1>2, <1>3, <1>4 DEF CountsOK
  <1>6. Len(waOut)' =< Len(waOut) /\ Len(saOut) =< Len(saOut)'
    BY <1>2 DEF CountsOK
  <1> QED BY <1>1, <1>5, <1>6, SentencePassByCounts

LEMMA FeedProtocol ==
    ASSUME IInv, CountsOK, CountsOK', PhraseCounts', SA!Feed
    PROVE  SA!Protocol!Pass
  <1>1. /\ saStatus = "RUNNING" /\ saProcState # "COLLECT" /\ saProcState' # "COLLECT"
        /\ UNCHANGED <<waOut, headx>> /\ Len(tmpbuf) = 1
    BY DEF SA!Feed, SA!At, IInv, TypeOK, SA!TypeOK
  <1>2. /\ saHeld = 0 /\ saReady = Len(headx) + 1 /\ saHeld' = 0
        /\ saReady' = Len(headx) + Len(tmpbuf)' /\ Len(waOut)' = Len(waOut)
    BY <1>1 DEF saHeld, saReady
  <1> DEFINE y == SA!Finished
  <1>3. CASE saOut' = Append(saOut, y) /\ tmpbuf' = <<>> /\ UNCHANGED saStatus
    <2>1. saOut \in Seq(Leaving)
      BY DEF IInv, LeavingOK
    <2> HIDE DEF y
    <2>2. Len(saOut)' = Len(saOut) + 1 /\ Len(tmpbuf)' = 0
      BY <1>3, <2>1
    <2>3. /\ saHeld + Len(waOut) - Len(waOut)' - saHeld' = 0
          /\ saReady' - saReady + Len(saOut)' - Len(saOut) = 0
          /\ Len(waOut)' =< Len(waOut) /\ Len(saOut) =< Len(saOut)'
      BY <1>2, <2>2 DEF CountsOK
    <2> QED BY <1>1, <1>3, <2>3, SentencePassByCounts
  <1>4. CASE tmpbuf' = <<y>> /\ saStatus' = "OUT_FULL" /\ Len(saOut) >= Cap /\ UNCHANGED saOut
    <2> HIDE DEF y
    <2>1. Len(tmpbuf)' = 1 /\ Len(saOut)' = Cap /\ Len(saOut) = Cap
      BY <1>4, FrontEndAssumption DEF CountsOK
    <2>2. /\ saHeld + Len(waOut) - Len(waOut)' - saHeld' = 0
          /\ saReady' - saReady + Len(saOut)' - Len(saOut) = 0 /\ saReady' > 0
          /\ Len(waOut)' =< Len(waOut) /\ Len(saOut) =< Len(saOut)'
      BY <1>2, <2>1, FrontEndAssumption DEF CountsOK
    <2> QED BY <1>1, <1>4, <2>1, <2>2, SentencePassByCounts
  <1> QED BY <1>3, <1>4 DEF SA!Feed

LEMMA SentencePassProtocol ==
    ASSUME IInv, IInv', PhraseCounts, PhraseCounts', SA!Pass
    PROVE  SA!Protocol!Pass
  <1>1. CountsOK /\ CountsOK'
    BY CountsOfQueues, CountsOfQueuesNext
  <1> QED BY <1>1, CollectProtocol, PhraseEndProtocol, ProcessProtocol, FeedProtocol DEF SA!Pass

\* A pass begins and ends within one step of saStep.
LEMMA SentenceRuns ==
    SA!Pass => saStatus = "RUNNING"
  BY DEF SA!Pass, SA!At, SA!Collecting, SA!CollectItem, SA!CollectNone,
         SA!PhraseEnd, SA!ForcedPhraseEnd, SA!DisambPos, SA!WordPhones, SA!PhraseDone,
         SA!ParseItem, SA!Transduce, SA!Transduced, SA!Feed

\* The two counts are kept.
LEMMA PhraseCountsOK ==
    ASSUME IInv, IInv', PhraseCounts, [Next]_vars
    PROVE  PhraseCounts'
  <1>0. CountsOK /\ CountsOK'
    BY CountsOfQueues, CountsOfQueuesNext
  <1>1. CASE UNCHANGED <<saProcState, inspaceok, needsmoreitems, headx, tmpbuf>>
    BY <1>1 DEF PhraseCounts
  <1>2. CASE SA!CollectItem
    <2>1. saProcState' = "COLLECT"
      BY <1>2 DEF SA!CollectItem, SA!Collecting, SA!At
    <2>2. CASE headx' = Append(headx, SA!Converted(Head(waOut)))
      <3>1. headx' # <<>>
        <4> DEFINE x == SA!Converted(Head(waOut))
        <4> HIDE DEF x
        <4>1. headx' = Append(headx, x) /\ headx \in Seq(Fresh)
          BY <2>2 DEF x, IInv, QueuesOK
        <4> QED BY <4>1
      <3> QED BY <2>1, <3>1 DEF PhraseCounts
    <2>3. CASE UNCHANGED <<headx, inspaceok, needsmoreitems>>
      BY <1>2, <2>1, <2>3 DEF PhraseCounts, SA!CollectItem, SA!Collecting, SA!At
    <2> QED BY <1>2, <2>2, <2>3 DEF SA!CollectItem, SA!collecting
  <1>3. CASE SA!PhraseEnd \/ SA!ForcedPhraseEnd
    <2>1. /\ saProcState' = "PROCESS_POSD" /\ Len(tmpbuf)' = 0
          /\ Len(headx)' \in Nat /\ Len(headx)' =< MaxHeadx
      BY <1>0, <1>3 DEF SA!PhraseEnd, SA!ForcedPhraseEnd, SA!At, IInv, TypeOK, SA!TypeOK, CountsOK
    <2> QED BY <2>1, FrontEndAssumption DEF PhraseCounts
  <1>4. CASE SA!WordPhones
    <2>1. headx \in Seq(Fresh) /\ headx' = [i \in DOMAIN headx |-> SA!Phones(headx[i])]
      BY <1>4 DEF SA!WordPhones, IInv, QueuesOK
    <2>2. Len(headx)' = Len(headx)
      BY <2>1
    <2>3. saProcState # "COLLECT" /\ saProcState' # "COLLECT" /\ UNCHANGED tmpbuf
      BY <1>4 DEF SA!WordPhones, SA!At
    <2> QED BY <2>2, <2>3 DEF PhraseCounts
  <1>5. CASE SA!PhraseDone
    BY <1>5 DEF SA!PhraseDone, PhraseCounts
  <1>6. CASE SA!ParseItem
    <2>1. headx \in Seq(Fresh) /\ headx # <<>> /\ headx' = Tail(headx)
      BY <1>6 DEF SA!ParseItem, IInv, QueuesOK
    <2>2. Len(headx)' = Len(headx) - 1
      BY <2>1
    <2>3. saProcState' # "COLLECT" /\ Len(tmpbuf)' = 1
      BY <1>6 DEF SA!ParseItem
    <2> QED BY <1>0, <2>2, <2>3, FrontEndAssumption DEF PhraseCounts, CountsOK
  <1>7. CASE SA!DisambPos \/ SA!Transduce \/ SA!Transduced
    BY <1>7 DEF SA!DisambPos, SA!Transduce, SA!Transduced, SA!At, PhraseCounts
  <1>8. CASE SA!Feed
    <2>1. /\ saProcState # "COLLECT" /\ saProcState' # "COLLECT" /\ UNCHANGED headx
          /\ Len(tmpbuf) = 1
      BY <1>8 DEF SA!Feed, SA!At, IInv, TypeOK, SA!TypeOK
    <2>2. Len(tmpbuf)' =< 1
      BY DEF IInv, TypeOK, SA!TypeOK
    <2>3. Len(headx) + 1 =< MaxHeadx
      BY <2>1 DEF PhraseCounts
    <2>4. Len(headx)' = Len(headx) /\ Len(headx) \in Nat /\ Len(tmpbuf)' \in Nat
      BY <1>0, <2>1 DEF CountsOK
    <2>5. Len(headx)' + Len(tmpbuf)' =< MaxHeadx
      BY <2>2, <2>3, <2>4, FrontEndAssumption
    <2> QED BY <2>1, <2>5 DEF PhraseCounts
  <1>9. CASE \E mode \in {"SOFT", "FULL"} : Reset(mode)
    BY <1>9 DEF Reset, SA!Initialize, PhraseCounts
  <1>10. CASE Put \/ Take \/ WordStep \/ WordPass \/ SentenceStep \/ UNCHANGED vars
    BY <1>1, <1>10 DEF Put, Take, WordStep, WordPass, SentenceStep, SA!Call, saState, vars, SA!vars,
                       SA!collecting
  <1>11. CASE SentencePass
    BY <1>1, <1>2, <1>3, <1>4, <1>5, <1>6, <1>7, <1>8, <1>11
       DEF SentencePass, SA!Pass, SA!CollectNone, SA!collecting
  <1> QED BY <1>9, <1>10, <1>11 DEF Next

\* Only one unit runs at a time.
LEMMA OneUnitOK ==
    ASSUME OneUnit, [Next]_vars
    PROVE  OneUnit'
  <1> USE DEF OneUnit
  <1>1. CASE Put \/ Take \/ UNCHANGED vars
    BY <1>1 DEF Put, Take, waState, saState, vars, WA!vars, SA!vars
  <1>2. CASE WordStep
    BY <1>2 DEF WordStep, Operable, AtRest, saState
  <1>3. CASE SentenceStep
    BY <1>3 DEF SentenceStep, Operable, AtRest, waState
  <1>4. CASE WordPass
    BY <1>4 DEF WordPass, WA!Pass, WA!Collect, WA!Process, WA!Feed, WA!At, saState
  <1>5. CASE SentencePass
    BY <1>5, SentenceRuns DEF SentencePass, waState
  <1>6. CASE \E mode \in {"SOFT", "FULL"} : Reset(mode)
    BY <1>6 DEF Reset, WA!Initialize, SA!Initialize
  <1> QED BY <1>1, <1>2, <1>3, <1>4, <1>5, <1>6 DEF Next

\* What the other steps are to sentence analysis.
LEMMA SentenceStepsProtocol ==
    ASSUME IInv, IInv', OneUnit, PhraseCounts, PhraseCounts', [Next]_vars
    PROVE  [SA!Protocol!Next]_SA!Protocol!vars
  <1> USE DEF SA!Protocol!Next, SA!Protocol!vars
  <1>0. CountsOK /\ CountsOK'
    BY CountsOfQueues, CountsOfQueuesNext
  <1>1. CASE Put \/ WordStep
    <2>1. UNCHANGED <<waOut, saOut, saProcState, headx, tmpbuf, saStatus>>
      BY <1>1 DEF Put, WordStep, WA!Call, saState
    <2> QED BY <2>1
  <1>2. CASE Take
    <2>1. /\ saStatus # "RUNNING" /\ UNCHANGED <<waOut, saProcState, headx, tmpbuf, saStatus>>
          /\ Len(saOut)' = Len(saOut) - 1
      BY <1>2 DEF Take, Operable, AtRest, saState, IInv, LeavingOK
    <2> QED BY <1>0, <2>1 DEF SA!Protocol!Neighbours, CountsOK
  <1>3. CASE SentenceStep
    <2>1. /\ saStatus # "RUNNING" /\ saStatus' = "RUNNING"
          /\ UNCHANGED <<waOut, saOut, saProcState, headx, tmpbuf>>
      BY <1>3 DEF SentenceStep, SA!Call
    <2> QED BY <2>1 DEF SA!Protocol!Call
  <1>4. CASE SentencePass
    BY <1>4, SentencePassProtocol DEF SentencePass
  <1>5. CASE WordPass
    <2>1. UNCHANGED <<saOut, saProcState, headx, tmpbuf, saStatus>> /\ saStatus # "RUNNING"
      BY <1>5 DEF WordPass, saState, OneUnit, WA!Pass, WA!Collect, WA!Process, WA!Feed, WA!At
    <2>2. Len(waOut)' >= Len(waOut)
      <3>1. CASE waOut' = waOut \o waOutBuf
        <4>1. waOut \in Seq(Fresh) /\ waOutBuf \in Seq(Fresh)
          BY DEF IInv, QueuesOK
        <4>2. Len(waOut)' = Len(waOut) + Len(waOutBuf)
          BY <3>1, <4>1
        <4> QED BY <1>0, <4>2 DEF CountsOK
      <3>2. CASE UNCHANGED waOut
        BY <1>0, <3>2 DEF CountsOK
      <3> QED BY <1>5, <3>1, <3>2 DEF WordPass, WA!Pass, WA!Collect, WA!Process, WA!Feed
    <2> QED BY <1>0, <2>1, <2>2 DEF SA!Protocol!Neighbours, CountsOK
  <1>6. CASE \E mode \in {"SOFT", "FULL"} : Reset(mode)
    <2>1. /\ saStatus # "RUNNING" /\ saStatus' = "NONE" /\ saProcState' = "COLLECT"
          /\ waOut' = <<>> /\ saOut' = <<>> /\ headx' = <<>>
      BY <1>6 DEF Reset, AtRest, SA!Initialize
    <2> QED BY <2>1 DEF SA!Protocol!Initialize
  <1>7. CASE UNCHANGED vars
    BY <1>7 DEF vars, SA!vars
  <1> QED BY <1>1, <1>2, <1>3, <1>4, <1>5, <1>6, <1>7 DEF Next

\* Each of the two units does what the control and the engine assume of any:
\* it takes what is there, puts what there is room for, makes items only of
\* items, and ends a step as IDLE only when nothing is left that it could do
\* and as OUT_FULL only when its output is full (picodata.h, waStep, saStep).
\* So FrontEnd implements UnitProtocol twice.
THEOREM FrontEndUnitsKeepProtocol == Spec => UnitsKeepProtocol
  <1> DEFINE CInv == OneUnit /\ PhraseCounts
  <1>1. Init => CInv /\ WA!Protocol!Init /\ SA!Protocol!Init
    BY DEF Init, WA!Blank, SA!Blank, OneUnit, PhraseCounts, WA!Protocol!Init, SA!Protocol!Init
  <1>2. IInv /\ IInv' /\ CInv /\ [Next]_vars => CInv'
    BY OneUnitOK, PhraseCountsOK
  <1>3. IInv /\ IInv' /\ CInv /\ CInv' /\ [Next]_vars
           => [WA!Protocol!Next]_WA!Protocol!vars /\ [SA!Protocol!Next]_SA!Protocol!vars
    BY WordStepsProtocol, SentenceStepsProtocol
  <1> QED BY FrontEndInvariant, <1>1, <1>2, <1>3, PTL
          DEF Spec, UnitsKeepProtocol, WA!Protocol!Spec, SA!Protocol!Spec
=============================================================================
