---------------------------- MODULE MCCharBuffer ----------------------------
(* Instances of CharBuffer for TLC, and its refinement of ItemFifo: a       *)
(* buffer of items, and (Text) the engine's cbIn.  They share nothing, so a *)
(* behaviour uses the one or the other.                                     *)
EXTENDS CharBufferProofs

\* A frame is type 1, another item type 2; contents of 0 or 1 byte; the
\* info bytes of the header are 0.
Item(type, content) == <<type, 0, 0, Len(content)>> \o content
MCItems == {Item(t, c) : t \in {1, 2}, c \in {<<>>, <<3>>}}

\* A caller's buffer without a header, with a header only, and large enough.
MCLimits == {3, 4, 5}
MCChars == {1, 2}

-----------------------------------------------------------------------------
CONSTANT TextSize   \* capacity of cbIn
VARIABLES use,      \* which of the two is used
          textBuf, textRear, textFront, textLen, textResult

Text == INSTANCE CharBufferProofs WITH Size <- TextSize, buf <- textBuf, rear <- textRear,
                                       front <- textFront, len <- textLen, result <- textResult

MCInit == Init /\ Text!Init /\ use \in {"items", "text"}

MCNext == \/ use = "items" /\ ItemNext /\ UNCHANGED <<use, textBuf, textRear, textFront, textLen, textResult>>
          \/ use = "text" /\ Text!CharNext /\ UNCHANGED <<use, buf, rear, front, len, result>>

MCSpec == MCInit /\ [][MCNext]_<<use, vars, Text!vars>>

-----------------------------------------------------------------------------
(* The ring, read at its item boundaries, is a bounded FIFO of whole items: *)
(* every call of picodata_cbPutItem, cbGetItem and cbGetSpeechData returns  *)
(* what the FIFO would and leaves in the ring what the FIFO would hold, so  *)
(* no item is lost, duplicated, reordered or torn at the wrap or at a limit.*)
(* The same holds of the text input buffer, character by character, for     *)
(* picodata_cbPutCh and picodata_cbGetCh: text is read back as it was fed.  *)
ImplementsFifos == ItemQueue!Spec /\ Text!CharQueue!Spec

-----------------------------------------------------------------------------
(* What is proved of one ring holds of both.                                *)

ASSUME TextAssumption == TextSize \in 1 .. UInt16Max

(* Both ways in which a ring is used implement their queues, for every pair *)
(* of sizes, all items, characters and callers' buffers.                    *)
THEOREM RingsAreQueues == MCSpec => ImplementsFifos
  <1>1. MCSpec => ItemSpec
    <2>1. MCInit => Init
      BY DEF MCInit
    <2>2. [MCNext]_<<use, vars, Text!vars>> => [ItemNext]_vars
      BY Zenon DEF MCNext, vars
    <2>. QED BY <2>1, <2>2, PTL DEF MCSpec, ItemSpec
  <1>2. MCSpec => Text!CharSpec
    <2>1. MCInit => Text!Init
      BY DEF MCInit
    <2>2. [MCNext]_<<use, vars, Text!vars>> => [Text!CharNext]_(Text!vars)
      BY Zenon DEF MCNext, Text!vars
    <2>. QED BY <2>1, <2>2, PTL DEF MCSpec, Text!CharSpec
  <1>3. ItemSpec => ItemQueue!Spec
    BY RingOfItemsIsQueue
  <1>4. Text!CharSpec => Text!CharQueue!Spec
    <2>1. /\ Text!UInt16Max = UInt16Max /\ Text!Byte = Byte
          /\ Text!HeadSize = HeadSize /\ Text!LenIndex = LenIndex
      BY SMTT(30) DEF Byte, HeadSize, LenIndex, UInt16Max,
                       Text!Byte, Text!HeadSize, Text!LenIndex, Text!UInt16Max
    <2>2. ASSUME NEW s \in Items PROVE Text!IsItem(s)
      BY <2>1, CharBufferAssumption, Zenon DEF IsItem, Text!IsItem
    <2>3. Text!CharBufferAssumption
      BY <2>1, <2>2, CharBufferAssumption, TextAssumption, Zenon
    <2>. QED BY <2>3, Text!RingOfCharsIsQueue
  <1>. QED BY <1>1, <1>2, <1>3, <1>4, PTL DEF ImplementsFifos
=============================================================================
