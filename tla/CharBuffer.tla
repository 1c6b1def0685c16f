----------------------------- MODULE CharBuffer -----------------------------
(***************************************************************************)
(* The ring buffer of picodata.c (struct picodata_char_buffer).  Every      *)
(* processing unit of the synthesis chain reads its input from one and      *)
(* writes its output to the next; the engine writes text into the first     *)
(* and reads speech from the last.                                          *)
(*                                                                          *)
(* A buffer is used in one of two ways, never both: the engine's cbIn is a  *)
(* stream of single characters (CharSpec), every other buffer a stream of   *)
(* items (ItemSpec).  A byte is a number; the two INFO bytes of an item     *)
(* header and the bytes of its content are data nobody here looks at.       *)
(***************************************************************************)
EXTENDS Integers, Sequences

CONSTANTS Size,      \* capacity in bytes
          Frame,     \* the type byte of items that carry speech
          Chars,     \* characters put by the engine
          Items,     \* items put by a processing unit, as byte strings
          Limits     \* values of blenmax: bytes accessible in the caller's buffer

HeadSize == 4        \* PICODATA_ITEM_HEADSIZE
LenIndex == 3        \* PICODATA_ITEMIND_LEN
Byte == 0 .. 255
UInt16Max == 65535
Word16(n) == n % (UInt16Max + 1)

\* An item states the length of its content in its header.
IsItem(s) == /\ s \in Seq(Byte)
             /\ Len(s) >= HeadSize
             /\ Len(s) = HeadSize + s[LenIndex + 1]

ASSUME CharBufferAssumption ==
    /\ Size \in 1 .. UInt16Max
    /\ Frame \in Byte
    /\ Chars \subseteq Byte
    /\ \A s \in Items : IsItem(s)
    /\ Limits \subseteq Nat

VARIABLES buf,       \* the bytes, stale ones included
          rear,      \* next free position to write
          front,     \* next position to read
          len,       \* bytes held: empty 0, full Size
          result     \* [call, status, bytes]: the last call and what it returned

ring == <<buf, rear, front, len>>
vars == <<buf, rear, front, len, result>>

Return(call, status, bytes) ==
    result' = [call |-> call, status |-> status, bytes |-> bytes]
Refuse(call, status) == Return(call, status, <<>>) /\ UNCHANGED ring

\* The byte i places behind the front one.
At(i) == buf[(front + i) % Size]

-----------------------------------------------------------------------------
Init == /\ buf \in [0 .. Size - 1 -> {0}]
        /\ rear = 0 /\ front = 0 /\ len = 0
        /\ result = [call |-> "reset", status |-> "OK", bytes |-> <<>>]

Reset == /\ rear' = 0 /\ front' = 0 /\ len' = 0
         /\ UNCHANGED buf
         /\ Return("reset", "OK", <<>>)

\* Append the bytes of s at the rear; the caller has made sure there is room.
Write(s) == /\ buf' = [p \in 0 .. Size - 1 |->
                         IF (p - rear) % Size < Len(s) THEN s[((p - rear) % Size) + 1] ELSE buf[p]]
            /\ rear' = (rear + Len(s)) % Size
            /\ len' = Word16(len + Len(s))
            /\ UNCHANGED front

\* Drop n bytes at the front: front is advanced and the uint16 len counted down.
Skip(n) == /\ front' = (front + n) % Size
           /\ len' = Word16(len - n)
           /\ UNCHANGED <<buf, rear>>

-----------------------------------------------------------------------------
\* picodata_cbPutCh, picodata_cbGetCh.

\* Mutant of PutCh: off by one at the full buffer.
PutChOneTooMany(ch) == \/ len =< Size /\ Write(<<ch>>) /\ Return("put", "OK", <<>>)
                       \/ len > Size /\ Refuse("put", "OVERFLOW")

PutCh(ch) == \/ len < Size /\ Write(<<ch>>) /\ Return("put", "OK", <<>>)
             \/ len >= Size /\ Refuse("put", "OVERFLOW")

GetCh == \/ len > 0 /\ Skip(1) /\ Return("get", "OK", <<At(0)>>)
         \/ len = 0 /\ Refuse("get", "EOF")

-----------------------------------------------------------------------------
\* data_cbPutItem: the item s lies in a buffer of which blenmax bytes are accessible.

\* Mutant of PutItem: room is required for the content only, not for the header.
PutItemHeadUnchecked(s, blenmax) ==
    LET blen == HeadSize + s[LenIndex + 1] IN
    \/ blenmax < HeadSize /\ Refuse("put", "UNDERFLOW")
    \/ blenmax >= HeadSize /\ s[LenIndex + 1] > Size - len /\ Refuse("put", "OVERFLOW")
    \/ /\ blenmax >= HeadSize /\ s[LenIndex + 1] =< Size - len
       /\ Write(s)
       /\ Return("put", "OK", <<>>)

PutItem(s, blenmax) ==
    LET blen == HeadSize + s[LenIndex + 1] IN
    \/ blenmax < HeadSize /\ Refuse("put", "UNDERFLOW")
    \/ blenmax >= HeadSize /\ blen > Size - len /\ Refuse("put", "OVERFLOW")
    \/ blenmax >= HeadSize /\ blen =< Size - len /\ blen > blenmax /\ Refuse("put", "UNDERFLOW")
    \/ /\ blenmax >= HeadSize /\ blen =< Size - len /\ blen =< blenmax
       /\ Write(s)
       /\ Return("put", "OK", <<>>)

\* data_cbGetItem: length of the item at the front, as its header states it.
ContentLenOnly == At(LenIndex)   \* mutant of FrontLen: the header is not counted
FrontLen == HeadSize + At(LenIndex)
FrontBytes(first, last) == [i \in 1 .. last - first + 1 |-> At(first + i - 1)]

NoItem == /\ len < HeadSize
          /\ Refuse("get", IF len = 0 THEN "EOF" ELSE "UNDERFLOW")

\* Mutant of Incomplete: an item too long for the caller's buffer is lost.
IncompleteDropped(blenmax) ==
    /\ FrontLen > len \/ blenmax < FrontLen
    /\ Skip(FrontLen)
    /\ Return("get", "OVERFLOW", <<>>)

Incomplete(blenmax) == /\ FrontLen > len \/ blenmax < FrontLen
                       /\ Refuse("get", IF FrontLen > len THEN "UNDERFLOW" ELSE "OVERFLOW")

\* issd = FALSE: the whole item is handed out.
GetItem(blenmax) ==
    \/ NoItem
    \/ len >= HeadSize /\ Incomplete(blenmax)
    \/ /\ len >= HeadSize /\ FrontLen =< len /\ FrontLen =< blenmax
       /\ Skip(FrontLen)
       /\ Return("get", "OK", FrontBytes(0, FrontLen - 1))

\* issd = TRUE: the content of a frame is handed out, any other item is
\* dropped, before the check that all of it is there.
GetSpeechData(blenmax) ==
    \/ NoItem
    \/ /\ len >= HeadSize /\ At(0) # Frame
       /\ Skip(FrontLen)
       /\ Return("get", "OK", <<>>)
    \/ len >= HeadSize /\ At(0) = Frame /\ Incomplete(blenmax)
    \/ /\ len >= HeadSize /\ At(0) = Frame /\ FrontLen =< len /\ FrontLen =< blenmax
       /\ Skip(FrontLen)
       /\ Return("get", "OK", FrontBytes(HeadSize, FrontLen - 1))

-----------------------------------------------------------------------------
CharNext == Reset \/ GetCh \/ \E ch \in Chars : PutCh(ch)

ItemNext == \/ Reset
            \/ \E s \in Items, blenmax \in Limits : PutItem(s, blenmax)
            \/ \E blenmax \in Limits : GetItem(blenmax) \/ GetSpeechData(blenmax)

CharSpec == Init /\ [][CharNext]_vars
ItemSpec == Init /\ [][ItemNext]_vars

-----------------------------------------------------------------------------
(* The indices and the count stay within the buffer and agree: the rear is  *)
(* len places behind the front, although the three are updated separately,  *)
(* front and rear are reduced modulo Size and len is a uint16 that wraps.   *)
TypeOK == /\ buf \in [0 .. Size - 1 -> Byte]
          /\ rear \in 0 .. Size - 1
          /\ front \in 0 .. Size - 1
          /\ len \in 0 .. Size
          /\ rear = (front + len) % Size

(* A buffer of items holds whole items: the positions at which items start, *)
(* found by adding up the lengths in their headers, lead exactly to len.    *)
(* This is what keeps a reader in step with the writer around the wrap, and *)
(* what the drop of a non-frame relies on: it does not check completeness.  *)
WholeItems ==
    \E starts \in SUBSET (0 .. len) :
        /\ 0 \in starts
        /\ \A x \in starts : x # len => /\ x + HeadSize =< len
                                        /\ x + HeadSize + At(x + LenIndex) \in starts

-----------------------------------------------------------------------------
(* What the buffer holds, as a queue of packets.  Items are found from the  *)
(* front on, each where the header of the one before it says.               *)

\* n items start at start[1] .. start[n], and the last ends at start[n + 1].
Reads(start) ==
    /\ start[1] = 0 /\ start[Len(start)] = len
    /\ \A j \in 1 .. Len(start) - 1 :
          /\ start[j] + HeadSize =< len
          /\ start[j + 1] = start[j] + HeadSize + At(start[j] + LenIndex)

\* Where an item may start or end, with one before it and one behind, if at all.
Bounds == {x \in 0 .. len : x \in {0, len} \/ (HeadSize =< x /\ x + HeadSize =< len)}
Readings == UNION {[1 .. n + 1 -> Bounds] : n \in {k \in 0 .. len : k * HeadSize =< len}}

ItemsHeld == LET start == CHOOSE start \in Readings : Reads(start)
             IN  [j \in 1 .. Len(start) - 1 |-> FrontBytes(start[j], start[j + 1] - 1)]

CharsHeld == [i \in 1 .. len |-> <<At(i - 1)>>]

ItemQueue == INSTANCE ItemFifo WITH queue <- ItemsHeld, Packets <- Items
CharQueue == INSTANCE ItemFifo WITH queue <- CharsHeld, Packets <- {<<ch>> : ch \in Chars}
=============================================================================
