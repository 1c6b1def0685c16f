------------------------------ MODULE ItemFifo ------------------------------
(***************************************************************************)
(* What a char buffer of picodata.c promises its two users: a bounded      *)
(* first-in first-out queue of packets.  A packet is a byte string: one    *)
(* item (header and content) in the buffers between two processing units,  *)
(* one character in the engine's text input buffer.  Packets go in whole   *)
(* or not at all, come out whole and in order, and a refused call leaves   *)
(* the queue alone.                                                        *)
(***************************************************************************)
EXTENDS Integers, Sequences

CONSTANTS Size,      \* bytes the queue can hold
          Packets,   \* the packets its writer may put
          Limits,    \* the receiver's buffer sizes
          HeadSize,  \* bytes of a packet that are its header
          Frame      \* first byte of a packet that carries speech

VARIABLES queue,     \* the packets held, oldest first
          result     \* [call, status, bytes]: the last call and its answer

Answer(call, status, bytes) ==
    result' = [call |-> call, status |-> status, bytes |-> bytes]

\* The bytes of all packets, added up from the first.
Used == LET held == queue
            bytes[i \in 0 .. Len(held)] == IF i = 0 THEN 0 ELSE bytes[i - 1] + Len(held[i])
        IN  bytes[Len(held)]

Init == queue = <<>> /\ result = [call |-> "reset", status |-> "OK", bytes |-> <<>>]

Reset == Answer("reset", "OK", <<>>) /\ queue' = <<>>

Put(p) == /\ Answer("put", "OK", <<>>)
          /\ Used + Len(p) =< Size
          /\ queue' = Append(queue, p)

PutRefused == /\ Answer("put", "OVERFLOW", <<>>)
              /\ \E p \in Packets : Used + Len(p) > Size
              /\ UNCHANGED queue

\* The writer did not make the whole item accessible.
PutShort == /\ Answer("put", "UNDERFLOW", <<>>)
            /\ \E p \in Packets, limit \in Limits : limit < Len(p)
            /\ UNCHANGED queue

TakeNone == /\ Answer("get", "EOF", <<>>)
            /\ queue = <<>>
            /\ UNCHANGED queue

Take == /\ queue # <<>>
        /\ Answer("get", "OK", Head(queue))
        /\ queue' = Tail(queue)

TakeRefused == /\ Answer("get", "OVERFLOW", <<>>)
               /\ queue # <<>>
               /\ \E limit \in Limits : limit < Len(Head(queue))
               /\ UNCHANGED queue

\* Speech is taken without its header; a packet that carries none is dropped.
TakeSpeech == /\ queue # <<>>
              /\ LET p == Head(queue) IN
                   Answer("get", "OK", IF p[1] = Frame THEN SubSeq(p, HeadSize + 1, Len(p))
                                                       ELSE <<>>)
              /\ queue' = Tail(queue)

Next == \/ Reset
        \/ \E p \in Packets : Put(p)
        \/ PutRefused \/ PutShort
        \/ TakeNone \/ Take \/ TakeRefused \/ TakeSpeech

Spec == Init /\ [][Next]_<<queue, result>>
=============================================================================
