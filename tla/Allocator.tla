------------------------------ MODULE Allocator ------------------------------
(***************************************************************************)
(* What a memory manager promises: every piece it hands out lies in its     *)
(* area, overlaps no other piece in use, holds at least the bytes asked for *)
(* and stays as it is until it is given back.                               *)
(***************************************************************************)
EXTENDS Integers

CONSTANTS Low, High, \* first and last address of the area
          Requests,  \* numbers of bytes asked for
          Nowhere    \* the address given when a request is refused

VARIABLES piece,     \* piece[a]: the number of bytes in use from a on
          answer     \* the last call: bytes asked for, -1 for none, and address

Area == Low .. High

\* No piece in use has any of the n bytes from a on.
Unused(a, n) == \A b \in Area : piece[b] > 0 => a + n =< b \/ b + piece[b] =< a

Init == /\ piece = [a \in Area |-> 0]
        /\ answer = [bytes |-> -1, adr |-> Nowhere]

\* More than was asked for may be given.
Allocate(n) == \E a \in Area : \E m \in 1 .. High + 1 - a :
                   /\ answer' = [bytes |-> n, adr |-> a]
                   /\ m >= n /\ Unused(a, m)
                   /\ piece' = [piece EXCEPT ![a] = m]

Refuse(n) == answer' = [bytes |-> n, adr |-> Nowhere] /\ UNCHANGED piece

Deallocate(a) == /\ answer' = [bytes |-> -1, adr |-> Nowhere]
                 /\ piece[a] > 0
                 /\ piece' = [piece EXCEPT ![a] = 0]

Next == \/ \E n \in Requests : Allocate(n) \/ Refuse(n)
        \/ \E a \in Area : Deallocate(a)

Spec == Init /\ [][Next]_<<piece, answer>>
=============================================================================
