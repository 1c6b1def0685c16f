-------------------------- MODULE CharBufferProofs --------------------------
(***************************************************************************)
(* Proofs about CharBuffer, for every size of buffer, every alphabet and    *)
(* every set of items: the indices agree with the count, a buffer of items  *)
(* always holds whole items, and to its users a ring is a queue (ItemFifo)  *)
(* of the items, or of the characters, that were put.                       *)
(***************************************************************************)
EXTENDS CharBuffer, SequenceTheorems, TLAPS

\* The library of well-founded orders.
WF == INSTANCE WellFoundedInduction

-----------------------------------------------------------------------------
(* Remainders, as far as ring indices need them.                            *)

\* A remainder is the only one in its range.
LEMMA ModUnique == ASSUME NEW N \in Nat \ {0}, NEW q \in Int, NEW r \in 0 .. N - 1
                   PROVE  (q * N + r) % N = r
  BY SMT

\* An index that has left the ring by less than one turn.
LEMMA ModOneTurn ==
    ASSUME NEW N \in Nat \ {0}, NEW a \in Int, -N =< a, a < 2 * N
    PROVE  a % N = IF a < 0 THEN a + N ELSE IF a < N THEN a ELSE a - N
  <1>1. CASE a < 0
    <2>1. a + N \in 0 .. N - 1 BY <1>1, SMT
    <2>2. (-1) * N + (a + N) = a  BY SMT
    <2>3. ((-1) * N + (a + N)) % N = a + N BY <2>1, ModUnique, SMT
    <2>. QED  BY <1>1, <2>2, <2>3, SMT
  <1>2. CASE a >= 0 /\ a < N
    BY <1>2, SMT
  <1>3. CASE a >= N
    BY <1>3, SMT
  <1>. QED  BY <1>1, <1>2, <1>3, SMT

\* One reduction is one subtraction: an index and a count never add up to two turns.
LEMMA RingStep ==
    ASSUME NEW N \in Nat \ {0}, NEW f \in 0 .. N - 1, NEW i \in 0 .. N
    PROVE  (f + i) % N = IF f + i < N THEN f + i ELSE f + i - N
  <1>1. CASE f + i < N  BY <1>1, SMT
  <1>2. CASE f + i >= N BY <1>2, SMT
  <1>. QED BY <1>1, <1>2, SMT

\* The i-th place behind the front, seen from the rear l places behind the front.
LEMMA RingIndex ==
    ASSUME NEW N \in Nat \ {0}, NEW f \in 0 .. N - 1, NEW l \in 0 .. N, NEW i \in 0 .. N - 1
    PROVE  /\ i < l => (((f + i) % N) - ((f + l) % N)) % N = i + N - l
           /\ ~ (i < l) => (((f + i) % N) - ((f + l) % N)) % N = i - l
  <1>. DEFINE u == (f + i) % N
              v == (f + l) % N
              d == u - v
  <1>1. u = IF f + i < N THEN f + i ELSE f + i - N
    <2>1. i \in 0 .. N BY SMT
    <2>. QED BY <2>1, RingStep, Zenon
  <1>2. v = IF f + l < N THEN f + l ELSE f + l - N
    BY RingStep, Zenon
  <1>. HIDE DEF u, v
  <1>3. d \in Int /\ -N =< d /\ d < 2 * N BY <1>1, <1>2, SMT
  <1>5. (IF d < 0 THEN d + N ELSE IF d < N THEN d ELSE d - N) = IF i < l THEN i + N - l ELSE i - l
    BY <1>1, <1>2, <1>3, SMT
  <1>. HIDE DEF d
  <1>6. d % N = IF d < 0 THEN d + N ELSE IF d < N THEN d ELSE d - N
    BY <1>3, ModOneTurn, Zenon
  <1>7. d % N = IF i < l THEN i + N - l ELSE i - l BY <1>5, <1>6, Zenon
  <1>. QED  BY <1>7, Zenon DEF d, u, v

\* Two advances, each reduced, are one advance.
LEMMA RingSum ==
    ASSUME NEW N \in Nat \ {0}, NEW f \in 0 .. N - 1, NEW a \in 0 .. N, NEW b \in 0 .. N
    PROVE  (((f + a) % N) + b) % N = (f + (a + b)) % N
  <1>. DEFINE u == (f + a) % N
              w == f + (a + b)
              z == (u + b) % N
  <1>2. u = IF f + a < N THEN f + a ELSE f + a - N  BY RingStep, Zenon
  <1>. HIDE DEF u
  <1>4. u \in 0 .. N - 1 BY <1>2, SMT
  <1>5. z = IF u + b < N THEN u + b ELSE u + b - N BY <1>4, RingStep, Zenon
  <1>. HIDE DEF z
  <1>. w \in Nat /\ w < 3 * N BY SMT
  <1>8. CASE w < 2 * N
    <2>. w \in Int /\ -N =< w /\ w < 2 * N BY <1>8, SMT
    <2>1. z = IF w < 0 THEN w + N ELSE IF w < N THEN w ELSE w - N BY <1>2, <1>4, <1>5, <1>8, SMT
    <2>. HIDE DEF w
    <2>2. z = w % N BY <2>1, ModOneTurn, Zenon
    <2>. QED BY <2>2 DEF u, w, z
  <1>9. CASE w >= 2 * N
    <2>1. z \in 0 .. N - 1 /\ 2 * N + z = w BY <1>2, <1>4, <1>5, <1>9, SMT
    <2>2. (2 * N + z) % N = z BY <2>1, ModUnique, SMT
    <2>. HIDE DEF w
    <2>3. w % N = z BY <2>1, <2>2, Zenon
    <2>. QED BY <2>3 DEF u, w, z
  <1>. QED BY <1>8, <1>9, SMT

-----------------------------------------------------------------------------
(* What Write and Skip do to the bytes held.                                *)

LEMMA SizeRange == UInt16Max \in Nat /\ Size \in Nat \ {0} /\ Size =< UInt16Max
  <1>1. UInt16Max \in Nat
    BY SMTT(30) DEF UInt16Max
  <1>2. Size \in 1 .. UInt16Max
    BY CharBufferAssumption, Zenon
  <1>. QED BY <1>1, <1>2, SMT

\* The constants and the indices, as arithmetic needs them.
LEMMA Ranges ==
    ASSUME TypeOK
    PROVE  /\ Size \in Nat \ {0}
           /\ len \in 0 .. Size /\ front \in 0 .. Size - 1 /\ rear \in 0 .. Size - 1
           /\ rear = (front + len) % Size
  <1>1. Size \in Nat \ {0}
    BY SizeRange
  <1>2. /\ len \in 0 .. Size /\ front \in 0 .. Size - 1 /\ rear \in 0 .. Size - 1
        /\ rear = (front + len) % Size
    BY DEF TypeOK
  <1>. QED  BY <1>1, <1>2

\* No count up to Size wraps in 16 bits.
LEMMA Word16Count == ASSUME NEW n \in 0 .. Size PROVE Word16(n) = n
  <1>. DEFINE N == UInt16Max + 1
  <1>1. N \in Nat \ {0} /\ n \in 0 .. N - 1
    BY SizeRange, SMT
  <1>. HIDE DEF N
  <1>2. (0 * N + n) % N = n
    BY <1>1, ModUnique, SMT
  <1>3. 0 * N + n = n
    BY <1>1, SMT
  <1>. QED BY <1>2, <1>3, Zenon DEF Word16, N

\* Write appends: the bytes held stay where they are and s follows them.
LEMMA WriteAppends ==
    ASSUME TypeOK, NEW s \in Seq(Byte), len + Len(s) =< Size, Write(s)
    PROVE  /\ TypeOK'
           /\ len' = len + Len(s)
           /\ \A i \in 0 .. len - 1 : At(i)' = At(i)
           /\ \A i \in len .. len + Len(s) - 1 : buf'[(front' + i) % Size] = s[i - len + 1]
  <1>. DEFINE n == Len(s)
  <1>r. /\ Size \in Nat \ {0}
        /\ len \in 0 .. Size /\ front \in 0 .. Size - 1 /\ rear \in 0 .. Size - 1
        /\ rear = (front + len) % Size
    BY Ranges, Zenon
  <1>0. n \in 0 .. Size /\ len + n \in 0 .. Size
    BY <1>r, SMT
  <1>1. len' = len + n
    BY <1>0, Word16Count, Zenon DEF Write
  <1>2. front' = front
    BY DEF Write
  <1>3. rear' = (front + (len + n)) % Size /\ rear' \in 0 .. Size - 1
    <2>1. rear' = (((front + len) % Size) + n) % Size  BY <1>r, Zenon DEF Write
    <2>. HIDE DEF n
    <2>2. (((front + len) % Size) + n) % Size = (front + (len + n)) % Size
      BY <1>0, <1>r, RingSum, Zenon
    <2>3. (front + (len + n)) % Size \in 0 .. Size - 1
      <3>. DEFINE x == front + (len + n)
      <3>1. x \in Int  BY <1>0, <1>r, SMT
      <3>. HIDE DEF x
      <3>2. x % Size \in 0 .. Size - 1  BY <1>r, <3>1, SMT
      <3>. QED  BY <3>2 DEF x
    <2>. QED  BY <2>1, <2>2, <2>3, Zenon
  \* Where the byte at p comes from.
  <1>4. ASSUME NEW p \in 0 .. Size - 1
        PROVE  buf'[p] = IF (p - rear) % Size < n THEN s[((p - rear) % Size) + 1] ELSE buf[p]
    BY <1>4, Zenon DEF Write
  <1>5. buf' \in [0 .. Size - 1 -> Byte]
    <2>1. ASSUME NEW p \in 0 .. Size - 1, (p - rear) % Size < n
          PROVE  s[((p - rear) % Size) + 1] \in Byte
      <3>. DEFINE k == (p - rear) % Size
      <3>1. k \in 0 .. Size - 1  BY <1>r, SMT
      <3>2. k < n  BY <2>1
      <3>. HIDE DEF k
      <3>3. s[k + 1] \in Byte  BY <3>1, <3>2, <1>r, SMT
      <3>. QED  BY <3>3 DEF k
    <2>2. buf \in [0 .. Size - 1 -> Byte]  BY DEF TypeOK
    <2>3. \A p \in 0 .. Size - 1 : buf'[p] \in Byte  BY <1>4, <2>1, <2>2, Zenon
    <2>4. buf' = [p \in 0 .. Size - 1 |-> buf'[p]]  BY Zenon DEF Write
    <2>. QED  BY <2>3, <2>4, Zenon
  \* The place of the i-th byte, and how far behind the old rear it lies.
  <1>6. ASSUME NEW i \in 0 .. Size - 1
        PROVE  /\ (front + i) % Size \in 0 .. Size - 1
               /\ i < len => (((front + i) % Size) - rear) % Size = i + Size - len
               /\ ~ (i < len) => (((front + i) % Size) - rear) % Size = i - len
    <2>1. /\ i < len => (((front + i) % Size) - ((front + len) % Size)) % Size = i + Size - len
          /\ ~ (i < len) => (((front + i) % Size) - ((front + len) % Size)) % Size = i - len
      BY <1>r, RingIndex, Zenon
    <2>2. (front + i) % Size \in 0 .. Size - 1
      BY <1>r, SMT
    <2>. QED  BY <1>r, <2>1, <2>2, Zenon
  <1>7. ASSUME NEW i \in 0 .. len - 1
        PROVE  At(i)' = At(i)
    <2>. DEFINE x == (front + i) % Size
                d == (x - rear) % Size
    <2>1. i \in 0 .. Size - 1 /\ i < len  BY <1>r, SMT
    <2>2. x \in 0 .. Size - 1 /\ d = i + Size - len  BY <1>6, <2>1, Zenon
    <2>3. buf'[x] = IF d < n THEN s[d + 1] ELSE buf[x]  BY <1>4, <2>2, Zenon
    <2>. HIDE DEF x, d, n
    <2>4. ~ (d < n)  BY <1>0, <1>r, <2>1, <2>2, SMT
    <2>5. buf'[x] = buf[x]  BY <2>3, <2>4, Zenon
    <2>. QED  BY <1>2, <2>5, Zenon DEF At, x
  <1>8. ASSUME NEW i \in len .. len + n - 1
        PROVE  buf'[(front' + i) % Size] = s[i - len + 1]
    <2>. DEFINE x == (front + i) % Size
                d == (x - rear) % Size
    <2>1. i \in 0 .. Size - 1 /\ ~ (i < len) /\ i - len < n  BY <1>0, <1>r, SMT
    <2>2. x \in 0 .. Size - 1 /\ d = i - len  BY <1>6, <2>1, Zenon
    <2>3. buf'[x] = IF d < n THEN s[d + 1] ELSE buf[x]  BY <1>4, <2>2, Zenon
    <2>. HIDE DEF x, d, n
    <2>4. buf'[x] = s[i - len + 1]  BY <2>1, <2>2, <2>3, Zenon
    <2>. QED  BY <1>2, <2>4, Zenon DEF x
  <1>9. TypeOK'
    <2>1. len' \in 0 .. Size  BY <1>0, <1>1, Zenon
    <2>2. rear' = (front' + len') % Size  BY <1>1, <1>2, <1>3, Zenon
    <2>. QED  BY <1>2, <1>3, <1>5, <1>r, <2>1, <2>2, Zenon DEF TypeOK
  <1>. QED  BY <1>1, <1>7, <1>8, <1>9, Zenon

\* Skip drops from the front: what is left moves up n places.
LEMMA SkipShifts ==
    ASSUME TypeOK, NEW n \in 0 .. len, Skip(n)
    PROVE  /\ TypeOK'
           /\ len' = len - n
           /\ \A i \in 0 .. len - n : At(i)' = At(n + i)
  <1>r. /\ Size \in Nat \ {0}
        /\ len \in 0 .. Size /\ front \in 0 .. Size - 1 /\ rear \in 0 .. Size - 1
        /\ rear = (front + len) % Size
    BY Ranges, Zenon
  <1>0. n \in 0 .. Size /\ n \in Nat
    BY <1>r, SMT
  <1>1. len' = len - n
    <2>1. len - n \in 0 .. Size  BY <1>r, SMT
    <2>. QED  BY <2>1, Word16Count, Zenon DEF Skip
  <1>2. front' = (front + n) % Size /\ front' \in 0 .. Size - 1
    <2>1. front' = (front + n) % Size  BY DEF Skip
    <2>2. (front + n) % Size \in 0 .. Size - 1  BY <1>0, <1>r, SMT
    <2>. QED  BY <2>1, <2>2, Zenon
  <1>3. ASSUME NEW i \in 0 .. len - n
        PROVE  (front' + i) % Size = (front + (n + i)) % Size
    <2>1. i \in 0 .. Size  BY <1>0, <1>r, SMT
    <2>2. (((front + n) % Size) + i) % Size = (front + (n + i)) % Size
      BY <1>0, <1>r, <2>1, RingSum, Zenon
    <2>. QED  BY <1>2, <2>2, Zenon
  <1>4. \A i \in 0 .. len - n : At(i)' = At(n + i)
    <2>1. buf' = buf  BY DEF Skip
    <2>. QED  BY <1>3, <2>1, Zenon DEF At
  <1>5. rear' = (front' + len') % Size
    <2>. DEFINE i == len - n
    <2>1. i \in 0 .. len - n /\ n + i = len  BY <1>0, <1>r, SMT
    <2>. HIDE DEF i
    <2>2. (front' + i) % Size = (front + len) % Size  BY <1>3, <2>1, Zenon
    <2>3. rear' = rear  BY DEF Skip
    <2>. QED  BY <1>1, <1>r, <2>2, <2>3, Zenon DEF i
  <1>6. TypeOK'
    <2>1. len' \in 0 .. Size  BY <1>0, <1>1, <1>r, SMT
    <2>2. buf' = buf /\ rear' = rear  BY DEF Skip
    <2>3. buf' \in [0 .. Size - 1 -> Byte]  BY <2>2, Zenon DEF TypeOK
    <2>. QED  BY <1>2, <1>5, <1>r, <2>1, <2>2, <2>3, Zenon DEF TypeOK
  <1>. QED  BY <1>1, <1>4, <1>6, Zenon
-----------------------------------------------------------------------------
(* Single characters.                                                       *)

LEMMA CharStep == ASSUME TypeOK, CharNext \/ UNCHANGED vars PROVE TypeOK'
  <1>1. CASE Reset
    <2>1. 0 \in 0 .. Size - 1 /\ 0 \in 0 .. Size /\ 0 = (0 + 0) % Size  BY Ranges, SMT
    <2>2. front' = 0 /\ rear' = 0 /\ len' = 0 /\ buf' = buf  BY <1>1 DEF Reset
    <2>. QED  BY <2>1, <2>2, Zenon DEF TypeOK
  <1>2. CASE UNCHANGED ring
    BY <1>2, Zenon DEF ring, TypeOK
  <1>3. ASSUME NEW ch \in Chars, PutCh(ch) PROVE TypeOK'
    <2>1. CASE len < Size /\ Write(<<ch>>)
      <3>1. <<ch>> \in Seq(Byte) /\ Len(<<ch>>) = 1  BY CharBufferAssumption, SMT
      <3>2. len + Len(<<ch>>) =< Size  BY <2>1, <3>1, Ranges, SMT
      <3>. QED  BY <2>1, <3>1, <3>2, WriteAppends, Zenon
    <2>. QED  BY <1>2, <1>3, <2>1, Zenon DEF PutCh, Refuse
  <1>4. CASE GetCh
    <2>1. CASE len > 0 /\ Skip(1)
      <3>1. 1 \in 0 .. len  BY <2>1, Ranges, SMT
      <3>. QED  BY <2>1, <3>1, SkipShifts, Zenon
    <2>. QED  BY <1>2, <1>4, <2>1, Zenon DEF GetCh, Refuse
  <1>5. UNCHANGED vars => UNCHANGED ring
    BY Zenon DEF vars, ring
  <1>. QED  BY <1>1, <1>2, <1>3, <1>4, <1>5, Zenon DEF CharNext

LEMMA InitTypeOK == Init => TypeOK
  <1>. SUFFICES ASSUME Init PROVE TypeOK  OBVIOUS
  <1>1. 0 \in 0 .. Size - 1 /\ 0 \in 0 .. Size /\ 0 = (0 + 0) % Size
    BY SizeRange, SMT
  <1>2. buf \in [0 .. Size - 1 -> Byte]
    BY SMT DEF Init, Byte
  <1>. QED  BY <1>1, <1>2, Zenon DEF Init, TypeOK

(* The text input buffer: whatever characters the engine feeds and the      *)
(* tokenizer takes, and whatever its size, front, rear and len agree.       *)
THEOREM CharTypeOK == CharSpec => []TypeOK
  BY InitTypeOK, CharStep, PTL DEF CharSpec

-----------------------------------------------------------------------------
(* Whole items.                                                             *)

\* The strengthening is the two together: the lengths read in headers keep
\* the indices in range only as long as the buffer holds whole items.
ItemInv == TypeOK /\ WholeItems

\* The length a header states is a byte plus the header.
LEMMA AtByte == ASSUME TypeOK, NEW i \in Nat PROVE At(i) \in Byte
  <1>1. (front + i) % Size \in 0 .. Size - 1  BY Ranges, SMT
  <1>2. buf \in [0 .. Size - 1 -> Byte]  BY DEF TypeOK
  <1>. QED  BY <1>1, <1>2, Zenon DEF At

\* A buffer that is not empty starts with an item all of which is there:
\* neither of the reader's UNDERFLOW branches can be taken.
LEMMA FrontItemIsWhole ==
    ASSUME ItemInv, len # 0
    PROVE  /\ len >= HeadSize
           /\ FrontLen \in HeadSize .. len
  <1>1. PICK starts \in SUBSET (0 .. len) :
          /\ 0 \in starts
          /\ \A x \in starts : x # len => /\ x + HeadSize =< len
                                          /\ x + HeadSize + At(x + LenIndex) \in starts
    BY Zenon DEF ItemInv, WholeItems
  <1>2. 0 + HeadSize =< len /\ 0 + HeadSize + At(0 + LenIndex) \in starts
    BY <1>1, Zenon
  <1>3. len \in Nat  BY Ranges, SMT DEF ItemInv
  <1>4. At(LenIndex) \in Byte  BY AtByte, SMT DEF ItemInv, LenIndex
  <1>5. 0 + LenIndex = LenIndex  BY SMT DEF LenIndex
  <1>6. 0 + HeadSize + At(LenIndex) \in 0 .. len  BY <1>1, <1>2, <1>5, Zenon
  <1>. QED  BY <1>2, <1>3, <1>4, <1>6, SMT DEF FrontLen, HeadSize, Byte

\* Removing the item at the front leaves the other items.
LEMMA SkipKeepsWhole ==
    ASSUME ItemInv, len # 0, Skip(FrontLen)
    PROVE  ItemInv'
  <1>. DEFINE n == FrontLen
  <1>r. len \in Nat  BY Ranges, SMT DEF ItemInv
  <1>n. n \in 0 .. len /\ n \in Nat
    BY <1>r, FrontItemIsWhole, SMT DEF HeadSize
  <1>1. TypeOK' /\ len' = len - n /\ \A i \in 0 .. len - n : At(i)' = At(n + i)
    BY <1>n, SkipShifts, Zenon DEF ItemInv
  <1>2. PICK starts \in SUBSET (0 .. len) :
          /\ 0 \in starts
          /\ \A x \in starts : x # len => /\ x + HeadSize =< len
                                          /\ x + HeadSize + At(x + LenIndex) \in starts
    BY Zenon DEF ItemInv, WholeItems
  <1>3. n \in starts
    <2>1. 0 + HeadSize + At(0 + LenIndex) \in starts  BY <1>2, Zenon
    <2>2. 0 + HeadSize = HeadSize /\ 0 + LenIndex = LenIndex  BY SMT DEF LenIndex, HeadSize
    <2>. QED  BY <2>1, <2>2, Zenon DEF FrontLen
  <1>. DEFINE rest == {y \in 0 .. len - n : n + y \in starts}
  <1>. HIDE DEF n
  <1>4. rest \in SUBSET (0 .. len') /\ 0 \in rest
    <2>1. 0 \in 0 .. len - n /\ n + 0 = n  BY <1>n, <1>r, SMT
    <2>. QED  BY <1>1, <1>3, <2>1, Zenon
  <1>5. ASSUME NEW y \in rest, y # len'
        PROVE  y + HeadSize =< len' /\ y + HeadSize + At(y + LenIndex)' \in rest
    <2>1. n + y \in starts /\ n + y # len /\ y \in 0 .. len - n
      BY <1>1, <1>5, <1>n, <1>r, SMT
    <2>2. n + y + HeadSize =< len /\ n + y + HeadSize + At(n + y + LenIndex) \in starts
      BY <1>2, <2>1, Zenon
    <2>3. y + LenIndex \in 0 .. len - n /\ n + (y + LenIndex) = n + y + LenIndex
      BY <1>n, <1>r, <2>1, <2>2, SMT DEF HeadSize, LenIndex
    <2>4. At(y + LenIndex)' = At(n + y + LenIndex)
      <3>1. \A i \in 0 .. len - n : At(i)' = At(n + i)  BY <1>1
      <3>. DEFINE k == y + LenIndex
      <3>2. k \in 0 .. len - n /\ n + k = n + y + LenIndex BY <2>3, SMT
      <3>. HIDE DEF k
      <3>3. At(k)' = At(n + k) BY <3>1, <3>2, Zenon
      <3>. QED  BY <3>2, <3>3, Zenon DEF k
    <2>5. At(n + y + LenIndex) \in Byte
      <3>. n + y + LenIndex \in Nat  BY <1>n, <1>r, <2>1, SMT DEF LenIndex
      <3>. QED  BY AtByte, Zenon DEF ItemInv
    <2>. DEFINE b == At(n + y + LenIndex)
    <2>. HIDE DEF b
    <2>6. b \in 0 .. 255 /\ n + y + HeadSize + b \in 0 .. len /\ n + y + HeadSize + b \in starts
      BY <1>2, <2>2, <2>5, Zenon DEF b, Byte
    <2>7. /\ y + HeadSize + b \in 0 .. len - n
          /\ n + (y + HeadSize + b) = n + y + HeadSize + b
      BY <1>n, <1>r, <2>1, <2>6, SMT DEF HeadSize
    <2>8. y + HeadSize + b \in rest  BY <2>6, <2>7, Zenon
    <2>9. y + HeadSize =< len'  BY <1>1, <1>n, <1>r, <2>1, <2>2, SMT DEF HeadSize
    <2>. QED  BY <2>4, <2>8, <2>9, Zenon DEF b
  <1>6. WholeItems'
    <2>. HIDE DEF rest
    <2>. QED  BY <1>4, <1>5, Zenon DEF WholeItems
  <1>. QED  BY <1>1, <1>6 DEF ItemInv

\* Appending an item leaves a buffer of whole items.
LEMMA WriteKeepsWhole ==
    ASSUME ItemInv, NEW s \in Items, len + Len(s) =< Size, Write(s)
    PROVE  ItemInv'
  <1>. DEFINE n == Len(s)
  <1>r. len \in Nat  BY Ranges, SMT DEF ItemInv
  <1>s. s \in Seq(Byte) /\ n \in Nat /\ HeadSize =< n /\ n = HeadSize + s[LenIndex + 1]
    BY CharBufferAssumption, SMT DEF IsItem
  <1>b. s[LenIndex + 1] \in 0 .. 255
    <2>1. LenIndex + 1 \in 1 .. Len(s)  BY <1>s, SMT DEF HeadSize, LenIndex
    <2>2. s[LenIndex + 1] \in Byte  BY <1>s, <2>1, SMT
    <2>. QED  BY <2>2 DEF Byte
  <1>1. TypeOK' /\ len' = len + n /\ \A i \in 0 .. len - 1 : At(i)' = At(i)
    BY <1>s, WriteAppends, Zenon DEF ItemInv
  <1>2. \A i \in len .. len + n - 1 : At(i)' = s[i - len + 1]
    <2>1. \A i \in len .. len + n - 1 : buf'[(front' + i) % Size] = s[i - len + 1]
      BY <1>s, WriteAppends, Zenon DEF ItemInv
    <2>. QED  BY <2>1, Zenon DEF At
  <1>3. PICK starts \in SUBSET (0 .. len) :
          /\ 0 \in starts
          /\ \A x \in starts : x # len => /\ x + HeadSize =< len
                                          /\ x + HeadSize + At(x + LenIndex) \in starts
    BY Zenon DEF ItemInv, WholeItems
  <1>. DEFINE more == starts \cup {len + n}
  <1>. HIDE DEF n
  <1>4. more \in SUBSET (0 .. len') /\ 0 \in more
    <2>1. starts \subseteq 0 .. len' /\ len + n \in 0 .. len'  BY <1>1, <1>3, <1>r, <1>s, SMT
    <2>. QED  BY <1>3, <2>1, Zenon
  <1>5. ASSUME NEW x \in more, x # len'
        PROVE  x + HeadSize =< len' /\ x + HeadSize + At(x + LenIndex)' \in more
    <2>0. x \in starts /\ x \in 0 .. len  BY <1>1, <1>3, <1>5, Zenon
    <2>. DEFINE k == x + LenIndex
    <2>1. CASE x # len
      <3>1. x + HeadSize =< len /\ x + HeadSize + At(k) \in starts  BY <1>3, <2>0, <2>1, Zenon
      <3>2. k \in 0 .. len - 1  BY <1>r, <2>0, <3>1, SMT DEF HeadSize, LenIndex
      <3>. HIDE DEF k
      <3>3. At(k)' = At(k)  BY <1>1, <3>2, Zenon
      <3>4. x + HeadSize =< len'  BY <1>1, <1>r, <1>s, <2>0, <3>1, SMT DEF HeadSize
      <3>. QED  BY <3>1, <3>3, <3>4, Zenon DEF k
    <2>2. CASE x = len
      <3>1. k \in len .. len + n - 1 /\ k - len + 1 = LenIndex + 1
        BY <1>r, <1>s, <2>2, SMT DEF HeadSize, LenIndex
      <3>. HIDE DEF k
      <3>2. At(k)' = s[LenIndex + 1]  BY <1>2, <3>1, Zenon
      <3>. DEFINE b == s[LenIndex + 1]
      <3>3. b \in 0 .. 255  BY <1>b
      <3>4. n = HeadSize + b  BY <1>s
      <3>. HIDE DEF b
      <3>5. x + HeadSize + b = len + n /\ x + HeadSize =< len'
        BY <1>1, <1>r, <2>2, <3>3, <3>4, SMT DEF HeadSize
      <3>6. x + HeadSize + b \in more  BY <3>5, Zenon
      <3>. QED  BY <3>2, <3>5, <3>6, Zenon DEF k, b
    <2>. QED  BY <2>1, <2>2
  <1>6. WholeItems'
    <2>. HIDE DEF more
    <2>. QED  BY <1>4, <1>5, Zenon DEF WholeItems
  <1>. QED  BY <1>1, <1>6 DEF ItemInv

LEMMA EmptyIsWhole == ASSUME TypeOK, len = 0 PROVE WholeItems
  <1>1. {0} \in SUBSET (0 .. len)  BY SMT
  <1>. QED  BY <1>1, Zenon DEF WholeItems

LEMMA RingKeepsItemInv == ASSUME ItemInv, UNCHANGED ring PROVE ItemInv'
  BY Zenon DEF ItemInv, TypeOK, WholeItems, At, ring

\* A reader takes nothing or the item at the front.
LEMMA ReaderStep ==
    ASSUME ItemInv, NEW limit \in Limits, GetItem(limit) \/ GetSpeechData(limit)
    PROVE  UNCHANGED ring \/ (len # 0 /\ Skip(FrontLen))
  <1>1. len >= HeadSize => len # 0
    BY Ranges, SMT DEF ItemInv, HeadSize
  <1>2. NoItem => UNCHANGED ring
    BY Zenon DEF NoItem, Refuse
  <1>3. Incomplete(limit) => UNCHANGED ring
    BY Zenon DEF Incomplete, Refuse
  <1>. QED  BY <1>1, <1>2, <1>3, Zenon DEF GetItem, GetSpeechData

LEMMA ItemStep == ASSUME ItemInv, ItemNext \/ UNCHANGED vars PROVE ItemInv'
  <1>1. CASE Reset
    <2>1. TypeOK'  BY <1>1, CharStep, Zenon DEF CharNext, ItemInv
    <2>2. len' = 0  BY <1>1 DEF Reset
    <2>3. (len = 0 /\ TypeOK => WholeItems)'
      <3>1. TypeOK' /\ len' = 0  BY <2>1, <2>2
      <3>2. {0} \in SUBSET (0 .. len')  BY <3>1, SMT
      <3>. QED  BY <3>1, <3>2, Zenon DEF WholeItems
    <2>. QED  BY <2>1, <2>2, <2>3, Zenon DEF ItemInv
  <1>2. CASE UNCHANGED vars
    BY <1>2, RingKeepsItemInv, Zenon DEF vars, ring
  <1>3. ASSUME NEW s \in Items, NEW limit \in Limits, PutItem(s, limit) PROVE ItemInv'
    <2>1. CASE UNCHANGED ring  BY <2>1, RingKeepsItemInv
    <2>2. CASE HeadSize + s[LenIndex + 1] =< Size - len /\ Write(s)
      <3>1. Len(s) = HeadSize + s[LenIndex + 1] /\ Len(s) \in Nat
        BY CharBufferAssumption, SMT DEF IsItem
      <3>2. len + Len(s) =< Size  BY <2>2, <3>1, Ranges, SMT DEF ItemInv
      <3>. QED  BY <2>2, <3>2, WriteKeepsWhole, Zenon
    <2>. QED  BY <1>3, <2>1, <2>2, Zenon DEF PutItem, Refuse
  <1>4. ASSUME NEW limit \in Limits, GetItem(limit) \/ GetSpeechData(limit) PROVE ItemInv'
    BY <1>4, ReaderStep, RingKeepsItemInv, SkipKeepsWhole, Zenon
  <1>. QED  BY <1>1, <1>2, <1>3, <1>4, Zenon DEF ItemNext

(* A buffer between two processing units: the indices agree and the buffer  *)
(* holds whole items, for every size, every set of items and every size of  *)
(* the callers' buffers.                                                    *)
THEOREM ItemTypeOK == ItemSpec => []TypeOK
  <1>1. Init => ItemInv
    BY InitTypeOK, EmptyIsWhole, Zenon DEF ItemInv, Init
  <1>2. ItemInv /\ [ItemNext]_vars => ItemInv'
    BY ItemStep, Zenon
  <1>3. ItemInv => TypeOK
    BY DEF ItemInv
  <1>. QED  BY <1>1, <1>2, <1>3, PTL DEF ItemSpec

THEOREM ItemsStayWhole == ItemSpec => []WholeItems
  <1>1. Init => ItemInv
    BY InitTypeOK, EmptyIsWhole, Zenon DEF ItemInv, Init
  <1>2. ItemInv /\ [ItemNext]_vars => ItemInv'
    BY ItemStep, Zenon
  <1>3. ItemInv => WholeItems
    BY DEF ItemInv
  <1>. QED  BY <1>1, <1>2, <1>3, PTL DEF ItemSpec

-----------------------------------------------------------------------------
(* Counting.                                                                *)

LEMMA NatOrder == WF!IsWellFoundedOn({p \in Nat \X Nat : p[1] < p[2]}, Nat)
  BY WF!NatLessThanWellFounded, Zenon DEF WF!OpToRel

\* What holds of 0, and of a number up to n if it does of the one before, holds
\* of all up to n: otherwise there were a least one of which it does not.
LEMMA UpTo ==
    ASSUME NEW n \in Nat, NEW S, 0 \in S, \A i \in 0 .. n - 1 : i \in S => i + 1 \in S
    PROVE  \A i \in 0 .. n : i \in S
  <1>. DEFINE R == {p \in Nat \X Nat : p[1] < p[2]}
              T == {i \in 0 .. n : i \notin S}
  <1>1. SUFFICES ASSUME T # {} PROVE FALSE
    BY Zenon
  <1>2. T \subseteq Nat
    BY SMT
  <1>. HIDE DEF T
  <1>3. PICK k \in T : \A i \in T : ~ (<<i, k>> \in R)
    <2>1. WF!IsWellFoundedOn(R, Nat)
      BY NatOrder, Zenon
    <2>. HIDE DEF R
    <2>. QED BY <1>1, <1>2, <2>1, WF!WFMin, Zenon
  <1>4. k \in 0 .. n /\ k \notin S
    BY <1>3 DEF T
  <1>5. k # 0
    BY <1>4
  <1>6. k - 1 \in 0 .. n - 1 /\ (k - 1) + 1 = k /\ k - 1 \in 0 .. n /\ <<k - 1, k>> \in R
    BY <1>4, <1>5, SMT
  <1>7. k - 1 \notin S
    BY <1>4, <1>6, Zenon
  <1>8. k - 1 \in T
    BY <1>6, <1>7, Zenon DEF T
  <1>. QED BY <1>3, <1>6, <1>8, Zenon

\* Sums that are added up from the first are found by adding up.
LEMMA SumIsUnique ==
    ASSUME NEW n \in Nat, NEW q, NEW f,
           f = [i \in 0 .. n |-> IF i = 0 THEN 0 ELSE f[i - 1] + Len(q[i])]
    PROVE  f = CHOOSE g : g = [i \in 0 .. n |-> IF i = 0 THEN 0 ELSE g[i - 1] + Len(q[i])]
  <1>. DEFINE g == CHOOSE g : g = [i \in 0 .. n |-> IF i = 0 THEN 0 ELSE g[i - 1] + Len(q[i])]
              S == {i \in 0 .. n : g[i] = f[i]}
  <1>1. g = [i \in 0 .. n |-> IF i = 0 THEN 0 ELSE g[i - 1] + Len(q[i])]
    BY Zenon
  <1>. HIDE DEF g
  <1>2. 0 \in S
    <2>1. 0 \in 0 .. n
      BY SMT
    <2>. QED BY <1>1, <2>1, Zenon
  <1>3. ASSUME NEW i \in 0 .. n - 1, i \in S PROVE i + 1 \in S
    <2>1. i + 1 \in 0 .. n /\ i + 1 # 0 /\ (i + 1) - 1 = i
      BY SMT
    <2>2. g[i + 1] = g[i] + Len(q[i + 1])
      <3>1. g[i + 1] = g[(i + 1) - 1] + Len(q[i + 1])
        BY <1>1, <2>1, Zenon
      <3>. QED BY <2>1, <3>1, Zenon
    <2>3. f[i + 1] = f[i] + Len(q[i + 1])
      <3>1. f[i + 1] = f[(i + 1) - 1] + Len(q[i + 1])
        BY <2>1, Zenon
      <3>. QED BY <2>1, <3>1, Zenon
    <2>4. g[i] = f[i]
      BY <1>3
    <2>. QED BY <2>1, <2>2, <2>3, <2>4, Zenon
  <1>4. \A i \in 0 .. n : g[i] = f[i]
    <2>. HIDE DEF S
    <2>1. \A i \in 0 .. n : i \in S
      BY <1>2, <1>3, UpTo, Zenon
    <2>. QED BY <2>1, Zenon DEF S
  <1>5. DOMAIN g = 0 .. n /\ DOMAIN f = 0 .. n
    BY <1>1, Zenon
  <1>6. g = [i \in 0 .. n |-> g[i]] /\ f = [i \in 0 .. n |-> f[i]]
    BY <1>1, Zenon
  <1>7. g = f
    BY <1>4, <1>6, Zenon
  <1>. QED BY <1>7 DEF g

\* Positions that are at least a header apart.
LEMMA Climb ==
    ASSUME NEW n \in Nat, NEW l \in Nat, NEW f \in [1 .. n + 1 -> 0 .. l], f[1] = 0,
           \A j \in 1 .. n : f[j + 1] >= f[j] + HeadSize
    PROVE  \A i \in 0 .. n : HeadSize * i =< f[i + 1]
  <1>. DEFINE S == {i \in 0 .. n : HeadSize * i =< f[i + 1]}
  <1>1. 0 \in S
    BY SMT DEF HeadSize
  <1>2. ASSUME NEW i \in 0 .. n - 1, i \in S PROVE i + 1 \in S
    <2>1. /\ i \in 0 .. n /\ i + 1 \in 0 .. n /\ i + 1 \in 1 .. n
          /\ i + 1 \in 1 .. n + 1 /\ (i + 1) + 1 \in 1 .. n + 1
      BY SMT
    <2>. DEFINE a == f[i + 1]
                b == f[(i + 1) + 1]
    <2>2. a \in 0 .. l /\ b \in 0 .. l /\ b >= a + HeadSize /\ HeadSize * i =< a
      BY <1>2, <2>1, Zenon
    <2>. HIDE DEF a, b
    <2>3. HeadSize * (i + 1) =< b
      BY <2>2, SMT DEF HeadSize
    <2>. QED BY <2>1, <2>3, Zenon DEF b
  <1>. HIDE DEF S
  <1>3. \A i \in 0 .. n : i \in S
    BY <1>1, <1>2, UpTo, Zenon
  <1>. QED BY <1>3, Zenon DEF S

-----------------------------------------------------------------------------
(* The items in the ring.                                                   *)

\* The positions at which n items start, and where the last one ends.
Reading(n, start) ==
    /\ start \in [1 .. n + 1 -> 0 .. len]
    /\ start[1] = 0 /\ start[n + 1] = len
    /\ \A j \in 1 .. n : /\ start[j] + HeadSize =< len
                         /\ start[j + 1] = start[j] + HeadSize + At(start[j] + LenIndex)

Readable == \E n \in Nat : \E start \in [1 .. n + 1 -> 0 .. len] : Reading(n, start)

LEMMA FunctionLen ==
    ASSUME NEW n \in Nat, NEW S, NEW f \in [1 .. n -> S]
    PROVE  f \in Seq(S) /\ Len(f) = n
  <1>1. f \in Seq(S)
    BY SeqDef, Zenon
  <1>2. Len(f) \in Nat /\ DOMAIN f = 1 .. Len(f) /\ DOMAIN f = 1 .. n
    BY <1>1, LenProperties, Zenon
  <1>3. Len(f) = n
    BY <1>2, SMT
  <1>. QED BY <1>1, <1>3

\* Items are at least a header apart.
LEMMA ReadingClimbs ==
    ASSUME TypeOK, NEW n \in Nat, NEW start, Reading(n, start)
    PROVE  \A i \in 0 .. n : HeadSize * i =< start[i + 1]
  <1>1. len \in Nat
    BY Ranges, SMT
  <1>2. ASSUME NEW j \in 1 .. n PROVE start[j + 1] >= start[j] + HeadSize
    <2>1. j \in 1 .. n + 1 /\ j + 1 \in 1 .. n + 1
      BY SMT
    <2>2. start[j] \in 0 .. len /\ start[j + 1] = start[j] + HeadSize + At(start[j] + LenIndex)
      BY <2>1, Zenon DEF Reading
    <2>3. start[j] + LenIndex \in Nat
      BY <2>2, SMT DEF LenIndex
    <2>4. At(start[j] + LenIndex) \in Byte
      BY <2>3, AtByte, Zenon
    <2>. DEFINE a == start[j]
                b == At(start[j] + LenIndex)
    <2>5. a \in 0 .. len /\ b \in 0 .. 255 /\ start[j + 1] = a + HeadSize + b
      BY <2>2, <2>4, Zenon DEF Byte
    <2>. HIDE DEF a, b
    <2>6. start[j + 1] >= a + HeadSize
      BY <1>1, <2>5, SMT DEF HeadSize
    <2>. QED BY <2>6 DEF a
  <1>3. start \in [1 .. n + 1 -> 0 .. len] /\ start[1] = 0
    BY DEF Reading
  <1>. QED BY <1>1, <1>2, <1>3, Climb, Zenon

\* Two readings go along together.
LEMMA ReadingsAgree ==
    ASSUME TypeOK, NEW n \in Nat, NEW a, Reading(n, a),
           NEW m \in Nat, NEW b, Reading(m, b), n =< m
    PROVE  n = m /\ a = b
  <1>. DEFINE S == {i \in 0 .. n : a[i + 1] = b[i + 1]}
  <1>r. len \in Nat
    BY Ranges, SMT
  <1>1. 0 \in S
    <2>1. 0 \in 0 .. n /\ 0 + 1 = 1
      BY SMT
    <2>2. a[1] = 0 /\ b[1] = 0
      BY DEF Reading
    <2>. QED BY <2>1, <2>2, Zenon
  <1>2. ASSUME NEW i \in 0 .. n - 1, i \in S PROVE i + 1 \in S
    <2>1. i + 1 \in 0 .. n /\ i + 1 \in 1 .. n /\ i + 1 \in 1 .. m
      BY SMT
    <2>2. a[i + 1] = b[i + 1]
      BY <1>2
    <2>. DEFINE k == i + 1
    <2>3. /\ a[k + 1] = a[k] + HeadSize + At(a[k] + LenIndex)
          /\ b[k + 1] = b[k] + HeadSize + At(b[k] + LenIndex)
      BY <2>1, Zenon DEF Reading
    <2>4. a[k + 1] = b[k + 1]
      BY <2>2, <2>3, Zenon
    <2>. QED BY <2>1, <2>4, Zenon
  <1>3. \A i \in 0 .. n : a[i + 1] = b[i + 1]
    <2>. HIDE DEF S
    <2>1. \A i \in 0 .. n : i \in S
      BY <1>1, <1>2, UpTo, Zenon
    <2>. QED BY <2>1, Zenon DEF S
  <1>4. n = m
    <2>1. CASE n < m
      <3>1. n \in 0 .. n /\ n + 1 \in 1 .. m
        BY <2>1, SMT
      <3>2. a[n + 1] = len /\ b[n + 1] = a[n + 1] /\ b[n + 1] + HeadSize =< len
        BY <1>3, <3>1, Zenon DEF Reading
      <3>. QED BY <1>r, <3>2, SMT DEF HeadSize
    <2>. QED BY <2>1, SMT
  <1>5. ASSUME NEW i \in 1 .. n + 1 PROVE a[i] = b[i]
    <2>1. i - 1 \in 0 .. n /\ (i - 1) + 1 = i
      BY SMT
    <2>. QED BY <1>3, <2>1, Zenon
  <1>6. a \in [1 .. n + 1 -> 0 .. len] /\ b \in [1 .. n + 1 -> 0 .. len]
    BY <1>4, Zenon DEF Reading
  <1>7. a = [i \in 1 .. n + 1 |-> a[i]] /\ b = [i \in 1 .. n + 1 |-> b[i]]
    BY <1>6, Zenon
  <1>8. a = b
    BY <1>5, <1>7, Zenon
  <1>. QED BY <1>4, <1>8, Zenon

LEMMA ReadingUnique ==
    ASSUME TypeOK, NEW n \in Nat, NEW a, Reading(n, a), NEW m \in Nat, NEW b, Reading(m, b)
    PROVE  n = m /\ a = b
  <1>1. n =< m \/ m =< n
    BY SMT
  <1>. QED BY <1>1, ReadingsAgree, Zenon

LEMMA ReadsIsReading ==
    ASSUME NEW n \in Nat, NEW start \in [1 .. n + 1 -> 0 .. len]
    PROVE  Reads(start) <=> Reading(n, start)
  <1>1. Len(start) = n + 1
    <2>1. n + 1 \in Nat
      BY SMT
    <2>. QED BY <2>1, FunctionLen, Zenon
  <1>2. Len(start) - 1 = n
    BY <1>1, SMT
  <1>. QED BY <1>1, <1>2, Zenon DEF Reads, Reading

\* A reading is what ItemsHeld looks for.
LEMMA ReadingFound ==
    ASSUME TypeOK, NEW n \in Nat, NEW start, Reading(n, start)
    PROVE  start \in Readings
  <1>r. len \in Nat
    BY Ranges, SMT
  <1>1. \A i \in 0 .. n : HeadSize * i =< start[i + 1]
    BY ReadingClimbs, Zenon
  <1>2. n \in {k \in 0 .. len : k * HeadSize =< len}
    <2>1. n \in 0 .. n
      BY SMT
    <2>2. HeadSize * n =< len
      BY <1>1, <2>1, Zenon DEF Reading
    <2>. QED BY <1>r, <2>2, SMT DEF HeadSize
  <1>3. ASSUME NEW i \in 1 .. n + 1 PROVE start[i] \in Bounds
    <2>0. start[i] \in 0 .. len
      BY Zenon DEF Reading
    <2>1. CASE i = 1 \/ i = n + 1
      BY <2>0, <2>1, Zenon DEF Reading, Bounds
    <2>2. CASE i # 1 /\ i # n + 1
      <3>1. i \in 1 .. n /\ i - 1 \in 0 .. n /\ (i - 1) + 1 = i /\ i - 1 >= 1
        BY <2>2, SMT
      <3>2. start[i] + HeadSize =< len /\ HeadSize * (i - 1) =< start[i]
        BY <1>1, <3>1, Zenon DEF Reading
      <3>3. HeadSize =< start[i]
        BY <1>r, <2>0, <3>1, <3>2, SMT DEF HeadSize
      <3>. QED BY <2>0, <3>2, <3>3, Zenon DEF Bounds
    <2>. QED BY <2>1, <2>2
  <1>4. start \in [1 .. n + 1 -> Bounds]
    <2>1. start \in [1 .. n + 1 -> 0 .. len]
      BY DEF Reading
    <2>. QED BY <1>3, <2>1, Zenon
  <1>. QED BY <1>2, <1>4, Zenon DEF Readings

\* So the items held can be told from any reading.
LEMMA ItemsHeldRead ==
    ASSUME TypeOK, NEW n \in Nat, NEW start, Reading(n, start)
    PROVE  ItemsHeld = [j \in 1 .. n |-> FrontBytes(start[j], start[j + 1] - 1)]
  <1>. DEFINE found == CHOOSE s \in Readings : Reads(s)
  <1>1. start \in Readings /\ Reads(start)
    BY ReadingFound, ReadsIsReading, Zenon DEF Reading
  <1>2. found \in Readings /\ Reads(found)
    BY <1>1, Zenon
  <1>. HIDE DEF found
  <1>3. PICK m \in {k \in 0 .. len : k * HeadSize =< len} : found \in [1 .. m + 1 -> Bounds]
    BY <1>2, Zenon DEF Readings
  <1>4. m \in Nat
    BY <1>3, Ranges, SMT
  <1>5. found \in [1 .. m + 1 -> 0 .. len]
    BY <1>3, Zenon DEF Bounds
  <1>6. Reading(m, found)
    BY <1>2, <1>4, <1>5, ReadsIsReading, Zenon
  <1>7. found = start
    BY <1>4, <1>6, ReadingUnique, Zenon
  <1>8. Len(start) - 1 = n
    <2>1. n + 1 \in Nat
      BY SMT
    <2>2. Len(start) = n + 1
      BY <2>1, FunctionLen, Zenon DEF Reading
    <2>. QED BY <2>2, SMT
  <1>9. ItemsHeld = [j \in 1 .. Len(found) - 1 |-> FrontBytes(found[j], found[j + 1] - 1)]
    BY Zenon DEF ItemsHeld, found
  <1>. QED BY <1>7, <1>8, <1>9, Zenon

\* The items as byte strings.
LEMMA BytesOK ==
    ASSUME TypeOK, NEW x \in Nat, NEW y \in Nat, x =< y
    PROVE  FrontBytes(x, y - 1) \in Seq(Byte) /\ Len(FrontBytes(x, y - 1)) = y - x
  <1>1. (y - 1) - x + 1 = y - x /\ y - x \in Nat
    BY SMT
  <1>2. \A i \in 1 .. y - x : At(x + i - 1) \in Byte
    <2>1. ASSUME NEW i \in 1 .. y - x PROVE x + i - 1 \in Nat
      BY SMT
    <2>. QED BY <2>1, AtByte, Zenon
  <1>3. FrontBytes(x, y - 1) \in [1 .. y - x -> Byte]
    BY <1>1, <1>2, Zenon DEF FrontBytes
  <1>. QED BY <1>1, <1>3, FunctionLen, Zenon

LEMMA ItemsOK ==
    ASSUME TypeOK, NEW n \in Nat, NEW start, Reading(n, start)
    PROVE  /\ ItemsHeld \in Seq(Seq(Byte)) /\ Len(ItemsHeld) = n
           /\ \A j \in 1 .. n : /\ start[j] \in 0 .. len /\ start[j + 1] \in 0 .. len
                                /\ start[j] =< start[j + 1]
                                /\ ItemsHeld[j] = FrontBytes(start[j], start[j + 1] - 1)
                                /\ Len(ItemsHeld[j]) = start[j + 1] - start[j]
  <1>r. len \in Nat
    BY Ranges, SMT
  <1>1. ItemsHeld = [j \in 1 .. n |-> FrontBytes(start[j], start[j + 1] - 1)]
    BY ItemsHeldRead, Zenon
  <1>2. ASSUME NEW j \in 1 .. n
        PROVE  start[j] \in 0 .. len /\ start[j + 1] \in 0 .. len /\ start[j] =< start[j + 1]
    <2>1. j \in 1 .. n + 1 /\ j + 1 \in 1 .. n + 1
      BY SMT
    <2>2. /\ start[j] \in 0 .. len /\ start[j + 1] \in 0 .. len
          /\ start[j + 1] = start[j] + HeadSize + At(start[j] + LenIndex)
      BY <2>1, Zenon DEF Reading
    <2>3. start[j] + LenIndex \in Nat
      BY <2>2, SMT DEF LenIndex
    <2>. DEFINE a == start[j]
                b == At(start[j] + LenIndex)
    <2>4. a \in 0 .. len /\ b \in 0 .. 255 /\ start[j + 1] = a + HeadSize + b
      BY <2>2, <2>3, AtByte, Zenon DEF Byte
    <2>. HIDE DEF a, b
    <2>5. a =< start[j + 1]
      BY <1>r, <2>4, SMT DEF HeadSize
    <2>. QED BY <2>2, <2>5, Zenon DEF a
  <1>3. ASSUME NEW j \in 1 .. n
        PROVE  /\ FrontBytes(start[j], start[j + 1] - 1) \in Seq(Byte)
               /\ Len(FrontBytes(start[j], start[j + 1] - 1)) = start[j + 1] - start[j]
    <2>1. start[j] \in Nat /\ start[j + 1] \in Nat /\ start[j] =< start[j + 1]
      BY <1>r, <1>2, SMT
    <2>. QED BY <2>1, BytesOK, Zenon
  <1>4. ItemsHeld \in [1 .. n -> Seq(Byte)]
    BY <1>1, <1>3, Zenon
  <1>5. ItemsHeld \in Seq(Seq(Byte)) /\ Len(ItemsHeld) = n
    BY <1>4, FunctionLen, Zenon
  <1>6. \A j \in 1 .. n : ItemsHeld[j] = FrontBytes(start[j], start[j + 1] - 1)
    BY <1>1, Zenon
  <1>. QED BY <1>2, <1>3, <1>5, <1>6, Zenon

\* The bytes of the items are the bytes of the ring.
LEMMA ItemsFill ==
    ASSUME TypeOK, NEW n \in Nat, NEW start, Reading(n, start)
    PROVE  ItemQueue!Used = len
  <1>. DEFINE f == [i \in 0 .. n |-> start[i + 1]]
  <1>1. Len(ItemsHeld) = n
    BY ItemsOK, Zenon
  <1>2. ASSUME NEW i \in 0 .. n
        PROVE  f[i] = IF i = 0 THEN 0 ELSE f[i - 1] + Len(ItemsHeld[i])
    <2>1. CASE i = 0
      <3>1. f[0] = start[1]
        BY SMT
      <3>. QED BY <2>1, <3>1, Zenon DEF Reading
    <2>2. CASE i # 0
      <3>1. i \in 1 .. n /\ i - 1 \in 0 .. n /\ (i - 1) + 1 = i
        BY <2>2, SMT
      <3>2. f[i] = start[i + 1] /\ f[i - 1] = start[i]
        BY <3>1, Zenon
      <3>3. start[i] \in 0 .. len /\ start[i + 1] \in 0 .. len
            /\ Len(ItemsHeld[i]) = start[i + 1] - start[i]
        BY <3>1, ItemsOK, Zenon
      <3>. HIDE DEF f
      <3>4. f[i] = f[i - 1] + Len(ItemsHeld[i])
        BY <3>2, <3>3, SMT
      <3>. QED BY <2>2, <3>4
    <2>. QED BY <2>1, <2>2
  <1>3. f = [i \in 0 .. n |-> IF i = 0 THEN 0 ELSE f[i - 1] + Len(ItemsHeld[i])]
    BY <1>2, Zenon
  <1>4. f[n] = len
    <2>1. n \in 0 .. n
      BY SMT
    <2>. QED BY <2>1, Zenon DEF Reading
  <1>. HIDE DEF f
  <1>5. f = CHOOSE g : g = [i \in 0 .. n |-> IF i = 0 THEN 0 ELSE g[i - 1] + Len(ItemsHeld[i])]
    BY <1>3, SumIsUnique, Zenon
  <1>6. f = CHOOSE g : g = [i \in 0 .. Len(ItemsHeld) |->
                              IF i = 0 THEN 0 ELSE g[i - 1] + Len(ItemsHeld[i])]
    BY <1>1, <1>5, Zenon
  <1>7. ItemQueue!Used = f[Len(ItemsHeld)]
    BY <1>6 DEF ItemQueue!Used
  <1>. QED BY <1>1, <1>4, <1>7, Zenon

\* A stretch of bytes that has moved.
LEMMA BytesMoved ==
    ASSUME NEW x \in Int, NEW y \in Int, NEW d \in Int,
           \A i \in x .. y - 1 : At(i)' = At(d + i)
    PROVE  FrontBytes(x, y - 1)' = FrontBytes(d + x, (d + y) - 1)
  <1>1. (y - 1) - x + 1 = y - x /\ ((d + y) - 1) - (d + x) + 1 = y - x
    BY SMT
  <1>2. ASSUME NEW i \in 1 .. y - x PROVE At(x + i - 1)' = At((d + x) + i - 1)
    <2>1. x + i - 1 \in x .. y - 1 /\ d + (x + i - 1) = (d + x) + i - 1
      BY SMT
    <2>. DEFINE k == x + i - 1
    <2>2. k \in x .. y - 1
      BY <2>1
    <2>. HIDE DEF k
    <2>3. At(k)' = At(d + k)
      BY <2>2, Zenon
    <2>4. At(x + i - 1)' = At(d + (x + i - 1))
      BY <2>3, Zenon DEF k
    <2>. QED BY <2>1, <2>4, Zenon
  <1>3. FrontBytes(x, y - 1)' = [i \in 1 .. y - x |-> At(x + i - 1)']
    BY <1>1, Zenon DEF FrontBytes
  <1>4. FrontBytes(d + x, (d + y) - 1) = [i \in 1 .. y - x |-> At((d + x) + i - 1)]
    BY <1>1, Zenon DEF FrontBytes
  <1>. QED BY <1>2, <1>3, <1>4, Zenon

\* The items held after a step are known likewise.
HeldOK == TypeOK => \A n \in Nat : \A start : Reading(n, start) =>
              /\ ItemsHeld \in Seq(Seq(Byte)) /\ Len(ItemsHeld) = n
              /\ \A j \in 1 .. n : ItemsHeld[j] = FrontBytes(start[j], start[j + 1] - 1)

LEMMA HeldTrue == HeldOK
  BY ItemsOK, Zenon DEF HeldOK

LEMMA HeldNext == HeldOK'
  BY HeldTrue, PTL

LEMMA ItemsAfter ==
    ASSUME TypeOK', NEW n \in Nat, NEW start, Reading(n, start)'
    PROVE  /\ ItemsHeld' \in Seq(Seq(Byte)) /\ Len(ItemsHeld') = n
           /\ \A j \in 1 .. n : ItemsHeld'[j] = FrontBytes(start[j], start[j + 1] - 1)'
  BY HeldNext, Zenon DEF HeldOK

\* An item written is the last of the items held.
LEMMA WriteAppendsItem ==
    ASSUME TypeOK, NEW n \in Nat, NEW start, Reading(n, start),
           NEW s \in Items, len + Len(s) =< Size, Write(s),
           NEW l, l = len
    PROVE  TypeOK' /\ Readable' /\ ItemsHeld' = Append(ItemsHeld, s)
  <1>. DEFINE m == Len(s)
              end == l + m
              after == [j \in 1 .. (n + 1) + 1 |-> IF j =< n + 1 THEN start[j] ELSE end]
  <1>r. l \in Nat
    BY Ranges, SMT
  <1>s. s \in Seq(Byte) /\ m \in Nat /\ HeadSize =< m /\ m = HeadSize + s[LenIndex + 1]
    BY CharBufferAssumption, SMT DEF IsItem
  <1>b. s[LenIndex + 1] \in 0 .. 255
    <2>1. LenIndex + 1 \in 1 .. Len(s)
      BY <1>s, SMT DEF HeadSize, LenIndex
    <2>2. s[LenIndex + 1] \in Byte
      BY <1>s, <2>1, SMT
    <2>. QED BY <2>2 DEF Byte
  <1>1. TypeOK' /\ len' = end /\ \A i \in 0 .. l - 1 : At(i)' = At(i)
    BY <1>s, WriteAppends, Zenon
  <1>2. \A i \in l .. end - 1 : At(i)' = s[i - l + 1]
    <2>0. \A i \in len .. len + Len(s) - 1 : buf'[(front' + i) % Size] = s[i - len + 1]
      BY <1>s, WriteAppends, Zenon
    <2>1. \A i \in l .. end - 1 : buf'[(front' + i) % Size] = s[i - l + 1]
      <3>1. ASSUME NEW i \in l .. end - 1 PROVE buf'[(front' + i) % Size] = s[i - l + 1]
        <4>1. i \in len .. len + Len(s) - 1 /\ i - len + 1 = i - l + 1
          BY <1>r, <1>s
        <4>2. buf'[(front' + i) % Size] = s[i - len + 1]
          BY <2>0, <4>1, Zenon
        <4>. QED BY <4>1, <4>2, Zenon
      <3>. QED BY <3>1
    <2>. QED BY <2>1, Zenon DEF At
  <1>3. end \in Nat /\ l + HeadSize =< end
    BY <1>r, <1>s, SMT DEF HeadSize
  <1>4. /\ ItemsHeld \in Seq(Seq(Byte)) /\ Len(ItemsHeld) = n
        /\ \A j \in 1 .. n : /\ start[j] \in 0 .. l /\ start[j + 1] \in 0 .. l
                             /\ start[j] =< start[j + 1]
                             /\ ItemsHeld[j] = FrontBytes(start[j], start[j + 1] - 1)
    BY ItemsOK, Zenon
  <1>5. /\ \A j \in 1 .. n + 1 : after[j] = start[j]
        /\ after[(n + 1) + 1] = end
    BY SMT
  <1>6. after \in [1 .. (n + 1) + 1 -> 0 .. end]
    <2>1. ASSUME NEW j \in 1 .. n + 1 PROVE start[j] \in 0 .. end
      <3>1. start[j] \in 0 .. l
        BY Zenon DEF Reading
      <3>. QED BY <1>3, <1>r, <1>s, <3>1, SMT
    <2>2. end \in 0 .. end
      BY <1>3, SMT
    <2>3. ASSUME NEW j \in 1 .. (n + 1) + 1, j =< n + 1 PROVE j \in 1 .. n + 1
      BY <2>3, SMT
    <2>. HIDE DEF end
    <2>. QED BY <2>1, <2>2, <2>3, Zenon
  <1>. HIDE DEF after, end, m
  <1>7. ASSUME NEW j \in 1 .. n + 1
        PROVE  after[j] + HeadSize =< end /\ after[j + 1] = after[j] + HeadSize + At(after[j] + LenIndex)'
    <2>1. CASE j =< n
      <3>1. j \in 1 .. n /\ j \in 1 .. n + 1 /\ j + 1 \in 1 .. n + 1
        BY <2>1, SMT
      <3>2. after[j] = start[j] /\ after[j + 1] = start[j + 1] /\ start[j] \in 0 .. l
        BY <1>4, <1>5, <3>1, Zenon
      <3>3. /\ start[j] + HeadSize =< l
            /\ start[j + 1] = start[j] + HeadSize + At(start[j] + LenIndex)
        BY <3>1, Zenon DEF Reading
      <3>. DEFINE k == start[j] + LenIndex
      <3>4. k \in 0 .. l - 1
        BY <1>r, <3>2, <3>3, SMT DEF HeadSize, LenIndex
      <3>. HIDE DEF k
      <3>5. At(k)' = At(k)
        BY <1>1, <3>4, Zenon
      <3>6. At(start[j] + LenIndex)' = At(start[j] + LenIndex)
        BY <3>5, Zenon DEF k
      <3>7. start[j] + HeadSize =< end
        BY <1>3, <1>r, <3>2, <3>3, SMT DEF HeadSize
      <3>. QED BY <3>2, <3>3, <3>6, <3>7, Zenon
    <2>2. CASE ~ (j =< n)
      <3>1. j = n + 1
        BY <2>2, SMT
      <3>2. after[j] = l /\ after[j + 1] = end
        <4>1. n + 1 \in 1 .. n + 1
          BY SMT
        <4>. QED BY <1>5, <3>1, <4>1, Zenon DEF Reading
      <3>. DEFINE k == l + LenIndex
      <3>3. k \in l .. end - 1 /\ k - l + 1 = LenIndex + 1
        BY <1>r, <1>3, SMT DEF HeadSize, LenIndex
      <3>. HIDE DEF k
      <3>4. At(k)' = s[LenIndex + 1]
        BY <1>2, <3>3, Zenon
      <3>5. end = l + HeadSize + s[LenIndex + 1]
        <4>. DEFINE b == s[LenIndex + 1]
        <4>1. b \in 0 .. 255 /\ m = HeadSize + b
          BY <1>b, <1>s, Zenon
        <4>. HIDE DEF b
        <4>2. end = l + HeadSize + b
          BY <1>r, <4>1, SMT DEF end, HeadSize
        <4>. QED BY <4>2 DEF b
      <3>. QED BY <1>3, <3>2, <3>4, <3>5, Zenon DEF k
    <2>. QED BY <2>1, <2>2
  <1>8. Reading(n + 1, after)'
    <2>1. after[1] = 0
      <3>1. 1 \in 1 .. n + 1
        BY SMT
      <3>. QED BY <1>5, <3>1, Zenon DEF Reading
    <2>. QED BY <1>1, <1>5, <1>6, <1>7, <2>1, Zenon DEF Reading
  <1>9. n + 1 \in Nat
    BY SMT
  <1>10. Readable'
    <2>1. after \in [1 .. (n + 1) + 1 -> 0 .. len']
      BY <1>1, <1>6, Zenon
    <2>. QED BY <1>8, <1>9, <2>1, Zenon DEF Readable
  <1>11. /\ ItemsHeld' \in Seq(Seq(Byte)) /\ Len(ItemsHeld') = n + 1
         /\ \A j \in 1 .. n + 1 : ItemsHeld'[j] = FrontBytes(after[j], after[j + 1] - 1)'
    BY <1>1, <1>8, <1>9, ItemsAfter, Zenon
  <1>12. ASSUME NEW j \in 1 .. n PROVE ItemsHeld'[j] = ItemsHeld[j]
    <2>1. j \in 1 .. n + 1 /\ j + 1 \in 1 .. n + 1
      BY SMT
    <2>. DEFINE x == start[j]
                y == start[j + 1]
    <2>2. x \in 0 .. l /\ y \in 0 .. l /\ ItemsHeld[j] = FrontBytes(x, y - 1)
      BY <1>4, Zenon
    <2>3. ItemsHeld'[j] = FrontBytes(x, y - 1)'
      <3>1. after[j] = x /\ after[j + 1] = y
        BY <1>5, <2>1, Zenon
      <3>. QED BY <1>11, <2>1, <3>1, Zenon
    <2>. HIDE DEF x, y
    <2>4. x \in Int /\ y \in Int /\ 0 \in Int /\ 0 + x = x /\ (0 + y) - 1 = y - 1
      BY <1>r, <2>2, SMT
    <2>5. ASSUME NEW i \in x .. y - 1 PROVE At(i)' = At(0 + i)
      <3>1. i \in 0 .. l - 1 /\ 0 + i = i
        BY <1>r, <2>2, SMT
      <3>. QED BY <1>1, <3>1, Zenon
    <2>6. FrontBytes(x, y - 1)' = FrontBytes(0 + x, (0 + y) - 1)
      BY <2>4, <2>5, BytesMoved, Zenon
    <2>. QED BY <2>2, <2>3, <2>4, <2>6, Zenon
  <1>13. ItemsHeld'[n + 1] = s
    <2>1. n + 1 \in 1 .. n + 1
      BY SMT
    <2>2. after[n + 1] = l /\ after[(n + 1) + 1] = end
      BY <1>5, <2>1, Zenon DEF Reading
    <2>3. ItemsHeld'[n + 1] = FrontBytes(l, end - 1)'
      BY <1>11, <2>1, <2>2, Zenon
    <2>4. \A i \in 1 .. (end - 1) - l + 1 : At(l + i - 1)' = s[i]
      <3>1. ASSUME NEW i \in 1 .. (end - 1) - l + 1 PROVE At(l + i - 1)' = s[i]
        <4>. DEFINE k == l + i - 1
        <4>1. k \in l .. end - 1 /\ k - l + 1 = i
          BY <1>3, <1>r, SMT
        <4>. HIDE DEF k
        <4>2. At(k)' = s[k - l + 1]
          BY <1>2, <4>1, Zenon
        <4>. QED BY <4>1, <4>2, Zenon DEF k
      <3>. QED BY <3>1
    <2>5. (end - 1) - l + 1 = m
      BY <1>r, <1>s, SMT DEF end
    <2>6. FrontBytes(l, end - 1)' = [i \in 1 .. m |-> s[i]]
      BY <2>4, <2>5, Zenon DEF FrontBytes
    <2>7. s = [i \in 1 .. m |-> s[i]]
      BY <1>s, LenProperties, Zenon DEF m
    <2>. QED BY <2>3, <2>6, <2>7, Zenon
  <1>14. s \in Seq(Byte)
    BY <1>s
  <1>15. ItemsHeld' = Append(ItemsHeld, s)
    <2>1. /\ Append(ItemsHeld, s) \in Seq(Seq(Byte)) /\ Len(Append(ItemsHeld, s)) = n + 1
          /\ \A j \in 1 .. n : Append(ItemsHeld, s)[j] = ItemsHeld[j]
          /\ Append(ItemsHeld, s)[n + 1] = s
      BY <1>4, <1>14, AppendProperties
    <2>2. ASSUME NEW j \in 1 .. n + 1 PROVE ItemsHeld'[j] = Append(ItemsHeld, s)[j]
      <3>1. j \in 1 .. n \/ j = n + 1
        BY SMT
      <3>. QED BY <1>12, <1>13, <2>1, <3>1, Zenon
    <2>. QED BY <1>11, <2>1, <2>2, SeqEqual, Zenon
  <1>. QED BY <1>1, <1>10, <1>15, Zenon

\* Nothing is held, or there is an item at the front.
LEMMA FrontItem ==
    ASSUME TypeOK, NEW n \in Nat, NEW start, Reading(n, start)
    PROVE  /\ n = 0 => len = 0 /\ ItemsHeld = <<>>
           /\ n # 0 => /\ start[1] = 0 /\ start[2] = FrontLen
                       /\ FrontLen \in HeadSize .. len /\ len >= HeadSize
                       /\ ItemsHeld # <<>>
                       /\ Head(ItemsHeld) = FrontBytes(0, FrontLen - 1)
                       /\ Len(Head(ItemsHeld)) = FrontLen
  <1>r. len \in Nat
    BY Ranges, SMT
  <1>1. /\ ItemsHeld \in Seq(Seq(Byte)) /\ Len(ItemsHeld) = n
        /\ \A j \in 1 .. n : /\ start[j] \in 0 .. len /\ start[j + 1] \in 0 .. len
                             /\ ItemsHeld[j] = FrontBytes(start[j], start[j + 1] - 1)
                             /\ Len(ItemsHeld[j]) = start[j + 1] - start[j]
    BY ItemsOK, Zenon
  <1>2. ASSUME n = 0 PROVE len = 0 /\ ItemsHeld = <<>>
    <2>1. start[0 + 1] = len /\ 0 + 1 = 1 /\ start[1] = 0
      BY <1>2, SMT DEF Reading
    <2>2. ItemsHeld = <<>>
      BY <1>1, <1>2, EmptySeq, SMT
    <2>. QED BY <2>1, <2>2, Zenon
  <1>3. ASSUME n # 0
        PROVE  /\ start[1] = 0 /\ start[2] = FrontLen
               /\ FrontLen \in HeadSize .. len /\ len >= HeadSize
               /\ ItemsHeld # <<>>
               /\ Head(ItemsHeld) = FrontBytes(0, FrontLen - 1)
               /\ Len(Head(ItemsHeld)) = FrontLen
    <2>1. 1 \in 1 .. n /\ 1 + 1 = 2
      BY <1>3, SMT
    <2>2. /\ start[1] = 0 /\ start[1] + HeadSize =< len
          /\ start[2] = start[1] + HeadSize + At(start[1] + LenIndex)
      BY <2>1, Zenon DEF Reading
    <2>3. 0 + HeadSize = HeadSize /\ 0 + LenIndex = LenIndex
      BY SMT DEF HeadSize, LenIndex
    <2>4. start[2] = FrontLen
      BY <2>2, <2>3, Zenon DEF FrontLen
    <2>5. At(LenIndex) \in 0 .. 255
      <3>1. LenIndex \in Nat
        BY SMT DEF LenIndex
      <3>. QED BY <3>1, AtByte, Zenon DEF Byte
    <2>6. FrontLen \in HeadSize .. len /\ len >= HeadSize /\ FrontLen - 0 = FrontLen
      <3>1. FrontLen \in 0 .. len
        BY <1>1, <2>1, <2>4, Zenon
      <3>2. HeadSize =< len
        BY <2>2, <2>3, Zenon
      <3>3. FrontLen >= HeadSize
        BY <2>5, SMT DEF FrontLen, HeadSize
      <3>. QED BY <1>r, <3>1, <3>2, <3>3, SMT DEF HeadSize
    <2>7. ItemsHeld # <<>>
      BY <1>1, <1>3, EmptySeq, SMT
    <2>8. Head(ItemsHeld) = ItemsHeld[1]
      BY <1>1, <2>7, HeadTailProperties
    <2>9. ItemsHeld[1] = FrontBytes(0, FrontLen - 1) /\ Len(ItemsHeld[1]) = FrontLen
      BY <1>1, <2>1, <2>2, <2>4, <2>6, Zenon
    <2>. QED BY <2>2, <2>4, <2>6, <2>7, <2>8, <2>9, Zenon
  <1>. QED BY <1>2, <1>3

\* Without the item at the front the others are held.
LEMMA SkipDropsItem ==
    ASSUME TypeOK, NEW n \in Nat, NEW start, Reading(n, start), n # 0,
           NEW d, d = FrontLen, NEW l, l = len, Skip(FrontLen)
    PROVE  TypeOK' /\ Readable' /\ ItemsHeld' = Tail(ItemsHeld)
  <1>. DEFINE rest == [j \in 1 .. (n - 1) + 1 |-> start[j + 1] - d]
  <1>r. l \in Nat /\ d \in HeadSize .. l /\ d \in Nat /\ n - 1 \in Nat /\ (n - 1) + 1 = n
    <2>1. len \in Nat /\ FrontLen \in HeadSize .. len
      BY FrontItem, Ranges, SMT
    <2>. QED BY <2>1, SMT DEF HeadSize
  <1>1. TypeOK' /\ len' = l - d /\ \A i \in 0 .. l - d : At(i)' = At(d + i)
    <2>1. d \in 0 .. len /\ Skip(d)
      BY <1>r, SMT DEF HeadSize
    <2>2. TypeOK' /\ len' = len - d /\ \A i \in 0 .. len - d : At(i)' = At(d + i)
      BY <2>1, SkipShifts, Zenon
    <2>. QED BY <2>2, Zenon
  <1>2. ASSUME NEW j \in 1 .. n
        PROVE  /\ start[j] \in 0 .. l /\ start[j + 1] \in 0 .. l /\ start[j] =< start[j + 1]
               /\ ItemsHeld[j] = FrontBytes(start[j], start[j + 1] - 1)
    BY ItemsOK, Zenon
  <1>3. \A i \in 0 .. n - 1 : d =< start[(i + 1) + 1]
    <2>. DEFINE S == {i \in 0 .. n - 1 : d =< start[(i + 1) + 1]}
    <2>1. 0 \in S
      <3>1. start[2] = d /\ (0 + 1) + 1 = 2 /\ 0 \in 0 .. n - 1
        BY <1>r, FrontItem, SMT
      <3>. QED BY <1>r, <3>1, SMT
    <2>2. ASSUME NEW i \in 0 .. (n - 1) - 1, i \in S PROVE i + 1 \in S
      <3>1. i + 1 \in 0 .. n - 1 /\ (i + 1) + 1 \in 1 .. n /\ i + 1 \in 1 .. n
        BY SMT
      <3>. DEFINE a == start[(i + 1) + 1]
                  b == start[((i + 1) + 1) + 1]
      <3>2. a \in 0 .. l /\ b \in 0 .. l /\ a =< b /\ d =< a
        BY <1>2, <2>2, <3>1, Zenon
      <3>. HIDE DEF a, b
      <3>3. d =< b
        BY <1>r, <3>2, SMT
      <3>. QED BY <3>1, <3>3, Zenon DEF b
    <2>. HIDE DEF S
    <2>3. \A i \in 0 .. n - 1 : i \in S
      BY <1>r, <2>1, <2>2, UpTo, Zenon
    <2>. QED BY <2>3, Zenon DEF S
  <1>4. ASSUME NEW j \in 1 .. n
        PROVE  start[j + 1] \in d .. l /\ rest[j] = start[j + 1] - d
    <2>1. j - 1 \in 0 .. n - 1 /\ ((j - 1) + 1) + 1 = j + 1
      BY SMT
    <2>2. d =< start[j + 1] /\ start[j + 1] \in 0 .. l
      BY <1>2, <1>3, <2>1, Zenon
    <2>3. rest[j] = start[j + 1] - d
      BY <1>r, Zenon
    <2>. HIDE DEF rest
    <2>. QED BY <1>r, <2>2, <2>3, SMT
  <1>5. rest \in [1 .. (n - 1) + 1 -> 0 .. l - d]
    <2>1. ASSUME NEW j \in 1 .. n PROVE start[j + 1] - d \in 0 .. l - d
      BY <1>4, <1>r, SMT
    <2>. QED BY <1>r, <2>1, Zenon
  <1>. HIDE DEF rest
  <1>6. ASSUME NEW j \in 1 .. n - 1
        PROVE  /\ rest[j] + HeadSize =< l - d
               /\ rest[j + 1] = rest[j] + HeadSize + At(rest[j] + LenIndex)'
    <2>1. j \in 1 .. n /\ j + 1 \in 1 .. n
      BY SMT
    <2>. DEFINE a == start[j + 1]
                b == start[(j + 1) + 1]
                k == rest[j] + LenIndex
    <2>2. /\ a \in d .. l /\ rest[j] = a - d /\ b \in d .. l /\ rest[j + 1] = b - d
      BY <1>4, <2>1, Zenon
    <2>3. a + HeadSize =< l /\ b = a + HeadSize + At(a + LenIndex)
      BY <2>1, Zenon DEF Reading
    <2>4. At(a + LenIndex) \in 0 .. 255
      <3>1. a + LenIndex \in Nat
        BY <1>r, <2>2, SMT DEF LenIndex
      <3>. QED BY <3>1, AtByte, Zenon DEF Byte
    <2>. HIDE DEF a, b
    <2>5. k \in 0 .. l - d /\ d + k = a + LenIndex /\ rest[j] + HeadSize =< l - d
      BY <1>r, <2>2, <2>3, SMT DEF HeadSize, LenIndex
    <2>. HIDE DEF k
    <2>6. At(k)' = At(a + LenIndex)
      BY <1>1, <2>5, Zenon
    <2>. DEFINE c == At(a + LenIndex)
    <2>. HIDE DEF c
    <2>7. c \in 0 .. 255 /\ b = a + HeadSize + c
      BY <2>3, <2>4, Zenon DEF c
    <2>8. rest[j + 1] = rest[j] + HeadSize + c
      BY <1>r, <2>2, <2>7, SMT DEF HeadSize
    <2>. QED BY <2>5, <2>6, <2>8, Zenon DEF c, k
  <1>7. Reading(n - 1, rest)'
    <2>1. rest[1] = 0
      <3>1. 1 \in 1 .. n /\ 1 + 1 = 2 /\ start[2] = d /\ d - d = 0
        BY <1>r, FrontItem, SMT
      <3>. QED BY <1>4, <3>1, Zenon
    <2>2. rest[(n - 1) + 1] = l - d
      <3>1. n \in 1 .. n /\ start[n + 1] = l
        BY <1>r, SMT DEF Reading
      <3>. QED BY <1>4, <1>r, <3>1, Zenon
    <2>. QED BY <1>1, <1>5, <1>6, <2>1, <2>2, Zenon DEF Reading
  <1>8. Readable'
    <2>1. rest \in [1 .. (n - 1) + 1 -> 0 .. len']
      BY <1>1, <1>5, Zenon
    <2>. QED BY <1>7, <1>r, <2>1, Zenon DEF Readable
  <1>9. /\ ItemsHeld' \in Seq(Seq(Byte)) /\ Len(ItemsHeld') = n - 1
        /\ \A j \in 1 .. n - 1 : ItemsHeld'[j] = FrontBytes(rest[j], rest[j + 1] - 1)'
    BY <1>1, <1>7, <1>r, ItemsAfter, Zenon
  <1>10. ASSUME NEW j \in 1 .. n - 1 PROVE ItemsHeld'[j] = ItemsHeld[j + 1]
    <2>1. j \in 1 .. n /\ j + 1 \in 1 .. n
      BY SMT
    <2>. DEFINE x == rest[j]
                y == rest[j + 1]
    <2>2. /\ start[j + 1] \in d .. l /\ x = start[j + 1] - d
          /\ start[(j + 1) + 1] \in d .. l /\ y = start[(j + 1) + 1] - d
      BY <1>4, <2>1, Zenon
    <2>3. ItemsHeld'[j] = FrontBytes(x, y - 1)'
      BY <1>9, Zenon
    <2>. HIDE DEF x, y
    <2>4. /\ x \in Int /\ y \in Int /\ d \in Int /\ d + x = start[j + 1] /\ d + y = start[(j + 1) + 1]
          /\ x \in 0 .. l - d /\ y \in 0 .. l - d
      BY <1>r, <2>2, SMT
    <2>5. ASSUME NEW i \in x .. y - 1 PROVE At(i)' = At(d + i)
      <3>1. i \in 0 .. l - d
        BY <1>r, <2>4, SMT
      <3>. QED BY <1>1, <3>1, Zenon
    <2>6. FrontBytes(x, y - 1)' = FrontBytes(d + x, (d + y) - 1)
      BY <2>4, <2>5, BytesMoved, Zenon
    <2>7. ItemsHeld[j + 1] = FrontBytes(start[j + 1], start[(j + 1) + 1] - 1)
      BY <1>2, <2>1, Zenon
    <2>. QED BY <2>3, <2>4, <2>6, <2>7, Zenon
  <1>11. ItemsHeld' = Tail(ItemsHeld)
    <2>1. ItemsHeld \in Seq(Seq(Byte)) /\ Len(ItemsHeld) = n /\ ItemsHeld # <<>>
      BY ItemsOK, FrontItem, Zenon
    <2>2. /\ Tail(ItemsHeld) \in Seq(Seq(Byte)) /\ Len(Tail(ItemsHeld)) = n - 1
          /\ \A j \in 1 .. n - 1 : Tail(ItemsHeld)[j] = ItemsHeld[j + 1]
      BY <2>1, HeadTailProperties
    <2>. QED BY <1>9, <1>10, <2>2, SeqEqual, Zenon
  <1>. QED BY <1>1, <1>8, <1>11, Zenon

-----------------------------------------------------------------------------
(* Each call on a ring of items is a step of the queue of items, or none.   *)

LEMMA EmptyReads ==
    ASSUME TypeOK, len = 0
    PROVE  Readable /\ ItemsHeld = <<>>
  <1>. DEFINE start == [j \in 1 .. 0 + 1 |-> 0]
  <1>1. start \in [1 .. 0 + 1 -> 0 .. len] /\ start[1] = 0 /\ start[0 + 1] = len /\ 0 \in Nat
    BY SMT
  <1>2. \A j \in 1 .. 0 : FALSE
    BY SMT
  <1>. HIDE DEF start
  <1>3. Reading(0, start)
    BY <1>1, <1>2, Zenon DEF Reading
  <1>. QED BY <1>1, <1>3, FrontItem, Zenon DEF Readable

EmptyOK == TypeOK /\ len = 0 => Readable /\ ItemsHeld = <<>>

LEMMA EmptyTrue == EmptyOK
  BY EmptyReads, Zenon DEF EmptyOK

LEMMA EmptyNext == EmptyOK'
  BY EmptyTrue, PTL

LEMMA RingStays ==
    ASSUME UNCHANGED ring
    PROVE  (TypeOK => TypeOK') /\ (Readable => Readable') /\ ItemsHeld' = ItemsHeld
  <1>1. buf' = buf /\ rear' = rear /\ front' = front /\ len' = len
    BY DEF ring
  <1>2. TypeOK => TypeOK'
    BY <1>1, Zenon DEF TypeOK
  <1>3. Readable => Readable'
    BY <1>1, Zenon DEF Readable, Reading, At
  <1>4. ItemsHeld' = ItemsHeld
    BY <1>1 DEF ItemsHeld, Readings, Bounds, Reads, FrontBytes, At
  <1>. QED BY <1>2, <1>3, <1>4

FifoInv == TypeOK /\ Readable

LEMMA PutItemStep ==
    ASSUME FifoInv, NEW s \in Items, NEW limit \in Limits, PutItem(s, limit)
    PROVE  FifoInv' /\ ItemQueue!Next
  <1>0. PICK n \in Nat : \E start \in [1 .. n + 1 -> 0 .. len] : Reading(n, start)
    BY Zenon DEF FifoInv, Readable
  <1>1. PICK start \in [1 .. n + 1 -> 0 .. len] : Reading(n, start)
    BY <1>0, Zenon
  <1>r. len \in 0 .. Size /\ Size \in Nat /\ limit \in Nat
    BY Ranges, CharBufferAssumption, SMT DEF FifoInv
  <1>u. ItemQueue!Used = len
    BY <1>1, ItemsFill, Zenon DEF FifoInv
  <1>s. Len(s) \in Nat /\ HeadSize =< Len(s) /\ Len(s) = HeadSize + s[LenIndex + 1]
    BY CharBufferAssumption, SMT DEF IsItem
  <1>2. CASE Refuse("put", "UNDERFLOW") /\ limit < Len(s)
    <2>1. UNCHANGED ring /\ result' = [call |-> "put", status |-> "UNDERFLOW", bytes |-> <<>>]
      BY <1>2, Zenon DEF Refuse, Return
    <2>2. ItemQueue!PutShort
      BY <1>2, <2>1, RingStays, Zenon DEF ItemQueue!PutShort, ItemQueue!Answer
    <2>. QED BY <2>1, <2>2, RingStays, Zenon DEF FifoInv, ItemQueue!Next
  <1>3. CASE Refuse("put", "OVERFLOW") /\ len + Len(s) > Size
    <2>1. UNCHANGED ring /\ result' = [call |-> "put", status |-> "OVERFLOW", bytes |-> <<>>]
      BY <1>3, Zenon DEF Refuse, Return
    <2>2. ItemQueue!PutRefused
      BY <1>3, <1>u, <2>1, RingStays, Zenon DEF ItemQueue!PutRefused, ItemQueue!Answer
    <2>. QED BY <2>1, <2>2, RingStays, Zenon DEF FifoInv, ItemQueue!Next
  <1>4. CASE len + Len(s) =< Size /\ Write(s) /\ Return("put", "OK", <<>>)
    <2>1. TypeOK' /\ Readable' /\ ItemsHeld' = Append(ItemsHeld, s)
      BY <1>1, <1>4, WriteAppendsItem, Zenon DEF FifoInv
    <2>2. ItemQueue!Put(s)
      BY <1>4, <1>u, <2>1, Zenon DEF ItemQueue!Put, ItemQueue!Answer, Return
    <2>. QED BY <2>1, <2>2, Zenon DEF FifoInv, ItemQueue!Next
  <1>5. \/ Refuse("put", "UNDERFLOW") /\ limit < Len(s)
        \/ Refuse("put", "OVERFLOW") /\ len + Len(s) > Size
        \/ len + Len(s) =< Size /\ Write(s) /\ Return("put", "OK", <<>>)
    <2>. DEFINE blen == HeadSize + s[LenIndex + 1]
    <2>1. blen = Len(s)
      BY <1>s
    <2>2. \/ limit < HeadSize /\ Refuse("put", "UNDERFLOW")
          \/ blen > Size - len /\ Refuse("put", "OVERFLOW")
          \/ blen > limit /\ Refuse("put", "UNDERFLOW")
          \/ blen =< Size - len /\ Write(s) /\ Return("put", "OK", <<>>)
      BY Zenon DEF PutItem
    <2>. HIDE DEF blen
    <2>3. /\ limit < HeadSize => limit < Len(s)
          /\ blen > limit => limit < Len(s)
          /\ blen > Size - len => len + Len(s) > Size
          /\ blen =< Size - len => len + Len(s) =< Size
      BY <1>r, <1>s, <2>1, SMT DEF HeadSize
    <2>. QED BY <2>2, <2>3, Zenon
  <1>. QED BY <1>2, <1>3, <1>4, <1>5

LEMMA TakeItemStep ==
    ASSUME FifoInv, NEW limit \in Limits, GetItem(limit) \/ GetSpeechData(limit)
    PROVE  FifoInv' /\ ItemQueue!Next
  <1>0. PICK n \in Nat : \E start \in [1 .. n + 1 -> 0 .. len] : Reading(n, start)
    BY Zenon DEF FifoInv, Readable
  <1>1. PICK start \in [1 .. n + 1 -> 0 .. len] : Reading(n, start)
    BY <1>0, Zenon
  <1>r. len \in Nat /\ limit \in Nat
    BY Ranges, CharBufferAssumption, SMT DEF FifoInv
  <1>f. /\ n = 0 => len = 0 /\ ItemsHeld = <<>>
        /\ n # 0 => /\ FrontLen \in HeadSize .. len /\ len >= HeadSize
                    /\ ItemsHeld # <<>>
                    /\ Head(ItemsHeld) = FrontBytes(0, FrontLen - 1)
                    /\ Len(Head(ItemsHeld)) = FrontLen
    BY <1>1, FrontItem, Zenon DEF FifoInv
  <1>2. CASE NoItem
    <2>1. n = 0 /\ len = 0
      BY <1>2, <1>f, <1>r, SMT DEF NoItem, HeadSize
    <2>2. UNCHANGED ring /\ result' = [call |-> "get", status |-> "EOF", bytes |-> <<>>]
      BY <1>2, <2>1, Zenon DEF NoItem, Refuse, Return
    <2>3. ItemQueue!TakeNone
      BY <1>f, <2>1, <2>2, RingStays, Zenon DEF ItemQueue!TakeNone, ItemQueue!Answer
    <2>. QED BY <2>2, <2>3, RingStays, Zenon DEF FifoInv, ItemQueue!Next
  <1>3. ASSUME len >= HeadSize
        PROVE  n # 0 /\ ~ (FrontLen > len)
    BY <1>3, <1>f, <1>r, SMT DEF HeadSize
  <1>4. CASE len >= HeadSize /\ Incomplete(limit)
    <2>1. UNCHANGED ring /\ result' = [call |-> "get", status |-> "OVERFLOW", bytes |-> <<>>]
          /\ limit < FrontLen
      BY <1>3, <1>4, Zenon DEF Incomplete, Refuse, Return
    <2>2. ItemQueue!TakeRefused
      BY <1>3, <1>4, <1>f, <2>1, RingStays, Zenon DEF ItemQueue!TakeRefused, ItemQueue!Answer
    <2>. QED BY <2>1, <2>2, RingStays, Zenon DEF FifoInv, ItemQueue!Next
  <1>5. ASSUME len >= HeadSize, Skip(FrontLen)
        PROVE  TypeOK' /\ Readable' /\ ItemsHeld' = Tail(ItemsHeld)
    BY <1>1, <1>3, <1>5, SkipDropsItem, Zenon DEF FifoInv
  <1>6. CASE len >= HeadSize /\ Skip(FrontLen) /\ Return("get", "OK", FrontBytes(0, FrontLen - 1))
    <2>1. ItemQueue!Take
      BY <1>3, <1>5, <1>6, <1>f, Zenon DEF ItemQueue!Take, ItemQueue!Answer, Return
    <2>. QED BY <1>5, <1>6, <2>1, Zenon DEF FifoInv, ItemQueue!Next
  \* The type byte is the first of the item.
  <1>7. ASSUME len >= HeadSize
        PROVE  /\ Head(ItemsHeld)[1] = At(0)
               /\ FrontBytes(HeadSize, FrontLen - 1)
                    = SubSeq(Head(ItemsHeld), HeadSize + 1, Len(Head(ItemsHeld)))
    <2>. DEFINE d == FrontLen
                p == Head(ItemsHeld)
    <2>1. d \in HeadSize .. len /\ p = FrontBytes(0, d - 1) /\ Len(p) = d /\ d \in Nat
      BY <1>3, <1>7, <1>f, <1>r, SMT DEF HeadSize
    <2>. HIDE DEF d, p
    <2>2. (d - 1) - 0 + 1 = d
      BY <2>1, SMT
    <2>3. p = [i \in 1 .. d |-> At(0 + i - 1)]
      BY <2>1, <2>2, Zenon DEF FrontBytes
    <2>4. p[1] = At(0)
      <3>1. 1 \in 1 .. d /\ 0 + 1 - 1 = 0
        BY <1>r, <2>1, SMT DEF HeadSize
      <3>. QED BY <2>3, <3>1, Zenon
    <2>5. FrontBytes(HeadSize, d - 1) = [i \in 1 .. d - HeadSize |-> At(HeadSize + i - 1)]
      <3>1. (d - 1) - HeadSize + 1 = d - HeadSize
        BY <2>1, SMT DEF HeadSize
      <3>. QED BY <3>1, Zenon DEF FrontBytes
    <2>6. SubSeq(p, HeadSize + 1, d) = [i \in 1 .. d - HeadSize |-> p[HeadSize + i]]
      BY <2>1 DEF HeadSize
    <2>7. ASSUME NEW i \in 1 .. d - HeadSize PROVE p[HeadSize + i] = At(HeadSize + i - 1)
      <3>. DEFINE k == HeadSize + i
      <3>1. k \in 1 .. d /\ 0 + k - 1 = HeadSize + i - 1
        BY <2>1, SMT DEF HeadSize
      <3>. HIDE DEF k
      <3>2. p[k] = At(0 + k - 1)
        BY <2>3, <3>1, Zenon
      <3>. QED BY <3>1, <3>2, Zenon DEF k
    <2>8. FrontBytes(HeadSize, d - 1) = SubSeq(p, HeadSize + 1, d)
      BY <2>5, <2>6, <2>7, Zenon
    <2>. QED BY <2>1, <2>4, <2>8, Zenon DEF d, p
  <1>8. CASE len >= HeadSize /\ At(0) # Frame /\ Skip(FrontLen) /\ Return("get", "OK", <<>>)
    <2>1. ItemQueue!TakeSpeech
      BY <1>3, <1>5, <1>7, <1>8, <1>f, Zenon DEF ItemQueue!TakeSpeech, ItemQueue!Answer, Return
    <2>. QED BY <1>5, <1>8, <2>1, Zenon DEF FifoInv, ItemQueue!Next
  <1>9. CASE /\ len >= HeadSize /\ At(0) = Frame /\ Skip(FrontLen)
             /\ Return("get", "OK", FrontBytes(HeadSize, FrontLen - 1))
    <2>1. ItemQueue!TakeSpeech
      BY <1>3, <1>5, <1>7, <1>9, <1>f, Zenon DEF ItemQueue!TakeSpeech, ItemQueue!Answer, Return
    <2>. QED BY <1>5, <1>9, <2>1, Zenon DEF FifoInv, ItemQueue!Next
  <1>. QED BY <1>2, <1>4, <1>6, <1>8, <1>9, Zenon DEF GetItem, GetSpeechData

LEMMA ItemFifoStep == ASSUME FifoInv, [ItemNext]_vars
                      PROVE  FifoInv' /\ [ItemQueue!Next]_<<ItemsHeld, result>>
  <1>1. CASE Reset
    <2>1. TypeOK'
      BY <1>1, CharStep, Zenon DEF CharNext, FifoInv
    <2>2. len' = 0 /\ result' = [call |-> "reset", status |-> "OK", bytes |-> <<>>]
      BY <1>1, Zenon DEF Reset, Return
    <2>3. Readable' /\ ItemsHeld' = <<>>
      BY <2>1, <2>2, EmptyNext, Zenon DEF EmptyOK
    <2>4. ItemQueue!Reset
      BY <2>2, <2>3, Zenon DEF ItemQueue!Reset, ItemQueue!Answer
    <2>. QED BY <2>1, <2>3, <2>4, Zenon DEF FifoInv, ItemQueue!Next
  <1>2. CASE UNCHANGED vars
    <2>1. UNCHANGED ring /\ result' = result
      BY <1>2, Zenon DEF vars, ring
    <2>. QED BY <2>1, RingStays, Zenon DEF FifoInv
  <1>3. ASSUME NEW s \in Items, NEW limit \in Limits, PutItem(s, limit)
        PROVE  FifoInv' /\ ItemQueue!Next
    BY <1>3, PutItemStep, Zenon
  <1>4. ASSUME NEW limit \in Limits, GetItem(limit) \/ GetSpeechData(limit)
        PROVE  FifoInv' /\ ItemQueue!Next
    BY <1>4, TakeItemStep, Zenon
  <1>. QED BY <1>1, <1>2, <1>3, <1>4, Zenon DEF ItemNext

(* A ring of items, of whatever size, for whatever items and callers'       *)
(* buffers, is a queue of items to those who call cbPutItem, cbGetItem and  *)
(* cbGetSpeechData: what is put comes out whole, once and in order, and     *)
(* each answer is the queue's.                                              *)
THEOREM RingOfItemsIsQueue == ItemSpec => ItemQueue!Spec
  <1>1. Init => FifoInv /\ ItemQueue!Init
    <2>. SUFFICES ASSUME Init PROVE FifoInv /\ ItemQueue!Init
      OBVIOUS
    <2>1. TypeOK /\ len = 0
      BY InitTypeOK, Zenon DEF Init
    <2>2. Readable /\ ItemsHeld = <<>>
      BY <2>1, EmptyReads, Zenon
    <2>. QED BY <2>1, <2>2, Zenon DEF Init, FifoInv, ItemQueue!Init
  <1>2. FifoInv /\ [ItemNext]_vars => FifoInv' /\ [ItemQueue!Next]_<<ItemsHeld, result>>
    BY ItemFifoStep, Zenon
  <1>. QED BY <1>1, <1>2, PTL DEF ItemSpec, ItemQueue!Spec

-----------------------------------------------------------------------------
(* The text input buffer likewise, character by character.                  *)

LEMMA CharsOK ==
    ASSUME TypeOK
    PROVE  /\ CharsHeld \in Seq(Seq(Byte)) /\ Len(CharsHeld) = len /\ len \in Nat
           /\ \A i \in 1 .. len : CharsHeld[i] = <<At(i - 1)>> /\ Len(CharsHeld[i]) = 1
  <1>1. len \in Nat
    BY Ranges, SMT
  <1>2. ASSUME NEW i \in 1 .. len
        PROVE  <<At(i - 1)>> \in Seq(Byte) /\ Len(<<At(i - 1)>>) = 1
    <2>1. i - 1 \in Nat
      BY <1>1, SMT
    <2>2. At(i - 1) \in Byte
      BY <2>1, AtByte, Zenon
    <2>. QED BY <2>2
  <1>3. CharsHeld \in [1 .. len -> Seq(Byte)]
    BY <1>2, Zenon DEF CharsHeld
  <1>4. \A i \in 1 .. len : CharsHeld[i] = <<At(i - 1)>>
    BY Zenon DEF CharsHeld
  <1>. QED BY <1>1, <1>2, <1>3, <1>4, FunctionLen, Zenon

CharsKnown == TypeOK => /\ CharsHeld \in Seq(Seq(Byte)) /\ Len(CharsHeld) = len
                        /\ \A i \in 1 .. len : CharsHeld[i] = <<At(i - 1)>>

LEMMA CharsTrue == CharsKnown
  BY CharsOK, Zenon DEF CharsKnown

LEMMA CharsNext == CharsKnown'
  BY CharsTrue, PTL

LEMMA CharsFill == ASSUME TypeOK PROVE CharQueue!Used = len
  <1>. DEFINE f == [i \in 0 .. len |-> i]
  <1>1. Len(CharsHeld) = len /\ len \in Nat
    BY CharsOK, Zenon
  <1>2. ASSUME NEW i \in 0 .. len
        PROVE  f[i] = IF i = 0 THEN 0 ELSE f[i - 1] + Len(CharsHeld[i])
    <2>1. CASE i # 0
      <3>1. i \in 1 .. len /\ i - 1 \in 0 .. len /\ (i - 1) + 1 = i
        BY <1>1, <2>1, SMT
      <3>2. Len(CharsHeld[i]) = 1
        BY <3>1, CharsOK, Zenon
      <3>3. f[i] = i /\ f[i - 1] = i - 1
        BY <3>1, Zenon
      <3>. HIDE DEF f
      <3>. QED BY <2>1, <3>1, <3>2, <3>3, Zenon
    <2>. QED BY <2>1, Zenon
  <1>3. f = [i \in 0 .. len |-> IF i = 0 THEN 0 ELSE f[i - 1] + Len(CharsHeld[i])]
    BY <1>2, Zenon
  <1>4. f[len] = len
    <2>1. len \in 0 .. len
      BY <1>1, SMT
    <2>. QED BY <2>1, Zenon
  <1>. HIDE DEF f
  <1>5. f = CHOOSE g : g = [i \in 0 .. len |-> IF i = 0 THEN 0 ELSE g[i - 1] + Len(CharsHeld[i])]
    <2>. DEFINE n == len
                q == CharsHeld
    <2>1. n \in Nat /\ f = [i \in 0 .. n |-> IF i = 0 THEN 0 ELSE f[i - 1] + Len(q[i])]
      BY <1>1, <1>3
    <2>. HIDE DEF n, q
    <2>2. f = CHOOSE g : g = [i \in 0 .. n |-> IF i = 0 THEN 0 ELSE g[i - 1] + Len(q[i])]
      BY <2>1, SumIsUnique, Zenon
    <2>. QED BY <2>2 DEF n, q
  <1>6. f = CHOOSE g : g = [i \in 0 .. Len(CharsHeld) |->
                              IF i = 0 THEN 0 ELSE g[i - 1] + Len(CharsHeld[i])]
    BY <1>1, <1>5, Zenon
  <1>7. CharQueue!Used = f[Len(CharsHeld)]
    BY <1>6 DEF CharQueue!Used
  <1>. QED BY <1>1, <1>4, <1>7, Zenon

LEMMA CharsStay ==
    ASSUME UNCHANGED ring
    PROVE  (TypeOK => TypeOK') /\ CharsHeld' = CharsHeld
  <1>1. buf' = buf /\ rear' = rear /\ front' = front /\ len' = len
    BY DEF ring
  <1>. QED BY <1>1, RingStays, Zenon DEF CharsHeld, At

LEMMA PutChStep ==
    ASSUME TypeOK, NEW ch \in Chars, PutCh(ch)
    PROVE  TypeOK' /\ CharQueue!Next
  <1>r. len \in Nat /\ Size \in Nat
    BY Ranges, SMT
  <1>c. <<ch>> \in {<<c>> : c \in Chars} /\ Len(<<ch>>) = 1 /\ <<ch>> \in Seq(Byte) /\ <<ch>>[1] = ch
    BY CharBufferAssumption
  <1>u. CharQueue!Used = len
    BY CharsFill
  <1>1. CASE len < Size /\ Write(<<ch>>) /\ Return("put", "OK", <<>>)
    <2>1. len + Len(<<ch>>) =< Size
      BY <1>1, <1>c, <1>r, SMT
    <2>2. /\ TypeOK' /\ len' = len + Len(<<ch>>) /\ \A i \in 0 .. len - 1 : At(i)' = At(i)
          /\ \A i \in len .. len + Len(<<ch>>) - 1 :
                buf'[(front' + i) % Size] = <<ch>>[i - len + 1]
      BY <1>1, <1>c, <2>1, WriteAppends, Zenon
    <2>3. len' = len + 1
      BY <1>c, <2>2, Zenon
    <2>4. buf'[(front' + len) % Size] = ch
      <3>1. len \in len .. len + Len(<<ch>>) - 1 /\ len - len + 1 = 1
        BY <1>c, <1>r, SMT
      <3>. QED BY <1>c, <2>2, <3>1, Zenon
    <2>5. /\ CharsHeld' \in Seq(Seq(Byte)) /\ Len(CharsHeld') = len + 1
          /\ \A i \in 1 .. len + 1 : CharsHeld'[i] = <<buf'[(front' + (i - 1)) % Size]>>
      BY <2>2, <2>3, CharsNext, Zenon DEF CharsKnown, At
    <2>6. /\ Append(CharsHeld, <<ch>>) \in Seq(Seq(Byte)) /\ Len(Append(CharsHeld, <<ch>>)) = len + 1
          /\ \A i \in 1 .. len : Append(CharsHeld, <<ch>>)[i] = CharsHeld[i]
          /\ Append(CharsHeld, <<ch>>)[len + 1] = <<ch>>
      <3>1. CharsHeld \in Seq(Seq(Byte)) /\ Len(CharsHeld) = len
        BY CharsOK
      <3>. QED BY <1>c, <3>1, AppendProperties
    <2>7. ASSUME NEW i \in 1 .. len + 1 PROVE CharsHeld'[i] = Append(CharsHeld, <<ch>>)[i]
      <3>1. CASE i \in 1 .. len
        <4>1. i - 1 \in 0 .. len - 1
          BY <1>r, <3>1, SMT
        <4>2. CharsHeld[i] = <<At(i - 1)>>
          BY <3>1, CharsOK, Zenon
        <4>3. buf'[(front' + (i - 1)) % Size] = At(i - 1)
          BY <2>2, <4>1, Zenon DEF At
        <4>4. CharsHeld'[i] = <<buf'[(front' + (i - 1)) % Size]>>
          BY <2>5, Zenon
        <4>5. Append(CharsHeld, <<ch>>)[i] = CharsHeld[i]
          BY <2>6, <3>1, Zenon
        <4>. QED BY <4>2, <4>3, <4>4, <4>5, Zenon
      <3>2. CASE i = len + 1
        <4>1. i - 1 = len
          BY <1>r, <3>2, SMT
        <4>2. CharsHeld'[i] = <<buf'[(front' + (i - 1)) % Size]>>
          BY <2>5, Zenon
        <4>3. CharsHeld'[i] = <<ch>>
          BY <2>4, <4>1, <4>2
        <4>. QED BY <2>6, <3>2, <4>3, Zenon
      <3>3. i \in 1 .. len \/ i = len + 1
        BY <1>r, SMT
      <3>. QED BY <3>1, <3>2, <3>3, Zenon
    <2>8. CharsHeld' = Append(CharsHeld, <<ch>>)
      BY <2>5, <2>6, <2>7, SeqEqual, Zenon
    <2>9. CharQueue!Put(<<ch>>)
      BY <1>1, <1>u, <2>1, <2>8, Zenon DEF CharQueue!Put, CharQueue!Answer, Return
    <2>. QED BY <1>c, <2>2, <2>9, Zenon DEF CharQueue!Next
  <1>2. CASE len >= Size /\ Refuse("put", "OVERFLOW")
    <2>1. UNCHANGED ring /\ result' = [call |-> "put", status |-> "OVERFLOW", bytes |-> <<>>]
      BY <1>2, Zenon DEF Refuse, Return
    <2>2. len + Len(<<ch>>) > Size
      BY <1>2, <1>c, <1>r, SMT
    <2>3. CharQueue!PutRefused
      BY <1>c, <1>u, <2>1, <2>2, CharsStay, Zenon DEF CharQueue!PutRefused, CharQueue!Answer
    <2>. QED BY <2>1, <2>3, CharsStay, Zenon DEF CharQueue!Next
  <1>. QED BY <1>1, <1>2, Zenon DEF PutCh

LEMMA GetChStep ==
    ASSUME TypeOK, GetCh
    PROVE  TypeOK' /\ CharQueue!Next
  <1>r. len \in Nat
    BY Ranges, SMT
  <1>c. CharsHeld \in Seq(Seq(Byte)) /\ Len(CharsHeld) = len
    BY CharsOK
  <1>1. CASE len > 0 /\ Skip(1) /\ Return("get", "OK", <<At(0)>>)
    <2>1. 1 \in 0 .. len /\ 1 \in 1 .. len /\ 1 - 1 = 0
      BY <1>1, <1>r, SMT
    <2>2. TypeOK' /\ len' = len - 1 /\ \A i \in 0 .. len - 1 : At(i)' = At(1 + i)
      BY <1>1, <2>1, SkipShifts, Zenon
    <2>3. /\ CharsHeld' \in Seq(Seq(Byte)) /\ Len(CharsHeld') = len - 1
          /\ \A i \in 1 .. len - 1 : CharsHeld'[i] = <<buf'[(front' + (i - 1)) % Size]>>
      BY <2>2, CharsNext, Zenon DEF CharsKnown, At
    <2>4. CharsHeld # <<>>
      BY <1>1, <1>c, EmptySeq, SMT
    <2>5. /\ Tail(CharsHeld) \in Seq(Seq(Byte)) /\ Len(Tail(CharsHeld)) = len - 1
          /\ \A i \in 1 .. len - 1 : Tail(CharsHeld)[i] = CharsHeld[i + 1]
          /\ Head(CharsHeld) = CharsHeld[1]
      BY <1>c, <2>4, HeadTailProperties
    <2>6. ASSUME NEW i \in 1 .. len - 1 PROVE CharsHeld'[i] = Tail(CharsHeld)[i]
      <3>1. i - 1 \in 0 .. len - 1 /\ i + 1 \in 1 .. len /\ (i + 1) - 1 = 1 + (i - 1)
        BY <1>r, SMT
      <3>2. CharsHeld[i + 1] = <<At(1 + (i - 1))>>
        BY <3>1, CharsOK, Zenon
      <3>3. buf'[(front' + (i - 1)) % Size] = At(1 + (i - 1))
        BY <2>2, <3>1, Zenon DEF At
      <3>. QED BY <2>3, <2>5, <3>2, <3>3, Zenon
    <2>7. CharsHeld' = Tail(CharsHeld)
      BY <2>3, <2>5, <2>6, SeqEqual, Zenon
    <2>8. Head(CharsHeld) = <<At(0)>>
      BY <2>1, <2>5, CharsOK, Zenon
    <2>9. CharQueue!Take
      BY <1>1, <2>4, <2>7, <2>8, Zenon DEF CharQueue!Take, CharQueue!Answer, Return
    <2>. QED BY <2>2, <2>9, Zenon DEF CharQueue!Next
  <1>2. CASE len = 0 /\ Refuse("get", "EOF")
    <2>1. UNCHANGED ring /\ result' = [call |-> "get", status |-> "EOF", bytes |-> <<>>]
      BY <1>2, Zenon DEF Refuse, Return
    <2>2. CharsHeld = <<>>
      BY <1>2, <1>c, EmptySeq, SMT
    <2>3. CharQueue!TakeNone
      BY <2>1, <2>2, CharsStay, Zenon DEF CharQueue!TakeNone, CharQueue!Answer
    <2>. QED BY <2>1, <2>3, CharsStay, Zenon DEF CharQueue!Next
  <1>. QED BY <1>1, <1>2, Zenon DEF GetCh

EmptyChars == TypeOK /\ len = 0 => CharsHeld = <<>>

LEMMA EmptyCharsTrue == EmptyChars
  BY CharsOK, EmptySeq, SMT DEF EmptyChars

LEMMA EmptyCharsNext == EmptyChars'
  BY EmptyCharsTrue, PTL

LEMMA CharFifoStep == ASSUME TypeOK, [CharNext]_vars
                      PROVE  TypeOK' /\ [CharQueue!Next]_<<CharsHeld, result>>
  <1>1. CASE Reset
    <2>1. TypeOK' /\ len' = 0 /\ result' = [call |-> "reset", status |-> "OK", bytes |-> <<>>]
      BY <1>1, CharStep, Zenon DEF CharNext, Reset, Return
    <2>2. CharsHeld' = <<>>
      BY <2>1, EmptyCharsNext, Zenon DEF EmptyChars
    <2>3. CharQueue!Reset
      BY <2>1, <2>2, Zenon DEF CharQueue!Reset, CharQueue!Answer
    <2>. QED BY <2>1, <2>3, Zenon DEF CharQueue!Next
  <1>2. CASE UNCHANGED vars
    <2>1. UNCHANGED ring /\ result' = result
      BY <1>2, Zenon DEF vars, ring
    <2>. QED BY <2>1, CharsStay, Zenon
  <1>. QED BY <1>1, <1>2, PutChStep, GetChStep, Zenon DEF CharNext

(* The engine's text buffer is a queue of characters to picodata_cbPutCh    *)
(* and picodata_cbGetCh, whatever its size: text is read back as it was     *)
(* fed, and refused only when the buffer is full.                           *)
THEOREM RingOfCharsIsQueue == CharSpec => CharQueue!Spec
  <1>1. Init => TypeOK /\ CharQueue!Init
    <2>. SUFFICES ASSUME Init PROVE TypeOK /\ CharQueue!Init
      OBVIOUS
    <2>1. TypeOK /\ len = 0
      BY InitTypeOK, Zenon DEF Init
    <2>2. CharsHeld = <<>>
      BY <2>1, EmptyCharsTrue, Zenon DEF EmptyChars
    <2>. QED BY <2>1, <2>2, Zenon DEF Init, CharQueue!Init
  <1>2. TypeOK /\ [CharNext]_vars => TypeOK' /\ [CharQueue!Next]_<<CharsHeld, result>>
    BY CharFifoStep, Zenon
  <1>. QED BY <1>1, <1>2, PTL DEF CharSpec, CharQueue!Spec
=============================================================================
