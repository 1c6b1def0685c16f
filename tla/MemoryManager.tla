---------------------------- MODULE MemoryManager ----------------------------
(***************************************************************************)
(* The memory manager of picoos.c: one block of raw memory cut into cells,  *)
(* each with a header that gives its size, negative while it is in use, and *)
(* the cell to its left.  Free cells are in a doubly linked list; two empty *)
(* cells at the ends of the block are its sentinels.  Cells are split when  *)
(* memory is allocated and merged with free neighbours when it is given     *)
(* back.                                                                    *)
(*                                                                          *)
(* A header is four numbers kept by its address.  The links of a header lie *)
(* in the memory handed to the client, who may overwrite them, and so may   *)
(* old headers left behind by merging: Junk is what the client writes.      *)
(***************************************************************************)
EXTENDS Integers, FiniteSets

CONSTANTS Align,      \* PICOOS_ALIGN_SIZE
          UsedHdr,    \* usedCellHdrSize
          FullHdr,    \* fullCellHdrSize
          Data,       \* address of the block, lastBlock->data
          BlockSize,  \* lastBlock->size
          Requests,   \* numbers of bytes asked for
          Junk        \* what a client leaves in memory it was given

MinCont == FullHdr - UsedHdr
MinCell == FullHdr + Align

Beg == Data                        \* cbeg
Mid == Data + FullHdr              \* cmid
End == Data + BlockSize - FullHdr  \* cend
Addresses == Data .. End
NULL == 0

\* The block holds the sentinels and a cell; its size need not be aligned.
ASSUME MemoryManagerAssumption ==
    /\ Align \in Nat /\ UsedHdr \in Nat /\ FullHdr \in Nat
    /\ 0 < Align /\ 0 < UsedHdr /\ UsedHdr < FullHdr
    /\ UsedHdr % Align = 0 /\ FullHdr % Align = 0
    /\ Data \in Nat /\ Data > 0 /\ Data % Align = 0
    /\ BlockSize \in Nat /\ BlockSize >= 3 * FullHdr
    /\ Requests \subseteq Nat
    /\ Junk \in Int

VARIABLES size, left, prev, next,  \* the headers
          heads,                   \* history: where headers are in force
          usedSize, maxUsedSize,
          answer                   \* history: the last call, a request or none

links == <<prev, next>>
vars == <<size, left, prev, next, heads, usedSize, maxUsedSize, answer>>

NoRequest == [bytes |-> -1, adr |-> NULL]

Larger(a, b) == IF a > b THEN a ELSE b

-----------------------------------------------------------------------------
\* os_init_mem_block, for the first and only block.
Init ==
    LET Blank == [a \in Addresses |-> Junk]
    IN /\ heads = {Beg, Mid, End}
       /\ size = [Blank EXCEPT ![Beg] = 0, ![Mid] = BlockSize - 2 * FullHdr, ![End] = 0]
       /\ left = [Blank EXCEPT ![Beg] = NULL, ![Mid] = Beg, ![End] = Mid]
       /\ next = [Blank EXCEPT ![Beg] = Mid, ![Mid] = End, ![End] = NULL]
       /\ prev = [Blank EXCEPT ![Beg] = NULL, ![Mid] = Beg, ![End] = Mid]
       /\ usedSize = 0 /\ maxUsedSize = 0
       /\ answer = NoRequest

-----------------------------------------------------------------------------
(* picoos_allocate                                                          *)

\* Mutant of CellSize: without the header.
CellSizeWithoutHeader(n) == ((Larger(n, MinCont) + Align - 1) \div Align) * Align

CellSize(n) == ((Larger(n, MinCont) + Align - 1) \div Align) * Align + UsedHdr

\* Mutant of Fits: the rest must be more than the smallest cell.
FitsWithMore(a, s) == size[a] = s \/ size[a] > s + MinCell

\* Exactly, or with enough left over for another cell.
Fits(a, s) == size[a] = s \/ size[a] >= s + MinCell

\* The search along the list ends at c: at the first cell that fits, or else at
\* the last sentinel, which never does.  The cells passed over are P.
SearchEndsAt(c, s) ==
    /\ c = End \/ Fits(c, s)
    /\ \E P \in SUBSET {a \in heads \ {Beg, End} : size[a] > 0 /\ ~ Fits(a, s)} :
           {next[a] : a \in P \cup {Beg}} = P \cup {c}

\* What is left of header fields once the client has written to the n bytes
\* of cell c: its own size and left cell, but not its links.
Overwritten(field, c, n) == [a \in Addresses |-> IF c < a /\ a < c + n THEN Junk ELSE field[a]]
LinksOverwritten(field, c, n) == [Overwritten(field, c, n) EXCEPT ![c] = Junk]

\* The counts and the answer for cell c with s bytes, now in use.
HandOut(c, s, n) ==
    /\ usedSize' = usedSize + s
    /\ maxUsedSize' = Larger(maxUsedSize, usedSize + s)
    /\ answer' = [bytes |-> n, adr |-> c + UsedHdr]

AllocateExact(c, s, n) ==
    /\ size[c] = s
    /\ size' = [Overwritten(size, c, s) EXCEPT ![c] = -s]
    /\ left' = Overwritten(left, c, s)
    /\ next' = LinksOverwritten([next EXCEPT ![prev[c]] = next[c]], c, s)
    /\ prev' = LinksOverwritten([prev EXCEPT ![next[c]] = prev[c]], c, s)
    /\ HandOut(c, s, n)
    /\ UNCHANGED heads

\* Mutant of AllocateSplit: the cell to the right still calls c its left cell.
AllocateSplitStaleTag(c, s, n) ==
    LET c2 == c + s
    IN /\ size[c] # s
       /\ size' = [Overwritten(size, c, s) EXCEPT ![c] = -s, ![c2] = size[c] - s]
       /\ left' = [Overwritten(left, c, s) EXCEPT ![c2] = c]
       /\ next' = LinksOverwritten([next EXCEPT ![c2] = next[c], ![prev[c]] = c2], c, s)
       /\ prev' = LinksOverwritten([prev EXCEPT ![c2] = prev[c], ![next[c]] = c2], c, s)
       /\ HandOut(c, s, n)
       /\ heads' = heads \cup {c2}

\* The rest of the cell becomes cell c2 and takes its place in the list.
AllocateSplit(c, s, n) ==
    LET c2 == c + s
        c2r == c + size[c]
    IN /\ size[c] # s
       /\ size' = [Overwritten(size, c, s) EXCEPT ![c] = -s, ![c2] = size[c] - s]
       /\ left' = [Overwritten(left, c, s) EXCEPT ![c2] = c, ![c2r] = c2]
       /\ next' = LinksOverwritten([next EXCEPT ![c2] = next[c], ![prev[c]] = c2], c, s)
       /\ prev' = LinksOverwritten([prev EXCEPT ![c2] = prev[c], ![next[c]] = c2], c, s)
       /\ HandOut(c, s, n)
       /\ heads' = heads \cup {c2}

Allocate(n) ==
    \E c \in heads :
        /\ SearchEndsAt(c, CellSize(n))
        /\ \/ /\ c = End
              /\ answer' = [bytes |-> n, adr |-> NULL]
              /\ UNCHANGED <<size, left, links, heads, usedSize, maxUsedSize>>
           \/ /\ c # End
              /\ AllocateExact(c, CellSize(n), n) \/ AllocateSplit(c, CellSize(n), n)

-----------------------------------------------------------------------------
(* picoos_deallocate                                                        *)

\* Both neighbours are free: they and c become one cell.
MergeBoth(c, s, cl, cr) ==
    LET crr == cr + size[cr]
    IN /\ size' = [size EXCEPT ![c] = s, ![cl] = size[cl] + s + size[cr]]
       /\ left' = [left EXCEPT ![crr] = cl]
       /\ prev' = [prev EXCEPT ![next[cr]] = prev[cr]]
       /\ next' = [next EXCEPT ![prev[cr]] = next[cr]]
       /\ heads' = heads \ {c, cr}

MergeLeft(c, s, cl, cr) ==
    /\ size' = [size EXCEPT ![c] = s, ![cl] = size[cl] + s]
    /\ left' = [left EXCEPT ![cr] = cl]
    /\ heads' = heads \ {c}
    /\ UNCHANGED links

\* c takes the place of its right neighbour in the list.
MergeRight(c, s, cr) ==
    LET crr == cr + size[cr]
    IN /\ size' = [size EXCEPT ![c] = s + size[cr]]
       /\ left' = [left EXCEPT ![crr] = c]
       /\ next' = [next EXCEPT ![c] = next[cr], ![prev[cr]] = c]
       /\ prev' = [prev EXCEPT ![c] = prev[cr], ![next[cr]] = c]
       /\ heads' = heads \ {cr}

\* c becomes the first of the list.
InsertFirst(c, s) ==
    /\ size' = [size EXCEPT ![c] = s]
    /\ next' = [next EXCEPT ![c] = next[Beg], ![Beg] = c]
    /\ prev' = [prev EXCEPT ![c] = Beg, ![next[Beg]] = c]
    /\ UNCHANGED <<left, heads>>

\* Mutant of Deallocate: free neighbours are not looked for.
DeallocateNeverMerges(c) ==
    /\ size[c] < 0
    /\ usedSize' = usedSize + size[c]
    /\ answer' = NoRequest
    /\ UNCHANGED maxUsedSize
    /\ InsertFirst(c, -size[c])

Deallocate(c) ==
    LET s == -size[c]
        cr == c + s
        cl == left[c]
    IN /\ size[c] < 0
       /\ usedSize' = usedSize - s
       /\ answer' = NoRequest
       /\ UNCHANGED maxUsedSize
       /\ \/ size[cl] > 0 /\ size[cr] > 0 /\ MergeBoth(c, s, cl, cr)
          \/ size[cl] > 0 /\ ~ size[cr] > 0 /\ MergeLeft(c, s, cl, cr)
          \/ ~ size[cl] > 0 /\ size[cr] > 0 /\ MergeRight(c, s, cr)
          \/ ~ size[cl] > 0 /\ ~ size[cr] > 0 /\ InsertFirst(c, s)

Next == \/ \E n \in Requests : Allocate(n)
        \/ \E c \in heads : Deallocate(c)

Spec == Init /\ [][Next]_vars

-----------------------------------------------------------------------------
Used == {a \in heads : size[a] < 0}
FreeCells == {a \in heads : size[a] > 0}
Extent(a) == IF size[a] < 0 THEN -size[a] ELSE size[a]

TypeOK == /\ size \in [Addresses -> Int] /\ left \in [Addresses -> Int]
          /\ prev \in [Addresses -> Int] /\ next \in [Addresses -> Int]
          /\ heads \in SUBSET Addresses
          /\ usedSize \in Int /\ maxUsedSize \in Int /\ usedSize =< maxUsedSize
          /\ answer \in [bytes : Int, adr : Int]

\* A cell starts where its left cell ends.
LeftEndsAt(a) == IF left[a] = Beg THEN a = Mid ELSE left[a] + Extent(left[a]) = a

(* The cells tile the block: a cell ends where the next one starts, that    *)
(* one knows it as its left cell, and no header lies inside another cell.   *)
Tiled ==
    /\ {Beg, Mid, End} \subseteq heads
    /\ size[Beg] = 0 /\ size[End] = 0
    /\ \A a \in heads \ {Beg, End} :
         /\ Extent(a) >= FullHdr
         /\ a + Extent(a) \in heads
         /\ left[a + Extent(a)] = a
         /\ \A b \in heads : ~ (a < b /\ b < a + Extent(a))
    /\ \A a \in heads \ {Beg} : left[a] \in heads \ {End} /\ LeftEndsAt(a)

(* The links of sentinels and free cells agree with each other, whatever    *)
(* clients wrote to the memory they were given.                             *)
Linked ==
    /\ \A a \in FreeCells \cup {Beg} : /\ next[a] \in FreeCells \cup {End}
                                       /\ prev[next[a]] = a
    /\ \A a \in FreeCells \cup {End} : /\ prev[a] \in FreeCells \cup {Beg}
                                       /\ next[prev[a]] = a
    /\ next[End] = NULL

(* Deallocation merges with both neighbours, so no two free cells touch.    *)
Merged == \A a \in FreeCells : size[a + size[a]] =< 0

(* The list holds every free cell: no other set of cells can be walked      *)
(* from one sentinel to the other.                                          *)
NoneLost == \A P \in SUBSET FreeCells :
                {next[a] : a \in P \cup {Beg}} = P \cup {End} => P = FreeCells

(* What every operation relies on, and only together is kept by each: the   *)
(* boundary tags, the links, that merging leaves no two free cells side by  *)
(* side, and that the list has them all.                                    *)
HeapSound == Tiled /\ Linked /\ Merged /\ NoneLost

(* A request is refused only if the block has no room for it: every stretch *)
(* that would hold the cell and another one after it touches a cell in use. *)
RefusedOnlyWhenFull ==
    answer.bytes >= 0 /\ answer.adr = NULL =>
        \A a \in Mid .. End - (CellSize(answer.bytes) + MinCell) :
            \E u \in Used : /\ u < a + CellSize(answer.bytes) + MinCell
                            /\ a < u + Extent(u)

(* When everything has been given back the block is one free cell again,    *)
(* in whatever order that happened.                                         *)
AllComesBack == Used = {} => heads = {Beg, Mid, End} /\ size[Mid] = BlockSize - 2 * FullHdr

\* How many bytes of content a client has from address a on.
InUse == [a \in Mid .. End - 1 |->
            IF (a - UsedHdr) \in heads /\ size[a - UsedHdr] < 0
            THEN -size[a - UsedHdr] - UsedHdr ELSE 0]

(* Every piece handed out holds what was asked for, is in the block,        *)
(* touches no other piece and keeps its place and size until given back.    *)
Pieces == INSTANCE Allocator WITH
    Low <- Mid, High <- End - 1, Requests <- Requests, Nowhere <- NULL, answer <- answer,
    piece <- InUse
ImplementsAllocator == Pieces!Spec

=============================================================================
