------------------------- MODULE MemoryManagerProofs -------------------------
(***************************************************************************)
(* Proofs about MemoryManager, for every size of header and block, every    *)
(* alignment and every sequence of requests: headers and list stay          *)
(* consistent although clients overwrite all they are given, a request is   *)
(* refused only when no cell is large enough, and each call is a step of    *)
(* Allocator or no step.                                                    *)
(***************************************************************************)
EXTENDS MemoryManager, WellFoundedInduction, TLAPS

\* The parts of the invariant that support each other.
IInv == TypeOK /\ Tiled /\ Linked /\ Merged /\ NoneLost

-----------------------------------------------------------------------------
(* Sizes and addresses.                                                     *)

\* A request is rounded up to a cell that can hold the request and, later, a
\* header with links.
LEMMA CellSizeIsEnough ==
    ASSUME NEW n \in Nat
    PROVE  /\ CellSize(n) \in Int
           /\ CellSize(n) >= FullHdr
           /\ CellSize(n) >= n + UsedHdr
  <1>. DEFINE m == Larger(n, MinCont)
              q == (m + Align - 1) \div Align
  <1>1. /\ Align \in Nat /\ Align > 0 /\ UsedHdr \in Nat /\ FullHdr \in Nat
        /\ UsedHdr < FullHdr
    BY MemoryManagerAssumption, Zenon
  <1>2. m \in Nat /\ m >= n /\ m >= FullHdr - UsedHdr
    BY <1>1, SMT DEF Larger, MinCont
  <1>. HIDE DEF m
  <1>3. q \in Int /\ q * Align =< m + Align - 1 /\ m + Align - 1 < (q + 1) * Align
    BY <1>1, <1>2, SMT
  <1>. HIDE DEF q
  <1>4. (q + 1) * Align = q * Align + Align /\ q * Align \in Int
    BY <1>1, <1>3, SMT
  <1>5. CellSize(n) = q * Align + UsedHdr
    BY Zenon DEF CellSize, q, m
  <1>. QED BY <1>1, <1>2, <1>3, <1>4, <1>5, SMT

LEMMA Geometry ==
    /\ Align \in Int /\ UsedHdr \in Int /\ FullHdr \in Int /\ BlockSize \in Int
    /\ 0 < Align /\ 0 < UsedHdr /\ UsedHdr < FullHdr /\ BlockSize >= 3 * FullHdr
    /\ Junk \in Int
    /\ Beg \in Int /\ Mid \in Int /\ End \in Int
    /\ 0 < Beg /\ Mid = Beg + FullHdr /\ Mid + FullHdr =< End
    /\ End = Mid + (BlockSize - 2 * FullHdr)
    /\ MinCell = FullHdr + Align
    /\ NULL = 0
    /\ Addresses = Beg .. End
  BY MemoryManagerAssumption, SMT DEF Beg, Mid, End, MinCell, NULL, Addresses

-----------------------------------------------------------------------------
(* Cells that tile the block: H their headers, L left cells, E extents.     *)

Cell(H, L, E, a) == /\ E[a] \in Int /\ E[a] >= FullHdr
                    /\ a + E[a] \in H
                    /\ L[a + E[a]] = a
                    /\ \A b \in H : ~ (a < b /\ b < a + E[a])

Boundary(H, L, E, a) == /\ L[a] \in H \ {End}
                        /\ IF L[a] = Beg THEN a = Mid ELSE L[a] + E[L[a]] = a

TiledBy(H, L, E) == /\ {Beg, Mid, End} \subseteq H /\ H \subseteq Beg .. End
                    /\ \A a \in H \ {Beg, End} : Cell(H, L, E, a)
                    /\ \A a \in H \ {Beg} : Boundary(H, L, E, a)

\* Where a cell that is neither sentinel lies.
LEMMA TilesApart ==
    ASSUME NEW H, NEW L, NEW E, TiledBy(H, L, E), NEW a \in H \ {Beg, End}
    PROVE  /\ a \in Int /\ Mid =< a /\ E[a] \in Int /\ E[a] >= FullHdr
           /\ a + E[a] \in H /\ a + E[a] =< End
           /\ L[a + E[a]] = a
           /\ \A b \in H : b \in Int /\ ~ (a < b /\ b < a + E[a])
  <1>1. a \in Beg .. End /\ Mid \in H /\ H \subseteq Beg .. End
    BY Zenon DEF TiledBy
  <1>2. /\ E[a] \in Int /\ E[a] >= FullHdr
        /\ a + E[a] \in H
        /\ L[a + E[a]] = a
        /\ \A b \in H : ~ (a < b /\ b < a + E[a])
    BY Zenon DEF TiledBy, Cell
  <1>3. ~ (a < Mid /\ Mid < a + E[a])
    BY <1>1, <1>2, Zenon
  <1>4. a \in Int /\ a >= Beg
    BY <1>1, Geometry, SMT
  <1>5. Mid =< a
    BY <1>2, <1>3, <1>4, Geometry, SMT
  <1>6. \A b \in H : b \in Int /\ b =< End
    BY <1>1, Geometry, SMT
  <1>. QED BY <1>2, <1>4, <1>5, <1>6, Zenon

\* A cell cut in two leaves the block tiled.
LEMMA SplitTiles ==
    ASSUME NEW H, NEW L, NEW E, NEW L2, NEW E2, NEW c \in H \ {Beg, End}, NEW s \in Int,
           TiledBy(H, L, E), FullHdr =< s, s + FullHdr =< E[c],
           E2[c] = s, E2[c + s] = E[c] - s, L2[c + s] = c, L2[c + E[c]] = c + s,
           \A a \in H \ {c} : E2[a] = E[a],
           \A a \in H \ {c + E[c]} : L2[a] = L[a]
    PROVE  TiledBy(H \cup {c + s}, L2, E2) /\ c + s \notin H
  <1>. DEFINE c2 == c + s
              c2r == c + E[c]
              G == H \cup {c2}
  <1>1. /\ c \in Int /\ Mid =< c /\ E[c] \in Int
        /\ c2r \in H /\ c2r =< End /\ L[c2r] = c
        /\ \A b \in H : b \in Int /\ ~ (c < b /\ b < c2r)
    BY TilesApart, SMT
  <1>2. c2 \in Int /\ c < c2 /\ c2 < c2r /\ c2r \in Int
    BY <1>1, Geometry, SMT
  <1>3. c2 \notin H
    BY <1>1, <1>2, Zenon
  <1>4. {Beg, Mid, End} \subseteq H /\ H \subseteq Beg .. End
    BY Zenon DEF TiledBy
  <1>5. c2 \in Beg .. End /\ c2 # Beg /\ c2 # End /\ c2r # Beg /\ c2 # Mid
    BY <1>1, <1>2, Geometry, SMT
  <1>6. ASSUME NEW a \in G \ {Beg, End} PROVE Cell(G, L2, E2, a)
    <2>1. CASE a = c
      BY <1>1, <1>2, <1>3, <2>1, SMT DEF Cell
    <2>2. CASE a = c2
      BY <1>1, <1>2, <1>3, <2>2, Geometry, SMT DEF Cell
    <2>3. CASE a # c /\ a # c2
      <3>1. /\ a \in H /\ a \in Int /\ E[a] \in Int /\ E[a] >= FullHdr
            /\ a + E[a] \in H /\ L[a + E[a]] = a
            /\ \A b \in H : b \in Int /\ ~ (a < b /\ b < a + E[a])
        BY <2>3, TilesApart, SMT
      <3>2. E2[a] = E[a]
        BY <2>3, <3>1, SMT
      <3>3. a + E[a] # c2r
        BY <1>1, <2>3, <3>1, SMT
      <3>4. L2[a + E[a]] = a
        BY <3>1, <3>3, SMT
      <3>5. ~ (a < c /\ c < a + E[a]) /\ ~ (c < a /\ a < c2r)
        BY <1>1, <3>1, Zenon
      <3>6. ~ (a < c2 /\ c2 < a + E[a])
        BY <1>1, <1>2, <2>3, <3>1, <3>5, SMT
      <3>7. \A b \in G : ~ (a < b /\ b < a + E[a])
        BY <3>1, <3>6, Zenon
      <3>. QED BY <3>1, <3>2, <3>4, <3>7, SMT DEF Cell
    <2>. QED BY <2>1, <2>2, <2>3, Zenon
  <1>7. ASSUME NEW a \in G \ {Beg} PROVE Boundary(G, L2, E2, a)
    <2>1. CASE a = c2
      BY <1>2, <1>5, <2>1, SMT DEF Boundary
    <2>2. CASE a = c2r
      BY <1>1, <1>2, <1>5, <2>2, SMT DEF Boundary
    <2>3. CASE a # c2 /\ a # c2r
      <3>1. a \in H /\ L2[a] = L[a]
        BY <2>3, SMT
      <3>2. L[a] \in H \ {End} /\ IF L[a] = Beg THEN a = Mid ELSE L[a] + E[L[a]] = a
        BY <2>3, Zenon DEF TiledBy, Boundary
      <3>3. L[a] # c
        BY <1>5, <2>3, <3>2, SMT
      <3>4. E2[L[a]] = E[L[a]]
        BY <3>2, <3>3, Zenon
      <3>. QED BY <3>1, <3>2, <3>4, SMT DEF Boundary
    <2>. QED BY <2>1, <2>2, <2>3, Zenon
  <1>8. {Beg, Mid, End} \subseteq G /\ G \subseteq Beg .. End
    BY <1>4, <1>5, SMT
  <1>. QED BY <1>3, <1>6, <1>7, <1>8, Zenon DEF TiledBy

\* So do two neighbours joined to one.
LEMMA JoinTiles ==
    ASSUME NEW H, NEW L, NEW E, NEW L2, NEW E2, NEW c \in H \ {Beg, End}, NEW r \in H \ {Beg, End},
           TiledBy(H, L, E), r = c + E[c],
           E2[c] = E[c] + E[r], L2[r + E[r]] = c,
           \A a \in H \ {c, r} : E2[a] = E[a],
           \A a \in H \ {r, r + E[r]} : L2[a] = L[a]
    PROVE  TiledBy(H \ {r}, L2, E2)
  <1>. DEFINE rr == r + E[r]
              G == H \ {r}
  <1>1. /\ c \in Int /\ Mid =< c /\ E[c] \in Int /\ E[c] >= FullHdr /\ L[r] = c
        /\ \A b \in H : b \in Int /\ ~ (c < b /\ b < r)
    BY TilesApart, SMT
  <1>2. /\ r \in Int /\ E[r] \in Int /\ E[r] >= FullHdr
        /\ rr \in H /\ rr =< End /\ L[rr] = r
        /\ \A b \in H : b \in Int /\ ~ (r < b /\ b < rr)
    BY TilesApart, SMT
  <1>3. c < r /\ r < rr /\ rr \in Int /\ r # Mid /\ rr # Beg /\ rr # Mid /\ c # rr
    BY <1>1, <1>2, Geometry, SMT
  <1>4. {Beg, Mid, End} \subseteq G /\ G \subseteq Beg .. End
    BY <1>3, Zenon DEF TiledBy
  <1>6. ASSUME NEW a \in G \ {Beg, End} PROVE Cell(G, L2, E2, a)
    <2>1. CASE a = c
      <3>1. \A b \in G : ~ (c < b /\ b < rr)
        BY <1>1, <1>2, <1>3, SMT
      <3>. QED BY <1>1, <1>2, <1>3, <2>1, <3>1, Geometry, SMT DEF Cell
    <2>3. CASE a # c
      <3>1. /\ a \in H /\ a \in Int /\ E[a] \in Int /\ E[a] >= FullHdr
            /\ a + E[a] \in H /\ L[a + E[a]] = a
            /\ \A b \in H : b \in Int /\ ~ (a < b /\ b < a + E[a])
        BY <2>3, TilesApart, SMT
      <3>2. E2[a] = E[a]
        BY <2>3, <3>1, SMT
      <3>3. a + E[a] # rr /\ a + E[a] # r
        BY <1>1, <1>2, <2>3, <3>1, SMT
      <3>4. L2[a + E[a]] = a
        BY <3>1, <3>3, SMT
      <3>. QED BY <3>1, <3>2, <3>3, <3>4, SMT DEF Cell
    <2>. QED BY <2>1, <2>3, Zenon
  <1>7. ASSUME NEW a \in G \ {Beg} PROVE Boundary(G, L2, E2, a)
    <2>2. CASE a = rr
      BY <1>1, <1>2, <1>3, <2>2, SMT DEF Boundary
    <2>3. CASE a # rr
      <3>1. a \in H /\ L2[a] = L[a]
        BY <2>3, SMT
      <3>2. L[a] \in H \ {End} /\ IF L[a] = Beg THEN a = Mid ELSE L[a] + E[L[a]] = a
        BY <2>3, Zenon DEF TiledBy, Boundary
      <3>3. L[a] # c /\ L[a] # r
        BY <2>3, <3>2, SMT
      <3>4. E2[L[a]] = E[L[a]]
        BY <3>2, <3>3, Zenon
      <3>. QED BY <3>1, <3>2, <3>3, <3>4, SMT DEF Boundary
    <2>. QED BY <2>2, <2>3, Zenon
  <1>. QED BY <1>4, <1>6, <1>7, Zenon DEF TiledBy

-----------------------------------------------------------------------------
(* Doubly linked lists between the two sentinels.                           *)

Walk(P, nx) == {nx[a] : a \in P \cup {Beg}} = P \cup {End}

\* F is linked by nx and pv, and nothing less than F is.
ListOf(F, nx, pv) ==
    /\ Beg \notin F /\ End \notin F
    /\ \A a \in F \cup {Beg} : nx[a] \in F \cup {End} /\ pv[nx[a]] = a
    /\ \A a \in F \cup {End} : pv[a] \in F \cup {Beg} /\ nx[pv[a]] = a
    /\ \A P \in SUBSET F : Walk(P, nx) => P = F

\* What it is to walk from one sentinel to the other, cell by cell.
LEMMA WalkStepwise ==
    ASSUME NEW P, NEW nx
    PROVE  Walk(P, nx) <=> /\ \A a \in P \cup {Beg} : nx[a] \in P \cup {End}
                           /\ \A b \in P \cup {End} : \E a \in P \cup {Beg} : nx[a] = b
  BY Zenon DEF Walk

\* No cell of a list is its own neighbour.
LEMMA NoSelfLoop ==
    ASSUME NEW F, NEW nx, NEW pv, ListOf(F, nx, pv), NEW x \in F, Beg # End
    PROVE  nx[x] # x /\ pv[x] # x
  <1>1. nx[x] = x <=> pv[x] = x
    BY Zenon DEF ListOf
  <1>. SUFFICES ASSUME nx[x] = x PROVE FALSE
    BY <1>1, Zenon
  <1>. DEFINE P == F \ {x}
  <1>2. \A a \in P \cup {Beg} : nx[a] \in P \cup {End}
    BY SMT DEF ListOf
  <1>3. \A b \in P \cup {End} : pv[b] \in P \cup {Beg} /\ nx[pv[b]] = b
    BY SMT DEF ListOf
  <1>4. Walk(P, nx)
    BY <1>2, <1>3, WalkStepwise, Zenon
  <1>. QED BY <1>4, Zenon DEF ListOf

\* A list stays one when a cell is taken out of it,
LEMMA RemoveKeepsList ==
    ASSUME NEW F, NEW nx, NEW pv, NEW nx2, NEW pv2, NEW x \in F,
           ListOf(F, nx, pv), Beg # End,
           \A a \in (F \ {x}) \cup {Beg} : nx2[a] = IF a = pv[x] THEN nx[x] ELSE nx[a],
           \A a \in (F \ {x}) \cup {End} : pv2[a] = IF a = nx[x] THEN pv[x] ELSE pv[a]
    PROVE  ListOf(F \ {x}, nx2, pv2)
  <1>1. nx[x] # x /\ pv[x] # x
    BY NoSelfLoop, SMT
  <1>2. \A a \in (F \ {x}) \cup {Beg} : nx2[a] \in (F \ {x}) \cup {End} /\ pv2[nx2[a]] = a
    BY <1>1, SMT DEF ListOf
  <1>3. \A a \in (F \ {x}) \cup {End} : pv2[a] \in (F \ {x}) \cup {Beg} /\ nx2[pv2[a]] = a
    BY <1>1, SMT DEF ListOf
  <1>4. ASSUME NEW Q \in SUBSET (F \ {x}), Walk(Q, nx2) PROVE Q = F \ {x}
    <2>1. /\ \A a \in Q \cup {Beg} : nx2[a] \in Q \cup {End}
          /\ \A b \in Q \cup {End} : \E a \in Q \cup {Beg} : nx2[a] = b
      BY <1>4, WalkStepwise, Zenon
    <2>2. CASE pv[x] \in Q \cup {Beg}
      <3>. DEFINE P == Q \cup {x}
      <3>1. \A a \in P \cup {Beg} : nx[a] \in P \cup {End}
        BY <1>1, <2>1, <2>2, SMT DEF ListOf
      <3>2. \A b \in P \cup {End} : \E a \in P \cup {Beg} : nx[a] = b
        <4>1. nx[pv[x]] = x
          BY Zenon DEF ListOf
        <4>2. ASSUME NEW b \in Q \cup {End} PROVE \E a \in P \cup {Beg} : nx[a] = b
          <5>1. PICK a \in Q \cup {Beg} : nx2[a] = b
            BY <2>1, Zenon
          <5>2. CASE a = pv[x]
            <6>1. nx[x] = b
              BY <5>1, <5>2, SMT
            <6>. QED BY <6>1, Zenon
          <5>3. CASE a # pv[x]
            <6>1. nx[a] = b
              BY <5>1, <5>3, SMT
            <6>. QED BY <6>1, Zenon
          <5>. QED BY <5>2, <5>3, Zenon
        <4>. QED BY <2>2, <4>1, <4>2, Zenon
      <3>3. Walk(P, nx)
        BY <3>1, <3>2, WalkStepwise, Zenon
      <3>4. P = F
        BY <3>3, SMT DEF ListOf
      <3>. QED BY <3>4, SMT
    <2>3. CASE pv[x] \notin Q \cup {Beg}
      <3>1. \A a \in Q \cup {Beg} : nx2[a] = nx[a]
        BY <2>3, SMT
      <3>2. Walk(Q, nx)
        BY <2>1, <3>1, WalkStepwise, Zenon
      <3>3. Q = F
        BY <3>2, Zenon DEF ListOf
      <3>. QED BY <3>3, Zenon
    <2>. QED BY <2>2, <2>3, Zenon
  <1>. QED BY <1>2, <1>3, <1>4, Zenon DEF ListOf

\* when a cell takes the place of another,
LEMMA ReplaceKeepsList ==
    ASSUME NEW F, NEW nx, NEW pv, NEW nx2, NEW pv2, NEW x \in F, NEW y,
           ListOf(F, nx, pv), y \notin F, y # Beg, y # End, Beg # End,
           nx2[y] = nx[x], pv2[y] = pv[x],
           \A a \in (F \ {x}) \cup {Beg} : nx2[a] = IF a = pv[x] THEN y ELSE nx[a],
           \A a \in (F \ {x}) \cup {End} : pv2[a] = IF a = nx[x] THEN y ELSE pv[a]
    PROVE  ListOf((F \ {x}) \cup {y}, nx2, pv2)
  <1>1. nx[x] # x /\ pv[x] # x
    BY NoSelfLoop, SMT
  <1>. DEFINE G == (F \ {x}) \cup {y}
  <1>2. \A a \in G \cup {Beg} : nx2[a] \in G \cup {End} /\ pv2[nx2[a]] = a
    BY <1>1, SMT DEF ListOf
  <1>3. \A a \in G \cup {End} : pv2[a] \in G \cup {Beg} /\ nx2[pv2[a]] = a
    BY <1>1, SMT DEF ListOf
  <1>4. ASSUME NEW Q \in SUBSET G, Walk(Q, nx2) PROVE Q = G
    <2>1. /\ \A a \in Q \cup {Beg} : nx2[a] \in Q \cup {End}
          /\ \A b \in Q \cup {End} : \E a \in Q \cup {Beg} : nx2[a] = b
      BY <1>4, WalkStepwise, Zenon
    <2>2. CASE y \in Q
      <3>. DEFINE P == (Q \ {y}) \cup {x}
      <3>0. pv[x] \in P \cup {Beg}
        BY <1>1, <2>1, <2>2, SMT DEF ListOf
      <3>1. \A a \in P \cup {Beg} : nx[a] \in P \cup {End}
        BY <1>1, <2>1, <2>2, SMT DEF ListOf
      <3>2. \A b \in P \cup {End} : \E a \in P \cup {Beg} : nx[a] = b
        BY <1>1, <2>1, <2>2, <3>0, SMT DEF ListOf
      <3>3. Walk(P, nx)
        BY <3>1, <3>2, WalkStepwise, Zenon
      <3>4. P = F
        BY <3>3, SMT DEF ListOf
      <3>. QED BY <2>2, <3>4, SMT
    <2>3. CASE y \notin Q
      <3>1. \A a \in Q \cup {Beg} : nx2[a] = nx[a]
        BY <2>1, <2>3, SMT
      <3>2. Walk(Q, nx)
        BY <2>1, <3>1, WalkStepwise, SMTT(30)
      <3>3. Q = F
        BY <2>3, <3>2, SMT DEF ListOf
      <3>. QED BY <2>3, <3>3, SMT
    <2>. QED BY <2>2, <2>3, Zenon
  <1>. QED BY <1>2, <1>3, <1>4, SMT DEF ListOf

\* and when a cell is put at its head.
LEMMA InsertKeepsList ==
    ASSUME NEW F, NEW nx, NEW pv, NEW nx2, NEW pv2, NEW y,
           ListOf(F, nx, pv), y \notin F, y # Beg, y # End, Beg # End,
           nx2[y] = nx[Beg], pv2[y] = Beg, nx2[Beg] = y,
           \A a \in F : nx2[a] = nx[a],
           \A a \in F \cup {End} : pv2[a] = IF a = nx[Beg] THEN y ELSE pv[a]
    PROVE  ListOf(F \cup {y}, nx2, pv2)
  <1>. DEFINE G == F \cup {y}
  <1>2. \A a \in G \cup {Beg} : nx2[a] \in G \cup {End} /\ pv2[nx2[a]] = a
    BY SMT DEF ListOf
  <1>3. \A a \in G \cup {End} : pv2[a] \in G \cup {Beg} /\ nx2[pv2[a]] = a
    BY SMT DEF ListOf
  <1>4. ASSUME NEW Q \in SUBSET G, Walk(Q, nx2) PROVE Q = G
    <2>1. /\ \A a \in Q \cup {Beg} : nx2[a] \in Q \cup {End}
          /\ \A b \in Q \cup {End} : \E a \in Q \cup {Beg} : nx2[a] = b
      BY <1>4, WalkStepwise, Zenon
    <2>2. y \in Q
      BY <2>1, SMT
    <2>. DEFINE P == Q \ {y}
    <2>3. \A a \in P \cup {Beg} : nx[a] \in P \cup {End}
      BY <2>1, <2>2, SMT DEF ListOf
    <2>4. \A b \in P \cup {End} : \E a \in P \cup {Beg} : nx[a] = b
      BY <2>1, <2>2, SMT DEF ListOf
    <2>5. Walk(P, nx)
      BY <2>3, <2>4, WalkStepwise, Zenon
    <2>6. P = F
      BY <2>5, SMT DEF ListOf
    <2>. QED BY <2>2, <2>6, SMT
  <1>. QED BY <1>2, <1>3, <1>4, SMT DEF ListOf

-----------------------------------------------------------------------------
(* The state as tiles and a list.                                           *)

Extents == [a \in Addresses |-> Extent(a)]

\* IInv in the terms of the lemmas above.
LEMMA InvariantIsTilesAndList ==
    IInv <=> /\ TypeOK
             /\ size[Beg] = 0 /\ size[End] = 0 /\ next[End] = NULL
             /\ TiledBy(heads, left, Extents)
             /\ ListOf(FreeCells, next, prev)
             /\ Merged
  <1>. DEFINE Z == size[Beg] = 0 /\ size[End] = 0
  <1>1. ASSUME TypeOK, Z PROVE Tiled <=> TiledBy(heads, left, Extents)
    <2>1. \A a \in Beg .. End : Extents[a] = Extent(a) /\ Extent(a) \in Int
      BY <1>1, Geometry, SMT DEF TypeOK, Extents, Extent
    <2>2. heads \subseteq Beg .. End
      BY <1>1, Geometry, Zenon DEF TypeOK
    <2>3. ASSUME NEW a \in heads
          PROVE  Cell(heads, left, Extents, a) <=>
                    /\ Extent(a) >= FullHdr
                    /\ a + Extent(a) \in heads
                    /\ left[a + Extent(a)] = a
                    /\ \A b \in heads : ~ (a < b /\ b < a + Extent(a))
      <3>1. Extents[a] = Extent(a) /\ Extent(a) \in Int
        BY <2>1, <2>2, Zenon
      <3>. QED BY <3>1, Zenon DEF Cell
    <2>4. ASSUME NEW a \in heads, left[a] \in heads \ {End}
          PROVE  Boundary(heads, left, Extents, a) <=> LeftEndsAt(a)
      <3>1. Extents[left[a]] = Extent(left[a])
        BY <2>1, <2>2, <2>4, Zenon
      <3>. QED BY <3>1, <2>4, Zenon DEF Boundary, LeftEndsAt
    <2>5. ASSUME NEW a \in heads
          PROVE  Boundary(heads, left, Extents, a) => left[a] \in heads \ {End}
      BY Zenon DEF Boundary
    <2>. QED BY <1>1, <2>2, <2>3, <2>4, <2>5, Zenon DEF Tiled, TiledBy
  <1>2. ASSUME Z PROVE Linked /\ NoneLost <=> next[End] = NULL /\ ListOf(FreeCells, next, prev)
    <2>1. Beg \notin FreeCells /\ End \notin FreeCells
      BY <1>2, SMT DEF FreeCells
    <2>. QED BY <2>1, Zenon DEF Linked, NoneLost, ListOf, Walk
  <1>3. Tiled => Z
    BY Zenon DEF Tiled
  <1>. QED BY <1>1, <1>2, <1>3, Zenon DEF IInv

LEMMA InvariantIsTilesAndListNext ==
    IInv' <=> /\ TypeOK'
              /\ (size[Beg] = 0)' /\ (size[End] = 0)' /\ (next[End] = NULL)'
              /\ TiledBy(heads, left, Extents)'
              /\ ListOf(FreeCells, next, prev)'
              /\ Merged'
  BY InvariantIsTilesAndList, PTL

\* Only headers in force count.
LEMMA SameTiles ==
    ASSUME NEW H, NEW L, NEW E, NEW L2, NEW E2, TiledBy(H, L, E),
           \A a \in H : L2[a] = L[a] /\ E2[a] = E[a]
    PROVE  TiledBy(H, L2, E2)
  <1>1. ASSUME NEW a \in H \ {Beg, End} PROVE Cell(H, L2, E2, a)
    BY Zenon DEF TiledBy, Cell
  <1>2. ASSUME NEW a \in H \ {Beg} PROVE Boundary(H, L2, E2, a)
    <2>1. L[a] \in H \ {End} /\ IF L[a] = Beg THEN a = Mid ELSE L[a] + E[L[a]] = a
      BY Zenon DEF TiledBy, Boundary
    <2>2. L2[a] = L[a] /\ E2[L[a]] = E[L[a]]
      BY <2>1, Zenon
    <2>. QED BY <2>1, <2>2, Zenon DEF Boundary
  <1>. QED BY <1>1, <1>2, Zenon DEF TiledBy

\* A client's writing reaches no header but those inside its own memory.
LEMMA OverwrittenElsewhere ==
    ASSUME NEW field \in [Addresses -> Int], NEW c \in Addresses, NEW n \in Int
    PROVE  /\ Overwritten(field, c, n) \in [Addresses -> Int]
           /\ LinksOverwritten(field, c, n) \in [Addresses -> Int]
           /\ \A a \in Addresses : ~ (c < a /\ a < c + n) =>
                 /\ Overwritten(field, c, n)[a] = field[a]
                 /\ a # c => LinksOverwritten(field, c, n)[a] = field[a]
  <1>1. Junk \in Int
    BY Geometry, Zenon
  <1>2. Overwritten(field, c, n) \in [Addresses -> Int]
    BY <1>1, SMT DEF Overwritten
  <1>3. LinksOverwritten(field, c, n) \in [Addresses -> Int]
    BY <1>1, <1>2, SMT DEF LinksOverwritten
  <1>4. ASSUME NEW a \in Addresses, ~ (c < a /\ a < c + n)
        PROVE  Overwritten(field, c, n)[a] = field[a]
    BY <1>4, SMT DEF Overwritten
  <1>5. ASSUME NEW a \in Addresses, a # c
        PROVE  LinksOverwritten(field, c, n)[a] = Overwritten(field, c, n)[a]
    BY <1>2, <1>5, SMT DEF LinksOverwritten
  <1>. QED BY <1>2, <1>3, <1>4, <1>5, Zenon

Spared(G, field, c, n) ==
    /\ Overwritten(field, c, n) \in [Addresses -> Int]
    /\ LinksOverwritten(field, c, n) \in [Addresses -> Int]
    /\ \A a \in G : Overwritten(field, c, n)[a] = field[a]
    /\ \A a \in G \ {c} : LinksOverwritten(field, c, n)[a] = field[a]

LEMMA OverwrittenSpares ==
    ASSUME NEW G \in SUBSET Addresses, NEW field \in [Addresses -> Int], NEW c \in G, NEW n \in Int,
           \A b \in G : ~ (c < b /\ b < c + n)
    PROVE  Spared(G, field, c, n)
  <1>1. c \in Addresses
    BY Zenon
  <1>2. /\ Overwritten(field, c, n) \in [Addresses -> Int]
        /\ LinksOverwritten(field, c, n) \in [Addresses -> Int]
        /\ \A a \in Addresses : ~ (c < a /\ a < c + n) =>
              /\ Overwritten(field, c, n)[a] = field[a]
              /\ a # c => LinksOverwritten(field, c, n)[a] = field[a]
    BY <1>1, OverwrittenElsewhere, Zenon
  <1>. QED BY <1>2, Zenon DEF Spared

\* A cell that is neither sentinel is not empty.
LEMMA NotEmpty ==
    ASSUME IInv, NEW a \in heads, a # Beg, a # End
    PROVE  size[a] # 0
  <1>1. TypeOK /\ TiledBy(heads, left, Extents)
    BY InvariantIsTilesAndList, Zenon
  <1>2. Extents[a] = Extent(a)
    BY <1>1, SMT DEF TypeOK, Extents
  <1>3. Extents[a] \in Int /\ Extents[a] >= FullHdr
    BY <1>1, TilesApart, SMT
  <1>. QED BY <1>2, <1>3, Geometry, SMT DEF Extent

\* What the invariant says of a cell that is not a sentinel and its neighbours.
LEMMA Neighbours ==
    ASSUME IInv, NEW c \in heads, size[c] # 0
    PROVE  /\ c \in Int /\ c # Beg /\ c # End /\ size[c] \in Int
           /\ Mid =< c /\ Extent(c) \in Int /\ Extent(c) >= FullHdr
           /\ Extents[c] = Extent(c)
           /\ c + Extent(c) \in heads /\ c + Extent(c) \in Int
           /\ c + Extent(c) =< End /\ c + Extent(c) # c /\ c + Extent(c) # Beg
           /\ left[c + Extent(c)] = c
           /\ \A b \in heads : b \in Int /\ ~ (c < b /\ b < c + Extent(c))
           /\ left[c] \in heads /\ left[c] # End /\ left[c] # c
           /\ left[c] # Beg => left[c] + Extent(left[c]) = c
  <1>1. /\ TypeOK /\ size[Beg] = 0 /\ size[End] = 0 /\ TiledBy(heads, left, Extents)
    BY InvariantIsTilesAndList, Zenon
  <1>2. c \in heads \ {Beg, End}
    BY <1>1, Zenon
  <1>3. \A a \in heads : a \in Addresses /\ Extents[a] = Extent(a)
    BY <1>1, SMT DEF TypeOK, Extents
  <1>4. /\ c \in Int /\ Mid =< c /\ Extents[c] \in Int /\ Extents[c] >= FullHdr
        /\ c + Extents[c] \in heads /\ c + Extents[c] =< End
        /\ left[c + Extents[c]] = c
        /\ \A b \in heads : b \in Int /\ ~ (c < b /\ b < c + Extents[c])
    BY <1>1, <1>2, TilesApart, SMT
  <1>5. left[c] \in heads \ {End} /\ IF left[c] = Beg THEN c = Mid ELSE left[c] + Extents[left[c]] = c
    BY <1>1, <1>2, Zenon DEF TiledBy, Boundary
  <1>6. left[c] # Beg => left[c] + Extent(left[c]) = c
    BY <1>3, <1>5, Zenon
  <1>7. left[c] # c
    <2>1. CASE left[c] = Beg
      BY <1>2, <2>1, Zenon
    <2>2. CASE left[c] # Beg /\ left[c] = c
      BY <1>4, <1>5, <2>2, Geometry, SMT
    <2>. QED BY <2>1, <2>2, Zenon
  <1>8. size[c] \in Int /\ c + Extents[c] # c /\ c + Extents[c] # Beg /\ c + Extents[c] \in Int
    <2>1. size[c] \in Int
      BY <1>1, Zenon DEF TypeOK
    <2>. QED BY <1>4, <2>1, Geometry, SMT
  <1>. QED BY <1>2, <1>3, <1>4, <1>5, <1>6, <1>7, <1>8, Zenon

-----------------------------------------------------------------------------
(* Allocation.                                                              *)

\* A search that does not end at the sentinel ends at a free cell that fits.
LEMMA SearchFindsFree ==
    ASSUME IInv, NEW c \in heads, NEW s \in Int, s >= FullHdr, SearchEndsAt(c, s), c # End
    PROVE  c \in FreeCells /\ (size[c] = s \/ size[c] >= s + FullHdr)
  <1>1. PICK P \in SUBSET FreeCells : {next[a] : a \in P \cup {Beg}} = P \cup {c}
    BY Zenon DEF SearchEndsAt, FreeCells
  <1>2. ListOf(FreeCells, next, prev)
    BY InvariantIsTilesAndList, Zenon
  <1>3. PICK a \in P \cup {Beg} : next[a] = c
    BY <1>1, Zenon
  <1>4. c \in FreeCells
    BY <1>2, <1>3, SMT DEF ListOf
  <1>5. size[c] \in Int
    BY SMT DEF IInv, TypeOK
  <1>6. size[c] = s \/ size[c] >= s + MinCell
    BY Zenon DEF SearchEndsAt, Fits
  <1>. QED BY <1>4, <1>5, <1>6, Geometry, SMT

\* What a client sees of an allocation and of a deallocation.
Handed(c, s) == /\ Used' = Used \cup {c}
                /\ size'[c] = -s
                /\ \A a \in Used : size'[a] = size[a]
TakenBack(c) == /\ Used' = Used \ {c}
                /\ \A a \in Used' : size'[a] = size[a]

\* Only c was in use and is not any more.
LEMMA TakenBackBy ==
    ASSUME NEW c, heads' \subseteq heads,
           \A a \in Used \ {c} : a \in heads' /\ size'[a] = size[a],
           \A a \in heads' : size'[a] < 0 => a \in Used /\ a # c
    PROVE  TakenBack(c)
  <1>1. Used' = Used \ {c}
    <2>1. ASSUME NEW a \in Used' PROVE a \in Used \ {c}
      BY <2>1, Zenon DEF Used
    <2>2. ASSUME NEW a \in Used \ {c} PROVE a \in Used'
      <3>1. a \in heads' /\ size'[a] = size[a] /\ size[a] < 0
        BY <2>2, Zenon DEF Used
      <3>. QED BY <3>1, Zenon DEF Used
    <2>. QED BY <2>1, <2>2, Zenon
  <1>. QED BY <1>1, Zenon DEF TakenBack

\* A cell of the right size leaves the list and is in use.
LEMMA ExactPreserves ==
    ASSUME IInv, NEW c \in FreeCells, NEW s \in Int, NEW n \in Int, s >= FullHdr,
           AllocateExact(c, s, n)
    PROVE  IInv' /\ Handed(c, s)
  <1>1. /\ TypeOK /\ size[Beg] = 0 /\ size[End] = 0 /\ next[End] = NULL
        /\ TiledBy(heads, left, Extents) /\ ListOf(FreeCells, next, prev) /\ Merged
    BY InvariantIsTilesAndList, Zenon
  <1>2. /\ size[c] = s /\ heads' = heads
        /\ size' = [Overwritten(size, c, s) EXCEPT ![c] = -s]
        /\ left' = Overwritten(left, c, s)
        /\ next' = LinksOverwritten([next EXCEPT ![prev[c]] = next[c]], c, s)
        /\ prev' = LinksOverwritten([prev EXCEPT ![next[c]] = prev[c]], c, s)
        /\ HandOut(c, s, n)
    BY Zenon DEF AllocateExact
  <1>3. c \in heads /\ size[c] # 0 /\ s > 0
    <2>1. s > 0
      BY Geometry, SMT
    <2>2. c \in heads /\ size[c] = s
      BY <1>2, Zenon DEF FreeCells
    <2>. QED BY <2>1, <2>2, SMT
  <1>4. /\ c # Beg /\ c # End /\ c \in Int /\ Extent(c) = s
        /\ \A b \in heads : ~ (c < b /\ b < c + s)
    <2>1. Extent(c) = s
      BY <1>2, <1>3, SMT DEF Extent
    <2>. QED BY <1>3, <2>1, Neighbours, Zenon
  <1>5. /\ heads \subseteq Addresses /\ Beg \in heads /\ End \in heads
        /\ size \in [Addresses -> Int] /\ left \in [Addresses -> Int]
        /\ next \in [Addresses -> Int] /\ prev \in [Addresses -> Int]
    BY <1>1, Zenon DEF TypeOK, TiledBy
  <1>6. /\ prev[c] \in FreeCells \cup {Beg} /\ next[c] \in FreeCells \cup {End}
    BY <1>1, Zenon DEF ListOf
  <1>7. FreeCells \subseteq heads
    BY Zenon DEF FreeCells
  <1>8. prev[c] \in heads /\ next[c] \in heads /\ prev[c] \in Int /\ next[c] \in Int
    BY <1>4, <1>5, <1>6, <1>7, Zenon
  <1>9. /\ \A a \in heads : size'[a] = IF a = c THEN -s ELSE size[a]
        /\ size' \in [Addresses -> Int]
    <2>1. Spared(heads, size, c, s)
      BY <1>3, <1>4, <1>5, OverwrittenSpares, Zenon
    <2>2. /\ \A a \in heads : Overwritten(size, c, s)[a] = size[a]
          /\ Overwritten(size, c, s) \in [Addresses -> Int]
      BY <2>1, Zenon DEF Spared
    <2>. QED BY <1>2, <1>3, <1>5, <2>2, SMT
  <1>10. /\ \A a \in heads : left'[a] = left[a]
         /\ left' \in [Addresses -> Int]
    <2>1. Spared(heads, left, c, s)
      BY <1>3, <1>4, <1>5, OverwrittenSpares, Zenon
    <2>. QED BY <1>2, <2>1, Zenon DEF Spared
  <1>11. /\ \A a \in heads \ {c} : next'[a] = IF a = prev[c] THEN next[c] ELSE next[a]
         /\ next' \in [Addresses -> Int]
    <2>. DEFINE f == [next EXCEPT ![prev[c]] = next[c]]
    <2>1. f \in [Addresses -> Int] /\ \A a \in heads : f[a] = IF a = prev[c] THEN next[c] ELSE next[a]
      BY <1>5, <1>8, SMT
    <2>2. next' = LinksOverwritten(f, c, s)
      BY <1>2, Zenon
    <2>. HIDE DEF f
    <2>3. Spared(heads, f, c, s)
      BY <1>3, <1>4, <1>5, <2>1, OverwrittenSpares, Zenon
    <2>. QED BY <2>1, <2>2, <2>3, Zenon DEF Spared
  <1>12. /\ \A a \in heads \ {c} : prev'[a] = IF a = next[c] THEN prev[c] ELSE prev[a]
         /\ prev' \in [Addresses -> Int]
    <2>. DEFINE f == [prev EXCEPT ![next[c]] = prev[c]]
    <2>1. f \in [Addresses -> Int] /\ \A a \in heads : f[a] = IF a = next[c] THEN prev[c] ELSE prev[a]
      BY <1>5, <1>8, SMT
    <2>2. prev' = LinksOverwritten(f, c, s)
      BY <1>2, Zenon
    <2>. HIDE DEF f
    <2>3. Spared(heads, f, c, s)
      BY <1>3, <1>4, <1>5, <2>1, OverwrittenSpares, Zenon
    <2>. QED BY <2>1, <2>2, <2>3, Zenon DEF Spared
  <1>13. TypeOK'
    <2>1. /\ usedSize' \in Int /\ maxUsedSize' \in Int /\ usedSize' =< maxUsedSize'
          /\ answer' \in [bytes : Int, adr : Int]
      BY <1>1, <1>2, <1>4, Geometry, SMTT(30) DEF HandOut, TypeOK, Larger
    <2>. QED BY <1>2, <1>5, <1>9, <1>10, <1>11, <1>12, <2>1, Zenon DEF TypeOK
  <1>14. FreeCells' = FreeCells \ {c}
    BY <1>2, <1>3, <1>4, <1>9, SMT DEF FreeCells
  <1>15. ListOf(FreeCells', next', prev')
    <2>1. \A a \in (FreeCells \ {c}) \cup {Beg} : next'[a] = IF a = prev[c] THEN next[c] ELSE next[a]
      BY <1>4, <1>5, <1>7, <1>11, Zenon
    <2>2. \A a \in (FreeCells \ {c}) \cup {End} : prev'[a] = IF a = next[c] THEN prev[c] ELSE prev[a]
      BY <1>4, <1>5, <1>7, <1>12, Zenon
    <2>3. Beg # End
      BY Geometry, SMT
    <2>4. ListOf(FreeCells \ {c}, next', prev')
      BY <1>1, <2>1, <2>2, <2>3, RemoveKeepsList, Zenon
    <2>. QED BY <1>14, <2>4, Zenon
  <1>16. TiledBy(heads', left', Extents')
    <2>1. \A a \in heads : Extents'[a] = Extents[a]
      BY <1>3, <1>4, <1>5, <1>9, SMT DEF Extents, Extent
    <2>2. TiledBy(heads, left', Extents')
      BY <1>1, <1>10, <2>1, SameTiles, Zenon
    <2>. QED BY <1>2, <2>2, Zenon
  <1>17. Merged'
    <2>1. ASSUME NEW a \in FreeCells' PROVE size'[a + size'[a]] =< 0
      <3>1. a \in FreeCells /\ a \in heads /\ size'[a] = size[a] /\ size[a] # 0 /\ Extent(a) = size[a]
        BY <1>5, <1>9, <1>14, SMT DEF FreeCells, Extent
      <3>2. a + size[a] \in heads
        BY <3>1, Neighbours, Zenon
      <3>3. size[a + size[a]] =< 0
        BY <1>1, <3>1, Zenon DEF Merged
      <3>. QED BY <1>3, <1>9, <3>1, <3>2, <3>3, SMT
    <2>. QED BY <2>1, Zenon DEF Merged
  <1>18. size'[Beg] = 0 /\ size'[End] = 0 /\ next'[End] = NULL
    <2>1. prev[c] # End
      BY <1>1, <1>6, Geometry, SMT DEF ListOf
    <2>. QED BY <1>1, <1>4, <1>5, <1>9, <1>11, <2>1, SMT
  <1>19. Handed(c, s)
    <2>1. -s < 0
      BY <1>3, <1>4, Geometry, SMT
    <2>2. c \notin Used
      <3>1. ~ (s < 0)
        BY <1>3, SMT
      <3>. QED BY <1>2, <3>1, Zenon DEF Used
    <2>. QED BY <1>2, <1>3, <1>9, <2>1, <2>2, Zenon DEF Handed, Used
  <1>. QED BY <1>13, <1>15, <1>16, <1>17, <1>18, <1>19, InvariantIsTilesAndListNext, Zenon

\* A larger cell is cut in two: the first part is in use, the rest takes its
\* place in the list.
LEMMA SplitPreserves ==
    ASSUME IInv, NEW c \in FreeCells, NEW s \in Int, NEW n \in Int, s >= FullHdr,
           size[c] >= s + FullHdr, AllocateSplit(c, s, n)
    PROVE  IInv' /\ Handed(c, s)
  <1>. DEFINE c2 == c + s
              c2r == c + size[c]
              G == heads \cup {c2}
  <1>1. /\ TypeOK /\ size[Beg] = 0 /\ size[End] = 0 /\ next[End] = NULL
        /\ TiledBy(heads, left, Extents) /\ ListOf(FreeCells, next, prev) /\ Merged
    BY InvariantIsTilesAndList, Zenon
  <1>2. /\ heads' = G
        /\ size' = [Overwritten(size, c, s) EXCEPT ![c] = -s, ![c2] = size[c] - s]
        /\ left' = [Overwritten(left, c, s) EXCEPT ![c2] = c, ![c2r] = c2]
        /\ next' = LinksOverwritten([next EXCEPT ![c2] = next[c], ![prev[c]] = c2], c, s)
        /\ prev' = LinksOverwritten([prev EXCEPT ![c2] = prev[c], ![next[c]] = c2], c, s)
        /\ HandOut(c, s, n)
    BY Zenon DEF AllocateSplit
  <1>3. c \in heads /\ size[c] # 0 /\ size[c] > 0
    BY SMT DEF FreeCells
  <1>4. /\ c # Beg /\ c # End /\ c \in Int /\ Mid =< c /\ size[c] \in Int
        /\ c2r \in heads /\ c2r \in Int /\ c2r =< End /\ c2r # Beg /\ c2r # c
        /\ Extents[c] = size[c] /\ left[c2r] = c
        /\ \A b \in heads : b \in Int /\ ~ (c < b /\ b < c2r)
    <2>1. Extent(c) = size[c]
      <3>1. size[c] \in Int
        BY <1>1, <1>3, Zenon DEF TypeOK
      <3>2. ~ (size[c] < 0)
        BY <1>3, <3>1, SMT
      <3>. QED BY <3>2, Zenon DEF Extent
    <2>. QED BY <1>3, <2>1, Neighbours, Zenon
  <1>5. /\ heads \subseteq Addresses /\ Beg \in heads /\ End \in heads
        /\ size \in [Addresses -> Int] /\ left \in [Addresses -> Int]
        /\ next \in [Addresses -> Int] /\ prev \in [Addresses -> Int]
    BY <1>1, Zenon DEF TypeOK, TiledBy
  <1>6. /\ prev[c] \in FreeCells \cup {Beg} /\ next[c] \in FreeCells \cup {End}
    BY <1>1, Zenon DEF ListOf
  <1>7. FreeCells \subseteq heads
    BY Zenon DEF FreeCells
  <1>8. prev[c] \in heads /\ next[c] \in heads /\ prev[c] \in Int /\ next[c] \in Int
    BY <1>4, <1>5, <1>6, <1>7, Zenon
  <1>9. /\ c2 \in Int /\ c < c2 /\ c2 < c2r /\ c2 # c
        /\ c2 \in Addresses
    BY <1>4, Geometry, SMT
  <1>10. c2 \notin heads /\ c2 # Beg /\ c2 # End
    BY <1>4, <1>5, <1>9, Zenon
  <1>11. G \in SUBSET Addresses /\ c \in G /\ \A b \in G : ~ (c < b /\ b < c + s)
    <2>1. \A b \in heads : ~ (c < b /\ b < c + s)
      BY <1>4, <1>9, SMT
    <2>2. ~ (c < c2 /\ c2 < c2)
      BY <1>9, SMT
    <2>. QED BY <1>3, <1>5, <1>9, <2>1, <2>2, Zenon
  <1>. HIDE DEF c2, c2r, G
  <1>12. /\ \A a \in heads : size'[a] = IF a = c THEN -s ELSE size[a]
         /\ size'[c2] = size[c] - s
         /\ size' \in [Addresses -> Int]
    <2>1. Spared(G, size, c, s)
      BY <1>5, <1>11, OverwrittenSpares, Zenon
    <2>2. /\ \A a \in heads : Overwritten(size, c, s)[a] = size[a]
          /\ Overwritten(size, c, s) \in [Addresses -> Int]
      BY <2>1, Zenon DEF Spared, G
    <2>. QED BY <1>2, <1>3, <1>4, <1>5, <1>9, <1>10, <2>2, SMT
  <1>13. /\ \A a \in heads : left'[a] = IF a = c2r THEN c2 ELSE left[a]
         /\ left'[c2] = c
         /\ left' \in [Addresses -> Int]
    <2>1. Spared(G, left, c, s)
      BY <1>5, <1>11, OverwrittenSpares, Zenon
    <2>2. /\ \A a \in heads : Overwritten(left, c, s)[a] = left[a]
          /\ Overwritten(left, c, s) \in [Addresses -> Int]
      BY <2>1, Zenon DEF Spared, G
    <2>3. c2 # c2r
      BY <1>9, SMT
    <2>. QED BY <1>2, <1>3, <1>4, <1>5, <1>9, <1>10, <2>2, <2>3, SMT
  <1>14. /\ \A a \in heads \ {c} : next'[a] = IF a = prev[c] THEN c2 ELSE next[a]
         /\ next'[c2] = next[c]
         /\ next' \in [Addresses -> Int]
    <2>. DEFINE f == [next EXCEPT ![c2] = next[c], ![prev[c]] = c2]
    <2>1. /\ f \in [Addresses -> Int] /\ f[c2] = next[c]
          /\ \A a \in heads : f[a] = IF a = prev[c] THEN c2 ELSE next[a]
      BY <1>5, <1>8, <1>9, <1>10, SMT
    <2>2. next' = LinksOverwritten(f, c, s)
      BY <1>2, Zenon
    <2>. HIDE DEF f
    <2>3. Spared(G, f, c, s)
      BY <1>11, <2>1, OverwrittenSpares, Zenon
    <2>. QED BY <1>9, <2>1, <2>2, <2>3, Zenon DEF Spared, G
  <1>15. /\ \A a \in heads \ {c} : prev'[a] = IF a = next[c] THEN c2 ELSE prev[a]
         /\ prev'[c2] = prev[c]
         /\ prev' \in [Addresses -> Int]
    <2>. DEFINE f == [prev EXCEPT ![c2] = prev[c], ![next[c]] = c2]
    <2>1. /\ f \in [Addresses -> Int] /\ f[c2] = prev[c]
          /\ \A a \in heads : f[a] = IF a = next[c] THEN c2 ELSE prev[a]
      BY <1>5, <1>8, <1>9, <1>10, SMT
    <2>2. prev' = LinksOverwritten(f, c, s)
      BY <1>2, Zenon
    <2>. HIDE DEF f
    <2>3. Spared(G, f, c, s)
      BY <1>11, <2>1, OverwrittenSpares, Zenon
    <2>. QED BY <1>9, <2>1, <2>2, <2>3, Zenon DEF Spared, G
  <1>16. TypeOK'
    <2>1. /\ usedSize' \in Int /\ maxUsedSize' \in Int /\ usedSize' =< maxUsedSize'
          /\ answer' \in [bytes : Int, adr : Int]
      <3>1. HandOut(c, s, n) /\ usedSize \in Int /\ maxUsedSize \in Int
        BY <1>1, <1>2, Zenon DEF TypeOK
      <3>. QED BY <1>4, <3>1, Geometry, SMT DEF HandOut, Larger
    <2>. QED BY <1>2, <1>11, <1>12, <1>13, <1>14, <1>15, <2>1, Zenon DEF TypeOK
  <1>17. FreeCells' = (FreeCells \ {c}) \cup {c2}
    <2>1. size[c] - s > 0 /\ ~ (-s > 0)
      BY <1>4, Geometry, SMT
    <2>. QED BY <1>2, <1>3, <1>10, <1>12, <2>1, Zenon DEF FreeCells, G
  <1>18. ListOf(FreeCells', next', prev')
    <2>1. \A a \in (FreeCells \ {c}) \cup {Beg} : next'[a] = IF a = prev[c] THEN c2 ELSE next[a]
      BY <1>4, <1>5, <1>7, <1>14, Zenon
    <2>2. \A a \in (FreeCells \ {c}) \cup {End} : prev'[a] = IF a = next[c] THEN c2 ELSE prev[a]
      BY <1>4, <1>5, <1>7, <1>15, Zenon
    <2>3. Beg # End
      BY Geometry, SMT
    <2>4. c2 \notin FreeCells
      BY <1>7, <1>10, Zenon
    <2>5. ListOf((FreeCells \ {c}) \cup {c2}, next', prev')
      BY <1>1, <1>10, <1>14, <1>15, <2>1, <2>2, <2>3, <2>4, ReplaceKeepsList, Zenon
    <2>. QED BY <1>17, <2>5, Zenon
  <1>19. TiledBy(heads', left', Extents')
    <2>1. Extents'[c] = s /\ Extents'[c2] = Extents[c] - s
      <3>1. size'[c] = -s /\ size'[c2] = size[c] - s /\ -s < 0 /\ ~ (size[c] - s < 0) /\ -(-s) = s
        BY <1>3, <1>4, <1>12, Geometry, SMT
      <3>. QED BY <1>3, <1>4, <1>5, <1>9, <3>1, Zenon DEF Extents, Extent
    <2>2. \A a \in heads \ {c} : Extents'[a] = Extents[a]
      BY <1>5, <1>12, SMT DEF Extents, Extent
    <2>3. c \in heads \ {Beg, End} /\ FullHdr =< s /\ s + FullHdr =< Extents[c]
      BY <1>3, <1>4, Geometry, SMT
    <2>4. left'[c + s] = c /\ left'[c + Extents[c]] = c + s
      BY <1>4, <1>13, Zenon DEF c2, c2r
    <2>5. \A a \in heads \ {c + Extents[c]} : left'[a] = left[a]
      BY <1>4, <1>13, Zenon DEF c2r
    <2>6. TiledBy(heads \cup {c + s}, left', Extents')
      BY <1>1, <2>1, <2>2, <2>3, <2>4, <2>5, SplitTiles, Zenon DEF c2
    <2>. QED BY <1>2, <2>6, Zenon DEF G, c2
  <1>20. Merged'
    <2>1. ASSUME NEW a \in FreeCells' PROVE size'[a + size'[a]] =< 0
      <3>1. CASE a = c2
        <4>1. a + size'[a] = c2r
          BY <1>4, <1>12, <3>1, SMT DEF c2, c2r
        <4>2. size[c2r] =< 0
          BY <1>1, Zenon DEF Merged, c2r
        <4>. QED BY <1>4, <1>12, <4>1, <4>2, Zenon
      <3>2. CASE a # c2
        <4>1. a \in FreeCells /\ a # c
          BY <1>17, <2>1, <3>2, Zenon
        <4>2. a \in heads /\ size'[a] = size[a] /\ size[a] > 0 /\ size[a] \in Int
          BY <1>1, <1>12, <4>1, Zenon DEF FreeCells, TypeOK
        <4>3. size[a] # 0 /\ Extent(a) = size[a]
          BY <4>2, SMT DEF Extent
        <4>4. a + size[a] \in heads
          BY <4>2, <4>3, Neighbours, Zenon
        <4>5. size[a + size[a]] =< 0
          BY <1>1, <4>1, Zenon DEF Merged
        <4>6. -s =< 0
          BY Geometry, SMT
        <4>. DEFINE r == a + size[a]
        <4>7. size'[r] = IF r = c THEN -s ELSE size[r]
          BY <1>12, <4>4, Zenon
        <4>8. size'[r] =< 0
          BY <4>5, <4>6, <4>7, Zenon
        <4>. QED BY <4>2, <4>8, Zenon
      <3>. QED BY <3>1, <3>2, Zenon
    <2>. QED BY <2>1, Zenon DEF Merged
  <1>21. size'[Beg] = 0 /\ size'[End] = 0 /\ next'[End] = NULL
    <2>1. prev[c] # End
      BY <1>1, <1>6, Geometry, SMT DEF ListOf
    <2>. QED BY <1>1, <1>4, <1>5, <1>12, <1>14, <2>1, Zenon
  <1>22. Handed(c, s)
    <2>1. -s < 0 /\ ~ (size[c] - s < 0) /\ ~ (size[c] < 0)
      BY <1>3, <1>4, Geometry, SMT
    <2>. QED BY <1>2, <1>3, <1>10, <1>12, <2>1, Zenon DEF Handed, Used, G
  <1>. QED BY <1>16, <1>18, <1>19, <1>20, <1>21, <1>22, InvariantIsTilesAndListNext, Zenon

-----------------------------------------------------------------------------
(* Deallocation.                                                            *)

\* Where a cell in use lies between its neighbours, whose sizes tell if they
\* are free.
UsedFacts(c) ==
    LET s == -size[c]
        cl == left[c]
        cr == c + s
    IN /\ c \in Int /\ s \in Int /\ s > 0 /\ c # Beg /\ c # End /\ Extents[c] = s
       /\ cr \in heads /\ cr \in Int /\ cr # c /\ cr # Beg /\ left[cr] = c
       /\ cl \in heads /\ cl \in Int /\ cl # c /\ cl # End /\ cl # cr
       /\ size[cl] \in Int /\ size[cr] \in Int
       /\ size[cl] > 0 => /\ cl \in FreeCells /\ cl # Beg /\ Extents[cl] = size[cl]
                         /\ cl + size[cl] = c
       /\ size[cr] > 0 => /\ cr \in FreeCells /\ cr # End /\ Extents[cr] = size[cr]
                         /\ cr + size[cr] \in heads /\ cr + size[cr] # Beg
                         /\ cr + size[cr] # c /\ cr + size[cr] # cr /\ cr + size[cr] # cl
                         /\ size[cr + size[cr]] =< 0
       /\ \A a \in FreeCells : /\ a + size[a] \in heads /\ size[a] \in Int /\ size[a] > 0
                               /\ size[a + size[a]] =< 0
                               /\ a + size[a] = c => a = cl

\* A free cell and the end of it.
LEMMA FreeCell ==
    ASSUME IInv, NEW a \in FreeCells
    PROVE  /\ a \in heads /\ size[a] \in Int /\ size[a] > 0 /\ Extent(a) = size[a] /\ Extents[a] = size[a]
           /\ a # Beg /\ a # End /\ a \in Int
           /\ a + size[a] \in heads /\ left[a + size[a]] = a
           /\ a + size[a] \in Int /\ a + size[a] > a /\ a + size[a] # Beg
           /\ size[a + size[a]] =< 0
  <1>1. a \in heads /\ size[a] > 0
    BY Zenon DEF FreeCells
  <1>2. size[a] \in Int
    BY <1>1, Zenon DEF IInv, TypeOK
  <1>3. size[a] # 0 /\ Extent(a) = size[a]
    BY <1>1, <1>2, SMT DEF Extent
  <1>4. /\ a \in Int /\ a # Beg /\ a # End /\ Extents[a] = Extent(a)
        /\ a + Extent(a) \in heads /\ a + Extent(a) \in Int /\ a + Extent(a) # Beg
        /\ left[a + Extent(a)] = a
    BY <1>1, <1>3, Neighbours, Zenon
  <1>5. size[a + size[a]] =< 0
    BY Zenon DEF IInv, Merged
  <1>6. a + size[a] > a
    BY <1>1, <1>2, <1>4, SMT
  <1>. QED BY <1>1, <1>2, <1>3, <1>4, <1>5, <1>6, Zenon

LEMMA UsedCell ==
    ASSUME IInv, NEW c \in heads, size[c] < 0
    PROVE  UsedFacts(c)
  <1>. DEFINE s == -size[c]
              cl == left[c]
              cr == c + s
  <1>1. size[c] \in Int /\ heads \subseteq Addresses /\ size \in [Addresses -> Int] /\ left \in [Addresses -> Int]
        /\ size[Beg] = 0
    BY Zenon DEF IInv, TypeOK, Tiled
  <1>2. s \in Int /\ s > 0 /\ size[c] # 0 /\ Extent(c) = s
    BY <1>1, SMT DEF Extent
  <1>3. /\ c \in Int /\ c # Beg /\ c # End /\ Extents[c] = s
        /\ cr \in heads /\ cr \in Int /\ cr # c /\ cr # Beg /\ left[cr] = c
        /\ \A b \in heads : b \in Int /\ ~ (c < b /\ b < cr)
        /\ cl \in heads /\ cl # End /\ cl # c
        /\ cl # Beg => cl + Extent(cl) = c
    BY <1>2, Neighbours, Zenon
  <1>4. cl \in Int /\ size[cl] \in Int /\ size[cr] \in Int
    BY <1>1, <1>3, Zenon
  <1>. HIDE DEF s, cl, cr
  <1>5. ASSUME size[cl] > 0
        PROVE  cl \in FreeCells /\ cl # Beg /\ Extents[cl] = size[cl] /\ cl + size[cl] = c
    <2>1. cl \in FreeCells
      BY <1>3, <1>5, Zenon DEF FreeCells
    <2>2. cl # Beg /\ Extents[cl] = size[cl] /\ Extent(cl) = size[cl]
      BY <2>1, FreeCell, Zenon
    <2>. QED BY <1>3, <2>1, <2>2, Zenon
  <1>6. cl # cr
    <2>1. cr > c
      BY <1>2, <1>3, SMT DEF cr
    <2>2. CASE cl = Beg
      BY <1>3, <2>2, Zenon
    <2>3. CASE cl # Beg
      <3>1. Extent(cl) \in Int /\ Extent(cl) >= 0
        BY <1>4, SMT DEF Extent
      <3>. QED BY <1>3, <1>4, <2>1, <2>3, <3>1, SMT
    <2>. QED BY <2>2, <2>3, Zenon
  <1>7. ASSUME size[cr] > 0
        PROVE  /\ cr \in FreeCells /\ cr # End /\ Extents[cr] = size[cr]
               /\ cr + size[cr] \in heads /\ cr + size[cr] # Beg
               /\ cr + size[cr] # c /\ cr + size[cr] # cr /\ cr + size[cr] # cl
               /\ size[cr + size[cr]] =< 0
    <2>1. cr \in FreeCells
      BY <1>3, <1>7, Zenon DEF FreeCells
    <2>2. /\ cr # End /\ Extents[cr] = size[cr] /\ cr + size[cr] \in heads /\ cr + size[cr] # Beg
          /\ size[cr + size[cr]] =< 0 /\ cr + size[cr] > cr
      BY <2>1, FreeCell, Zenon
    <2>3. cr > c
      BY <1>2, <1>3, SMT DEF cr
    <2>4. cl =< c
      <3>1. CASE cl = Beg
        <4>1. c \in Addresses
          BY <1>1, Zenon
        <4>. QED BY <3>1, <4>1, Geometry, SMT
      <3>2. CASE cl # Beg
        <4>1. Extent(cl) \in Int /\ Extent(cl) >= 0
          BY <1>4, SMT DEF Extent
        <4>. QED BY <1>3, <1>4, <3>2, <4>1, SMT
      <3>. QED BY <3>1, <3>2, Zenon
    <2>5. cr + size[cr] # c /\ cr + size[cr] # cr /\ cr + size[cr] # cl
      BY <1>3, <1>4, <2>2, <2>3, <2>4, SMT
    <2>. QED BY <2>1, <2>2, <2>5, Zenon
  <1>8. ASSUME NEW a \in FreeCells
        PROVE  /\ a + size[a] \in heads /\ size[a] \in Int /\ size[a] > 0
               /\ size[a + size[a]] =< 0
               /\ a + size[a] = c => a = cl
    <2>1. /\ a + size[a] \in heads /\ size[a] \in Int /\ size[a] > 0
          /\ size[a + size[a]] =< 0 /\ left[a + size[a]] = a
      BY FreeCell, Zenon
    <2>. QED BY <2>1, Zenon DEF cl
  <1>. QED BY <1>2, <1>3, <1>4, <1>5, <1>6, <1>7, <1>8, Zenon DEF UsedFacts, s, cl, cr

\* The counts, whatever the neighbours are.
CountsBack(s) == usedSize' = usedSize - s /\ answer' = NoRequest /\ maxUsedSize' = maxUsedSize

LEMMA CountsBackType ==
    ASSUME TypeOK, NEW s \in Int, s > 0, CountsBack(s)
    PROVE  /\ usedSize' \in Int /\ maxUsedSize' \in Int /\ usedSize' =< maxUsedSize'
           /\ answer' \in [bytes : Int, adr : Int]
  <1>1. usedSize \in Int /\ maxUsedSize \in Int /\ usedSize =< maxUsedSize
    BY Zenon DEF TypeOK
  <1>2. NoRequest \in [bytes : Int, adr : Int]
    BY SMT DEF NoRequest, NULL
  <1>. QED BY <1>1, <1>2, SMT DEF CountsBack

\* No free neighbour: the cell is put at the head of the list.
LEMMA InsertPreserves ==
    ASSUME IInv, NEW c \in heads, size[c] < 0, NEW s, s = -size[c], CountsBack(s),
           ~ (size[left[c]] > 0), ~ (size[c + s] > 0), InsertFirst(c, s)
    PROVE  IInv' /\ TakenBack(c)
  <1>1. /\ TypeOK /\ size[Beg] = 0 /\ size[End] = 0 /\ next[End] = NULL
        /\ TiledBy(heads, left, Extents) /\ ListOf(FreeCells, next, prev) /\ Merged
    BY InvariantIsTilesAndList, Zenon
  <1>2. /\ heads \subseteq Addresses /\ Beg \in heads /\ End \in heads /\ Beg # End
        /\ size \in [Addresses -> Int] /\ left \in [Addresses -> Int]
        /\ next \in [Addresses -> Int] /\ prev \in [Addresses -> Int]
        /\ FreeCells \subseteq heads /\ c \notin FreeCells
    <2>1. Beg # End
      BY Geometry, SMT
    <2>2. c \notin FreeCells
      <3>1. size[c] \in Int
        BY <1>1, Zenon DEF TypeOK
      <3>. QED BY <3>1, SMT DEF FreeCells
    <2>. QED BY <1>1, <2>1, <2>2, Zenon DEF TypeOK, TiledBy, FreeCells
  <1>3. UsedFacts(c)
    BY UsedCell, Zenon
  <1>4. /\ c \in Int /\ s \in Int /\ s > 0 /\ c # Beg /\ c # End /\ Extents[c] = s
        /\ c + s \in heads /\ c + s # c
        /\ \A a \in FreeCells : /\ a + size[a] \in heads /\ size[a] \in Int /\ size[a] > 0
                                /\ size[a + size[a]] =< 0
                                /\ a + size[a] = c => a = left[c]
    BY <1>3, Zenon DEF UsedFacts
  <1>5. /\ heads' = heads /\ left' = left
        /\ size' = [size EXCEPT ![c] = s]
        /\ next' = [next EXCEPT ![c] = next[Beg], ![Beg] = c]
        /\ prev' = [prev EXCEPT ![c] = Beg, ![next[Beg]] = c]
    BY Zenon DEF InsertFirst
  <1>6. next[Beg] \in FreeCells \cup {End}
    BY <1>1, Zenon DEF ListOf
  <1>7. next[Beg] \in heads /\ next[Beg] \in Int /\ next[Beg] # c
    BY <1>2, <1>4, <1>6, Zenon
  <1>8. /\ \A a \in heads : size'[a] = IF a = c THEN s ELSE size[a]
        /\ size' \in [Addresses -> Int]
    BY <1>2, <1>4, <1>5, SMT
  <1>9. /\ next'[c] = next[Beg] /\ next'[Beg] = c
        /\ \A a \in heads \ {c, Beg} : next'[a] = next[a]
        /\ next' \in [Addresses -> Int]
    BY <1>2, <1>4, <1>5, <1>7, SMT
  <1>10. /\ prev'[c] = Beg
         /\ \A a \in heads \ {c} : prev'[a] = IF a = next[Beg] THEN c ELSE prev[a]
         /\ prev' \in [Addresses -> Int]
    <2>1. Beg \in Int
      BY Geometry, Zenon
    <2>. QED BY <1>2, <1>4, <1>5, <1>7, <2>1, SMT
  <1>11. TypeOK'
    BY <1>1, <1>2, <1>4, <1>5, <1>8, <1>9, <1>10, CountsBackType, Zenon DEF TypeOK
  <1>12. FreeCells' = FreeCells \cup {c}
    BY <1>4, <1>5, <1>8, SMTT(30) DEF FreeCells
  <1>13. ListOf(FreeCells', next', prev')
    <2>1. \A a \in FreeCells : next'[a] = next[a]
      BY <1>1, <1>2, <1>9, Zenon DEF ListOf
    <2>2. \A a \in FreeCells \cup {End} : prev'[a] = IF a = next[Beg] THEN c ELSE prev[a]
      BY <1>2, <1>4, <1>10, Zenon
    <2>3. /\ ListOf(FreeCells, next, prev) /\ c \notin FreeCells /\ c # Beg /\ c # End /\ Beg # End
          /\ next'[c] = next[Beg] /\ prev'[c] = Beg /\ next'[Beg] = c
      BY <1>1, <1>2, <1>4, <1>9, <1>10, Zenon
    <2>4. ListOf(FreeCells \cup {c}, next', prev')
      BY <2>1, <2>2, <2>3, InsertKeepsList, Zenon
    <2>. QED BY <1>12, <2>4, Zenon
  <1>14. TiledBy(heads', left', Extents')
    <2>1. \A a \in heads : Extents'[a] = Extents[a]
      <3>1. Extents'[c] = Extents[c]
        <4>1. size'[c] = s /\ ~ (s < 0)
          BY <1>4, <1>8, SMT
        <4>. QED BY <1>2, <1>4, <4>1, Zenon DEF Extents, Extent
      <3>. QED BY <1>2, <1>8, <3>1, SMT DEF Extents, Extent
    <2>2. TiledBy(heads, left', Extents')
      BY <1>1, <1>5, <2>1, SameTiles, Zenon
    <2>. QED BY <1>5, <2>2, Zenon
  <1>15. Merged'
    <2>1. ASSUME NEW a \in FreeCells' PROVE size'[a + size'[a]] =< 0
      <3>1. CASE a = c
        <4>1. size'[a] = s /\ size'[c + s] = size[c + s] /\ size[c + s] \in Int
          BY <1>2, <1>4, <1>8, <3>1, Zenon
        <4>. QED BY <3>1, <4>1, SMT
      <3>2. CASE a # c
        <4>1. a \in FreeCells /\ a \in heads
          BY <1>2, <1>12, <3>2, Zenon
        <4>. DEFINE r == a + size[a]
        <4>2. r # c
          BY <1>4, <4>1, Zenon DEF FreeCells
        <4>3. size'[a] = size[a] /\ size'[r] = size[r] /\ size[r] =< 0
          BY <1>4, <1>8, <3>2, <4>1, <4>2, Zenon
        <4>. QED BY <4>3, Zenon
      <3>. QED BY <3>1, <3>2, Zenon
    <2>. QED BY <2>1, Zenon DEF Merged
  <1>16. size'[Beg] = 0 /\ size'[End] = 0 /\ next'[End] = NULL
    BY <1>1, <1>2, <1>4, <1>8, <1>9, Zenon
  <1>17. TakenBack(c)
    <2>1. ~ (s < 0)
      BY <1>4, SMT
    <2>. QED BY <1>4, <1>5, <1>8, <2>1, SMTT(30) DEF TakenBack, Used
  <1>. QED BY <1>11, <1>13, <1>14, <1>15, <1>16, <1>17, InvariantIsTilesAndListNext, Zenon

\* Only the left neighbour is free: it grows by the cell.
LEMMA LeftPreserves ==
    ASSUME IInv, NEW c \in heads, size[c] < 0, NEW s, s = -size[c], CountsBack(s),
           size[left[c]] > 0, ~ (size[c + s] > 0), MergeLeft(c, s, left[c], c + s)
    PROVE  IInv' /\ TakenBack(c)
  <1>. DEFINE cl == left[c]
              cr == c + s
  <1>1. /\ TypeOK /\ size[Beg] = 0 /\ size[End] = 0 /\ next[End] = NULL
        /\ TiledBy(heads, left, Extents) /\ ListOf(FreeCells, next, prev) /\ Merged
    BY InvariantIsTilesAndList, Zenon
  <1>2. /\ heads \subseteq Addresses /\ Beg \in heads /\ End \in heads /\ Beg # End
        /\ size \in [Addresses -> Int] /\ left \in [Addresses -> Int]
        /\ next \in [Addresses -> Int] /\ prev \in [Addresses -> Int]
        /\ FreeCells \subseteq heads /\ c \notin FreeCells
    <2>1. Beg # End
      BY Geometry, SMT
    <2>2. c \notin FreeCells
      <3>1. size[c] \in Int
        BY <1>1, Zenon DEF TypeOK
      <3>. QED BY <3>1, SMT DEF FreeCells
    <2>. QED BY <1>1, <2>1, <2>2, Zenon DEF TypeOK, TiledBy, FreeCells
  <1>3. UsedFacts(c)
    BY UsedCell, Zenon
  <1>4. /\ c \in Int /\ s \in Int /\ s > 0 /\ c # Beg /\ c # End /\ Extents[c] = s
        /\ cr \in heads /\ cr \in Int /\ cr # c /\ cl # cr /\ size[cr] \in Int
        /\ cl \in heads /\ cl \in Int /\ cl # c /\ cl # End /\ cl # Beg /\ cl \in FreeCells
        /\ size[cl] \in Int /\ size[cl] > 0 /\ Extents[cl] = size[cl] /\ cl + size[cl] = c
        /\ \A a \in FreeCells : /\ a + size[a] \in heads /\ size[a] \in Int /\ size[a] > 0
                                /\ size[a + size[a]] =< 0
                                /\ a + size[a] = c => a = cl
    BY <1>3, Zenon DEF UsedFacts
  <1>5. /\ heads' = heads \ {c} /\ next' = next /\ prev' = prev
        /\ size' = [size EXCEPT ![c] = s, ![cl] = size[cl] + s]
        /\ left' = [left EXCEPT ![cr] = cl]
    BY Zenon DEF MergeLeft, links
  <1>. HIDE DEF cl, cr
  <1>6. /\ \A a \in heads \ {c, cl} : size'[a] = size[a]
        /\ size'[cl] = size[cl] + s
        /\ size' \in [Addresses -> Int]
    BY <1>2, <1>4, <1>5, SMT
  <1>7. /\ \A a \in heads \ {cr} : left'[a] = left[a]
        /\ left'[cr] = cl
        /\ left' \in [Addresses -> Int]
    BY <1>2, <1>4, <1>5, SMT
  <1>8. size[cl] + s > 0
    BY <1>4, SMT
  <1>9. TypeOK'
    <2>1. heads' \subseteq Addresses
      BY <1>2, <1>5, Zenon
    <2>. QED BY <1>1, <1>2, <1>4, <1>5, <1>6, <1>7, <2>1, CountsBackType, Zenon DEF TypeOK
  <1>10. FreeCells' = FreeCells
    BY <1>2, <1>4, <1>5, <1>6, <1>8, Zenon DEF FreeCells
  <1>11. ListOf(FreeCells', next', prev')
    BY <1>1, <1>5, <1>10, Zenon
  <1>12. TiledBy(heads', left', Extents')
    <2>1. Extents'[cl] = Extents[cl] + Extents[c]
      <3>1. ~ (size[cl] + s < 0)
        BY <1>4, SMT
      <3>. QED BY <1>2, <1>4, <1>6, <3>1, Zenon DEF Extents, Extent
    <2>2. \A a \in heads \ {cl, c} : Extents'[a] = Extents[a]
      BY <1>2, <1>6, SMT DEF Extents, Extent
    <2>3. cl \in heads \ {Beg, End} /\ c \in heads \ {Beg, End} /\ c = cl + Extents[cl]
      BY <1>4, Zenon
    <2>4. left'[c + Extents[c]] = cl
      BY <1>4, <1>7, Zenon DEF cr
    <2>5. \A a \in heads \ {c, c + Extents[c]} : left'[a] = left[a]
      BY <1>4, <1>7, Zenon DEF cr
    <2>6. TiledBy(heads \ {c}, left', Extents')
      BY <1>1, <2>1, <2>2, <2>3, <2>4, <2>5, JoinTiles, Zenon
    <2>. QED BY <1>5, <2>6, Zenon
  <1>13. Merged'
    <2>1. ASSUME NEW a \in FreeCells' PROVE size'[a + size'[a]] =< 0
      <3>1. CASE a = cl
        <4>1. cl + (size[cl] + s) = cr
          BY <1>4, SMT DEF cr
        <4>2. ~ (size[cr] > 0)
          BY Zenon DEF cr
        <4>3. size'[a + size'[a]] = size[cr]
          BY <1>4, <1>6, <3>1, <4>1, Zenon
        <4>. QED BY <1>4, <4>2, <4>3, SMT
      <3>2. CASE a # cl
        <4>1. a \in FreeCells /\ a \in heads /\ a # c
          BY <1>2, <1>10, Zenon
        <4>. DEFINE r == a + size[a]
        <4>2. r # c /\ r \in heads /\ size[r] =< 0
          BY <1>4, <3>2, <4>1, Zenon
        <4>. HIDE DEF r
        <4>3. r # cl
          BY <1>4, <4>2, SMT
        <4>4. size'[a] = size[a] /\ size'[r] = size[r]
          BY <1>6, <3>2, <4>1, <4>2, <4>3, Zenon
        <4>. QED BY <4>2, <4>4, Zenon DEF r
      <3>. QED BY <3>1, <3>2, Zenon
    <2>. QED BY <2>1, Zenon DEF Merged
  <1>14. size'[Beg] = 0 /\ size'[End] = 0 /\ next'[End] = NULL
    BY <1>1, <1>2, <1>4, <1>5, <1>6, Zenon
  <1>15. TakenBack(c)
    <2>1. ~ (size[cl] + s < 0) /\ ~ (size[cl] < 0)
      BY <1>4, SMT
    <2>2. \A a \in Used \ {c} : a \in heads' /\ size'[a] = size[a]
      BY <1>5, <1>6, <2>1, Zenon DEF Used
    <2>3. \A a \in heads' : size'[a] < 0 => a \in Used /\ a # c
      BY <1>5, <1>6, <2>1, Zenon DEF Used
    <2>. QED BY <1>5, <2>2, <2>3, TakenBackBy, Zenon
  <1>. QED BY <1>9, <1>11, <1>12, <1>13, <1>14, <1>15, InvariantIsTilesAndListNext, Zenon

\* Only the right neighbour is free: the cell grows by it and takes its place
\* in the list.
LEMMA RightPreserves ==
    ASSUME IInv, NEW c \in heads, size[c] < 0, NEW s, s = -size[c], CountsBack(s),
           ~ (size[left[c]] > 0), size[c + s] > 0, MergeRight(c, s, c + s)
    PROVE  IInv' /\ TakenBack(c)
  <1>. DEFINE cl == left[c]
              cr == c + s
              crr == cr + size[cr]
  <1>1. /\ TypeOK /\ size[Beg] = 0 /\ size[End] = 0 /\ next[End] = NULL
        /\ TiledBy(heads, left, Extents) /\ ListOf(FreeCells, next, prev) /\ Merged
    BY InvariantIsTilesAndList, Zenon
  <1>2. /\ heads \subseteq Addresses /\ Beg \in heads /\ End \in heads /\ Beg # End
        /\ size \in [Addresses -> Int] /\ left \in [Addresses -> Int]
        /\ next \in [Addresses -> Int] /\ prev \in [Addresses -> Int]
        /\ FreeCells \subseteq heads /\ c \notin FreeCells
    <2>1. Beg # End
      BY Geometry, SMT
    <2>2. c \notin FreeCells
      <3>1. size[c] \in Int
        BY <1>1, Zenon DEF TypeOK
      <3>. QED BY <3>1, SMT DEF FreeCells
    <2>. QED BY <1>1, <2>1, <2>2, Zenon DEF TypeOK, TiledBy, FreeCells
  <1>3. UsedFacts(c)
    BY UsedCell, Zenon
  <1>4. /\ c \in Int /\ s \in Int /\ s > 0 /\ c # Beg /\ c # End /\ Extents[c] = s
        /\ cr \in heads /\ cr \in Int /\ cr # c /\ cr # Beg /\ cr # End /\ size[cr] \in Int
        /\ cr \in FreeCells /\ Extents[cr] = size[cr] /\ size[cr] > 0
        /\ crr \in heads /\ crr # c /\ crr # cr /\ size[crr] =< 0
        /\ \A a \in FreeCells : /\ a + size[a] \in heads /\ size[a] \in Int /\ size[a] > 0
                                /\ size[a + size[a]] =< 0
                                /\ a + size[a] = c => a = cl
    BY <1>3, Zenon DEF UsedFacts
  <1>5. /\ heads' = heads \ {cr}
        /\ size' = [size EXCEPT ![c] = s + size[cr]]
        /\ left' = [left EXCEPT ![crr] = c]
        /\ next' = [next EXCEPT ![c] = next[cr], ![prev[cr]] = c]
        /\ prev' = [prev EXCEPT ![c] = prev[cr], ![next[cr]] = c]
    BY Zenon DEF MergeRight
  <1>. HIDE DEF cl, cr, crr
  <1>6. prev[cr] \in FreeCells \cup {Beg} /\ next[cr] \in FreeCells \cup {End}
    BY <1>1, <1>4, Zenon DEF ListOf
  <1>7. prev[cr] \in heads /\ next[cr] \in heads /\ prev[cr] # c /\ next[cr] # c /\ prev[cr] # End
    <2>1. prev[cr] # End
      BY <1>1, <1>2, <1>6, Zenon DEF ListOf
    <2>. QED BY <1>2, <1>4, <1>6, <2>1, Zenon
  <1>8. /\ \A a \in heads \ {c} : size'[a] = size[a]
        /\ size'[c] = s + size[cr]
        /\ size' \in [Addresses -> Int]
    BY <1>2, <1>4, <1>5, SMT
  <1>9. /\ \A a \in heads \ {crr} : left'[a] = left[a]
        /\ left'[crr] = c
        /\ left' \in [Addresses -> Int]
    BY <1>2, <1>4, <1>5, SMT
  <1>10. /\ next'[c] = next[cr]
         /\ \A a \in heads \ {c} : next'[a] = IF a = prev[cr] THEN c ELSE next[a]
         /\ next' \in [Addresses -> Int]
    BY <1>2, <1>4, <1>5, <1>7, SMT
  <1>11. /\ prev'[c] = prev[cr]
         /\ \A a \in heads \ {c} : prev'[a] = IF a = next[cr] THEN c ELSE prev[a]
         /\ prev' \in [Addresses -> Int]
    BY <1>2, <1>4, <1>5, <1>7, SMT
  <1>12. s + size[cr] > 0
    BY <1>4, SMT
  <1>13. TypeOK'
    <2>1. heads' \subseteq Addresses
      BY <1>2, <1>5, Zenon
    <2>. QED BY <1>1, <1>4, <1>8, <1>9, <1>10, <1>11, <2>1, CountsBackType, Zenon DEF TypeOK
  <1>14. FreeCells' = (FreeCells \ {cr}) \cup {c}
    BY ONLY <1>2, <1>4, <1>5, <1>8, <1>12, SMT DEF FreeCells
  <1>15. ListOf(FreeCells', next', prev')
    <2>1. \A a \in (FreeCells \ {cr}) \cup {Beg} : next'[a] = IF a = prev[cr] THEN c ELSE next[a]
      BY <1>2, <1>4, <1>10, Zenon
    <2>2. \A a \in (FreeCells \ {cr}) \cup {End} : prev'[a] = IF a = next[cr] THEN c ELSE prev[a]
      BY <1>2, <1>4, <1>11, Zenon
    <2>3. /\ ListOf(FreeCells, next, prev) /\ c \notin FreeCells /\ c # Beg /\ c # End /\ Beg # End
          /\ next'[c] = next[cr] /\ prev'[c] = prev[cr] /\ cr \in FreeCells
      BY <1>1, <1>2, <1>4, <1>10, <1>11, Zenon
    <2>4. ListOf((FreeCells \ {cr}) \cup {c}, next', prev')
      BY <2>1, <2>2, <2>3, ReplaceKeepsList, Zenon
    <2>. QED BY <1>14, <2>4, Zenon
  <1>16. TiledBy(heads', left', Extents')
    <2>1. Extents'[c] = Extents[c] + Extents[cr]
      <3>1. ~ (s + size[cr] < 0)
        BY <1>4, SMT
      <3>. QED BY <1>2, <1>4, <1>8, <3>1, Zenon DEF Extents, Extent
    <2>2. \A a \in heads \ {c, cr} : Extents'[a] = Extents[a]
      BY <1>2, <1>8, SMT DEF Extents, Extent
    <2>3. c \in heads \ {Beg, End} /\ cr \in heads \ {Beg, End} /\ cr = c + Extents[c]
      BY <1>4, Zenon DEF cr
    <2>4. left'[cr + Extents[cr]] = c
      BY <1>4, <1>9, Zenon DEF crr
    <2>5. \A a \in heads \ {cr, cr + Extents[cr]} : left'[a] = left[a]
      BY <1>4, <1>9, Zenon DEF crr
    <2>6. TiledBy(heads \ {cr}, left', Extents')
      BY <1>1, <2>1, <2>2, <2>3, <2>4, <2>5, JoinTiles, Zenon
    <2>. QED BY <1>5, <2>6, Zenon
  <1>17. Merged'
    <2>1. ASSUME NEW a \in FreeCells' PROVE size'[a + size'[a]] =< 0
      <3>1. CASE a = c
        <4>1. c + (s + size[cr]) = crr
          BY <1>4, SMT DEF cr, crr
        <4>. QED BY <1>4, <1>8, <3>1, <4>1, Zenon
      <3>2. CASE a # c
        <4>1. a \in FreeCells /\ a \in heads
          BY <1>2, <1>14, <3>2, Zenon
        <4>. DEFINE r == a + size[a]
        <4>2. r # c
          BY <1>4, <4>1, Zenon DEF FreeCells, cl
        <4>3. size'[a] = size[a] /\ size'[r] = size[r] /\ size[r] =< 0
          BY <1>4, <1>8, <3>2, <4>1, <4>2, Zenon
        <4>. QED BY <4>3, Zenon
      <3>. QED BY <3>1, <3>2, Zenon
    <2>. QED BY <2>1, Zenon DEF Merged
  <1>18. size'[Beg] = 0 /\ size'[End] = 0 /\ next'[End] = NULL
    BY <1>1, <1>2, <1>4, <1>7, <1>8, <1>10, Zenon
  <1>19. TakenBack(c)
    <2>1. ~ (s + size[cr] < 0) /\ ~ (size[cr] < 0)
      BY <1>4, SMT
    <2>2. \A a \in Used \ {c} : a \in heads' /\ size'[a] = size[a]
      BY <1>5, <1>8, <2>1, Zenon DEF Used
    <2>3. \A a \in heads' : size'[a] < 0 => a \in Used /\ a # c
      BY <1>5, <1>8, <2>1, Zenon DEF Used
    <2>. QED BY <1>5, <2>2, <2>3, TakenBackBy, Zenon
  <1>. QED BY <1>13, <1>15, <1>16, <1>17, <1>18, <1>19, InvariantIsTilesAndListNext, Zenon

\* Both are free: the left one grows by the cell and by the right one, which
\* leaves the list.
LEMMA BothPreserve ==
    ASSUME IInv, NEW c \in heads, size[c] < 0, NEW s, s = -size[c], CountsBack(s),
           size[left[c]] > 0, size[c + s] > 0, MergeBoth(c, s, left[c], c + s)
    PROVE  IInv' /\ TakenBack(c)
  <1>. DEFINE cl == left[c]
              cr == c + s
              crr == cr + size[cr]
  <1>1. /\ TypeOK /\ size[Beg] = 0 /\ size[End] = 0 /\ next[End] = NULL
        /\ TiledBy(heads, left, Extents) /\ ListOf(FreeCells, next, prev) /\ Merged
    BY InvariantIsTilesAndList, Zenon
  <1>2. /\ heads \subseteq Addresses /\ Beg \in heads /\ End \in heads /\ Beg # End
        /\ size \in [Addresses -> Int] /\ left \in [Addresses -> Int]
        /\ next \in [Addresses -> Int] /\ prev \in [Addresses -> Int]
        /\ FreeCells \subseteq heads /\ c \notin FreeCells
    <2>1. Beg # End
      BY Geometry, SMT
    <2>2. c \notin FreeCells
      <3>1. size[c] \in Int
        BY <1>1, Zenon DEF TypeOK
      <3>. QED BY <3>1, SMT DEF FreeCells
    <2>. QED BY <1>1, <2>1, <2>2, Zenon DEF TypeOK, TiledBy, FreeCells
  <1>3. UsedFacts(c)
    BY UsedCell, Zenon
  <1>4. /\ c \in Int /\ s \in Int /\ s > 0 /\ c # Beg /\ c # End /\ Extents[c] = s
        /\ cl \in heads /\ cl \in Int /\ cl # c /\ cl # cr /\ cl # End /\ cl # Beg /\ cl \in FreeCells
        /\ size[cl] \in Int /\ size[cl] > 0 /\ Extents[cl] = size[cl] /\ cl + size[cl] = c
        /\ cr \in heads /\ cr \in Int /\ cr # c /\ cr # Beg /\ cr # End /\ size[cr] \in Int
        /\ cr \in FreeCells /\ Extents[cr] = size[cr] /\ size[cr] > 0
        /\ crr \in heads /\ crr # c /\ crr # cr /\ crr # cl /\ size[crr] =< 0
        /\ \A a \in FreeCells : /\ a + size[a] \in heads /\ size[a] \in Int /\ size[a] > 0
                                /\ size[a + size[a]] =< 0
                                /\ a + size[a] = c => a = cl
    BY <1>3, Zenon DEF UsedFacts
  <1>5. /\ heads' = heads \ {c, cr}
        /\ size' = [size EXCEPT ![c] = s, ![cl] = size[cl] + s + size[cr]]
        /\ left' = [left EXCEPT ![crr] = cl]
        /\ next' = [next EXCEPT ![prev[cr]] = next[cr]]
        /\ prev' = [prev EXCEPT ![next[cr]] = prev[cr]]
    BY Zenon DEF MergeBoth
  <1>6. cl + (size[cl] + s + size[cr]) = crr
    BY <1>4, SMT
  <1>. HIDE DEF cl, cr, crr
  <1>7. prev[cr] \in FreeCells \cup {Beg} /\ next[cr] \in FreeCells \cup {End}
    BY <1>1, <1>4, Zenon DEF ListOf
  <1>8. prev[cr] \in heads /\ next[cr] \in heads /\ prev[cr] # End
    <2>1. prev[cr] # End
      BY <1>1, <1>2, <1>7, Zenon DEF ListOf
    <2>. QED BY <1>2, <1>7, <2>1, Zenon
  <1>9. /\ \A a \in heads \ {c, cl} : size'[a] = size[a]
        /\ size'[cl] = size[cl] + s + size[cr]
        /\ size' \in [Addresses -> Int]
    BY <1>2, <1>4, <1>5, SMT
  <1>10. /\ \A a \in heads \ {crr} : left'[a] = left[a]
         /\ left'[crr] = cl
         /\ left' \in [Addresses -> Int]
    BY <1>2, <1>4, <1>5, SMT
  <1>11. /\ \A a \in heads : next'[a] = IF a = prev[cr] THEN next[cr] ELSE next[a]
         /\ next' \in [Addresses -> Int]
    BY <1>2, <1>4, <1>5, <1>8, SMT
  <1>12. /\ \A a \in heads : prev'[a] = IF a = next[cr] THEN prev[cr] ELSE prev[a]
         /\ prev' \in [Addresses -> Int]
    BY <1>2, <1>4, <1>5, <1>8, SMT
  <1>13. size[cl] + s + size[cr] > 0
    BY <1>4, SMT
  <1>14. TypeOK'
    <2>1. heads' \subseteq Addresses
      BY <1>2, <1>5, Zenon
    <2>. QED BY <1>1, <1>4, <1>9, <1>10, <1>11, <1>12, <2>1, CountsBackType, Zenon DEF TypeOK
  <1>15. FreeCells' = FreeCells \ {cr}
    BY <1>2, <1>4, <1>5, <1>9, <1>13, Zenon DEF FreeCells
  <1>16. ListOf(FreeCells', next', prev')
    <2>1. \A a \in (FreeCells \ {cr}) \cup {Beg} : next'[a] = IF a = prev[cr] THEN next[cr] ELSE next[a]
      BY <1>2, <1>11, Zenon
    <2>2. \A a \in (FreeCells \ {cr}) \cup {End} : prev'[a] = IF a = next[cr] THEN prev[cr] ELSE prev[a]
      BY <1>2, <1>12, Zenon
    <2>3. ListOf(FreeCells \ {cr}, next', prev')
      BY <1>1, <1>2, <1>4, <2>1, <2>2, RemoveKeepsList, Zenon
    <2>. QED BY <1>15, <2>3, Zenon
  <1>17. TiledBy(heads', left', Extents')
    <2>. DEFINE H1 == heads \ {c}
                L1 == [left EXCEPT ![cr] = cl]
                E1 == [Extents EXCEPT ![cl] = Extents[cl] + Extents[c]]
    <2>1. /\ \A a \in heads \ {cl} : E1[a] = Extents[a]
          /\ E1[cl] = size[cl] + s
      BY <1>2, <1>4, SMT DEF Extents
    <2>2. L1[cr] = cl /\ \A a \in heads \ {cr} : L1[a] = left[a]
      BY <1>2, <1>4, SMT
    <2>. HIDE DEF L1, E1
    <2>3. TiledBy(H1, L1, E1)
      <3>1. cl \in heads \ {Beg, End} /\ c \in heads \ {Beg, End} /\ c = cl + Extents[cl]
        BY <1>4, Zenon
      <3>2. E1[cl] = Extents[cl] + Extents[c] /\ L1[c + Extents[c]] = cl
        BY <1>4, <2>1, <2>2, Zenon DEF cr
      <3>3. /\ \A a \in heads \ {cl, c} : E1[a] = Extents[a]
            /\ \A a \in heads \ {c, c + Extents[c]} : L1[a] = left[a]
        BY <1>4, <2>1, <2>2, Zenon DEF cr
      <3>. QED BY <1>1, <3>1, <3>2, <3>3, JoinTiles, Zenon
    <2>4. cl \in H1 \ {Beg, End} /\ cr \in H1 \ {Beg, End} /\ cr = cl + E1[cl] /\ E1[cr] = size[cr]
      <3>1. cr = cl + (size[cl] + s)
        BY <1>4, SMT DEF cr
      <3>. QED BY <1>4, <2>1, <3>1, Zenon
    <2>5. Extents'[cl] = E1[cl] + E1[cr]
      <3>1. ~ (size[cl] + s + size[cr] < 0)
        BY <1>4, SMT
      <3>. QED BY <1>2, <1>4, <1>9, <2>1, <2>4, <3>1, Zenon DEF Extents, Extent
    <2>6. \A a \in H1 \ {cl, cr} : Extents'[a] = E1[a]
      <3>1. \A a \in heads \ {c, cl} : Extents'[a] = Extents[a]
        BY <1>2, <1>9, SMT DEF Extents, Extent
      <3>. QED BY <2>1, <3>1, Zenon
    <2>7. left'[cr + E1[cr]] = cl
      BY <1>10, <2>4, Zenon DEF crr
    <2>8. \A a \in H1 \ {cr, cr + E1[cr]} : left'[a] = L1[a]
      BY <1>10, <2>2, <2>4, Zenon DEF crr
    <2>9. TiledBy(H1 \ {cr}, left', Extents')
      BY <2>3, <2>4, <2>5, <2>6, <2>7, <2>8, JoinTiles, Zenon
    <2>10. H1 \ {cr} = heads'
      BY <1>5, Zenon
    <2>. QED BY <2>9, <2>10, Zenon
  <1>18. Merged'
    <2>1. ASSUME NEW a \in FreeCells' PROVE size'[a + size'[a]] =< 0
      <3>1. CASE a = cl
        BY <1>4, <1>6, <1>9, <3>1, Zenon
      <3>2. CASE a # cl
        <4>1. a \in FreeCells /\ a \in heads /\ a # c
          BY <1>2, <1>15, Zenon
        <4>. DEFINE r == a + size[a]
        <4>2. r # c /\ r \in heads /\ size[r] =< 0
          BY <1>4, <3>2, <4>1, Zenon
        <4>. HIDE DEF r
        <4>3. r # cl
          BY <1>4, <4>2, SMT
        <4>4. size'[a] = size[a] /\ size'[r] = size[r]
          BY <1>9, <3>2, <4>1, <4>2, <4>3, Zenon
        <4>. QED BY <4>2, <4>4, Zenon DEF r
      <3>. QED BY <3>1, <3>2, Zenon
    <2>. QED BY <2>1, Zenon DEF Merged
  <1>19. size'[Beg] = 0 /\ size'[End] = 0 /\ next'[End] = NULL
    BY <1>1, <1>2, <1>4, <1>8, <1>9, <1>11, Zenon
  <1>20. TakenBack(c)
    <2>1. ~ (size[cl] + s + size[cr] < 0) /\ ~ (size[cl] < 0) /\ ~ (size[cr] < 0)
      BY <1>4, SMT
    <2>2. \A a \in Used \ {c} : a \in heads' /\ size'[a] = size[a]
      BY <1>5, <1>9, <2>1, Zenon DEF Used
    <2>3. \A a \in heads' : size'[a] < 0 => a \in Used /\ a # c
      BY <1>5, <1>9, <2>1, Zenon DEF Used
    <2>. QED BY <1>5, <2>2, <2>3, TakenBackBy, Zenon
  <1>. QED BY <1>14, <1>16, <1>17, <1>18, <1>19, <1>20, InvariantIsTilesAndListNext, Zenon

-----------------------------------------------------------------------------
(* The theorems.                                                            *)

LEMMA InitIInv == Init => IInv
  <1>. SUFFICES ASSUME Init PROVE IInv
    OBVIOUS
  <1>. DEFINE Blank == [a \in Addresses |-> Junk]
  <1>1. /\ heads = {Beg, Mid, End}
        /\ size = [Blank EXCEPT ![Beg] = 0, ![Mid] = BlockSize - 2 * FullHdr, ![End] = 0]
        /\ left = [Blank EXCEPT ![Beg] = NULL, ![Mid] = Beg, ![End] = Mid]
        /\ next = [Blank EXCEPT ![Beg] = Mid, ![Mid] = End, ![End] = NULL]
        /\ prev = [Blank EXCEPT ![Beg] = NULL, ![Mid] = Beg, ![End] = Mid]
        /\ usedSize = 0 /\ maxUsedSize = 0 /\ answer = NoRequest
    BY Zenon DEF Init
  <1>2. /\ Beg \in Addresses /\ Mid \in Addresses /\ End \in Addresses
        /\ Beg # Mid /\ Mid # End /\ Beg # End /\ NULL \in Int
        /\ Beg \in Int /\ Mid \in Int /\ End \in Int
        /\ BlockSize - 2 * FullHdr \in Int /\ BlockSize - 2 * FullHdr >= FullHdr
        /\ BlockSize - 2 * FullHdr > 0
        /\ Mid + (BlockSize - 2 * FullHdr) = End
    BY Geometry, SMT
  <1>3. Blank \in [Addresses -> Int]
    BY Geometry, SMT
  <1>. HIDE DEF Blank
  <1>4. /\ size \in [Addresses -> Int] /\ left \in [Addresses -> Int]
        /\ next \in [Addresses -> Int] /\ prev \in [Addresses -> Int]
    BY <1>1, <1>2, <1>3, SMT
  <1>5. /\ size[Beg] = 0 /\ size[Mid] = BlockSize - 2 * FullHdr /\ size[End] = 0
        /\ left[Mid] = Beg /\ left[End] = Mid
        /\ next[Beg] = Mid /\ next[Mid] = End /\ next[End] = NULL
        /\ prev[Mid] = Beg /\ prev[End] = Mid
    BY <1>1, <1>2, <1>3, SMT
  <1>6. TypeOK
    <2>1. NoRequest \in [bytes : Int, adr : Int]
      BY SMT DEF NoRequest, NULL
    <2>. QED BY <1>1, <1>2, <1>4, <2>1, SMT DEF TypeOK
  <1>7. FreeCells = {Mid}
    BY <1>1, <1>2, <1>5, SMT DEF FreeCells
  <1>8. ListOf(FreeCells, next, prev)
    <2>1. \A P \in SUBSET {Mid} : Walk(P, next) => P = {Mid}
      <3>. SUFFICES ASSUME NEW P \in SUBSET {Mid}, Walk(P, next) PROVE P = {Mid}
        OBVIOUS
      <3>1. next[Beg] \in P \cup {End}
        BY WalkStepwise, Zenon
      <3>. QED BY <1>2, <1>5, <3>1, Zenon
    <2>. QED BY <1>2, <1>5, <1>7, <2>1, SMT DEF ListOf
  <1>9. TiledBy(heads, left, Extents)
    <2>1. Extents[Mid] = BlockSize - 2 * FullHdr
      <3>1. ~ (BlockSize - 2 * FullHdr < 0)
        BY <1>2, SMT
      <3>. QED BY <1>2, <1>5, <3>1, Zenon DEF Extents, Extent
    <2>2. Cell(heads, left, Extents, Mid)
      <3>1. \A b \in {Beg, Mid, End} : ~ (Mid < b /\ b < End)
        BY Geometry, SMT
      <3>. QED BY <1>1, <1>2, <1>5, <2>1, <3>1, Zenon DEF Cell
    <2>3. Boundary(heads, left, Extents, Mid) /\ Boundary(heads, left, Extents, End)
      BY <1>1, <1>2, <1>5, <2>1, SMT DEF Boundary
    <2>4. heads \subseteq Beg .. End
      BY <1>1, <1>2, Geometry, Zenon
    <2>. QED BY <1>1, <2>2, <2>3, <2>4, Zenon DEF TiledBy
  <1>10. Merged
    BY <1>2, <1>5, <1>7, SMT DEF Merged
  <1>. QED BY <1>5, <1>6, <1>8, <1>9, <1>10, InvariantIsTilesAndList, Zenon

\* Nothing in the invariant looks at the answer alone.
LEMMA SameState ==
    ASSUME IInv, size' = size, left' = left, next' = next, prev' = prev, heads' = heads,
           usedSize' = usedSize, maxUsedSize' = maxUsedSize, answer' \in [bytes : Int, adr : Int]
    PROVE  IInv'
  <1>1. TypeOK'
    BY Zenon DEF IInv, TypeOK
  <1>2. FreeCells' = FreeCells
    BY Zenon DEF FreeCells
  <1>3. ListOf(FreeCells', next', prev')
    <2>1. ListOf(FreeCells, next, prev)
      BY InvariantIsTilesAndList, Zenon
    <2>. QED BY <1>2, <2>1, Zenon
  <1>4. TiledBy(heads', left', Extents')
    <2>1. TiledBy(heads, left, Extents)
      BY InvariantIsTilesAndList, Zenon
    <2>2. Extents' = Extents
      BY Zenon DEF Extents, Extent
    <2>. QED BY <2>1, <2>2, Zenon
  <1>5. Merged'
    BY <1>2, Zenon DEF IInv, Merged
  <1>6. size'[Beg] = 0 /\ size'[End] = 0 /\ next'[End] = NULL
    BY InvariantIsTilesAndList, Zenon
  <1>. QED BY <1>1, <1>3, <1>4, <1>5, <1>6, InvariantIsTilesAndListNext, Zenon

\* An allocation as its client sees it.
Refused(n) == /\ answer' = [bytes |-> n, adr |-> NULL]
              /\ Used' = Used /\ size' = size /\ heads' = heads
Given(c, n) == /\ size[c] >= CellSize(n)
               /\ Handed(c, CellSize(n))
               /\ answer' = [bytes |-> n, adr |-> c + UsedHdr]

LEMMA AllocatePreserves ==
    ASSUME IInv, NEW n \in Requests, Allocate(n)
    PROVE  IInv' /\ (Refused(n) \/ \E c \in FreeCells : Given(c, n))
  <1>. DEFINE s == CellSize(n)
  <1>1. n \in Nat /\ n \in Int
    BY MemoryManagerAssumption, SMT
  <1>2. s \in Int /\ s >= FullHdr
    BY <1>1, CellSizeIsEnough, Zenon
  <1>. HIDE DEF s
  <1>3. PICK c \in heads :
          /\ SearchEndsAt(c, s)
          /\ \/ /\ c = End
                /\ answer' = [bytes |-> n, adr |-> NULL]
                /\ UNCHANGED <<size, left, links, heads, usedSize, maxUsedSize>>
             \/ /\ c # End
                /\ AllocateExact(c, s, n) \/ AllocateSplit(c, s, n)
    BY Zenon DEF Allocate, s
  <1>4. CASE /\ answer' = [bytes |-> n, adr |-> NULL]
             /\ UNCHANGED <<size, left, links, heads, usedSize, maxUsedSize>>
    <2>1. answer' \in [bytes : Int, adr : Int]
      BY <1>1, <1>4, SMT DEF NULL
    <2>2. /\ size' = size /\ left' = left /\ next' = next /\ prev' = prev /\ heads' = heads
          /\ usedSize' = usedSize /\ maxUsedSize' = maxUsedSize
      BY <1>4, Zenon DEF links
    <2>3. IInv'
      BY <2>1, <2>2, SameState, Zenon
    <2>4. Refused(n)
      BY <1>4, <2>2, Zenon DEF Refused, Used
    <2>. QED BY <2>3, <2>4, Zenon
  <1>5. ASSUME c # End PROVE c \in FreeCells /\ (size[c] = s \/ size[c] >= s + FullHdr)
    BY <1>2, <1>3, <1>5, SearchFindsFree, Zenon
  <1>6. CASE c # End /\ AllocateExact(c, s, n)
    <2>1. IInv' /\ Handed(c, s)
      BY <1>1, <1>2, <1>5, <1>6, ExactPreserves, Zenon
    <2>2. HandOut(c, s, n) /\ size[c] = s
      BY <1>6, Zenon DEF AllocateExact
    <2>3. size[c] >= s
      BY <1>2, <2>2, SMT
    <2>. QED BY <1>5, <1>6, <2>1, <2>2, <2>3, Zenon DEF Given, HandOut, s
  <1>7. CASE c # End /\ AllocateSplit(c, s, n)
    <2>1. size[c] # s
      BY <1>7, Zenon DEF AllocateSplit
    <2>2. c \in FreeCells /\ size[c] >= s + FullHdr
      BY <1>5, <1>7, <2>1, Zenon
    <2>3. IInv' /\ Handed(c, s)
      BY <1>1, <1>2, <1>7, <2>2, SplitPreserves, Zenon
    <2>4. HandOut(c, s, n)
      BY <1>7, Zenon DEF AllocateSplit
    <2>5. size[c] \in Int
      BY <2>2, FreeCell, Zenon
    <2>6. size[c] >= s
      BY <1>2, <2>2, <2>5, Geometry, SMT
    <2>. QED BY <2>2, <2>3, <2>4, <2>6, Zenon DEF Given, HandOut, s
  <1>. QED BY <1>3, <1>4, <1>6, <1>7, Zenon

LEMMA DeallocatePreserves ==
    ASSUME IInv, NEW c \in heads, Deallocate(c)
    PROVE  IInv' /\ TakenBack(c)
  <1>. DEFINE s == -size[c]
  <1>1. size[c] < 0 /\ CountsBack(s)
    BY Zenon DEF Deallocate, CountsBack
  <1>2. \/ size[left[c]] > 0 /\ size[c + s] > 0 /\ MergeBoth(c, s, left[c], c + s)
        \/ size[left[c]] > 0 /\ ~ (size[c + s] > 0) /\ MergeLeft(c, s, left[c], c + s)
        \/ ~ (size[left[c]] > 0) /\ size[c + s] > 0 /\ MergeRight(c, s, c + s)
        \/ ~ (size[left[c]] > 0) /\ ~ (size[c + s] > 0) /\ InsertFirst(c, s)
    BY Zenon DEF Deallocate
  <1>3. s = -size[c]
    OBVIOUS
  <1>. HIDE DEF s
  <1>4. CASE size[left[c]] > 0 /\ size[c + s] > 0 /\ MergeBoth(c, s, left[c], c + s)
    BY <1>1, <1>3, <1>4, BothPreserve, Zenon
  <1>5. CASE size[left[c]] > 0 /\ ~ (size[c + s] > 0) /\ MergeLeft(c, s, left[c], c + s)
    BY <1>1, <1>3, <1>5, LeftPreserves, Zenon
  <1>6. CASE ~ (size[left[c]] > 0) /\ size[c + s] > 0 /\ MergeRight(c, s, c + s)
    BY <1>1, <1>3, <1>6, RightPreserves, Zenon
  <1>7. CASE ~ (size[left[c]] > 0) /\ ~ (size[c + s] > 0) /\ InsertFirst(c, s)
    BY <1>1, <1>3, <1>7, InsertPreserves, Zenon
  <1>. QED BY <1>2, <1>4, <1>5, <1>6, <1>7, Zenon

LEMMA StutterPreserves ==
    ASSUME IInv, UNCHANGED vars
    PROVE  IInv'
  <1>1. /\ size' = size /\ left' = left /\ next' = next /\ prev' = prev /\ heads' = heads
        /\ usedSize' = usedSize /\ maxUsedSize' = maxUsedSize /\ answer' = answer
    BY Zenon DEF vars
  <1>2. answer' \in [bytes : Int, adr : Int]
    BY <1>1, Zenon DEF IInv, TypeOK
  <1>. QED BY <1>1, <1>2, SameState, Zenon

(* The strengthened invariant holds in every reachable state.               *)
THEOREM MemoryIInv == Spec => []IInv
  <1>1. IInv /\ [Next]_vars => IInv'
    <2>1. ASSUME IInv, Next PROVE IInv'
      <3>1. CASE \E n \in Requests : Allocate(n)
        BY <2>1, <3>1, AllocatePreserves, Zenon
      <3>2. CASE \E c \in heads : Deallocate(c)
        BY <2>1, <3>2, DeallocatePreserves, Zenon
      <3>. QED BY <2>1, <3>1, <3>2, Zenon DEF Next
    <2>. QED BY <2>1, StutterPreserves, Zenon
  <1>. QED BY InitIInv, <1>1, PTL DEF Spec

(* Types.                                                                   *)
THEOREM MemoryTypeOK == Spec => []TypeOK
  <1>1. IInv => TypeOK
    BY Zenon DEF IInv
  <1>. QED BY MemoryIInv, <1>1, PTL

(* Headers tile the block, whatever was allocated and given back.           *)
THEOREM MemoryTiled == Spec => []Tiled
  <1>1. IInv => Tiled
    BY Zenon DEF IInv
  <1>. QED BY MemoryIInv, <1>1, PTL

(* The list has exactly the free cells, and no two of them touch.           *)
THEOREM MemoryListed == Spec => [](Linked /\ NoneLost /\ Merged)
  <1>1. IInv => Linked /\ NoneLost /\ Merged
    BY Zenon DEF IInv
  <1>. QED BY MemoryIInv, <1>1, PTL

(* Tags, links, merging and the list together: see HeapSound.               *)
THEOREM MemoryHeapSound == Spec => []HeapSound
  <1>. QED BY MemoryTiled, MemoryListed, PTL DEF HeapSound

(* When nothing is in use any more the block is one free cell again.        *)
THEOREM MemoryAllComesBack == Spec => []AllComesBack
  <1>1. IInv => AllComesBack
    <2>. SUFFICES ASSUME IInv, Used = {} PROVE heads = {Beg, Mid, End} /\ size[Mid] = BlockSize - 2 * FullHdr
      BY Zenon DEF AllComesBack
    <2>1. /\ TypeOK /\ size[Beg] = 0 /\ size[End] = 0 /\ {Beg, Mid, End} \subseteq heads
          /\ TiledBy(heads, left, Extents)
      BY InvariantIsTilesAndList, Zenon DEF TiledBy
    <2>2. ASSUME NEW a \in heads, a # Beg, a # End PROVE a \in FreeCells
      <3>1. size[a] # 0 /\ size[a] \in Int
        <4>1. size[a] # 0
          BY <2>2, NotEmpty, Zenon
        <4>. QED BY <2>1, <4>1, Zenon DEF TypeOK
      <3>2. ~ (size[a] < 0)
        BY Zenon DEF Used
      <3>. QED BY <3>1, <3>2, SMT DEF FreeCells
    <2>3. Mid \in FreeCells
      BY <2>1, <2>2, Geometry, SMT
    <2>4. /\ Mid + size[Mid] \in heads /\ size[Mid + size[Mid]] =< 0 /\ size[Mid] \in Int
          /\ Mid + size[Mid] # Beg /\ Extent(Mid) = size[Mid]
      BY <2>3, FreeCell, Zenon
    <2>5. Mid + size[Mid] = End
      <3>1. Mid + size[Mid] \notin FreeCells
        <4>1. \A b \in FreeCells : ~ (size[b] =< 0)
          <5>1. ASSUME NEW b \in FreeCells PROVE ~ (size[b] =< 0)
            <6>1. size[b] \in Int /\ size[b] > 0
              BY FreeCell, Zenon
            <6>. QED BY <6>1, SMT
          <5>. QED BY <5>1, Zenon
        <4>. QED BY <2>4, <4>1, Zenon
      <3>. QED BY <2>2, <2>4, <3>1, Zenon
    <2>6. ASSUME NEW a \in heads PROVE a \in {Beg, Mid, End}
      <3>. SUFFICES ASSUME a # Beg, a # End, a # Mid PROVE FALSE
        BY Zenon
      <3>1. a \in Int /\ Mid =< a /\ a + Extent(a) =< End /\ Extent(a) \in Int /\ Extent(a) >= FullHdr
        <4>1. size[a] # 0
          BY NotEmpty, Zenon
        <4>. QED BY <4>1, Neighbours, Zenon
      <3>2. ~ (Mid < a /\ a < Mid + Extent(Mid))
        <4>1. Mid \in heads /\ Mid # Beg /\ Mid # End
          BY <2>1, Geometry, SMT
        <4>2. size[Mid] # 0
          BY <4>1, NotEmpty, Zenon
        <4>. QED BY <4>1, <4>2, Neighbours, Zenon
      <3>. QED BY <2>4, <2>5, <3>1, <3>2, Geometry, SMT
    <2>7. size[Mid] = BlockSize - 2 * FullHdr
      BY <2>4, <2>5, Geometry, SMT
    <2>. QED BY <2>1, <2>6, <2>7, Zenon
  <1>. QED BY MemoryIInv, <1>1, PTL

-----------------------------------------------------------------------------
(* A refused request had no room.                                           *)

\* The order of the naturals, without the library's operator for relations.
LEMMA NatOrder == IsWellFoundedOn({p \in Nat \X Nat : p[1] < p[2]}, Nat)
  BY NatLessThanWellFounded DEF OpToRel

\* Of some numbers not above a there is a largest.
LEMMA LargestUpTo ==
    ASSUME NEW a \in Int, NEW S, S \subseteq Int, NEW m \in S, m =< a
    PROVE  \E h \in S : h =< a /\ \A b \in S : ~ (h < b /\ b =< a)
  <1>. DEFINE R == {p \in Nat \X Nat : p[1] < p[2]}
              T == {a - b : b \in {c \in S : c =< a}}
  <1>1. \A b \in S : b \in Int
    BY Zenon
  <1>2. T \subseteq Nat /\ T # {}
    <2>1. ASSUME NEW b \in S, b =< a PROVE a - b \in Nat
      BY <1>1, <2>1, SMT
    <2>. QED BY <2>1, Zenon
  <1>3. PICK t \in T : \A u \in T : ~ (<<u, t>> \in R)
    <2>1. IsWellFoundedOn(R, Nat)
      BY NatOrder, Zenon
    <2>. HIDE DEF R, T
    <2>. QED BY <1>2, <2>1, WFMin, Zenon
  <1>4. PICK h \in S : h =< a /\ t = a - h
    BY Zenon DEF T
  <1>5. ASSUME NEW b \in S, h < b, b =< a PROVE FALSE
    <2>1. a - b \in T
      BY <1>5, Zenon
    <2>2. a - b \in Nat /\ a - h \in Nat /\ a - b < a - h
      <3>1. b \in Int /\ h \in Int
        BY <1>1, Zenon
      <3>. HIDE DEF R, T
      <3>. QED BY <3>1, <1>4, <1>5, SMT
    <2>3. <<a - b, t>> \in R
      BY <1>4, <2>2, Zenon
    <2>. QED BY <1>3, <2>1, <2>3, Zenon
  <1>. QED BY <1>4, <1>5, Zenon

\* Every address between the sentinels is in a cell.
LEMMA AddressInCell ==
    ASSUME IInv, NEW a \in Mid .. End - 1
    PROVE  \E h \in heads : h # Beg /\ h # End /\ h =< a /\ a < h + Extent(h)
  <1>1. TiledBy(heads, left, Extents)
    BY InvariantIsTilesAndList, Zenon
  <1>2. /\ {Beg, Mid, End} \subseteq heads /\ heads \subseteq Int
        /\ a \in Int /\ Mid =< a /\ a < End
    BY <1>1, Geometry, SMT DEF TiledBy
  <1>3. PICK h \in heads : h =< a /\ \A b \in heads : ~ (h < b /\ b =< a)
    BY <1>2, LargestUpTo, Zenon
  <1>4. h \in Int /\ h # Beg /\ h # End
    <2>1. h \in Int /\ ~ (h < Mid)
      BY <1>2, <1>3, Zenon
    <2>. QED BY <1>2, <1>3, <2>1, Geometry, SMT
  <1>5. /\ h + Extent(h) \in heads /\ h + Extent(h) \in Int
        /\ Extent(h) \in Int /\ Extent(h) >= FullHdr
    BY <1>4, NotEmpty, Neighbours, Zenon
  <1>6. h < h + Extent(h)
    BY <1>4, <1>5, Geometry, SMT
  <1>7. ~ (h + Extent(h) =< a)
    BY <1>3, <1>5, <1>6, Zenon
  <1>. QED BY <1>2, <1>3, <1>4, <1>5, <1>7, SMT

\* A cell in use touches the stretch from a on of a cell of s bytes and another.
Touched(a, s) == \E u \in Used : u < a + s + MinCell /\ a < u + Extent(u)

\* Unless a free cell fits, no stretch is free that would hold a cell of s
\* bytes and another after it: a free cell that starts so late that s bytes
\* fit is followed by a cell in use, which starts in the stretch.
LEMMA NoRoom ==
    ASSUME IInv, NEW s \in Int, s >= FullHdr, \A c \in FreeCells : ~ Fits(c, s),
           NEW a \in Mid .. End - (s + MinCell)
    PROVE  Touched(a, s)
  <1>1. /\ a \in Int /\ Mid =< a /\ a + s + MinCell =< End
        /\ a \in Mid .. End - 1 /\ MinCell \in Int /\ s + MinCell > 0
    BY Geometry, SMT
  <1>2. PICK h \in heads : h # Beg /\ h # End /\ h =< a /\ a < h + Extent(h)
    BY <1>1, AddressInCell, Zenon
  <1>3. h \in Int /\ size[h] \in Int /\ size[h] # 0
    BY <1>2, NotEmpty, Neighbours, Zenon
  <1>4. CASE size[h] < 0
    <2>1. h \in Used
      BY <1>4, Zenon DEF Used
    <2>2. h < a + s + MinCell
      BY <1>1, <1>2, <1>3, SMT
    <2>. QED BY <1>2, <2>1, <2>2, Zenon DEF Touched
  <1>5. CASE size[h] > 0
    <2>. DEFINE r == h + size[h]
    <2>1. h \in FreeCells
      BY <1>5, Zenon DEF FreeCells
    <2>2. /\ Extent(h) = size[h] /\ r \in heads /\ r \in Int /\ r # Beg /\ size[r] =< 0
      BY <2>1, FreeCell, Zenon
    <2>. HIDE DEF r
    <2>3. size[h] # s /\ ~ (size[h] >= s + MinCell)
      BY <2>1, Zenon DEF Fits
    <2>4. r = h + size[h]
      BY DEF r
    <2>5. a < r /\ r < a + s + MinCell /\ r # End
      BY <1>1, <1>2, <1>3, <2>2, <2>3, <2>4, Geometry, SMT
    <2>6. /\ size[r] # 0 /\ size[r] \in Int
          /\ Extent(r) \in Int /\ Extent(r) >= FullHdr
      BY <2>2, <2>5, NotEmpty, Neighbours, Zenon
    <2>7. size[r] < 0 /\ a < r + Extent(r)
      BY <1>1, <2>2, <2>5, <2>6, Geometry, SMT
    <2>8. r \in Used
      BY <2>2, <2>7, Zenon DEF Used
    <2>. QED BY <2>5, <2>7, <2>8, Zenon DEF Touched
  <1>. QED BY <1>3, <1>4, <1>5, SMT

\* A search that ends at the sentinel has passed over every free cell.
LEMMA RefusedUnfit ==
    ASSUME IInv, NEW n \in Requests, Allocate(n), answer'.adr = NULL
    PROVE  /\ \A c \in FreeCells : ~ Fits(c, CellSize(n))
           /\ heads' = heads /\ size' = size /\ answer'.bytes = n
  <1>1. PICK c \in heads :
          /\ SearchEndsAt(c, CellSize(n))
          /\ \/ /\ c = End
                /\ answer' = [bytes |-> n, adr |-> NULL]
                /\ UNCHANGED <<size, left, links, heads, usedSize, maxUsedSize>>
             \/ /\ c # End
                /\ AllocateExact(c, CellSize(n), n) \/ AllocateSplit(c, CellSize(n), n)
    BY Zenon DEF Allocate
  <1>2. CASE c # End
    <2>1. HandOut(c, CellSize(n), n)
      BY <1>1, <1>2, Zenon DEF AllocateExact, AllocateSplit
    <2>2. answer'.adr = c + UsedHdr
      BY <2>1, Zenon DEF HandOut
    <2>3. c \in Addresses
      BY Zenon DEF IInv, TypeOK
    <2>4. c + UsedHdr # 0
      BY <2>3, Geometry, SMT
    <2>5. answer'.adr = 0
      BY Zenon DEF NULL
    <2>. QED BY <2>2, <2>4, <2>5, Zenon
  <1>3. CASE c = End
    <2>1. PICK P \in SUBSET {a \in heads \ {Beg, End} : size[a] > 0 /\ ~ Fits(a, CellSize(n))} :
            {next[a] : a \in P \cup {Beg}} = P \cup {End}
      BY <1>1, <1>3, Zenon DEF SearchEndsAt
    <2>2. P \in SUBSET FreeCells
      BY <2>1, Zenon DEF FreeCells
    <2>3. P = FreeCells
      BY <2>1, <2>2, Zenon DEF IInv, NoneLost
    <2>4. \A c2 \in FreeCells : ~ Fits(c2, CellSize(n))
      BY <2>1, <2>3, Zenon
    <2>5. answer' = [bytes |-> n, adr |-> NULL] /\ heads' = heads /\ size' = size
      BY <1>1, <1>3, Zenon
    <2>6. answer'.bytes = n
      BY <2>5, SMT
    <2>. QED BY <2>4, <2>5, <2>6, Zenon
  <1>. QED BY <1>2, <1>3, Zenon

(* picoos_allocate answers NULL only when no free stretch could hold the    *)
(* cell and another one: the search overlooks nothing, and what was given   *)
(* back piece by piece is one stretch again.                                *)
THEOREM MemoryRefusedOnlyWhenFull == Spec => []RefusedOnlyWhenFull
  <1>1. Init => RefusedOnlyWhenFull
    <2>. SUFFICES ASSUME Init PROVE RefusedOnlyWhenFull
      OBVIOUS
    <2>1. answer.bytes = -1
      BY Zenon DEF Init, NoRequest
    <2>. QED BY <2>1, SMT DEF RefusedOnlyWhenFull
  <1>2. IInv /\ IInv' /\ RefusedOnlyWhenFull /\ [Next]_vars => RefusedOnlyWhenFull'
    <2>. SUFFICES ASSUME IInv, IInv', RefusedOnlyWhenFull, [Next]_vars PROVE RefusedOnlyWhenFull'
      OBVIOUS
    <2>1. ASSUME NEW n \in Requests, Allocate(n), answer'.adr = NULL
          PROVE  RefusedOnlyWhenFull'
      <3>1. /\ \A c \in FreeCells : ~ Fits(c, CellSize(n))
            /\ heads' = heads /\ size' = size /\ answer'.bytes = n
        BY <2>1, RefusedUnfit, Zenon
      <3>2. CellSize(n) \in Int /\ CellSize(n) >= FullHdr
        BY MemoryManagerAssumption, CellSizeIsEnough, SMT
      <3>3. \A a \in Mid .. End - (CellSize(n) + MinCell) : Touched(a, CellSize(n))
        BY <3>1, <3>2, NoRoom, Zenon
      <3>. QED BY <3>1, <3>3, Zenon DEF RefusedOnlyWhenFull, Touched, Used, Extent
    <2>2. ASSUME NEW c \in heads, Deallocate(c) PROVE RefusedOnlyWhenFull'
      <3>1. answer'.bytes = -1
        BY <2>2, Zenon DEF Deallocate, NoRequest
      <3>. QED BY <3>1, SMT DEF RefusedOnlyWhenFull
    <2>3. CASE UNCHANGED vars
      BY <2>3, Zenon DEF vars, RefusedOnlyWhenFull, Used, Extent
    <2>. QED BY <2>1, <2>2, <2>3, Zenon DEF Next, RefusedOnlyWhenFull
  <1>. QED BY <1>1, <1>2, MemoryIInv, PTL DEF Spec

-----------------------------------------------------------------------------
(* The manager keeps the promise stated in Allocator: pieces in use never   *)
(* overlap, are large enough and stay put.                                  *)

\* A cell in use, its extent and the cells around it.
LEMMA CellInUse ==
    ASSUME IInv, NEW u \in Used
    PROVE  /\ u \in heads /\ u \in Int /\ Mid =< u /\ size[u] \in Int /\ size[u] < 0
           /\ -size[u] >= FullHdr /\ u - size[u] =< End
           /\ \A b \in heads : b \in Int /\ ~ (u < b /\ b < u - size[u])
  <1>1. u \in heads /\ size[u] < 0
    BY Zenon DEF Used
  <1>2. size[u] \in Int
    BY <1>1, Zenon DEF IInv, TypeOK
  <1>3. size[u] # 0 /\ Extent(u) = -size[u] /\ u + Extent(u) = u + (-size[u])
    BY <1>1, <1>2, SMT DEF Extent
  <1>4. /\ u \in Int /\ Mid =< u /\ Extent(u) >= FullHdr /\ u + Extent(u) =< End
        /\ \A b \in heads : b \in Int /\ ~ (u < b /\ b < u + Extent(u))
    BY <1>1, <1>3, Neighbours, Zenon
  <1>5. u + (-size[u]) = u - size[u]
    BY <1>2, <1>4, SMT
  <1>. QED BY <1>1, <1>2, <1>3, <1>4, <1>5, Zenon

\* What the client has from an address on.
LEMMA InUseAt ==
    /\ InUse = [a \in Mid .. End - 1 |-> IF a - UsedHdr \in Used
                                         THEN -size[a - UsedHdr] - UsedHdr ELSE 0]
    /\ InUse' = [a \in Mid .. End - 1 |-> IF a - UsedHdr \in Used'
                                          THEN -size'[a - UsedHdr] - UsedHdr ELSE 0]
  BY Zenon DEF InUse, Used

LEMMA InitMaps == ASSUME Init PROVE Pieces!Init
  <1>1. IInv
    BY InitIInv, Zenon
  <1>2. ASSUME NEW u \in Used PROVE FALSE
    <2>1. u \in heads /\ size[u] < 0 /\ Mid =< u /\ size[u] \in Int
      BY <1>1, CellInUse, Zenon
    <2>2. heads = {Beg, Mid, End} /\ size[Beg] = 0 /\ size[End] = 0
      BY <1>1, InvariantIsTilesAndList, Zenon DEF Init
    <2>3. size[Mid] = BlockSize - 2 * FullHdr
      <3>. DEFINE Blank == [a \in Addresses |-> Junk]
      <3>1. size = [Blank EXCEPT ![Beg] = 0, ![Mid] = BlockSize - 2 * FullHdr, ![End] = 0]
        BY Zenon DEF Init
      <3>. HIDE DEF Blank
      <3>2. DOMAIN Blank = Addresses
        BY DEF Blank
      <3>. QED BY <3>1, <3>2, Geometry, SMT
    <2>. QED BY <2>1, <2>2, <2>3, Geometry, SMT
  <1>3. InUse = [a \in Mid .. End - 1 |-> 0]
    BY <1>2, InUseAt, Zenon
  <1>4. answer = [bytes |-> -1, adr |-> NULL]
    BY Zenon DEF Init, NoRequest
  <1>. QED BY <1>3, <1>4, Zenon DEF Pieces!Init, Pieces!Area

\* A cell handed out is a piece of its own.
LEMMA GivenMaps ==
    ASSUME IInv, NEW n \in Requests, NEW c \in FreeCells, Given(c, n)
    PROVE  Pieces!Allocate(n)
  <1>. DEFINE s == CellSize(n)
              a == c + UsedHdr
              m == s - UsedHdr
  <1>1. n \in Nat
    BY MemoryManagerAssumption, SMT
  <1>2. s \in Int /\ s >= FullHdr /\ s >= n + UsedHdr
    BY <1>1, CellSizeIsEnough, Zenon
  <1>3. /\ size[c] >= s /\ Used' = Used \cup {c} /\ size'[c] = -s
        /\ \A u \in Used : size'[u] = size[u]
        /\ answer' = [bytes |-> n, adr |-> a]
    BY Zenon DEF Given, Handed
  <1>. HIDE DEF s
  <1>4. /\ c \in heads /\ c \in Int /\ size[c] \in Int /\ size[c] > 0 /\ Extent(c) = size[c]
    BY FreeCell, Zenon
  <1>5. size[c] # 0
    BY <1>4, SMT
  <1>6. /\ Mid =< c /\ c + size[c] =< End
        /\ \A b \in heads : b \in Int /\ ~ (c < b /\ b < c + size[c])
    BY <1>4, <1>5, Neighbours, Zenon
  <1>7. a \in Mid .. End - 1 /\ m \in 1 .. End - 1 + 1 - a /\ m >= n /\ a \in Int /\ m \in Int
    BY <1>1, <1>2, <1>3, <1>4, <1>6, Geometry, SMT
  <1>8. ASSUME NEW b \in Mid .. End - 1, InUse[b] > 0
        PROVE  a + m =< b \/ b + InUse[b] =< a
    <2>. DEFINE u == b - UsedHdr
    <2>1. b \in Int /\ u \in Int /\ b = u + UsedHdr
      BY Geometry, SMT
    <2>2. u \in Used
      <3>1. InUse[b] = IF u \in Used THEN -size[u] - UsedHdr ELSE 0
        BY InUseAt, Zenon
      <3>2. ~ (0 > 0)
        BY SMT
      <3>. QED BY <1>8, <3>1, <3>2, Zenon
    <2>3. InUse[b] = -size[u] - UsedHdr
      BY <2>2, InUseAt, Zenon
    <2>. HIDE DEF u
    <2>4. /\ u \in heads /\ size[u] \in Int /\ size[u] < 0
          /\ ~ (u < c /\ c < u - size[u])
      BY <1>4, <2>2, CellInUse, Zenon
    <2>5. u # c /\ ~ (c < u /\ u < c + size[c])
      BY <1>4, <1>6, <2>4, SMT
    <2>. QED BY <1>2, <1>3, <1>4, <2>1, <2>3, <2>4, <2>5, Geometry, SMTT(30)
  <1>9. InUse' = [InUse EXCEPT ![a] = m]
    <2>1. ASSUME NEW b \in Mid .. End - 1
          PROVE  InUse'[b] = IF b = a THEN m ELSE InUse[b]
      <3>. DEFINE u == b - UsedHdr
      <3>1. /\ InUse[b] = IF u \in Used THEN -size[u] - UsedHdr ELSE 0
            /\ InUse'[b] = IF u \in Used' THEN -size'[u] - UsedHdr ELSE 0
        BY InUseAt, Zenon
      <3>2. b = a <=> u = c
        BY <1>4, Geometry, SMT
      <3>. HIDE DEF u
      <3>3. CASE u = c
        <4>1. InUse'[b] = -(-s) - UsedHdr
          BY <1>3, <3>1, <3>3, Zenon
        <4>2. -(-s) - UsedHdr = m
          BY <1>2, Geometry, SMT
        <4>. QED BY <3>2, <3>3, <4>1, <4>2, Zenon
      <3>4. CASE u # c
        BY <1>3, <3>1, <3>2, <3>4, Zenon
      <3>. QED BY <3>3, <3>4, Zenon
    <2>. HIDE DEF a, m
    <2>2. InUse' = [b \in Mid .. End - 1 |-> InUse'[b]] /\ DOMAIN InUse = Mid .. End - 1
      BY InUseAt, Zenon
    <2>. QED BY <1>7, <2>1, <2>2, Zenon
  <1>. HIDE DEF a, m
  <1>. QED BY <1>3, <1>7, <1>8, <1>9, Zenon DEF Pieces!Allocate, Pieces!Area, Pieces!Unused

\* A cell given back is no piece any more.
LEMMA TakenBackMaps ==
    ASSUME IInv, NEW c \in Used, TakenBack(c), answer' = NoRequest
    PROVE  \E a \in Pieces!Area : Pieces!Deallocate(a)
  <1>. DEFINE a == c + UsedHdr
  <1>1. Used' = Used \ {c} /\ \A u \in Used' : size'[u] = size[u]
    BY Zenon DEF TakenBack
  <1>2. /\ c \in Int /\ Mid =< c /\ size[c] \in Int /\ -size[c] >= FullHdr
        /\ c - size[c] =< End
    BY CellInUse, Zenon
  <1>3. a \in Mid .. End - 1 /\ a - UsedHdr = c
    BY <1>2, Geometry, SMT
  <1>4. InUse[a] > 0
    <2>1. InUse[a] = -size[c] - UsedHdr
      BY <1>3, InUseAt, Zenon
    <2>. QED BY <1>2, <2>1, Geometry, SMT
  <1>5. InUse' = [InUse EXCEPT ![a] = 0]
    <2>1. ASSUME NEW b \in Mid .. End - 1
          PROVE  InUse'[b] = IF b = a THEN 0 ELSE InUse[b]
      <3>. DEFINE u == b - UsedHdr
      <3>1. /\ InUse[b] = IF u \in Used THEN -size[u] - UsedHdr ELSE 0
            /\ InUse'[b] = IF u \in Used' THEN -size'[u] - UsedHdr ELSE 0
        BY InUseAt, Zenon
      <3>2. b = a <=> u = c
        BY <1>2, Geometry, SMT
      <3>. HIDE DEF u
      <3>. QED BY <1>1, <3>1, <3>2, Zenon
    <2>. HIDE DEF a
    <2>2. InUse' = [b \in Mid .. End - 1 |-> InUse'[b]] /\ DOMAIN InUse = Mid .. End - 1
      BY InUseAt, Zenon
    <2>. QED BY <1>3, <2>1, <2>2, Zenon
  <1>. HIDE DEF a
  <1>. QED BY <1>3, <1>4, <1>5, Zenon DEF Pieces!Deallocate, Pieces!Area, NoRequest

\* Nothing changes but the answer.
LEMMA RefusedMaps ==
    ASSUME NEW n \in Requests, Refused(n)
    PROVE  Pieces!Refuse(n)
  <1>1. InUse' = InUse /\ answer' = [bytes |-> n, adr |-> NULL]
    BY InUseAt, Zenon DEF Refused
  <1>. QED BY <1>1, Zenon DEF Pieces!Refuse

LEMMA StepMaps ==
    ASSUME IInv, [Next]_vars
    PROVE  [Pieces!Next]_<<InUse, answer>>
  <1>1. ASSUME NEW n \in Requests, Allocate(n) PROVE Pieces!Next
    <2>1. Refused(n) \/ \E c \in FreeCells : Given(c, n)
      BY <1>1, AllocatePreserves, Zenon
    <2>2. Pieces!Refuse(n) \/ Pieces!Allocate(n)
      BY <2>1, RefusedMaps, GivenMaps, Zenon
    <2>. QED BY <2>2, Zenon DEF Pieces!Next
  <1>2. ASSUME NEW c \in heads, Deallocate(c) PROVE Pieces!Next
    <2>1. TakenBack(c)
      BY <1>2, DeallocatePreserves, Zenon
    <2>2. answer' = NoRequest /\ c \in Used
      BY <1>2, Zenon DEF Deallocate, Used
    <2>. QED BY <2>1, <2>2, TakenBackMaps, Zenon DEF Pieces!Next
  <1>3. CASE UNCHANGED vars
    <2>1. size' = size /\ heads' = heads /\ answer' = answer
      BY <1>3, Zenon DEF vars
    <2>2. InUse' = InUse
      BY <2>1, Zenon DEF InUse
    <2>. QED BY <2>1, <2>2, Zenon
  <1>. QED BY <1>1, <1>2, <1>3, Zenon DEF Next

(* The memory manager implements Allocator: every piece picoos_allocate     *)
(* hands out is in the block, large enough and apart from all others, and   *)
(* keeps its place and size until picoos_deallocate.                        *)
THEOREM MemoryImplementsAllocator == Spec => ImplementsAllocator
  <1>1. Init => Pieces!Init
    BY InitMaps, Zenon
  <1>2. IInv /\ [Next]_vars => [Pieces!Next]_<<InUse, answer>>
    BY StepMaps, Zenon
  <1>. QED BY <1>1, <1>2, MemoryIInv, PTL DEF Spec, ImplementsAllocator, Pieces!Spec
=============================================================================
