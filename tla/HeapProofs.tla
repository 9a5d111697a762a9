----------------------------- MODULE HeapProofs -----------------------------
(***************************************************************************)
(* Proofs about Heap.tla, for every heap size, header size and request     *)
(* set.                                                                    *)
(***************************************************************************)
EXTENDS Heap, WellFoundedInduction, TLAPS

(* The operations of malloc and free keep any heap well formed.            *)

(* Clearing `allocated' touches no link (memorymanagement.cpp:71).         *)
LEMMA ReleaseWellFormed ==
    ASSUME NEW f, WellFormed(f), NEW c \in DOMAIN f
    PROVE  WellFormed([f EXCEPT ![c].allocated = FALSE])
<1> DEFINE g == [f EXCEPT ![c].allocated = FALSE]
<1>1. /\ DOMAIN g = DOMAIN f
      /\ \A d \in DOMAIN f : /\ g[d].next = f[d].next
                             /\ g[d].prev = f[d].prev
                             /\ g[d].size = f[d].size
  BY DEF WellFormed, Typed, Chunk
<1>2. Typed(g)
  BY DEF WellFormed, Typed, Chunk
<1>3. Linked(g)
  BY <1>1 DEF WellFormed, Linked
<1>4. BackLinked(g)
  <2> SUFFICES ASSUME NEW d \in DOMAIN f
               PROVE  /\ g[d].next # Null => g[g[d].next].prev = d
                      /\ IF g[d].prev = Null
                         THEN d = Start
                         ELSE g[d].prev \in DOMAIN f /\ g[g[d].prev].next = d
    BY <1>1 DEF BackLinked
  <2> f[d].next # Null => f[d].next \in DOMAIN f
    BY DEF WellFormed, Linked
  <2> QED BY <1>1 DEF WellFormed, BackLinked
<1>5. Disjoint(g)
  BY <1>1 DEF WellFormed, Disjoint
<1>6. HasFirst(g)
  BY <1>1 DEF WellFormed, HasFirst
<1> QED BY <1>2, <1>3, <1>4, <1>5, <1>6 DEF WellFormed

(* In a well-formed heap addresses are non-null numbers and `next' leads   *)
(* to a chunk.                                                             *)
LEMMA Addresses ==
    ASSUME NEW f, WellFormed(f)
    PROVE  /\ \A d \in DOMAIN f : d \in Nat /\ d # Null /\ f[d] \in Chunk
           /\ \A d \in DOMAIN f : f[d].next # Null => f[d].next \in DOMAIN f
           /\ End \in Nat /\ Hdr \in Nat /\ Hdr > 0
BY HeapAssumption DEF WellFormed, Typed, Linked, Null, End

(* The fields of g, the heap after chunk a of f has swallowed b.           *)
AfterAbsorb(f, a, b, g) ==
    /\ b \in DOMAIN f /\ b = a + Hdr + f[a].size /\ f[b].prev = a /\ a < b
    /\ DOMAIN g = DOMAIN f \ {b}
    /\ g = [d \in DOMAIN g |-> g[d]]
    /\ g[a].next = f[b].next
    /\ g[a].prev = f[a].prev
    /\ g[a].size = f[a].size + f[b].size + Hdr
    /\ g[a].allocated = f[a].allocated
    /\ g[a] \in Chunk
    /\ \A d \in DOMAIN g : d # a =>
          /\ g[d].next = f[d].next
          /\ g[d].size = f[d].size
          /\ g[d].allocated = f[d].allocated
          /\ g[d].prev = IF d = f[b].next THEN a ELSE f[d].prev
          /\ g[d] \in Chunk

(* Merging a with its successor b (memorymanagement.cpp:75-78, 85-88).     *)
LEMMA AbsorbFields ==
    ASSUME NEW f, WellFormed(f), NEW a \in DOMAIN f, NEW b, b = f[a].next, b # Null,
           NEW g, g = Absorb(f, a, b)
    PROVE  AfterAbsorb(f, a, b, g)
<1>0. /\ \A d \in DOMAIN f : d \in Nat /\ d # Null /\ f[d] \in Chunk
      /\ Hdr \in Nat /\ Hdr > 0
  BY Addresses
<1>1. b \in DOMAIN f /\ b = a + Hdr + f[a].size /\ f[b].prev = a /\ a < b
  BY <1>0 DEF WellFormed, Linked, BackLinked, Chunk
<1>2. DOMAIN g = DOMAIN f \ {b} /\ g = [d \in DOMAIN g |-> g[d]]
  BY DEF Absorb
<1>3. /\ g[a].next = f[b].next
      /\ g[a].prev = f[a].prev
      /\ g[a].size = f[a].size + f[b].size + Hdr
      /\ g[a].allocated = f[a].allocated
      /\ g[a] \in Chunk
  <2> DEFINE s == f[a].size + f[b].size + Hdr
             x == f[b].next
  <2>1. g[a] = [f[a] EXCEPT !.next = x, !.size = s]
    BY <1>0, <1>1 DEF Absorb
  <2>2. f[a] \in Chunk /\ x \in Nat /\ s \in Nat
    BY <1>0, <1>1 DEF Chunk
  <2> HIDE DEF s, x
  <2>3. /\ g[a].next = x
        /\ g[a].prev = f[a].prev
        /\ g[a].size = s
        /\ g[a].allocated = f[a].allocated
        /\ g[a] \in Chunk
    BY <2>1, <2>2 DEF Chunk
  <2> QED BY <2>3 DEF s, x
<1>4. ASSUME NEW d \in DOMAIN g, d # a
      PROVE  /\ g[d].next = f[d].next
             /\ g[d].size = f[d].size
             /\ g[d].allocated = f[d].allocated
             /\ g[d].prev = IF d = f[b].next THEN a ELSE f[d].prev
             /\ g[d] \in Chunk
  <2>1. g[d] = IF d = f[b].next THEN [f[d] EXCEPT !.prev = a] ELSE f[d]
    BY <1>2, <1>4 DEF Absorb
  <2> QED BY <2>1, <1>0, <1>2 DEF Chunk
<1> QED BY <1>1, <1>2, <1>3, <1>4 DEF AfterAbsorb

(* A merge of two neighbours leaves a well-formed heap.                    *)
LEMMA AbsorbWellFormed ==
    ASSUME NEW f, WellFormed(f), NEW a \in DOMAIN f, NEW b, b = f[a].next, b # Null,
           NEW g, g = Absorb(f, a, b)
    PROVE  WellFormed(g)
<1>0. /\ \A d \in DOMAIN f : d \in Nat /\ d # Null /\ f[d] \in Chunk
      /\ End \in Nat /\ Hdr \in Nat /\ Hdr > 0
  BY Addresses
<1> AfterAbsorb(f, a, b, g)
  BY AbsorbFields
<1>1. b \in DOMAIN f /\ b = a + Hdr + f[a].size /\ f[b].prev = a /\ a < b
  BY DEF AfterAbsorb
<1>2. DOMAIN g = DOMAIN f \ {b} /\ g = [d \in DOMAIN g |-> g[d]]
  BY DEF AfterAbsorb
<1>3. /\ g[a].next = f[b].next
      /\ g[a].prev = f[a].prev
      /\ g[a].size = f[a].size + f[b].size + Hdr
      /\ g[a] \in Chunk
  BY DEF AfterAbsorb
<1>4. \A d \in DOMAIN g : d # a =>
         /\ g[d].next = f[d].next
         /\ g[d].size = f[d].size
         /\ g[d].prev = IF d = f[b].next THEN a ELSE f[d].prev
         /\ g[d] \in Chunk
  BY DEF AfterAbsorb
<1>5. Typed(g)
  <2>1. \A d \in DOMAIN g : g[d] \in Chunk
    BY <1>3, <1>4
  <2> QED BY <2>1, <1>2 DEF WellFormed, Typed
<1>6. Linked(g)
  <2> SUFFICES ASSUME NEW d \in DOMAIN g
               PROVE  IF g[d].next = Null
                      THEN d + Hdr + g[d].size = End
                      ELSE g[d].next \in DOMAIN g /\ g[d].next = d + Hdr + g[d].size
    BY DEF Linked
  <2>1. CASE d = a
    <3>1. f[b].next # b
      BY <1>0, <1>1 DEF WellFormed, Linked, Chunk
    <3> QED BY <2>1, <3>1, <1>0, <1>1, <1>2, <1>3 DEF WellFormed, Linked, Chunk
  <2>2. CASE d # a
    <3>1. f[d].next # b
      BY <2>2, <1>0, <1>1, <1>2 DEF WellFormed, BackLinked
    <3> QED BY <2>2, <3>1, <1>2, <1>4 DEF WellFormed, Linked
  <2> QED BY <2>1, <2>2
<1>7. BackLinked(g)
  <2> SUFFICES ASSUME NEW d \in DOMAIN g
               PROVE  /\ g[d].next # Null => g[g[d].next].prev = d
                      /\ IF g[d].prev = Null
                         THEN d = Start
                         ELSE g[d].prev \in DOMAIN g /\ g[g[d].prev].next = d
    BY DEF BackLinked
  <2>1. f[a].prev # b /\ f[b].next # a /\ f[b].next # b
    BY <1>0, <1>1 DEF WellFormed, Linked, BackLinked, Chunk
  <2>2. \A e \in DOMAIN f : f[e].next # Null => f[e].next \in DOMAIN f
    BY DEF WellFormed, Linked
  <2>3. CASE d = a
    <3>1. f[b].next # Null => g[f[b].next].prev = a
      BY <2>1, <2>2, <1>0, <1>1, <1>2, <1>4
    <3>2. f[a].prev # Null => f[a].prev \in DOMAIN g /\ f[a].prev # a
      BY <2>1, <1>0, <1>1, <1>2 DEF WellFormed, BackLinked
    <3> QED BY <2>3, <3>1, <3>2, <1>0, <1>3, <1>4 DEF WellFormed, BackLinked
  <2>4. CASE d # a
    <3>1. f[d].next # Null => f[d].next # b /\ f[d].next \in DOMAIN g
      BY <2>2, <2>4, <1>1, <1>2 DEF WellFormed, BackLinked
    <3>2. g[d].next # Null => g[g[d].next].prev = d
      <4>1. f[d].next # Null => f[d].next # f[b].next
        BY <1>0, <1>1, <1>2, <2>2 DEF WellFormed, BackLinked
      <4>2. f[d].next # Null => f[f[d].next].prev = d
        BY <1>2 DEF WellFormed, BackLinked
      <4> QED BY <2>4, <3>1, <4>1, <4>2, <1>3, <1>4
    <3>3. CASE d = f[b].next
      BY <2>4, <3>2, <3>3, <1>0, <1>1, <1>2, <1>3, <1>4
    <3>4. CASE d # f[b].next
      <4>1. f[d].prev # b
        BY <3>4, <1>0, <1>1, <1>2 DEF WellFormed, BackLinked
      <4>2. f[d].prev # a
        BY <1>0, <1>1, <1>2 DEF WellFormed, BackLinked
      <4> QED BY <2>4, <3>2, <3>4, <4>1, <4>2, <1>2, <1>4 DEF WellFormed, BackLinked
    <3> QED BY <3>3, <3>4
  <2> QED BY <2>3, <2>4
<1>8. Disjoint(g)
  <2> SUFFICES ASSUME NEW d \in DOMAIN g
               PROVE  /\ d + Hdr + g[d].size <= End
                      /\ \A e \in DOMAIN g : d < e => d + Hdr + g[d].size <= e
    BY DEF Disjoint
  <2>1. /\ \A e \in DOMAIN f : e \in Nat /\ f[e].size \in Nat
        /\ \A e \in DOMAIN f : e + Hdr + f[e].size <= End
        /\ \A e1, e2 \in DOMAIN f : e1 < e2 => e1 + Hdr + f[e1].size <= e2
    BY <1>0 DEF WellFormed, Disjoint, Chunk
  <2>2. CASE d = a
    <3>1. d + Hdr + g[d].size = b + Hdr + f[b].size
      BY <2>1, <2>2, <1>0, <1>1, <1>3
    <3>2. \A e \in DOMAIN g : d < e => b < e
      BY <2>1, <2>2, <1>0, <1>1, <1>2
    <3> QED BY <3>1, <3>2, <2>1, <1>1, <1>2
  <2>3. CASE d # a
    BY <2>1, <2>3, <1>2, <1>4
  <2> QED BY <2>2, <2>3
<1>9. HasFirst(g)
  BY <1>0, <1>1, <1>2, HeapAssumption DEF WellFormed, Typed, HasFirst
<1> QED BY <1>5, <1>6, <1>7, <1>8, <1>9 DEF WellFormed

(* The fields of g, the heap after chunk c of f was split at temp.         *)
AfterSplit(f, c, n, temp, g) ==
    /\ temp \in Nat /\ temp # Null /\ temp \notin DOMAIN f
    /\ c < temp /\ temp < c + Hdr + f[c].size /\ temp \in Start .. End
    /\ DOMAIN g = DOMAIN f \cup {temp}
    /\ g = [d \in DOMAIN g |-> g[d]]
    /\ g[c].next = temp
    /\ g[c].prev = f[c].prev
    /\ g[c].size = n
    /\ g[c].allocated
    /\ g[c] \in Chunk
    /\ g[temp].next = f[c].next
    /\ g[temp].prev = c
    /\ g[temp].size = f[c].size - n - Hdr
    /\ ~g[temp].allocated
    /\ g[temp] \in Chunk
    /\ \A d \in DOMAIN f : d # c =>
          /\ g[d].next = f[d].next
          /\ g[d].size = f[d].size
          /\ g[d].allocated = f[d].allocated
          /\ g[d].prev = IF d = f[c].next THEN temp ELSE f[d].prev
          /\ g[d] \in Chunk

(* Splitting chunk c (memorymanagement.cpp:50-63).                         *)
LEMMA CarveFields ==
    ASSUME NEW f, WellFormed(f), NEW c \in DOMAIN f, NEW n \in Nat,
           f[c].size >= n + Hdr + 1,
           NEW g, g = Carve(f, c, n), NEW temp, temp = c + Hdr + n
    PROVE  AfterSplit(f, c, n, temp, g)
<1>0. /\ \A d \in DOMAIN f : d \in Nat /\ d # Null /\ f[d] \in Chunk
      /\ Hdr \in Nat /\ Hdr > 0 /\ End \in Nat
      /\ f[c].size \in Nat
  BY Addresses DEF Chunk
<1>1. /\ temp \in Nat /\ temp # Null /\ temp \notin DOMAIN f
      /\ c < temp /\ temp < c + Hdr + f[c].size /\ temp \in Start .. End
  BY <1>0, HeapAssumption DEF WellFormed, Typed, Disjoint, Null
<1>2. DOMAIN g = DOMAIN f \cup {temp} /\ g = [d \in DOMAIN g |-> g[d]]
  BY DEF Carve
<1>3. /\ g[c].next = temp
      /\ g[c].prev = f[c].prev
      /\ g[c].size = n
      /\ g[c].allocated
      /\ g[c] \in Chunk
  <2>1. g[c] = [f[c] EXCEPT !.allocated = TRUE, !.size = n, !.next = temp]
    BY DEF Carve
  <2>2. f[c] \in Chunk
    BY <1>0
  <2> QED BY <2>1, <2>2, <1>1 DEF Chunk
<1>4. /\ g[temp].next = f[c].next
      /\ g[temp].prev = c
      /\ g[temp].size = f[c].size - n - Hdr
      /\ ~g[temp].allocated
      /\ g[temp] \in Chunk
  <2>1. g[temp] = [next |-> f[c].next, prev |-> c, allocated |-> FALSE,
                   size |-> f[c].size - n - Hdr]
    BY <1>1 DEF Carve
  <2>2. f[c] \in Chunk /\ f[c].size - n - Hdr \in Nat
    BY <1>0
  <2> QED BY <2>1, <2>2, <1>0 DEF Chunk
<1>5. ASSUME NEW d \in DOMAIN f, d # c
      PROVE  /\ g[d].next = f[d].next
             /\ g[d].size = f[d].size
             /\ g[d].allocated = f[d].allocated
             /\ g[d].prev = IF d = f[c].next THEN temp ELSE f[d].prev
             /\ g[d] \in Chunk
  <2>1. g[d] = IF d = f[c].next THEN [f[d] EXCEPT !.prev = temp] ELSE f[d]
    BY <1>1, <1>5 DEF Carve
  <2>2. f[d] \in Chunk
    BY <1>0
  <2> QED BY <2>1, <2>2, <1>1 DEF Chunk
<1> QED BY <1>1, <1>2, <1>3, <1>4, <1>5 DEF AfterSplit

(* Handing out n bytes of a chunk (memorymanagement.cpp:48-63).            *)
LEMMA CarveWellFormed ==
    ASSUME NEW f, WellFormed(f), NEW c \in DOMAIN f, NEW n \in Nat, n < f[c].size,
           NEW g, g = Carve(f, c, n)
    PROVE  WellFormed(g)
<1>0. /\ \A d \in DOMAIN f : d \in Nat /\ d # Null /\ f[d] \in Chunk
      /\ \A d \in DOMAIN f : f[d].next # Null => f[d].next \in DOMAIN f
      /\ End \in Nat /\ Hdr \in Nat /\ Hdr > 0
      /\ f[c].size \in Nat
  BY Addresses DEF Chunk
<1>1. CASE ~(f[c].size >= n + Hdr + 1)
  <2> DEFINE h == [f EXCEPT ![c].allocated = TRUE]
  <2>1. /\ DOMAIN h = DOMAIN f
        /\ \A d \in DOMAIN f : /\ h[d].next = f[d].next
                               /\ h[d].prev = f[d].prev
                               /\ h[d].size = f[d].size
    BY <1>0 DEF Chunk
  <2>2. Typed(h)
    BY DEF WellFormed, Typed, Chunk
  <2> HIDE DEF h
  <2>3. WellFormed(h)
    BY <1>0, <2>1, <2>2 DEF WellFormed, Linked, BackLinked, Disjoint, HasFirst
  <2> QED BY <1>1, <2>3 DEF Carve, h
<1>2. CASE f[c].size >= n + Hdr + 1
  <2> DEFINE temp == c + Hdr + n
  <2> temp = c + Hdr + n
    OBVIOUS
  <2> HIDE DEF temp
  <2> AfterSplit(f, c, n, temp, g)
    BY <1>2, CarveFields
  <2>1. /\ temp \in Nat /\ temp # Null /\ temp \notin DOMAIN f
        /\ c < temp /\ temp < c + Hdr + f[c].size /\ temp \in Start .. End
    BY DEF AfterSplit
  <2>2. DOMAIN g = DOMAIN f \cup {temp} /\ g = [d \in DOMAIN g |-> g[d]]
    BY DEF AfterSplit
  <2>3. /\ g[c].next = temp
        /\ g[c].prev = f[c].prev
        /\ g[c].size = n
        /\ g[c] \in Chunk
    BY DEF AfterSplit
  <2>4. /\ g[temp].next = f[c].next
        /\ g[temp].prev = c
        /\ g[temp].size = f[c].size - n - Hdr
        /\ g[temp] \in Chunk
    BY DEF AfterSplit
  <2>5. \A d \in DOMAIN f : d # c =>
          /\ g[d].next = f[d].next
          /\ g[d].size = f[d].size
          /\ g[d].prev = IF d = f[c].next THEN temp ELSE f[d].prev
          /\ g[d] \in Chunk
    BY DEF AfterSplit
  <2>6. Typed(g)
    <3>1. \A d \in DOMAIN g : g[d] \in Chunk
      BY <2>2, <2>3, <2>4, <2>5
    <3> QED BY <3>1, <2>1, <2>2 DEF WellFormed, Typed
  <2>7. \A d \in DOMAIN f : d # c => f[d].next # c \/ f[c].prev = d
    BY <1>0 DEF WellFormed, BackLinked
  <2>8. Linked(g)
    BY <1>0, <2>1, <2>2, <2>3, <2>4, <2>5 DEF WellFormed, Linked
  <2>9. BackLinked(g)
    <3> SUFFICES ASSUME NEW d \in DOMAIN g
                 PROVE  /\ g[d].next # Null => g[g[d].next].prev = d
                        /\ IF g[d].prev = Null
                           THEN d = Start
                           ELSE g[d].prev \in DOMAIN g /\ g[g[d].prev].next = d
      BY DEF BackLinked
    <3>1. \A e \in DOMAIN f : f[e].next # e /\ f[e].prev # e
      BY <1>0 DEF WellFormed, Linked, BackLinked, Chunk
    <3>2. CASE d = c
      BY <3>1, <3>2, <1>0, <2>1, <2>2, <2>3, <2>4, <2>5 DEF WellFormed, BackLinked
    <3>3. CASE d = temp
      BY <3>1, <3>3, <1>0, <2>1, <2>2, <2>3, <2>4, <2>5 DEF WellFormed, BackLinked
    <3>4. CASE d # c /\ d # temp
      <4>1. g[d].next # Null => g[g[d].next].prev = d
        BY <3>1, <3>4, <1>0, <2>1, <2>2, <2>3, <2>4, <2>5 DEF WellFormed, BackLinked
      <4>2. IF g[d].prev = Null
            THEN d = Start
            ELSE g[d].prev \in DOMAIN g /\ g[g[d].prev].next = d
        BY <3>1, <3>4, <1>0, <2>1, <2>2, <2>3, <2>4, <2>5 DEF WellFormed, BackLinked
      <4> QED BY <4>1, <4>2
    <3> QED BY <3>2, <3>3, <3>4, <2>2
  <2>10. Disjoint(g)
    BY <1>0, <1>2, <2>1, <2>2, <2>3, <2>4, <2>5
       DEF WellFormed, Disjoint, Chunk
  <2>11. HasFirst(g)
    BY <2>2 DEF WellFormed, HasFirst
  <2> QED BY <2>6, <2>8, <2>9, <2>10, <2>11 DEF WellFormed
<1> QED BY <1>1, <1>2

----------------------------------------------------------------------------
(* malloc and free preserve the invariant.                                 *)

(* A free neighbour cannot appear next to the remainder of a split: the    *)
(* chunk that was split was free, so its neighbours were in use.           *)
LEMMA CarveCoalesced ==
    ASSUME NEW f, WellFormed(f), Coalesced(f),
           NEW c \in DOMAIN f, ~f[c].allocated, NEW n \in Nat, n < f[c].size,
           NEW g, g = Carve(f, c, n)
    PROVE  Coalesced(g)
<1>0. /\ \A d \in DOMAIN f : d \in Nat /\ d # Null /\ f[d] \in Chunk
      /\ \A d \in DOMAIN f : f[d].next # Null => f[d].next \in DOMAIN f
      /\ Hdr \in Nat /\ Hdr > 0
      /\ f[c].size \in Nat
  BY Addresses DEF Chunk
<1>1. CASE ~(f[c].size >= n + Hdr + 1)
  <2>1. g = [f EXCEPT ![c].allocated = TRUE]
    BY <1>1 DEF Carve
  <2>2. /\ DOMAIN g = DOMAIN f
        /\ \A d \in DOMAIN f : /\ g[d].next = f[d].next
                               /\ f[d].allocated => g[d].allocated
        /\ g[c].allocated
    BY <2>1, <1>0 DEF Chunk
  <2> QED BY <2>2, <1>0 DEF Coalesced
<1>2. CASE f[c].size >= n + Hdr + 1
  <2> DEFINE temp == c + Hdr + n
  <2> temp = c + Hdr + n
    OBVIOUS
  <2> HIDE DEF temp
  <2> AfterSplit(f, c, n, temp, g)
    BY <1>2, CarveFields
  <2> SUFFICES ASSUME NEW d \in DOMAIN g, ~g[d].allocated, g[d].next # Null
               PROVE  g[g[d].next].allocated
    BY DEF Coalesced
  <2>1. d # c
    BY DEF AfterSplit
  <2>2. CASE d = temp
    <3>1. f[c].next # c
      BY <1>0 DEF WellFormed, Linked
    <3> QED BY <2>2, <3>1, <1>0 DEF AfterSplit, Coalesced
  <2>3. CASE d # temp
    BY <2>1, <2>3, <1>0 DEF AfterSplit, Coalesced
  <2> QED BY <2>2, <2>3
<1> QED BY <1>1, <1>2

(* The blocks in use in heap g are those of heap f except the block at c,  *)
(* and have the sizes they had.                                            *)
KeepsAllBut(f, g, c) ==
    /\ InUse(g) = InUse(f) \ {c}
    /\ \A d \in InUse(g) : g[d].size = f[d].size

(* Every two neighbours, except possibly h and its successor, are not both *)
(* free: where the heap stands between the two merges of free.             *)
CoalescedBut(f, h) ==
    \A d \in DOMAIN f \ {h} :
        ~f[d].allocated /\ f[d].next # Null => f[f[d].next].allocated

(* free up to the end of the backward merge (memorymanagement.cpp:69-81).  *)
LEMMA MergedBackOK ==
    ASSUME HeapInv, NEW c \in Heads, chunk[c].allocated
    PROVE  /\ WellFormed(MergedBack(c))
           /\ CoalescedBut(MergedBack(c), Holder(c))
           /\ KeepsAllBut(chunk, MergedBack(c), c)
           /\ Holder(c) \in DOMAIN MergedBack(c)
           /\ ~MergedBack(c)[Holder(c)].allocated
<1> DEFINE r == Released(c)
           p == chunk[c].prev
           g == MergedBack(c)
<1>1. WellFormed(chunk) /\ Coalesced(chunk)
  BY DEF HeapInv
<1>2. WellFormed(r)
  BY <1>1, ReleaseWellFormed DEF Released, Heads
<1>3. /\ DOMAIN r = DOMAIN chunk
      /\ \A d \in DOMAIN chunk : /\ r[d].next = chunk[d].next
                                 /\ r[d].prev = chunk[d].prev
                                 /\ r[d].size = chunk[d].size
                                 /\ d # c => r[d].allocated = chunk[d].allocated
      /\ ~r[c].allocated
  BY <1>1 DEF Released, Heads, WellFormed, Typed, Chunk
<1>4. c \in DOMAIN r
  BY <1>3 DEF Heads
<1>5. \A d \in DOMAIN r : d # Null /\ (r[d].next # Null => r[d].next \in DOMAIN r)
  BY <1>2, Addresses
<1>6. KeepsAllBut(chunk, r, c)
  BY <1>3 DEF KeepsAllBut, InUse
<1>7. CASE ~FreeAt(r, p)
  <2>1. g = r /\ Holder(c) = c
    BY <1>7 DEF MergedBack, Holder
  <2>2. CoalescedBut(r, c)
    <3> SUFFICES ASSUME NEW d \in DOMAIN r, d # c, ~r[d].allocated, r[d].next # Null
                 PROVE  r[r[d].next].allocated
      BY DEF CoalescedBut
    <3>1. r[d].next # c
      BY <1>2, <1>3, <1>5, <1>7 DEF FreeAt, WellFormed, BackLinked
    <3> QED BY <3>1, <1>1, <1>3, <1>5 DEF Coalesced
  <2> QED BY <2>1, <2>2, <1>2, <1>3, <1>4, <1>6
<1>8. CASE FreeAt(r, p)
  <2>1. g = Absorb(r, p, c) /\ Holder(c) = p
    BY <1>8 DEF MergedBack, Holder
  <2>2. p \in DOMAIN r /\ r[p].next = c /\ c # Null /\ ~r[p].allocated
    BY <1>2, <1>3, <1>4, <1>5, <1>8 DEF FreeAt, WellFormed, BackLinked
  <2> HIDE DEF g, r, p
  <2>3. WellFormed(g)
    BY <2>1, <2>2, <1>2, AbsorbWellFormed
  <2>4. AfterAbsorb(r, p, c, g)
    BY <2>1, <2>2, <1>2, AbsorbFields
  <2>5. p # c
    BY <2>4, <1>2, Addresses DEF AfterAbsorb
  <2>6. KeepsAllBut(chunk, g, c)
    BY <2>2, <2>4, <2>5, <1>3, <1>6 DEF AfterAbsorb, KeepsAllBut, InUse
  <2>7. CoalescedBut(g, p)
    <3> SUFFICES ASSUME NEW d \in DOMAIN g, d # p, ~g[d].allocated, g[d].next # Null
                 PROVE  g[g[d].next].allocated
      BY DEF CoalescedBut
    <3>1. /\ d \in DOMAIN r /\ d # c /\ ~r[d].allocated
          /\ r[d].next = g[d].next
      BY <2>4 DEF AfterAbsorb
    <3>2. r[d].next # c
      BY <3>1, <2>2, <1>2, <1>3, <1>5 DEF WellFormed, BackLinked
    <3>3. r[r[d].next].allocated /\ r[d].next \in DOMAIN r
      BY <3>1, <3>2, <1>1, <1>3, <1>5 DEF Coalesced
    <3>4. r[d].next # p
      BY <3>3, <2>2
    <3> QED BY <3>1, <3>2, <3>3, <3>4, <2>4 DEF AfterAbsorb
  <2>8. p \in DOMAIN g /\ ~g[p].allocated
    BY <2>2, <2>4, <2>5 DEF AfterAbsorb
  <2> QED BY <2>1, <2>3, <2>6, <2>7, <2>8 DEF g, p
<1> QED BY <1>7, <1>8

(* The whole of free (memorymanagement.cpp:67-91).                         *)
LEMMA MergedBothOK ==
    ASSUME HeapInv, NEW c \in Heads, chunk[c].allocated
    PROVE  /\ WellFormed(MergedBoth(c))
           /\ Coalesced(MergedBoth(c))
           /\ KeepsAllBut(chunk, MergedBoth(c), c)
<1> DEFINE f == MergedBack(c)
           h == Holder(c)
           b == f[h].next
           g == MergedBoth(c)
<1>1. /\ WellFormed(f) /\ CoalescedBut(f, h) /\ KeepsAllBut(chunk, f, c)
      /\ h \in DOMAIN f /\ ~f[h].allocated
  BY MergedBackOK
<1>2. g = IF FreeAt(f, b) THEN Absorb(f, h, b) ELSE f
  BY DEF MergedBoth
<1> HIDE DEF f, h, g
<1>3. CASE ~FreeAt(f, b)
  <2>1. Coalesced(f)
    BY <1>1, <1>3 DEF Coalesced, CoalescedBut, FreeAt
  <2> QED BY <2>1, <1>1, <1>2, <1>3 DEF g
<1>4. CASE FreeAt(f, b)
  <2>1. b # Null /\ ~f[b].allocated /\ g = Absorb(f, h, b)
    BY <1>2, <1>4 DEF FreeAt
  <2>2. b = f[h].next
    OBVIOUS
  <2> HIDE DEF b
  <2>3. WellFormed(g)
    BY <2>1, <2>2, <1>1, AbsorbWellFormed
  <2>4. AfterAbsorb(f, h, b, g)
    BY <2>1, <2>2, <1>1, AbsorbFields
  <2>5. b \in DOMAIN f /\ b # h
    BY <2>4, <1>1, Addresses DEF AfterAbsorb
  <2>6. KeepsAllBut(chunk, g, c)
    BY <2>1, <2>4, <2>5, <1>1 DEF AfterAbsorb, KeepsAllBut, InUse
  <2>7. Coalesced(g)
    <3> SUFFICES ASSUME NEW d \in DOMAIN g, ~g[d].allocated, g[d].next # Null
                 PROVE  g[g[d].next].allocated
      BY DEF Coalesced
    <3>0. \A e \in DOMAIN f : e # Null /\ (f[e].next # Null => f[e].next \in DOMAIN f)
      BY <1>1, Addresses
    <3>1. CASE d = h
      <4>1. f[b].next # Null /\ g[d].next = f[b].next
        BY <3>1, <2>4 DEF AfterAbsorb
      <4>2. f[f[b].next].allocated /\ f[b].next \in DOMAIN f
        BY <4>1, <3>0, <2>1, <2>5, <1>1 DEF CoalescedBut
      <4> QED BY <4>1, <4>2, <2>1, <2>4, <1>1 DEF AfterAbsorb
    <3>2. CASE d # h
      <4>1. /\ d \in DOMAIN f /\ ~f[d].allocated
            /\ f[d].next = g[d].next
        BY <3>2, <2>4 DEF AfterAbsorb
      <4>2. f[f[d].next].allocated /\ f[d].next \in DOMAIN f
        BY <4>1, <3>0, <3>2, <1>1 DEF CoalescedBut
      <4> QED BY <4>1, <4>2, <2>1, <2>4, <1>1 DEF AfterAbsorb
    <3> QED BY <3>1, <3>2
  <2> QED BY <2>3, <2>6, <2>7 DEF g
<1> QED BY <1>3, <1>4

----------------------------------------------------------------------------
(* What the program guarantees.                                            *)

(* malloc and free keep the invariant.                                     *)
LEMMA NextInv == HeapInv /\ [Next]_chunk => HeapInv'
<1> SUFFICES ASSUME HeapInv, [Next]_chunk
             PROVE  HeapInv'
  OBVIOUS
<1>1. CASE \E n \in Requests, c \in Heads : Malloc(n, c)
  <2>1. PICK n \in Requests, c \in Heads : Malloc(n, c)
    BY <1>1
  <2>2. c \in DOMAIN chunk /\ ~chunk[c].allocated /\ n < chunk[c].size /\ n \in Nat
    BY <2>1, HeapAssumption
       DEF Malloc, IsFirstFit, Fits, Heads, HeapInv, WellFormed, Typed, Chunk
  <2>3. chunk' = Carve(chunk, c, n)
    BY <2>1 DEF Malloc
  <2>4. WellFormed(chunk') /\ Coalesced(chunk')
    BY <2>2, <2>3, CarveWellFormed, CarveCoalesced DEF HeapInv
  <2> QED BY <2>4 DEF HeapInv
<1>2. CASE \E n \in Requests : MallocFails(n)
  BY <1>2 DEF MallocFails, HeapInv
<1>3. CASE \E c \in Heads : Free(c)
  <2>1. PICK c \in Heads : Free(c)
    BY <1>3
  <2>2. WellFormed(chunk') /\ Coalesced(chunk')
    BY <2>1, MergedBothOK DEF Free
  <2> QED BY <2>2 DEF HeapInv
<1>4. CASE UNCHANGED chunk
  BY <1>4 DEF HeapInv
<1> QED BY <1>1, <1>2, <1>3, <1>4 DEF Next

(* The constructor establishes it.                                         *)
LEMMA InitInv == Init => HeapInv
<1> SUFFICES ASSUME Init PROVE WellFormed(chunk) /\ Coalesced(chunk)
  BY DEF HeapInv
<1> USE HeapAssumption
<1> DEFINE whole == [next |-> Null, prev |-> Null, allocated |-> FALSE, size |-> Size - Hdr]
<1>1. CASE Size < Hdr
  <2>1. DOMAIN chunk = {} /\ chunk = [d \in {} |-> whole]
    BY <1>1 DEF Init
  <2> HIDE DEF whole
  <2>2. chunk \in [DOMAIN chunk -> Chunk]
    BY <2>1
  <2> QED BY <1>1, <2>1, <2>2
          DEF WellFormed, Typed, Linked, BackLinked, Disjoint, HasFirst, Coalesced
<1>2. CASE ~(Size < Hdr)
  <2>1. DOMAIN chunk = {Start} /\ chunk = [d \in {Start} |-> whole]
    BY <1>2 DEF Init
  <2>2. whole \in Chunk
    BY <1>2 DEF Chunk, Null
  <2>3. /\ chunk[Start].next = Null /\ chunk[Start].prev = Null
        /\ chunk[Start].size = Size - Hdr
    BY <2>1
  <2> HIDE DEF whole
  <2>4. Typed(chunk)
    BY <2>1, <2>2 DEF Typed, End
  <2> QED BY <2>1, <2>3, <2>4
          DEF WellFormed, Linked, BackLinked, Disjoint, HasFirst, Coalesced, End
<1> QED BY <1>1, <1>2

(* The chunk list stays well formed and coalesced whatever is allocated    *)
(* and freed, for every heap: malloc and free of memorymanagement.cpp      *)
(* never corrupt the list themselves.                                      *)
THEOREM HeapInvariant == Spec => []HeapInv
BY InitInv, NextInv, PTL DEF Spec

(* With every block freed the heap is the constructor's single chunk       *)
(* again: the merges of free (memorymanagement.cpp:73-89) lose nothing.    *)
THEOREM NothingLeaks == Spec => []HeapRestored
<1>1. HeapInv => HeapRestored
  <2> SUFFICES ASSUME HeapInv, Heads # {}, \A c \in Heads : ~chunk[c].allocated
               PROVE  Heads = {Start} /\ chunk[Start].size = Size - Hdr
    BY DEF HeapRestored
  <2>0. /\ \A d \in Heads : d \in Start .. End /\ d # Null /\ chunk[d].size \in Nat
        /\ Hdr \in Nat /\ Hdr > 0 /\ Start \in Nat /\ Size \in Nat
    BY Addresses, HeapAssumption DEF HeapInv, WellFormed, Typed, Heads, Chunk
  <2>1. Start \in Heads
    BY <2>0 DEF HeapInv, WellFormed, Disjoint, HasFirst, Heads, End
  <2>2. chunk[Start].next = Null
    BY <2>1 DEF HeapInv, WellFormed, Linked, Coalesced, Heads
  <2>3. Start + Hdr + chunk[Start].size = End
    BY <2>1, <2>2 DEF HeapInv, WellFormed, Linked, Heads
  <2>4. ASSUME NEW d \in Heads, d # Start
        PROVE  FALSE
    BY <2>0, <2>1, <2>3, <2>4 DEF HeapInv, WellFormed, Disjoint, Heads, End
  <2>5. Heads = {Start}
    BY <2>1, <2>4
  <2>6. chunk[Start].size = Size - Hdr
    BY <2>0, <2>1, <2>3 DEF End
  <2> QED BY <2>5, <2>6
<1> QED BY <1>1, HeapInvariant, PTL

(* A non-empty bounded set of numbers has a greatest element.              *)
LEMMA GreatestElement ==
    ASSUME NEW S, S \subseteq Nat, S # {}, NEW m \in Nat, \A x \in S : x <= m
    PROVE  \E x \in S : \A y \in S : y <= x
<1> DEFINE T == {m - x : x \in S}
<1>1. T \subseteq Nat /\ T # {}
  <2>1. ASSUME NEW x \in S
        PROVE  m - x \in Nat
    <3>1. x \in Nat /\ x <= m
      OBVIOUS
    <3> QED BY <3>1
  <2>2. PICK x \in S : TRUE
    OBVIOUS
  <2>3. m - x \in T
    BY <2>2
  <2> QED BY <2>1, <2>3
<1>2. \E t \in T : \A u \in T : ~(<<u, t>> \in OpToRel(<, Nat))
  BY <1>1, NatLessThanWellFounded, WFMin
<1>3. PICK t \in T : \A u \in T : ~(u < t)
  BY <1>1, <1>2 DEF OpToRel
<1>4. PICK x \in S : t = m - x
  OBVIOUS
<1>5. \A y \in S : m - y \in T
  OBVIOUS
<1> HIDE DEF T
<1> QED BY <1>1, <1>3, <1>4, <1>5

(* malloc returns 0 (memorymanagement.cpp:45-46) only when no contiguous   *)
(* run of bytes outside the blocks in use could hold a header, the bytes   *)
(* asked for and one more: memory in reach is never overlooked.            *)
THEOREM FailureIsJustified == Spec => []FailureJustified
<1>1. HeapInv => FailureJustified
  <2> SUFFICES ASSUME HeapInv, NEW n \in Requests, \A c \in Heads : ~Fits(c, n),
                      NEW lo \in Start .. End, lo + Hdr + n + 1 <= End,
                      \A c \in Heads : chunk[c].allocated =>
                          \/ c + Hdr + chunk[c].size <= lo
                          \/ lo + Hdr + n + 1 <= c
               PROVE  FALSE
    BY DEF FailureJustified
  <2>0. /\ \A d \in Heads : d \in Start .. End /\ d # Null /\ chunk[d].size \in Nat
        /\ Hdr \in Nat /\ Hdr > 0 /\ Start \in Nat /\ Size \in Nat /\ n \in Nat
    BY Addresses, HeapAssumption DEF HeapInv, WellFormed, Typed, Heads, Chunk
  <2>1. Start \in Heads
    BY <2>0 DEF HeapInv, WellFormed, HasFirst, Heads, End
  <2> DEFINE S == {d \in Heads : d <= lo}
  <2>2. PICK c \in S : \A d \in S : d <= c
    <3>1. Start \in S /\ lo \in Nat
      BY <2>0, <2>1 DEF End
    <3>2. S \subseteq Nat /\ \A d \in S : d <= lo
      BY <2>0
    <3> HIDE DEF S
    <3>3. S # {}
      BY <3>1
    <3> QED BY <3>1, <3>2, <3>3, GreatestElement
  <2>3. c \in Heads /\ c <= lo /\ lo < c + Hdr + chunk[c].size
    BY <2>0, <2>2 DEF HeapInv, WellFormed, Linked, Heads, End
  <2>4. ~chunk[c].allocated
    BY <2>0, <2>3 DEF End
  <2>5. chunk[c].size <= n
    BY <2>0, <2>3, <2>4 DEF Fits
  <2>6. /\ chunk[c].next \in Heads
        /\ chunk[c].next = c + Hdr + chunk[c].size
        /\ chunk[c].next # Null
    BY <2>0, <2>3, <2>5 DEF HeapInv, WellFormed, Linked, Heads, End
  <2>7. chunk[chunk[c].next].allocated
    BY <2>3, <2>4, <2>6 DEF HeapInv, Coalesced, Heads
  <2> QED BY <2>0, <2>3, <2>5, <2>6, <2>7 DEF End
<1> QED BY <1>1, HeapInvariant, PTL

----------------------------------------------------------------------------
(* The search loop of malloc.                                              *)

(* What the loop is to stop at, started at c: the fitting chunk of lowest  *)
(* address from c on, or the null pointer.                                 *)
StopsAt(c, n, r) ==
    IF \E d \in Heads : c # Null /\ c <= d /\ Fits(d, n)
    THEN /\ r \in Heads /\ c <= r /\ Fits(r, n)
         /\ \A d \in Heads : c <= d /\ d < r => ~Fits(d, n)
    ELSE r = Null

(* One turn of the loop (memorymanagement.cpp:41-43), on what the rest of  *)
(* the walk returns.                                                       *)
Turn(c, n, r) ==
    IF c = Null THEN Null
    ELSE IF Fits(c, n) THEN c
    ELSE r

(* There is such a chunk, or none that fits: numbers are well-ordered.     *)
LEMMA StopExists ==
    ASSUME HeapInv, NEW n, NEW c \in Heads \cup {Null}
    PROVE  \E r \in Heads \cup {Null} : StopsAt(c, n, r)
<1> DEFINE S == {d \in Heads : c # Null /\ c <= d /\ Fits(d, n)}
<1>1. S \subseteq Nat
  BY Addresses DEF HeapInv, Heads
<1>2. CASE S = {}
  BY <1>2 DEF StopsAt
<1>3. CASE S # {}
  <2>1. PICK r \in S : \A d \in S : ~(<<d, r>> \in OpToRel(<, Nat))
    <3> HIDE DEF S
    <3> QED
      BY <1>1, <1>3, NatLessThanWellFounded, WFMin
  <2>2. \A d \in S : ~(d < r)
    BY <1>1, <2>1 DEF OpToRel
  <2>3. \A d \in Heads : c <= d /\ d < r => ~Fits(d, n)
    BY <2>1, <2>2
  <2> QED
    BY <2>1, <2>3 DEF StopsAt
<1> QED
  BY <1>2, <1>3

(* At most one.                                                            *)
LEMMA StopUnique ==
    ASSUME HeapInv, NEW n, NEW c \in Heads \cup {Null}, NEW r, NEW s,
           StopsAt(c, n, r), StopsAt(c, n, s)
    PROVE  r = s
<1>1. Heads \subseteq Nat
  BY Addresses DEF HeapInv, Heads
<1>2. CASE \E d \in Heads : c # Null /\ c <= d /\ Fits(d, n)
  <2>1. /\ r \in Heads /\ c <= r /\ Fits(r, n)
        /\ s \in Heads /\ c <= s /\ Fits(s, n)
        /\ ~(r < s) /\ ~(s < r)
    BY <1>2 DEF StopsAt
  <2> QED
    BY <1>1, <2>1
<1> QED
  BY <1>2 DEF StopsAt

(* No chunk lies between a chunk and its successor, and none behind the    *)
(* last (memorymanagement.cpp:52-58, 75-89 keep the list in that order).   *)
LEMMA NothingBetween ==
    ASSUME HeapInv, NEW c \in Heads, NEW d \in Heads, c < d
    PROVE  chunk[c].next # Null /\ chunk[c].next <= d
<1>1. /\ c \in Nat /\ d \in Nat /\ chunk[c].size \in Nat /\ chunk[d].size \in Nat
      /\ Hdr \in Nat /\ Hdr > 0 /\ End \in Nat
  BY Addresses DEF HeapInv, Heads, Chunk
<1>2. c + Hdr + chunk[c].size <= d /\ d + Hdr + chunk[d].size <= End
  BY DEF HeapInv, WellFormed, Disjoint, Heads
<1>3. c + Hdr + chunk[c].size # End
  BY <1>1, <1>2
<1> QED
  BY <1>2, <1>3 DEF HeapInv, WellFormed, Linked, Heads

(* The walk from c stops where one turn of the loop at c says, given where *)
(* the walk from the next chunk stops.                                     *)
LEMMA StopTurn ==
    ASSUME HeapInv, NEW n, NEW c \in Heads \cup {Null}, NEW r,
           c # Null => StopsAt(chunk[c].next, n, r)
    PROVE  StopsAt(c, n, Turn(c, n, r))
<1>1. /\ \A d \in Heads : d \in Nat /\ d # Null /\ chunk[d] \in Chunk
      /\ \A d \in Heads : chunk[d].next # Null => chunk[d].next \in Heads
      /\ Hdr \in Nat /\ Hdr > 0
  BY Addresses DEF HeapInv, Heads
<1>2. CASE c = Null
  BY <1>2 DEF StopsAt, Turn
<1>3. CASE c # Null /\ Fits(c, n)
  BY <1>1, <1>3 DEF StopsAt, Turn
<1>4. CASE c # Null /\ ~Fits(c, n)
  <2>1. PICK b : b = chunk[c].next
    OBVIOUS
  <2>2. c \in Heads /\ StopsAt(b, n, r) /\ Turn(c, n, r) = r
    BY <1>4, <2>1 DEF Turn
  <2>3. b # Null => b \in Heads /\ c < b
    <3>1. chunk[c].size \in Nat /\ c \in Nat
      BY <1>1, <2>2 DEF Chunk
    <3>2. b # Null => b = c + Hdr + chunk[c].size
      BY <2>1, <2>2 DEF HeapInv, WellFormed, Linked, Heads
    <3>3. b # Null => c < b
      BY <1>1, <3>1, <3>2
    <3> QED
      BY <1>1, <2>1, <2>2, <3>3
  <2>4. \A d \in Heads : c <= d /\ Fits(d, n) => b # Null /\ b <= d
    <3> SUFFICES ASSUME NEW d \in Heads, c <= d, Fits(d, n)
                 PROVE  b # Null /\ b <= d
      OBVIOUS
    <3>1. c < d
      BY <1>1, <1>4, <2>2
    <3> QED
      BY <2>1, <2>2, <3>1, NothingBetween
  <2>5. \A d \in Heads : b # Null /\ b <= d => c <= d
    BY <1>1, <2>2, <2>3
  <2>6. (\E d \in Heads : c # Null /\ c <= d /\ Fits(d, n))
            <=> \E d \in Heads : b # Null /\ b <= d /\ Fits(d, n)
    BY <1>4, <2>4, <2>5
  <2>7. CASE \E d \in Heads : b # Null /\ b <= d /\ Fits(d, n)
    <3>1. /\ r \in Heads /\ b <= r /\ Fits(r, n) /\ b # Null
          /\ \A d \in Heads : b <= d /\ d < r => ~Fits(d, n)
      BY <2>2, <2>7 DEF StopsAt
    <3>2. c <= r
      BY <2>5, <3>1
    <3>3. \A d \in Heads : c <= d /\ d < r => ~Fits(d, n)
      BY <2>4, <3>1
    <3> QED
      BY <2>2, <2>6, <2>7, <3>1, <3>2, <3>3 DEF StopsAt
  <2>8. CASE ~ \E d \in Heads : b # Null /\ b <= d /\ Fits(d, n)
    BY <2>2, <2>6, <2>8 DEF StopsAt
  <2> QED
    BY <2>7, <2>8
<1> QED
  BY <1>2, <1>3, <1>4

(* A function that obeys the loop stops where the loop is to stop, from    *)
(* every chunk: of the chunks where it did not, take the last.             *)
LEMMA WalkStops ==
    ASSUME HeapInv, NEW n, NEW g,
           \A c \in Heads \cup {Null} : g[c] = Turn(c, n, g[chunk[c].next])
    PROVE  \A c \in Heads \cup {Null} : StopsAt(c, n, g[c])
<1> DEFINE S == {c \in Heads \cup {Null} : ~StopsAt(c, n, g[c])}
<1>1. /\ \A d \in Heads : d \in Nat /\ d # Null /\ d <= End /\ chunk[d] \in Chunk
      /\ \A d \in Heads : chunk[d].next # Null => chunk[d].next \in Heads
      /\ Hdr \in Nat /\ Hdr > 0 /\ End \in Nat /\ Null \in Nat
  BY Addresses, HeapAssumption DEF HeapInv, WellFormed, Typed, Heads, Null
<1>2. S \subseteq Nat /\ \A c \in S : c <= End
  BY <1>1 DEF Null
<1>3. SUFFICES ASSUME S # {} PROVE FALSE
  OBVIOUS
<1>4. PICK c \in S : \A d \in S : d <= c
  <2> HIDE DEF S
  <2> QED
    BY <1>1, <1>2, <1>3, GreatestElement
<1>5. c # Null => StopsAt(chunk[c].next, n, g[chunk[c].next])
  <2> SUFFICES ASSUME c # Null PROVE StopsAt(chunk[c].next, n, g[chunk[c].next])
    OBVIOUS
  <2>1. c \in Heads /\ c \in Nat /\ chunk[c].size \in Nat
    BY <1>1, <1>4 DEF Chunk
  <2>2. chunk[c].next = Null \/ chunk[c].next = c + Hdr + chunk[c].size
    BY <2>1 DEF HeapInv, WellFormed, Linked, Heads
  <2>3. chunk[c].next \in Heads \cup {Null}
    BY <1>1, <2>1
  <2>4. CASE chunk[c].next = Null
    <3>1. g[Null] = Null
      BY DEF Turn
    <3> QED
      BY <2>4, <3>1 DEF StopsAt
  <2>5. CASE chunk[c].next = c + Hdr + chunk[c].size
    <3>1. ~(chunk[c].next <= c)
      BY <1>1, <2>1, <2>5
    <3>2. chunk[c].next \notin S
      BY <1>4, <3>1
    <3> QED
      BY <2>3, <3>2
  <2> QED
    BY <2>2, <2>4, <2>5
<1>6. g[c] = Turn(c, n, g[chunk[c].next])
  BY <1>4
<1>7. StopsAt(c, n, g[c])
  BY <1>4, <1>5, <1>6, StopTurn
<1> QED
  BY <1>4, <1>7

(* The loop that `first' starts stops at the fitting chunk of lowest       *)
(* address, or at the null pointer.                                        *)
LEMMA SearchStops ==
    ASSUME HeapInv, NEW n
    PROVE  StopsAt(IF Heads = {} THEN Null ELSE Start, n, Search(n))
<1> DEFINE C == Heads \cup {Null}
           Loop(g) == [c \in C |-> IF c = Null THEN Null
                                   ELSE IF Fits(c, n) THEN c
                                   ELSE g[chunk[c].next]]
           walk == [c \in C |-> CHOOSE r \in C : StopsAt(c, n, r)]
           from == CHOOSE g : g = Loop(g)
<1>1. \A c \in Heads : chunk[c].next \in C
  BY Addresses DEF HeapInv, Heads
<1>2. \A c \in C : StopsAt(c, n, walk[c])
  BY StopExists
<1>3. walk = Loop(walk)
  <2>1. ASSUME NEW c \in C
        PROVE  walk[c] = Turn(c, n, walk[chunk[c].next])
    <3>1. c # Null => StopsAt(chunk[c].next, n, walk[chunk[c].next])
      BY <1>1, <1>2
    <3> HIDE DEF walk
    <3>2. StopsAt(c, n, Turn(c, n, walk[chunk[c].next]))
      BY <3>1, StopTurn
    <3> QED
      BY <1>2, <3>2, StopUnique
  <2>2. walk = [c \in C |-> walk[c]]
    OBVIOUS
  <2> HIDE DEF walk
  <2> QED
    BY <2>1, <2>2, Zenon DEF Turn
<1>4. from = Loop(from)
  <2> HIDE DEF walk, Loop
  <2> QED
    BY <1>3
<1>5. \A c \in C : from[c] = Turn(c, n, from[chunk[c].next])
  <2> HIDE DEF from
  <2> QED
    BY <1>4 DEF Turn
<1>6. \A c \in C : StopsAt(c, n, from[c])
  <2> HIDE DEF from
  <2> QED
    BY <1>5, WalkStops
<1>7. Search(n) = from[IF Heads = {} THEN Null ELSE Start]
  BY Zenon DEF Search
<1>8. Heads # {} => Start \in Heads
  <2>1. ASSUME NEW d \in Heads PROVE Size >= Hdr
    <3>1. /\ d \in Nat /\ Start <= d /\ chunk[d].size \in Nat /\ d + Hdr + chunk[d].size <= End
          /\ Hdr \in Nat /\ Start \in Nat /\ Size \in Nat
      BY Addresses, HeapAssumption DEF HeapInv, WellFormed, Typed, Disjoint, Heads, Chunk
    <3> QED
      BY <3>1 DEF End
  <2> QED
    BY <2>1 DEF HeapInv, WellFormed, HasFirst, Heads
<1> HIDE DEF from
<1> QED
  BY <1>6, <1>7, <1>8

(* malloc's loop overlooks no chunk that fits and takes the lowest         *)
(* (memorymanagement.cpp:41-46): the list reaches every chunk, in the      *)
(* order of the addresses, whatever was allocated and freed before.        *)
THEOREM SearchIsComplete == Spec => []SearchFinds
<1>1. HeapInv => SearchFinds
  <2> SUFFICES ASSUME HeapInv, NEW n \in Requests
               PROVE  IF \E c \in Heads : Fits(c, n)
                      THEN \E c \in Heads : IsFirstFit(c, n) /\ Search(n) = c
                      ELSE Search(n) = Null
    BY DEF SearchFinds
  <2>1. StopsAt(IF Heads = {} THEN Null ELSE Start, n, Search(n))
    BY SearchStops
  <2>2. \A d \in Heads : Start <= d /\ Start # Null
    BY HeapAssumption DEF HeapInv, WellFormed, Typed, Heads, Null
  <2>3. CASE \E c \in Heads : Fits(c, n)
    <3>1. StopsAt(Start, n, Search(n))
      BY <2>1, <2>3
    <3>2. /\ Search(n) \in Heads /\ Fits(Search(n), n)
          /\ \A d \in Heads : Start <= d /\ d < Search(n) => ~Fits(d, n)
      BY <2>2, <2>3, <3>1 DEF StopsAt
    <3> QED
      BY <2>2, <2>3, <3>2 DEF IsFirstFit
  <2>4. CASE ~ \E c \in Heads : Fits(c, n)
    BY <2>1, <2>4 DEF StopsAt
  <2> QED
    BY <2>3, <2>4
<1> QED BY <1>1, HeapInvariant, PTL

----------------------------------------------------------------------------
(* The heap implements the allocator its callers rely on.                  *)

(* What malloc does to the blocks in use (memorymanagement.cpp:48-64).     *)
LEMMA CarveBlocks ==
    ASSUME NEW f, WellFormed(f), NEW c \in DOMAIN f, ~f[c].allocated,
           NEW n \in Nat, n < f[c].size,
           NEW g, g = Carve(f, c, n)
    PROVE  /\ InUse(g) = InUse(f) \cup {c}
           /\ \A d \in InUse(f) : g[d].size = f[d].size
           /\ g[c].size \in n .. n + Hdr
           /\ c + Hdr + g[c].size <= c + Hdr + f[c].size
<1>0. /\ \A d \in DOMAIN f : d \in Nat /\ d # Null /\ f[d] \in Chunk
      /\ Hdr \in Nat /\ Hdr > 0
      /\ f[c].size \in Nat
  BY Addresses DEF Chunk
<1>1. CASE ~(f[c].size >= n + Hdr + 1)
  <2>1. g = [f EXCEPT ![c].allocated = TRUE]
    BY <1>1 DEF Carve
  <2>2. /\ DOMAIN g = DOMAIN f
        /\ \A d \in DOMAIN f : /\ g[d].size = f[d].size
                               /\ d # c => g[d].allocated = f[d].allocated
        /\ g[c].allocated
    BY ZenonT(60), <2>1, <1>0 DEF Chunk
  <2>3. InUse(g) = InUse(f) \cup {c} /\ \A d \in InUse(f) : g[d].size = f[d].size
    BY <2>2 DEF InUse
  <2>4. g[c].size = f[c].size /\ f[c].size \in n .. n + Hdr
    BY <2>2, <1>0, <1>1
  <2> QED BY <2>3, <2>4, <1>0
<1>2. CASE f[c].size >= n + Hdr + 1
  <2> DEFINE temp == c + Hdr + n
  <2> temp = c + Hdr + n
    OBVIOUS
  <2> HIDE DEF temp
  <2>1. AfterSplit(f, c, n, temp, g)
    BY <1>2, CarveFields
  <2>2. /\ temp \notin DOMAIN f
        /\ DOMAIN g = DOMAIN f \cup {temp}
        /\ g[c].allocated /\ g[c].size = n
        /\ ~g[temp].allocated
        /\ \A d \in DOMAIN f : d # c => /\ g[d].allocated = f[d].allocated
                                        /\ g[d].size = f[d].size
    BY <2>1 DEF AfterSplit
  <2>3. InUse(g) = InUse(f) \cup {c} /\ \A d \in InUse(f) : g[d].size = f[d].size
    BY <2>2 DEF InUse
  <2> QED BY <2>2, <2>3, <1>0, <1>2
<1> QED BY <1>1, <1>2

(* A successful malloc is an Alloc of the abstract allocator.              *)
LEMMA MallocImplements ==
    ASSUME HeapInv, NEW n \in Requests, NEW c \in Heads, Malloc(n, c)
    PROVE  A!Alloc(n)
<1> DEFINE s == chunk'[c].size
           p == c + Hdr
           b == [ptr |-> p, size |-> s]
<1>0. /\ \A d \in Heads : d \in Start .. End /\ d \in Nat /\ chunk[d].size \in Nat
      /\ Hdr \in Nat /\ Hdr > 0 /\ End \in Nat /\ n \in Nat /\ Start \in Nat
  BY Addresses, HeapAssumption DEF HeapInv, WellFormed, Typed, Heads, Chunk
<1>1. WellFormed(chunk) /\ c \in DOMAIN chunk /\ ~chunk[c].allocated /\ n < chunk[c].size
  BY <1>0 DEF Malloc, IsFirstFit, Fits, Heads, HeapInv
<1>2. chunk' = Carve(chunk, c, n)
  BY DEF Malloc
<1>3. /\ InUse(chunk') = InUse(chunk) \cup {c}
      /\ \A d \in InUse(chunk) : chunk'[d].size = chunk[d].size
      /\ s \in n .. n + Hdr
      /\ c + Hdr + s <= c + Hdr + chunk[c].size
  BY <1>0, <1>1, <1>2, CarveBlocks
<1>4. c + Hdr + chunk[c].size <= End
  BY <1>1 DEF WellFormed, Disjoint
<1> HIDE DEF s
<1>5. p \in Start .. End /\ p + s <= End
  BY <1>0, <1>1, <1>3, <1>4
<1>6. Blocks' = Blocks \cup {b}
  <2>1. Blocks' = {[ptr |-> d + Hdr, size |-> chunk'[d].size] : d \in InUse(chunk')}
    BY DEF Blocks, InUse
  <2>2. c \notin InUse(chunk)
    BY <1>1 DEF InUse
  <2>3. b = [ptr |-> c + Hdr, size |-> chunk'[c].size]
    BY DEF s
  <2> HIDE DEF b
  <2> QED BY <2>1, <2>2, <2>3, <1>3 DEF Blocks
<1>7. ASSUME NEW d \in Blocks
      PROVE  A!Apart(b, d)
  <2>1. PICK e \in InUse(chunk) : d = [ptr |-> e + Hdr, size |-> chunk[e].size]
    BY DEF Blocks
  <2>2. e \in Heads /\ e # c
    BY <1>1 DEF InUse, Heads
  <2>3. \/ e < c /\ e + Hdr + chunk[e].size <= c
        \/ c < e /\ c + Hdr + chunk[c].size <= e
    BY <2>2, <1>0, <1>1 DEF WellFormed, Disjoint, Heads
  <2>4. d.ptr = e + Hdr /\ d.size = chunk[e].size /\ b.ptr = c + Hdr /\ b.size = s
    BY <2>1
  <2>5. c \in Nat /\ e \in Nat /\ chunk[c].size \in Nat /\ chunk[e].size \in Nat /\ s \in Nat
    BY <2>2, <1>0, <1>3
  <2> HIDE DEF b
  <2>6. \/ b.ptr + b.size <= d.ptr /\ b.ptr < d.ptr
        \/ d.ptr + d.size <= b.ptr /\ d.ptr < b.ptr
    BY <2>3, <2>4, <2>5, <1>0, <1>3
  <2> QED BY <2>6 DEF A!Apart
<1>8. /\ p \in Start .. End
      /\ s \in n .. n + Hdr
      /\ p + s <= End
      /\ \A d \in Blocks : A!Apart([ptr |-> p, size |-> s], d)
      /\ Blocks' = Blocks \cup {[ptr |-> p, size |-> s]}
  BY <1>3, <1>5, <1>6, <1>7
<1> HIDE DEF p
<1> QED BY <1>8 DEF A!Alloc

(* free is a Release of exactly the block it is given.                     *)
LEMMA FreeImplements ==
    ASSUME HeapInv, NEW c \in Heads, Free(c)
    PROVE  \E b \in Blocks : A!Release(b)
<1> DEFINE b == [ptr |-> c + Hdr, size |-> chunk[c].size]
<1>1. c \in InUse(chunk)
  BY DEF Free, InUse, Heads
<1>2. InUse(chunk') = InUse(chunk) \ {c} /\ \A d \in InUse(chunk') : chunk'[d].size = chunk[d].size
  BY MergedBothOK DEF Free, KeepsAllBut
<1>3. \A d \in InUse(chunk) : d \in Nat
  BY Addresses DEF HeapInv, InUse
<1>4. \A d \in InUse(chunk) :
        d # c => [ptr |-> d + Hdr, size |-> chunk[d].size].ptr # b.ptr
  BY <1>1, <1>3, HeapAssumption
<1>5. Blocks' = {[ptr |-> d + Hdr, size |-> chunk'[d].size] : d \in InUse(chunk')}
  BY DEF Blocks, InUse
<1>6. Blocks' = {[ptr |-> d + Hdr, size |-> chunk[d].size] : d \in InUse(chunk) \ {c}}
  BY <1>2, <1>5
<1>7. b \in Blocks
  BY <1>1 DEF Blocks
<1>8. Blocks' = Blocks \ {b}
  BY <1>1, <1>4, <1>6 DEF Blocks
<1> QED BY <1>7, <1>8 DEF A!Release

(* Every step of the heap is a step of the abstract allocator or leaves    *)
(* the blocks in use alone: malloc never hands out a byte that is in use,  *)
(* and neither malloc nor free moves, shrinks or frees another block.      *)
THEOREM Implementation == Spec => ImplementsAllocator
<1>1. Init => A!Init
  <2> SUFFICES ASSUME Init PROVE InUse(chunk) = {}
    BY DEF A!Init, Blocks
  <2>1. \A c \in DOMAIN chunk : ~chunk[c].allocated
    BY DEF Init
  <2> QED BY <2>1 DEF InUse
<1>2. HeapInv /\ [Next]_chunk => [A!Next]_Blocks
  <2> SUFFICES ASSUME HeapInv, [Next]_chunk
               PROVE  A!Next \/ UNCHANGED Blocks
    OBVIOUS
  <2>1. ASSUME NEW n \in Requests, NEW c \in Heads, Malloc(n, c)
        PROVE  A!Next
    BY <2>1, MallocImplements DEF A!Next
  <2>2. ASSUME NEW n \in Requests, MallocFails(n)
        PROVE  UNCHANGED Blocks
    BY <2>2 DEF MallocFails, Blocks, InUse
  <2>3. ASSUME NEW c \in Heads, Free(c)
        PROVE  A!Next
    BY <2>3, FreeImplements DEF A!Next
  <2>4. CASE UNCHANGED chunk
    BY <2>4 DEF Blocks, InUse
  <2> QED BY <2>1, <2>2, <2>3, <2>4 DEF Next
<1> QED BY <1>1, <1>2, HeapInvariant, PTL DEF Spec, ImplementsAllocator, A!Spec
=============================================================================
