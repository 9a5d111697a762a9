-------------------------------- MODULE Heap --------------------------------
(***************************************************************************)
(* The kernel heap: class MemoryManager of src/src/memorymanagement.cpp.   *)
(*                                                                         *)
(* The heap is the byte range Start .. End-1.  It is tiled by chunks, each *)
(* a header (struct MemoryChunk, Hdr bytes) followed by its payload; the   *)
(* headers form a doubly linked list that starts at `first'.  The state is *)
(* the function `chunk' from the address of every header that is on the    *)
(* list to the fields of that header.                                      *)
(*                                                                         *)
(* malloc and free run to completion here.  HeapIrq.tla is about what      *)
(* happens when an interrupt handler calls malloc in between.              *)
(***************************************************************************)
EXTENDS Naturals, FiniteSets

CONSTANTS
    Start,      \* address of the first header, > 0 (10 MB in kernelMain)
    Size,       \* bytes handed to the constructor
    Hdr,        \* sizeof(MemoryChunk), 16 on the 32-bit target
    Requests    \* the sizes malloc is called with

ASSUME HeapAssumption ==
    /\ Start \in Nat \ {0}
    /\ Size \in Nat
    /\ Hdr \in Nat \ {0}
    /\ Requests \subseteq Nat

VARIABLE chunk

Null == 0
End  == Start + Size          \* no wrap: Start + Size < 2^32 on a sane memory map
Heads == DOMAIN chunk

Chunk == [next : Nat, prev : Nat, allocated : BOOLEAN, size : Nat]

----------------------------------------------------------------------------
(* The constructor: one free chunk, or an empty list when not even a       *)
(* header fits.                                                            *)
Init ==
    chunk = [c \in IF Size < Hdr THEN {} ELSE {Start} |->
                [next |-> Null, prev |-> Null, allocated |-> FALSE, size |-> Size - Hdr]]

(* Two wrong search tests, for the mutation runs: one that forgets to look *)
(* at `allocated', one that insists on room for a second header.           *)
FitsInUse(c, n) == chunk[c].size > n
FitsWithHeader(c, n) == chunk[c].size > n + Hdr /\ ~chunk[c].allocated

(* The test of malloc's search loop; the comparison is strict.             *)
Fits(c, n) == chunk[c].size > n /\ ~chunk[c].allocated

(* The chunk the search loop stops at.  It follows `next' from `first';    *)
(* the list is in address order (invariant Linked), so that is the fitting *)
(* chunk of lowest address (invariant SearchFinds).                        *)
IsFirstFit(c, n) ==
    /\ Fits(c, n)
    /\ \A d \in Heads : d < c => ~Fits(d, n)

(* malloc's loop as the code writes it: from `first' along `next' until a  *)
(* chunk fits or the list ends.                                            *)
Search(n) ==
    LET from[c \in Heads \cup {Null}] ==
            IF c = Null THEN Null
            ELSE IF Fits(c, n) THEN c
            ELSE from[chunk[c].next]
    IN  from[IF Heads = {} THEN Null ELSE Start]

(* A wrong split for the mutation runs: line 55 forgotten, so that the rest *)
(* of the list is cut off.                                                 *)
CarveCutsList(f, c, n) ==
    IF f[c].size >= n + Hdr + 1
    THEN LET temp == c + Hdr + n IN
         [d \in DOMAIN f \cup {temp} |->
            IF d = c
            THEN [f[c] EXCEPT !.allocated = TRUE, !.size = n, !.next = temp]
            ELSE IF d = temp
            THEN [next |-> Null, prev |-> c, allocated |-> FALSE,
                  size |-> f[c].size - n - Hdr]
            ELSE f[d]]
    ELSE [f EXCEPT ![c].allocated = TRUE]

(* The chunk c of heap f given to a caller who asked for n bytes: what is  *)
(* left over becomes a free chunk of its own if it can hold a header and   *)
(* at least one byte, otherwise the caller gets all of c.                  *)
Carve(f, c, n) ==
    IF f[c].size >= n + Hdr + 1
    THEN LET temp == c + Hdr + n IN
         [d \in DOMAIN f \cup {temp} |->
            IF d = c
            THEN [f[c] EXCEPT !.allocated = TRUE, !.size = n, !.next = temp]
            ELSE IF d = temp
            THEN [next |-> f[c].next, prev |-> c, allocated |-> FALSE,
                  size |-> f[c].size - n - Hdr]
            ELSE IF d = f[c].next
            THEN [f[d] EXCEPT !.prev = temp]
            ELSE f[d]]
    ELSE [f EXCEPT ![c].allocated = TRUE]

(* A wrong merge for the mutation runs: lines 87-88 forgotten.             *)
AbsorbOneWay(f, a, b) ==
    [d \in DOMAIN f \ {b} |->
        IF d = a
        THEN [f[a] EXCEPT !.next = f[b].next, !.size = f[a].size + f[b].size + Hdr]
        ELSE f[d]]

(* Chunk a of heap f swallows its successor b, header included.            *)
Absorb(f, a, b) ==
    [d \in DOMAIN f \ {b} |->
        IF d = a
        THEN [f[a] EXCEPT !.next = f[b].next, !.size = f[a].size + f[b].size + Hdr]
        ELSE IF d = f[b].next
        THEN [f[d] EXCEPT !.prev = a]
        ELSE f[d]]

(* Is a (possibly null) neighbour free?                                    *)
FreeAt(f, c) == c # Null /\ ~f[c].allocated

----------------------------------------------------------------------------
(* malloc(n) that succeeds with the payload of c.                          *)
Malloc(n, c) ==
    /\ IsFirstFit(c, n)
    /\ chunk' = Carve(chunk, c, n)

(* malloc(n) that returns 0: nothing changes.                              *)
MallocFails(n) ==
    /\ \A c \in Heads : ~Fits(c, n)
    /\ UNCHANGED chunk

(* The two halves of free, each on the heap the previous statement left.   *)
Released(c) == [chunk EXCEPT ![c].allocated = FALSE]

MergedBack(c) ==
    IF FreeAt(Released(c), chunk[c].prev)
    THEN Absorb(Released(c), chunk[c].prev, c)
    ELSE Released(c)

(* The chunk that holds c's bytes after the backward merge.                *)
Holder(c) == IF FreeAt(Released(c), chunk[c].prev) THEN chunk[c].prev ELSE c

(* A free without its second merge, for the mutation runs.                 *)
MergedBackOnly(c) == MergedBack(c)

MergedBoth(c) ==
    LET f == MergedBack(c)
        h == Holder(c)
    IN  IF FreeAt(f, f[h].next) THEN Absorb(f, h, f[h].next) ELSE f

(* free of a block malloc returned and nobody freed since.  (free of 0 or  *)
(* of a stale pointer is outside the contract: the code tests neither.)    *)
Free(c) ==
    /\ chunk[c].allocated
    /\ chunk' = MergedBoth(c)

Next ==
    \/ \E n \in Requests, c \in Heads : Malloc(n, c)
    \/ \E n \in Requests : MallocFails(n)
    \/ \E c \in Heads : Free(c)

Spec == Init /\ [][Next]_chunk

----------------------------------------------------------------------------
(* A well-formed heap f: typed, tiled, linked both ways.                   *)
Typed(f) ==
    /\ DOMAIN f \subseteq Start .. End
    /\ f \in [DOMAIN f -> Chunk]

(* A header's `next' is the byte behind its payload, and the last payload  *)
(* ends where the heap ends: the list covers the heap without a gap.       *)
Linked(f) ==
    \A c \in DOMAIN f :
        IF f[c].next = Null
        THEN c + Hdr + f[c].size = End
        ELSE f[c].next \in DOMAIN f /\ f[c].next = c + Hdr + f[c].size

(* `prev' is the inverse of `next', and null exactly at `first'.           *)
BackLinked(f) ==
    \A c \in DOMAIN f :
        /\ f[c].next # Null => f[f[c].next].prev = c
        /\ IF f[c].prev = Null
           THEN c = Start
           ELSE f[c].prev \in DOMAIN f /\ f[f[c].prev].next = c

(* No chunk reaches into another one or past the end of the heap.          *)
Disjoint(f) ==
    \A c \in DOMAIN f :
        /\ c + Hdr + f[c].size <= End
        /\ \A d \in DOMAIN f : c < d => c + Hdr + f[c].size <= d

(* The list is empty only if the heap was too small from the start.        *)
HasFirst(f) == Size >= Hdr => Start \in DOMAIN f

WellFormed(f) ==
    Typed(f) /\ Linked(f) /\ BackLinked(f) /\ Disjoint(f) /\ HasFirst(f)

(* No two neighbours are free: fragmentation never outlives the blocks     *)
(* that caused it, which is what the two merges of free are for.           *)
Coalesced(f) ==
    \A c \in DOMAIN f :
        ~f[c].allocated /\ f[c].next # Null => f[f[c].next].allocated

(* The list is well formed and coalesced after every malloc and free: the  *)
(* type invariant, and the inductive invariant of HeapProofs.tla.          *)
HeapInv == WellFormed(chunk) /\ Coalesced(chunk)

(* Whatever was allocated and in whatever order it was freed: once every   *)
(* block is back, the heap is the single chunk the constructor made, so    *)
(* that malloc and free leak no memory of their own.                       *)
HeapRestored ==
    (Heads # {} /\ \A c \in Heads : ~chunk[c].allocated)
        => /\ Heads = {Start}
           /\ chunk[Start].size = Size - Hdr

(* malloc fails for lack of room only: when it returns 0 for n, no run of  *)
(* bytes outside the blocks in use and their headers would have held a     *)
(* header, n bytes and the one byte more the strict comparison asks for.   *)
FailureJustified ==
    \A n \in Requests :
        (\A c \in Heads : ~Fits(c, n)) =>
            ~ \E lo \in Start .. End :
                /\ lo + Hdr + n + 1 <= End
                /\ \A c \in Heads : chunk[c].allocated =>
                      \/ c + Hdr + chunk[c].size <= lo
                      \/ lo + Hdr + n + 1 <= c

(* The loop finds a fitting chunk whenever there is one, and it is the one *)
(* IsFirstFit names: no free and no malloc ever drops a chunk from the     *)
(* list or puts the list out of address order.                             *)
SearchFinds ==
    \A n \in Requests :
        IF \E c \in Heads : Fits(c, n)
        THEN \E c \in Heads : IsFirstFit(c, n) /\ Search(n) = c
        ELSE Search(n) = Null

----------------------------------------------------------------------------
(* What the heap implements.                                               *)
InUse(f) == {c \in DOMAIN f : f[c].allocated}
Blocks == {[ptr |-> c + Hdr, size |-> chunk[c].size] : c \in InUse(chunk)}

A == INSTANCE Allocator WITH live <- Blocks, Lo <- Start, Hi <- End, Slack <- Hdr

(* malloc hands out memory nobody else holds and free takes back exactly   *)
(* the block it is given, leaving every other block as it was.             *)
ImplementsAllocator == A!Spec
=============================================================================
