------------------------------ MODULE Allocator ------------------------------
(***************************************************************************)
(* What the callers of malloc and free rely on, with no heap in sight: the *)
(* set `live' of blocks that are in use.  A block is private to its owner  *)
(* until the owner releases it, and the memory manager never moves it,     *)
(* shrinks it or takes it back on its own.                                 *)
(***************************************************************************)
EXTENDS Naturals

CONSTANTS
    Lo, Hi,     \* the memory blocks come from: addresses Lo .. Hi-1
    Slack,      \* a block may be this much longer than what was asked for
    Requests    \* the sizes blocks are asked for

VARIABLE live

(* Two blocks share no byte and no address.  (An empty block has an        *)
(* address of its own too.)                                                *)
Apart(b, d) ==
    \/ b.ptr + b.size <= d.ptr /\ b.ptr < d.ptr
    \/ d.ptr + d.size <= b.ptr /\ d.ptr < b.ptr

Init == live = {}

Alloc(n) ==
    \E p \in Lo .. Hi, s \in n .. n + Slack :
        LET b == [ptr |-> p, size |-> s] IN
        /\ p + s <= Hi
        /\ \A d \in live : Apart(b, d)
        /\ live' = live \cup {b}

Release(b) == live' = live \ {b}

Next ==
    \/ \E n \in Requests : Alloc(n)
    \/ \E b \in live : Release(b)

Spec == Init /\ [][Next]_live
=============================================================================
