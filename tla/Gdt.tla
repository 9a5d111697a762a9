-------------------------------- MODULE Gdt --------------------------------
(***************************************************************************)
(* Segment descriptors (src/src/gdt.cpp): a base and a limit of 32 bits    *)
(* are spread over the eight bytes target[0] to target[7], the limit in 20 *)
(* bits with pages for a unit when it is large, and read back from them.   *)
(***************************************************************************)
EXTENDS Integers

CONSTANTS Limits, Bases

(* Numbers of 32 bits.                                                     *)
Word == {v \in Nat : v \div 65536 < 65536}

(* What the constants must satisfy.                                        *)
ConstantsOK == Limits \subseteq Word /\ Bases \subseteq Word

VARIABLES
    limit, base,    \* as the constructor is given them
    target          \* the descriptor's bytes, all 0 before

vars == <<limit, base, target>>

Small(l) == l <= 65536

(* A wrong Pages for the mutation runs: a part of a page counts as one.    *)
PagesBegun(l) == l \div 4096

(* The last page is given up unless it is whole.                           *)
Pages(l) == IF l % 4096 # 4095 THEN (l \div 4096) - 1 ELSE l \div 4096

Stored(l) == IF Small(l) THEN l ELSE Pages(l)
Flags(l) == IF Small(l) THEN 64 ELSE 192        \* 0x40, 0xC0

Encode(b, l) ==
    LET s == Stored(l)
    IN  [k \in 0 .. 7 |->
            CASE k = 0 -> s % 256
              [] k = 1 -> (s \div 256) % 256
              [] k = 2 -> b % 256
              [] k = 3 -> (b \div 256) % 256
              [] k = 4 -> (b \div 65536) % 256
              [] k = 5 -> 154                   \* the type
              [] k = 6 -> Flags(l) + ((s \div 65536) % 16)
              [] k = 7 -> b \div 16777216]

Base(t) == ((t[7] * 256 + t[4]) * 256 + t[3]) * 256 + t[2]

Limit(t) ==
    LET result == ((t[6] % 16) * 256 + t[1]) * 256 + t[0]
    IN  IF t[6] \div 64 = 3 THEN result * 4096 + 4095 ELSE result

----------------------------------------------------------------------------
Init ==
    /\ limit \in Limits /\ base \in Bases
    /\ target = [k \in 0 .. 7 |-> 0]

SegmentDescriptor ==
    /\ target' = Encode(base, limit)
    /\ UNCHANGED <<limit, base>>

Next == SegmentDescriptor
Spec == Init /\ [][Next]_vars

----------------------------------------------------------------------------
(* A descriptor gives its base back, and a limit that never lies beyond    *)
(* the one asked for and wastes "up to 4095" bytes (gdt.cpp:54) before it. *)
SegmentRight ==
    \/ target = [k \in 0 .. 7 |-> 0]
    \/ /\ Base(target) = base
       /\ Limit(target) <= limit /\ limit - Limit(target) <= 4095

=============================================================================
