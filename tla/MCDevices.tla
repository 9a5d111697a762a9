----------------------------- MODULE MCDevices -----------------------------
(***************************************************************************)
(* A small instance of every part: the values of the larger constants.     *)
(***************************************************************************)
EXTENDS Devices

TwoCards ==
    {[kind |-> "amd", line |-> 11, io |-> TRUE],
     [kind |-> "rtl", line |-> 10, io |-> TRUE]}

RootKinds == {"nothing", "bad checksum", "address 0", "RSDT", "bad RSDT"}
TableKinds ==
    {"other", "FACP, bad checksum",
     "FACP", "FACP, DSDT invalid", "FACP, _S5_ not present", "FACP, _S5_ parse error"}
UpToTwoRoots == UNION {[1 .. n -> RootKinds] : n \in 0 .. 2}
UpToTwoTables == UNION {[1 .. n -> TableKinds] : n \in 0 .. 2}

(* Round 16 bits, the smallest numbers of pages, the middle, the largest.  *)
Edges ==
    {0, 255, 4095, 65535, 65536, 65537, 69631, 69632, 67108864, 2147483646, 2147483647}

PartitionTables ==
    {<<>>, <<"none", "other">>, <<"other", "Linux">>, <<"W95 FAT32", "Linux">>}

(* A first file that may be part of a long name, and one that takes all    *)
(* its clusters of four bytes, in any order.                               *)
Entry(n, e, size, chain, hidden) ==
    [name |-> [n |-> n, e |-> e], size |-> size, chain |-> chain, hidden |-> hidden]
Chains == {<<3>>, <<3, 4>>, <<4, 3>>, <<3, 5>>, <<3, 4, 5>>, <<5, 4, 7>>}
Sized ==
    {<<0, <<>>>>}
    \cup {sc \in (1 .. 12) \X Chains : sc[1] \in (Len(sc[2]) - 1) * 4 + 1 .. Len(sc[2]) * 4}
FirstNames == {<<2, 1>>, <<8, 3>>, <<7, 3>>}
SecondNames == {<<2, 0>>, <<8, 0>>, <<2, 2>>, <<8, 2>>, <<8, 3>>, <<7, 3>>, <<2, 1>>}
TwoFiles ==
    {<<Entry(x[1], x[2], 1, <<3>>, hidden), Entry(y[1], y[2], sc[1], sc[2], FALSE)>> :
        x \in FirstNames, y \in SecondNames, sc \in Sized, hidden \in BOOLEAN}

(* A third file, behind the entries that are looked at.                    *)
UpToThreeFiles ==
    TwoFiles \cup
    {<<Entry(2, 1, 1, <<3>>, hidden), Entry(8, 3, 1, <<4>>, FALSE),
       Entry(z[1], z[2], 1, <<5>>, FALSE)>> :
        z \in SecondNames, hidden \in BOOLEAN}

SpaceAndLetter ==
    {[width |-> 1, ink |-> FALSE], [width |-> 2, ink |-> TRUE]}

EdgeNumbers == (-20 .. 40) \cup {99, 100, 255, 256, 1000, 32767}

TimeModulus == <<3, 2, 2>>

AllVectors == 0 .. 255
=============================================================================
