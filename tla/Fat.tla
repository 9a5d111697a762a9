-------------------------------- MODULE Fat --------------------------------
(***************************************************************************)
(* A file looked up by name and read from a FAT32 volume: ReadPartitions   *)
(* (src/src/vfs/msdospart.cpp), Initialize and GetFile (fat.cpp).  A call  *)
(* of Read28 is one step and right (see Ata.tla).  Names are arrays of     *)
(* characters of which only the kind matters: "n" of the name, "x" of the  *)
(* extension, ".", " ", or the terminator "0".  GetFile puts them together *)
(* where an uninitialised pointer leads (fat.cpp:183): what it had before  *)
(* is there still, if that is memory of nobody's; if not, nothing is said  *)
(* of what follows.                                                        *)
(***************************************************************************)
EXTENDS Integers, Sequences, FiniteSetsExt

CONSTANTS
    SectorSize,         \* 512
    sectorsPerCluster,
    Entries,            \* 16, as many as GetFile looks at
    Types,              \* what the partition table can list: sequences
    Directories         \* root directories: sequences of entries, each
                        \* hidden (a part of a long name), name, size, chain

Name == [n : 1 .. 8, e : 0 .. 3]
ClusterSize == SectorSize * sectorsPerCluster

(* What the constants must satisfy.  The volume is sound: a file has as    *)
(* many clusters as its size takes, and none of them twice.                *)
Sound(file) ==
    /\ file.size <= ClusterSize * Len(file.chain)
    /\ ClusterSize * (Len(file.chain) - 1) < file.size
    /\ \A j, k \in DOMAIN file.chain : file.chain[j] = file.chain[k] => j = k

FileType == [hidden : BOOLEAN, name : Name, size : Nat, chain : Seq(Nat)]

ConstantsOK ==
    /\ SectorSize \in Nat \ {0} /\ sectorsPerCluster \in Nat \ {0} /\ Entries \in Nat
    /\ Types \subseteq Seq(STRING) /\ Directories \subseteq Seq(FileType)
    /\ \A directory \in Directories : \A k \in DOMAIN directory : Sound(directory[k])

VARIABLES
    mbr,            \* valid: the magic number is right; types
    volume,         \* the partition in use, 0, or -1 for an unset pointer
    dirent,         \* the entries before the end mark
    wanted,         \* the name GetFile is asked for
    junk,           \* the character that was in a place not written
    entry,          \* i, the entry GetFile looks at
    SIZE, cluster, sectorOffset, bytesRead,
    copied,         \* history: what was copied: at which offset, the sector
    visited,        \* history: the clusters read
    state           \* where ReadPartitions and GetFile are

vars == <<mbr, volume, dirent, wanted, junk, entry, SIZE, cluster, sectorOffset,
          bytesRead, copied, visited, state>>

Junk == {"0", " ", "x"}

----------------------------------------------------------------------------
(* convertFromFATFormat: an extension of one or two characters is followed *)
(* by a character that nothing writes.                                     *)
convertFromFATFormat(name, j) ==
    [k \in 0 .. 12 |->
        IF k = 12 THEN "0"
        ELSE IF k < name.n THEN "n"
        ELSE IF name.e = 0 THEN " "
        ELSE IF k = name.n THEN "."
        ELSE IF k <= name.n + name.e THEN "x"
        ELSE IF k = name.n + name.e + 1 /\ name.e < 3 THEN j
        ELSE " "]

(* trimName(str, 11) ends the string at its last blanks, but looks only at *)
(* the first eleven of up to twelve characters.                            *)
trimName(str) ==
    LET text == {k \in 0 .. 10 : str[k] \notin {" ", "0"}}
    IN  [k \in 0 .. 12 |->
            IF k <= 10 /\ str[k] = " " /\ \A m \in text : m < k THEN "0" ELSE str[k]]

(* What strcmp2 sees of a string.                                          *)
Text(str) ==
    LET length == Min({k \in 0 .. 12 : str[k] = "0"})
    IN  [k \in 1 .. length |-> str[k - 1]]

(* The name as it is written: ABC, ABC.X, ABCDEFGH.XYZ.                    *)
Written(name) ==
    [k \in 1 .. name.n |-> "n"]
    \o (IF name.e = 0 THEN <<>> ELSE <<".">> \o [k \in 1 .. name.e |-> "x"])

Matches(e, j) == Text(trimName(convertFromFATFormat(e.name, j))) = Written(wanted)

----------------------------------------------------------------------------
(* The parameter block of a volume that starts at sector 100 * v, and what *)
(* Initialize makes of it.                                                 *)
bpb == [reservedSectors |-> 1, tableSize |-> 2, fatCopies |-> 2]
dataStart == 100 * volume + bpb.reservedSectors + bpb.tableSize * bpb.fatCopies
fileSector == dataStart + sectorsPerCluster * (cluster - 2)

Init ==
    /\ mbr \in [valid : BOOLEAN, types : Types]
    /\ dirent \in Directories
    /\ wanted \in {dirent[k].name : k \in DOMAIN dirent} \cup {[n |-> 8, e |-> 3]}
    /\ volume = -1 /\ junk = "0" /\ entry = 1
    /\ SIZE = 0 /\ cluster = 0 /\ sectorOffset = 0 /\ bytesRead = 0
    /\ copied = <<>> /\ visited = <<>> /\ state = "mbr"

(* The first partition of a type it knows; 0 for an illegal table; and if  *)
(* there is no such partition the function returns nothing at all.         *)
Known == {k \in DOMAIN mbr.types : mbr.types[k] \in {"Linux", "W95 FAT32"}}

ReadPartitions ==
    /\ state = "mbr"
    /\ volume' = IF ~mbr.valid THEN 0 ELSE IF Known = {} THEN -1 ELSE Min(Known)
    /\ state' = IF volume' > 0 THEN "look" ELSE "done"
    /\ UNCHANGED <<mbr, dirent, wanted, junk, entry, SIZE, cluster, sectorOffset,
                   bytesRead, copied, visited>>

(* A wrong limit for the mutation runs: none.                              *)
SeenAll == DOMAIN dirent

(* The entries of the directory's first sector, up to the end mark.        *)
Seen == {k \in DOMAIN dirent : k <= Entries}

(* GetFile, at one entry of the directory.                                 *)
Look(j) ==
    /\ state = "look" /\ junk' = j
    /\ IF entry \notin Seen
       THEN state' = "done" /\ UNCHANGED <<entry, SIZE, cluster>>
       ELSE IF dirent[entry].hidden \/ ~Matches(dirent[entry], j)
       THEN entry' = entry + 1 /\ UNCHANGED <<state, SIZE, cluster>>
       ELSE /\ SIZE' = dirent[entry].size
            /\ cluster' = IF dirent[entry].size > 0 THEN dirent[entry].chain[1] ELSE 0
            /\ state' = IF dirent[entry].size > 0 THEN "read" ELSE "done"
            /\ UNCHANGED entry
    /\ UNCHANGED <<mbr, volume, dirent, wanted, sectorOffset, bytesRead, copied, visited>>

(* The name is put together where other data are, or no memory.            *)
Stray ==
    /\ state = "look" /\ entry \in Seen /\ ~dirent[entry].hidden
    /\ state' = "astray"
    /\ UNCHANGED <<mbr, volume, dirent, wanted, junk, entry, SIZE, cluster, sectorOffset,
                   bytesRead, copied, visited>>

(* A wrong test for the mutation runs: the limit that was meant.           *)
LastOfClusterMeant == sectorOffset + 1 >= sectorsPerCluster

(* The test after a sector that ends the loop over a cluster.              *)
LastOfCluster == sectorOffset + 1 > sectorsPerCluster

(* One sector: all of it is copied, and then the loop ends at a cluster's  *)
(* end before it counts the sector, or goes on and counts it.              *)
ReadSector ==
    /\ state = "read"
    /\ copied' = Append(copied, [at |-> bytesRead, sector |-> fileSector + sectorOffset])
    /\ bytesRead' = bytesRead + Min({SIZE, SectorSize})
    /\ sectorOffset' = sectorOffset + 1
    /\ SIZE' = IF LastOfCluster THEN SIZE ELSE SIZE - SectorSize
    /\ state' = IF LastOfCluster \/ SIZE' <= 0 THEN "follow" ELSE "read"
    /\ UNCHANGED <<mbr, volume, dirent, wanted, junk, entry, cluster, visited>>

(* The next cluster as the table has it; 0 stands for the end of a chain.  *)
FatEntry(c) ==
    LET chain == dirent[entry].chain
        next == {k \in 2 .. Len(chain) : chain[k - 1] = c}
    IN  IF next = {} THEN 0 ELSE chain[Min(next)]

FollowChain ==
    /\ state = "follow"
    /\ visited' = Append(visited, cluster)
    /\ cluster' = FatEntry(cluster)
    /\ sectorOffset' = 0
    /\ state' = IF SIZE > 0 THEN "read" ELSE "done"
    /\ UNCHANGED <<mbr, volume, dirent, wanted, junk, entry, SIZE, bytesRead, copied>>

Returned == state \in {"done", "astray"} /\ UNCHANGED vars

Next ==
    \/ ReadPartitions \/ Stray \/ ReadSector \/ FollowChain \/ Returned
    \/ \E j \in Junk : Look(j)

Spec == Init /\ [][Next]_vars

----------------------------------------------------------------------------
TypeOK ==
    /\ volume \in -1 .. Len(mbr.types) /\ entry \in 1 .. Len(dirent) + 1
    /\ junk \in Junk /\ bytesRead \in Nat /\ sectorOffset \in Nat /\ SIZE \in Int
    /\ state \in {"mbr", "look", "astray", "read", "follow", "done"}

InFile == state \in {"read", "follow"} \/ copied # <<>>
File == dirent[entry]

(* A file among the first Entries is found under its name (unless GetFile  *)
(* has gone astray), and no other file is, unless the name has an          *)
(* extension.  With three characters of extension after seven, the one     *)
(* blank that trimName does not look at is the twelfth character, and the  *)
(* name never matches; with one or two, the byte that was never written    *)
(* decides.                                                                *)
Sure(name) == name.e = 0 \/ (name.e = 3 /\ name.n # 7)
Never(name) == name.e = 3 /\ name.n = 7

RightFile ==
    /\ state = "done" /\ volume > 0 /\ entry \notin Seen =>
          \A k \in DOMAIN dirent :
              k <= Entries /\ dirent[k].name = wanted /\ ~dirent[k].hidden => ~Sure(wanted)
    /\ InFile =>
          /\ entry <= Entries /\ ~Never(wanted)
          /\ File.name = wanted \/ (File.name.e \in {1, 2} /\ junk = "x")

(* The byte of the disk that is found at offset b of the buffer: from the  *)
(* last copy over it.                                                      *)
Over(b) == {k \in DOMAIN copied : b - copied[k].at \in 0 .. SectorSize - 1}
Byte(b) == LET k == Max(Over(b)) IN <<copied[k].sector, b - copied[k].at>>

(* The byte at offset b of the file.                                       *)
FileByte(b) ==
    LET c == File.chain[(b \div ClusterSize) + 1]
        s == (b % ClusterSize) \div SectorSize
    IN  <<dataStart + sectorsPerCluster * (c - 2) + s, b % SectorSize>>

(* The chain is followed to its end and not beyond.  But after every       *)
(* cluster of it but the last one sector too many is read: the first       *)
(* cluster of a file is right, the rest moved up, unless the second lies   *)
(* next to it and holds no more than a sector of the file.                 *)
FirstClusterRight ==
    state = "done" /\ InFile =>
        /\ visited = File.chain
        /\ \A b \in 0 .. Min({File.size, ClusterSize}) - 1 : Over(b) # {} /\ Byte(b) = FileByte(b)
        /\ (\A b \in 0 .. File.size - 1 : Byte(b) = FileByte(b)) <=>
              \/ File.size <= ClusterSize
              \/ File.size <= ClusterSize + SectorSize /\ File.chain[2] = File.chain[1] + 1

(* What the caller's buffer must hold: the file to the end of its last     *)
(* sector, and a sector for each cluster but the last.                     *)
NoFurther ==
    InFile => \A k \in DOMAIN copied :
        copied[k].at + SectorSize <=
            SectorSize * ((File.size + SectorSize - 1) \div SectorSize + Len(File.chain) - 1)

FatInv == TypeOK /\ RightFile /\ FirstClusterRight /\ NoFurther
=============================================================================
