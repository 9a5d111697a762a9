------------------------------ MODULE Devices ------------------------------
(***************************************************************************)
(* The parts of the system that run by themselves: drivers, boot and       *)
(* shutdown, segments and vectors, the disk, the screen and the routines   *)
(* under all of them.  A behaviour is one of one part, which its first     *)
(* state chooses; the parts share no state, and v1, v2, ... are the        *)
(* variables of the chosen part in the order of its module, those that it  *)
(* does not need being 0.                                                  *)
(***************************************************************************)
EXTENDS Integers, Sequences

CONSTANTS                   \* each in the order of its module, of
    MouseBits, AckBits,                                 \* Mouse
    RxBufSize, RxLengths, TxSlots,                      \* Rtl8139
    Descriptors, Step, Alignment, FrameLengths,         \* AmdBuffers
    Callers, Durations, TickWidth,                      \* Timer
    Modulus,                                            \* Rtc
    PciDevices, Functions, Cards,                       \* Boot
    Roots, Tables, Polls,                               \* Acpi
    Limits, Bases,                                      \* Gdt
    VectorsTaken,                                       \* Vectors
    bytesPerSector, Sectors, Counts, MaxCalls,          \* Ata
    SectorSize, sectorsPerCluster, Entries, PartitionTypes, Directories,    \* Fat
    ScreenWidth, ScreenHeight, Glyphs, MaxLine,         \* Screen
    CanvasSize, Endless,                                \* Drawing
    PictureWidth, PictureHeight, Spares, Sides,         \* Pictures
    BlockBytes, Cells, CopyLengths, ShownNumbers, Longs    \* Bytes

VARIABLES part, v1, v2, v3, v4, v5, v6, v7, v8, v9, v10, v11, v12, v13

----------------------------------------------------------------------------
Mouse == INSTANCE Mouse WITH
    Bits <- MouseBits, AckBits <- AckBits, offset <- v1, buffer <- v2,
    buttons <- v3, port <- v4, packet <- v5, phase <- v6, ackLate <- v7,
    down <- v8, pressed <- v9

Rtl8139 == INSTANCE Rtl8139 WITH
    RxBufSize <- RxBufSize, Lengths <- RxLengths, Slots <- TxSlots,
    currentPacketPtr <- v1, cardPtr <- v2, unread <- v3, isr <- v4,
    at <- v5, status <- v6, lag <- v7, missed <- v8, txCur <- v9,
    cardTx <- v10, given <- v11, txOrder <- v12

AmdBuffers == INSTANCE AmdBuffers WITH
    N <- Descriptors, Step <- Step, Alignment <- Alignment,
    Lengths <- FrameLengths, array <- v1, next <- v2, waiting <- v3, memory <- v4

Timer == INSTANCE Timer WITH
    Callers <- Callers, Durations <- Durations, Width <- TickWidth,
    timerTicks <- v1, speaker <- v2, beep <- v3

Rtc == INSTANCE Rtc WITH
    Modulus <- Modulus, clock <- v1, rtcPhase <- v2, reading <- v3,
    turned <- v4

Boot == INSTANCE Boot WITH
    Devices <- PciDevices, Functions <- Functions, Cards <- Cards,
    pci <- v1, bootStep <- v2, toScan <- v3, drivers <- v4, handlers <- v5,
    baseAddress <- v6, activated <- v7, raised <- v8, unhandled <- v9

Acpi == INSTANCE Acpi WITH
    Roots <- Roots, Tables <- Tables, Polls <- Polls,
    roots <- v1, rsdt <- v2, machine <- v3, enabled <- v4, step <- v5,
    i <- v6, slept <- v7, result <- v8, written <- v9

Gdt == INSTANCE Gdt WITH
    Limits <- Limits, Bases <- Bases, limit <- v1, base <- v2, target <- v3

Vectors == INSTANCE Vectors WITH
    Vectors <- VectorsTaken, vector <- v1, stack <- v2, cpuRegs <- v3,
    resumed <- v4, number <- v5, stage <- v6

Ata == INSTANCE Ata WITH
    bytesPerSector <- bytesPerSector, Sectors <- Sectors, Counts <- Counts,
    MaxCalls <- MaxCalls, medium <- v1, drive <- v2, failed <- v3, call <- v4,
    phase <- v5, pos <- v6, data <- v7, calls <- v8, expected <- v9,
    slips <- v10, attached <- v11

Fat == INSTANCE Fat WITH
    SectorSize <- SectorSize, sectorsPerCluster <- sectorsPerCluster, Entries <- Entries,
    Types <- PartitionTypes, Directories <- Directories, mbr <- v1, volume <- v2, dirent <- v3,
    wanted <- v4, junk <- v5, entry <- v6, SIZE <- v7, cluster <- v8,
    sectorOffset <- v9, bytesRead <- v10, copied <- v11, visited <- v12,
    state <- v13

Screen == INSTANCE Screen WITH
    Width <- ScreenWidth, Height <- ScreenHeight, Glyphs <- Glyphs, MaxLine <- MaxLine,
    XOffset <- v1, YOffset <- v2, ink <- v3, line <- v4, turn <- v5, at <- v6,
    glyph <- v7, seen <- v8, inside <- v9, residue <- v10, painted <- v11, torn <- v12

Drawing == INSTANCE Drawing WITH
    Size <- CanvasSize, Endless <- Endless, shape <- v1, pixels <- v2

Pictures == INSTANCE Pictures WITH
    Width <- PictureWidth, Height <- PictureHeight, Spares <- Spares,
    Sides <- Sides, work <- v1, result <- v2

Bytes == INSTANCE Bytes WITH
    B <- BlockBytes, Cells <- Cells, Lengths <- CopyLengths, Numbers <- ShownNumbers,
    Longs <- Longs, work <- v1, result <- v2

ASSUME ConstantsAssumption ==
    /\ Mouse!ConstantsOK
    /\ Rtl8139!ConstantsOK
    /\ AmdBuffers!ConstantsOK
    /\ Timer!ConstantsOK
    /\ Rtc!ConstantsOK
    /\ Boot!ConstantsOK
    /\ Acpi!ConstantsOK
    /\ Gdt!ConstantsOK
    /\ Ata!ConstantsOK
    /\ Fat!ConstantsOK
    /\ Screen!ConstantsOK
    /\ Pictures!ConstantsOK
    /\ Bytes!ConstantsOK

----------------------------------------------------------------------------
(* The variables from the n-th on, and that they are not needed.           *)
rest12 == <<v13>>
rest11 == <<v12, rest12>>
rest9 == <<v10, v11, rest11>>
rest6 == <<v7, v8, v9, rest9>>
rest4 == <<v5, v6, rest6>>
rest3 == <<v4, rest4>>
rest2 == <<v3, rest3>>

Unused12 == v13 = 0
Unused11 == v12 = 0 /\ Unused12
Unused9 == v10 = 0 /\ v11 = 0 /\ Unused11
Unused6 == v7 = 0 /\ v8 = 0 /\ v9 = 0 /\ Unused9
Unused4 == v5 = 0 /\ v6 = 0 /\ Unused6
Unused3 == v4 = 0 /\ Unused4
Unused2 == v3 = 0 /\ Unused3

Init ==
    \/ part = "Mouse" /\ Mouse!Init /\ Unused9
    \/ part = "Rtl8139" /\ Rtl8139!Init /\ Unused12
    \/ part = "AmdBuffers" /\ AmdBuffers!Init /\ Unused4
    \/ part = "Timer" /\ Timer!Init /\ Unused3
    \/ part = "Rtc" /\ Rtc!Init /\ Unused4
    \/ part = "Boot" /\ Boot!Init /\ Unused9
    \/ part = "Acpi" /\ Acpi!Init /\ Unused9
    \/ part = "Gdt" /\ Gdt!Init /\ Unused3
    \/ part = "Vectors" /\ Vectors!Init /\ Unused6
    \/ part = "Ata" /\ Ata!Init /\ Unused11
    \/ part = "Fat" /\ Fat!Init
    \/ part = "Screen" /\ Screen!Init /\ Unused12
    \/ part = "Drawing" /\ Drawing!Init /\ Unused2
    \/ part = "Pictures" /\ Pictures!Init /\ Unused2
    \/ part = "Bytes" /\ Bytes!Init /\ Unused2

Next ==
    /\ UNCHANGED part
    /\ \/ part = "Mouse" /\ Mouse!Next /\ UNCHANGED rest9
       \/ part = "Rtl8139" /\ Rtl8139!Next /\ UNCHANGED rest12
       \/ part = "AmdBuffers" /\ AmdBuffers!Next /\ UNCHANGED rest4
       \/ part = "Timer" /\ Timer!Next /\ UNCHANGED rest3
       \/ part = "Rtc" /\ Rtc!Next /\ UNCHANGED rest4
       \/ part = "Boot" /\ Boot!Next /\ UNCHANGED rest9
       \/ part = "Acpi" /\ Acpi!Next /\ UNCHANGED rest9
       \/ part = "Gdt" /\ Gdt!Next /\ UNCHANGED rest3
       \/ part = "Vectors" /\ Vectors!Next /\ UNCHANGED rest6
       \/ part = "Ata" /\ Ata!Next /\ UNCHANGED rest11
       \/ part = "Fat" /\ Fat!Next
       \/ part = "Screen" /\ Screen!Next /\ UNCHANGED rest12
       \/ part = "Drawing" /\ Drawing!Next /\ UNCHANGED rest2
       \/ part = "Pictures" /\ Pictures!Next /\ UNCHANGED rest2
       \/ part = "Bytes" /\ Bytes!Next /\ UNCHANGED rest2

Spec == Init /\ [][Next]_<<part, v1, v2, rest2>>

----------------------------------------------------------------------------
(* The mouse driver keeps in step with the mouse's packets and tells its   *)
(* handler what the mouse reports, unless the answer to its command came   *)
(* after it had looked for it (mouse.cpp).                                 *)
MouseRight ==
    /\ part = "Mouse" => Mouse!MouseInv

(* The RTL8139's driver reads packets where the card has written them and  *)
(* forgets none that had an interrupt of its own; it sends through the     *)
(* card's registers in their turn (rtl8139.cpp).  The am79c973's driver    *)
(* keeps whole only the frame that came last (amd_am79c973.cpp).           *)
CardRight ==
    /\ part = "Rtl8139" => Rtl8139!RtlInv
    /\ part = "AmdBuffers" => AmdBuffers!BuffersInv

(* Sleep is as long as it was asked for and the speaker ends up silent     *)
(* (pit.cpp); the time that is shown is not ahead of the clock, unless one *)
(* of its registers was read too late, and each of the clock's formats is  *)
(* understood (rtc.cpp).                                                   *)
TimeRight ==
    /\ part = "Timer" => Timer!TimerInv
    /\ part = "Rtc" => Rtc!RtcInv

(* From boot to shutdown: every interrupt finds an activated driver, and   *)
(* each driver its own card (kernel.cpp, pci.cpp, driver.cpp); segments    *)
(* are what was asked for (gdt.cpp); the shutdown command goes to enabled  *)
(* registers and to no other port (acpi.cpp); each with the exceptions its *)
(* module states.                                                          *)
StartAndStop ==
    /\ part = "Boot" => Boot!BootInv
    /\ part = "Acpi" => Acpi!AcpiInv
    /\ part = "Gdt" => Gdt!SegmentRight

(* A hardware interrupt returns to the code it interrupted, or to a task   *)
(* (interrupts.cpp, interruptstubs.s).                                     *)
VectorsRight ==
    /\ part = "Vectors" => Vectors!VectorsInv

(* Sectors are moved whole and hold what was written (ata.cpp), and a file *)
(* is found and read as far as it lies in its first cluster                *)
(* (msdospart.cpp, fat.cpp).                                               *)
DiskRight ==
    /\ part = "Ata" => Ata!AtaInv
    /\ part = "Fat" => Fat!FatInv

(* What the system puts out: text has its place on the screen, and where   *)
(* it is still to come the screen is blank, with the exceptions that       *)
(* Screen.tla names (console.cpp, shell.cpp), shapes and pictures are      *)
(* drawn right (canvas.cpp, bmp.cpp), and so are bytes moved, summed and   *)
(* converted (memfunc.cpp, ipv4.cpp, convert.h).                           *)
OutputRight ==
    /\ part = "Screen" => Screen!ScreenInv
    /\ part = "Drawing" => Drawing!ShapeRight
    /\ part = "Pictures" => Pictures!PictureRight
    /\ part = "Bytes" => Bytes!BytesRight
=============================================================================
