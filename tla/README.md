# OSDev-Simple: a TLA+ model of the kernel

OSDev-Simple is a 32-bit hobby kernel in C++: a heap, interrupts, a round-robin
task switcher, drivers for keyboard, mouse, clock and two network cards, a small
TCP/IP stack, a FAT reader and a text console with a shell. This directory models
nearly all of it that keeps state: memory, interrupts and tasks, console input and
output, the network stack, the drivers, boot and shutdown, the disk, and the
algorithms under them. TLC checks small instances; TLAPS proves properties of the
heap, of interrupts and task switching, of line input, of the network layer, the UDP
and the TCP sockets, of both network cards, of the mouse, the clocks, boot, shutdown,
segments, interrupt stubs, the disk and the console's text, for every size.

Everything below is about the kernel as the makefile builds it: 32-bit, without
optimisation (no `-O`, so `while(!flag);` really rereads the flag and a statement
is compiled in source order).

## 1. Inventory

| Component | State | Operations | Meets |
|---|---|---|---|
| Memory manager (`memorymanagement.cpp`) | doubly linked list of chunks from `first` | constructor, `malloc`, `free`, `operator new/delete` | everybody: the shell, drivers in interrupt context, the network stack |
| Interrupt manager (`interrupts.cpp`, `interruptstubs.s`) | `ActiveInterruptManager`, `handlers[256]`, the IDT; the two 8259 controllers and the interrupt flag | `Activate`, `Deactivate`, `HandleInterrupt`, registration of handlers | calls every driver's `HandleInterrupt` and, on the timer, `Schedule` |
| Task manager (`multitasking.cpp`) | `tasks[256]`, `numTasks`, `currentTask`, one saved frame per task | `AddTask`, `Schedule` | called from the timer interrupt |
| Keyboard and console input (`keyboard.cpp`, `console.h`, `console.cpp`, `convert.h`) | one-key buffer and flag, the static string of `CharToStr`, the line being read | keyboard interrupt, `GetBuffer`, `ClearBuffer`, `ReadLine` | the interrupt writes what `ReadLine` spins on |
| Shell (`shell.cpp`) | none of its own | `Next` | console, heap, PIT, RTC, ACPI |
| Console output (`console.cpp`, `font.cpp`) | cursor | `Write`, scrolling | also called from interrupt handlers |
| TCP (`tcp.cpp`) | sockets with state, sequence numbers; `freePort` | `Connect`, `Listen`, `Send`, `Disconnect`, receive | IPv4; the receive side runs in the network interrupt |
| UDP (`udp.cpp`) | sockets, `listening` flag, `freePort` | same calls | IPv4 |
| ARP (`arp.cpp`) | cache of 128 entries | `Resolve` (spins), request, reply | Ethernet frames, IPv4 |
| IPv4, ICMP (`ipv4.cpp`, `icmp.cpp`) | handlers by protocol, gateway, mask | send with routing, receive, echo | ARP, TCP, UDP |
| Ethernet frames (`etherframe.cpp`) | handlers by EtherType | send, receive (answer in place) | network card |
| DHCP (`dhcp.cpp`) | - | send DISCOVER | UDP |
| AMD am79c973 (`amd_am79c973.cpp`) | 8 + 8 descriptors with an owner bit, ring positions | `Send`, `Receive`, interrupt | card, Ethernet frames |
| RTL8139 (`rtl8139.cpp`) | receive ring pointer, transmit slot | `Send`, `Receive`, interrupt | card, heap |
| PIT (`pit.cpp`) | 32-bit `ticks` | interrupt, `Sleep`, `Beep` | timer interrupt |
| RTC (`rtc.cpp`) | - | reads CMOS, a register at a time | the chip, which updates meanwhile; the shell |
| Mouse (`mouse.cpp`) | 3-byte packet, offset, buttons | interrupt | event handler |
| Driver manager, PCI (`driver.cpp`, `pci.cpp`) | `drivers[265]` | add, activate all, enumerate | heap, drivers |
| ACPI (`acpi.cpp`) | addresses found by `initAcpi` | enable, power off | PIT |
| GDT (`gdt.cpp`) | four descriptors | encode and decode base and limit | tasks |
| ATA (`ata.cpp`), FAT (`fat.cpp`, `msdospart.cpp`) | device position, BIOS parameter block | sector read/write, flush, list, read a file | each other |
| Graphics (`canvas.cpp`, `color.cpp`, `bmp.cpp`, `image.cpp`) | frame buffer | lines, rectangles, circles, fill | console |
| Boot (`kernel.cpp`) and byte routines (`memfunc.cpp`) | globals | `kernelMain`; copy, fill, convert | everybody |
| Ports, CPU identification, video BIOS | - | single instructions, prints | - |

The kernel has two kinds of concurrency. First, interrupts: a handler can run
between any two instructions of the code it interrupts, from `sti` on, and shares
the heap, the key buffer, the console and the network sockets with it; nothing
but the interrupt gate (handlers do not nest) excludes anything. Second, task
switching, which happens in the timer interrupt. `kernelMain` itself adds no
task: it runs the shell, interrupted by drivers. There is no persistence, hence
no crash recovery; delivery is unreliable only on the network.

What makes each part correct:

- **Heap**: the list tiles the heap and stays linked both ways; blocks in use are
  disjoint, stay put and keep their size; a `malloc` fails only for lack of room;
  when all is freed the heap is whole again.
- **Interrupts**: what is dispatched is acknowledged at the right controllers, so
  no line goes silent.
- **Tasks**: each resumes where it stopped, in its own context; turns are equal;
  every task runs again and again.
- **Console input**: keys act in order and (but for newline) once; the line is
  what was typed; a key pressed while the shell waits wakes it; short lines are
  terminated strings.
- **TCP**: handshake and close agree at both ends; the application sees a prefix
  of what was sent; a closed socket does not get in the way of a new one.
- **UDP, ARP, IPv4**: a datagram reaches the socket it is for; `Resolve` returns
  if an answer arrives, and never spins where none can.
- **Network cards**: descriptors are used by one side at a time, no frame is left
  lying in the ring, the ring pointer stays inside the ring.
- **PIT, RTC**: `Sleep` lasts at least what was asked for; the time shown is not
  ahead of the clock, in every format of the chip.
- **Boot, ACPI**: whatever interrupts has a handler whose driver is active; a driver
  talks to its own card; the shutdown command goes to enabled registers.
- **Stubs**: what was interrupted goes on as if nothing had happened.
- **Console output**: text appears on the screen, where the screen is blank, although
  interrupt handlers write there, too.
- **Mouse, ATA, FAT, GDT, graphics**: packets are framed, a sector is 256 words,
  a file's bytes are its clusters' bytes, a descriptor's limit never exceeds what
  was asked for, pixels lie inside the shape.

`PROJECT.json` lists every component with its status and every hazard at its
line, with the properties that cover it.

## 2. Modules

| Module | Models | Used by |
|---|---|---|
| `Allocator` | abstract: what callers of `malloc` and `free` rely on | implemented by `Heap` |
| `Heap` | `MemoryManager` | run `heap`, `HeapProofs`, `HeapIrq` |
| `HeapIrq` | `Heap` shared by the shell and the RTL8139 interrupt | run `heap_irq` |
| `Interrupts` | `InterruptManager` + `TaskManager` + the 8259s | `MCInterrupts` (runs), `InterruptsProofs` |
| `Vectors` | one interrupt from the vector to `iret`: gates, stubs, stack | `Devices` |
| `ConsoleInput` | keyboard interrupt + `ReadLine` + `Shell::Next` | run `console_input`, `ConsoleProofs` |
| `Screen` | the console on the screen, shared with interrupt handlers: cursor, wrapping, scrolling, erasing | `Devices`, `ConsoleProofs` |
| `Stream` | abstract: what a TCP connection promises its applications | implemented by `Tcp` |
| `Tcp` | two hosts with `TransmissionControlProtocolProvider`, and the link | `MCTcp` (runs), `TcpProofs` |
| `Udp` | `UserDatagramProtocolProvider` of one host | `MCUdp` (run), `UdpProofs` |
| `Network` | Ethernet frames, ARP, IPv4 and ICMP of one host, and its neighbours | `MCNetwork` (run), `NetworkProofs` |
| `AmdRing` | the order in which both rings of descriptors are gone through | `AmdReceive`, `AmdSend` |
| `AmdReceive` | receive ring and `HandleInterrupt` of the am79c973 driver, and the card | run `amd_receive`, `DriverProofs` |
| `AmdSend` | send ring of the am79c973 driver, and the card | run `amd_send`, `DriverProofs` |
| `AmdBuffers` | where both rings keep their frames in memory | `Devices` |
| `Rtl8139` | the RTL8139 driver's receive ring and transmit slots, and the card | `Devices` |
| `Mouse` | the mouse driver and the PS/2 port | `Devices` |
| `Timer` | the PIT: ticks, `Sleep`, `Beep` | `Devices` |
| `Rtc` | the clock chip and its reader | `Devices` |
| `Boot` | `kernelMain`, the PCI scan, the driver manager | `Devices` |
| `Acpi` | the command `shutdown` | `Devices` |
| `Gdt` | segment descriptors | `Devices` |
| `Ata` | sectors by programmed I/O, and the drive | `Devices` |
| `Fat` | partition table, FAT32 volume, `GetFile` | `Devices` |
| `Drawing`, `Pictures` | shapes; flood fill, clearing, BMP images | `Devices` |
| `Bytes` | `memfunc.cpp`, number conversion, the Internet checksum | `Devices` |
| `Devices` | the parts that run by themselves, one to a behaviour | `MCDevices`, `DevicesProofs`, `DriverProofs` |
| `MCDevices` | the values of their constants | run `devices` |
| `HeapProofs`, `InterruptsProofs`, `ConsoleProofs`, `NetworkProofs`, `UdpProofs`, `DriverProofs`, `TcpProofs`, `DevicesProofs` | theorems | - |

### Heap

`chunk` is a function from the addresses of the headers on the list to their
fields; `Heads`, its domain, is the set of headers. A header that is merged away
leaves the domain: the code never looks at it again. `first` is `Start`, unless
the heap is too small for a header. Each operation is one action: `Malloc` is the
search plus `Carve` (split or not, the neighbour's `prev` included), `Free` is
`Released`, `MergedBack`, `MergedBoth`, the two merges of the code in its order,
the second on the heap the first one left. The search is described by its result,
the fitting chunk of lowest address; the code walks `next`. `Search` is
that walk; `SearchFinds` says that both agree in every reachable state.

`free` is called with a block that is in use. Freeing 0 or a stale pointer is a
precondition the code does not test. Sizes do not wrap: `Start + Size < 2^32`.

### Interrupts

One CPU runs the boot code (a list of instructions built from `AddTask`,
`Activate`, `Deactivate`, one of the set `Codes`), then tasks. `AddTask` is two instructions
(`Claim`, `Store`), `Deactivate` two (`Retire`, `Cli`), `Activate` those plus
`Install` and `Sti`, so that an interrupt can fall between the statements whose
order matters. An interrupt (`Handle`, or `Ignore` when no manager is active) is
one action, from the acknowledge cycle of the 8259 to `iret`, because interrupt
gates keep others out. `cpu` is the running context and how far it got; `done` is
history, how far each context really got; `turns` is history, normalised so that
it stays bounded; `ignored` is history, the lines taken while no manager was active. The 8259s are external: requests, in-service sets for master
and slave, priority by number, cascade on line 2.

The boot context is dropped at the first timer tick that finds a task
(`currentTask = -1`, so nothing is saved). That is why a boot sequence must add
all its tasks before `Activate`; the runs use such sequences, the only ones the
classes support, and `OrderlyAssumption` states what they have in common: a slot
that is claimed is filled next, no task is added twice, none is added once
interrupts are on.

### Vectors

`Interrupts` takes an interrupt for one step. `Vectors` takes it apart: the gate that
the constructor's loops leave for the vector, the stub that stores the number, what
`int_bottom` pushes, a `HandleInterrupt` that changes every register and may return
another task's stack, what is popped and dropped, `iret`. The stack is a sequence of
the names of what was pushed, which is all that "goes on as before" needs.

### ConsoleInput

`Press` is the keyboard interrupt, whole: a mapped key goes to `OnKeyDown`, an
unmapped one is printed from within the interrupt, through the static string
`lit` of `CharToStr`. The shell's steps are cut where the interrupt matters:
the spin (`Wait`), the statements of `GetBuffer` (`GetFlag`, `GetRead`,
`GetLit`), the fetch of the character (`Fetch`), the switch (`Newline`,
`Backspace`, `Char`) and `ClearBuffer`. `DataAvailible` and `buffer` are never
initialised, so `Init` allows any value. A key is the number of its press, which
is how the properties tell an old key from a new one; `text`, `peak`, `overrun`,
`last`, `again` and `due` are history.

### Screen

The console's side of the same loop: the prompt, the line as it is typed, the output
of a command. A row of text is ten pixels; `ink` is the set of (row, column) that may be
other than background, kept from the cursor's row on, which is where text is still to come.

The shell goes from statement to statement (`at`): `Draw`, `Advance`, `LookForWrap`,
`WrapDown`, `Home` and `ScrollAfterHome` are the branches of `Write`'s switch,
`LookForScroll`, `Scroll` and `ScrollEnd` are `CheckForScroll`, `Measure`, `Erase` and
`MoveBack` the backspace, which fills the rectangle of the last character where the cursor
is now; `Enter` moves down without looking at the end of the screen, as the code does.
`Paint` is the command `videotest`, which draws over the whole screen and leaves the cursor.

Between any two of these an interrupt handler may write (`HandlerPut`, `HandlerNewLine`,
`HandlerEnd`): an unknown scan code (keyboard.cpp:110-115), a packet, an error of a network
card. Handlers do not nest, so theirs is `Write` a character at a time (`Character`,
`NewLine`, `Scrolled`). A statement of the shell is several instructions: the interrupt can
come after the shell has loaded the cursor and before it uses it, so `seen`, the cursor
the shell goes by, is refreshed when the handler returns or is not. The static arrays of
`GetCharData` and `CharToStr` then may hold the handler's character.

`torn` is history: a handler wrote while the shell moved the cursor, or over what the shell
had read. What the screen looks like is then anybody's guess, and the model stops following
`ink` (it becomes empty) until the next `clear`; it goes on following the cursor, which is
still where `OnScreen` says. `painted` and `residue` are history, too: rows that `videotest`
painted, last columns of characters that were erased.

### HeapIrq

The smallest composition that shows what happens when the heap is entered twice:
the shell's `malloc` in two steps with the whole `malloc` of the RTL8139 receive
interrupt possibly in between. Other places where the interrupt could fall are
not modelled; they could only add behaviours.

### Tcp

Each host has a table of sockets (`sockets`), `freePort`, and one application
thread (`app`: the call it is in). `net` holds the segments on the way to a host,
in order. `Receive` is `OnInternetProtocolReceived`, whole: `Lookup` is the walk
over the table, which also finds closed sockets (the loop that should remove them,
tcp.cpp:246-254, has a condition that is false from the start), `React` the
switch, one operator per case (`OnSyn`, `OnSynAck`, `OnFin`, `OnAck`, `OnData`).
`ReceiveUnknown` is a segment for no socket: `reset` stays false and nothing
happens, so the branch that would answer it (tcp.cpp:232-242) is never reached.

The calls of the application are cut where an interrupt finds something half done:
`CallSend`, `SpinEnds` and `Transmit` are `Send`; `CallDisconnect` (the state) and
`SendFin` are `Disconnect`. `Connect` and `Listen` return before `Bind`.

A payload is a sequence of bytes. `Arrivals` is what the link, the driver and IPv4
together may make of it. A minimal frame is padded with zeros and keeps the four bytes of
its checksum (`Framed`). IPv4 takes the lesser of the frame's size and `totalLength`, whose
bytes it does not exchange (ipv4.cpp:63-65, `Swapped`). Nearly always the size is less. But a
total of 513 reads as 258, and the payload is cut (`IsCut`); totals of 256, 512, ... read as
1, 2, ..., less than the IP header, so that `length - 4*headerLength` underflows and TCP
is given some 65500 bytes: the message and what lies behind it in memory (`Memory`). Between
the two headers' lengths no total of a frame of 1500 bytes is read, which `TcpAssumption`
says of `Payload`. `Advance` is how far data moves the acknowledgement number,
to the last byte that is not zero. Acknowledgement numbers are not in the
segments, as no line of the receiver reads them. `peer`, `sent`, `got`, `left` and
`refused` are history. A malloc that returns 0 is left out.

The refinement mapping to `Stream` takes `peer`, `sent` and `got` of every socket
that exists. `Stream!Read` allows the filler of the wire at the end of a message, and of the
messages in `Cut`, those that `IsCut`, it allows any beginning.

### Udp

One host, and a network that can deliver any datagram at any moment, which covers
loss, repetition and any order. `Receive` finds the first socket of the port that
listens or has the sender for a partner (`IsFirst`), and latches it (`Latched`).
`Disconnect` has no action: its loop is never entered (udp.cpp:156), so a socket
lives for ever. `heard` is history.

### Network

One host between its task, which sends, and the card, which hands up any frame at any
moment; frames tell the truth about their senders, but may repeat, be late or be meant
for another. `Call` is `Send` of IPv4 or `BroadcastMACAddress`, whole if the address is in the
cache; otherwise `RequestMACAddress` asks once and the caller spins in `Resolve`, as
`task`, or as `irq` when the interrupt itself sends (TCP's answer to a SYN). `SpinEnds`
is the loop that finds the entry; `Hang` is the same loop with interrupts off. Nested
handlers (`EtherFrameProvider`, then ARP or IPv4, then ICMP or TCP) are one action each:
`OnArpRequest`, `OnArpResponse`, `OnEchoRequest`, `OnSyn`, `OnOther`. `answers` are the
questions that a neighbour may still answer, `lost` and `heard` are history.

### AmdReceive, AmdSend

The card (external) fills, sends and gives back descriptors at any moment, in ring
order, and sets bits in `csr`. `AmdReceive` cuts `HandleInterrupt` into reading
`csr` (`Enter`), one turn of Receive's loop (`Take`), the end of the loop
(`Drained`) and the acknowledgement, which clears the bits that were read
(`Acknowledge`), so that a frame can arrive between any two. `AmdSend` cuts the
application's `Send` into taking the index (`Pick`), advancing it (`Bump`) and
handing the descriptor over (`Fill`); the handler's `Send` (`Reply`) can fall
between any two. What lies in the buffers is in `AmdBuffers`: `sendBuffers` and
`recvBuffers` have their dimensions swapped (amd_am79c973.h:71,76), so that the
eight buffers begin eight bytes apart. There a ring is filled (`Put`) and emptied
(`Get`) in order, at every alignment of the array, and `memory` says of each byte
which frame it belongs to. The assumption on the array, that it is as long as some
multiples of the alignment (8 x 8 = 4 x 16 bytes), is needed: otherwise rounding up can
put two buffers further apart than the array is long, and a short frame would survive.
`AmdRing` says how the rings are counted.

### Rtl8139

The card (external) stores packets, each with its header of four bytes, at `cardPtr` and
sends the slots in turn. The handler is cut into reading the status (`Enter`), taking one
packet (`Receive`, with the pointer arithmetic of the code) and the acknowledgement.
`tx_cur` is not initialised, so `Init` allows every slot; a value beyond them is left out.
`unread`, `lag`, `missed` and `txOrder` are history. Once the pointer has stopped at
the end of the ring, what the driver reads is not there, and no packet is added.

### Mouse, Timer, Rtc

`Mouse` begins where `Activate` has sent its command: the mouse answers, and sends packets of
three bytes, one byte at a time through the port; `ReadAck` is the last statement of
`Activate`, which does not wait. Neither does the read of the controller's command byte before
it (mouse.cpp:49), which the model leaves out. Of a byte the model keeps the bits compared with
buttons.

`Timer` cuts `Beep` of several tasks between reading and writing port 0x61, and `Sleep`
into the sum and the loop; the counter wraps at `Width`.

`Rtc` is the chip, which sets its flag, updates and clears it, against three reads that each
wait for the flag. Nothing holds the chip up: between the test of the flag and the read
(rtc.cpp:26-27) there may be an interrupt or other tasks, and a register read during an update
has any value (`garbled` is history). The conversions
(BCD, 12-hour clock, century) are operators, compared with what the chip encodes.

### Boot, Acpi

`Boot` follows `kernelMain`: keyboard and mouse, the PCI scan function by function
(`SelectDrivers`; `GetDriver` can fail for want of memory), `ActivateAll` driver by driver, the
PIT, then interrupts. Devices raise lines from the moment they are activated. `handlers`
and the static `BaseAddress` of the RTL8139 driver are what drivers can take from each other.

`Acpi` is `initAcpi` on a machine with any small set of tables, reduced to which of them are
found, then `acpiEnable` with its two loops on one count, against hardware that enables each
register in its own time, then the write. The `ACPI` object lives on the stack and has no
constructor, so its `SCI_EN` starts with whatever is there (`machine.stack`).

### Gdt, Ata, Fat

`Gdt` encodes and decodes a descriptor byte by byte. `Ata` cuts a call into its command, the
wait for the status and the words, one at a time; the drive (external) seeks, asks for data,
stores or fails when it likes, and ignores what it does not wait for. There may be no drive:
then the bus reads 0xFF or 0x00, which `Identify` takes for what it is (`Absent`). Of each
word `Identify` keeps one byte, the or of its two (ata.cpp:82-83): `HeaderWord` is the set of
the two, of which nobody can tell which bit came from which. `Fat` takes `Read28` as
right and follows `ReadPartitions` and `GetFile`: names as arrays of thirteen characters
(one of them never written), the 16 entries of one sector of the directory (`Seen`; `Entries`
of them in the run), the sectors of each cluster, the chain. `realname` (fat.cpp:183) is a
pointer that is never set: a name is put together where nothing else lies and read from
there, or `GetFile` goes astray (`Stray`), of which nothing is claimed. `copied` says what came
from where. Nothing in `fat.cpp` checks a volume, so its constants are sound ones (`Sound`): a
file has as many clusters as its size takes, and none of them twice. A chain that ends early or
turns back would read what belongs to other files, or never end.

### Drawing, Pictures, Bytes

Loops as recursive functions, with the order of their updates, one call to a behaviour:
the shapes of `Canvas`; `FloodFill` in the order of its recursive calls, with unchecked
coordinates on a framebuffer with a pitch; `Clear`; the bytes of a BMP image; `memcpy`,
`memmove`, `memset`; `itoa` of an `int` and, in any base, of an `unsigned long` (`itoaBase`);
`atoi` with its blanks and its sign; the checksum in 16 bits. Each is compared with a
definition of what it should compute, on every input up to a bound.

## 3. Runs

| Run | Instance | Shows |
|---|---|---|
| `heap` | 17 bytes, headers of 2, requests 0, 1, 3; 7530 states | up to eight chunks; every boundary of the split (remainder of none, header only, header and one byte), both merges alone and together, failure with and without free memory |
| `interrupts` | a table of 3 slots, lines 0, 1 and 8; four tasks and then `Activate`, or two tasks and `Activate` twice; 1432 states | round robin, contexts, a refused task, acknowledgement at both controllers; the window of `Deactivate` with and without an interrupt in it |
| `console_input` | 5 keys, a 3-byte line; 54754 states | all interleavings of five presses with `ReadLine`; a line can fill, overrun by one and wrap, be erased, and be ended twice by one newline |
| `tcp` | four scenarios: one connection, two messages each way, the client disconnects at any moment; one connection that loses a segment; one whose messages are whole, cut or overrun by IPv4; two connections; 264944 states | the handshake, data both ways, a late `Bind`, the close and all their crossings; prefix, order, one-to-one, and what must get done |
| `udp` | 4 sockets, 3 senders, ports 0-2 with listeners on 0 and 2; 64973 states up to symmetry | sockets that share a port, also because `freePort` wraps into a port that is listened on |
| `amd_receive` | 3 descriptors, whole and bad frames; 12439 states | every point at which a frame can arrive in the handler; a full ring; missed frames |
| `amd_send` | 3 descriptors; 375975 states | every point at which the handler's `Send` can interrupt the application's; a full ring |
| `network` | a neighbour, the gateway, an address of the subnet that nobody has, a host beyond the gateway; a cache of 3; 13991 states | resolving with and without an answer, losses, repeated responses, a cache that fills; the spin in the task and in the interrupt |
| `devices` | fifteen parts, of which the first state chooses one; 1153292 states | the drivers, boot, shutdown, the stubs, the disk, the screen and the algorithms, each with its exceptions |
| `no_eoi`, `heap_irq`, `tcp_zero_tail` | small | violations, see findings |

Bounds. `MaxKeys` bounds a behaviour, so each property is about all histories of
five keys; the longest scenario a property needs (fill a line of three, overrun,
wrap, end it) takes five. `BufLen = 3` stands for 255 and the counter wraps at
`BufLen + 1 = 256` as `uint8_t` does. `Laps` bounds a task's own step counter and
is only compared for equality. `Requests` and `Size` cover the split threshold
exactly, one below and one above. In `Tcp`, sequence numbers wrap at 2^16 instead
of 2^32, three above the first one, so that the wrap happens within a connection;
`FirstPort` is two below the wrap of `freePort`; a message of three bytes stands
for every frame above the Ethernet minimum (`MinPayload` = 2 bytes is the true
bound: 62 bytes of headers and checksum). For `totalLength` the run scales the headers down
to 3 and 1 bytes and a byte to 5 values: three bytes have a total of 7, which reads as 11 and
is not less; six have 10, which reads as 2, less than the IP header, as 256 reads as 1;
seven have 11, which reads as 7 and is cut to three bytes, as 513 is cut to 258. Two messages are the least that show a
wrong count, as the second is refused. Ports are not reused: with as many
`Connect`s as ports the lookup does find the older socket and crosses two
connections, which no document forbids. Three descriptors show an empty, a partly
filled and a full ring at every index.

In `network` a cache of three is filled by two neighbours only when responses repeat, which
is what fills the cache of 128. In `devices`, `v1`, `v2`, ... are the variables of the
chosen part, and each part runs alone on a small instance: a ring of 32 bytes with packets
that leave every remainder and one that ends exactly at its end; four descriptors two bytes
apart with an alignment of four, as eight are eight apart with sixteen; two tasks that beep
and a counter that wraps at 4; a clock of 3 x 2 x 2; two PCI devices of two functions, each
absent or one of two cards; up to two places for an RSDP and two tables, two polls; the
limits and bases round every threshold of `gdt.cpp`; all 256 vectors; a sector of four bytes
and three calls; clusters of two sectors of two bytes, files of up to three clusters, directories of two
entries and a third behind them, names of every kind that the conversion tells apart; a screen
of three rows and twelve columns with a letter and the space and a line of two characters, so
that two or three characters fill a row and the second new line scrolls; shapes of up to eight pixels;
pictures of three by two; bytes of two bits, whose sign and carries behave as those of
eight.

Each property has a mutant in `PROJECT.json`: a plausible bug in one operator
(a merge without the back link, the wrong end-of-interrupt test, no saved frame)
that the same run must catch; an invariant of several parts has one for each part
that can break alone. The mutated operators sit in the modules next to the ones
they would replace, marked as such; nothing else refers to them.

Deadlock checking is off where the program may stop: no key need be pressed
(`console_input`), after `Activate` twice all lines may be blocked while the
boot code has ended (`interrupts`), and applications need not call anything
(`tcp`).

### Fairness

- `Interrupts`: weak fairness of the CPU executing the boot code and the tasks,
  and of the timer raising its line (a free-running clock). Strong fairness of
  delivering each line: the timer has priority, but ticks leave gaps in which a
  waiting line is deliverable again and again.
- `ConsoleInput`: weak fairness of the shell's steps: every interrupt returns.
  None for key presses.
- `Tcp`: weak fairness of the receive interrupt and of a call that can go on.
  None for calls, and `Lose` needs none.
- `AmdReceive`: weak fairness of the handler; strong fairness of the end of
  Receive's loop, since frames take longer on the wire than in the loop.
  `HandledUnlessChoked` assumes in its statement that frames keep coming.
- `AmdSend`: weak fairness of the card and of a `Send` that has begun.
- `Network`: weak fairness of the spinning task and of an answer that is neither lost
  nor delivered yet. Nothing forces a call or a loss.
- `Udp`, `Heap` and the parts of `devices` have safety properties only.

### Findings

1. `heap_irq`: a packet that arrives between the search and the split of the
   shell's `malloc` is copied into the block the shell is about to own
   (`rtl8139.cpp:136` asks for a private copy).
2. `no_eoi`: an interrupt between `ActiveInterruptManager = 0` and `cli` is never
   acknowledged (`interrupts.cpp:195` says it must be), which blocks its line
   and every lower one. Only a caller that deactivates or activates twice meets
   it; `kernelMain` activates once.
3. `tcp_zero_tail`: after a message that ends in a zero byte the next one is
   refused and the connection reset, on a link that loses nothing
   (`tcp.cpp:218` calls what is refused "data in wrong order").

What the passing runs show as exceptions, each named in a property:

- `OrderKept`, with three exceptions: data that reaches a socket in FIN_WAIT1 is dropped as if
  it were a bare acknowledgement (tcp.cpp:184-188), and the next segment is refused; a message
  that ends in a zero byte is counted short; and one that IPv4 cuts or overruns for the bytes of
  its `totalLength` (ipv4.cpp:63-65) is counted for what arrives.
- `ImplementsStream`: a message that IPv4 cuts reaches the application without its end.
- `SendReturns`, `BothClose`: who refuses a segment resets the other end and stays
  half open; a `Send` on it can spin for ever.
- `HandledUnlessRaced`, `HandledUnlessChoked`: a frame that arrives between the end
  of Receive's loop and the acknowledgement loses its announcement; if such frames
  fill the ring, reception stops for good, because the interrupt for a missed
  frame does not call `Receive`.
- `SentInOrder`, `EveryFrameSent`: a `Send` of the handler between the first two
  statements of the application's makes both use one descriptor, and the card
  waits at the one passed over.

- `HungOnlyIfUnheard`, `ResolveReturns`: a handler that sends to a neighbour never heard
  of hangs the kernel, and so does any `Send` in the interrupt once the cache is full;
  `Resolve` asks once and never again (arp.cpp:116).
- `MouseRight`: an answer to the command that comes after `Activate` looked for it is taken
  for the first byte of a packet, and every later packet is read a byte late.
- `CardRight`: a packet that ends exactly at the end of the RTL8139's ring leaves the
  driver's pointer there, beside the card's (rtl8139.cpp:144); packets that share an
  interrupt are handled one to an interrupt; transmit slots are in turn only if `tx_cur`
  happened to begin at 0 and no `Send` met a slot in use. Of the frames that wait in a
  ring of the am79c973 only the last is whole.
- `TimeRight`: `Sleep` is too short if the sum wraps (after 49 days); the time shown may be
  torn, though never ahead unless the day turned meanwhile, and is anything at all if an
  interrupt or another task kept the reader from a register until the clock's next update
  had begun (rtc.cpp:26-27); a 12-hour clock exchanges noon and midnight (rtc.cpp:54).
- `StartAndStop`: the drivers of two RTL8139s share one base address; of two cards on one line
  the first is never served; the shutdown command is written after a failed `acpiEnable`, with
  only PM1a enabled when ACPI was enabled already, and to an unknown port if `initAcpi` failed
  and `SCI_EN` was left over on the stack.
- `VectorsRight`: an exception without an error code returns to its `cs` (interruptstubs.s:12).
- `DiskRight`: `Identify` loses one byte of every two; `Write28` does not wait for the drive, and words written too early are lost,
  after which the drive waits for the rest; a file behind the sixteenth entry
  is not found, and the unset pointer (fat.cpp:183) may lead `GetFile` astray; a name of seven
  characters with an extension of three never matches, one with an extension of one or two depends on a byte that was never
  written; after each cluster but the last a sector too many is read, so that only the first
  cluster of a file is sure to be right.
- `OutputRight`: a backspace over a wrapped line moves the cursor off the screen, and one
  within a row leaves the last column of the character; the test for the end of a row leaves
  ten columns, and an '@' is eleven wide; a handler that prints while the shell
  moves the cursor, or over what it has read of it, leaves text elsewhere than where text belongs
  (if both scroll, the cursor ends a row too high, console.cpp:106-109); `videotest` paints
  where text is still to come; straight lines to the left or upwards
  do not end, a diagonal whose `dx` or `dy` is 1 never takes that step (`Sign(1)` is 0), a
  rectangle lacks a corner and a filled one a column, narrow ellipses lack their top; a flood
  fill goes on round the end of a row, `Clear(color)` writes four times the framebuffer;
  `memcpy` onto an overlapping later place, `itoa` of a negative number, and the checksum of an
  odd number of bytes whose last is 128 or more are wrong.

With messages of at most two bytes (not in a run) the checksum that a minimal
frame keeps is delivered and counted as data, and the next message is refused.
The proof of the refinement asked what comes after that: a message of two bytes is
counted as six, so if one of four bytes and a third follow before the refusal is
back, the third has the number that is awaited and is delivered, and the second is
missing in between. The same may follow a message whose total underflows, when what lies behind
it in memory is not zero. The theorem therefore assumes `CountedRight`.

## 4. Proofs

`HeapProofs` proves, for every `Start > 0`, `Size`, `Hdr > 0` and set of requests
(`HeapAssumption`):

- `HeapInvariant`: `Spec => []HeapInv`. `HeapInv` says the list is typed, tiles
  the heap, is linked both ways, has disjoint chunks, starts at `first`, and has
  no two free neighbours. It is inductive as it stands. None of its parts is:
  tiling needs disjointness for the chunk behind a merge, back links need the
  list order, and coalescing needs the links.
- `NothingLeaks`: `Spec => []HeapRestored`, from `HeapInv` alone: with no block in
  use the first chunk has no successor, so it ends where the heap ends.
- `FailureIsJustified`: `Spec => []FailureJustified`: the greatest header below a
  gap starts a free chunk, whose successor, in use by coalescing, lies beyond
  the gap; so the chunk itself was large enough.
- `SearchIsComplete`: `Spec => []SearchFinds`. `Search` is a recursive function along `next`;
  the function that takes each chunk to the first fitting one behind it obeys its equation
  (`StopTurn`), and any other that does agrees with it: of the chunks where one did not, the last
  would (`WalkStops`). So no induction over the list is needed.
- `Implementation`: `Spec => ImplementsAllocator`, the refinement of `Allocator`.

The argument goes through lemmas on the operators for an arbitrary well-formed
heap `f`: `AbsorbFields` and `CarveFields` compute every field of the result,
`AbsorbWellFormed`, `CarveWellFormed` and `ReleaseWellFormed` keep it well formed,
`MergedBackOK` describes the heap between the two merges (coalesced but for one
place, all blocks but one kept), `MergedBothOK` the heap after them.

`InterruptsProofs` proves, for every boot code, set of tasks and set of lines
(`InterruptsAssumption`):

- `Acknowledgement`: `Spec => []StuckOnlyIfIgnored`. The invariant `AckInv` adds
  that ignored lines are lines. A line is taken only if it has priority over all in
  service, so the end of interrupt in the same step retires that very line.
- `AcknowledgedUnlessIgnored`: while nothing was ignored, `AllAcknowledged` holds.

`UdpProofs` proves, for every number of sockets, ports and senders
(`UdpAssumption`):

- `TypeCorrect`, `SocketHasOnePartner`, `PartnerHasOneSocket`: `Spec => []TypeOK`,
  `[]OnePartner`, `[]OneSocket`; and `PartnerIsKept`: `Spec => PartnerStays`, a
  socket that has a partner never gets another.

The inductive invariant `UdpInv` adds `Latching` (who listens has heard nobody) and
`Precedence`: a sender a socket has heard is not one that an earlier socket of its
port would take. `OneSocket` is not inductive: it says nothing of a socket that has
not heard yet but would take the datagrams of another's partner.

`InterruptsProofs` also proves `ContextsAreKept`: `Spec => []TaskInv`, for every orderly boot code
(`OrderlyAssumption`), set of tasks and table size. `TaskInv` alone is not inductive: a tick
that finds a slot claimed but not filled would load garbage, and one task in two slots would
run over its own frame. `SwitchInv` therefore adds where the boot code is: each slot is filled
(`TableInv`) with a different task, and once interrupts are on none is added (`NoneAdded`);
`EachWhole` says that each frame that is not running is that task's, whole. On it rests
`TurnsAreEqual`: `Spec => []EqualTurns`. `EqualTurns` compares turns with turns; the
invariant `RoundInv` says what they are, 1 for the tasks at or before `currentTask` in a round
that is not over and 0 for the others.

`ConsoleProofs` proves, for every length of the buffer and number of keys:

- `LineIsRight`: `Spec => []LineInv`. Nothing terminates a short line: the buffer was filled
  with 0, and a backspace leaves a blank. So the invariant carries `WrittenBelowPeak`: what
  was written lies no higher than the longest extent the line has had.
- `KeysInOrder`: `Spec => InOrder`, from `KeysPressed` (what was fetched was pressed) and
  `NoOlderKey` (what the code holds is no older than the last key it acted on).
- `PressesActOnce`: `Spec => []PressActsOnce`. `OnceMore` follows a key that was acted on
  through every place from which it could come again (the flag, the buffer, `reg`, the
  static string): only a newline gets there, and the flag no longer announces it then.
- `TextStaysRight`: `Spec => []ScreenInv` of `Screen`, the console's part of `OutputRight`, for
  every width, every height of whole rows and every set of characters. Its invariant has three
  parts. `ScreenTypes`; `ScreenPlaces`, how far down the cursor may be at each statement of the
  shell, with a handler inside or not: while `ReadLine` reads there is a row below it, which
  lets `Enter` move down without scrolling; and `ScreenBlank`, what may be set beside and below
  the cursor at each statement, for the screen and for what the shell has seen of it. A
  handler's character, new line and scrolling each keep both (`Bare`).

`NetworkProofs` proves, for every set of addresses and size of the cache
(`NetworkAssumption`):

- `FramesGoRight`: `Spec => []NetInv`. `FrameRight` of a frame sent after a spin needs the
  cache truthful and the kind of what is being sent, both in `NetInv`.
- `HangNeedsUnheard`: `Spec => []HungOnlyIfUnheard`. It needs `HeardIsCached` (who was heard is
  in the cache, unless that was full) and `HangsUnresolved` (the interrupt spins only while the
  address is missing).

`DriverProofs` proves, for every number of descriptors (`AmdRingAssumption`, for sending at
least two, `AmdSendAssumption`):

- `ReceiveRingIsRight`: `RecvSpec => []RecvRingInv`. The invariant is inductive as it stands;
  the work is in counting round the ring, where lemmas give the descriptor after the k-th
  and show that no two of fewer than N meet.
- `SendRingIsRight`, `FramesSentInOrder`: `SendSpec => []SendRingInv`, `[]SentInOrder`; and
  `OverrunsOnlyWhenFull`: `SendSpec => OverrunOnlyWhenFull`. `SendRingInv` compares the ring
  with the frames due; `SendProof` counts them: while the order is kept some n is at once the
  number of frames due, the distance of the two indices, and the number of descriptors given
  away, which carry consecutive frames (`CountRight`). n is N + 1 only when the application's
  `Send` is about to run into the end of a full ring.

It also proves, of the drivers among the parts that run by themselves, for every value of their
constants (`ConstantsAssumption`, the `ConstantsOK` of each part):

- `MouseStaysRight`: `Spec => []MouseRight`. The driver is in step if the number of bytes in
  its buffer, the port and the packet is right; that its buttons are the mouse's needs
  `ReportUnderWay` (wherever the packet has got to, its first byte is what the mouse last
  reported) and `AnswerFirst` (before `Activate` returns, nothing has been read).
- `CardsStayRight`: `Spec => []CardRight`. For the RTL8139, `PacketsRight` says that the packets
  lie one behind the other on multiples of four up to the card's pointer; so the pointer that
  the driver computes with a mask is the next packet's, unless it is the ring's size.
  `InterruptsRight` adds what the status says in each stage of the handler, `SlotsRight` a number
  of slots from the card's to the driver's. For the am79c973, `BuffersProof` says that every byte
  of a frame that waits has the number of the last of those that cover it, and that the frames
  are numbered in turn (`Ago`); any two cover a byte in common because frames are longer than
  the array and rounding up moves no buffer further than the array is long.
- `TimeStaysRight`: `Spec => []TimeRight`. For `Sleep`, the distance of the counter to the end,
  modulo the width, equals the ticks still to come, so the sleep ends neither early nor late. For
  the clock, what was read is compared register by register, the highest first, with a
  clock that goes on; that is what makes a torn time late and never early, as long as every
  register was read outside an update.

`TcpProofs` proves, for every two hosts, payloads, scenarios and numbers
(`TcpAssumption`):

- `ConnectionsAreOneToOne`: `DistinctPorts => (Spec => []ConnectionInv)`. `freePort` counts up
  and `Connect` never looks whether its port is in use, so a host that opens more sockets
  than there are ports above the first, or that listens on one of those, has two sockets of
  one port, the lookup finds the older one, and connections cross. `DistinctPorts` excludes
  just that; the run's constants satisfy it. `ConnectionInv` says nothing of the segments on
  their way. The invariant adds `Types`, in which numbers, calls and segments have their
  ranges, and `Wires`: every socket is one that opened, one that accepted or one that waits;
  who accepted belongs to who opened, and to nobody else; every segment comes from the socket
  its ports say, and a SYN goes out once for a socket (`OneSyn`).
- `ConnectionsAreStreams`: `DistinctPorts /\ CountedRight /\ NoReturn => (Spec =>
  ImplementsStream)`, whatever is lost, refused, closed or connected again. `CountedRight`: no
  payload is empty or counted for longer than it is, which excludes messages so short that
  their frame keeps a checksum, and those whose `totalLength` underflows unless zeros lie behind
  them in memory (see findings); one that ends in zeros, or is cut, and so is counted short, is
  not excluded. `NoReturn`: what a host may send, with a header for each message, is less than the
  sequence numbers. The run's constants satisfy `NoReturn`; of its payloads the one of six bytes,
  which is overrun, is not `CountedRight`: the run goes beyond the theorem there, for one such
  message. A segment is taken for the next message
  if its number is `acknowledgementNumber`, so the invariant says whose numbers these are, on
  top of `Wires`:
  - `Handshake`: who is established or has sent has a peer that has it (`Mutual`); data is on
    its way only between such sockets, and a FIN only from who has left or follows a FIN
    (`Meant`, `Closing`).
  - `Streams(pos)`: there are numbers `pos`, uncut, one for each message, of which
    `sequenceNumber` is the last, cut to 32 bits; the messages on their way to a host are in the
    order of these numbers, all later than what has been given to the receiver, which waits for
    the next one or for a number below it that is off by at most a header for each message
    (`Expects`). It waits for something else only where nothing more can come: it is closed and
    left, or no data of its peer is on its way and its peer has left (`Ended`).

  By `Window` a number in that range which equals that of a later message, once cut, is the
  number of the next message. So a receiver may refuse and stop, but it does not skip. Each
  action is then a `Pair`, a `Write` or a `Read` of `Stream`, or changes nothing of it
  (`StreamNext`).
- `OrderIsKept` and `FinComesLast`: `Spec => []OrderKept` and `[]FinAfterData`, under the same
  hypotheses. Both say something of a link that has lost nothing, and both follow from one
  invariant, `Gathered`: `Streams(pos)` as above, and with the same numbers, as long as nothing
  is lost, every socket is `Whole`:
  - `Opening`: in SYN_RECEIVED, if the peer has this socket, its ACK is on its way before all its
    data. Data cannot meet a socket that has not been told it is established.
  - `Awaiting`: while a socket is connected and has refused nothing, every message of its peer
    that it was not given is in the queue to it. `Streams` says that nothing is there twice or
    out of order, this that nothing is missing.
  - `Counting`: it waits for exactly the number of the next message, unless the peer has sent one
    that ends in a zero byte or that IPv4 cuts.
  - `Finished`: in CLOSE_WAIT the peer has left, and all it wrote was given or some was refused.
  - `Faultless`: what `OrderKept` says of a socket.

  Neither property is inductive: they say nothing of the queues, and a FIN is taken whatever its
  number is. It comes last because it was sent last and the queue keeps its order; `Awaiting` is
  what turns the order of the queue into the order of what was given. Most
  steps take nothing from a queue, or only a segment of another socket; lemma `MinorWhole` does
  these at once.

`DevicesProofs` proves, of the other parts that run by themselves, under the same assumption:

- `StartsAndStops`: `Spec => []StartAndStop`. Boot: what is still to be scanned and
  activated at each stage; each driver on the list is made for its card (`MadeFor`), its
  line is its own or one that came later (`LineKept`), and the shared base address is the last
  one's (`BaseKept`). The card that `SelectDrivers` takes next is the least of a set; that there
  is one comes from the well-ordering of the numbers (lemma `Least`). Shutdown: at each step of
  the search and of the polls, which table was found and which register is enabled. Segments: one
  lemma puts a number together again from its bytes, another does the pages.
- `InterruptsReturnRight`: `Spec => []VectorsRight`: at each stage of an interrupt the stack is
  what the stages before it pushed, on top of what the gate pushed for that vector.
- `DiskStaysRight`: `Spec => []DiskRight`, for every number of sectors, their size, the calls and
  what they write, and for every sound volume, with clusters of any number of sectors.
  - The drive: while no word was written too early, the call and the drive are in one of seven
    places (`AtaRight`). `Resting`: the disk is as expected. `Asking`: the drive looks for the
    sector that was asked for, has it, or has failed. `Reading`: what the drive has left to give is
    the rest of the sector, what the call has is its beginning. `Meeting` and `Describing`: the same of `Identify` and the drive's words about itself.
    `Writing`: the drive has exactly the words written so far. `Flushing`: it stores them, or has. `NeverMixed` needs that a sector on
    the disk is one call's bytes and zeros (`OneCalls`). Once a word was too early nothing is
    claimed; the slip stays on record. Without a drive no `Identify` begins (`Missing`).
  - The name: a conversion and a trim of thirteen places compared with a written name. `Outcomes`
    says that every name comes out as itself, as itself with the unwritten byte for one more
    character of its extension, or as a string with no end before its twelfth place, which
    no written name equals. `MatchMeans` draws from it when two names match.
  - The file: `Within` says where the two loops are (the clusters visited are the beginning of the
    chain, `SIZE` is what is left of the file, or of the file after one cluster more when a sector too
    many has been read), `Progress` how many sectors were copied and to where, `Copies` which
    sectors these are. Only the first cluster, the sector after it and the next are described
    exactly; of the others it is enough that they go further on. For `NoFurther`, `Progress`
    bounds the offset in sectors by the sectors read.

### Only model-checked

- `OutputRight` but for the console: `Drawing`, `Pictures` and `Bytes` compare what a loop
  computes (a line, a circle, a fill, a checksum, a number's digits) with what it should, for every
  input up to a bound. The loops are recursive functions, and what a recursive function computes
  for every input needs induction over data, which the installed provers cannot do.
- Liveness: `EveryTaskRuns`, `EveryLineServed`, `WaitingKeyCounts`, `SendReturns`,
  `DataArrives`, `BothClose`, `HandledUnlessRaced`, `HandledUnlessChoked`, `EveryFrameSent`,
  `ResolveReturns`. They rest on fairness, and so on ENABLED, which the prover has no rules for.
- The three violations, which are counterexamples.

Every other property of a passing run is a theorem: all invariants but one, and all action
properties.

## 5. Plan

Everything of the inventory that keeps state is modelled, and proved about as far as section 4
says. Without `CountedRight` the refinement does not hold (see findings), and the loops of
`Drawing`, `Pictures` and `Bytes` would need a prover with induction.

### Not modelled, and why

- Ports and CPU identification (`port.*`, `cpu.cpp`, `cpu.h`): single instructions and prints.
- DHCP: one datagram of constants, no answer is handled.
- Real-mode video calls, `loader.s`, VESA and multiboot headers, fonts and the tables of
  `identifyheader.h` and `partitiontypes.h`: data and assembly without state.
- `Image::GetPixel` and `SetPixel`: each modifies one variable twice in an expression, which
  has no defined result; nothing calls them. `Color`'s hue and brightness: floating point, unused.
- The composition of a PCI configuration address, `ListRootDir` and every command of the shell
  that only prints what another component returns.
- A `malloc` that returns 0 in the drivers and protocols, none of which tests for it: what follows
  is a copy over address 0. No packet is freed, so it comes in the end (rtl8139.cpp:138).
