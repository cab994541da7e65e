# A verification of the rpi3b-meaty-skeleton kernel

The repository is a course in bare-metal programming for the Raspberry Pi 3B.
`src/rpi3b-meaty-skeleton` is the kernel the lessons end with, and the subject
of this development. `src/src/00-bootloader` is the serial bootloader used to
load it. `src/src/01…` are the earlier lessons: copies of the same files in
earlier states, which are not modelled.

File names below are relative to `src/rpi3b-meaty-skeleton/`.

## 1. The system

One core runs one program, `kernel_main`, with no scheduler. Concurrency comes
from interrupts, from devices that work on their own (DMA engine, USB host
controller, SD controller, the GPU behind its mailbox, the free-running timer)
and, for the bootloader, from the program at the other end of the serial line.

| part | state | operations | what is hard | what makes it correct |
|---|---|---|---|---|
| block allocator, `kernel/mem/kernel_alloc.c` | carving pointer, emergency reserve, free list per bucket threaded through block headers | `mem_alloc_init`, `mem_allocate`, `mem_deallocate` | wrap-around of sizes, links kept in the blocks themselves | blocks disjoint, lists sound and complete, room for the request, reserve kept |
| USB heap, `kernel/device/usb-mem.c` | table of allocations, list of used and of freed entries, byte count | `MemoryAllocate`, `MemoryDeallocate`, `PlatformLoad`, `MemoryCopy` | gaps of every size, table exhaustion, zero-size allocations | callers disjoint, their bytes in entries in use (which may lie behind `Heap`, section 6, 3), no entry lost |
| interrupt driver, `kernel/arch/arm/rpi-interrupts.c`, `boot.S` | callback tables, enable bits, stacked activations | `register_irq_handler`, `unregister_irq_handler`, `irq_handler` | interrupts between two stores, nested activations, lines that stay up | matching callbacks, lines served, program resumed |
| DMA driver, `kernel/device/dma.c` | per-channel status and control block; the engine's registers | `dma_start`, `dma_wait`, clearers | engine, driver and clearer write one register; late completions | a good return means copied, a return means quiet, busy means refused |
| system timer, `kernel/arch/arm/systimer.c` | none of its own; the 64-bit counter | `timer_getTickCount64`, `MicroDelay`, `udelay`, `tick_difference`, `timer_set` | halves read apart, roll-over | readings not torn, delays not short |
| mailbox and property interface, `kernel/arch/arm/rpi-mailbox*.c` | the property buffer, the mailbox FIFOs | `RPI_Mailbox0Write/Read`, `RPI_PropertyInit/AddTag/Process/Get` | answers of other channels, one global buffer | an answer is of the request made |
| USB device tree, `kernel/device/usbd.c`, `hub.c`, `roothub.c` | table of devices by number, hub children, driver data | attach, detach, enumerate, poll | failure in the middle of enumeration, hot removal | numbers unique, tree and table agree, no dangling child |
| USB host controller, `kernel/device/hcd.c` | channel registers, transfer state, data buffer | `HcdSumbitControlMessage`, `HcdInterruptPoll`, split transactions | retries, split transactions, time-outs | a good return means a whole transfer |
| HID, keyboard, mouse, `hid.c`, `keyboard.c`, `mouse.c` | parsed reports, key state | parse, poll, `KeyboardPoll` | report descriptors, key roll-over | events match state changes |
| SD card, `kernel/device/emmc.c` | card descriptor, host registers | initialise, commands and their answers, block read, write and erase | time-outs, error interrupts left standing, application commands, transfers that end half-way | what returns OK is whole; a block holds what it was asked to hold |
| FAT, `kernel/fs/fat.c` | partition, the sector of the table in the buffer | `initialize_fat`, `read_file` and its recursive search | long names in pieces, chains, any read failing | what is found and printed is the file asked for |
| page lists and tables, `kernel/mem/physmem.c`, `virtmem.c` | free-page list; section table | page allocation; MMU set-up | list with one element, attributes | each page with one owner; total map |
| bootloader, `src/src/00-bootloader` (the program on the Pi, and `raspbootcom` on the host) | place in the exchange, input buffer, breaks counted | ask, size, answer, kernel, jump; terminal | two programs, resets, a device pulled out, typing in between | the image run is the file sent; a call ends |
| serial line, `kernel/device/uart0.c` | UART | `uart_*` | – | – |
| console, graphics, `kernel/graphics/*` | frame buffer, cursor, V3D command lists | draw | none that a model adds to | (drawing) |
| C library, `plibc`, `rpi-armtimer.c`, `bss-clear.c`, `kernel.c` | – | `printf`, start-up | sequential | – |

Interactions: `kernel.c` calls everything once, in order. `dma.c` takes memory
from the block allocator, registers with the interrupt driver and delays with
the timer. The USB stack takes memory from the USB heap and powers the
controller through the property interface. `emmc.c` and `hcd.c` delay with the
timer; `fat.c` reads blocks through `emmc.c`; the console gets its frame buffer
through the property interface.

`PROJECT.json` lists every part with its status, and under `hazards` the places
in the code where testing hardly reaches.

## 2. The modules

| module | models | how its state and actions correspond |
|---|---|---|
| `Heap` | what an allocator promises its callers | abstract: the set of intervals that callers own |
| `KernelAlloc` | `kernel_alloc.c` | `nextBlock`, `blockReserve`, `freeHead` are `s_pNextBlock`, `s_nBlockReserve` and the buckets' `free_list`; `header` is the headers in memory. One action per way through a call: `Recycle`, `Carve`, `Refuse`, `Deallocate`. Arithmetic is modulo `W` |
| `Interrupts` | `rpi-interrupts.c` and the entry code of `boot.S` | one action per store of the register and unregister calls; `frames` is the stack of activations of `irq_handler`, with `pc` and loop index `j` |
| `Dma` | `dma.c`, EXTENDS `Interrupts` | one action per register write of `dma_start` and `dma_wait`, on the same `raised` lines and `frames`; the engine has actions of its own; `ClearChannel` is the `RunClearer` of `Interrupts` with what `dma_irq_clearer` writes |
| `SysTimer` | `systimer.c` | one action per register read; `now` is the counter, and it moves between any two reads |
| `UsbHeap` | `usb-mem.c` | `entry` is `Allocations`, list heads are indices into it; one action per outcome of a call. `held` is what callers have, as records with the number of the copy: allocations of no bytes can coincide in address and size |
| `UsbTree` | `usbd.c` and `hub.c` over the ports | the functions call each other recursively and a failed request re-enters `hub.c`, so `frames` is the stack of calls: function, place in it, device, port. `dev` is memory with its `struct UsbDevice`s (and `HubDevice`s), `devices` is `Devices`, `status` is `PortStatus`; `plugged`, `enabled` and the change bits are the ports. One action per place, `Answer` and `Fail` for every request (`Requests` lists who sends which) |
| `RootHub` | `roothub.c` and the register copies of `hcd.c` | `port` is the hardware's port register as a set of bits, `portCopy` the driver's copy; a request reads, waits and writes in separate steps, and devices come and go between them |
| `Hcd` | `hcd.c`, EXTENDS `RootHub` | the core's start (`phase`), then a message as a stack of counters: `stage`, `tries`, `globalTries`, `actualTries`, `splitTries` are those of the nested loops; `channel` is the channel's registers and `device` a device that keeps the USB rules (toggle, repetition, SETUP). One action per interrupt the loops can see |
| `Emmc` | `emmc.c` | `call` is the call under way (where it is, command, tries, blocks done), `sd` is `sdCard`, `host` the host controller's registers with its interrupts, `card` a card with its SD states, `disk` what is on it. The hardware moves between any two steps |
| `Fat` | `fat.c`, EXTENDS `Emmc` | `job` is the call of `read_file`, `frames` its recursion into directories; every sector is a call of `sdcard_read` |
| `Walk` | – | the fold over a sequence that the parsers use |
| `HidReport` | the parser and the bit moves of `hid.c` | the three passes of `HidParseReportDescriptor` as folds over the items, with the stack of usages; `BitGet…`, `BitSet` on bytes |
| `UsbConfig` | `UsbConfigure` of `usbd.c`, the search of `HidAttach` | fold over the descriptors of a configuration |
| `Input` | `hid.c`, `keyboard.c`, `mouse.c`, EXTENDS both | `device` is memory with attached devices, `registry` the tables of the two drivers, `old_keys_down` and `polling` as named; what configuring and parsing give for a kind of device are the tables `Configured` and `Found`; one action per outcome of attach, detach, free, poll, report, LEDs |
| `Boot` | both bootloader programs and the line | `pi` and the host's variables hold the place in each program; `line` is the bytes on the wire in each direction. The host's `select` loop goes byte by byte |
| `Mailbox` | `rpi-mailbox.c`, `rpi-mailbox-interface.c` and the callers in `hcd.c`, `pi_console.c`, `v3d.c`, `physmem.c` | `pt` is the buffer word by word, `mail0` and `mail1` the two mailboxes; one action per call; the firmware's `Serve` walks the list on its own |
| `KernelAllocProofs`, `UsbHeapProofs`, `UsbTreeInv`, `UsbTreeProofs`, `ChipProofs`, `HcdProofs`, `EmmcProofs`, `BootProofs` | – | the theorems of section 5. `UsbTreeProofs` stands on `UsbTreeInv`; `ChipProofs` is about `SysTimer`, `Interrupts` and `Dma` on top of that; `HcdProofs` is about `RootHub` and `Hcd`, `EmmcProofs` about `Emmc` alone and under `Fat` |
| `MC…` | – | the small instances of section 3 |

Definitions named `X_Something` directly before `X` are deliberately wrong
variants of `X` ("mutant of X"): with one of them in the place of `X` the named
property of the run fails, which shows that the property constrains the code.

What is abstracted: printing; the contents of blocks; the alignment and address
translation of DMA control blocks; device registers that nothing reads back;
caches; the contents of USB descriptors in `UsbTree` (in `Input` they are the
subject). `Hcd` counts lengths in packets. `Emmc` has a block as one value and
leaves out the unpacking of the CSD and the clock divider. `Fat` cuts names into the
parts that entries hold. In `Boot` a byte says where it is from, and a number has
as many digits as `Digits`. Where a USB function sends several requests in a
row with the same treatment of a failure (the two reads of a descriptor, the
strings, the power of each port, the readings of one reset) they are one request.

External parts, modelled from how the driver uses them: the pending register of
the interrupt controller (raised and enabled), a device raising its line, the
DMA engine's CS register, the free-running counter, the ports of USB hubs (a hub
that is reset starts over and reports what it finds on its ports), whether a
USB device answers and with which packets, the SD host controller and the card, the
firmware behind the mailbox, the serial line and the user.

How they compose: `Dma` extends `Interrupts`, so that handlers run between the
driver's register writes; `Hcd` extends `RootHub`, `Fat` extends `Emmc`, `Input`
extends `HidReport` and `UsbConfig`: what the lower part does, fails at and leaves
behind is seen by the upper one. `KernelAlloc` implements `Heap`. `UsbTree` takes from
`Hcd` that a request is one answer or one failure (`MessageSound`) and that it
returns (`CallsReturn`).

## 3. The runs

| run | instance and why it is enough | what it shows |
|---|---|---|
| `kernel_alloc` | 256 addresses, two buckets, room for at most twelve of the smallest blocks, requests at and between bucket bounds, one larger than every bucket and one that wraps | `BlocksDisjoint`, `FreePointersSound`, `FreeListsComplete`, `ReserveIntact`; callers see a `Heap` (`ImplementsHeap`) |
| `interrupts` | two lines (one basic, one GPU), two drivers, two raises per line: nesting to depth three and a lower line that interrupts a higher one | `ActivationsSound` (only handlers are interrupted, callbacks are pairs), `RaisedIsServed`, `ProgramResumed` |
| `dma` | two channels, three areas, three starts: a channel is used, waited for (in time, too early or not at all) and used again while the other one works; `hasty` remembers whether a caller started a channel it had not waited for | `WaitSound` (waited means copied, returned means quiet), `PatientServed` (who waits is neither refused nor clobbers), `CallsReturn` |
| `systimer` | halves of two bits, a horizon past two roll-overs of the low half, delays up to a full low half | `TickNotTorn`, `DelayElapsed`, `DifferenceIsElapsed`, `TimerReturns` |
| `usb_heap` | three entries, 32 bytes, 104 addresses (more than three times 32, so that addresses wrap and still do not meet), requests of none to three units and one that never fits: the table or the bytes run out first | `CallersDisjoint`, `TableSound` (entries partitioned between the lists, counts true) |
| `usb_tree` | a hub with two ports on the root port, on one of them a hub with a port, plugged or not from the start, memory for four of the five devices; a change between passes (plug, pull, disturb), two failures of any requests (two excepted below) or resets; `gaveUp` remembers whether a failure made the code give a device up. With `MCChain` instead (no siblings), two changes, three failures and `MaxDevices` = 8 the same holds (404 311 states) | `TreeSound` (addresses unique; table, tree and calls agree; no request for a freed device), `PassDone` (a pass leaves the tree as the ports are and nothing half attached), `CallsReturn` |
| `usb_tree_vanish` | one port, one change at any time | finding: `NoFurtherRequests` fails |
| `hcd` | the six kinds of message the program sends, of up to three packets, split and high speed; any packet lost, repeated, refused or not ready; the start with every time-out; a root port with one event at any moment | `MessageSound` (a good message is whole, in both directions), `PortUndisturbed` (no request takes another bit of the port with it), `CallsReturn` |
| `storage` | a standard and a high-capacity card that miss, refuse and delay commands, transfers of one and two blocks, an erasure of one; five volumes: two of FAT32 that are tame (one with clusters of two sectors, files that end in the middle and at the end of a cluster, and a file with a short name only), one of FAT32 with deleted entries, split names and a chain that ends with 0x0ffffff8, FAT16, none; five paths | `CardSound`, `TransferWhole`, `NothingMisplaced`, `FoundIsNamed`, `FoundAndPrinted` |
| `input` | two device numbers (three for two slots, in a `crowd` that is not polled), keyboards and mice and others that fail in each place an attach can, reports with every key slot, LEDs over both contents of the buffer; and 325 layouts of one to three entries for the parser | `RegistryAgrees`, `KeysAsReported`, `LedsAsAsked`, `DescribedAsMeant`, `FieldsFit` |
| `boot` | a file of two bytes, size in two bytes and one digit, a receive queue and an input buffer of two, three troubles of any kind (reset, pulled device, another run, typed byte) | `KernelWhole`, `OnlyWhenAsked`, `InputKept`, `LoadEnds` |
| `mailbox` | two requests after one another of every caller's kind and one with the remaining tags, any one tag left unanswered, mailboxes of two messages, two messages of other channels during each request | `ServedAsAsked`, `TakenIsAnswer`, `ProcessReturns` |

Bounds that are the model's and not the code's: `MaxRaises` (raises per line),
`MaxStarts` (calls of `dma_start`), `Horizon` (end of time). Without the first a
device that raises its line for ever, with the lower number, starves the others:
that is how `irq_handler` is written, and the bound keeps it out of
`RaisedIsServed`. The runs of `Dma` may stop when all starts are used, so they do
not check deadlock. `MaxChanges` and `MaxFailures` bound what happens to USB
devices; `MayVanish` and `MayBounce` say whether ports change during calls, and
whether a device goes that the program has no record of (because it came a moment
ago, or because its attach failed). `usb_tree` excludes both since the code does
not survive either (`usb_tree_vanish` shows the first; the second is the null
dereference of section 6); failures of two requests of `HubPortConnectionChanged` are
excluded for the same reasons: the clearing of the change (an empty port
keeps its change bit), and the first reading (`HubCheckForChange` goes on into a hub that
was unplugged, since `HubCheckConnection` drops the result, and the hub is freed under the walk
by the check of its first request). A call on a device that was freed is not followed further:
`usb_tree` checks deadlock, which shows that no call gets there. `MaxDevices`
leaves room for the slots that failed attaches lose.

`ProgramResumed` excepts a raised line whose driver is between the first and the
last store of `unregister_irq_handler`: `irq_handler` then finds no callback,
returns with the line up, and is entered again at once.

`Hcd`: messages to a device start from a port at rest (`Settled`), since what a
port event does to a message any device may do by falling silent; `MaxPortEvents`
bounds the events. `Emmc`: `Retries` stands for the counts of ACMD41, `BlockSize` is
two so that byte and block addresses differ. The constraint `Followed` leaves out volumes on a
card that was taken for one of version 1, which gives other blocks than asked for; for the
same reason `TransferWhole` excepts cards that a badly answered CMD8 made cards of version 1.
`MaxMeanings` bounds the new contents asked of a card: two of those of block 1, of block 2, and erased.
`NothingMisplaced` compares each block with what was meant for it, a history of what the calls asked
(`meant`; erased blocks have a value of their own), and excepts the one block that
`sdClearBlocks` erases too many (section 6, 8), no other. `FoundIsNamed` speaks of all FAT32
volumes. `FoundAndPrinted` speaks of those that are `Tame`: no deleted long-name entries, no name used twice, no name
split over sectors, chains that end with a mark the program knows. There a file with a long
name that is not empty is found, one with a short name alone never is, and a file is printed
whole if it is `OfText`: of its sectors that are not the last of a cluster the one in which it ends
has a zero byte, and no other has. Directories of the volumes have the attribute 0x10 exactly.
`Input`: two slots of each kind and two keys are enough to fill, free and refill tables, and a `crowd` of three devices, which are not
polled, has one of a kind refused at the limit. `Boot`: `MaxTroubles` is 3, of which a reset, an unplugging and another
run of the host cost two each; `KernelWhole` excepts a Pi that took typed bytes for the size and
a second reset, `OnlyWhenAsked` a second reset and a device pulled out between two breaks, for
the reasons in section 6. `Mailbox`: `LongBytes` stands for the 256 bytes AddTag reserves for tags
with long answers, `Words` for the size of the buffer; both hold every request.

These runs do not check deadlock: `hcd` (a core that did not come up), `storage`,
`boot` (the bounds end them), `mailbox` (after the last request) and `input` (a poll
of an unplugged device never returns, and after undefined behaviour, `wild`, the model
ends).

`udelay` samples a 32-bit difference; a delay close to 2^32 can be missed by
samples that are too far apart, so `TimerReturns` speaks of `MicroDelay` and
`timer_getTickCount64` only.

## 4. Fairness

* `Interrupts`: weak fairness of `Dispatch`. The core takes a pending interrupt
  and executes `irq_handler`. Nothing is assumed of devices or of the program.
* `Dma`: weak fairness of the steps of a call and of the interrupt dispatch.
  None of the engine: `CallsReturn` holds although a transfer may never end.
* `SysTimer`: weak fairness of the counter and of the steps of a call.
* `UsbTree`: weak fairness of the program's own steps, not of `StartPass`: the
  kernel's loop around `UsbCheckForChange` is commented out, so how often it is
  called is open. `PassSeesAll` is therefore a safety property.
* `Hcd`: weak fairness of the start, of the driver's steps, and of the channel: it
  does something, or `RequestTimeout` passes, or it halts when told to. None of the
  device: it may be silent for ever.
* `Boot`: weak fairness of the Pi's program and of the host's two loops. None of
  the user.
* `Mailbox`: weak fairness of the kernel and of the firmware's serving what it
  was sent; `ProcessReturns` has as its premise that mailbox 0 is not always full.
* `Storage`, `Input` and the allocators have safety properties only. Every loop of
  `emmc.c` has a time limit, which is a step of the model that may be taken.

## 5. The proofs

All theorems are for every value of the constants that satisfies the named
assumptions of the module, and for every behaviour of its specification; the
fairness in the specifications is not used. Each follows the same way: an
inductive invariant, that it holds at first, one lemma for each action or group
of actions that it is kept, and what it says of the property.

| theorem | property | about |
|---|---|---|
| `NoOverlap`, `FreeListsSound`, `FreeListsAreComplete`, `ReserveKept`, `TypeCorrect` | `BlocksDisjoint`, `FreePointersSound`, `FreeListsComplete`, `ReserveIntact`, `TypeOK` | the block allocator, for requests of any size |
| `RoomGiven`, `AllocatorImplementsHeap` | `RoomForRequest`, `Heap!Spec` | the same, if no request wraps |
| `CallersAreDisjoint`, `TableIsSound` | `CallersDisjoint`, `TableSound` | the USB heap |
| `TreeIsSound`, `PassesAreDone` | `TreeSound`, `PassDone` | the USB device tree, under `Survives` and `Roomy` |
| `NeverTorn`, `NeverEarly`, `DifferenceRight` | `TickNotTorn`, `DelayElapsed`, `DifferenceIsElapsed` | the system timer |
| `ActivationsAreSound` | `ActivationsSound` | interrupts |
| `WaitIsSound`, `PatientAreServed` | `WaitSound`, `PatientServed` | DMA, with the interrupts below it |
| `PortIsUndisturbed`, `MessageIsSound` | `PortUndisturbed` (an action property), `MessageSound` | the root hub and the host controller |
| `TransferIsWhole` | `TransferWhole` | the SD card driver under any program that reads |
| `NothingIsMisplaced`, `FileReadsAreWhole`, `CardIsSound` | `NothingMisplaced` (the block behind an erasure excepted), `TransferWhole`, `CardSound` | the SD card driver under `Fat` |
| `InputIsKept` | `InputKept` | the bootloader's terminal |
| `KernelIsWhole` | `KernelWhole` | the bootloader's two programs and the line |

`KernelAllocProofs`. The inductive invariant `IInv` joins the types,
`BlocksDisjoint`, `FreePointersSound`, `ReserveIntact` and `HeldUnlinked` (no
pointer names a block a caller holds). It is needed because recycling a block
keeps the lists sound only when nothing else points to its head, and
because a carved block is new only when every other one ends at or before
`s_pNextBlock`. The lemmas on the operators come first (`BucketForFits`: the bucket
found fits the request; `FootprintType`; `NoWrap`: past the guard of carving the
pointer has not wrapped), then one lemma per action, then the theorems. `RoomGiven`
and `AllocatorImplementsHeap` assume `NoRequestWraps`: no request so large that header
and rounding wrap 2^32. The assumption is necessary (section 6, 1). `TypeOK` and
`RoomForRequest` are therefore theorems and not in the run, where a wrapping
request is among the sizes. `FreeListsAreComplete` stands on `IInv` and a second
invariant, `ListsInv`: for each bucket there is a sequence of addresses through
all its free blocks and no others, each linked to the next. `mem_allocate` takes
the first of it, `mem_deallocate` puts one before it.

`UsbHeapProofs`. `HeapInv` says that there is a sequence of entries in use, linked
in this order, and of each: a place that does not wrap where its address does
(`InOrder`), the sum of the lengths up to it (`Summed`), and a caller whose it is
(`Owned`); and a sequence of the entries given back that ends where the table was
never used (`GivenBack`). The places are needed because nothing in the code bounds
an allocation behind the last one (section 6, 3). What keeps the last from coming
round to the first is that a gap between two entries is left only when it is
smaller than what was asked for: together lengths and gaps stay under
`NumEntries * HeapSize`. `Owned` is a choice of owners that a step may change,
because a free takes the first entry at an address, whosever it is. Assumed:
`UsbHeapAssumption`, with `NumEntries * HeapSize < W` (512 entries of at most
32 KiB are 2^24 bytes of 2^32) and no request so large that it wraps.

`UsbTreeInv`, `UsbTreeProofs`. What could go wrong is far from where it goes wrong: a request of any
call that fails has the port of its device looked at (`usbd.c:115`), and that may drop a
device, with all behind it, on which calls further out are working. `TreeInv` says why
it does not, of every stack of calls:

* `Stack`: who calls whom, from which place and about which port. Calls go down the tree
  but for two, the check of a failed request and the second reset of a device's own port,
  and these call nothing that goes down again.
* `Paths`: the ports on the way to the device of every call are enabled and have no change
  to be seen (but for the device's own while it is reset once more). So the check of a
  failed request finds nothing that changed, and nothing to drop.
* `Knowledge`: what a call relies on at each of its places, of the port it read, of the
  device it works on and of the answer to a request of its own. This is what makes `PassDone` follow:
  each way to return an error past `HubPortReset` is one on which a device was given up.
* `Elsewhere`: what is so of a device or a port that no call works on. A hub has a device on
  just the ports where one is plugged, unless the port has a change still to be seen; a port
  that went off under its device tells of it; a device has its number unless the attach
  under way holds it.
* `Tree` and `Table`: children, parents and positions; `Devices` against the numbers. A
  slot of a device that is given up before its address is never freed, so the table is exact
  only while `gaveUp` is false.

There is a lemma per part for each kind of step (going on, calling, returning, changing one
device, allocating, freeing a family), and one per action that puts them together.
`UsbTreeInv` has the invariant and the steps that leave devices and ports as they are,
`UsbTreeProofs` the others and the theorems. TLC checked `TreeInv` as an invariant of the
run before it was proved.

Two conditions are assumed, both necessary. `Survives`: ports change only between calls
(what happens otherwise is shown by `usb_tree_vanish`), and of the requests two do not fail,
the reading and the clearing of a connection change (section 6, 5). `Roomy`, of every
state: when there is memory for a device there is a slot for it. With the table full
`UsbAllocateDevice` goes on and the number is what memory held. `Roomy` follows when memory
holds no more devices than the table and none was given up; TLC finds it true in
every state of `usb_tree`. The number of changes and of failures is not restricted. Nor is
`MayBounce`, but there the theorems say nothing of what comes after a null device is
deallocated (section 6, 5): the model has no step beyond it.

`ChipProofs`, the timer. The invariant of `NeverTorn` and `NeverEarly` says, at each
program point, between which two moments each value read lies; that the high
half read first and the one read last agree then pins the low half to the same
period. `DifferenceRight` is arithmetic modulo the square of a half.

`ChipProofs`, the interrupts. `IrqInv` joins the parts of `ActivationsSound` with `ServesLines`
(an activation is at a line that exists) and `PairsBelong`: an enabled line has a
handler and a clearer of one driver, or is the line being unregistered; a line
being registered is not enabled, and its entries hold what was stored so far. That
is why an interrupt between two stores of a registration calls no half of a pair.

`ChipProofs`, DMA. `DmaInv` joins `IrqInv` with what channel, engine, interrupt and caller
can be at together: `ChannelSound` per channel, for a settled one and for the one
the call under way is at, at each register write; `WorkApart`, why the engine's work
on one channel is not what a caller of another waits for; `StatusSound` and
`CallSound`, what driver and call remember. `Dma`'s steps are steps of `Interrupts`
or move lines only (`IrqPartKept`), so `IrqInv` is kept by the lemmas about it. Assumed: there is a channel, and each has a line of its own.

`HcdProofs`. `HubInv` is what a delayed request of the root hub finds when it goes on
with the copy made before its delay; `PortIsUndisturbed` follows per step. `CallInv`
relates what the channel has counted, where the device is, and the toggle and the
PID by which each knows a repetition. During a stage in, the device is where the
host is or one packet behind the acknowledgement that was lost; or it is ahead, and
then the host has lost packets of this stage for good, and what the device still
has does not fill the count. Parity keeps a device that is one ahead from falling in
again. Assumed: `MessagesAssumption`, the kinds of message the program sends; the
part about high-speed stages out is necessary (section 6, 7).

`EmmcProofs`. Driver (`call.done`), host memory (`fifo`), host count and card
each have a place in the transfer: they agree while no error is set (`Stream`), an
error stays set until the driver has seen it, and what a given-up transfer
leaves in the host is for the block the card waits for (`FifoPlaced`) until the next
command empties it. `TransferIsWhole` is for `DriverSpec`, in which any program reads
any block number. Under `Fat`, `NothingIsMisplaced` holds of every card, and
`FileReadsAreWhole` for what is a number: what `Fat` computes from a volume that makes no
sense may be none (`NumberKnown`). `CardIsSound` has an invariant of its own,
`StartInv`: the types, where `sdInitCard` is and what it knows there (`StartKnown`), and
that card and host use the same lines (`WidthKnown`). A card may begin in any state and
width and misses whatever it likes, so the two agree only from the answer to
ALL_SEND_CID on, which a card gives on one line, and again from the answer to
SET_BUS_WIDTH. That SET_BUS_WIDTH is never taken for SWITCH_FUNC follows because it is
sent only after an answer with APP_CMD set, and what forgets that forgets it for both.

`NothingIsMisplaced` has a third invariant, `MeantInv`. What was meant for a block only grows, so
a write is a question of what is in the host: a block that the call under way, or an
earlier one, asked to write (`WritesMeant`). An erasure is three commands, each of which may fail, come
late or stay unanswered, and the last has no address: the card erases between the limits it was
told. `ErasureKnown` says at each place of the driver which of the two limits the card was told
for certain (`FirstTold`, `BothTold`), because ERASE is sent only after two good
answers; so the limits are those of this call and not of an earlier one that was given up, and
what goes beyond the blocks asked for is the one block of `OneTooMany`.

`BootProofs`. `InputInv` adds to `InputKept` that the bytes lie in the buffer and that
what `select` found is still so when the loop uses it; the buffer is thrown away only
where it is empty or a call begins. Assumed: a buffer of at least one byte.

`KernelWhole` relates what the Pi loaded to what the host sent at some other time, over
both directions of the line. `LoadInv` says what may be under way between the two
programs, for a call that lasts and has not failed:

* the bytes of its size reach the Pi in this call, in their order and last of all
  (`Waiting`, and `SentOnly` while they are sent); after the call none is left (`Ended`);
* an "OK" on the way to the host is the answer to its size: a Pi that asks has printed
  none, and one from before a reset is read before the breaks that begin the next call
  (`NoOldK`, `Waiting`, `KLast`);
* so the host sends the file only to a Pi that waits for it, with nothing else on the line,
  and what was loaded and what is on the line make what was sent (`Answered`, `FileComes`);
* a Pi that was never reset asks once (`FirstAsk`), and its one call finds it asking
  (`OnlyCall`). This is where the reset comes in: after two, an old answer may follow the
  breaks that begin a call, and `KernelWhole` says nothing of that case (finding 13).

Assumed of the line: a size and a file have at least one byte (the code sends four, and a
file that is empty makes the Pi jump at once); the banner and the digits may have any
length. TLC checked `LoadInv` as an invariant up to five troubles before it was proved.

Lists, walks and sums that the models write as recursive functions are dealt with
without induction: a function that satisfies the equations is given, and the least
argument at which any other one differs is a contradiction.

Only model-checked, and why:

* Liveness (`CallsReturn`, `TimerReturns`, `ProcessReturns`, `LoadEnds`, `RaisedIsServed`, `ProgramResumed`):
  out of the prover's reach.
* `DescribedAsMeant`, `FieldsFit` and the other properties of `Input`: the parsers of
  `HidReport` and `UsbConfig` are folds over data, and the bit moves use `Bitwise`.
* `ServedAsAsked`, `TakenIsAnswer` of `Mailbox`, `FoundIsNamed`, `FoundAndPrinted` of `Fat`:
  they are about what a walk computes from data (the tags in the buffer, the entries
  of a directory), again folds.
* `OnlyWhenAsked` of `Boot`: checked for as many troubles as `MaxTroubles` allows. It speaks of
  one reset at most: with more, a call may read away what stood between the breaks of two lives
  of the Pi.

## 6. What the code does that it should not

Shown by a run: `usb_tree_vanish` (`usbd.c:115`): a device pulled out during its
attach is freed under it, and requests for it go on.

Met while modelling. The models do what the code does; where a property excepts
such a case its comment says so.

Allocators, DMA, interrupts:

1. `kernel_alloc.c:89`: a request within header and rounding of 2^32 wraps and
   is granted a tiny block.
2. `dma.c:346`: a channel is never `IN_PROGRESS`; after its first completion a
   start is never refused again (`BusyIsRefused` without `~hasty` fails).
   `dma.c:336`: the control block is used without a test for 0.
3. `usb-mem.c:93`: the room behind the last allocation is taken from `HEAP_END`
   and is never short: addresses run on behind `Heap`. `MemoryAllocate` logs 16 KiB and 256 entries,
   the heap has 32 KiB and the table 512. `PlatformLoad` called again would reset neither `allocated`
   nor the links; `MemoryCopy` has its direction for overlaps reversed.
4. `rpi-interrupts.c:131` takes numbers from 72 up for basic interrupts: callbacks of
   DMA channels 2 and 3 are stored behind the tables.

USB:

5. `hub.c:268`: a port that had a device for a moment, or whose device failed to
   attach and is pulled, makes the program deallocate a null device.
   `hub.c:256`: when a changed port cannot be read, `HubCheckForChange` walks into the hub that was
   unplugged from it, and has it freed under itself.
   `hub.c:536`: without memory for its `HubDevice` a hub keeps its handlers and the next
   `HubCheckForChange` follows a null pointer (`usbd.c:830` ignores the result).
   `hub.c:289` leaves an entry without parent when the port cannot be read again;
   `hub.c:31` tests a descriptor nothing set.
6. `usbd.c:855` keeps the slot of a device that is given up before it has its
   address, for good; `usbd.c:130` reads `Parent` when it is NULL; `usbd.c:610` ignores
   what `HcdStart` returned.
7. `hcd.c:302`: a core that hangs in `hcd_start` has the buffer freed and OK returned.
   A reply shorter than asked never fills `PacketCount` and always fails. An outgoing
   high-speed stage of two packets would be delivered twice after a lost
   acknowledgement (the program sends one). `HcdSumbitInterruptOutMessage` is dead
   code; `String1` says length 90 and has 46; interrupt polls always start with DATA1.

SD card and FAT:

8. `BUS_WIDTH == 4` never holds for ordinary cards (5), `CMD_SUPPORT == 2` not for 3;
   `INT_ERROR_MASK` omits the command time-out; `sdDebugResponse` may use a null
   `lastCmd`; unaligned buffers get wrong data; an erase takes the block behind
   the last one, too (`emmc.c:1428`: the end is inclusive; nothing calls it, and this block is what
   `NothingMisplaced` excepts); a bad CMD8 answer makes a card one of version 1.
9. Chains end only at 0x0fffffff, 0x0ffffff7 and 0: after 0x0ffffff8 to 0x0ffffffe, which end them
   just as well, the search goes on in clusters that are not there. Only long-name entries are
   compared (`fat.c:326`), so a file with nothing but a short name is never found. A zero byte ends what is
   printed of its cluster, not of the file, and a file that ends at the end of a sector
   inside a cluster has the rest of the cluster printed after it. An empty file counts as not found;
   a file named in the middle of a path is taken for its end; a directory must have
   exactly the attribute 0x10; of a long name in two sectors one part is compared.
   `kernel.c` has the calls of `initialize_fat`, `UsbInitialise` and the input drivers as
   comments.

HID, keyboard, mouse:

10. The first item without usages gets the collection's; usages given one by one are
    assigned in reverse; a Report Count serves a second main item in pass two and not in
    three; a ReportId named twice counts twice in pass one (`hid.c:333`); a keyboard with
    report ids has the id taken for a field.
11. Arrays of fields under a byte write behind their block (`hid.c:712`); 4-byte usages
    are written over the stack pointer (`hid.c:780`); 16 usages overflow the stack
    (`hid.c:353`); a one-byte Report Count from 0x80 is negative; scan codes from 0x80 come
    sign-extended (`keyboard.c:155`); constant padding writes `KeyFields[-224]`
    (`keyboard.c:305`); `KeyCount` and the hooks of `HidDevice` are used unset
    (`keyboard.c:277`, `hid.c:196`); `LedReport` may be NULL (`keyboard.c:407`); three-byte mouse
    reports have a fourth read (`mouse.c:180`); `reportDescriptor` is freed twice (`hid.c:151`,
    `182`); the search of `HidAttach` may leave the configuration (`hid.c:85`).
12. A poll of an unplugged device never returns (`hid.c:993`); `KeyboardGetAddress` tells an
    address that `KeyboardIndex` does not find (`keyboard.c:109`); `old_keys_down` is one for
    all keyboards, and `KeyboardGetChar` tells only keys that were already down.

Bootloader:

13. Bytes typed before the request are taken for the size: the host discards only its own
    buffer (`raspbootcom.cc:406`). After two resets an answer left on the line is taken by
    the next call; breaks counted before a device was pulled out count after it; the host
    limits sizes to 0x200000, the Pi to 0x2000000; the size in the answer is never compared;
    the search for breaks may run past the bytes read, and a NUL hides those after it.

Mailbox:

14. A write waits on the status of mailbox 0, which holds the answers (`rpi-mailbox.c:21`). A
    tag left unanswered has length 0, and its caller takes what the last Get copied; `pt[1]`
    is looked at by nobody. Words of an earlier request stay behind the list: a negative one
    sends the walk of `RPI_PropertyGet` out of the buffer, and `v3d_execute_qpu` gets a tag it
    never added (`v3d.c:97`) and uses the NULL.

## 7. Not modelled, and the plan

* Page lists and page tables: only `get_mem_size` is (in `Mailbox`). `mem_init` and the
  page functions are not called (`kernel.c:75` is a comment), and an append to an empty list
  goes through its null tail; `virtmem.c` fills the section table once.
* Serial driver of the kernel, console, graphics, `printf`, start-up, arm timer, C library:
  sequential computations without state that another part depends on; what they ask of the
  firmware is in `Mailbox`.
* The earlier lessons are copies of the same files.
* Within modelled parts: `timer_set`, `timer_getTickCount32` as more than a read;
  a second `PlatformLoad`; a hub without memory for its `HubDevice` (`UsbTree` assumes there is);
  slots of the usage stack that nothing was put in (they read as no usage); suspend and over-current of hubs; HID short items of four
  bytes, units and physical limits; `print_directory_contents`, which nothing calls.

What the proofs have left: the registry of `Input`, once it is apart from the parsers' bit
moves; `OnlyWhenAsked` of `Boot`; and
for `UsbTree` what is still true when the table is full.
