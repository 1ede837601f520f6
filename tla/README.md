# Verification of mltt

mltt is a TI-99/4A home computer in C++: an emulator (`ti994a`, `console`) and
tools for the machine's disks, tapes and programs, among them a FUSE driver that
mounts a sector-dump disk image (`mltt-fuse`). This directory holds TLA+ models
of its parts, the TLC configurations that check them, and TLAPS proofs.
`PROJECT.json` relates every definition to the lines it stands for and lists the
hazards the properties are aimed at.

## The system

| Part | State | Operations and who calls them | What is hard |
|---|---|---|---|
| Disk volume: `DiskSector`, `DiskFile`, `DiskVolume` | allocation bitmap, header and sector chains of each file, sorted file list, directory sector, the image file | create, open, write, unlink, rename, close; mounting reads the image back | sectors owned twice or by nobody, open files that were unlinked, the order of the writes to the image and a stop between them, chains that grow into each other |
| FUSE driver `mltt-fuse` | table of open files, its free list | libfuse calls the handlers | references taken and given back, the life of a `DiskFile` |
| CPU `cpu.cc` | pc, wp, st; registers in memory | run loop calls `execute` | flags, interrupt acceptance and the mask, widths |
| CRU `cru.cc`, TMS9901 `interrupt.cc`, timers `timer.cc` | CRU bits, active and disabled interrupts, timer mode, timerfds | CPU (SBO, SBZ, LDCR, TB, STCR), keyboard, VDP and timers through callbacks | one CRU bit has several owners: interrupts, timer bits, keyboard rows; two timers share one poll |
| Keyboard `kbd.cc` | key matrix, alpha lock, selected column | run loop polls, CRU output scans | keys that share matrix positions, rows that share CRU bits with interrupts |
| Run loop `ti994a.cc`, `console.cc` | run flag, instruction count | user | blocking on timers |
| VDP `vdp.cc` | VRAM, registers, status, two-byte command latch | memory-mapped ports, retrace timer | the latch, address increments, table bases |
| GROM `grom.cc` | address, byte flip-flop | memory-mapped ports | address read and write flip-flops |
| Memory `mem.cc` | RAM, ROM banks, device selected by CRU | CPU | bank switching, stale device selection |
| Sound `sound.cc` | tone generators, latch, ring of auxiliary samples | CPU port; a thread of its own | two threads on one ring |
| Cassette `cassette.cc`, WAV `wav.cc` | WAV file, modulation state, samples owed | CRU bits 22-27, TMS9901 timer | read and write modes of one static file, motor and timer in any order |
| Floppy controller `fdd.cc`, images `fddfile.cc` | registers, sector buffer, selected unit and side, one open file | memory-mapped ports, CRU bits | transfers left half done, select order, track and side arithmetic |
| Debugger `break.cc`, `cond.cc`, `watch.cc` | tables of breakpoints, conditions, watches | console commands, run loop | limits of the tables |
| Tape tool `mltt-tape.cc`, `fmdecode.cc` | decoder state, blocks and their copies | command line | two copies of a block, checksums |
| Files `files.cc`, `file_disvar.cc` | none | tools | record encodings |

How they interact. The run loop fetches and executes one instruction at a time.
After each, `execute` asks the TMS9901 for a pending interrupt. Every couple of
thousand instructions the loop polls the keyboard and blocks on the timers; the
timer callbacks change CRU bits, which raise interrupts and drive the cassette.
The CPU reaches VDP, GROM, sound and floppy controller through the memory map,
and TMS9901, keyboard columns, cassette and drive selection through the CRU. The
sound thread only shares the ring of auxiliary samples with the emulator. The
disk volume and its FUSE driver form a program of their own.

## What is modelled

### DiskVolume

The disk volume and the FUSE driver, in one module because a handler runs
through all of them.

State. `fat` and `fatDirty` are `_bitmap` and `_bitmapChanged`. `files` is
`_files`, a sequence of object numbers, and `obj` the `DiskFile` objects; a
deleted one is `NilFile`, and the next allocation takes the lowest free number.
`fd` is `fuseFileInfo`: which object each handle refers to, 0 when it is on the
free list. `io` holds the local variables of a `DiskFile::write` in progress.
`img` is the image file (bitmap, directory sector, the directory entries held in
sectors) and `pend` the images that the writes a handler has still to make will
produce.

Actions. `Create`, `Open`, `Release`, `Unlink`, `Rename`, `SetXattr` are the
handlers `tidsk_*` with everything they call; each changes memory in one step
and leaves in `pend` the sequence of images its `fwrite`s produce, in the order
of the code (entry, bitmap, directory for create; bitmap and directory for
unlink; and so on, where `sync` is reached through `updateDirectory`).
`DiskWrite` performs them one at a time, so that every state between two writes
is seen. `WriteStart` is the search of `DiskFile::write` for the starting sector;
`WriteExisting`, `WriteExtend` and `WriteFull` are the cases of one iteration of
its loop, and `WriteEnd` what follows the loop. `Remount` is `DiskVolume::open`
and `readDirectory` on what the image holds, with the memory of the session
before lost.

Abstractions. Names are numbers in TI sort order, with the two conversions
(`Linux2TI`, `TI2Linux`) as constant functions, so that two Linux names may have
one TI name. File contents are left out; a data write only destroys the
directory entry a sector may have held. Handlers are serialised. Writes that
start beyond the end of file are left out (`WriteStart`'s guard): the loop gives
them negative counts. `Remount` happens between handlers; a stop inside a
handler is covered by the invariants on `img`, which are checked after every
single write.

Properties, all aimed at the hazards in `PROJECT.json`:

- `HandlesLive`: no handle and no write in progress refers to a deleted file.
- `OwnedSectors`, `NoLeak`: the bitmap and the files agree: every allocated
  sector has one owner, and every sector of a file is allocated. (`NoLeak` is
  for one session: a mount does not get back what an unlinked file still had.)
- `ChainsMatchHeader`: chains hold as many sectors as the header says, which is
  what tells overwriting from extending.
- `WriteLandsInPlace`: the write loop is at the sector that holds its offset.
- `DirectorySorted`: TI name order through renames and remounts.
- `ImageMountable`: at every moment each directory entry names a sector that
  holds an entry.
- `ImageCurrent`: between handlers the image holds what memory holds.
- `NamesChangeAtOnce`: a handler changes the names on disk in one write.
- `CrashExposesOneFile`: at any moment at most one file of the image has sectors
  its bitmap calls free, and no two files share a sector.

Runs and bounds:

| Run | Configuration | Result |
|---|---|---|
| `disk_session` | `MCDiskVolume.cfg`: 7 sectors (3 for data), 2-byte sectors, 2 names, 2 objects, 2 handles, up to 3 chains | 655,509 states, all hold |
| `disk_remount` | `MCDiskVolumeRemount.cfg`: 6 sectors, 3 names of which two share a TI name, 2 objects, 1 handle, sessions | 2,069,475 states, all hold |
| `disk_append` | `MCDiskVolumeAppend.cfg` | `ChainsMatchHeader` is violated: see below |
| `disk_renamed` | `MCDiskVolumeRenamed.cfg` | `UnlinkedIsOpen` is violated: see below |

Two files and three data sectors are enough for a file to take a sector between
two of another, to get it back after an unlink, to fill the disk, and for a
write to cross from one chain to the next; a third name gives a rename onto each
side of another file and two Linux names for one TI name. The requests start a
sector, end inside one, cover one and cross into the next. Handles are
interchangeable and enter only through equality, so `disk_session` uses
symmetry.

What the two violations show:

- `disk_append`. When a write starts inside the last sector and runs past it,
  `chain` is the index of the last chain, not one past it. The comparison with
  `_chains[chain-1]` then looks at the chain before the last, the new sector
  overwrites the last chain, and `_chainCount` counts an element nothing wrote.
  `MidSectorAppend = FALSE` excludes such writes from the other runs and is a
  hypothesis of the theorems.
- `disk_renamed`. `tidsk_rename` opens the file and never closes it: after an
  unlink it stays marked as open, with its sectors, until the driver stops.

### Proofs

`DiskVolumeProofs` proves, for any volume size, any number of handles and
objects and any names, that `Spec` implies

- `MemoryTypes`: `[]MemoryTypeOK`, the memory half of `TypeOK`;
- `NoDanglingHandle`: `[]HandlesLive`;
- `SectorsAreOwned`: `[]OwnedSectors`;
- `NothingLeaks`: `[]NoLeak`;

under the named assumptions of `DiskVolume` and `MidSectorAppend = FALSE`.

The inductive invariant `IInv` is the conjunction of the first three with
`Reserved` (the sectors of the header and the directory are allocated),
`ChainsOrdered` (within a file a sector is in one chain) and `WriteWithinOrAtEnd`
(a write loop that will extend the file is one past its last chain).
`OwnedSectors` alone is not inductive: freeing the sectors of one file keeps the
others' allocated only because no two share one, and an extension keeps
ownership exclusive only if the chain it is joined to is the last, which is where
`WriteWithinOrAtEnd` comes in. `HandlesLive` needs the count of handles, since the
last release deletes the file. `NoLeak` is kept out of `IInv`, which a mount has to
keep too; it follows from `IInv` and `NothingLost`: no step adds to the allocated
sectors that nothing has. That one needs `OwnedSectors` to know that what a delete
frees was not another file's. TLC checked `IInv` on the instance of
`disk_session` before it was proved. The proof has a lemma per action over the
facts of a few operations on the set of files (`UpdateInv`: one object changes
and keeps its sectors, `DeleteInv`: one goes, `CreateInv`: one comes), and lemmas
on `InsertAt` and `RemoveAt`.

`DiskImageProofs` goes on from there, with the same hypothesis, to the write loop
and the image:

- `HeadersCountSectors`: `[]ChainsMatchHeader`;
- `WritesLandInPlace`: `[]WriteLandsInPlace`, and `WritesStayInChains`: a loop
  that leaves a chain inside the file finds a next one;
- `DirectoryStaysSorted`: `[]DirectorySorted`;
- `EverythingTyped`: `[]TypeOK`, the image and all writes still to be made
  included;
- `AlwaysMountable`: `[]ImageMountable`, between any two writes;
- `NamesChangeInOneWrite`: `[]NamesChangeAtOnce`;
- `CrashesExposeOneFile`: `[]CrashExposesOneFile`, if `SectorCount <= 4096`,
  because an entry keeps the sectors of a chain in 12 bits;
- `NoChangeWaits`: between handlers the directory of the image lists exactly the
  linked files, in order, with the entries memory would write.

The invariant is `WriteInv /\ DirectorySorted /\ ImageInv`. `WriteInv` adds to
`IInv` the header counts and `WritePlace`: the sectors of the chains before the
one the loop is at, plus the ones it has passed in it, are the offset in sectors.
Those sectors are counted as a set (`SectorsBefore`), which is what lets a step
to the next chain, and a longer last chain, be proved from the cardinalities of
disjoint sets. `ImageInv` is about the writes a
handler still has to make as much as about the image: the last of `pend` is
`Settled`, which says that it holds the entries of all linked files of memory,
their names in order, and the bitmap unless that is dirty; each of the images on
the way is `Good`, that is mountable and exposing at most one file; and they are
`InStep`: each has the names of the one before it or those of the last. None of
the three is inductive alone: a write of `pend` takes away an image that was
good only because the handler that computed it found memory and image in
agreement, and the next handler finds them so only because the last image of the
one before was settled. Nor could it do without `SectorsAreOwned`, since a data
write destroys the entry a sector held, and must not meet a linked one's, nor
without `DirectorySorted`, since entries are found by their position.

The rest is about the next mount, on volumes of at most 4096 sectors:

- `MountShowsMemory`: `[]ImageCurrent`. A mount of the image between two handlers
  would show the files memory has, with their entries, sectors and order;
- for `SessionsSpec`, where a kill or an unmount and a mount come between any two
  handlers: `HandlesAcrossSessions`, `OwnedAcrossSessions`,
  `CountsAcrossSessions`, `PlacesAcrossSessions`, `SortedAcrossSessions`,
  `MountableAcrossSessions`, `CurrentAcrossSessions`, `NamesAcrossSessions`,
  `ExposureAcrossSessions` and `TypedAcrossSessions`, the properties above after
  any number of mounts.
  Their hypothesis `[]Fits` says that no file gets more chains than a header
  carries (`HdrChains`, 23 in the code): the code then writes as many as fit, and
  the next mount loses the others.

An entry keeps the start and the length of a chain modulo 4096, so the proof
begins with `ChainsReadBack` and `HeaderReadBack`: what
`decodeChain` reads is what `encodeChain` wrote if every sector number is below
4096. `MountLists` runs the fold of `readDirectory` with the lemmas of
`FoldLemmas`: inserting entries that come in name order appends each, so the list
is in the order of the directory. That the directory is in name order and without
gaps is `DirInv`, the part of the invariant the earlier theorems did not need: the
last image has the directory `updateDirectory` makes of the list, and never calls
the sectors of header and directory free. The invariant of all sessions,
`SessionInv`, is `WriteInv /\ DirectorySorted /\ ImageInv /\ DirInv`. A mount keeps
it although it takes the bitmap of the image, not that of memory, because
`CrashExposesOneFile` in its form between handlers (`Accounts`) says that this
bitmap has the sectors of every linked file; those of an unlinked one stay
allocated, which is why `NoLeak` is not among them.

### FoldLemmas

The code has loops over sequences, and the models use the folds of the community
modules for them. The library's induction theorems take an operator, which no
installed prover can instantiate; `FoldLemmas` therefore states induction for a
set (`SetInduction`: a set of numbers with 0 and the successor of each member is
`Nat`) and proves it from well-foundedness. `FoldExists` and `FoldSteps` use it to
show that the recursive function by which `FoldLeft` and its like are defined
exists, and that its result is the end of a sequence of partial results, one for
each step. Whatever holds of such a sequence can then be shown by
`BoundedInduction`. This is used in the proofs of DiskVolume (the list a
mount builds), Console (LDCR and the scan of a column), Cassette (the flush of
the shift register) and Records (the encoder).

### Console

CRU, TMS9901, the two timers, keyboard, interrupt acceptance and run loop, in
one module because every interrupt passes through all of them.

State. `bus` is the state of the CRU bits with handlers, the TMS9901
(`intActive`, `intDisabled`, `timerMode`, the set of bits in its timer register,
its timerfd) and `kbdColumn`. `vdp` is the interrupt enable bit, the retrace
status bit and the VDP's timerfd. `keys` is `keyState` and `alphaLock`; `held`
and `events` are what the user holds and what the input device has queued. `cpu`
is what interrupts see of the CPU: the mask, whether the interrupt routine runs,
whether the pc is at a jump to itself, and the same three in R13 to R15 of the
routine's workspace.

Actions. One iteration of `TI994A::run` is `Fetch`, which decides whether to
block, then `KbdPoll` and one of `PollVdp` and `PollTms9901` if it does, then
`Execute`, the whole of `TMS9900::execute`: one instruction and the acceptance
of an interrupt after it. The instructions are those that touch the state:
`Limi`, `CruOutput` (SBO, SBZ, LDCR as a sequence of bits), `CruGet`, `Rtwp`,
`SpinJump` (opcode >10FF), `VdpRegister`, `VdpStatus` and `OtherInstruction`.
Timers expire (`VdpExpires`, `Tms9901Expires`) and keys move (`PressKey`,
`ReleaseKey`) at any moment. A column output inputs every row, each on a CRU bit
with the TMS9901 handler, as the code does.

Abstractions. The program is any sequence of the instructions in `Program`, and
in its interrupt routine of those in `Handler`; the routine leaves the mask at
0 and ends with RTWP, which returns either to the instruction interrupted or
past it. The timer register is the set of its bits, and its remaining time is
any value. Left out: breakpoints, signals, LIMI with an immediate over 15, and
the cassette, which `_interrupt` also calls when bit 3 is input and which acts on
its WAV file only.

Properties:

- `ContextKept`: the interrupt routine is never interrupted, and the context it
  saved is the program's. The dangerous moment is RTWP, which restores the mask
  and takes a pending interrupt in one instruction.
- `NoStuckKeys`: when no key is held and all events are read, the matrix is
  clear, also after overlapping presses of keys that share positions.
- `RetraceNotLost`: a pending, enabled retrace interrupt goes away only when the
  program acknowledges it: not by a scan of the keyboard, whose rows are CRU
  bits 3 to 10, nor by anything else that shares the bits.
- `RetraceEndsWait`, `TimerEndsWait`: a program that jumps to itself gets the
  interrupt it waits for.

Fairness. The run loop is a thread (`WF` of `RunLoop`); the VDP's timer is
periodic and never stopped, the TMS9901's is periodic until stopped (`WF` of
both expiries). `timerPoll` serves one timer and looks at the VDP's first, so
the TMS9901's is starved if every poll finds both. `TimerEndsWait` therefore
has the premise that polls find the VDP's timer quiet again and again (the loop
comes back to the poll within microseconds of serving a 20 ms timer), with
strong fairness of `PollTms9901`: of the polls that could, some serve it.

Runs and bounds:

| Run | Configuration | Result |
|---|---|---|
| `console` | `MCConsole.cfg`: bits 2, 3, 7; rows 0 and 4; three keys, two of which share a position and one is alpha lock; one event in the queue | 3,853,448 states, all hold |
| `console_wait` | `MCConsoleWait.cfg`: no keys, a program that also disables, stops the timer and reads the status | 351,798 states, both hold |
| `console_read` | `MCConsoleRead.cfg`: a program that reads bits in timer mode | `StateIsInput` is violated |

Row 0 is on the timer's bit and row 4 on one of its own, which is also alpha
lock's; the bits outside behave as bit 7 does. One queued event is enough for
overlaps, since a key moves again as soon as the loop has read it. Every poll
the loop makes is possible at `InstPerInterrupt = 1`; `console_wait` uses 2, so
that a spinning program blocks for both reasons.

`console_read` shows that `cruBitGet` stores what the read handler returns: in
timer mode it replaces the stored input by a bit of the timer, which the comment
at the top of `cru.cc` says is kept apart.

`ConsoleProofs` proves three of these, and the types, for any program, routine,
rows and keys:

- `RoutineKeepsContext`: `[]ContextKept`. The inductive invariant `CpuInv` adds
  the type of `cpu` and `OpcodeFits`: between fetch and execute the opcode is
  one that the context allows, so that only the routine executes RTWP and its
  LIMI have mask 0. `AcceptKeeps` is the acceptance, used by every instruction.
- `KeysComeUp`: `[]NoStuckKeys`. `KeyInv` says that a position that is down
  belongs to a key that is held or whose release is queued (`DownHasKey`), which
  needs that a queued press is followed by its release unless the key is held
  (`PressesEnd`).

- `ConsoleTypes`: `[]TypeOK`.
- `RetraceIsKept`: `RetraceNotLost`. Each step is shown to keep the bit of the
  retrace active unless it is a write of 1 to that bit. The steps that need work
  are the two that are folds: an LDCR, of which any bit may select a column or
  leave timer mode, and the scan, which inputs row after row on bits that belong
  to interrupts. `OutputBitsFacts` and `ColumnUpdateFacts` carry what one output
  and one input do through the fold. No row is on the bit of the
  retrace, 2, because rows start at bit 3.

The two liveness properties are only model-checked.

### Fdd and FloppyDisk

The floppy controller and the image files behind its drives.

State. `reg` is the part of `fdd` that places accesses (track, sector, side,
unit, data register, direction of the last restore). `buffer` is `fdd.buffer`
with its position, and `diskSector` the one sector buffer reads and writes
share. `loaded` is the drives with a handler in `driveHandler`, `file` the drive
whose image `diskFile` has open, `image` the sectors of the image files.
`halted` is set when an ASSERT of `fddfile.cc` fails. `request` is no state of
the code: it records what the software asked for last and the bytes it got or
gave.

Actions. One per command of `fddWrite`, per register, for `fddRead` of the data
register (`ReadData`), for `fddWrite` of it with a buffer (`WriteBuffer`, which
writes the sector with its last byte) and without (`SetData`), for the CRU bits
(`SelectDrive`, `DeselectDrive`, `SelectSide`), and for loading an image between
two instructions (`Load`). Commands the code does not implement, and reads of
registers, change nothing and are left out.

The software is any sequence of these within the rules named in `Rules`, which
the code depends on: "select", it deselects a drive before it selects another;
"transfer", it completes the transfer of a sector or an ID before it asks for
anything else; "load", images are loaded into drives that are not selected.
Abstractions: accesses are to sectors on the disk, and images are those of full
double-sided disks.

`FloppyDisk` is what the software may rely on: an array of sectors per drive, a
request for one of them, and transfers of bytes, where a read gets what the
sector holds and a write replaces it as a whole with its last byte. `Fdd`
implements it with the disks seen through `Linear` (`seekDisk`).

Properties:

- `FileFollowsUnit`: the open image is that of the selected drive, if it has
  one. One variable stands for all drives, so this depends on the order of
  selections, deselections and loads.
- `SectorsWhole`: every behaviour is one of `FloppyDisk`. The position of a
  write is read when its last byte arrives, from registers any output may have
  changed, and its bytes are collected in the buffer the last read filled.
- `NoAssertFails`: selecting a drive finds no image open.

Runs and bounds:

| Run | Configuration | Result |
|---|---|---|
| `fdd` | `MCFdd.cfg`: all rules; 2 drives, one for reading only; 2 tracks and 2 sectors on each of 2 sides; sectors of 2 bytes; at most one sector that differs from the first image | 506,368 states, all hold |
| `fdd_select` | `MCFddSelect.cfg`: without "select" | `NoAssertFails` is violated |

With two tracks and two sectors each coordinate matters to a sector's place;
two bytes make a transfer that can be half done; a read-only drive has writes
that fail quietly; the two images differ, so that the wrong one shows.

`fdd_select` shows that `fddSetSelectDrive` moves to a new drive without
deselecting the old one. The comment on `diskFile` says one static file is "ok
because only one drive can be selected at a time", but nothing in the code
ensures it: two selections in a row end the emulator with "already open".

`FddProofs` proves, for any drives, geometry, bytes and images:

- `OpenImageIsSelected`: `[](FileFollowsUnit /\ NoAssertFails)` if the rules
  include "select" and "load".
- `FddTypes`: `[]TypeOK`, with or without the rules.
- `ControllerIsADisk`: `SectorsWhole` under all rules. The lemma
  `LinearInjective` says that no two sectors share a place in the image:
  `Row` numbers the tracks of both sides, and two different rows lie at least a
  track apart (`RowOrder`). The invariant `TransferInv` says that while the
  buffer is the sector's, position, place and drive are those of the request,
  the buffer holds the sector read, or begins with the bytes given. It is
  needed because the write happens at the end of the transfer, when the request
  is long past. There is a lemma for each step that is one of `FloppyDisk`
  (`ReadAsks`, `WriteAsks`, `ReadTakes`, `WriteGives`); all others stutter.

### Cpu

The instructions of the CPU, as functions on its state.

State. `cpu` is `_pc`, `_wp`, `_st` as the set of its bits, the memory that can
be written (`mem`, by even addresses) and the bits the last CRU instruction
sent (`out`). `last` is the instruction executed last and whether an interrupt
was pending after it; `count` bounds the run.

Actions. One per type of instruction, as `execute` decodes them
(`ExecuteImmediate` to `ExecuteDual2`), `ExecuteX` for the one that executes
another, and `Boot`. Each is a whole call of `execute`: the operands, where a
register that is incremented for the source is seen by the destination, the
result, the status, and the acceptance of an interrupt after it. The definitions
have the names of the functions they stand for: `Immediate`, `Single`, `Shift`,
`Jump`, `Dual1`, `Dual2`, `Blwp`, `Rtwp`, `Decoded` for `_operandDecode`,
`Compared` for `_compareWord` and `_compareByte`, `AllOf` and `AnyOf` for
`_jumpAnd` and `_jumpOr`.

Abstractions. Opcodes are not fetched from memory: the program is any sequence
of the instructions in `Program`, and an extra word of an instruction is part of
it. Any interrupt may be pending after any instruction unless the mask is 0, and
is of level 1, as `interruptLevel` has it; which device raises it is in Console.
Memory outside `Ram` holds what `Rom` says, ignores writes, and stands for
memory-mapped devices too. Words are integers modulo `WordSize` where the code
adds, and sets of bits where it masks and shifts (`BitsOf`, `WordOf`). Products
and quotients are computed a byte at a time, because TLC's integers have 32 bits
with a sign.

Properties:

- `OrderDecidesJumps`: after an instruction that compares, or stores a result,
  each of the eight jumps named for an order is taken exactly if that order
  holds of what is found in memory. Three status bits, the masks of twelve
  jumps, the width of the operands and what the instruction stores where must
  agree.
- `SumsAreExact`: carry and overflow of additions and subtractions say exactly
  whether the result is the sum, without and with signs.
- `ShiftsAreExact`: shifts are products, quotients and rotations, and carry is
  the last bit shifted out, for counts in the instruction and in R0, and 16.
- `DivisionUndoesProduct`: quotients and remainders multiply out, products
  divide back, a quotient that does not fit changes only the overflow bit.
- `ReturnUndoesCall`: RTWP right after BLWP or an interrupt restores pc, wp and
  st. The moment that matters is an interrupt after an instruction that itself
  changes one of the three: BLWP, RTWP, LWPI, LIMI, or one that X executes.

Runs and bounds:

| Run | Configuration | Result |
|---|---|---|
| `cpu` | `MCCpu.cfg`: two instructions out of 129 on 16-bit words; R1 and R2 hold pairs of values at the boundaries of words and bytes; R3 points to R2, to the low byte of a register, or to itself | 297,559 states, all hold |
| `cpu_ldcr` | `MCCpuLdcr.cfg`: transfers to and from the CRU | `WholeWordSent` is violated |

All instructions but SBO, SBZ and XOP leave words and status that a second one
uses; the samples are those at which carry, overflow and the order without and
with sign change, and a second instruction starts from the results of the first.

`cpu_ldcr` shows that a count of 0, which means 16, passes for "at most 8" in
`_executeDual1`: LDCR takes the high byte of its operand and sends it with eight
zeros. STCR likewise stores only the low byte.

Modelled as it is and not the subject of a run: ABS takes its arithmetic order
from the low byte; NEG and ABS set overflow for every negative word; LIMI does not mask its immediate; AB and SB never set
overflow; LDCR and STCR of at most 8 bits increment their register by 2.

`CpuProofs` proves, for any word size, memory and program:

- `WordsStayWords`: `[]TypeOK`. There is a lemma per kind of definition, from
  reads and writes up to `Effect` and `Accepted`: every one takes states to
  states.
- `ReturnsAreExact`: `ReturnUndoesCall`. It needs the types, because the context
  is stored as words, and that the three registers of the new workspace are
  different addresses of `Ram`, so that none of the three writes of `_blwp`
  undoes another.
- `JumpsFollowOrder`: after `Compared`, each of the eight jumps is taken exactly
  if its relation holds, for numbers of any width and any other status bits.
- `OrderIsFollowed`: `OrderDecidesJumps`. It joins `JumpsFollowOrder` to what
  each instruction leaves behind: that the value it compared is the one found in
  memory afterwards at the address of the result (`Shows`, a lemma per type of
  instruction), that a byte written at an odd or even address is read back
  there, that values of byte instructions are bytes, and that carry, overflow
  and parity are set without touching the bits of the order.

- `SumsAreKept`: `SumsAreExact`. The carry of `_addWord` and the like is shown to
  be the 17th bit of the sum and the overflow to say that the signed sum does not
  fit, for the operands as they were; `Shows` again finds the result.
- `ProductsAreExact`: `DivisionUndoesProduct`. Products and quotients are
  computed a byte at a time; the proof puts the bytes together and shows that
  quotient and remainder are the only ones there are.

One assumption, `ConversionAssumption`, states that `BitsOf` undoes `WordOf`, and
that bytes are the values of the lower half of the bits. These are facts about a
sum of powers of 2, and the provers give `2 ^ n` no meaning unless `n` is a
number. TLC evaluates them for all 65,536 sets of bits. For the same reason
`ShiftsAreExact` is only model-checked.

### The parts that share no state

The other parts have a module each and are checked by one run, `parts`, of
`MCParts`: it extends all of them, an initial state chooses one part, and every
step is a step of that part while the others stay as they start. The states are
therefore those of the parts added up, not multiplied. What the parts exchange
in the program (bytes at ports, CRU bits, interrupts) is an input of the part.
`PartsTypeOK` joins their type invariants.

#### Cassette

The recorder `cassette.cc` with its file `wav.cc`. `cassette` is the statics of
both and the file on disk, `levels` a record of the levels that were output. Actions:
`TimerExpired`, any input on CRU bit 3; `TapeOutput`, `TapeInput` and `Motor`,
the CRU bits; `Restart`. A wave of the modulation is reduced to its samples'
signs, which is what a reader looks at (`Encoding`, `Wave`).

- `LevelsSurvive`: every level output at an expiry is on the tape when the
  recording is closed, two waves later. A shift register of three levels
  delays it, and `fileCloseWrite` must flush the register first.
- `CounterIsRemaining`: what `cassette.h` says of `_sampleCount`, through
  headers, reads of one and of several samples, closing and loading again.

Two rules of the program are named in `TapeRules`, because the code depends on
them: "restart", a recording has an emulator of its own; "modulation", levels
last one cell or two. Without the first, these lines go wrong: `close` leaves
`_write` set and `_sampleCount` as it is, so that an input on bit 3 after a
recording uses a null FILE, a second recording gets the length of both, and a
tape that is loaded next is timed by the clock.

#### Sound and SampleQueue

`tones`, `linked` (`useTone3Freq`) and `latched` are what commands set;
`soundAux` with its two indices is the ring of cassette samples; `update` is
where the audio thread is in `soundUpdate`. `SoundWrite` has a disjunct per kind
of command, `SoundAuxData` puts a sample into the ring, and the thread's steps
are `CountAux` (to the first unlock), `PlayAux` (the second lock) and
`GenerateTone` (a channel's part of a sample). `Paced` is an assumption about
the environment: the ring holds half a second and samples come at the rate they
are played, so it never fills. The code does not look.

- `RingIsQueue`: the ring refines `SampleQueue`, a queue with a put and a take
  of a batch, through the mapping `Waiting`.
- `VolumeIsHeard`: every generator ends up with the volume last requested,
  unless cassette samples keep coming. A value is taken up only when the counter
  of a cycle is zero. Fairness: `WF` of the thread, which is a loop with a sleep.

#### Vdp

`vdp` is registers, memory, address, latch and status; the other variables are
the statics of the refresh. `UsePorts` is a sequence of accesses through
`vdpRead` and `vdpWrite`, `Refresh` is `vdpRefresh` with everything it draws
(text, graphics and bitmap mode, sprites of four sizes).

- `ScreenShowsMemory`: when no refresh is due, the screen is what would be drawn
  on an empty one. The code draws only after a write to an address it finds in
  a table, so this is about every flag and bound of `vdpWrite`, tables that
  overlap, and what the last mode left behind.
- `SpritesReported`: the coincidence and crowded-line bits of the status are
  those of the definition of sprites (`HasDot`, `On`), which is stated without
  the counters and maps of the code.

The sequences in `MCAccesses` avoid, and the two properties leave out, what the
code does differently: only half of the sprite patterns and 768 of the 960 cells
of text mode set the refresh flag; register 7 does not redraw the border of text
mode; 16x16 magnified sprites are drawn at overlapping places and counted twice
(`vdp.cc:567-577`); the second line of a magnified row is skipped when the first
is crowded; `spritesEnabled` is false until register 1 first changes.

#### Memory

`memory` is the three tables of `mem.cc` as far as they change, what is stored
by store and offset, and the device; `placed` says what was put in each `Place`
of the machine's memory map. `Store`, `SelectDevice`, `Load` and `MapFile` are
`memWrite`, `memDeviceRomSelect`, `memLoad` and `memMapFile`, with the page
tables and handlers (`MemMapEntry`, `BankSelect`, `DataWrite`); `PowerOn` is a
new start that keeps the mapped file.

- `MemoryKeepsWrites`: every address reads, as a byte and in a word, what was
  stored last in its place, through mirrors, banks, devices and loaded images.

`Load` remembers nothing in `placed` when the image is too long for its place,
since `memLoad` ends the emulator before it stored all of it.

As the code does, and as `Place` follows: a device stays selected for its
registers and for writes when its bit goes off (`mem.cc:221`), a bank write
removes a mapped mini-memory (`mem.cc:203`). Left out: images loaded at an
offset within a page, which go to its start, and images that start in a high
bank, whose length is not checked against the banks left.

#### Grom

`gRom` is the address with its two flags. `program` and `aim` are the program's
access in progress and where its accesses lead; `routine` is an interrupt
routine that saves the address, uses the port and restores it.

- `GromPlaceKept`: the routine leaves the program's place alone. What the port
  returns is one more than the address, and a half-written or half-read address
  leaves a flag behind.

#### Debugger

`breaks` and `conditions` are the tables of `break.cc` and `cond.cc`, `input`
the variables of the console's main loop, `run` and `cpu` the run loop with a
processor that does anything. `ReadScript` and `ReadKeyboard` are an iteration of
the loop with the command of the line, `RunStep`, `ClearRunFlag` (ctrl-C) and
`RunEnds` the run loop, `Quit` a new start. `asked` and `calls` record what the
user asked for and which scripts have not ended.

- `RunHeedsUser`: the run loop executes an instruction only if nothing the user
  asked for stops it, and comes back only if something does, or ctrl-C. Tables
  shift, are full, and a test of a change alters the entry.
- `ScriptsResume`: when a script ends its caller goes on, or the keyboard.

Scripts in the run exist and are nested two deep, because a third level loses
the outermost (`fpSave` is one place), and a script that calls a missing one
comes back to itself after it was closed (`console.cc:752-766`). Watches are left out:
`watchAdd` does not initialise what it compares with and `watchRemove` shifts
addresses only.

#### TapeTool

`OutputWav` is the layout of a tape, `DecodeBit` to `CompareCopies` the decoder
of `mltt-tape.cc`; a step reads a byte, `ReadGood`, or one with a wrong bit in
one of the copies, `ReadDamaged`.

- `TapeRestored`: the program is read back, or an error is reported that could
  not be fixed and that needs damage in both copies of a block.

Whole blocks only: `blockCount` is the size plus one in blocks, which loses the
tail of a program that does not fill its last block. Marks stay undamaged: a misaligned
mark resets `_errorsUnfixable` (`mltt-tape.cc:190`), and a copy whose preamble
is lost shifts the pairs. The FM decoder works on floating-point samples.

#### Basic and Records

Functions, checked over all listings and texts within bounds that steps build
line by line. `EncodeBasicProgram` and `DecodeBasicProgram` are the two
tokeniser programs, `EncodeDisVar` and `DecodeDisVar` the two directions of
`file_disvar.cc`; their helpers have the names of the functions they stand for.

- `BasicSurvives`: a program comes back, line by line; the table of lines holds
  absolute addresses of a program of unknown length, in descending order. The
  lines that are typed are those whose tokens say all of their text (`KeptWord`).
- `RecordsSurvive`: a text comes back, and no record crosses a sector.

Not survived, and not in `MCBodies`: GO SUB loses its SUB, the numbers of ON ...
GOTO behind the first become strings, spaces of REM and DATA are lost, a blank
line repeats the token before. In text files a last line without newline is
lost and one of more than 80 characters ends the program.

#### The run and its bounds

| Run | Configuration | Result |
|---|---|---|
| `parts` | `MCParts.cfg` | 188,290 states, all hold |

Cassette: cells of 3 samples, up to 4 levels, all their sequences. Sound: tone 2 and
the noise, which may follow it; periods to 3; a ring of 4 with batches of 2, so
both indices wrap; 3 commands. Vdp: 2 by 2 characters of 2 by 2 dots, 3 sprites of
which a line shows 2, 4 sequences of accesses; all modes, sizes and table
positions occur. Memory: real addresses at the ends of pages, mirrors and
banks, 3 steps. Grom: bytes to 4, addresses to 16, set at both ends and page
ends. Debugger: 4 scripts, 4 typed lines, tables of 2, 3 instructions. TapeTool:
two programs of two and one blocks of 2 bytes of 4 bits, any set of damaged copies. Basic: 3
lines of 7 kinds, numbers of 1 to 5 digits. Records: sectors of 8 bytes, records
to 6, 4 lines, so that a record can end at each byte of a sector.

#### Proofs

`PartsProofs` proves what follows of Grom, Sound, Memory, Cassette, Records and
Basic.

Grom, for bytes of any range and any addresses: `PlaceSurvivesRoutines`
(`[]GromPlaceKept`) and `GromTypes`. The invariant `Places` says where the
address and the flags are at each point of program and routine, and
`SavedIsAddress` that what the routine computes from the two bytes it read is
the address, also where the low byte and the address wrap.

Sound, for rings and batches of any size: `RingRefinesQueue`
(`RingIsQueue`) and `BatchIsThere`. The invariant is that a batch that was
counted is still there, since only the audio thread takes samples out; the work
is in `Distance` and `SlotBehind`, indices that wrap once, and in `PutStep` and
`PlayStep`, which compare the sequences slot by slot. The one assumption about
the environment is `Paced`.

Memory, for the machine's address map and any addresses, images, devices and
writes: `WritesAreKept` (`[]MemoryKeepsWrites`) and `MemoryTypes`. The invariant
`MemoryInv` says that for every place of the machine that holds bytes, the cell
of the tables that stands for it holds what was last put there (`Agree`), for
places that are banked out as well; the tables map each address to the cell of
its place (`Maps`), which is what a bank switch, a device or a mapped file must
keep. `MemoryKeepsWrites` looks only at addresses the program can reach now, and
so forgets what is hidden by a bank. That the correspondence of cells and places
is one to one (`CellOf`) is what keeps a write from showing at another place.
`MemoryAssumption` says that images and writes are bytes at addresses.

Cassette, for cells, flushes and recordings of any length:

- `LevelsAreKept` (`[]LevelsSurvive`), if the program keeps both rules and a cell
  and a flush have two samples or more. With one sample the state 010 would be
  heard as 0, because its wave starts at the zero crossing; the code's waves
  have 15 and more. The invariant `Recording` says of a recording in progress
  what `LevelsSurvive` says of a closed one, that is for all levels but the last
  two; these are in the shift register, and no three levels in a row are alike,
  so that the register never holds 111, whose wave is silent. At the close,
  `ClosedSurvives` follows the first of the eight dribble bits, which puts the
  last two levels behind the rest, and `FlushedGrows` shows that the other seven
  only add samples.
- `CounterKeepsCount` (`[]CounterIsRemaining`), if a recording has an emulator of
  its own. The invariant adds that a file open for writing has no header yet and
  counts its samples, that `_write` tells the mode of the file, and that a
  header counts what is on the tape.
- `CassetteTypes`.

`DebuggerProofs`, for tables of any size, any scripts and typed lines:
`RunStopsAsAsked` (`RunHeedsUser`) and `DebuggerTypes`. The invariant relates
each table to what was asked for: no address is twice in it, its addresses are
the ones asked for, and each condition has the kind and value asked for
(`BreaksOK`, `ConditionsOK`). `AddFacts`, `RemoveFacts` and `ConditionsTold` say
what adding, removing and evaluating do to that. It also says that the file
being read is one that was opened (`InputOK`), because the lines read from
there are what changes the tables. `DebuggerAssumption` says that lines parse.

`ScriptsGoOn` (`[]ScriptsResume`) is about scripts that call scripts. Its
hypothesis `ShallowScripts` is that a script that is called exists and calls
none itself: the code remembers one file to go back to, so a script called from
a called one would not return to the first. The invariant `PlaceOK` relates the
file being read and the one saved to the calls that were made: at the keyboard
none is open, in a script the keyboard is saved, and in a called script the
caller is, at the line after the call. `ScriptAssumption` says that no script
has the empty name, which stands for the keyboard.

Records, for sectors and records of any size with room for a length and an end
mark (`RecordsAssumption`) and texts of any length: `TextsSurvive`
(`[]RecordsSurvive`). The encoder is a fold; `EncodeSteps` gives its result after
each line and `EncoderInSector` says that what was written and the space left
fill a number of sectors. The decoder is a recursive function, which
`DecodingExists` shows to exist by induction on how much of the file is left.
`RecordFound` then says of one line that the decoder, set to where the encoder
stood before it, reads that line and goes on behind it, through an end mark
where there is one; `TextSurvives` follows by going back from the end of the
file, line by line.

Basic, for any number of lines and of words on a line, wherever the top of
memory is: `ProgramsSurvive` (`[]BasicSurvives`). `BasicAssumption` says which
lines: their code fits the byte that holds its length, and `KeptWord` holds of each
word in its place. That is what the code needs, not a choice of the proof: a
word that the keyword before does not expect is dropped, a line number comes
back as its digits, a string of digits as a number, and two names in a row run
together, because only a name behind CALL has a length. All other lines are
covered, also those that `MCBodies` has no example of. `TokenSteps` gives the
partial results of the encoder, `ExpectedIs` relates the keyword that it
remembers to the words before (`Expected`), and `PiecesInWhole` finds the bytes
of each word in the code of its line, and of each line in the code of the
program. The decoder goes by bytes and not by words: `DecoderPlaces` are the
states it can be in, between two words or within a name, and `PlacesGoOn` shows
that each leads to another one further on until all words are read, so that the
bytes of the line are enough steps (`LineDecoded`). `LineSurvives` and
`ProgramSurvives` add the place of the line, from the addresses in the table.

Only model-checked: `VolumeIsHeard`, which is liveness; TapeTool, whose numbers
are sums of powers (see Cpu); of Vdp `ScreenShowsMemory` and `SpritesReported`;
and `PartsTypeOK`, which is about all parts at once.

## Hazards without a property

`PROJECT.json` lists the hazards. These are known from reading the code, and no
property covers them:

- `mltt-fuse.cc:612`: libfuse runs handlers in several threads and nothing locks
  the volume.
- `diskfile.cc:143`: the last close of an unlinked file frees its sectors in
  memory only; an unmount before the next sync leaves them allocated.
- `diskvolume.cc:229`: a crash between the bitmap and the directory write of
  unlink leaves an entry whose sectors a later session may give to another file.
- `diskfile.cc:349`, `diskvolume.cc:130`: more than 23 chains, or more than 127
  files, do not fit their sector. `diskfile.cc:385`: a file on a full disk has a
  length that covers bytes never stored.
- `kbd.cc:235`: `RetraceNotLost` covers the vertical retrace; row 0 is on the
  bit of the timer interrupt, which a scan can clear or raise too. `kbd.cc:170`:
  the release of one of two virtual keys releases the FNCT or shift of both. `interrupt.cc:168`: disabling an interrupt leaves one
  that is pending. `interrupt.cc:112`: a timer just loaded may read one less.
- `fdd.cc:307`, `fdd.cc:159`, `fddfile.cc:47`, `fddfile.cc:39`: transfers left
  half done, steps beyond the last track, short images, images loaded into a
  selected drive: excluded by the rules and abstractions of Fdd.
- `sound.cc:340`: a fixed noise rate is set at once and overwritten by the
  requested one when the next cycle starts.
- `cassette.cc:83`, `mltt-tape.cc:190`, `mem.cc:221`, `watch.cc:90`,
  `console.cc:752`: see the sections above.

## Plan

What the sections above leave open, in order of what matters to the user's data
and to the running machine:

1. Disk volume: an abstract file store (a name map changed only by atomic add, remove
   and rename) that the image implements; the handlers interleaved, as libfuse's
   threads would.
2. Console composed with Cassette: the timer that paces a recording is also
   acknowledged and scanned by the program.
3. Fdd: short images, and the tracks a step can reach beyond the last.
4. Vdp: `ScreenShowsMemory` as a theorem. Its invariant has to say of every write
   that leaves the flag alone that no table of the picture has that address.
5. Cpu: the fetch of extra words from memory.
6. Debugger: watches, once they are initialised.

## Not modelled

Display and disassembly (`unasm.cc`, `gpl.cc`, `status.cc`, `textgraph.cc`,
`trace.cc`, `hexed.cc`, `mltt-disasm.cc`): output only, nothing in the machine
depends on it. Signal processing (`fir.cc`, `makewav.cc`, `fmdecode.cc`):
floating-point filters. Command-line parsing (`parse.cc`, the tools
`mltt-disk.cc` and `mltt-file.cc`): sequential drivers over the volume and the
file formats. TIFILES and FIAD headers (`files.cc`). `speech.cc`, `sams.cc`,
`diskchain.cc`, `file_ea3.cc`, `fdddir.cc`, `tests.cc`: stubs, empty, or not part of
the current build. The web page.
