------------------------------- MODULE Memory -------------------------------
(* The memory of the processor (src/mem.cc): the table of pages with its    *)
(* two tables for parts of a page, the ROM banks of cartridges and devices, *)
(* the mini-memory, which is a file mapped at >7000, and loading.           *)
(* Addresses, pages and masks are those of the code; a run picks some       *)
(* addresses.  What is at the ports of other devices is not memory.         *)
EXTENDS Integers, Sequences

CONSTANTS
  Addresses,   \* addresses that are looked at
  Stores,      \* what software writes: [addr, bytes], one byte or two
  Selections,  \* CRU bits of devices with a ROM: >880 (1) and >F00 (14)
  Images,      \* what is loaded: [addr, bank, length, fill]
  MaxMemory    \* bound on the steps before the emulator starts again

Below(n) == {i \in Nat : i < n}
Address == Below(65536)
Octet == Below(256)

(* An image goes to the start of a page, and into the banks there are.      *)
ASSUME MemoryAssumption ==
  /\ Addresses \subseteq Address /\ Selections \subseteq Nat /\ MaxMemory \in Nat
  /\ \A store \in Stores :
       /\ store.addr \in Address
       /\ store.bytes \in Seq(Octet) /\ Len(store.bytes) \in 1 .. 2
  /\ \A image \in Images :
       /\ image.addr \in {0, 8192, 16384, 24576, 40960, 49152, 57344}
       /\ image.length \in Nat /\ image.bank \in Nat
       /\ DOMAIN image.fill \subseteq Below(image.length)
       /\ \A i \in DOMAIN image.fill : image.fill[i] \in Octet
       /\ image.addr = 24576 => image.bank * 8192 + image.length <= 64 * 8192
       /\ image.addr = 16384 => image.bank < 16

VARIABLES
  memory,       \* the tables and what is stored
  placed,       \* history: what is in each place, see Place
  memorySteps

memoryVars == <<memory, placed, memorySteps>>

PoweredOn ==
  [data |-> <<>>,        \* bytes that were stored, by store and offset
   split |-> TRUE,       \* mapMain[3].submap
   bank |-> 0,           \* mapMain[3].data
   mapped |-> FALSE,     \* mmapRegion, mapCart[1].data
   device |-> 0,         \* deviceSelected
   deviceRom |-> 0,      \* mapMain[2].data
   halted |-> FALSE]

Sam == 14        \* the device whose ROM can be written

(* A page: where its bytes are, and what a read and a write do.             *)
Page(store, base, mask, write) ==
  [store |-> store, base |-> base, mask |-> mask, write |-> write]

Port == Page("none", 0, 3, "elsewhere")

(* mapMmio, mapCart and mapMain.  bankSelect removes mapCart.               *)
MapMmio(page) ==
  IF page = 0 THEN Page("scratch", 0, 255, "store") ELSE Port

MapCart(m, half) ==
  IF half = 0 THEN Page("cartridge", 0, 4095, "bank")
  ELSE Page(IF m.mapped THEN "file" ELSE "cartridge", IF m.mapped THEN 0 ELSE 4096, 4095, "file")

MapMain(m, page) ==
  CASE page = 0 -> Page("console", 0, 8191, "ignore")
    [] page = 1 -> Page("ram", 0, 8191, "store")
    [] page = 2 -> Page("device", m.deviceRom * 8192, 8191, "device")
    [] page = 3 -> Page("cartridge", m.bank * 8192, 8191, "bank")
    [] OTHER -> Page("ram", (page - 4) * 8192, 8191, "store")

(* memMapEntry                                                              *)
MemMapEntry(m, addr) ==
  LET page == addr \div 8192
      rest == addr % 8192
  IN  CASE page = 3 /\ m.split -> MapCart(m, rest \div 4096)
        [] page = 4 -> MapMmio(rest \div 1024)
        [] OTHER -> MapMain(m, page)

Cell(page, offset) == <<page.store, page.base + offset>>

(* The function f where it is defined, and else g                           *)
Overlay(f, g) == [x \in DOMAIN f \cup DOMAIN g |-> IF x \in DOMAIN f THEN f[x] ELSE g[x]]

Stored(m, cell) == IF cell \in DOMAIN m.data THEN m.data[cell] ELSE 0

(* dataRead: the bytes of a word start at an even address.                  *)
DataRead(m, page, offset, size) ==
  LET first == IF size = 2 THEN offset - (offset % 2) ELSE offset
  IN  [i \in 1 .. size |-> Stored(m, Cell(page, first + i - 1))]

(* Mutant: a word goes to the odd address it was written to.                *)
DataWriteUnaligned(m, page, offset, bytes) ==
  [m EXCEPT !.data = Overlay([i \in {Cell(page, offset + j - 1) : j \in DOMAIN bytes} |->
                                bytes[i[2] - page.base - offset + 1]], @)]

DataWrite(m, page, offset, bytes) ==
  LET first == IF Len(bytes) = 2 THEN offset - (offset % 2) ELSE offset
  IN  [m EXCEPT !.data = Overlay([c \in {Cell(page, first + i - 1) : i \in DOMAIN bytes} |->
                                    bytes[c[2] - page.base - first + 1]], @)]

(* bankSelect: a bank for each even offset up to >7E.                       *)
BankSelect(m, offset) ==
  [m EXCEPT !.bank = (offset % 128) \div 2, !.split = FALSE]

(* deviceRead and deviceWrite: the last 16 bytes are the disk controller's. *)
Registers(m, offset) == m.device = 1 /\ offset >= 8176

MemRead(m, addr, size) ==
  LET page == MemMapEntry(m, addr) IN DataRead(m, page, addr % (page.mask + 1), size)

MemWrite(m, addr, bytes) ==
  LET page == MemMapEntry(m, addr)
      offset == addr % (page.mask + 1)
  IN  CASE page.write = "store" -> DataWrite(m, page, offset, bytes)
        [] page.write = "bank" -> BankSelect(m, offset)
        [] page.write = "file" -> IF m.mapped THEN DataWrite(m, page, offset, bytes)
                                  ELSE [m EXCEPT !.halted = TRUE]
        [] page.write = "device" /\ m.device = Sam /\ ~Registers(m, offset) ->
             DataWrite(m, page, offset, bytes)
        [] OTHER -> m   \* invalidWrite, and the devices

(* memDeviceRomSelect: the device stays selected when its bit goes off, but *)
(* for its ROM.                                                             *)
MemDeviceRomSelect(m, index, state) ==
  LET device == (index \div 128) % 16
  IN  [m EXCEPT !.device = device, !.deviceRom = IF state = 0 THEN 0 ELSE device]

(* memLoad: where the first byte goes, how many may follow, and where byte  *)
(* i of the file is stored.  An image longer than 8K fills several banks.   *)
LoadBase(m, addr, bank) ==
  CASE addr = 24576 -> <<"cartridge", bank * 8192>>
    [] addr = 16384 -> <<"device", bank * 8192>>
    [] OTHER -> LET page == MemMapEntry(m, addr) IN <<page.store, page.base>>

LoadMax(addr) ==
  CASE addr = 24576 -> 64 * 8192
    [] addr = 40960 -> 3 * 8192
    [] OTHER -> 8192

Loaded(m, image) ==
  LET base == LoadBase(m, image.addr, image.bank)
  IN  IF image.length > LoadMax(image.addr) THEN [m EXCEPT !.halted = TRUE]
      ELSE [m EXCEPT !.data =
              Overlay([cell \in {<<base[1], base[2] + i>> : i \in DOMAIN image.fill} |->
                         image.fill[cell[2] - base[2]]], @)]

(* memMapFile; a second file halts the emulator.                            *)
MemMapFile(m) ==
  IF m.mapped THEN [m EXCEPT !.halted = TRUE] ELSE [m EXCEPT !.mapped = TRUE]
-----------------------------------------------------------------------------
(* The memory map of the hardware: the place that an address stands for.    *)
Place(m, addr) ==
  IF addr < 8192 THEN <<"console", 0, addr>>
  ELSE IF addr < 16384 THEN <<"ram", 0, addr>>
  ELSE IF addr < 24576 THEN <<"device", m.deviceRom, addr>>
  ELSE IF addr >= 28672 /\ addr < 32768 /\ m.mapped /\ m.split THEN <<"file", 0, addr>>
  ELSE IF addr < 32768 THEN <<"cartridge", m.bank, addr>>
  ELSE IF addr < 33792 THEN <<"scratch", 0, addr % 256>>
  ELSE IF addr < 40960 THEN <<"port", 0, addr>>
  ELSE <<"ram", 0, addr>>

IsPort(m, addr) ==
  \/ Place(m, addr)[1] = "port"
  \/ Place(m, addr)[1] = "device" /\ Registers(m, addr % 8192)

(* What is not ROM.  A deselected SAMS card is still written to.            *)
Writable(m, addr) ==
  \/ Place(m, addr)[1] \in {"ram", "scratch", "file"}
  \/ Place(m, addr)[1] = "device" /\ m.device = Sam

Even(addr) == addr - (addr % 2)

Written(m, addr, bytes) ==
  LET first == IF Len(bytes) = 2 THEN Even(addr) ELSE addr
      PlaceOf(i) == Place(m, first + i - 1)
  IN  [p \in {PlaceOf(i) : i \in DOMAIN bytes} |-> bytes[CHOOSE i \in DOMAIN bytes : PlaceOf(i) = p]]

(* An image is a new cartridge, a new device, or what is at an address.     *)
ImagePlace(m, image, i) ==
  CASE image.addr = 24576 -> <<"cartridge", image.bank + i \div 8192, 24576 + (i % 8192)>>
    [] image.addr = 16384 -> <<"device", image.bank, 16384 + i>>
    [] OTHER -> Place(m, image.addr + i)

ImagePlaces(m, image) ==
  LET PlaceOf(i) == ImagePlace(m, image, i)
  IN  [p \in {PlaceOf(i) : i \in DOMAIN image.fill} |->
         image.fill[CHOOSE i \in DOMAIN image.fill : PlaceOf(i) = p]]
-----------------------------------------------------------------------------
Step(m, there) ==
  /\ ~memory.halted
  /\ memorySteps < MaxMemory /\ memorySteps' = memorySteps + 1
  /\ memory' = m
  /\ placed' = Overlay(there, placed)

Store(store) ==
  Step(MemWrite(memory, store.addr, store.bytes),
       IF Writable(memory, store.addr) THEN Written(memory, store.addr, store.bytes) ELSE <<>>)

SelectDevice(index, state) == Step(MemDeviceRomSelect(memory, index, state), <<>>)

Load(image) ==
  Step(Loaded(memory, image),
       IF image.length > LoadMax(image.addr) THEN <<>> ELSE ImagePlaces(memory, image))

MapFile == Step(MemMapFile(memory), <<>>)

(* The emulator ends, or halted, and starts again; the mapped file is kept. *)
PowerOn ==
  LET OfFile(f) == [c \in {d \in DOMAIN f : d[1] = "file"} |-> f[c]]
  IN  /\ memory' = [PoweredOn EXCEPT !.data = OfFile(memory.data)]
      /\ placed' = OfFile(placed)
      /\ memorySteps' = 0

MemoryInit == memory = PoweredOn /\ placed = <<>> /\ memorySteps = 0

MemoryNext ==
  \/ \E store \in Stores : Store(store)
  \/ \E index \in Selections, state \in {0, 1} : SelectDevice(index, state)
  \/ \E image \in Images : Load(image)
  \/ MapFile
  \/ PowerOn
-----------------------------------------------------------------------------
MemoryTypeOK ==
  /\ DOMAIN memory.data \subseteq
       {"console", "ram", "device", "cartridge", "file", "scratch"} \X Below(64 * 8192)
  /\ \A cell \in DOMAIN memory.data : memory.data[cell] \in Octet
  /\ memory.bank \in Below(64) /\ {memory.device, memory.deviceRom} \subseteq Below(16)

(* Every address reads as the last byte that was stored in the place it     *)
(* stands for, through any address of that place, as a byte or as part of a *)
(* word, whatever was selected, mapped, loaded or written to ROM in between *)
(* and, in the mapped file, after a restart.                                *)
MemoryKeepsWrites ==
  ~memory.halted =>
    \A addr \in {a \in Addresses : ~IsPort(memory, a)} :
      LET There(a) == LET p == Place(memory, a)
                      IN  IF p \in DOMAIN placed THEN placed[p] ELSE 0
      IN  /\ MemRead(memory, addr, 1) = <<There(addr)>>
          /\ MemRead(memory, addr, 2) = <<There(Even(addr)), There(Even(addr) + 1)>>
=============================================================================
