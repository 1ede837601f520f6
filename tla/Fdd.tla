-------------------------------- MODULE Fdd --------------------------------
(***************************************************************************)
(* The floppy controller (fdd.cc) and the image files behind its drives    *)
(* (fddfile.cc), driven by the disk software of the console: any sequence  *)
(* of register accesses and drive selections, within the rules it keeps.   *)
(***************************************************************************)
EXTENDS Integers, Sequences, FiniteSets

CONSTANTS
  Drives,           \* 1 .. DISK_DRIVE_COUNT
  Tracks,           \* tracksPerSide
  SectorsPerTrack,
  SectorBytes,      \* DISK_BYTES_PER_SECTOR
  IdBytes,          \* the bytes of an ID, 6
  Values,           \* the bytes the software outputs
  Images,           \* the image files to begin with, of double-sided disks
  ReadOnly,         \* drives whose image is opened for reading
  Rules,            \* what the software and the user keep to
  MaxWritten        \* bound on the sectors that differ from Images

(* "select": a drive is selected when no other is.                         *)
(* "transfer": a transfer that was begun is completed before anything else *)
(* is asked of the controller.                                             *)
(* "load": an image is loaded into a drive that is not selected.           *)
AllRules == {"select", "transfer", "load"}

NoDrive == 0

Sector == [1 .. SectorBytes -> Values]
Blank == [i \in 1 .. SectorBytes |-> 0]
Locations == [side : {0, 1}, track : 0 .. Tracks - 1, sector : 0 .. SectorsPerTrack - 1]
ImageSectors == 0 .. 2 * Tracks * SectorsPerTrack - 1

ASSUME DriveAssumption == Drives \subseteq Nat \ {NoDrive} /\ ReadOnly \subseteq Drives
ASSUME GeometryAssumption ==
  /\ Tracks \in Nat \ {0} /\ SectorsPerTrack \in Nat \ {0}
  /\ SectorBytes \in Nat \ {0} /\ IdBytes \in Nat \ {0}
ASSUME ValueAssumption ==
  /\ Values \subseteq Nat /\ 0 \in Values
  /\ Images \in [Drives -> [ImageSectors -> Sector]]
ASSUME RuleAssumption == Rules \subseteq AllRules

VARIABLES
  reg,         \* track, sector, side, unit, data, direction
  buffer,      \* the buffer behind the data register, and the place in it
  diskSector,  \* the sector buffer
  loaded,      \* the drives with a handler
  file,        \* diskFile: the drive whose image is open
  image,       \* the sectors of the image files
  request,     \* what the software asked for last, the bytes it got or gave
  halted       \* an ASSERT failed and the program has exited

vars == <<reg, buffer, diskSector, loaded, file, image, request, halted>>

(* bufferLen, which is set with the buffer *)
BufferLen(b) == IF b = "sector" THEN SectorBytes ELSE IdBytes

(* Every variable has its type. *)
TypeOK ==
  /\ reg \in [track : Nat, sector : Values, side : {0, 1}, unit : Drives \cup {NoDrive},
              data : Values, inward : BOOLEAN]
  /\ reg.track <= Tracks \/ \E v \in Values : reg.track <= v
  /\ buffer \in [to : {"none", "sector", "id"}, pos : Nat]
  /\ buffer.to # "none" => buffer.pos < BufferLen(buffer.to)
  /\ diskSector \in Sector
  /\ loaded \subseteq Drives
  /\ file \in Drives \cup {NoDrive}
  /\ image \in [Drives -> [ImageSectors -> Sector]]
  /\ request \in [kind : {"done", "read", "write"}, drive : Drives \cup {NoDrive},
                  at : [side : {0, 1}, track : Nat, sector : Values], bytes : Seq(Values)]
  /\ halted \in BOOLEAN

-----------------------------------------------------------------------------
(* Image files                                                             *)

(* Mutant: the second side does not start behind the first. *)
LinearNoSide(l) ==
  l.sector + SectorsPerTrack * (IF l.side = 1 THEN Tracks - 1 - l.track ELSE l.track)

(* seekDisk: the place of a sector in an image.  The tracks of the second  *)
(* side are stored backwards.                                              *)
Linear(l) ==
  IF l.side = 1
  THEN l.sector + SectorsPerTrack * Tracks + (Tracks - 1 - l.track) * SectorsPerTrack
  ELSE l.sector + l.track * SectorsPerTrack

Addressed == [side |-> reg.side, track |-> reg.track, sector |-> reg.sector]

(* The handlers of the selected drive are called. *)
HasHandler == reg.unit \in loaded

(* The ASSERT of the handlers that the image is open *)
NotOpen == HasHandler /\ file = NoDrive

(* Accesses of sectors that are not on the disk are left out. *)
OnDisk == Addressed \in Locations

(* seekDisk and fileRead *)
DiskRead ==
  /\ OnDisk
  /\ halted' = NotOpen
  /\ diskSector' = IF HasHandler /\ ~NotOpen THEN image[file][Linear(Addressed)] ELSE diskSector

(* seekDisk and fileWrite of the sector s *)
DiskWrite(s) ==
  /\ OnDisk
  /\ halted' = NotOpen
  /\ image' = IF HasHandler /\ file \in Drives \ ReadOnly
              THEN [image EXCEPT ![file][Linear(Addressed)] = s] ELSE image

-----------------------------------------------------------------------------
(* The disk software                                                       *)

(* A request for the sector addressed, of the disk in the drive selected *)
Asked(k) ==
  [kind |-> k, at |-> Addressed, bytes |-> <<>>,
   drive |-> IF HasHandler THEN reg.unit ELSE NoDrive]

(* The request after one more byte of a kind of transfer *)
Transferred(k, b) ==
  IF request.kind # k THEN request
  ELSE [request EXCEPT !.bytes = Append(@, b),
                       !.kind = IF Len(request.bytes) + 1 = SectorBytes THEN "done" ELSE @]

(* Something other than a byte of a transfer may be sent. *)
Free == ~halted /\ ("transfer" \in Rules => buffer.to = "none")

(* The software may transfer a byte that is read, or written. *)
MayTransfer(k) == ~halted /\ ("transfer" \in Rules /\ buffer.to = "sector" => request.kind = k)

(* Bound: no more than MaxWritten sectors differ from Images. *)
Differing == {p \in Drives \X ImageSectors : image[p[1]][p[2]] # Images[p[1]][p[2]]}
Bounded == Cardinality(Differing \cup {<<reg.unit, Linear(Addressed)>>}) <= MaxWritten

-----------------------------------------------------------------------------
(* Commands                                                                *)

Init ==
  /\ reg = [track |-> 0, sector |-> 0, side |-> 0, unit |-> NoDrive, data |-> 0,
            inward |-> FALSE]
  /\ buffer = [to |-> "none", pos |-> 0]
  /\ diskSector = Blank
  /\ loaded = {}
  /\ file = NoDrive
  /\ image = Images
  /\ request = [kind |-> "done", drive |-> NoDrive,
                at |-> [side |-> 0, track |-> 0, sector |-> 0], bytes |-> <<>>]
  /\ halted = FALSE

SetRegisters(r) ==
  /\ Free
  /\ reg' = r
  /\ UNCHANGED <<buffer, diskSector, loaded, file, image, request, halted>>

(* Mutant: no track is the last. *)
TrackUpdateOn(inward) == IF inward THEN reg.track + 1 ELSE IF reg.track > 0 THEN reg.track - 1 ELSE 0

(* trackUpdate: the track after a step *)
TrackUpdate(inward) ==
  IF inward THEN (IF reg.track < Tracks THEN reg.track + 1 ELSE reg.track)
  ELSE (IF reg.track > 0 THEN reg.track - 1 ELSE 0)

Restore == SetRegisters([reg EXCEPT !.track = 0, !.inward = TRUE])
Seek == SetRegisters([reg EXCEPT !.track = reg.data])
Step == SetRegisters([reg EXCEPT !.track = TrackUpdate(reg.inward)])
StepIn == SetRegisters([reg EXCEPT !.track = TrackUpdate(TRUE)])
StepOut == SetRegisters([reg EXCEPT !.track = TrackUpdate(FALSE)])
SetTrack(v) == SetRegisters([reg EXCEPT !.track = v])
SetSector(v) == SetRegisters([reg EXCEPT !.sector = v])

ReadSector ==
  /\ Free
  /\ DiskRead
  /\ buffer' = [to |-> "sector", pos |-> 0]
  /\ request' = Asked("read")
  /\ UNCHANGED <<reg, loaded, file, image>>

WriteSector ==
  /\ Free /\ OnDisk /\ Bounded
  /\ buffer' = [to |-> "sector", pos |-> 0]
  /\ request' = Asked("write")
  /\ UNCHANGED <<reg, diskSector, loaded, file, image, halted>>

ReadId ==
  /\ Free
  /\ buffer' = [to |-> "id", pos |-> 0]
  /\ UNCHANGED <<reg, diskSector, loaded, file, image, request, halted>>

(* The bytes of the format go to the data register. *)
WriteTrack ==
  /\ Free
  /\ buffer' = [buffer EXCEPT !.to = "none"]
  /\ UNCHANGED <<reg, diskSector, loaded, file, image, request, halted>>

(* Mutant: the buffer ends one byte early. *)
NextPosEarly ==
  IF buffer.pos + 2 = BufferLen(buffer.to) THEN [to |-> "none", pos |-> 0]
  ELSE [buffer EXCEPT !.pos = @ + 1]

(* The data register's place after a byte *)
NextPos ==
  IF buffer.pos + 1 = BufferLen(buffer.to) THEN [to |-> "none", pos |-> 0]
  ELSE [buffer EXCEPT !.pos = @ + 1]

(* fddRead of the data register, which changes nothing without a buffer *)
ReadData ==
  /\ buffer.to # "none" /\ MayTransfer("read")
  /\ buffer' = NextPos
  /\ request' = IF buffer.to = "sector" THEN Transferred("read", diskSector[buffer.pos + 1]) ELSE request
  /\ UNCHANGED <<reg, diskSector, loaded, file, image, halted>>

(* fddWrite of the data register: a byte of a buffer, the last of which    *)
(* writes diskSector *)
WriteBuffer(v) ==
  /\ buffer.to # "none" /\ MayTransfer("write")
  /\ "transfer" \in Rules => buffer.to = "sector"
  /\ diskSector' = IF buffer.to = "sector" THEN [diskSector EXCEPT ![buffer.pos + 1] = v] ELSE diskSector
  /\ buffer' = NextPos
  /\ IF buffer'.to = "none" THEN DiskWrite(diskSector') ELSE UNCHANGED <<image, halted>>
  /\ request' = IF buffer.to = "sector" THEN Transferred("write", v) ELSE request
  /\ UNCHANGED <<reg, loaded, file>>

SetData(v) == buffer.to = "none" /\ SetRegisters([reg EXCEPT !.data = v])

-----------------------------------------------------------------------------
(* CRU bits and loading                                                    *)

(* Mutant: the drive that was selected stays selected. *)
DeselectKeepsUnit(d) == reg

(* The registers when drive d is deselected *)
Deselected(d) == [reg EXCEPT !.unit = NoDrive]

(* fddSetSelectDrive and fileSelect *)
SelectDrive(d) ==
  /\ Free
  /\ reg.unit # d
  /\ "select" \in Rules => reg.unit = NoDrive
  /\ reg' = [reg EXCEPT !.unit = d]
  /\ halted' = (d \in loaded /\ file # NoDrive)
  /\ file' = IF d \in loaded /\ file = NoDrive THEN d ELSE file
  /\ UNCHANGED <<buffer, diskSector, loaded, image, request>>

(* fddSetSelectDrive and fileDeselect *)
DeselectDrive(d) ==
  /\ Free
  /\ reg.unit = d
  /\ reg' = Deselected(d)
  /\ halted' = NotOpen
  /\ file' = IF HasHandler THEN NoDrive ELSE file
  /\ UNCHANGED <<buffer, diskSector, loaded, image, request>>

SelectSide(v) == SetRegisters([reg EXCEPT !.side = v])

(* diskFileLoad, between two instructions of the software *)
Load(d) ==
  /\ ~halted
  /\ d \notin loaded
  /\ "load" \in Rules => d # reg.unit
  /\ loaded' = loaded \cup {d}
  /\ UNCHANGED <<reg, buffer, diskSector, file, image, request, halted>>

Commands ==
  \/ Restore \/ Seek \/ Step \/ StepIn \/ StepOut
  \/ ReadSector \/ WriteSector \/ ReadId \/ WriteTrack

Next ==
  \/ Commands
  \/ ReadData
  \/ \E v \in Values : SetTrack(v) \/ SetSector(v) \/ WriteBuffer(v) \/ SetData(v)
  \/ \E d \in Drives : SelectDrive(d) \/ DeselectDrive(d) \/ Load(d)
  \/ \E v \in {0, 1} : SelectSide(v)

Spec == Init /\ [][Next]_vars

-----------------------------------------------------------------------------
(* Properties                                                              *)

(* The image that is open is that of the drive selected, if it has one.    *)
FileFollowsUnit == file = IF HasHandler THEN reg.unit ELSE NoDrive

(* The image files keep "static state even though we have multiple drives. *)
(* This is ok because only one drive can be selected at a time": when a    *)
(* drive is selected no image is open, as the ASSERT says.                 *)
NoAssertFails == ~halted

(* The disks as the software sees them *)
Disks == [d \in Drives |-> [l \in Locations |-> image[d][Linear(l)]]]

Floppy == INSTANCE FloppyDisk WITH disk <- Disks

(* Software that keeps the rules has a disk of sectors: a read gets what   *)
(* was written there last, and a write changes one sector of one drive,    *)
(* as a whole.                                                             *)
SectorsWhole == Floppy!Spec
=============================================================================
