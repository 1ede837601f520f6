----------------------------- MODULE FddProofs -----------------------------
(***************************************************************************)
(* For disks of any geometry and any number of drives: as long as drives   *)
(* are deselected first, the open image is that of the drive selected; and *)
(* if transfers are completed too, the controller implements FloppyDisk.   *)
(***************************************************************************)
EXTENDS Fdd, SequenceTheorems, TLAPS

-----------------------------------------------------------------------------
(* Registers                                                               *)

Registers ==
  [track : Nat, sector : Values, side : {0, 1}, unit : Drives \cup {NoDrive},
   data : Values, inward : BOOLEAN]

(* The commands and outputs that only change registers *)
RegisterStep ==
  \/ Restore \/ Seek \/ Step \/ StepIn \/ StepOut
  \/ \E v \in Values : SetTrack(v) \/ SetSector(v) \/ SetData(v)
  \/ \E v \in {0, 1} : SelectSide(v)

LEMMA DrivesNotNone == NoDrive \notin Drives
  BY DriveAssumption DEF NoDrive

LEMMA RegisterFields ==
  ASSUME NEW r \in Registers
  PROVE  /\ \A t \in Nat : [r EXCEPT !.track = t] \in Registers /\ [r EXCEPT !.track = t].unit = r.unit
         /\ \A t \in Nat, b \in BOOLEAN :
              [r EXCEPT !.track = t, !.inward = b] \in Registers
              /\ [r EXCEPT !.track = t, !.inward = b].unit = r.unit
         /\ \A v \in Values : [r EXCEPT !.sector = v] \in Registers /\ [r EXCEPT !.sector = v].unit = r.unit
         /\ \A v \in Values : [r EXCEPT !.data = v] \in Registers /\ [r EXCEPT !.data = v].unit = r.unit
         /\ \A v \in {0, 1} : [r EXCEPT !.side = v] \in Registers /\ [r EXCEPT !.side = v].unit = r.unit
         /\ \A d \in Drives \cup {NoDrive} :
              [r EXCEPT !.unit = d] \in Registers /\ [r EXCEPT !.unit = d].unit = d
  BY DEF Registers

LEMMA RegisterSteps ==
  ASSUME reg \in Registers, RegisterStep
  PROVE  /\ Free
         /\ reg' \in Registers /\ reg'.unit = reg.unit
         /\ UNCHANGED <<buffer, diskSector, loaded, file, image, request, halted>>
<1>1. \A i \in BOOLEAN : TrackUpdate(i) \in Nat
  BY GeometryAssumption DEF TrackUpdate, Registers
<1>2. reg.data \in Nat /\ reg.inward \in BOOLEAN /\ Values \subseteq Nat
  BY ValueAssumption DEF Registers
<1>3. ASSUME NEW r \in Registers, r.unit = reg.unit, SetRegisters(r)
      PROVE  /\ Free
             /\ reg' \in Registers /\ reg'.unit = reg.unit
             /\ UNCHANGED <<buffer, diskSector, loaded, file, image, request, halted>>
  BY <1>3 DEF SetRegisters
<1>4. ASSUME NEW t \in Nat, SetRegisters([reg EXCEPT !.track = t])
      PROVE  /\ Free
             /\ reg' \in Registers /\ reg'.unit = reg.unit
             /\ UNCHANGED <<buffer, diskSector, loaded, file, image, request, halted>>
  <2>1. [reg EXCEPT !.track = t] \in Registers /\ [reg EXCEPT !.track = t].unit = reg.unit
    BY RegisterFields
  <2> QED BY <1>3, <1>4, <2>1
<1>5. CASE Restore
  <2>1. /\ [reg EXCEPT !.track = 0, !.inward = TRUE] \in Registers
        /\ [reg EXCEPT !.track = 0, !.inward = TRUE].unit = reg.unit
    BY RegisterFields
  <2> QED BY <1>3, <1>5, <2>1 DEF Restore
<1>6. CASE Seek \/ Step \/ StepIn \/ StepOut
  <2>1. TrackUpdate(reg.inward) \in Nat /\ TrackUpdate(TRUE) \in Nat /\ TrackUpdate(FALSE) \in Nat
    BY <1>1, <1>2
  <2> QED BY <1>2, <1>4, <1>6, <2>1 DEF Seek, Step, StepIn, StepOut
<1>7. ASSUME NEW v \in Values, SetTrack(v) \/ SetSector(v) \/ SetData(v)
      PROVE  /\ Free
             /\ reg' \in Registers /\ reg'.unit = reg.unit
             /\ UNCHANGED <<buffer, diskSector, loaded, file, image, request, halted>>
  <2>1. /\ [reg EXCEPT !.sector = v] \in Registers /\ [reg EXCEPT !.sector = v].unit = reg.unit
        /\ [reg EXCEPT !.data = v] \in Registers /\ [reg EXCEPT !.data = v].unit = reg.unit
    BY RegisterFields
  <2>2. CASE SetTrack(v)
    BY <1>2, <1>4, <2>2 DEF SetTrack
  <2>3. CASE SetSector(v)
    BY <1>3, <2>1, <2>3 DEF SetSector
  <2>4. CASE SetData(v)
    BY <1>3, <2>1, <2>4 DEF SetData
  <2> QED BY <1>7, <2>2, <2>3, <2>4
<1>8. ASSUME NEW v \in {0, 1}, SelectSide(v)
      PROVE  /\ Free
             /\ reg' \in Registers /\ reg'.unit = reg.unit
             /\ UNCHANGED <<buffer, diskSector, loaded, file, image, request, halted>>
  <2>1. [reg EXCEPT !.side = v] \in Registers /\ [reg EXCEPT !.side = v].unit = reg.unit
    BY RegisterFields
  <2> QED BY <1>3, <1>8, <2>1 DEF SelectSide
<1> QED BY <1>5, <1>6, <1>7, <1>8 DEF RegisterStep

-----------------------------------------------------------------------------
(* The open image                                                          *)

Selects == {"select", "load"} \subseteq Rules

FileInv ==
  /\ reg \in Registers
  /\ loaded \subseteq Drives
  /\ FileFollowsUnit
  /\ NoAssertFails

LEMMA FileInvInit == Init => FileInv
<1> SUFFICES ASSUME Init PROVE FileInv
  OBVIOUS
<1>1. reg \in Registers /\ reg.unit = NoDrive
  BY ValueAssumption DEF Init, Registers
<1> QED BY <1>1 DEF Init, FileInv, FileFollowsUnit, NoAssertFails, HasHandler

LEMMA FileInvNext ==
  ASSUME Selects, FileInv, [Next]_vars PROVE FileInv'
<1> USE DrivesNotNone DEF FileInv, FileFollowsUnit, NoAssertFails, HasHandler
<1>1. CASE UNCHANGED <<loaded, file, halted>> /\ reg' \in Registers /\ reg'.unit = reg.unit
  BY <1>1
<1>2. ~NotOpen
  BY DEF NotOpen
<1>3. CASE RegisterStep
  BY <1>1, <1>3, RegisterSteps
<1>4. CASE ReadSector
  BY <1>2, <1>4 DEF ReadSector, DiskRead
<1>5. CASE WriteSector \/ ReadId \/ WriteTrack \/ ReadData
  BY <1>1, <1>5 DEF WriteSector, ReadId, WriteTrack, ReadData
<1>6. ASSUME NEW v \in Values, WriteBuffer(v) PROVE FileInv'
  <2>1. halted' = FALSE
    BY <1>2, <1>6 DEF WriteBuffer, DiskWrite
  <2> QED BY <1>6, <2>1 DEF WriteBuffer
<1>7. ASSUME NEW d \in Drives, SelectDrive(d) PROVE FileInv'
  <2>1. reg.unit = NoDrive /\ file = NoDrive
    BY <1>7 DEF SelectDrive, Selects
  <2>2. reg' \in Registers /\ reg'.unit = d
    BY <1>7, RegisterFields DEF SelectDrive
  <2>3. halted' = FALSE /\ loaded' = loaded /\ file' = IF d \in loaded THEN d ELSE NoDrive
    BY <1>7, <2>1 DEF SelectDrive
  <2> QED BY <2>2, <2>3
<1>8. ASSUME NEW d \in Drives, DeselectDrive(d) PROVE FileInv'
  <2>1. reg' \in Registers /\ reg'.unit = NoDrive
    BY <1>8, RegisterFields DEF DeselectDrive, Deselected
  <2> QED BY <1>2, <1>8, <2>1 DEF DeselectDrive
<1>9. ASSUME NEW d \in Drives, Load(d) PROVE FileInv'
  BY <1>9 DEF Load, Selects
<1>10. CASE UNCHANGED vars
  BY <1>1, <1>10 DEF vars
<1> QED
  BY <1>3, <1>4, <1>5, <1>6, <1>7, <1>8, <1>9, <1>10 DEF Next, Commands, RegisterStep

(* Software that deselects a drive before it selects another, and a user   *)
(* who loads no image into a drive that is selected, always find the image *)
(* of the selected drive open, and no ASSERT of fddfile.cc fails.          *)
THEOREM OpenImageIsSelected ==
  ASSUME Selects PROVE Spec => [](FileFollowsUnit /\ NoAssertFails)
<1>1. FileInv /\ [Next]_vars => FileInv'
  BY FileInvNext
<1>2. FileInv => FileFollowsUnit /\ NoAssertFails
  BY DEF FileInv
<1> QED BY FileInvInit, <1>1, <1>2, PTL DEF Spec

-----------------------------------------------------------------------------
(* Places in an image                                                      *)

LEMMA RowOrder ==
  ASSUME NEW a \in Nat, NEW b \in Nat, NEW n \in Nat, a < b
  PROVE  a * n + n <= b * n
<1>1. PICK k \in Nat : b = a + 1 + k
  <2>1. b - (a + 1) \in Nat /\ b = a + 1 + (b - (a + 1))
    OBVIOUS
  <2> QED BY <2>1
<1>2. (a + 1 + k) * n = a * n + n + k * n
  OBVIOUS
<1>3. k * n \in Nat
  OBVIOUS
<1> QED BY <1>1, <1>2, <1>3

(* The tracks of both sides, in the order of the image *)
Row(l) == IF l.side = 1 THEN 2 * Tracks - 1 - l.track ELSE l.track

LEMMA LinearRow ==
  ASSUME NEW l \in Locations
  PROVE  /\ Row(l) \in 0 .. 2 * Tracks - 1
         /\ l.sector \in 0 .. SectorsPerTrack - 1
         /\ Linear(l) = Row(l) * SectorsPerTrack + l.sector
<1>1. /\ Tracks \in Nat \ {0} /\ SectorsPerTrack \in Nat \ {0}
      /\ l.side \in {0, 1} /\ l.track \in 0 .. Tracks - 1 /\ l.sector \in 0 .. SectorsPerTrack - 1
  BY GeometryAssumption DEF Locations
<1>2. CASE l.side = 1
  <2>1. SectorsPerTrack * Tracks + (Tracks - 1 - l.track) * SectorsPerTrack
          = (2 * Tracks - 1 - l.track) * SectorsPerTrack
    BY <1>1
  <2> QED BY <1>1, <1>2, <2>1 DEF Row, Linear
<1>3. CASE l.side # 1
  BY <1>1, <1>3 DEF Row, Linear
<1> QED BY <1>2, <1>3

LEMMA LinearInImage ==
  ASSUME NEW l \in Locations PROVE Linear(l) \in ImageSectors
<1> DEFINE n == SectorsPerTrack
<1>1. /\ Row(l) \in Nat /\ 2 * Tracks \in Nat /\ n \in Nat \ {0} /\ Row(l) < 2 * Tracks
      /\ l.sector \in 0 .. n - 1 /\ Linear(l) = Row(l) * n + l.sector
  BY LinearRow, GeometryAssumption
<1>2. Row(l) * n + n <= (2 * Tracks) * n
  BY <1>1, RowOrder
<1>3. Row(l) * n \in Nat /\ (2 * Tracks) * n \in Nat
  BY <1>1
<1>4. Linear(l) \in 0 .. (2 * Tracks) * n - 1
  BY <1>1, <1>2, <1>3
<1> QED BY <1>4 DEF ImageSectors

(* No two sectors of a disk share a place in its image. *)
LEMMA LinearInjective ==
  ASSUME NEW k \in Locations, NEW l \in Locations, Linear(k) = Linear(l)
  PROVE  k = l
<1> DEFINE n == SectorsPerTrack
<1>1. /\ Row(k) \in Nat /\ Row(l) \in Nat /\ n \in Nat
      /\ k.sector \in 0 .. n - 1 /\ l.sector \in 0 .. n - 1
      /\ Row(k) * n + k.sector = Row(l) * n + l.sector
  BY LinearRow, GeometryAssumption
<1>2. Row(k) * n \in Nat /\ Row(l) * n \in Nat
  BY <1>1
<1>3. ~(Row(k) < Row(l))
  <2>1. Row(k) < Row(l) => Row(k) * n + n <= Row(l) * n
    BY <1>1, RowOrder
  <2> QED BY <1>1, <1>2, <2>1
<1>4. ~(Row(l) < Row(k))
  <2>1. Row(l) < Row(k) => Row(l) * n + n <= Row(k) * n
    BY <1>1, RowOrder
  <2> QED BY <1>1, <1>2, <2>1
<1>5. Row(k) = Row(l)
  BY <1>1, <1>3, <1>4
<1>6. k.sector = l.sector
  BY <1>1, <1>2, <1>5
<1>7. /\ k.side \in {0, 1} /\ l.side \in {0, 1}
      /\ k.track \in 0 .. Tracks - 1 /\ l.track \in 0 .. Tracks - 1
      /\ Tracks \in Nat
  BY GeometryAssumption DEF Locations
<1>8. k.side = l.side /\ k.track = l.track
  BY <1>5, <1>7 DEF Row
<1> QED BY <1>6, <1>8 DEF Locations

-----------------------------------------------------------------------------
(* The refinement                                                          *)

Types ==
  /\ image \in [Drives -> [ImageSectors -> Sector]]
  /\ diskSector \in Sector
  /\ buffer \in [to : {"none", "sector", "id"}, pos : Nat]
  /\ request \in [kind : {"done", "read", "write"}, drive : Drives \cup {NoDrive},
                  at : Locations, bytes : Seq(Values)]

(* A transfer in progress is that of the request: same place, same drive,  *)
(* and the buffer holds the sector read or what was given so far.          *)
Transfer ==
  /\ buffer.pos = Len(request.bytes) /\ buffer.pos < SectorBytes
  /\ request.at = Addressed
  /\ request.drive = IF HasHandler THEN reg.unit ELSE NoDrive
  /\ request.kind = "read" /\ request.drive # NoDrive =>
       diskSector = image[request.drive][Linear(request.at)]
  /\ request.kind = "write" => \A i \in 1 .. buffer.pos : diskSector[i] = request.bytes[i]

TransferInv ==
  /\ Types
  /\ buffer.to = "sector" <=> request.kind # "done"
  /\ buffer.to = "sector" => Transfer

LEMMA TransferInvInit == Init => TransferInv
<1> SUFFICES ASSUME Init PROVE TransferInv
  OBVIOUS
<1>1. Blank \in Sector
  BY ValueAssumption DEF Blank, Sector
<1>2. [side |-> 0, track |-> 0, sector |-> 0] \in Locations
  BY GeometryAssumption DEF Locations
<1>3. request \in [kind : {"done", "read", "write"}, drive : Drives \cup {NoDrive},
                   at : Locations, bytes : Seq(Values)]
  BY <1>2 DEF Init
<1> QED BY <1>1, <1>3, ValueAssumption DEF Init, TransferInv, Types

(* Steps of no consequence to FloppyDisk *)
LEMMA Stutters ==
  ASSUME TransferInv, UNCHANGED <<image, diskSector, request>>,
         buffer.to # "sector", buffer' \in [to : {"none", "id"}, pos : Nat]
  PROVE  TransferInv' /\ UNCHANGED Floppy!vars
<1>1. UNCHANGED Disks
  BY DEF Disks
<1>2. buffer'.to # "sector"
  OBVIOUS
<1>3. Types'
  BY DEF TransferInv, Types
<1> QED BY <1>1, <1>2, <1>3 DEF TransferInv, Floppy!vars

(* Writing one sector of an image changes one sector of the disk. *)
LEMMA DisksPut ==
  ASSUME Types, NEW d \in Drives, NEW l \in Locations, NEW s \in Sector,
         image' = [image EXCEPT ![d][Linear(l)] = s]
  PROVE  Disks' = [Disks EXCEPT ![d][l] = s]
<1>1. \A e \in Drives : image[e] \in [ImageSectors -> Sector]
  BY DEF Types
<1>2. \A e \in Drives, k \in Locations :
        image'[e][Linear(k)] = IF e = d /\ Linear(k) = Linear(l) THEN s ELSE image[e][Linear(k)]
  BY <1>1, LinearInImage DEF Types
<1>3. \A e \in Drives, k \in Locations :
        image'[e][Linear(k)] = IF e = d /\ k = l THEN s ELSE image[e][Linear(k)]
  BY <1>2, LinearInjective
<1>4. Disks' = [e \in Drives |-> [k \in Locations |-> image'[e][Linear(k)]]]
  BY DEF Disks
<1>5. [Disks EXCEPT ![d][l] = s]
        = [e \in Drives |-> [k \in Locations |-> IF e = d /\ k = l THEN s ELSE image[e][Linear(k)]]]
  BY DEF Disks
<1> QED BY <1>3, <1>4, <1>5

(* The next byte of a request *)
LEMMA ByteFacts ==
  ASSUME Types, Transfer, NEW k, request.kind = k, k # "done", NEW b \in Values,
         request' = Transferred(k, b)
  PROVE  /\ request' \in [kind : {"done", "read", "write"}, drive : Drives \cup {NoDrive},
                          at : Locations, bytes : Seq(Values)]
         /\ request'.kind = IF buffer.pos + 1 = SectorBytes THEN "done" ELSE k
         /\ request'.drive = request.drive /\ request'.at = request.at
         /\ Len(request'.bytes) = buffer.pos + 1
         /\ \A i \in 1 .. buffer.pos : request'.bytes[i] = request.bytes[i]
         /\ request'.bytes[buffer.pos + 1] = b
         /\ request' = Floppy!Transferred(b)
<1> DEFINE q == [request EXCEPT !.bytes = Append(@, b),
                   !.kind = IF Len(request.bytes) + 1 = SectorBytes THEN "done" ELSE @]
<1>1. request.bytes \in Seq(Values) /\ Len(request.bytes) = buffer.pos /\ buffer.pos \in Nat
  BY DEF Types, Transfer
<1>2. /\ Append(request.bytes, b) \in Seq(Values)
      /\ Len(Append(request.bytes, b)) = buffer.pos + 1
      /\ \A i \in 1 .. buffer.pos : Append(request.bytes, b)[i] = request.bytes[i]
      /\ Append(request.bytes, b)[buffer.pos + 1] = b
  BY <1>1, AppendProperties
<1>3. request' = q
  BY DEF Transferred
<1>4. /\ q.bytes = Append(request.bytes, b)
      /\ q.kind = (IF Len(request.bytes) + 1 = SectorBytes THEN "done" ELSE request.kind)
      /\ q.drive = request.drive /\ q.at = request.at
      /\ q \in [kind : {"done", "read", "write"}, drive : Drives \cup {NoDrive},
                at : Locations, bytes : Seq(Values)]
  BY <1>2 DEF Types
<1>5. q = Floppy!Transferred(b)
  BY DEF Floppy!Transferred
<1> HIDE DEF q
<1> QED BY <1>1, <1>2, <1>3, <1>4, <1>5

(* The buffer after a byte of a sector *)
LEMMA NextPosFacts ==
  ASSUME Types, buffer.to = "sector", buffer' = NextPos
  PROVE  /\ buffer' \in [to : {"none", "sector", "id"}, pos : Nat]
         /\ buffer.pos + 1 = SectorBytes => buffer'.to = "none"
         /\ buffer.pos + 1 # SectorBytes => buffer'.to = "sector" /\ buffer'.pos = buffer.pos + 1
  BY DEF Types, NextPos, BufferLen

(* A request without a byte is a request. *)
LEMMA EmptyRequests ==
  ASSUME NEW r \in [kind : {"read", "write"}, drive : Drives \cup {NoDrive},
                    at : Locations, bytes : {<<>>}]
  PROVE  r \in [kind : {"done", "read", "write"}, drive : Drives \cup {NoDrive},
                at : Locations, bytes : Seq(Values)]
<1>1. <<>> \in Seq(Values)
  OBVIOUS
<1>2. {<<>>} \subseteq Seq(Values) /\ {"read", "write"} \subseteq {"done", "read", "write"}
  BY <1>1
<1> QED BY <1>2

(* A read command *)
LEMMA ReadAsks ==
  ASSUME Rules = AllRules, FileInv, TransferInv, ReadSector
  PROVE  TransferInv' /\ Floppy!Next
<1>1. buffer.to = "none" /\ request.kind = "done"
  BY DEF ReadSector, Free, AllRules, TransferInv
<1>2. Addressed \in Locations /\ Addressed' = Addressed /\ HasHandler' = HasHandler
  BY DEF ReadSector, DiskRead, OnDisk, Addressed, HasHandler
<1>3. HasHandler => reg.unit \in Drives /\ file = reg.unit /\ ~NotOpen
  BY DrivesNotNone DEF FileInv, HasHandler, FileFollowsUnit, NotOpen
<1>4. diskSector' = IF HasHandler THEN image[reg.unit][Linear(Addressed)] ELSE diskSector
  BY <1>3 DEF ReadSector, DiskRead
<1>5. diskSector' \in Sector
  BY <1>2, <1>3, <1>4, LinearInImage DEF TransferInv, Types
<1>6. /\ request'.kind = "read" /\ request'.at = Addressed /\ request'.bytes = <<>>
      /\ request'.drive = IF HasHandler THEN reg.unit ELSE NoDrive
      /\ request' \in [kind : {"read", "write"}, drive : Drives \cup {NoDrive},
                       at : Locations, bytes : {<<>>}]
  BY <1>2, <1>3 DEF ReadSector, Asked
<1>7. buffer' = [to |-> "sector", pos |-> 0] /\ image' = image /\ reg' = reg
  BY DEF ReadSector
<1>8. Types'
  <2>1. /\ request' \in [kind : {"done", "read", "write"}, drive : Drives \cup {NoDrive},
                         at : Locations, bytes : Seq(Values)]
        /\ buffer' \in [to : {"none", "sector", "id"}, pos : Nat]
    BY <1>6, <1>7, EmptyRequests
  <2> QED BY <1>5, <1>7, <2>1 DEF TransferInv, Types
<1>9. Transfer'
  BY <1>2, <1>4, <1>6, <1>7, GeometryAssumption, DrivesNotNone DEF Transfer
<1>10. Floppy!Ask
  BY <1>1, <1>6, <1>7
  DEF Floppy!Ask, Floppy!Complete, Floppy!Requests, Disks, Floppy!Locations, Locations,
      Floppy!NoDrive, NoDrive
<1> QED BY <1>6, <1>7, <1>8, <1>9, <1>10 DEF TransferInv, Floppy!Next

(* A write command *)
LEMMA WriteAsks ==
  ASSUME Rules = AllRules, FileInv, TransferInv, WriteSector
  PROVE  TransferInv' /\ Floppy!Next
<1>1. buffer.to = "none" /\ request.kind = "done"
  BY DEF WriteSector, Free, AllRules, TransferInv
<1>2. Addressed \in Locations /\ Addressed' = Addressed /\ HasHandler' = HasHandler
  BY DEF WriteSector, OnDisk, Addressed, HasHandler
<1>3. HasHandler => reg.unit \in Drives
  BY DEF FileInv, HasHandler
<1>4. /\ request'.kind = "write" /\ request'.at = Addressed /\ request'.bytes = <<>>
      /\ request'.drive = IF HasHandler THEN reg.unit ELSE NoDrive
      /\ request' \in [kind : {"read", "write"}, drive : Drives \cup {NoDrive},
                       at : Locations, bytes : {<<>>}]
  BY <1>2, <1>3 DEF WriteSector, Asked
<1>5. /\ buffer' = [to |-> "sector", pos |-> 0]
      /\ UNCHANGED <<image, reg, diskSector>>
  BY DEF WriteSector
<1>6. Types'
  <2>1. /\ request' \in [kind : {"done", "read", "write"}, drive : Drives \cup {NoDrive},
                         at : Locations, bytes : Seq(Values)]
        /\ buffer' \in [to : {"none", "sector", "id"}, pos : Nat]
    BY <1>4, <1>5, EmptyRequests
  <2> QED BY <1>5, <2>1 DEF TransferInv, Types
<1>7. Transfer'
  BY <1>2, <1>4, <1>5, GeometryAssumption DEF Transfer
<1>8. Floppy!Ask
  BY <1>1, <1>4, <1>5
  DEF Floppy!Ask, Floppy!Complete, Floppy!Requests, Disks, Floppy!Locations, Locations,
      Floppy!NoDrive, NoDrive
<1> QED BY <1>4, <1>5, <1>6, <1>7, <1>8 DEF TransferInv, Floppy!Next

(* A byte read from the sector buffer *)
LEMMA ReadTakes ==
  ASSUME Rules = AllRules, TransferInv, ReadData, buffer.to = "sector"
  PROVE  TransferInv' /\ Floppy!Next
<1> DEFINE b == diskSector[buffer.pos + 1]
<1>1. Types /\ Transfer /\ request.kind = "read"
  BY DEF TransferInv, ReadData, MayTransfer, AllRules
<1>2. buffer.pos \in Nat /\ buffer.pos + 1 \in 1 .. SectorBytes /\ b \in Values
  BY <1>1, GeometryAssumption DEF Types, Transfer, Sector
<1>3. /\ buffer' = NextPos /\ request' = Transferred("read", b)
      /\ UNCHANGED <<reg, diskSector, loaded, file, image, halted>>
  BY DEF ReadData
<1> HIDE DEF b
<1>4. /\ request' \in [kind : {"done", "read", "write"}, drive : Drives \cup {NoDrive},
                       at : Locations, bytes : Seq(Values)]
      /\ request'.kind = IF buffer.pos + 1 = SectorBytes THEN "done" ELSE "read"
      /\ request'.drive = request.drive /\ request'.at = request.at
      /\ Len(request'.bytes) = buffer.pos + 1
      /\ request' = Floppy!Transferred(b)
  BY <1>1, <1>2, <1>3, ByteFacts
<1>5. /\ buffer' \in [to : {"none", "sector", "id"}, pos : Nat]
      /\ buffer.pos + 1 = SectorBytes => buffer'.to = "none"
      /\ buffer.pos + 1 # SectorBytes => buffer'.to = "sector" /\ buffer'.pos = buffer.pos + 1
  BY <1>1, <1>3, NextPosFacts
<1>6. Types'
  BY <1>1, <1>3, <1>4, <1>5 DEF Types
<1>7. buffer'.to = "sector" => Transfer'
  <2> SUFFICES ASSUME buffer'.to = "sector" PROVE Transfer'
    OBVIOUS
  <2>0. buffer.pos + 1 # SectorBytes
    BY <1>5
  <2>1. /\ buffer.pos + 1 # SectorBytes /\ buffer'.pos = buffer.pos + 1
        /\ request'.kind = "read" /\ buffer'.pos < SectorBytes
    BY <1>2, <1>4, <1>5, <2>0, GeometryAssumption
  <2>2. Addressed' = Addressed /\ HasHandler' = HasHandler
    BY <1>3 DEF Addressed, HasHandler
  <2> QED BY <1>1, <1>3, <1>4, <2>1, <2>2 DEF Transfer
<1>8. Floppy!Take(b)
  <2>1. request.drive # NoDrive => b = Disks[request.drive][request.at][Len(request.bytes) + 1]
    <3> HAVE request.drive # NoDrive
    <3>1. request.drive \in Drives /\ request.at \in Locations
      BY <1>1 DEF Types
    <3>2. Disks[request.drive][request.at] = image[request.drive][Linear(request.at)]
      BY <3>1 DEF Disks
    <3> QED BY <1>1, <3>2 DEF Transfer, b
  <2>2. UNCHANGED Disks
    BY <1>3 DEF Disks
  <2> QED BY <1>1, <1>4, <2>1, <2>2 DEF Floppy!Take, Floppy!NoDrive, NoDrive
<1> QED BY <1>2, <1>4, <1>5, <1>6, <1>7, <1>8 DEF TransferInv, Floppy!Next

(* A byte written to the sector buffer *)
LEMMA WriteGives ==
  ASSUME Rules = AllRules, FileInv, TransferInv,
         NEW v \in Values, WriteBuffer(v)
  PROVE  TransferInv' /\ Floppy!Next
<1>1. Types /\ Transfer /\ request.kind = "write" /\ buffer.to = "sector"
  BY DEF TransferInv, WriteBuffer, MayTransfer, AllRules
<1>2. buffer.pos \in Nat /\ buffer.pos + 1 \in 1 .. SectorBytes
  BY <1>1, GeometryAssumption DEF Types, Transfer
<1>3. /\ buffer' = NextPos /\ request' = Transferred("write", v)
      /\ diskSector' = [diskSector EXCEPT ![buffer.pos + 1] = v]
      /\ UNCHANGED <<reg, loaded, file>>
  BY <1>1 DEF WriteBuffer
<1>4. /\ request' \in [kind : {"done", "read", "write"}, drive : Drives \cup {NoDrive},
                       at : Locations, bytes : Seq(Values)]
      /\ request'.kind = IF buffer.pos + 1 = SectorBytes THEN "done" ELSE "write"
      /\ request'.drive = request.drive /\ request'.at = request.at
      /\ Len(request'.bytes) = buffer.pos + 1
      /\ \A i \in 1 .. buffer.pos : request'.bytes[i] = request.bytes[i]
      /\ request'.bytes[buffer.pos + 1] = v
      /\ request' = Floppy!Transferred(v)
  BY <1>1, <1>3, ByteFacts
<1>5. /\ buffer' \in [to : {"none", "sector", "id"}, pos : Nat]
      /\ buffer.pos + 1 = SectorBytes => buffer'.to = "none"
      /\ buffer.pos + 1 # SectorBytes => buffer'.to = "sector" /\ buffer'.pos = buffer.pos + 1
  BY <1>1, <1>3, NextPosFacts
<1>6. /\ diskSector' \in Sector
      /\ \A i \in 1 .. buffer.pos + 1 : diskSector'[i] = request'.bytes[i]
  <2>1. diskSector \in [1 .. SectorBytes -> Values]
    BY <1>1 DEF Types, Sector
  <2>2. diskSector' \in [1 .. SectorBytes -> Values]
    BY <1>2, <1>3, <2>1
  <2>3. \A i \in 1 .. SectorBytes :
          diskSector'[i] = IF i = buffer.pos + 1 THEN v ELSE diskSector[i]
    BY <1>2, <1>3, <2>1
  <2>4. \A i \in 1 .. buffer.pos : diskSector[i] = request.bytes[i]
    BY <1>1 DEF Transfer
  <2>5. \A i \in 1 .. buffer.pos + 1 : i \in 1 .. SectorBytes /\ (i = buffer.pos + 1 \/ i \in 1 .. buffer.pos)
    BY <1>2, GeometryAssumption
  <2>6. \A i \in 1 .. buffer.pos : i # buffer.pos + 1
    BY <1>2
  <2> QED BY <1>4, <2>2, <2>3, <2>4, <2>5, <2>6 DEF Sector
<1>7. request.at \in Locations /\ request.at = Addressed /\ Linear(request.at) \in ImageSectors
  BY <1>1, LinearInImage DEF Types, Transfer
<1>8. HasHandler => reg.unit \in Drives /\ file = reg.unit /\ request.drive = reg.unit
  BY <1>1 DEF FileInv, HasHandler, FileFollowsUnit, Transfer
<1>9. ~HasHandler => request.drive = NoDrive
  BY <1>1 DEF Transfer
<1>10. image' = IF buffer'.to = "none" /\ request.drive \in Drives \ ReadOnly
                THEN [image EXCEPT ![request.drive][Linear(request.at)] = diskSector'] ELSE image
  BY <1>7, <1>8, <1>9, DrivesNotNone DEF WriteBuffer, DiskWrite
<1>11. Types'
  <2>1. image' \in [Drives -> [ImageSectors -> Sector]]
    BY <1>1, <1>6, <1>7, <1>10 DEF Types
  <2> QED BY <1>4, <1>5, <1>6, <2>1 DEF Types
<1>12. buffer'.to = "sector" => Transfer'
  <2> SUFFICES ASSUME buffer'.to = "sector" PROVE Transfer'
    OBVIOUS
  <2>0. buffer.pos + 1 # SectorBytes
    BY <1>5
  <2>1. /\ buffer.pos + 1 # SectorBytes /\ buffer'.pos = buffer.pos + 1
        /\ request'.kind = "write" /\ buffer'.pos < SectorBytes
    BY <1>2, <1>4, <1>5, <2>0, GeometryAssumption
  <2>2. Addressed' = Addressed /\ HasHandler' = HasHandler
    BY <1>3 DEF Addressed, HasHandler
  <2> QED BY <1>1, <1>3, <1>4, <1>6, <2>1, <2>2 DEF Transfer
<1>13. Floppy!Give(v)
  <2>1. request'.kind = "done" <=> buffer'.to = "none"
    BY <1>2, <1>4, <1>5
  <2>2. CASE request'.kind = "done" /\ request.drive \in Drives \ ReadOnly
    <3>1. diskSector' = request'.bytes
      <4>1. request'.bytes \in [1 .. SectorBytes -> Values]
        <5>1. Len(request'.bytes) = SectorBytes /\ request'.bytes \in Seq(Values)
          BY <1>2, <1>4, <2>2
        <5> QED BY <5>1, LenProperties
      <4>2. \A i \in 1 .. SectorBytes : diskSector'[i] = request'.bytes[i]
        BY <1>2, <1>4, <1>6, <2>2
      <4>3. diskSector' \in [1 .. SectorBytes -> Values]
        BY <1>6 DEF Sector
      <4>4. PICK f, g \in [1 .. SectorBytes -> Values] : f = diskSector' /\ g = request'.bytes
        BY <4>1, <4>3
      <4>5. \A i \in 1 .. SectorBytes : f[i] = g[i]
        BY <4>2, <4>4
      <4>6. f = [i \in 1 .. SectorBytes |-> f[i]] /\ g = [i \in 1 .. SectorBytes |-> g[i]]
        OBVIOUS
      <4>7. [i \in 1 .. SectorBytes |-> f[i]] = [i \in 1 .. SectorBytes |-> g[i]]
        BY <4>5, Zenon
      <4> QED BY <4>4, <4>6, <4>7
    <3>2. image' = [image EXCEPT ![request.drive][Linear(request.at)] = diskSector']
      BY <1>10, <2>1, <2>2
    <3>3. PICK s \in Sector, d \in Drives, l \in Locations :
            s = diskSector' /\ d = request.drive /\ l = request.at
      BY <1>6, <1>7, <2>2
    <3>4. Disks' = [Disks EXCEPT ![d][l] = s]
      BY <1>1, <3>2, <3>3, DisksPut, ZenonT(60)
    <3> QED BY <1>1, <1>4, <2>2, <3>1, <3>3, <3>4 DEF Floppy!Give
  <2>3. CASE ~(request'.kind = "done" /\ request.drive \in Drives \ ReadOnly)
    <3>1. image' = image
      BY <1>10, <2>1, <2>3
    <3>2. UNCHANGED Disks
      BY <3>1 DEF Disks
    <3> QED BY <1>1, <1>4, <2>3, <3>2 DEF Floppy!Give
  <2> QED BY <2>2, <2>3
<1> QED BY <1>2, <1>4, <1>5, <1>11, <1>12, <1>13 DEF TransferInv, Floppy!Next

(* Every step is one of FloppyDisk or of no consequence to it. *)
LEMMA StepRefines ==
  ASSUME Rules = AllRules, FileInv, TransferInv, [Next]_vars
  PROVE  TransferInv' /\ [Floppy!Next]_(Floppy!vars)
<1>1. Free => buffer.to = "none" /\ buffer \in [to : {"none", "id"}, pos : Nat]
  BY DEF Free, AllRules, TransferInv, Types
<1>2. CASE RegisterStep
  BY <1>1, <1>2, RegisterSteps, Stutters DEF FileInv
<1>3. CASE ReadSector
  BY <1>3, ReadAsks
<1>4. CASE WriteSector
  BY <1>4, WriteAsks
<1>5. CASE ReadId
  <2>1. buffer' \in [to : {"none", "id"}, pos : Nat]
    BY <1>5 DEF ReadId
  <2> QED BY <1>1, <1>5, <2>1, Stutters DEF ReadId
<1>6. CASE WriteTrack
  <2>1. buffer' \in [to : {"none", "id"}, pos : Nat]
    BY <1>1, <1>6 DEF WriteTrack
  <2> QED BY <1>1, <1>6, <2>1, Stutters DEF WriteTrack
<1>7. CASE ReadData /\ buffer.to = "sector"
  BY <1>7, ReadTakes
<1>8. CASE ReadData /\ buffer.to # "sector"
  <2>1. buffer \in [to : {"none", "id"}, pos : Nat]
    BY <1>8 DEF TransferInv, Types
  <2>2. buffer' \in [to : {"none", "id"}, pos : Nat]
    BY <1>8, <2>1 DEF ReadData, NextPos
  <2> QED BY <1>8, <2>2, Stutters DEF ReadData
<1>9. ASSUME NEW v \in Values, WriteBuffer(v)
      PROVE  TransferInv' /\ [Floppy!Next]_(Floppy!vars)
  BY <1>9, WriteGives
<1>10. ASSUME NEW d \in Drives, SelectDrive(d) \/ DeselectDrive(d)
       PROVE  TransferInv' /\ [Floppy!Next]_(Floppy!vars)
  BY <1>1, <1>10, Stutters DEF SelectDrive, DeselectDrive
<1>11. ASSUME NEW d \in Drives, Load(d)
       PROVE  TransferInv' /\ [Floppy!Next]_(Floppy!vars)
  <2>1. /\ UNCHANGED <<reg, buffer, diskSector, file, image, request>>
        /\ loaded' = loaded \cup {d} /\ d # reg.unit
    BY <1>11 DEF Load, AllRules
  <2>2. HasHandler' = HasHandler /\ Addressed' = Addressed
    BY <2>1 DEF HasHandler, Addressed
  <2>3. UNCHANGED Disks
    BY <2>1 DEF Disks
  <2> QED BY <2>1, <2>2, <2>3 DEF TransferInv, Types, Transfer, Floppy!vars
<1>12. CASE UNCHANGED vars
  <2>1. UNCHANGED Disks
    BY <1>12 DEF vars, Disks
  <2>2. UNCHANGED <<HasHandler, Addressed>>
    BY <1>12 DEF vars, HasHandler, Addressed
  <2> QED BY <1>12, <2>1, <2>2 DEF vars, TransferInv, Types, Transfer, Floppy!vars
<1> QED
  BY <1>2, <1>3, <1>4, <1>5, <1>6, <1>7, <1>8, <1>9, <1>10, <1>11, <1>12
  DEF Next, Commands, RegisterStep

LEMMA InitRefines == Init => Floppy!Init
<1> SUFFICES ASSUME Init PROVE Floppy!Init
  OBVIOUS
<1>1. [side |-> 0, track |-> 0, sector |-> 0] \in Locations
  BY GeometryAssumption DEF Locations
<1>2. request \in Floppy!Requests({"done"})
  BY <1>1 DEF Init, Floppy!Requests, Floppy!Locations, Locations, Floppy!NoDrive, NoDrive
<1>3. Disks \in [Drives -> [Locations -> Sector]]
  BY ValueAssumption, LinearInImage DEF Init, Disks
<1> QED BY <1>2, <1>3 DEF Floppy!Init, Floppy!Locations, Locations, Floppy!Sector, Sector

(* Software that keeps the rules has a disk of sectors, whatever their     *)
(* number and size: a read gets what was written there last, and a write   *)
(* changes that sector as a whole and no other (fdd.cc 88-111, 231-322).   *)
THEOREM ControllerIsADisk ==
  ASSUME Rules = AllRules PROVE Spec => SectorsWhole
<1>1. Selects
  BY DEF Selects, AllRules
<1>2. FileInv /\ [Next]_vars => FileInv'
  BY <1>1, FileInvNext
<1>3. FileInv /\ TransferInv /\ [Next]_vars => TransferInv' /\ [Floppy!Next]_(Floppy!vars)
  BY StepRefines
<1>4. Spec => Floppy!Spec
  BY <1>2, <1>3, FileInvInit, TransferInvInit, InitRefines, PTL DEF Spec, Floppy!Spec
<1> QED BY <1>4 DEF SectorsWhole

-----------------------------------------------------------------------------
(* Types                                                                   *)

(* The tracks a value in the track register, or steps from there, reach. *)
Reached(t) == t \in Nat /\ (t <= Tracks \/ \E v \in Values : t <= v)

BufferOK(b) ==
  b \in [to : {"none", "sector", "id"}, pos : Nat]
    /\ (b.to # "none" => b.pos < BufferLen(b.to))

RequestTypes ==
  [kind : {"done", "read", "write"}, drive : Drives \cup {NoDrive},
   at : [side : {0, 1}, track : Nat, sector : Values], bytes : Seq(Values)]

LEMMA TypeOKParts ==
  TypeOK <=> /\ reg \in Registers /\ Reached(reg.track)
             /\ BufferOK(buffer) /\ diskSector \in Sector /\ loaded \subseteq Drives
             /\ file \in Drives \cup {NoDrive} /\ image \in [Drives -> [ImageSectors -> Sector]]
             /\ request \in RequestTypes /\ halted \in BOOLEAN
  BY DEF TypeOK, Registers, Reached, BufferOK, RequestTypes

LEMMA TypeOKInit == Init => TypeOK
<1> SUFFICES ASSUME Init PROVE TypeOK
  OBVIOUS
<1>1. reg \in Registers /\ Reached(reg.track)
  BY ValueAssumption, GeometryAssumption DEF Init, Registers, Reached
<1>2. BufferOK(buffer) /\ diskSector \in Sector
  BY ValueAssumption DEF Init, BufferOK, Blank, Sector
<1>3. request \in RequestTypes
  BY ValueAssumption DEF Init, RequestTypes
<1> QED BY <1>1, <1>2, <1>3, TypeOKParts, ValueAssumption DEF Init

(* Steps end at the last track or below a track that was asked for. *)
LEMMA TracksReached ==
  ASSUME reg \in Registers, Reached(reg.track), RegisterStep
  PROVE  Reached(reg'.track)
<1>1. Values \subseteq Nat /\ 0 \in Values /\ Tracks \in Nat \ {0}
  BY ValueAssumption, GeometryAssumption
<1>2. \A r : SetRegisters(r) => reg' = r
  BY DEF SetRegisters
<1>3. ASSUME NEW v \in Values, reg' = [reg EXCEPT !.track = v] PROVE Reached(reg'.track)
  BY <1>1, <1>3 DEF Reached, Registers
<1>4. ASSUME NEW i, reg' = [reg EXCEPT !.track = TrackUpdate(i)] PROVE Reached(reg'.track)
  <2>1. reg'.track = TrackUpdate(i)
    BY <1>4 DEF Registers
  <2> QED BY <1>1, <2>1 DEF Reached, TrackUpdate
<1>5. ASSUME NEW v, \/ reg' = [reg EXCEPT !.sector = v] \/ reg' = [reg EXCEPT !.data = v]
                    \/ reg' = [reg EXCEPT !.side = v]
      PROVE  Reached(reg'.track)
  BY <1>5 DEF Registers
<1>6. CASE Restore
  <2>1. reg' = [reg EXCEPT !.track = 0, !.inward = TRUE]
    BY <1>2, <1>6 DEF Restore
  <2> QED BY <1>1, <2>1 DEF Reached, Registers
<1>7. CASE Seek
  <2>1. reg.data \in Values
    BY DEF Registers
  <2> QED BY <1>2, <1>3, <1>7, <2>1 DEF Seek
<1>8. CASE Step \/ StepIn \/ StepOut
  BY <1>2, <1>4, <1>8 DEF Step, StepIn, StepOut
<1>9. ASSUME NEW v \in Values, SetTrack(v) \/ SetSector(v) \/ SetData(v) PROVE Reached(reg'.track)
  BY <1>2, <1>3, <1>5, <1>9 DEF SetTrack, SetSector, SetData
<1>10. ASSUME NEW v \in {0, 1}, SelectSide(v) PROVE Reached(reg'.track)
  BY <1>2, <1>5, <1>10 DEF SelectSide
<1> QED BY <1>6, <1>7, <1>8, <1>9, <1>10 DEF RegisterStep

LEMMA NextPosOK ==
  ASSUME BufferOK(buffer), buffer.to # "none" PROVE BufferOK(NextPos)
<1> PICK b : b = buffer
  OBVIOUS
<1>1. b.to \in {"sector", "id"} /\ b.pos \in Nat /\ b.pos < BufferLen(b.to) /\ BufferLen(b.to) \in Nat
  BY GeometryAssumption DEF BufferOK, BufferLen
<1>2. CASE b.pos + 1 = BufferLen(b.to)
  BY <1>2 DEF NextPos, BufferOK
<1>3. CASE b.pos + 1 # BufferLen(b.to)
  <2>1. NextPos = [b EXCEPT !.pos = b.pos + 1]
    BY <1>3 DEF NextPos
  <2>2. NextPos \in [to : {"none", "sector", "id"}, pos : Nat] /\ NextPos.to = b.to
        /\ NextPos.pos = b.pos + 1
    BY <1>1, <2>1 DEF BufferOK
  <2> QED BY <1>1, <1>3, <2>2 DEF BufferOK
<1> QED BY <1>2, <1>3

LEMMA TransferredOK ==
  ASSUME request \in RequestTypes, NEW k, NEW v \in Values
  PROVE  Transferred(k, v) \in RequestTypes
<1> PICK bs : bs = Append(request.bytes, v)
  OBVIOUS
<1>1. bs \in Seq(Values)
  BY AppendProperties DEF RequestTypes
<1>2. [request EXCEPT !.bytes = bs] \in RequestTypes
      /\ [request EXCEPT !.bytes = bs, !.kind = "done"] \in RequestTypes
  BY <1>1 DEF RequestTypes
<1>3. \/ Transferred(k, v) = request
      \/ Transferred(k, v) = [request EXCEPT !.bytes = bs, !.kind = "done"]
      \/ Transferred(k, v) = [request EXCEPT !.bytes = bs, !.kind = request.kind]
  BY DEF Transferred
<1>4. [request EXCEPT !.bytes = bs, !.kind = request.kind] = [request EXCEPT !.bytes = bs]
  BY DEF RequestTypes
<1> QED BY <1>2, <1>3, <1>4

LEMMA AskedOK ==
  ASSUME reg \in Registers, loaded \subseteq Drives, NEW k \in {"read", "write"}
  PROVE  Asked(k) \in RequestTypes
  BY DEF Asked, Addressed, Registers, RequestTypes, HasHandler

LEMMA TypeOKNext == TypeOK /\ [Next]_vars => TypeOK'
<1> SUFFICES ASSUME TypeOK, [Next]_vars PROVE TypeOK'
  OBVIOUS
<1>1. /\ reg \in Registers /\ Reached(reg.track)
      /\ BufferOK(buffer) /\ diskSector \in Sector /\ loaded \subseteq Drives
      /\ file \in Drives \cup {NoDrive} /\ image \in [Drives -> [ImageSectors -> Sector]]
      /\ request \in RequestTypes /\ halted \in BOOLEAN
  BY TypeOKParts
<1> SUFFICES /\ reg' \in Registers /\ Reached(reg'.track)
             /\ BufferOK(buffer') /\ diskSector' \in Sector /\ loaded' \subseteq Drives
             /\ file' \in Drives \cup {NoDrive} /\ image' \in [Drives -> [ImageSectors -> Sector]]
             /\ request' \in RequestTypes /\ halted' \in BOOLEAN
  BY DEF TypeOK, Registers, Reached, BufferOK, RequestTypes
<1>2. NotOpen \in BOOLEAN
  BY DEF NotOpen
<1>3. ASSUME OnDisk PROVE Linear(Addressed) \in ImageSectors
  BY <1>3, LinearInImage DEF OnDisk
<1>4. CASE RegisterStep
  BY <1>1, <1>4, RegisterSteps, TracksReached
<1>5. CASE ReadSector
  <2>1. diskSector' \in Sector /\ halted' \in BOOLEAN
    <3>1. HasHandler /\ ~NotOpen => file \in Drives
      BY <1>1 DEF NotOpen
    <3>2. OnDisk /\ halted' = NotOpen
          /\ diskSector' = IF HasHandler /\ ~NotOpen THEN image[file][Linear(Addressed)] ELSE diskSector
      BY <1>5 DEF ReadSector, DiskRead
    <3> QED BY <1>1, <1>2, <1>3, <3>1, <3>2
  <2>2. BufferOK(buffer') /\ request' \in RequestTypes
    BY <1>1, <1>5, AskedOK, GeometryAssumption DEF ReadSector, BufferOK, BufferLen
  <2> QED BY <1>1, <1>5, <2>1, <2>2 DEF ReadSector
<1>6. CASE WriteSector
  <2>1. BufferOK(buffer') /\ request' \in RequestTypes
    BY <1>1, <1>6, AskedOK, GeometryAssumption DEF WriteSector, BufferOK, BufferLen
  <2> QED BY <1>1, <1>6, <2>1 DEF WriteSector
<1>7. CASE ReadId \/ WriteTrack
  <2>1. BufferOK(buffer')
    BY <1>1, <1>7, GeometryAssumption DEF ReadId, WriteTrack, BufferOK, BufferLen
  <2> QED BY <1>1, <1>7, <2>1 DEF ReadId, WriteTrack
<1>8. ASSUME buffer.to = "sector" PROVE buffer.pos + 1 \in 1 .. SectorBytes
  BY <1>1, <1>8, GeometryAssumption DEF BufferOK, BufferLen
<1>9. CASE ReadData
  <2>1. BufferOK(buffer')
    BY <1>1, <1>9, NextPosOK DEF ReadData
  <2>2. request' \in RequestTypes
    <3>1. CASE buffer.to = "sector"
      <4>1. diskSector[buffer.pos + 1] \in Values
        BY <1>1, <1>8, <3>1 DEF Sector
      <4> QED BY <1>1, <1>9, <3>1, <4>1, TransferredOK DEF ReadData
    <3>2. CASE buffer.to # "sector"
      BY <1>1, <1>9, <3>2 DEF ReadData
    <3> QED BY <3>1, <3>2
  <2> QED BY <1>1, <1>9, <2>1, <2>2 DEF ReadData
<1>10. ASSUME NEW v \in Values, WriteBuffer(v)
       PROVE  /\ BufferOK(buffer') /\ diskSector' \in Sector
              /\ image' \in [Drives -> [ImageSectors -> Sector]]
              /\ request' \in RequestTypes /\ halted' \in BOOLEAN
              /\ UNCHANGED <<reg, loaded, file>>
  <2>1. BufferOK(buffer')
    BY <1>1, <1>10, NextPosOK DEF WriteBuffer
  <2>2. diskSector' \in Sector
    <3>1. CASE buffer.to = "sector"
      BY <1>1, <1>8, <1>10, <3>1 DEF WriteBuffer, Sector
    <3>2. CASE buffer.to # "sector"
      BY <1>1, <1>10, <3>2 DEF WriteBuffer
    <3> QED BY <3>1, <3>2
  <2>3. request' \in RequestTypes
    BY <1>1, <1>10, TransferredOK DEF WriteBuffer
  <2>4. image' \in [Drives -> [ImageSectors -> Sector]] /\ halted' \in BOOLEAN
    <3>1. CASE UNCHANGED <<image, halted>>
      BY <1>1, <3>1
    <3>2. CASE DiskWrite(diskSector')
      <4>1. OnDisk /\ halted' = NotOpen
            /\ image' = IF HasHandler /\ file \in Drives \ ReadOnly
                        THEN [image EXCEPT ![file][Linear(Addressed)] = diskSector'] ELSE image
        BY <3>2 DEF DiskWrite
      <4> QED BY <1>1, <1>2, <1>3, <2>2, <4>1
    <3> QED BY <1>10, <3>1, <3>2 DEF WriteBuffer
  <2> QED BY <1>10, <2>1, <2>2, <2>3, <2>4 DEF WriteBuffer
<1>11. ASSUME NEW d \in Drives, SelectDrive(d) \/ DeselectDrive(d)
       PROVE  /\ reg' \in Registers /\ reg'.track = reg.track
              /\ file' \in Drives \cup {NoDrive} /\ halted' \in BOOLEAN
              /\ UNCHANGED <<buffer, diskSector, loaded, image, request>>
  <2>1. reg' \in Registers /\ reg'.track = reg.track
    BY <1>1, <1>11 DEF SelectDrive, DeselectDrive, Deselected, Registers
  <2> QED BY <1>1, <1>2, <1>11, <2>1 DEF SelectDrive, DeselectDrive
<1>12. ASSUME NEW d \in Drives, Load(d)
       PROVE  loaded' \subseteq Drives
              /\ UNCHANGED <<reg, buffer, diskSector, file, image, request, halted>>
  BY <1>1, <1>12 DEF Load
<1>13. CASE UNCHANGED vars
  BY <1>1, <1>13 DEF vars
<1> QED
  BY <1>1, <1>4, <1>5, <1>6, <1>7, <1>9, <1>10, <1>11, <1>12, <1>13
  DEF Next, Commands, RegisterStep

(* Registers, buffer and images have their types, also for software that   *)
(* keeps no rules: no byte goes past the end of a buffer, a sector of the  *)
(* disk is within its image, and no step goes past the last track unless a *)
(* seek has gone there (fdd.cc 119-160, 231-322).                          *)
THEOREM FddTypes == Spec => []TypeOK
  BY TypeOKInit, TypeOKNext, PTL DEF Spec
=============================================================================
