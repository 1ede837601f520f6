----------------------------- MODULE FloppyDisk -----------------------------
(***************************************************************************)
(* What the floppy controller promises to the disk software of the         *)
(* console: disks are arrays of sectors at a side, a track and a place on  *)
(* it; a read gets the bytes of the sector it asked for; a write replaces  *)
(* that sector as a whole when its last byte is given, and no other.       *)
(***************************************************************************)
EXTENDS Naturals, Sequences

CONSTANTS
  Drives,           \* the drives
  Tracks,           \* tracks of a side
  SectorsPerTrack,
  SectorBytes,      \* bytes of a sector
  Values,           \* the bytes
  ReadOnly          \* drives whose writes fail quietly

Locations == [side : {0, 1}, track : 0 .. Tracks - 1, sector : 0 .. SectorsPerTrack - 1]
Sector == [1 .. SectorBytes -> Values]
NoDrive == 0

VARIABLES
  disk,     \* the sectors of each drive
  request   \* what the software asked for last, the bytes it got or gave

vars == <<disk, request>>

(* Requests of a kind with no byte transferred yet *)
Requests(kinds) ==
  [kind : kinds, drive : Drives \cup {NoDrive}, at : Locations, bytes : {<<>>}]

(* Nothing was asked for yet, or the last request is complete. *)
Complete == request.kind = "done"

Init ==
  /\ disk \in [Drives -> [Locations -> Sector]]
  /\ request \in Requests({"done"})

(* A sector of the drive selected is asked for; without a disk in it, of   *)
(* no drive.                                                               *)
Ask ==
  /\ Complete
  /\ request' \in Requests({"read", "write"})
  /\ UNCHANGED disk

(* The request after a byte b, complete when it was the last. *)
Transferred(b) ==
  [request EXCEPT !.bytes = Append(@, b),
                  !.kind = IF Len(request.bytes) + 1 = SectorBytes THEN "done" ELSE @]

(* The software gets a byte; without a disk it may be any. *)
Take(b) ==
  /\ request.kind = "read"
  /\ request.drive # NoDrive => b = disk[request.drive][request.at][Len(request.bytes) + 1]
  /\ request' = Transferred(b)
  /\ UNCHANGED disk

(* The software gives a byte; the last one stores the sector. *)
Give(b) ==
  /\ request.kind = "write"
  /\ request' = Transferred(b)
  /\ disk' = IF request'.kind = "done" /\ request.drive \in Drives \ ReadOnly
             THEN [disk EXCEPT ![request.drive][request.at] = request'.bytes]
             ELSE disk

Next ==
  \/ Ask
  \/ \E b \in Values : Take(b) \/ Give(b)

Spec == Init /\ [][Next]_vars
=============================================================================
