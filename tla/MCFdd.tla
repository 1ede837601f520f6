------------------------------- MODULE MCFdd -------------------------------
(* A small double-sided disk in each of two drives. *)
EXTENDS Fdd

(* The image of drive 1 is blank, that of drive 2 is not. *)
MCImages ==
  [d \in Drives |-> [n \in ImageSectors |-> [i \in 1 .. SectorBytes |-> IF d = 1 THEN 0 ELSE 1]]]
=============================================================================
