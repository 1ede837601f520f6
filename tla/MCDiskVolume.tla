---------------------------- MODULE MCDiskVolume ----------------------------
(* Small instances of DiskVolume. *)
EXTENDS DiskVolume, TLC

(* Three names: 1 and 2 differ, 3 is 2 in lower case, which Linux2TI maps  *)
(* to the same TI name and TI2Linux does not give back.                    *)
MCTIName == [n \in Names |-> IF n = 3 THEN 2 ELSE n]
MCLinuxName == [t \in {1, 2} \cap {MCTIName[n] : n \in Names} |-> t]

(* Part of a sector; two sectors; the second sector, written or appended;  *)
(* parts of both.                                                          *)
MCRequests == {<<0, 1>>, <<0, 4>>, <<2, 2>>, <<1, 2>>}

(* A sector, and half of another after it. *)
MCAppendRequests == {<<0, 2>>, <<2, 1>>}

Symmetry == Permutations(Handles)
=============================================================================
