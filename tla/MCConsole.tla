----------------------------- MODULE MCConsole -----------------------------
(* Small instances of Console. *)
EXTENDS Console

(* "fctn" and "left" share a position, as FNCT and the arrow keys do; the  *)
(* row of FNCT is also that of alpha lock.                                 *)
MCKeyAt == [k \in Keys |->
              CASE k = "fctn" -> {<<4, 0>>}
                [] k = "left" -> {<<4, 0>>, <<0, 1>>}
                [] OTHER -> {}]

Sbo(i) == [op |-> "CRU", bits |-> <<<<i, 1>>>>]
Sbz(i) == [op |-> "CRU", bits |-> <<<<i, 0>>>>]

(* Into timer mode, a bit of the timer set or cleared, and back. *)
LoadTimer(v) == [op |-> "CRU", bits |-> <<<<0, 1>>, <<2, v>>, <<0, 0>>>>]

MCWaitingProgram ==
  {[op |-> "LIMI", mask |-> 0], [op |-> "LIMI", mask |-> 2],
   Sbo(2), Sbz(2), Sbo(3), Sbz(3), LoadTimer(1), LoadTimer(0), Sbo(18), Sbz(18),
   [op |-> "VDP", enable |-> TRUE], [op |-> "VDP", enable |-> FALSE],
   [op |-> "STATUS"], Spin, [op |-> "OTHER"]}

(* As far as the keyboard is concerned *)
MCProgram ==
  {[op |-> "LIMI", mask |-> 0], [op |-> "LIMI", mask |-> 2],
   Sbo(2), Sbo(3), LoadTimer(1), Sbo(18), Sbz(18), Sbo(21),
   [op |-> "VDP", enable |-> TRUE], Spin}

MCHandler ==
  {Sbo(2), Sbo(3), Sbo(7), [op |-> "TB", bit |-> 2],
   [op |-> "RTWP", skip |-> FALSE], [op |-> "RTWP", skip |-> TRUE]}

(* A program that also reads bits in timer mode. *)
MCReadingProgram == MCWaitingProgram \cup {Sbo(0), Sbz(0), [op |-> "TB", bit |-> 2]}
=============================================================================
