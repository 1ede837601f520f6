-------------------------------- MODULE Grom --------------------------------
(* The port of the GROMs (src/grom.cc): one address, set and read in two    *)
(* bytes and incremented by every read of data.  Two flags remember which   *)
(* byte is next.  A program uses the port, and so may an interrupt routine: *)
(* it reads the address, corrects it by the one that a read adds, uses the  *)
(* port as it likes, and sets the address it has found.                     *)
EXTENDS Integers, Sequences

CONSTANTS
  ByteRange,      \* values of a byte: 256
  Targets,        \* addresses that the program and the routine set
  MaxRoutine      \* bound on the reads of data of one routine

VARIABLES
  gRom,           \* addr, lowByteGet and lowByteSet
  program,        \* the bytes of an address that the program has still to set
  aim,            \* history: the address that its own accesses lead to
  routine         \* the interrupt routine: where it is, and what it saved

gromVars == <<gRom, program, aim, routine>>

AddressRange == ByteRange * ByteRange

ASSUME GromAssumption ==
  /\ ByteRange \in Nat \ {0}
  /\ Targets \subseteq 0 .. AddressRange - 1
  /\ MaxRoutine \in Nat

(* Mutant: a read of data does not end an address of which only one byte    *)
(* was set.                                                                 *)
ReadGromKeepsFlags(g) == [g EXCEPT !.addr = (@ + 1) % AddressRange]

(* Mutant: the address goes on behind the last one.                         *)
ReadGromUnwrapped(g) == [addr |-> g.addr + 1, lowByteGet |-> FALSE, lowByteSet |-> FALSE]

(* gromRead and gromWrite.                                                  *)
ReadGrom(g) ==
  [addr |-> (g.addr + 1) % AddressRange, lowByteGet |-> FALSE, lowByteSet |-> FALSE]

(* Software gets the low eight bits of what is returned.                    *)
GetAddress(g) ==
  [byte |-> IF g.lowByteGet THEN (g.addr + 1) % ByteRange
                            ELSE ((g.addr + 1) \div ByteRange) % ByteRange,
   grom |-> [g EXCEPT !.lowByteGet = ~@]]

SetGromAddress(g, byte) ==
  IF g.lowByteSet
    THEN [addr |-> (g.addr \div ByteRange) * ByteRange + byte,
          lowByteGet |-> FALSE, lowByteSet |-> FALSE]
    ELSE [g EXCEPT !.addr = byte * ByteRange, !.lowByteSet = TRUE]

High(addr) == addr \div ByteRange
Low(addr) == addr % ByteRange
-----------------------------------------------------------------------------
(* The program sets an address and reads data.                              *)
Interrupted == routine.at # "none"

StartAddress(target) ==
  /\ ~Interrupted /\ program = <<>>
  /\ gRom' = SetGromAddress(gRom, High(target))
  /\ program' = <<Low(target)>>
  /\ aim' = target
  /\ UNCHANGED routine

EndAddress ==
  /\ ~Interrupted /\ program # <<>>
  /\ gRom' = SetGromAddress(gRom, program[1])
  /\ program' = <<>>
  /\ UNCHANGED <<aim, routine>>

ReadNext ==
  /\ ~Interrupted /\ program = <<>>
  /\ gRom' = ReadGrom(gRom)
  /\ aim' = (aim + 1) % AddressRange
  /\ UNCHANGED <<program, routine>>
-----------------------------------------------------------------------------
(* The routine.  The program does not allow an interrupt between the bytes  *)
(* of an address: the first one destroys the low byte of the address.       *)
NoRoutine == [at |-> "none", saved |-> <<>>, reads |-> 0]

SaveHigh ==
  /\ ~Interrupted /\ program = <<>>
  /\ routine' = [at |-> "save", saved |-> <<GetAddress(gRom).byte>>, reads |-> 0]
  /\ gRom' = GetAddress(gRom).grom
  /\ UNCHANGED <<program, aim>>

SaveLow ==
  /\ routine.at = "save"
  /\ routine' = [routine EXCEPT !.at = "use", !.saved = Append(@, GetAddress(gRom).byte)]
  /\ gRom' = GetAddress(gRom).grom
  /\ UNCHANGED <<program, aim>>

(* Both bytes of an address of its own, or only the first, and reads.       *)
RoutineAddress(target, whole) ==
  /\ routine.at = "use"
  /\ gRom' = LET g == SetGromAddress(gRom, High(target))
             IN  IF whole THEN SetGromAddress(g, Low(target)) ELSE ReadGrom(g)
  /\ routine' = [routine EXCEPT !.at = "read"]
  /\ UNCHANGED <<program, aim>>

RoutineRead ==
  /\ routine.at = "read" /\ routine.reads < MaxRoutine
  /\ gRom' = ReadGrom(gRom)
  /\ routine' = [routine EXCEPT !.reads = @ + 1]
  /\ UNCHANGED <<program, aim>>

Saved == (routine.saved[1] * ByteRange + routine.saved[2] + AddressRange - 1) % AddressRange

RestoreHigh ==
  /\ routine.at \in {"use", "read"}
  /\ gRom' = SetGromAddress(gRom, High(Saved))
  /\ routine' = [routine EXCEPT !.at = "restore"]
  /\ UNCHANGED <<program, aim>>

RestoreLow ==
  /\ routine.at = "restore"
  /\ gRom' = SetGromAddress(gRom, Low(Saved))
  /\ routine' = NoRoutine
  /\ UNCHANGED <<program, aim>>

GromInit ==
  /\ gRom = [addr |-> 0, lowByteGet |-> FALSE, lowByteSet |-> FALSE]
  /\ program = <<>> /\ aim = 0 /\ routine = NoRoutine

GromNext ==
  \/ \E target \in Targets : StartAddress(target)
  \/ EndAddress \/ ReadNext
  \/ SaveHigh \/ SaveLow
  \/ \E target \in Targets, whole \in BOOLEAN : RoutineAddress(target, whole)
  \/ RoutineRead \/ RestoreHigh \/ RestoreLow
-----------------------------------------------------------------------------
GromTypeOK ==
  /\ gRom.addr \in 0 .. AddressRange - 1
  /\ \A i \in DOMAIN routine.saved : routine.saved[i] \in 0 .. ByteRange - 1

(* An interrupt routine that saves and restores the address is transparent: *)
(* the next byte the program reads is at the address its own accesses lead  *)
(* to, at the end of the address range and at page ends too, whatever the   *)
(* routine did with the port and its two flags.                             *)
GromPlaceKept ==
  ~Interrupted /\ program = <<>> => gRom.addr = aim
=============================================================================
