------------------------------ MODULE Console ------------------------------
(***************************************************************************)
(* The interrupts of the emulated console: CRU bits (cru.cc), the TMS9901  *)
(* (interrupt.cc), the two host timers (timer.cc), the keyboard (kbd.cc),  *)
(* the retrace of the VDP (vdp.cc), the interrupt acceptance of the CPU    *)
(* (cpu.cc) and the run loop (ti994a.cc) that drives them.                 *)
(*                                                                         *)
(* The program is any sequence of the instructions that matter here.  An   *)
(* iteration of the run loop is Fetch, possibly KbdPoll and TimerPoll, and *)
(* Execute.  Host timers expire and keys move at any moment.               *)
(***************************************************************************)
EXTENDS Integers, Sequences, FiniteSets, SequencesExt

CONSTANTS
  Lines,             \* CRU bits with the TMS9901 handlers: 1 .. 15
  Rows, Cols,        \* the key matrix: 0 .. 7 each
  Keys,              \* keys of the host keyboard
  KeyAt,             \* the matrix positions of a key: keyCode, keyExtended
  AlphaKey,          \* the key that toggles alpha lock
  Program,           \* instructions outside the interrupt routine
  Handler,           \* instructions of the interrupt routine
  InstPerInterrupt,  \* instructions between two polls
  MaxEvents          \* bound on the key events waiting to be read

IRQ_VDP == 2
IRQ_TIMER == 3
ModeBit == 0
Selects == 18 .. 20   \* column select
AlphaSelect == 21
AlphaRow == 4

(* One instruction.  CRU is SBO, SBZ or LDCR: the bits output in order; TB *)
(* reads one bit; SPIN is >10FF, a jump to itself; RTWP may return past a  *)
(* SPIN, when the routine has moved R14; VDP sets or clears the interrupt  *)
(* enable bit in a VDP register; STATUS reads the VDP status.              *)
Instruction ==
  [op : {"LIMI"}, mask : 0 .. 15]
    \cup [op : {"CRU"}, bits : Seq((Lines \cup {ModeBit, AlphaSelect} \cup Selects) \X {0, 1})]
    \cup [op : {"TB"}, bit : Lines]
    \cup [op : {"RTWP"}, skip : BOOLEAN]
    \cup [op : {"VDP"}, enable : BOOLEAN]
    \cup [op : {"SPIN", "STATUS", "OTHER"}]

Spin == [op |-> "SPIN"]
NoOpcode == [op |-> "NONE"]

ASSUME LineAssumption == Lines \subseteq 1 .. 15 /\ {IRQ_VDP, IRQ_TIMER} \subseteq Lines
ASSUME KeyAssumption ==
  /\ Rows \subseteq 0 .. 7 /\ Cols \subseteq 0 .. 7
  /\ KeyAt \in [Keys -> SUBSET (Rows \X Cols)]
  /\ \A r \in Rows : 3 + r \in Lines
(* The interrupt routine leaves the mask at 0 and returns with RTWP, which *)
(* the rest of the program does not use.                                   *)
ASSUME ProgramAssumption ==
  /\ \A i \in Program \cup Handler : i \in Instruction
  /\ \A i \in Program : i.op # "RTWP"
  /\ \A i \in Handler : i.op = "LIMI" => i.mask = 0
ASSUME CountAssumption == InstPerInterrupt \in Nat \ {0} /\ MaxEvents \in Nat

VARIABLES
  bus,     \* cru[].state, tms9901 and its timer, kbdColumn
  vdp,     \* interrupt enable, the retrace status bit, its timer
  held,    \* the keys the user holds down
  events,  \* the key events to be read from the input device
  keys,    \* keyState and alphaLock
  cpu,     \* the interrupt mask, whether the interrupt routine runs, whether
           \* the pc is at a SPIN, and R13 to R15 of the interrupt routine
  phase,   \* where the run loop is
  opcode,  \* the instruction fetched, while there is one
  count    \* instructions since the last poll

vars == <<bus, vdp, held, events, keys, cpu, phase, opcode, count>>

-----------------------------------------------------------------------------
(* Types                                                                   *)

Bus == [line : [Lines -> {0, 1}],       \* cru[].state
        active : SUBSET Lines,          \* intActive
        disabled : SUBSET Lines,        \* intDisabled
        timerMode : BOOLEAN,
        timer : SUBSET Lines,           \* the bits set in the timer register
        running : BOOLEAN,              \* the timerfd is armed
        expired : BOOLEAN,              \* the timerfd is readable
        column : SUBSET (18 .. 21)]     \* kbdColumn

Context == [mask : 0 .. 15, isr : BOOLEAN, spin : BOOLEAN]

(* Every variable has its type. *)
TypeOK ==
  /\ bus \in Bus
  /\ vdp \in [enable : BOOLEAN, retrace : BOOLEAN, expired : BOOLEAN]
  /\ held \subseteq Keys
  /\ events \in Seq(Keys \X {0, 1}) /\ Len(events) <= MaxEvents
  /\ keys \in [down : SUBSET (Rows \X Cols), alpha : BOOLEAN]
  /\ cpu \in [now : Context, saved : Context]
  /\ phase \in {"fetch", "kbd", "timer", "execute"}
  /\ opcode \in Program \cup Handler \cup {Spin, NoOpcode}
  /\ count \in 0 .. InstPerInterrupt

-----------------------------------------------------------------------------
(* CRU bits                                                                *)

(* cruBitInput and, through _interrupt, tms9901Interrupt *)
Input(b, i, v) ==
  [b EXCEPT !.line[i] = v,
            !.active = IF v = 0 /\ i \notin b.disabled THEN @ \cup {i} ELSE @ \ {i}]

(* A bit of the timer register is written and the timer started; a timer   *)
(* of 0 is stopped.                                                        *)
TimerBit(b, i, v) ==
  LET t == IF v = 1 THEN b.timer \cup {i} ELSE b.timer \ {i}
  IN  [b EXCEPT !.timer = t, !.running = t # {}, !.expired = FALSE]

TimerStop(b) == [b EXCEPT !.running = FALSE, !.expired = FALSE]

Disable(b, i) ==
  LET d == [b EXCEPT !.disabled = @ \cup {i}]
  IN  IF i = IRQ_TIMER THEN TimerStop(d) ELSE d

(* tms9901BitSet *)
BitSet(b, i, v) ==
  IF b.timerMode THEN TimerBit(b, i, v)
  ELSE IF v = 0 THEN Disable(b, i)
  ELSE Input([b EXCEPT !.disabled = @ \ {i}], i, 1)

(* The column kbdColumn & 7 selects. *)
Column(sel) ==
  (IF 18 \in sel THEN 1 ELSE 0) + (IF 19 \in sel THEN 2 ELSE 0) + (IF 20 \in sel THEN 4 ELSE 0)

(* The level of a row with the columns in sel selected. *)
RowLevel(sel, r) ==
  IF \/ <<r, Column(sel)>> \in keys.down
     \/ AlphaSelect \notin sel /\ r = AlphaRow /\ keys.alpha
  THEN 0 ELSE 1

(* Mutant: the rows start one bit too low. *)
RowBitLow(r) == 2 + r

(* The CRU bit of a row. *)
RowBit(r) == 3 + r

RowsInOrder == [i \in 1 .. 8 |-> i - 1]

(* kbdColumnUpdate: every row is input again. *)
ColumnUpdate(b, i, v) ==
  LET sel == IF v = 1 THEN b.column \cup {i} ELSE b.column \ {i}
  IN  FoldLeft(LAMBDA c, r : IF r \in Rows THEN Input(c, RowBit(r), RowLevel(sel, r)) ELSE c,
               [b EXCEPT !.column = sel], RowsInOrder)

(* cruBitOutput *)
Output(b, i, v) ==
  IF i = ModeBit THEN [b EXCEPT !.timerMode = v = 1]
  ELSE IF i \in Lines THEN BitSet(b, i, v)
  ELSE ColumnUpdate(b, i, v)

(* cruMultiBitSet *)
OutputBits(b, bits) == FoldLeft(LAMBDA c, o : Output(c, o[1], o[2]), b, bits)

(* What tms9901BitGet may return: a bit of the time that remains, or the   *)
(* input.                                                                  *)
BitGet(b, i) ==
  IF ~b.timerMode THEN {b.line[i]} ELSE IF b.running THEN {0, 1} ELSE {0}

-----------------------------------------------------------------------------
(* The CPU                                                                 *)

(* interruptLevel: any pending interrupt is level 1, unless all are masked. *)
Pending(mask, b) == mask > 0 /\ b.active # {}

(* Mutant: the mask becomes the level itself. *)
InterruptedAtLevel(c) ==
  [now |-> [mask |-> 1, isr |-> TRUE, spin |-> FALSE], saved |-> c]

(* The state of the CPU when it takes an interrupt in the context c. *)
Interrupted(c) ==
  [now |-> [mask |-> 0, isr |-> TRUE, spin |-> FALSE], saved |-> c]

(* The end of execute: c is the context after the instruction. *)
AcceptInterrupt(c) ==
  cpu' = IF Pending(c.mask, bus') THEN Interrupted(c) ELSE [cpu EXCEPT !.now = c]

Limi ==
  /\ opcode.op = "LIMI"
  /\ UNCHANGED <<bus, vdp>>
  /\ AcceptInterrupt([cpu.now EXCEPT !.mask = opcode.mask])

CruOutput ==
  /\ opcode.op = "CRU"
  /\ bus' = OutputBits(bus, opcode.bits)
  /\ UNCHANGED vdp
  /\ AcceptInterrupt(cpu.now)

(* cruBitGet stores what the handler returns. *)
CruGet ==
  /\ opcode.op = "TB"
  /\ \E v \in BitGet(bus, opcode.bit) : bus' = [bus EXCEPT !.line[opcode.bit] = v]
  /\ UNCHANGED vdp
  /\ AcceptInterrupt(cpu.now)

Rtwp ==
  /\ opcode.op = "RTWP"
  /\ UNCHANGED <<bus, vdp>>
  /\ AcceptInterrupt([cpu.saved EXCEPT !.spin = @ /\ ~opcode.skip])

SpinJump ==
  /\ opcode.op = "SPIN"
  /\ UNCHANGED <<bus, vdp>>
  /\ AcceptInterrupt([cpu.now EXCEPT !.spin = TRUE])

VdpRegister ==
  /\ opcode.op = "VDP"
  /\ vdp' = [vdp EXCEPT !.enable = opcode.enable]
  /\ UNCHANGED bus
  /\ AcceptInterrupt(cpu.now)

(* Reading the status resets its top bits. *)
VdpStatus ==
  /\ opcode.op = "STATUS"
  /\ vdp' = [vdp EXCEPT !.retrace = FALSE]
  /\ UNCHANGED bus
  /\ AcceptInterrupt(cpu.now)

OtherInstruction ==
  /\ opcode.op = "OTHER"
  /\ UNCHANGED <<bus, vdp>>
  /\ AcceptInterrupt(cpu.now)

Instructions ==
  \/ Limi \/ CruOutput \/ CruGet \/ Rtwp
  \/ SpinJump \/ VdpRegister \/ VdpStatus \/ OtherInstruction

-----------------------------------------------------------------------------
(* The run loop                                                            *)

Init ==
  /\ bus = [line |-> [i \in Lines |-> 1], active |-> {}, disabled |-> {},
            timerMode |-> FALSE, timer |-> {}, running |-> FALSE,
            expired |-> FALSE, column |-> {}]
  /\ vdp = [enable |-> FALSE, retrace |-> FALSE, expired |-> FALSE]
  /\ held = {}
  /\ events = <<>>
  /\ keys = [down |-> {}, alpha |-> FALSE]
  /\ LET start == [mask |-> 0, isr |-> FALSE, spin |-> FALSE]
     IN  cpu = [now |-> start, saved |-> start]
  /\ phase = "fetch"
  /\ opcode = NoOpcode
  /\ count = 0

(* What the CPU may find at its pc. *)
AtPc == IF cpu.now.spin THEN {Spin} ELSE IF cpu.now.isr THEN Handler ELSE Program

(* Mutant: the count is never reduced. *)
CountFromNever(n) == n

(* The count an iteration starts from. *)
CountFrom(n) == IF n >= InstPerInterrupt THEN n - InstPerInterrupt ELSE n

(* The loop blocks at a SPIN and every InstPerInterrupt instructions. *)
Fetch ==
  /\ phase = "fetch"
  /\ opcode' \in AtPc
  /\ count' = CountFrom(count)
  /\ phase' = IF count >= InstPerInterrupt \/ opcode'.op = "SPIN" THEN "kbd" ELSE "execute"
  /\ UNCHANGED <<bus, vdp, held, events, keys, cpu>>

(* Mutant: the release of a key clears only one of its rows. *)
DecodedOneRow(k, v) ==
  [down |-> IF v = 1 THEN keys.down \cup KeyAt[k]
            ELSE keys.down \ {p \in KeyAt[k] : p[1] = AlphaRow},
   alpha |-> IF k = AlphaKey /\ v = 1 THEN ~keys.alpha ELSE keys.alpha]

(* decodeEvent: a key sets or clears all its positions in the matrix. *)
Decoded(k, v) ==
  [down |-> IF v = 1 THEN keys.down \cup KeyAt[k] ELSE keys.down \ KeyAt[k],
   alpha |-> IF k = AlphaKey /\ v = 1 THEN ~keys.alpha ELSE keys.alpha]

(* kbdPoll: at most one event *)
KbdPoll ==
  /\ phase = "kbd"
  /\ \/ /\ events = <<>>
        /\ UNCHANGED <<events, keys>>
     \/ /\ events # <<>>
        /\ keys' = Decoded(Head(events)[1], Head(events)[2])
        /\ events' = Tail(events)
  /\ phase' = "timer"
  /\ UNCHANGED <<bus, vdp, held, cpu, opcode, count>>

(* Mutant: no interrupt while the program has not read the status. *)
VdpRefreshOnce ==
  IF vdp.enable /\ ~vdp.retrace
  THEN /\ bus' = Input(bus, IRQ_VDP, 0)
       /\ vdp' = [vdp EXCEPT !.expired = FALSE, !.retrace = TRUE]
  ELSE /\ vdp' = [vdp EXCEPT !.expired = FALSE]
       /\ UNCHANGED bus

(* vdpRefresh, as far as it changes more than the picture *)
VdpRefresh ==
  IF vdp.enable
  THEN /\ bus' = Input(bus, IRQ_VDP, 0)
       /\ vdp' = [vdp EXCEPT !.expired = FALSE, !.retrace = TRUE]
  ELSE /\ vdp' = [vdp EXCEPT !.expired = FALSE]
       /\ UNCHANGED bus

(* timerPoll finds the VDP timer expired, and looks no further. *)
PollVdp ==
  /\ phase = "timer"
  /\ vdp.expired
  /\ VdpRefresh
  /\ phase' = "execute"
  /\ UNCHANGED <<held, events, keys, cpu, opcode, count>>

(* Mutant: the line goes high. *)
TimerCallbackHigh(b) == IF IRQ_TIMER \in b.disabled THEN b ELSE Input(b, IRQ_TIMER, 1)

(* timerCallback *)
TimerCallback(b) == IF IRQ_TIMER \in b.disabled THEN b ELSE Input(b, IRQ_TIMER, 0)

(* timerPoll finds only the TMS9901 timer expired. *)
PollTms9901 ==
  /\ phase = "timer"
  /\ ~vdp.expired /\ bus.expired
  /\ bus' = TimerCallback([bus EXCEPT !.expired = FALSE])
  /\ phase' = "execute"
  /\ UNCHANGED <<vdp, held, events, keys, cpu, opcode, count>>

Execute ==
  /\ phase = "execute"
  /\ Instructions
  /\ phase' = "fetch"
  /\ opcode' = NoOpcode
  /\ count' = count + 1
  /\ UNCHANGED <<held, events, keys>>

RunLoop == Fetch \/ KbdPoll \/ PollVdp \/ PollTms9901 \/ Execute

-----------------------------------------------------------------------------
(* The host                                                                *)

(* The 20 ms timer of the VDP expires. *)
VdpExpires ==
  /\ ~vdp.expired
  /\ vdp' = [vdp EXCEPT !.expired = TRUE]
  /\ UNCHANGED <<bus, held, events, keys, cpu, phase, opcode, count>>

(* The TMS9901 timer expires; it is periodic until stopped. *)
Tms9901Expires ==
  /\ bus.running /\ ~bus.expired
  /\ bus' = [bus EXCEPT !.expired = TRUE]
  /\ UNCHANGED <<vdp, held, events, keys, cpu, phase, opcode, count>>

PressKey(k) ==
  /\ k \notin held /\ Len(events) < MaxEvents
  /\ held' = held \cup {k}
  /\ events' = Append(events, <<k, 1>>)
  /\ UNCHANGED <<bus, vdp, keys, cpu, phase, opcode, count>>

ReleaseKey(k) ==
  /\ k \in held /\ Len(events) < MaxEvents
  /\ held' = held \ {k}
  /\ events' = Append(events, <<k, 0>>)
  /\ UNCHANGED <<bus, vdp, keys, cpu, phase, opcode, count>>

Host == VdpExpires \/ Tms9901Expires \/ \E k \in Keys : PressKey(k) \/ ReleaseKey(k)

Next == RunLoop \/ Host

Spec == Init /\ [][Next]_vars

(* The emulator's thread runs; the VDP timer is periodic, and so is the    *)
(* TMS9901 timer while it is armed.  When a poll keeps finding the         *)
(* TMS9901's timer alone it gets to serve it before the VDP's expires.     *)
Fairness ==
  /\ WF_vars(RunLoop)
  /\ WF_vars(VdpExpires)
  /\ WF_vars(Tms9901Expires)
  /\ SF_vars(PollTms9901)

FairSpec == Spec /\ Fairness

-----------------------------------------------------------------------------
(* Properties                                                              *)

(* The interrupt routine is never interrupted, so that R13 to R15 of its   *)
(* only workspace keep the way back to the program: taking an interrupt    *)
(* lowers the mask, and RTWP restores the mask and takes a pending         *)
(* interrupt in one instruction.                                           *)
ContextKept == cpu.now.isr => cpu.now.mask = 0 /\ ~cpu.saved.isr

(* When no key is down and all events are read, the matrix is clear, also  *)
(* after overlapping presses of keys that stand for the same positions.    *)
NoStuckKeys == held = {} /\ events = <<>> => keys.down = {}

Acknowledges(i) == opcode.op = "CRU" /\ <<i, 1>> \in Range(opcode.bits)

(* A retrace interrupt, once pending and as long as it is enabled, is not  *)
(* lost before the program writes 1 to its bit: no keyboard scan, timer or *)
(* other interrupt clears it.                                              *)
RetraceNotLost ==
  [][/\ IRQ_VDP \in bus.active \ bus.disabled
     /\ IRQ_VDP \notin bus'.active
     => phase = "execute" /\ Acknowledges(IRQ_VDP)]_vars

(* The program jumps to itself, waiting for an interrupt. *)
Waiting == cpu.now.spin /\ cpu.now.mask > 0

(* A program that waits for an interrupt with the retrace interrupt        *)
(* enabled gets one.                                                       *)
RetraceEndsWait ==
  Waiting /\ vdp.enable /\ IRQ_VDP \notin bus.disabled ~> cpu.now.isr

(* A poll that finds both timers expired serves the VDP's.  The next       *)
(* expiry of that is 20 ms away, far longer than a spinning program takes  *)
(* to come back to the poll.                                               *)
PollsFindVdpQuiet == []<>(phase = "timer" /\ ~vdp.expired)

(* A program that waits with only the TMS9901 timer running, as in         *)
(* cassette transfers, gets an interrupt although the retrace timer is     *)
(* served first.                                                           *)
TimerEndsWait ==
  PollsFindVdpQuiet =>
    (Waiting /\ bus.running /\ IRQ_TIMER \notin bus.disabled ~> cpu.now.isr)

-----------------------------------------------------------------------------
(* What a comment of the source says                                       *)

(* "The state reflects any active hardware input but the value read by     *)
(* software may be different": a line whose interrupt is pending is low.   *)
StateIsInput == \A i \in bus.active : bus.line[i] = 0

=============================================================================
