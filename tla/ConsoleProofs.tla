---------------------------- MODULE ConsoleProofs ----------------------------
(***************************************************************************)
(* Theorems about Console: the interrupt routine keeps its way back, no    *)
(* key sticks in the matrix, and no retrace interrupt is lost.  The first  *)
(* two do not depend on what CRU outputs do; for the last the folds of     *)
(* Console are followed step by step.                                      *)
(***************************************************************************)
EXTENDS Console, FoldLemmas, SequenceTheorems

-----------------------------------------------------------------------------
(* The interrupt routine                                                   *)

CpuTypes == cpu \in [now : Context, saved : Context]

(* The instruction being executed was found at the pc. *)
OpcodeFits == phase # "fetch" => opcode \in AtPc

CpuInv == CpuTypes /\ OpcodeFits /\ ContextKept

(* The mask of LIMI is a mask. *)
LEMMA LimiMask ==
  ASSUME NEW i \in Instruction, i.op = "LIMI" PROVE i.mask \in 0 .. 15
  BY DEF Instruction

(* The instructions at the pc, in the program and in its routine. *)
LEMMA OpcodeShape ==
  ASSUME CpuTypes, opcode \in AtPc
  PROVE  /\ opcode.op = "LIMI" => opcode.mask \in 0 .. 15
         /\ cpu.now.isr /\ opcode.op = "LIMI" => opcode.mask = 0
         /\ opcode.op = "RTWP" => cpu.now.isr
<1>1. CASE opcode = Spin
  BY <1>1 DEF Spin
<1>2. CASE opcode \in Program /\ ~cpu.now.isr
  <2>1. opcode \in Instruction /\ opcode.op # "RTWP"
    BY <1>2, ProgramAssumption
  <2> QED BY <1>2, <2>1, LimiMask
<1>3. CASE opcode \in Handler /\ cpu.now.isr
  <2>1. opcode \in Instruction /\ (opcode.op = "LIMI" => opcode.mask = 0)
    BY <1>3, ProgramAssumption
  <2> QED BY <1>3, <2>1, LimiMask
<1> QED BY <1>1, <1>2, <1>3 DEF AtPc

(* An instruction that leaves the context c, in which only the program can *)
(* be interrupted, ends with the contexts kept.                            *)
LEMMA AcceptKeeps ==
  ASSUME CpuTypes, ContextKept,
         NEW c \in Context,
         c.isr => c.mask = 0 /\ ~cpu.saved.isr,
         AcceptInterrupt(c)
  PROVE  CpuTypes' /\ ContextKept'
<1>1. CASE Pending(c.mask, bus')
  <2>1. ~c.isr
    BY <1>1 DEF Pending
  <2>2. cpu' = [now |-> [mask |-> 0, isr |-> TRUE, spin |-> FALSE], saved |-> c]
    BY <1>1 DEF AcceptInterrupt, Interrupted
  <2> QED BY <2>1, <2>2 DEF CpuTypes, ContextKept, Context
<1>2. CASE ~Pending(c.mask, bus')
  <2>1. cpu' = [cpu EXCEPT !.now = c]
    BY <1>2 DEF AcceptInterrupt
  <2>2. cpu'.now = c /\ cpu'.saved = cpu.saved
    BY <2>1 DEF CpuTypes
  <2> QED BY <2>1, <2>2 DEF CpuTypes, ContextKept
<1> QED BY <1>1, <1>2

LEMMA ExecuteKeeps ==
  ASSUME CpuInv, Execute PROVE CpuTypes' /\ ContextKept'
<1>1. opcode \in AtPc /\ cpu.now \in Context /\ cpu.saved \in Context
  BY DEF CpuInv, Execute, OpcodeFits, CpuTypes
<1>2. /\ opcode.op = "LIMI" => opcode.mask \in 0 .. 15
      /\ cpu.now.isr /\ opcode.op = "LIMI" => opcode.mask = 0
      /\ opcode.op = "RTWP" => cpu.now.isr
  BY <1>1, OpcodeShape DEF CpuInv
<1>3. cpu.now.isr => cpu.now.mask = 0 /\ ~cpu.saved.isr
  BY DEF CpuInv, ContextKept
<1>4. CASE AcceptInterrupt(cpu.now)
  BY <1>1, <1>3, <1>4, AcceptKeeps DEF CpuInv
<1>5. CASE Limi
  <2> DEFINE c == [cpu.now EXCEPT !.mask = opcode.mask]
  <2>1. c \in Context /\ c.isr = cpu.now.isr /\ c.mask = opcode.mask
    BY <1>1, <1>2, <1>5 DEF Limi, Context
  <2>2. AcceptInterrupt(c)
    BY <1>5 DEF Limi
  <2>3. c.isr => c.mask = 0 /\ ~cpu.saved.isr
    BY <1>2, <1>3, <1>5, <2>1 DEF Limi
  <2> HIDE DEF c
  <2> QED BY <2>1, <2>2, <2>3, AcceptKeeps DEF CpuInv
<1>6. CASE Rtwp
  <2> DEFINE c == [cpu.saved EXCEPT !.spin = @ /\ ~opcode.skip]
  <2>1. c \in Context /\ c.isr = cpu.saved.isr
    BY <1>1 DEF Context
  <2>2. AcceptInterrupt(c)
    BY <1>6 DEF Rtwp
  <2>3. ~c.isr
    BY <1>2, <1>3, <1>6, <2>1 DEF Rtwp
  <2> HIDE DEF c
  <2> QED BY <2>1, <2>2, <2>3, AcceptKeeps DEF CpuInv
<1>7. CASE SpinJump
  <2> DEFINE c == [cpu.now EXCEPT !.spin = TRUE]
  <2>1. c \in Context /\ c.isr = cpu.now.isr /\ c.mask = cpu.now.mask
    BY <1>1 DEF Context
  <2>2. AcceptInterrupt(c)
    BY <1>7 DEF SpinJump
  <2> HIDE DEF c
  <2> QED BY <1>3, <2>1, <2>2, AcceptKeeps DEF CpuInv
<1> QED
  BY <1>4, <1>5, <1>6, <1>7
  DEF Execute, Instructions, CruOutput, CruGet, VdpRegister, VdpStatus, OtherInstruction

LEMMA CpuInvInit == Init => CpuInv
  BY DEF Init, CpuInv, CpuTypes, Context, OpcodeFits, ContextKept

LEMMA CpuInvNext == CpuInv /\ [Next]_vars => CpuInv'
<1> SUFFICES ASSUME CpuInv, [Next]_vars PROVE CpuInv'
  OBVIOUS
<1>1. CASE Execute
  <2>1. phase' = "fetch"
    BY <1>1 DEF Execute
  <2> QED BY <1>1, <2>1, ExecuteKeeps DEF CpuInv, OpcodeFits
<1>2. CASE Fetch
  BY <1>2 DEF Fetch, CpuInv, CpuTypes, OpcodeFits, ContextKept, AtPc
<1>3. CASE phase # "fetch" /\ UNCHANGED <<cpu, opcode>>
  BY <1>3 DEF CpuInv, CpuTypes, OpcodeFits, ContextKept, AtPc
<1>4. CASE UNCHANGED <<cpu, opcode, phase>>
  BY <1>4 DEF CpuInv, CpuTypes, OpcodeFits, ContextKept, AtPc
<1>5. CASE KbdPoll \/ PollVdp \/ PollTms9901
  BY <1>3, <1>5 DEF KbdPoll, PollVdp, PollTms9901
<1>6. CASE Host
  BY <1>4, <1>6 DEF Host, VdpExpires, Tms9901Expires, PressKey, ReleaseKey
<1>7. CASE UNCHANGED vars
  BY <1>4, <1>7 DEF vars
<1> QED
  BY <1>1, <1>2, <1>5, <1>6, <1>7 DEF Next, RunLoop

(* The interrupt routine is never interrupted, whatever the program and    *)
(* its routine output to the CRU (cpu.cc 995-1016).                        *)
THEOREM RoutineKeepsContext == Spec => []ContextKept
<1>1. Spec => []CpuInv
  BY CpuInvInit, CpuInvNext, PTL DEF Spec
<1>2. CpuInv => ContextKept
  BY DEF CpuInv
<1> QED BY <1>1, <1>2, PTL

-----------------------------------------------------------------------------
(* The keyboard                                                            *)

KeyTypes ==
  /\ held \subseteq Keys
  /\ events \in Seq(Keys \X {0, 1})
  /\ keys.down \subseteq Rows \X Cols

(* The key k was released, or will be when the events are read. *)
ReleaseComes(k) == \E j \in 1 .. Len(events) : events[j] = <<k, 0>>

(* A press that was not read yet is of a key that is held, or is followed  *)
(* by its release.                                                         *)
PressesEnd ==
  \A i \in 1 .. Len(events) :
    events[i][2] = 1 =>
      \/ events[i][1] \in held
      \/ \E j \in i + 1 .. Len(events) : events[j] = <<events[i][1], 0>>

(* A position that is down belongs to a key that is held or whose release  *)
(* is among the events.                                                    *)
DownHasKey ==
  \A p \in keys.down : \E k \in Keys : p \in KeyAt[k] /\ (k \in held \/ ReleaseComes(k))

KeyInv == KeyTypes /\ PressesEnd /\ DownHasKey

LEMMA KeyInvInit == Init => KeyInv
  BY DEF Init, KeyInv, KeyTypes, PressesEnd, DownHasKey

(* A key that moves appends its event. *)
LEMMA MoveKeeps ==
  ASSUME KeyInv, NEW k \in Keys, NEW v \in {0, 1},
         events' = Append(events, <<k, v>>),
         held' = IF v = 1 THEN held \cup {k} ELSE held \ {k},
         UNCHANGED keys
  PROVE  KeyInv'
<1> DEFINE n == Len(events)
<1>1. events \in Seq(Keys \X {0, 1}) /\ n \in Nat
  BY LenProperties DEF KeyInv, KeyTypes
<1>2. /\ events' \in Seq(Keys \X {0, 1})
      /\ Len(events') = n + 1
      /\ \A i \in 1 .. n : events'[i] = events[i]
      /\ events'[n + 1] = <<k, v>>
  BY <1>1, AppendProperties
<1>3. KeyTypes'
  BY <1>2 DEF KeyInv, KeyTypes
<1>4. \A q \in Keys : q \in held \/ ReleaseComes(q) => q \in held' \/ ReleaseComes(q)'
  BY <1>1, <1>2, SMTT(40) DEF ReleaseComes
<1>5. DownHasKey'
  BY <1>4 DEF KeyInv, DownHasKey
<1>6. ASSUME NEW i \in 1 .. n + 1, events'[i][2] = 1
      PROVE  \/ events'[i][1] \in held'
             \/ \E j \in i + 1 .. n + 1 : events'[j] = <<events'[i][1], 0>>
  <2>1. CASE i = n + 1
    BY <1>2, <1>6, <2>1
  <2>2. CASE i \in 1 .. n
    <3>1. events'[i] = events[i]
      BY <1>2, <2>2
    <3>2. CASE events[i][1] \in held
      <4>1. events[i][1] \in held' \/ (v = 0 /\ events[i][1] = k)
        BY <3>2
      <4>2. n + 1 \in i + 1 .. n + 1
        BY <1>1, <2>2
      <4> QED BY <1>2, <3>1, <4>1, <4>2
    <3>3. CASE \E j \in i + 1 .. n : events[j] = <<events[i][1], 0>>
      <4>1. PICK j \in i + 1 .. n : events[j] = <<events[i][1], 0>>
        BY <3>3
      <4>2. j \in i + 1 .. n + 1 /\ j \in 1 .. n
        BY <1>1, <2>2, <4>1
      <4> QED BY <1>2, <3>1, <4>1, <4>2
    <3> QED BY <1>6, <2>2, <3>1, <3>2, <3>3 DEF KeyInv, PressesEnd
  <2>3. i = n + 1 \/ i \in 1 .. n
    BY <1>1
  <2> QED BY <2>1, <2>2, <2>3
<1>7. PressesEnd'
  BY <1>2, <1>6 DEF PressesEnd
<1> QED BY <1>3, <1>5, <1>7 DEF KeyInv

(* Reading an event *)
LEMMA PollKeeps ==
  ASSUME KeyInv, events # <<>>, UNCHANGED held,
         keys' = Decoded(Head(events)[1], Head(events)[2]),
         events' = Tail(events)
  PROVE  KeyInv'
<1> PICK n : n = Len(events)
  OBVIOUS
<1>1. events \in Seq(Keys \X {0, 1}) /\ n \in Nat \ {0}
  BY LenProperties, EmptySeq DEF KeyInv, KeyTypes
<1>2. /\ events' \in Seq(Keys \X {0, 1})
      /\ Len(events') = n - 1
      /\ \A i \in 1 .. n - 1 : events'[i] = events[i + 1]
      /\ Head(events) = events[1]
  BY <1>1, HeadTailProperties
<1>3. PICK k \in Keys, v \in {0, 1} : events[1] = <<k, v>>
  BY <1>1, ElementOfSeq
<1>4. keys'.down = IF v = 1 THEN keys.down \cup KeyAt[k] ELSE keys.down \ KeyAt[k]
  <2>1. Head(events)[1] = k /\ Head(events)[2] = v
    BY <1>2, <1>3
  <2>2. keys' = Decoded(k, v)
    BY <2>1
  <2>3. \A d, a : [down |-> d, alpha |-> a].down = d
    OBVIOUS
  <2> QED BY <2>2, <2>3, Zenon DEF Decoded
<1>5. KeyTypes'
  BY <1>2, <1>3, <1>4, KeyAssumption DEF KeyInv, KeyTypes
<1>6. PressesEnd'
  <2> SUFFICES ASSUME NEW i \in 1 .. n - 1, events'[i][2] = 1
               PROVE  \/ events'[i][1] \in held
                      \/ \E j \in i + 1 .. n - 1 : events'[j] = <<events'[i][1], 0>>
    BY <1>2 DEF PressesEnd
  <2>1. i + 1 \in 1 .. n /\ events'[i] = events[i + 1]
    BY <1>1, <1>2
  <2>2. CASE \E j \in i + 2 .. n : events[j] = <<events[i + 1][1], 0>>
    <3>1. PICK j \in i + 2 .. n : events[j] = <<events[i + 1][1], 0>>
      BY <2>2
    <3>2. j - 1 \in i + 1 .. n - 1 /\ j - 1 \in 1 .. n - 1 /\ (j - 1) + 1 = j
      BY <1>1, <3>1
    <3>3. events'[j - 1] = <<events'[i][1], 0>>
      BY <1>2, <2>1, <3>1, <3>2
    <3> QED BY <3>2, <3>3
  <2>3. events[i + 1][1] \in held \/ \E j \in (i + 1) + 1 .. n : events[j] = <<events[i + 1][1], 0>>
    BY <2>1 DEF KeyInv, PressesEnd
  <2>4. (i + 1) + 1 = i + 2
    BY <1>1
  <2> QED BY <2>1, <2>2, <2>3, <2>4
<1>7. ASSUME NEW q \in Keys, NEW j \in 2 .. n, events[j] = <<q, 0>>
      PROVE  ReleaseComes(q)'
  <2>1. j - 1 \in 1 .. n - 1 /\ (j - 1) + 1 = j
    BY <1>1
  <2>2. events'[j - 1] = <<q, 0>>
    BY <1>2, <1>7, <2>1
  <2> QED BY <1>2, <2>1, <2>2 DEF ReleaseComes
<1>8. ASSUME NEW q \in Keys, q \in held \/ ReleaseComes(q), v = 1 \/ q # k
      PROVE  q \in held' \/ ReleaseComes(q)'
  <2>1. CASE ReleaseComes(q)
    <3>1. PICK j \in 1 .. n : events[j] = <<q, 0>>
      BY <2>1 DEF ReleaseComes
    <3>2. j # 1
      BY <1>3, <1>8, <3>1
    <3> QED BY <1>1, <1>7, <3>1, <3>2
  <2> QED BY <1>8, <2>1
<1>9. v = 1 => k \in held' \/ ReleaseComes(k)'
  <2> HAVE v = 1
  <2>1. k \in held \/ \E j \in 2 .. n : events[j] = <<k, 0>>
    <3>1. 1 \in 1 .. n /\ 1 + 1 = 2 /\ events[1][1] = k /\ events[1][2] = 1
      BY <1>1, <1>3
    <3> QED BY <3>1 DEF KeyInv, PressesEnd
  <2> QED BY <1>3, <1>7, <2>1
<1>10. DownHasKey'
  <2> SUFFICES ASSUME NEW p \in keys'.down
               PROVE  \E q \in Keys : p \in KeyAt[q] /\ (q \in held' \/ ReleaseComes(q)')
    BY DEF DownHasKey
  <2>1. CASE v = 1 /\ p \in KeyAt[k]
    BY <1>3, <1>9, <2>1
  <2>2. CASE p \in keys.down /\ (v = 1 \/ p \notin KeyAt[k])
    <3>1. PICK q \in Keys : p \in KeyAt[q] /\ (q \in held \/ ReleaseComes(q))
      BY <2>2 DEF KeyInv, DownHasKey
    <3> QED BY <1>8, <2>2, <3>1
  <2> QED BY <1>3, <1>4, <2>1, <2>2
<1> QED BY <1>5, <1>6, <1>10 DEF KeyInv

LEMMA KeyInvNext == KeyInv /\ [Next]_vars => KeyInv'
<1> SUFFICES ASSUME KeyInv, [Next]_vars PROVE KeyInv'
  OBVIOUS
<1>1. CASE UNCHANGED <<held, events, keys>>
  BY <1>1 DEF KeyInv, KeyTypes, PressesEnd, DownHasKey, ReleaseComes
<1>2. CASE KbdPoll
  BY <1>1, <1>2, PollKeeps DEF KbdPoll
<1>3. ASSUME NEW k \in Keys, PressKey(k) \/ ReleaseKey(k) PROVE KeyInv'
  <2>1. CASE PressKey(k)
    BY <2>1, MoveKeeps DEF PressKey
  <2>2. CASE ReleaseKey(k)
    BY <2>2, MoveKeeps DEF ReleaseKey
  <2> QED BY <1>3, <2>1, <2>2
<1>4. CASE Fetch \/ PollVdp \/ PollTms9901 \/ Execute
  BY <1>1, <1>4 DEF Fetch, PollVdp, PollTms9901, Execute
<1>5. CASE VdpExpires \/ Tms9901Expires \/ UNCHANGED vars
  BY <1>1, <1>5 DEF VdpExpires, Tms9901Expires, vars
<1> QED
  BY <1>2, <1>3, <1>4, <1>5 DEF Next, RunLoop, Host

(* No key sticks, for any layout of the keys, also when keys share matrix  *)
(* positions and are pressed together (kbd.cc 127-188).                    *)
THEOREM KeysComeUp == Spec => []NoStuckKeys
<1>1. Spec => []KeyInv
  BY KeyInvInit, KeyInvNext, PTL DEF Spec
<1>2. KeyInv => NoStuckKeys
  <2> SUFFICES ASSUME KeyInv, held = {}, events = <<>> PROVE keys.down = {}
    BY DEF NoStuckKeys
  <2>1. \A k \in Keys : ~(k \in held \/ ReleaseComes(k))
    BY DEF ReleaseComes
  <2> QED BY <2>1 DEF KeyInv, DownHasKey
<1> QED BY <1>1, <1>2, PTL

-----------------------------------------------------------------------------
(* The CRU                                                                 *)

OutputBit == Lines \cup {ModeBit, AlphaSelect} \cup Selects

(* c is a state of the bus after b in which a pending retrace interrupt is *)
(* still pending.                                                          *)
RetraceStays(b, c) == c \in Bus /\ (IRQ_VDP \in b.active => IRQ_VDP \in c.active)

LEMMA InputFacts ==
  ASSUME NEW b \in Bus, NEW i \in Lines, NEW v \in {0, 1}
  PROVE  Input(b, i, v) \in Bus /\ (i # IRQ_VDP => RetraceStays(b, Input(b, i, v)))
  BY DEF Input, Bus, RetraceStays

LEMMA TimerBitFacts ==
  ASSUME NEW b \in Bus, NEW i \in Lines, NEW v \in {0, 1}
  PROVE  RetraceStays(b, TimerBit(b, i, v))
  BY DEF TimerBit, Bus, RetraceStays

LEMMA DisableFacts ==
  ASSUME NEW b \in Bus, NEW i \in Lines
  PROVE  RetraceStays(b, Disable(b, i))
<1> DEFINE d == [b EXCEPT !.disabled = @ \cup {i}]
<1>1. RetraceStays(b, d)
  BY DEF Bus, RetraceStays
<1>2. RetraceStays(b, TimerStop(d))
  BY DEF Bus, RetraceStays, TimerStop
<1> QED BY <1>1, <1>2 DEF Disable

(* Only a 1 that is written to the bit of the retrace interrupt clears it. *)
LEMMA BitSetFacts ==
  ASSUME NEW b \in Bus, NEW i \in Lines, NEW v \in {0, 1}
  PROVE  /\ BitSet(b, i, v) \in Bus
         /\ <<i, v>> # <<IRQ_VDP, 1>> => RetraceStays(b, BitSet(b, i, v))
<1>1. CASE b.timerMode
  BY <1>1, TimerBitFacts DEF BitSet, RetraceStays
<1>2. CASE ~b.timerMode /\ v = 0
  BY <1>2, DisableFacts DEF BitSet, RetraceStays
<1>3. CASE ~b.timerMode /\ v = 1
  <2> DEFINE d == [b EXCEPT !.disabled = @ \ {i}]
  <2>1. d \in Bus /\ d.active = b.active
    BY DEF Bus
  <2>2. BitSet(b, i, v) = Input(d, i, 1)
    BY <1>3 DEF BitSet
  <2> HIDE DEF d
  <2> QED BY <1>3, <2>1, <2>2, InputFacts DEF RetraceStays
<1> QED BY <1>1, <1>2, <1>3

LEMMA RowFacts ==
  ASSUME NEW r \in Rows, NEW sel
  PROVE  RowBit(r) \in Lines \ {IRQ_VDP} /\ RowLevel(sel, r) \in {0, 1}
  BY KeyAssumption DEF RowBit, RowLevel, IRQ_VDP

(* A scan of the keyboard inputs every row and loses no retrace interrupt. *)
LEMMA ColumnUpdateFacts ==
  ASSUME NEW b \in Bus, NEW i \in 18 .. 21, NEW v \in {0, 1}
  PROVE  RetraceStays(b, ColumnUpdate(b, i, v))
<1> PICK sel \in SUBSET (18 .. 21) : sel = IF v = 1 THEN b.column \cup {i} ELSE b.column \ {i}
  BY DEF Bus
<1> PICK c \in Bus : c = [b EXCEPT !.column = sel]
  BY DEF Bus
<1> DEFINE Row(d, r) == IF r \in Rows THEN Input(d, RowBit(r), RowLevel(sel, r)) ELSE d
           F == [k \in 1 .. 8 |-> [d \in Bus |-> Row(d, k - 1)]]
<1>1. ASSUME NEW d \in Bus, NEW r PROVE RetraceStays(d, Row(d, r))
  BY InputFacts, RowFacts DEF RetraceStays
<1>2. F \in [1 .. 8 -> [Bus -> Bus]]
  BY <1>1 DEF RetraceStays
<1>3. /\ DOMAIN RowsInOrder = 1 .. 8
      /\ \A k \in 1 .. 8 : RowsInOrder[k] = k - 1
  BY DEF RowsInOrder
<1>4. ColumnUpdate(b, i, v) =
        (CHOOSE it : it = [s \in SUBSET DOMAIN RowsInOrder |->
           IF s = {} THEN c
           ELSE IF RowsInOrder[Max(s)] \in Rows
                THEN Input(it[s \ {Max(s)}], RowBit(RowsInOrder[Max(s)]), RowLevel(sel, RowsInOrder[Max(s)]))
                ELSE it[s \ {Max(s)}]])[DOMAIN RowsInOrder]
  BY Zenon DEF ColumnUpdate, FoldLeft, MapThenFoldSet
<1> DEFINE Scans(it) == it = [s \in SUBSET (1 .. 8) |->
                                IF s = {} THEN c ELSE Row(it[s \ {Max(s)}], RowsInOrder[Max(s)])]
<1>5. ColumnUpdate(b, i, v) = (CHOOSE it : Scans(it))[1 .. 8]
  BY <1>3, <1>4
<1>6. \A s \in SUBSET (1 .. 8) : s # {} => Max(s) \in 1 .. 8
  BY MaxIsLargest
<1>7. \E it : Scans(it)
  <2> HIDE DEF F
  <2>1. PICK it \in [SUBSET (1 .. 8) -> Bus] : IsFold(it, 8, c, F)
    BY <1>2, FoldExists
  <2>2. ASSUME NEW s \in SUBSET (1 .. 8), s # {}
        PROVE  it[s] = Row(it[s \ {Max(s)}], RowsInOrder[Max(s)])
    <3>1. it[s] = F[Max(s)][it[s \ {Max(s)}]] /\ Max(s) \in 1 .. 8
      BY <1>6, <2>1, <2>2 DEF IsFold
    <3>2. s \ {Max(s)} \in SUBSET (1 .. 8)
      OBVIOUS
    <3> QED BY <1>3, <3>1, <3>2 DEF F
  <2>3. it[{}] = c
    BY <2>1 DEF IsFold
  <2> HIDE DEF Row
  <2>4. Scans(it)
    BY <2>2, <2>3
  <2> QED BY <2>4
<1>8. PICK it : Scans(it) /\ ColumnUpdate(b, i, v) = it[1 .. 8]
  <2> HIDE DEF Scans
  <2> QED BY <1>5, <1>7
<1>9. \A s \in SUBSET (1 .. 8) :
        s # {} /\ it[s \ {Max(s)}] \in Bus => it[s] = F[Max(s)][it[s \ {Max(s)}]]
  BY <1>3, <1>6, <1>8, ZenonT(60)
<1>10. it[{}] = c
  BY <1>8
<1>11. PICK f \in [0 .. 8 -> Bus] : /\ f[0] = c /\ f[8] = it[1 .. 8]
                                   /\ \A k \in 1 .. 8 : f[k] = F[k][f[k - 1]]
  <2> HIDE DEF F, Scans
  <2>1. FoldsWithin(Bus, 8, c, F, it)
    BY <1>2, <1>9, <1>10 DEF FoldsWithin
  <2> PICK G, n : G = F /\ n = 8
    OBVIOUS
  <2>2. FoldsWithin(Bus, n, c, G, it)
    BY <2>1
  <2>3. PICK f \in [0 .. n -> Bus] : /\ f[0] = c /\ f[n] = it[1 .. n]
                                    /\ \A k \in 1 .. n : f[k] = G[k][f[k - 1]]
    BY ONLY <2>2, FoldSteps
  <2> QED BY <2>3
<1> DEFINE S == {k \in 0 .. 8 : RetraceStays(b, f[k])}
<1>12. 0 \in S
  <2>1. RetraceStays(b, c)
    BY DEF RetraceStays, Bus
  <2>2. 0 \in 0 .. 8
    OBVIOUS
  <2> QED BY <1>11, <2>1, <2>2
<1>13. ASSUME NEW k \in 0 .. 8 - 1, k \in S PROVE k + 1 \in S
  <2>1. k + 1 \in 1 .. 8 /\ (k + 1) - 1 = k /\ f[k] \in Bus
    OBVIOUS
  <2>2. f[k + 1] = Row(f[k], k)
    BY <1>11, <2>1
  <2> HIDE DEF Row
  <2> QED BY <1>1, <1>13, <2>1, <2>2 DEF RetraceStays
<1>14. \A k \in 0 .. 8 : k \in S
  <2> HIDE DEF S
  <2> QED BY <1>12, <1>13, BoundedInduction
<1> QED BY <1>8, <1>11, <1>14

LEMMA OutputFacts ==
  ASSUME NEW b \in Bus, NEW i \in OutputBit, NEW v \in {0, 1}
  PROVE  /\ Output(b, i, v) \in Bus
         /\ <<i, v>> # <<IRQ_VDP, 1>> => RetraceStays(b, Output(b, i, v))
<1>1. CASE i = ModeBit
  BY <1>1 DEF Output, Bus, RetraceStays
<1>2. CASE i # ModeBit /\ i \in Lines
  BY <1>2, BitSetFacts DEF Output
<1>3. CASE i # ModeBit /\ i \notin Lines
  <2>1. i \in 18 .. 21
    BY <1>3 DEF OutputBit, AlphaSelect, Selects
  <2> QED BY <1>3, <2>1, ColumnUpdateFacts DEF Output, RetraceStays
<1> QED BY <1>1, <1>2, <1>3

(* An instruction that outputs several bits *)
LEMMA OutputBitsFacts ==
  ASSUME NEW b \in Bus, NEW bits \in Seq(OutputBit \X {0, 1})
  PROVE  /\ OutputBits(b, bits) \in Bus
         /\ <<IRQ_VDP, 1>> \notin Range(bits) => RetraceStays(b, OutputBits(b, bits))
<1> PICK n \in Nat : n = Len(bits)
  BY LenProperties
<1>1. DOMAIN bits = 1 .. n /\ \A k \in 1 .. n : bits[k] \in OutputBit \X {0, 1}
  BY LenProperties, ElementOfSeq
<1> DEFINE F == [k \in 1 .. n |-> [d \in Bus |-> Output(d, bits[k][1], bits[k][2])]]
<1>2. ASSUME NEW d \in Bus, NEW k \in 1 .. n
      PROVE  /\ Output(d, bits[k][1], bits[k][2]) \in Bus
             /\ bits[k] # <<IRQ_VDP, 1>> => RetraceStays(d, Output(d, bits[k][1], bits[k][2]))
  <2>1. PICK i \in OutputBit, v \in {0, 1} : bits[k] = <<i, v>>
    BY <1>1
  <2> QED BY <2>1, OutputFacts
<1>3. F \in [1 .. n -> [Bus -> Bus]]
  BY <1>2
<1>4. OutputBits(b, bits) =
        (CHOOSE it : it = [s \in SUBSET DOMAIN bits |->
           IF s = {} THEN b
           ELSE Output(it[s \ {Max(s)}], bits[Max(s)][1], bits[Max(s)][2])])[DOMAIN bits]
  BY Zenon DEF OutputBits, FoldLeft, MapThenFoldSet
<1> DEFINE Folds(it) == it = [s \in SUBSET (1 .. n) |->
                                IF s = {} THEN b
                                ELSE Output(it[s \ {Max(s)}], bits[Max(s)][1], bits[Max(s)][2])]
<1>5. OutputBits(b, bits) = (CHOOSE it : Folds(it))[1 .. n]
  BY <1>1, <1>4
<1>6. \A s \in SUBSET (1 .. n) : s # {} => Max(s) \in 1 .. n
  BY MaxIsLargest
<1>7. \E it : Folds(it)
  <2> HIDE DEF F
  <2>1. PICK it \in [SUBSET (1 .. n) -> Bus] : IsFold(it, n, b, F)
    BY <1>3, FoldExists
  <2>2. ASSUME NEW s \in SUBSET (1 .. n), s # {}
        PROVE  it[s] = Output(it[s \ {Max(s)}], bits[Max(s)][1], bits[Max(s)][2])
    <3>1. it[s] = F[Max(s)][it[s \ {Max(s)}]] /\ Max(s) \in 1 .. n
      BY <1>6, <2>1, <2>2 DEF IsFold
    <3>2. s \ {Max(s)} \in SUBSET (1 .. n)
      OBVIOUS
    <3> QED BY <3>1, <3>2 DEF F
  <2>3. it[{}] = b
    BY <2>1 DEF IsFold
  <2>4. Folds(it)
    BY <2>2, <2>3
  <2> QED BY <2>4
<1>8. PICK it : Folds(it) /\ OutputBits(b, bits) = it[1 .. n]
  <2> HIDE DEF Folds
  <2> QED BY <1>5, <1>7
<1>9. FoldsWithin(Bus, n, b, F, it)
  <2>1. \A s \in SUBSET (1 .. n) :
          s # {} /\ it[s \ {Max(s)}] \in Bus => it[s] = F[Max(s)][it[s \ {Max(s)}]]
    BY <1>6, <1>8
  <2>2. it[{}] = b
    BY <1>8
  <2> HIDE DEF F, Folds
  <2> QED BY <1>3, <2>1, <2>2 DEF FoldsWithin
<1>10. PICK G : G = F
  OBVIOUS
<1>11. FoldsWithin(Bus, n, b, G, it)
  <2> HIDE DEF F
  <2> QED BY <1>9, <1>10
<1>12. PICK f \in [0 .. n -> Bus] : /\ f[0] = b /\ f[n] = it[1 .. n]
                                   /\ \A k \in 1 .. n : f[k] = G[k][f[k - 1]]
  BY ONLY <1>11, FoldSteps
<1>13. OutputBits(b, bits) \in Bus
  BY <1>8, <1>12
<1>14. ASSUME <<IRQ_VDP, 1>> \notin Range(bits)
       PROVE  RetraceStays(b, OutputBits(b, bits))
  <2> DEFINE S == {k \in 0 .. n : RetraceStays(b, f[k])}
  <2>1. 0 \in S
    <3>1. RetraceStays(b, b) /\ 0 \in 0 .. n
      BY DEF RetraceStays
    <3> QED BY <1>12, <3>1
  <2>2. ASSUME NEW k \in 0 .. n - 1, k \in S PROVE k + 1 \in S
    <3>1. k + 1 \in 1 .. n /\ (k + 1) - 1 = k /\ f[k] \in Bus
      OBVIOUS
    <3>2. f[k + 1] = Output(f[k], bits[k + 1][1], bits[k + 1][2])
      BY <1>10, <1>12, <3>1
    <3>3. bits[k + 1] # <<IRQ_VDP, 1>>
      BY <1>1, <1>14, <3>1 DEF Range
    <3>4. RetraceStays(f[k], f[k + 1])
      BY <1>2, <3>1, <3>2, <3>3
    <3> QED BY <2>2, <3>1, <3>4 DEF RetraceStays
  <2>3. \A k \in 0 .. n : k \in S
    <3> HIDE DEF S
    <3> QED BY <2>1, <2>2, BoundedInduction
  <2> QED BY <1>8, <1>12, <2>3
<1> QED BY <1>13, <1>14

-----------------------------------------------------------------------------
(* Types                                                                   *)

VdpTypes == vdp \in [enable : BOOLEAN, retrace : BOOLEAN, expired : BOOLEAN]

(* Between fetch and execute there is an instruction, and the count leaves *)
(* room for it.                                                            *)
Fetched ==
  phase # "fetch" => opcode \in Instruction \cap (Program \cup Handler \cup {Spin})
                     /\ count < InstPerInterrupt

TypeInv == TypeOK /\ Fetched

LEMMA TypeInvInit == Init => TypeInv
<1> SUFFICES ASSUME Init PROVE TypeInv
  OBVIOUS
<1>1. bus \in Bus
  BY LineAssumption DEF Init, Bus
<1>2. vdp \in [enable : BOOLEAN, retrace : BOOLEAN, expired : BOOLEAN]
  BY DEF Init
<1>3. events \in Seq(Keys \X {0, 1}) /\ Len(events) <= MaxEvents /\ held \subseteq Keys
  BY CountAssumption DEF Init
<1>4. keys \in [down : SUBSET (Rows \X Cols), alpha : BOOLEAN]
  BY DEF Init
<1>5. cpu \in [now : Context, saved : Context]
  BY DEF Init, Context
<1>6. phase = "fetch" /\ opcode = NoOpcode /\ count \in 0 .. InstPerInterrupt
  BY CountAssumption DEF Init
<1> QED BY <1>1, <1>2, <1>3, <1>4, <1>5, <1>6 DEF TypeInv, TypeOK, Fetched

(* What an instruction does to the devices. *)
LEMMA InstructionsFacts ==
  ASSUME bus \in Bus, VdpTypes, opcode \in Instruction, Instructions
  PROVE  /\ bus' \in Bus /\ VdpTypes'
         /\ Acknowledges(IRQ_VDP) \/ RetraceStays(bus, bus')
<1>1. CASE UNCHANGED <<bus, vdp>>
  BY <1>1 DEF VdpTypes, RetraceStays
<1>2. CASE CruOutput
  <2>1. opcode.op = "CRU" /\ bus' = OutputBits(bus, opcode.bits) /\ vdp' = vdp
    BY <1>2 DEF CruOutput
  <2>2. opcode.bits \in Seq(OutputBit \X {0, 1})
    BY <2>1 DEF Instruction, OutputBit
  <2>3. /\ OutputBits(bus, opcode.bits) \in Bus
        /\ <<IRQ_VDP, 1>> \notin Range(opcode.bits) => RetraceStays(bus, OutputBits(bus, opcode.bits))
    BY <2>2, OutputBitsFacts
  <2> QED BY <2>1, <2>3 DEF Acknowledges, VdpTypes
<1>3. CASE CruGet
  <2>1. PICK v \in BitGet(bus, opcode.bit) : bus' = [bus EXCEPT !.line[opcode.bit] = v]
    BY <1>3 DEF CruGet
  <2>2. opcode.bit \in Lines
    BY <1>3 DEF CruGet, Instruction
  <2>3. v \in {0, 1}
    BY <2>2 DEF BitGet, Bus
  <2> QED BY <1>3, <2>1, <2>2, <2>3 DEF CruGet, Bus, RetraceStays, VdpTypes
<1>4. CASE VdpRegister
  <2>1. opcode.enable \in BOOLEAN /\ bus' = bus /\ vdp' = [vdp EXCEPT !.enable = opcode.enable]
    BY <1>4 DEF VdpRegister, Instruction
  <2> QED BY <2>1 DEF VdpTypes, RetraceStays
<1>5. CASE VdpStatus
  <2>1. bus' = bus /\ vdp' = [vdp EXCEPT !.retrace = FALSE]
    BY <1>5 DEF VdpStatus
  <2> QED BY <2>1 DEF VdpTypes, RetraceStays
<1> QED
  BY <1>1, <1>2, <1>3, <1>4, <1>5
  DEF Instructions, Limi, Rtwp, SpinJump, OtherInstruction

(* The two timers *)
LEMMA TimersFacts ==
  ASSUME bus \in Bus, VdpTypes,
         PollVdp \/ PollTms9901 \/ VdpExpires \/ Tms9901Expires
  PROVE  /\ bus' \in Bus /\ VdpTypes'
         /\ IRQ_VDP \in bus.active \ bus.disabled => IRQ_VDP \in bus'.active
<1>1. {IRQ_VDP, IRQ_TIMER} \subseteq Lines /\ IRQ_VDP # IRQ_TIMER
  BY LineAssumption DEF IRQ_VDP, IRQ_TIMER
<1>2. CASE PollVdp
  <2>1. Input(bus, IRQ_VDP, 0) \in Bus
    BY <1>1, InputFacts
  <2>2. IRQ_VDP \notin bus.disabled => IRQ_VDP \in Input(bus, IRQ_VDP, 0).active
    BY DEF Input, Bus
  <2> QED BY <1>2, <2>1, <2>2 DEF PollVdp, VdpRefresh, VdpTypes
<1>3. CASE PollTms9901
  <2> PICK b \in Bus : b = [bus EXCEPT !.expired = FALSE]
    BY DEF Bus
  <2>1. b.active = bus.active
    BY DEF Bus
  <2>2. RetraceStays(b, TimerCallback(b))
    BY <1>1, InputFacts DEF TimerCallback, RetraceStays
  <2> QED BY <1>3, <2>1, <2>2 DEF PollTms9901, RetraceStays, VdpTypes
<1>4. CASE VdpExpires
  BY <1>4 DEF VdpExpires, VdpTypes
<1>5. CASE Tms9901Expires
  BY <1>5 DEF Tms9901Expires, VdpTypes, Bus
<1> QED BY <1>2, <1>3, <1>4, <1>5

(* What changes a part of the state keeps its type. *)
LEMMA EventsTypes ==
  ASSUME TypeOK, NEW k \in Keys, PressKey(k) \/ ReleaseKey(k)
  PROVE  held' \subseteq Keys /\ events' \in Seq(Keys \X {0, 1}) /\ Len(events') <= MaxEvents
<1>1. PICK v \in {0, 1} : events' = Append(events, <<k, v>>)
  BY DEF PressKey, ReleaseKey
<1>2. <<k, v>> \in Keys \X {0, 1} /\ events \in Seq(Keys \X {0, 1}) /\ Len(events) < MaxEvents
  BY DEF TypeOK, PressKey, ReleaseKey
<1>3. events' \in Seq(Keys \X {0, 1}) /\ Len(events') = Len(events) + 1 /\ Len(events) \in Nat
  BY <1>1, <1>2, AppendProperties, LenProperties
<1>4. held' \subseteq Keys
  BY DEF TypeOK, PressKey, ReleaseKey
<1> QED BY <1>2, <1>3, <1>4, CountAssumption

LEMMA PollTypes ==
  ASSUME TypeOK, KbdPoll
  PROVE  /\ events' \in Seq(Keys \X {0, 1}) /\ Len(events') <= MaxEvents
         /\ keys' \in [down : SUBSET (Rows \X Cols), alpha : BOOLEAN]
<1>1. CASE events = <<>>
  BY <1>1 DEF KbdPoll, TypeOK
<1>2. CASE events # <<>>
  <2>1. events \in Seq(Keys \X {0, 1}) /\ Len(events) <= MaxEvents /\ Len(events) \in Nat
    BY LenProperties DEF TypeOK
  <2>2. /\ events' \in Seq(Keys \X {0, 1}) /\ Len(events') = Len(events) - 1
        /\ Head(events) \in Keys \X {0, 1}
    BY <1>2, <2>1, HeadTailProperties DEF KbdPoll
  <2>3. PICK k \in Keys, v \in {0, 1} : Head(events) = <<k, v>>
    BY <2>2
  <2>4. KeyAt[k] \subseteq Rows \X Cols
    BY KeyAssumption
  <2>5. keys' = Decoded(k, v)
    BY <1>2, <2>3 DEF KbdPoll
  <2>6. keys' \in [down : SUBSET (Rows \X Cols), alpha : BOOLEAN]
    BY <2>4, <2>5 DEF Decoded, TypeOK
  <2> QED BY <2>1, <2>2, <2>6, CountAssumption
<1> QED BY <1>1, <1>2

LEMMA TypeInvNext == TypeInv /\ CpuInv /\ [Next]_vars => TypeInv'
<1> SUFFICES ASSUME TypeInv, CpuInv, [Next]_vars PROVE TypeInv'
  OBVIOUS
<1>1. CpuInv'
  BY CpuInvNext
<1>2. cpu' \in [now : Context, saved : Context]
  BY <1>1 DEF CpuInv, CpuTypes
<1> USE DEF TypeInv
<1>3. CASE Fetch
  <2>1. opcode' \in Instruction \cap (Program \cup Handler \cup {Spin})
    BY <1>3, ProgramAssumption DEF Fetch, AtPc, Instruction, Spin
  <2>2. count' \in 0 .. InstPerInterrupt /\ count' < InstPerInterrupt
    BY <1>3, CountAssumption DEF Fetch, CountFrom, TypeOK
  <2>3. phase' \in {"fetch", "kbd", "timer", "execute"}
    BY <1>3 DEF Fetch
  <2>4. UNCHANGED <<bus, vdp, held, events, keys, cpu>>
    BY <1>3 DEF Fetch
  <2> QED BY <2>1, <2>2, <2>3, <2>4 DEF TypeOK, Fetched
<1>4. CASE KbdPoll
  <2>1. UNCHANGED <<bus, vdp, held, cpu, opcode, count>> /\ phase = "kbd" /\ phase' = "timer"
    BY <1>4 DEF KbdPoll
  <2>2. /\ events' \in Seq(Keys \X {0, 1}) /\ Len(events') <= MaxEvents
        /\ keys' \in [down : SUBSET (Rows \X Cols), alpha : BOOLEAN]
    BY <1>4, PollTypes
  <2> QED BY <2>1, <2>2 DEF TypeOK, Fetched
<1>5. CASE PollVdp \/ PollTms9901
  <2>1. bus' \in Bus /\ VdpTypes'
    BY <1>5, TimersFacts DEF TypeOK, VdpTypes
  <2>2. UNCHANGED <<held, events, keys, cpu, opcode, count>> /\ phase = "timer" /\ phase' = "execute"
    BY <1>5 DEF PollVdp, PollTms9901
  <2> QED BY <2>1, <2>2 DEF TypeOK, Fetched, VdpTypes
<1>6. CASE Execute
  <2>1. phase = "execute" /\ phase' = "fetch" /\ opcode' = NoOpcode /\ count' = count + 1
        /\ UNCHANGED <<held, events, keys>> /\ Instructions
    BY <1>6 DEF Execute
  <2>2. bus' \in Bus /\ VdpTypes'
    BY <2>1, InstructionsFacts DEF TypeOK, VdpTypes, Fetched
  <2>3. count' \in 0 .. InstPerInterrupt
    BY <2>1, CountAssumption DEF TypeOK, Fetched
  <2> QED BY <1>2, <2>1, <2>2, <2>3 DEF TypeOK, Fetched, VdpTypes
<1>7. CASE VdpExpires \/ Tms9901Expires
  <2>1. bus' \in Bus /\ VdpTypes'
    BY <1>7, TimersFacts DEF TypeOK, VdpTypes
  <2>2. UNCHANGED <<held, events, keys, cpu, opcode, count, phase>>
    BY <1>7 DEF VdpExpires, Tms9901Expires
  <2> QED BY <2>1, <2>2 DEF TypeOK, Fetched, VdpTypes
<1>8. ASSUME NEW k \in Keys, PressKey(k) \/ ReleaseKey(k) PROVE TypeInv'
  <2>1. held' \subseteq Keys /\ events' \in Seq(Keys \X {0, 1}) /\ Len(events') <= MaxEvents
    BY <1>8, EventsTypes
  <2>2. UNCHANGED <<bus, vdp, keys, cpu, phase, opcode, count>>
    BY <1>8 DEF PressKey, ReleaseKey
  <2> QED BY <2>1, <2>2 DEF TypeOK, Fetched
<1>9. CASE UNCHANGED vars
  BY <1>9 DEF vars, TypeOK, Fetched
<1> QED
  BY <1>3, <1>4, <1>5, <1>6, <1>7, <1>8, <1>9 DEF Next, RunLoop, Host

LEMMA SpecTypeInv == Spec => [](TypeInv /\ CpuInv)
<1>1. TypeInv /\ CpuInv /\ [Next]_vars => TypeInv' /\ CpuInv'
  BY TypeInvNext, CpuInvNext
<1> QED BY <1>1, TypeInvInit, CpuInvInit, PTL DEF Spec

(* CRU bits, masks, timers, key matrix and run loop have their types: a    *)
(* scan inputs only rows that have a CRU bit (kbd.cc 193-239), and the     *)
(* count of the run loop stays within its period (ti994a.cc 96-131).       *)
THEOREM ConsoleTypes == Spec => []TypeOK
<1>1. TypeInv => TypeOK
  BY DEF TypeInv
<1> QED BY <1>1, SpecTypeInv, PTL

-----------------------------------------------------------------------------
(* The retrace interrupt                                                   *)

(* A retrace interrupt that is pending and enabled stays so until the      *)
(* program writes 1 to its bit: no scan of the keyboard, in which rows are *)
(* input on the CRU bits of interrupts, no other output of one bit or      *)
(* several, no reading of a bit in timer mode, and no timer loses it       *)
(* (cru.cc 74-139, interrupt.cc 100-192, kbd.cc 193-239).                  *)
THEOREM RetraceIsKept == Spec => RetraceNotLost
<1>1. ASSUME TypeInv, [Next]_vars, IRQ_VDP \in bus.active \ bus.disabled, IRQ_VDP \notin bus'.active
      PROVE  phase = "execute" /\ Acknowledges(IRQ_VDP)
  <2>1. bus' # bus
    BY <1>1
  <2>2. CASE PollVdp \/ PollTms9901 \/ VdpExpires \/ Tms9901Expires
    BY <1>1, <2>2, TimersFacts DEF TypeInv, TypeOK, VdpTypes
  <2>3. CASE Execute
    <3>1. phase = "execute" /\ Instructions /\ opcode \in Instruction
      BY <1>1, <2>3 DEF Execute, TypeInv, Fetched
    <3>2. Acknowledges(IRQ_VDP) \/ RetraceStays(bus, bus')
      BY <1>1, <3>1, InstructionsFacts DEF TypeInv, TypeOK, VdpTypes
    <3> QED BY <1>1, <3>1, <3>2 DEF RetraceStays
  <2>4. Fetch \/ KbdPoll \/ UNCHANGED vars \/ (\E k \in Keys : PressKey(k) \/ ReleaseKey(k))
          => bus' = bus
    BY DEF Fetch, KbdPoll, vars, PressKey, ReleaseKey
  <2> QED BY <1>1, <2>1, <2>2, <2>3, <2>4 DEF Next, RunLoop, Host
<1>2. TypeInv /\ [Next]_vars
        => [/\ IRQ_VDP \in bus.active \ bus.disabled
            /\ IRQ_VDP \notin bus'.active
            => phase = "execute" /\ Acknowledges(IRQ_VDP)]_vars
  BY <1>1
<1> QED BY <1>2, SpecTypeInv, PTL DEF Spec, RetraceNotLost
=============================================================================
