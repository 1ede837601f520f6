-------------------------------- MODULE Cpu --------------------------------
(***************************************************************************)
(* The instructions of the TMS9900 (cpu.cc): operands, results and status, *)
(* and the change of context by BLWP, RTWP and interrupts.  The program is *)
(* any sequence of instructions; what raises interrupts is in Console.     *)
(***************************************************************************)
EXTENDS Integers, FiniteSetsExt

CONSTANTS
  WordBits,         \* 16
  ByteSign,         \* the sign bit of a byte, 0x80
  Ram,              \* the even addresses that can be written
  Rom,              \* what other addresses hold, where it is not 0
  Program,          \* the instructions of the program
  Starts,           \* states of the CPU to begin with
  MaxInstructions   \* bound on the instructions executed

ByteSize == 2 * ByteSign
WordSize == ByteSize * ByteSize
WordSign == ByteSize * ByteSign
Word == 0 .. WordSize - 1
Even == {a \in Word : a % 2 = 0}
BitNumbers == 0 .. WordBits - 1

(* Status bits *)
LGT == WordBits - 1
AGT == WordBits - 2
EQ == WordBits - 3
CY == WordBits - 4
OV == WordBits - 5
OP == WordBits - 6
Mask == 0 .. 3
Ordering == {LGT, AGT, EQ}

VARIABLES
  cpu,    \* _pc, _wp, _st as a set of bits, memory, bits output last
  last,   \* the instruction executed last, whether an interrupt followed it
  count   \* instructions executed

vars == <<cpu, last, count>>

States == [pc : Word, wp : Word, st : SUBSET BitNumbers, mem : [Ram -> Word], out : SUBSET BitNumbers]

(* A general operand: register, *R, @word or @word(R), *R+ *)
Operand == [mode : {"register", "indirect", "symbolic", "increment"}, reg : 0 .. 15, word : Word]

Jumps == {"JMP", "JLT", "JGT", "JL", "JLE", "JH", "JHE", "JNC", "JOC", "JNO", "JNE", "JEQ"}

(* Instructions by type.  "bit" is the value of the CRU bit TB reads, and  *)
(* "word" for STCR those it reads.                                         *)
Instruction ==
  [type : {"immediate"}, op : {"LI", "AI", "ANDI", "ORI", "CI", "STST", "STWP", "LWPI", "LIMI", "RTWP"},
   reg : 0 .. 15, word : Word]
    \cup [type : {"single"}, op : {"BLWP", "B", "BL", "CLR", "SETO", "INV", "SWPB", "NEG", "INC",
                                  "INCT", "DEC", "DECT", "ABS"}, s : Operand]
    \cup [type : {"shift"}, op : {"SRA", "SRC", "SRL", "SLA"}, reg : 0 .. 15, count : 0 .. 15]
    \cup [type : {"jump"}, op : Jumps, offset : -128 .. 127]
    \cup [type : {"bit"}, op : {"SBZ", "SBO", "TB"}, bit : {0, 1}]
    \cup [type : {"dual1"}, op : {"COC", "CZC", "XOR", "XOP", "MPY", "DIV", "LDCR", "STCR"},
          s : Operand, reg : 0 .. 15, word : Word]
    \cup [type : {"dual2"}, op : {"SZC", "SOC", "S", "A", "MOV", "C"}, byte : BOOLEAN,
          s : Operand, d : Operand]

(* X executes the instruction its operand holds. *)
Indirect == [type : {"X"}, s : Operand, inner : Instruction]

NoInstruction == [type |-> "none"]

ASSUME SizeAssumption ==
  /\ ByteSign \in Nat /\ ByteSign >= 4
  /\ WordBits \in Nat /\ WordBits >= 10 /\ WordSize = 2 ^ WordBits
ASSUME MemoryAssumption == Ram \subseteq Even /\ \A a \in DOMAIN Rom : a \in Even /\ Rom[a] \in Word
ASSUME ProgramAssumption == \A i \in Program : i \in Instruction \cup Indirect
ASSUME StartAssumption == Starts \subseteq States
ASSUME BoundAssumption == MaxInstructions \in Nat

-----------------------------------------------------------------------------
(* Words                                                                   *)

BitsOf(w) == {i \in BitNumbers : (w \div 2 ^ i) % 2 = 1}
WordOf(S) == MapThenSumSet(LAMBDA i : 2 ^ i, S)

(* The bits of a byte *)
ByteBits == 0 .. (WordBits \div 2) - 1

ASSUME ConversionAssumption ==
  /\ \A S \in SUBSET BitNumbers : WordOf(S) \in Word /\ BitsOf(WordOf(S)) = S
  /\ \A S \in SUBSET ByteBits : WordOf(S) < ByteSize
  /\ \A b \in 0 .. ByteSize - 1 : BitsOf(b) \subseteq ByteBits

(* value & 0x8000 *)
Negative(w) == w >= WordSign

Signed(sign, x) == IF x >= sign THEN x - 2 * sign ELSE x

ReadW(c, a) ==
  LET e == a - (a % 2) IN IF e \in Ram THEN c.mem[e] ELSE IF e \in DOMAIN Rom THEN Rom[e] ELSE 0

ReadB(c, a) == IF a % 2 = 0 THEN ReadW(c, a) \div ByteSize ELSE ReadW(c, a) % ByteSize

(* Writes of other memory are ignored. *)
WriteW(c, a, w) ==
  LET e == a - (a % 2) IN IF e \in Ram THEN [c EXCEPT !.mem[e] = w] ELSE c

WriteB(c, a, b) ==
  WriteW(c, a, IF a % 2 = 0 THEN (b % ByteSize) * ByteSize + (ReadW(c, a) % ByteSize)
               ELSE (ReadW(c, a) \div ByteSize) * ByteSize + (b % ByteSize))

Reads(c, a, byte) == IF byte THEN ReadB(c, a) ELSE ReadW(c, a)
Writes(c, a, byte, v) == IF byte THEN WriteB(c, a, v) ELSE WriteW(c, a, v)

(* REGR, REGW *)
Address(c, r) == (c.wp + 2 * r) % WordSize
Reg(c, r) == ReadW(c, Address(c, r))
SetReg(c, r, w) == WriteW(c, Address(c, r), w)

GoTo(c, a) == [c EXCEPT !.pc = a]
SetWp(c, a) == [c EXCEPT !.wp = a]
Output(c, S) == [c EXCEPT !.out = S]

Advance(c) == GoTo(c, (c.pc + 2) % WordSize)

-----------------------------------------------------------------------------
(* Status                                                                  *)

(* Mutant: bytes are compared with the sign of words. *)
ComparedAsWords(sign, x, y) ==
  (IF x > y THEN {LGT} ELSE {})
    \cup (IF Signed(WordSign, x) > Signed(WordSign, y) THEN {AGT} ELSE {})
    \cup (IF x = y THEN {EQ} ELSE {})

(* _compareWord and _compareByte: the bits that are set *)
Compared(sign, x, y) ==
  (IF x > y THEN {LGT} ELSE {})
    \cup (IF Signed(sign, x) > Signed(sign, y) THEN {AGT} ELSE {})
    \cup (IF x = y THEN {EQ} ELSE {})

(* _statusParity *)
Parity(b) == IF Cardinality(BitsOf(b % ByteSize)) % 2 = 1 THEN {OP} ELSE {}

(* Of some status bits, only those are set. *)
Status(c, of, set) == [c EXCEPT !.st = (@ \ of) \cup set]

(* A word is stored and compared with 0. *)
Store(c, a, w) == Status(WriteW(c, a, w), Ordering, Compared(WordSign, w, 0))

Carries(carry, overflow) ==
  (IF carry THEN {CY} ELSE {}) \cup (IF overflow THEN {OV} ELSE {})

(* The set mask is set and the clear mask is clear: _jumpAnd *)
AllOf(st, set, clear) == set \subseteq st /\ clear \cap st = {}

(* A bit of the set mask is set or one of the clear mask is clear: _jumpOr *)
AnyOf(st, set, clear) == set \cap st # {} \/ ~ clear \subseteq st

(* The masks of _executeJump *)
Taken(op, st) ==
  CASE op = "JMP" -> TRUE
    [] op = "JLT" -> AllOf(st, {}, {AGT, EQ})
    [] op = "JGT" -> AllOf(st, {AGT}, {EQ})
    [] op = "JL"  -> AllOf(st, {}, {LGT, EQ})
    [] op = "JLE" -> AnyOf(st, {EQ}, {LGT})
    [] op = "JH"  -> AllOf(st, {LGT}, {EQ})
    [] op = "JHE" -> AnyOf(st, {LGT, EQ}, {})
    [] op = "JNC" -> AllOf(st, {}, {CY})
    [] op = "JOC" -> AllOf(st, {CY}, {})
    [] op = "JNO" -> AllOf(st, {}, {OV})
    [] op = "JNE" -> AllOf(st, {}, {EQ})
    [] op = "JEQ" -> AllOf(st, {EQ}, {})

-----------------------------------------------------------------------------
(* Operands                                                                *)

(* _operandDecode: the address, and the CPU after it *)
OperandAddress(c, o) ==
  CASE o.mode = "register" -> Address(c, o.reg)
    [] o.mode = "symbolic" -> (o.word + IF o.reg = 0 THEN 0 ELSE Reg(c, o.reg)) % WordSize
    [] OTHER -> Reg(c, o.reg)

Decoded(c, o, byte) ==
  CASE o.mode = "symbolic" -> Advance(c)
    [] o.mode = "increment" -> SetReg(c, o.reg, (Reg(c, o.reg) + IF byte THEN 1 ELSE 2) % WordSize)
    [] OTHER -> c

(* The operands of an instruction with two, source first *)
Source(c, i) == Reads(Decoded(c, i.s, i.byte), OperandAddress(c, i.s), i.byte)
DestinationAddress(c, i) == OperandAddress(Decoded(c, i.s, i.byte), i.d)
BothDecoded(c, i) == Decoded(Decoded(c, i.s, i.byte), i.d, i.byte)
Destination(c, i) == Reads(BothDecoded(c, i), DestinationAddress(c, i), i.byte)

-----------------------------------------------------------------------------
(* Results                                                                 *)

(* _rtwp *)
Rtwp(c) == SetWp(GoTo(Status(c, BitNumbers, BitsOf(Reg(c, 15))), Reg(c, 14)), Reg(c, 13))

(* _executeImmediate *)
Immediate(c, i) ==
  LET x == Reg(c, i.reg)
      a == Address(c, i.reg)
      u == x + i.word
  IN CASE i.op = "LI" -> WriteW(Advance(c), a, i.word)
       [] i.op = "AI" ->
            Status(Store(Advance(c), a, u % WordSize), {CY, OV},
                   Carries(u >= WordSize,
                           /\ Negative(x) = Negative(i.word)
                           /\ Negative(u % WordSize) # Negative(x)))
       [] i.op = "ANDI" -> Store(Advance(c), a, WordOf(BitsOf(x) \cap BitsOf(i.word)))
       [] i.op = "ORI" -> Store(Advance(c), a, WordOf(BitsOf(x) \cup BitsOf(i.word)))
       [] i.op = "CI" -> Status(Advance(c), Ordering, Compared(WordSign, x, i.word))
       [] i.op = "STST" -> WriteW(c, a, WordOf(c.st))
       [] i.op = "STWP" -> WriteW(c, a, c.wp)
       [] i.op = "LWPI" -> SetWp(Advance(c), i.word)
       [] i.op = "LIMI" -> Status(Advance(c), Mask, BitsOf(i.word))
       [] i.op = "RTWP" -> Rtwp(c)

(* _blwp *)
Blwp(c, a) ==
  LET n == SetWp(GoTo(c, ReadW(c, (a + 2) % WordSize)), ReadW(c, a))
  IN SetReg(SetReg(SetReg(n, 13, c.wp), 14, c.pc), 15, WordOf(c.st))

(* INCT and DECT of an odd address store the low byte. *)
StoreAt(c, a, w) ==
  IF a % 2 = 0 THEN Store(c, a, w)
  ELSE Status(WriteB(c, a, w), Ordering, Compared(ByteSign, w % ByteSize, 0))

(* _executeSingle, but for X *)
Single(c, i) ==
  LET a == OperandAddress(c, i.s)
      d == Decoded(c, i.s, FALSE)
      w == ReadW(d, a)
      Up(k) == Carries(w >= WordSize - k, ~Negative(w) /\ Negative((w + k) % WordSize))
      Down(k) == Carries(w >= k, Negative(w) /\ ~Negative((w - k) % WordSize))
      minus == (WordSize - w) % WordSize
      abs == IF Negative(w) THEN minus ELSE w
  IN CASE i.op = "BLWP" -> Blwp(d, a)
       [] i.op = "B" -> GoTo(d, a)
       [] i.op = "BL" -> GoTo(SetReg(d, 11, d.pc), a)
       [] i.op = "CLR" -> WriteW(d, a, 0)
       [] i.op = "SETO" -> WriteW(d, a, WordSize - 1)
       [] i.op = "INV" -> Store(d, a, WordSize - 1 - w)
       [] i.op = "SWPB" -> Store(d, a, (w % ByteSize) * ByteSize + (w \div ByteSize))
       [] i.op = "NEG" -> Status(Store(d, a, minus), {CY, OV}, Carries(w = WordSign, Negative(w)))
       [] i.op = "INC" -> Status(Store(d, a, (w + 1) % WordSize), {CY, OV}, Up(1))
       [] i.op = "INCT" -> Status(StoreAt(d, a, (w + 2) % WordSize), {CY, OV}, Up(2))
       [] i.op = "DEC" -> Status(Store(d, a, (w - 1) % WordSize), {CY, OV}, Down(1))
       [] i.op = "DECT" -> Status(StoreAt(d, a, (w - 2) % WordSize), {CY, OV}, Down(2))
       [] i.op = "ABS" ->
            Status(WriteW(d, a, abs), {CY, OV} \cup Ordering,
                   Carries(w = WordSign, Negative(w))
                     \cup (IF Signed(ByteSign, w % ByteSize) > 0 THEN {AGT} ELSE {})
                     \cup (IF abs = 0 THEN {EQ} ELSE {LGT}))

(* Mutant: a count of 0 in R0 is no shift. *)
ShiftCountZero(c, i) == IF i.count = 0 THEN Reg(c, 0) % 16 ELSE i.count

(* The count of a shift: 0 stands for that in R0, and there for 16. *)
ShiftCount(c, i) ==
  LET n == IF i.count = 0 THEN Reg(c, 0) % 16 ELSE i.count IN IF n = 0 THEN 16 ELSE n

(* The bits of a double word, moved by n places *)
Left(S, n) == {b + n : b \in S}
Right(S, n) == {b - n : b \in {b \in S : b >= n}}

(* _executeShift *)
Shift(c, i) ==
  LET n == ShiftCount(c, i)
      x == BitsOf(Reg(c, i.reg))
      filled == IF WordBits - 1 \in x THEN 2 * WordBits - n .. 2 * WordBits - 1 ELSE {}
      u == CASE i.op = "SRA" -> Right(Left(x, WordBits), n) \cup filled
             [] i.op = "SRC" -> Right(x \cup Left(x, WordBits), n)
             [] i.op = "SRL" -> Right(Left(x, WordBits), n)
             [] i.op = "SLA" -> Left(x, n)
      v == IF i.op \in {"SRA", "SRL"} THEN Right(u, WordBits) ELSE u \cap BitNumbers
      carry == (IF i.op = "SLA" THEN WordBits ELSE WordBits - 1) \in u
      msb == (WordBits - 1 \in u) # (WordBits - 1 \in x)
      of == IF i.op = "SLA" THEN {CY, OV} ELSE {CY}
  IN Status(Store(c, Address(c, i.reg), WordOf(v)), of, Carries(carry, msb) \cap of)

(* _executeJump *)
Jump(c, i) == IF Taken(i.op, c.st) THEN GoTo(c, (c.pc + 2 * i.offset) % WordSize) ELSE c

(* SBZ, SBO and TB *)
Bit(c, i) ==
  IF i.op = "TB" THEN Status(c, {EQ}, IF i.bit = 1 THEN {EQ} ELSE {})
  ELSE Output(c, IF i.op = "SBO" THEN {0} ELSE {})

(* The bits a CRU instruction transfers *)
Transfers(i) == 0 .. (IF i.reg = 0 THEN WordBits ELSE i.reg) - 1

(* The double word x * y, and the quotient and the remainder of <<y, z>>   *)
(* by x when y < x: a byte at a time, as TLC has no larger integers.       *)
Product(x, y) ==
  LET low == (x % ByteSize) * y
      high == (x \div ByteSize) * y + (low \div ByteSize)
  IN <<high \div ByteSize, (high % ByteSize) * ByteSize + (low % ByteSize)>>

Division(x, y, z) ==
  LET high == y * ByteSize + (z \div ByteSize)
      low == (high % x) * ByteSize + (z % ByteSize)
  IN <<(high \div x) * ByteSize + (low \div x), low % x>>

(* Mutant: the low word comes first. *)
SetDoubleSwapped(c, r, p) == SetReg(SetReg(c, r, p[2]), r + 1, p[1])

(* A double word in a register and the next one *)
SetDouble(c, r, p) == SetReg(SetReg(c, r, p[1]), r + 1, p[2])

(* _executeDual1; the count of a CRU instruction is where others have a   *)
(* register.                                                               *)
Dual1(c, i) ==
  LET a == OperandAddress(c, i.s)
      d == Decoded(c, i.s, FALSE)
      x == ReadW(d, a)
      y == Reg(d, i.reg)
      ones == WordOf(BitsOf(x) \cap BitsOf(y))
      zeros == WordOf(BitsOf(x) \ BitsOf(y))
      byte == i.reg <= 8
      sent == Reads(d, a, byte)
      got == WordOf(BitsOf(i.word) \cap Transfers(i))
  IN CASE i.op = "COC" -> Status(d, Ordering, Compared(WordSign, ones, x))
       [] i.op = "CZC" -> Status(d, Ordering, Compared(WordSign, zeros, x))
       [] i.op = "XOR" -> Store(d, Address(d, i.reg), WordOf(SymDiff(BitsOf(x), BitsOf(y))))
       [] i.op = "XOP" -> d
       [] i.op = "MPY" -> SetDouble(d, i.reg, Product(x, y))
       [] i.op = "DIV" ->
            IF x <= y THEN Status(d, {OV}, {OV})
            ELSE SetDouble(Status(d, {OV}, {}), i.reg, Division(x, y, Reg(d, i.reg + 1)))
       [] i.op = "LDCR" ->
            Output(Status(d, IF byte THEN {OP} ELSE {}, IF byte THEN Parity(sent) ELSE {}),
                   BitsOf(sent) \cap Transfers(i))
       [] i.op = "STCR" ->
            IF byte THEN Status(WriteB(d, a, got), {OP}, Parity(got))
            ELSE WriteW(d, a, got)

(* Mutant: sums and differences keep their carry. *)
ValueUnmasked(op, size, x, y) ==
  CASE op = "S" -> y - x
    [] op = "A" -> y + x
    [] OTHER -> y

(* The value _executeDual2 stores *)
Value(op, size, x, y) ==
  CASE op = "SZC" -> WordOf(BitsOf(y) \ BitsOf(x))
    [] op = "SOC" -> WordOf(BitsOf(y) \cup BitsOf(x))
    [] op = "S" -> (y - x) % size
    [] op = "A" -> (y + x) % size
    [] op = "MOV" -> x
    [] op = "C" -> y

(* Mutant: the carry of a subtraction is that of an addition. *)
CarryNotInverted(op, size, x, y) ==
  IF op = "A"
  THEN Carries(y + x >= size,
               Negative(x) = Negative(y) /\ Negative((y + x) % WordSize) # Negative(y))
  ELSE Carries(y < x,
               Negative(x) # Negative(y) /\ Negative((y - x) % WordSize) # Negative(y))

(* The carry and overflow of A and S: those of bytes test the same bit,    *)
(* 0x8000, as those of words. *)
Carry(op, size, x, y) ==
  IF op = "A"
  THEN Carries(y + x >= size,
               Negative(x) = Negative(y) /\ Negative((y + x) % WordSize) # Negative(y))
  ELSE Carries(y >= x,
               Negative(x) # Negative(y) /\ Negative((y - x) % WordSize) # Negative(y))

(* _executeDual2 *)
Dual2(c, i) ==
  LET x == Source(c, i)
      y == Destination(c, i)
      d == BothDecoded(c, i)
      sign == IF i.byte THEN ByteSign ELSE WordSign
      v == Value(i.op, 2 * sign, x, y)
      stored == IF i.op = "C" THEN d ELSE Writes(d, DestinationAddress(c, i), i.byte, v)
      order == IF i.op = "C" THEN Compared(sign, x, y) ELSE Compared(sign, v, 0)
      carry == IF i.op \in {"A", "S"} THEN Carry(i.op, 2 * sign, x, y) ELSE {}
      parity == IF i.byte THEN Parity(IF i.op = "C" THEN x ELSE v) ELSE {}
      of == Ordering \cup (IF i.op \in {"A", "S"} THEN {CY, OV} ELSE {})
                     \cup (IF i.byte THEN {OP} ELSE {})
  IN Status(stored, of, order \cup carry \cup parity)

-----------------------------------------------------------------------------
(* Execution                                                               *)

Effect(c, i) ==
  CASE i.type = "immediate" -> Immediate(c, i)
    [] i.type = "single" -> Single(c, i)
    [] i.type = "shift" -> Shift(c, i)
    [] i.type = "jump" -> Jump(c, i)
    [] i.type = "bit" -> Bit(c, i)
    [] i.type = "dual1" -> Dual1(c, i)
    [] i.type = "dual2" -> Dual2(c, i)

(* Mutant: the mask is 0 before the status is saved. *)
AcceptedLate(c, pending) ==
  IF pending /\ c.st \cap Mask # {} THEN Blwp(Status(c, Mask, {}), 4) ELSE c

(* An interrupt, always of level 1, is accepted unless the mask is 0.  It  *)
(* saves the status before the mask becomes 0.                             *)
Accepted(c, pending) ==
  IF pending /\ c.st \cap Mask # {} THEN Status(Blwp(c, 4), Mask, {}) ELSE c

(* What is executed, and the state of the CPU it is executed in *)
Inner(i) == IF i.type = "X" THEN i.inner ELSE i
Before(c, i) == IF i.type = "X" THEN Decoded(Advance(c), i.s, FALSE) ELSE Advance(c)

(* Any device may have an interrupt pending, which matters unless the mask *)
(* is 0. *)
Pending(c) == IF c.st \cap Mask = {} THEN {FALSE} ELSE BOOLEAN

(* TMS9900::execute.  X executes the other instruction with its acceptance *)
(* of an interrupt, and then tries to accept one too.                      *)
Execute(i) ==
  /\ count < MaxInstructions
  /\ count' = count + 1
  /\ LET e == Effect(Before(cpu, i), Inner(i))
     IN \E pending \in Pending(e) :
          /\ cpu' = Accepted(IF i.type = "X" THEN Accepted(e, pending) ELSE e, pending)
          /\ last' = [instr |-> i, interrupted |-> pending]

OfType(type) == {i \in Program : i.type = type}

ExecuteImmediate == \E i \in OfType("immediate") : Execute(i)
ExecuteSingle == \E i \in OfType("single") : Execute(i)
ExecuteShift == \E i \in OfType("shift") : Execute(i)
ExecuteJump == \E i \in OfType("jump") \cup OfType("bit") : Execute(i)
ExecuteDual1 == \E i \in OfType("dual1") : Execute(i)
ExecuteDual2 == \E i \in OfType("dual2") : Execute(i)
ExecuteX == \E i \in OfType("X") : Execute(i)

(* The user restarts the CPU. *)
Boot ==
  /\ cpu' = Blwp(Status(cpu, BitNumbers, {}), 0)
  /\ last' = [instr |-> NoInstruction, interrupted |-> FALSE]
  /\ UNCHANGED count

Init ==
  /\ cpu \in Starts
  /\ last = [instr |-> NoInstruction, interrupted |-> FALSE]
  /\ count = 0

Next ==
  \/ ExecuteImmediate \/ ExecuteSingle \/ ExecuteShift \/ ExecuteJump
  \/ ExecuteDual1 \/ ExecuteDual2 \/ ExecuteX
  \/ Boot

Spec == Init /\ [][Next]_vars

-----------------------------------------------------------------------------
(* Properties                                                              *)

(* The registers, the status and every word of memory keep their width, and *)
(* the program counter and workspace wrap around.                          *)
TypeOK ==
  /\ cpu \in States
  /\ last \in [instr : Program \cup {NoInstruction}, interrupted : BOOLEAN]
  /\ count \in 0 .. MaxInstructions

(* The address of the result of an instruction that is compared with 0,    *)
(* and whether it is a byte *)
ResultAddress(c, i) ==
  CASE i.type \in {"immediate", "shift"} -> Address(c, i.reg)
    [] i.type = "single" -> OperandAddress(c, i.s)
    [] i.type = "dual1" -> Address(Decoded(c, i.s, FALSE), i.reg)
    [] i.type = "dual2" -> DestinationAddress(c, i)

ResultIsByte(c, i) ==
  \/ i.type = "dual2" /\ i.byte
  \/ i.op \in {"INCT", "DECT"} /\ ResultAddress(c, i) % 2 = 1

Compares(i) == i.type \in {"immediate", "dual2"} /\ i.op \in {"CI", "C"}

HasResult(c, i) ==
  /\ i.type \in {"immediate", "single", "shift", "dual1", "dual2"}
  /\ i.op \in {"AI", "ANDI", "ORI", "INV", "SWPB", "NEG", "INC", "INCT", "DEC", "DECT",
                "SRA", "SRC", "SRL", "SLA", "XOR", "SZC", "SOC", "S", "A", "MOV"}
  /\ ResultAddress(c, i) - (ResultAddress(c, i) % 2) \in Ram

(* What an instruction compares: two operands, or its result with 0 *)
Sides(c, i, after) ==
  CASE Compares(i) /\ i.type = "immediate" -> <<Reg(c, i.reg), i.word>>
    [] Compares(i) /\ i.type = "dual2" -> <<Source(c, i), Destination(c, i)>>
    [] OTHER -> <<Reads(after, ResultAddress(c, i), ResultIsByte(c, i)), 0>>

(* The relation a conditional jump is named for, with and without sign *)
Relates(op, sign, x, y) ==
  CASE op = "JEQ" -> x = y
    [] op = "JNE" -> x # y
    [] op = "JGT" -> Signed(sign, x) > Signed(sign, y)
    [] op = "JLT" -> Signed(sign, x) < Signed(sign, y)
    [] op = "JH" -> x > y
    [] op = "JL" -> x < y
    [] op = "JHE" -> x >= y
    [] op = "JLE" -> x <= y

Orderings == {"JEQ", "JNE", "JGT", "JLT", "JH", "JL", "JHE", "JLE"}

(* After an instruction that compares, or stores a result, each            *)
(* conditional jump is taken exactly if the relation it is named for holds *)
(* of the operands, or of the result found in memory and 0: the three bits *)
(* _compareWord and _compareByte set, the masks of _executeJump and the    *)
(* width of what is stored agree.                                          *)
OrderDecidesJumps ==
  [][LET i == Inner(last'.instr)
         c == Before(cpu, last'.instr)
         sign == IF ResultIsByte(c, i) THEN ByteSign ELSE WordSign
     IN ~last'.interrupted /\ (Compares(i) \/ HasResult(c, i)) =>
          \A op \in Orderings :
            Taken(op, cpu'.st) <=>
              LET p == Sides(c, i, cpu') IN Relates(op, sign, p[1], p[2])]_vars

(* What is added to what *)
Addends(c, i) ==
  CASE i.op \in {"A", "S"} -> <<Destination(c, i), Source(c, i)>>
    [] i.op = "AI" -> <<Reg(c, i.reg), i.word>>
    [] i.op \in {"INC", "DEC"} -> <<ReadW(Decoded(c, i.s, FALSE), OperandAddress(c, i.s)), 1>>
    [] i.op \in {"INCT", "DECT"} -> <<ReadW(Decoded(c, i.s, FALSE), OperandAddress(c, i.s)), 2>>

(* The overflow bit is clear after an addition or subtraction of words     *)
(* exactly if the result in memory is the sum of the operands with their   *)
(* signs.  The carry bit is set exactly if their sum without signs did not *)
(* fit, or their difference did: also for bytes, whose overflow is that of *)
(* words and never set.                                                    *)
SumsAreExact ==
  [][LET i == Inner(last'.instr)
         c == Before(cpu, last'.instr)
         subtracts == i.op \in {"S", "DEC", "DECT"}
         byte == ResultIsByte(c, i)
         r == Reads(cpu', ResultAddress(c, i), byte)
         x == Addends(c, i)[1]
         y == Addends(c, i)[2]
         Sum(a, b) == IF subtracts THEN a - b ELSE a + b
     IN /\ ~last'.interrupted
        /\ HasResult(c, i)
        /\ i.op \in {"A", "S", "AI", "INC", "INCT", "DEC", "DECT"}
        /\ byte => i.type = "dual2"
        => /\ CY \in cpu'.st <=> (r = Sum(x, y)) = subtracts
           /\ OV \notin cpu'.st <=>
                byte \/ Signed(WordSign, r) = Sum(Signed(WordSign, x), Signed(WordSign, y))]_vars

(* A shift by 1 to 16 places multiplies or divides by a power of 2, without *)
(* or with the sign, or rotates, and the carry bit is the last bit that    *)
(* left the word: for the sets of bits of _executeShift, with the count in *)
(* the instruction or in R0.                                               *)
ShiftsAreExact ==
  [][LET i == Inner(last'.instr)
         c == Before(cpu, last'.instr)
         n == (((IF i.count = 0 THEN Reg(c, 0) ELSE i.count) - 1) % 16) + 1
         x == Reg(c, i.reg)
         r == Reg(cpu', i.reg)
         BitOf(w, b) == (w \div 2 ^ b) % 2 = 1
     IN ~last'.interrupted /\ i.type = "shift" /\ HasResult(c, i) =>
          /\ i.op = "SLA" => r = (x % 2 ^ (WordBits - n)) * 2 ^ n
          /\ i.op = "SRL" => r = x \div 2 ^ n
          /\ i.op = "SRA" => Signed(WordSign, r) = Signed(WordSign, x) \div 2 ^ n
          /\ i.op = "SRC" => r = (x \div 2 ^ n) + (x % 2 ^ n) * 2 ^ (WordBits - n)
          /\ CY \in cpu'.st <=> BitOf(x, IF i.op = "SLA" THEN WordBits - n ELSE n - 1)]_vars

(* A quotient and remainder multiply out to the dividend, a product        *)
(* divides back into its factor without remainder, and a division whose    *)
(* quotient would not fit a register changes nothing but the overflow bit. *)
DivisionUndoesProduct ==
  [][LET i == Inner(last'.instr)
         c == Before(cpu, last'.instr)
         d == Decoded(c, i.s, FALSE)
         x == ReadW(d, OperandAddress(c, i.s))
         y == Reg(d, i.reg)
         high == Reg(cpu', i.reg)
         low == Reg(cpu', i.reg + 1)
     IN /\ ~last'.interrupted
        /\ i.type = "dual1"
        /\ {Address(d, i.reg), Address(d, i.reg + 1)} \subseteq Ram
        => /\ i.op = "MPY" /\ x # 0 => high < x /\ Division(x, high, low) = <<y, 0>>
           /\ i.op = "DIV" /\ OV \notin cpu'.st =>
               /\ low < x
               /\ LET p == Product(high, x) IN
                    /\ p[1] + ((p[2] + low) \div WordSize) = y
                    /\ (p[2] + low) % WordSize = Reg(d, i.reg + 1)
           /\ i.op = "DIV" /\ OV \in cpu'.st => cpu'.mem = d.mem]_vars

(* What RTWP restores *)
Context(c) == <<c.pc, c.wp, c.st>>

CallIsUndone ==
  LET i == Inner(last'.instr)
      c == Before(cpu, last'.instr)
      e == Effect(c, i)
  IN {Address(cpu', r) : r \in 13 .. 15} \subseteq Ram =>
       /\ last'.interrupted =>
            Context(Rtwp(cpu')) = Context(e) /\ cpu'.st \cap Mask = {}
       /\ ~last'.interrupted /\ i.type = "single" /\ i.op = "BLWP" =>
            Context(Rtwp(cpu')) = Context(Decoded(c, i.s, FALSE))

(* RTWP undoes a BLWP and an interrupt: right after either, it would bring *)
(* back the workspace, the next instruction and the status, the interrupt  *)
(* mask included, although an interrupt leaves the mask at 0.  The new     *)
(* workspace must be in memory that can be written.                        *)
ReturnUndoesCall == [][CallIsUndone]_vars

(* LDCR with a count of 0 sends the whole word its operand holds. *)
WholeWordSent ==
  [][LET i == Inner(last'.instr)
         c == Before(cpu, last'.instr)
     IN ~last'.interrupted /\ i.type = "dual1" /\ i.op = "LDCR" /\ i.reg = 0 =>
            cpu'.out = BitsOf(ReadW(Decoded(c, i.s, FALSE), OperandAddress(c, i.s)))]_vars
=============================================================================
