----------------------------- MODULE CpuProofs -----------------------------
(***************************************************************************)
(* For words of any size, any memory and any program: the CPU keeps its    *)
(* types, RTWP undoes BLWP and interrupts, and conditional jumps follow    *)
(* what instructions compare.                                              *)
(***************************************************************************)
EXTENDS Cpu, TLAPS

-----------------------------------------------------------------------------
(* Arithmetic                                                              *)

Byte == 0 .. ByteSize - 1

LEMMA Sizes ==
  /\ ByteSign \in Nat /\ ByteSign >= 4
  /\ ByteSize \in Nat /\ ByteSize >= 8
  /\ WordSign \in Nat /\ WordSign >= 32
  /\ WordSize \in Nat /\ WordSize >= 64 /\ WordSize = 2 * WordSign
  /\ WordSize = ByteSize * ByteSize
  /\ WordBits \in Nat /\ WordBits >= 10
<1>1. ByteSign \in Nat /\ ByteSign >= 4 /\ WordBits \in Nat /\ WordBits >= 10
  BY SizeAssumption
<1>2. ByteSize \in Nat /\ ByteSize >= 8
  BY <1>1 DEF ByteSize
<1>3. ASSUME NEW b \in Nat, NEW c \in Nat, b >= 4, c >= 8 PROVE b * c \in Nat /\ b * c >= 32
  BY <1>3
<1>4. WordSign \in Nat /\ WordSign >= 32
  <2>1. WordSign = ByteSign * ByteSize
    BY <1>1, <1>2 DEF WordSign
  <2> QED BY <1>1, <1>2, <1>3, <2>1
<1>5. WordSize = 2 * WordSign
  BY <1>1 DEF WordSize, WordSign, ByteSize
<1> QED BY <1>1, <1>2, <1>4, <1>5 DEF WordSize

LEMMA Halves ==
  ASSUME NEW b \in Nat, b >= 1, NEW w \in 0 .. b * b - 1
  PROVE  w \div b \in 0 .. b - 1 /\ w % b \in 0 .. b - 1 /\ w = b * (w \div b) + (w % b)
<1> DEFINE q == w \div b
<1>1. q \in Nat /\ w % b \in 0 .. b - 1 /\ w = b * q + (w % b)
  OBVIOUS
<1>2. ASSUME q >= b PROVE FALSE
  <2>1. b * q >= b * b
    BY <1>1, <1>2
  <2> QED BY <1>1, <2>1
<1> QED BY <1>1, <1>2

LEMMA Joined ==
  ASSUME NEW b \in Nat, b >= 1, NEW h \in 0 .. b - 1, NEW l \in 0 .. b - 1
  PROVE  h * b + l \in 0 .. b * b - 1
<1>1. h * b <= (b - 1) * b
  OBVIOUS
<1>2. (b - 1) * b = b * b - b
  OBVIOUS
<1>3. h * b \in Nat
  OBVIOUS
<1> QED BY <1>1, <1>2, <1>3

LEMMA ByteOfWord ==
  ASSUME NEW w \in Word
  PROVE  w \div ByteSize \in Byte /\ w % ByteSize \in Byte
<1>1. ByteSize \in Nat /\ ByteSize >= 1 /\ w \in 0 .. ByteSize * ByteSize - 1
  BY Sizes DEF Word
<1>2. w \div ByteSize \in 0 .. ByteSize - 1 /\ w % ByteSize \in 0 .. ByteSize - 1
  BY <1>1, Halves
<1> QED BY <1>2 DEF Byte

LEMMA WordOfBytes ==
  ASSUME NEW h \in Byte, NEW l \in Byte
  PROVE  h * ByteSize + l \in Word
<1>1. ByteSize \in Nat /\ ByteSize >= 1 /\ h \in 0 .. ByteSize - 1 /\ l \in 0 .. ByteSize - 1
  BY Sizes DEF Byte
<1>2. h * ByteSize + l \in 0 .. ByteSize * ByteSize - 1
  BY <1>1, Joined
<1> QED BY <1>2, Sizes DEF Word

LEMMA Wrapped ==
  ASSUME NEW n \in Int
  PROVE  n % WordSize \in Word /\ n % ByteSize \in Byte
  BY Sizes DEF Word, Byte

LEMMA ZeroIsWord == 0 \in Word /\ WordSize - 1 \in Word /\ Word \subseteq Int /\ Byte \subseteq Word
<1>1. ByteSize <= ByteSize * ByteSize
  BY Sizes
<1> QED BY <1>1, Sizes DEF Word, Byte

LEMMA SumType ==
  ASSUME NEW x \in Word, NEW y \in Int
  PROVE  (x + y) % WordSize \in Word /\ (x - y) % WordSize \in Word
<1>1. x + y \in Int /\ x - y \in Int
  BY ZeroIsWord
<1> QED BY <1>1, Wrapped

-----------------------------------------------------------------------------
(* Memory and status                                                       *)

(* The fields of a state and how EXCEPT changes them *)
LEMMA StateFields ==
  ASSUME NEW c \in States
  PROVE  /\ c.pc \in Word /\ c.wp \in Word /\ c.st \subseteq BitNumbers
         /\ c.mem \in [Ram -> Word] /\ c.out \subseteq BitNumbers
         /\ \A w \in Word : [c EXCEPT !.pc = w] \in States /\ [c EXCEPT !.wp = w] \in States
         /\ \A S \in SUBSET BitNumbers : [c EXCEPT !.st = S] \in States /\ [c EXCEPT !.out = S] \in States
         /\ \A m \in [Ram -> Word] : [c EXCEPT !.mem = m] \in States
  BY DEF States

LEMMA ReadWType ==
  ASSUME NEW c \in States, NEW a
  PROVE  ReadW(c, a) \in Word
<1>1. \A e \in Ram : c.mem[e] \in Word
  BY DEF States
<1>2. \A e \in DOMAIN Rom : Rom[e] \in Word
  BY MemoryAssumption
<1> QED BY <1>1, <1>2, ZeroIsWord DEF ReadW

LEMMA ReadBType ==
  ASSUME NEW c \in States, NEW a
  PROVE  ReadB(c, a) \in Byte
  BY ReadWType, ByteOfWord DEF ReadB

LEMMA ReadsType ==
  ASSUME NEW c \in States, NEW a, NEW byte \in BOOLEAN
  PROVE  Reads(c, a, byte) \in Word
  BY ReadWType, ReadBType, ZeroIsWord DEF Reads

LEMMA RegType ==
  ASSUME NEW c \in States, NEW r
  PROVE  Reg(c, r) \in Word
  BY ReadWType DEF Reg

LEMMA WriteWType ==
  ASSUME NEW c \in States, NEW a, NEW w \in Word
  PROVE  WriteW(c, a, w) \in States
<1> DEFINE e == a - (a % 2)
<1>1. CASE e \in Ram
  <2>1. [c.mem EXCEPT ![e] = w] \in [Ram -> Word]
    BY <1>1, StateFields
  <2>2. WriteW(c, a, w) = [c EXCEPT !.mem = [c.mem EXCEPT ![e] = w]]
    BY <1>1 DEF WriteW
  <2> QED BY <2>1, <2>2, StateFields
<1>2. CASE e \notin Ram
  BY <1>2 DEF WriteW
<1> QED BY <1>1, <1>2

LEMMA WriteBType ==
  ASSUME NEW c \in States, NEW a, NEW b \in Int
  PROVE  WriteB(c, a, b) \in States
<1>1. b % ByteSize \in Byte /\ ReadW(c, a) \div ByteSize \in Byte /\ ReadW(c, a) % ByteSize \in Byte
  BY Wrapped, ReadWType, ByteOfWord
<1>2. /\ (b % ByteSize) * ByteSize + (ReadW(c, a) % ByteSize) \in Word
      /\ (ReadW(c, a) \div ByteSize) * ByteSize + (b % ByteSize) \in Word
  BY <1>1, WordOfBytes
<1> QED BY <1>2, WriteWType DEF WriteB

LEMMA WritesType ==
  ASSUME NEW c \in States, NEW a, NEW byte \in BOOLEAN, NEW w \in Word
  PROVE  Writes(c, a, byte, w) \in States
  BY WriteWType, WriteBType, ZeroIsWord DEF Writes

LEMMA SetRegType ==
  ASSUME NEW c \in States, NEW r, NEW w \in Word
  PROVE  SetReg(c, r, w) \in States
  BY WriteWType DEF SetReg

LEMMA FieldTypes ==
  ASSUME NEW c \in States
  PROVE  /\ \A w \in Word : GoTo(c, w) \in States /\ SetWp(c, w) \in States
         /\ \A S \in SUBSET BitNumbers : Output(c, S) \in States
  BY StateFields DEF GoTo, SetWp, Output

LEMMA AdvanceType ==
  ASSUME NEW c \in States
  PROVE  Advance(c) \in States
<1>1. (c.pc + 2) % WordSize \in Word
  BY StateFields, Wrapped, ZeroIsWord
<1> QED BY <1>1, FieldTypes DEF Advance

LEMMA AddressType ==
  ASSUME NEW c \in States, NEW r \in Int
  PROVE  Address(c, r) \in Word
<1>1. c.wp + 2 * r \in Int
  BY StateFields, ZeroIsWord
<1> QED BY <1>1, Wrapped DEF Address

LEMMA StatusBits ==
  /\ {LGT, AGT, EQ, CY, OV, OP} \subseteq BitNumbers
  /\ Mask \subseteq BitNumbers
  /\ {LGT, AGT, EQ, CY, OV, OP} \cap Mask = {}
  BY Sizes DEF BitNumbers, Mask, LGT, AGT, EQ, CY, OV, OP

LEMMA StatusType ==
  ASSUME NEW c \in States, NEW of, NEW set \in SUBSET BitNumbers
  PROVE  Status(c, of, set) \in States
<1>1. (c.st \ of) \cup set \in SUBSET BitNumbers
  BY StateFields
<1> QED BY <1>1, StateFields DEF Status

LEMMA SetBits ==
  /\ \A sign, x, y : Compared(sign, x, y) \in SUBSET BitNumbers
  /\ \A b : Parity(b) \in SUBSET BitNumbers
  /\ \A carry, overflow : Carries(carry, overflow) \in SUBSET BitNumbers
  /\ \A w : BitsOf(w) \in SUBSET BitNumbers
  BY StatusBits DEF Compared, Parity, Carries, BitsOf

LEMMA WordOfType ==
  ASSUME NEW S \in SUBSET BitNumbers
  PROVE  WordOf(S) \in Word /\ BitsOf(WordOf(S)) = S
  BY ConversionAssumption

LEMMA StoreType ==
  ASSUME NEW c \in States, NEW a, NEW w \in Word
  PROVE  Store(c, a, w) \in States
  BY WriteWType, StatusType, SetBits DEF Store

-----------------------------------------------------------------------------
(* Operands                                                                *)

LEMMA OperandFields ==
  ASSUME NEW o \in Operand
  PROVE  /\ o.mode \in {"register", "indirect", "symbolic", "increment"}
         /\ o.reg \in 0 .. 15 /\ o.reg \in Int
         /\ o.word \in Word
  BY DEF Operand

LEMMA OperandAddressType ==
  ASSUME NEW c \in States, NEW o \in Operand
  PROVE  OperandAddress(c, o) \in Word
<1>1. Address(c, o.reg) \in Word /\ Reg(c, o.reg) \in Word
  BY OperandFields, AddressType, RegType
<1>2. (IF o.reg = 0 THEN 0 ELSE Reg(c, o.reg)) \in Int
  BY <1>1, ZeroIsWord
<1>3. (o.word + IF o.reg = 0 THEN 0 ELSE Reg(c, o.reg)) % WordSize \in Word
  BY <1>2, OperandFields, SumType
<1> QED BY <1>1, <1>3, OperandFields DEF OperandAddress

LEMMA DecodedType ==
  ASSUME NEW c \in States, NEW o \in Operand, NEW byte \in BOOLEAN
  PROVE  Decoded(c, o, byte) \in States
<1> DEFINE size == IF byte THEN 1 ELSE 2
<1>1. (Reg(c, o.reg) + size) % WordSize \in Word
  <2>1. size \in Int
    OBVIOUS
  <2> HIDE DEF size
  <2> QED BY <2>1, RegType, SumType
<1>2. SetReg(c, o.reg, (Reg(c, o.reg) + size) % WordSize) \in States
  <2> HIDE DEF size
  <2> QED BY <1>1, SetRegType
<1> QED BY <1>2, AdvanceType, OperandFields DEF Decoded

LEMMA TwoOperands ==
  ASSUME NEW c \in States, NEW i, i.s \in Operand, i.d \in Operand, i.byte \in BOOLEAN
  PROVE  /\ BothDecoded(c, i) \in States
         /\ Source(c, i) \in Word /\ Destination(c, i) \in Word
<1>1. Decoded(c, i.s, i.byte) \in States
  BY DecodedType
<1>2. BothDecoded(c, i) \in States
  BY <1>1, DecodedType DEF BothDecoded
<1>3. Source(c, i) \in Word
  BY <1>1, ReadsType DEF Source
<1>4. Destination(c, i) \in Word
  BY <1>2, ReadsType DEF Destination
<1> QED BY <1>2, <1>3, <1>4

-----------------------------------------------------------------------------
(* Effects                                                                 *)

LEMMA RtwpType ==
  ASSUME NEW c \in States
  PROVE  Rtwp(c) \in States
<1>1. Status(c, BitNumbers, BitsOf(Reg(c, 15))) \in States
  BY StatusType, SetBits
<1> QED BY <1>1, RegType, FieldTypes DEF Rtwp

LEMMA BlwpType ==
  ASSUME NEW c \in States, NEW a
  PROVE  Blwp(c, a) \in States
<1> DEFINE n == SetWp(GoTo(c, ReadW(c, (a + 2) % WordSize)), ReadW(c, a))
<1>1. n \in States
  BY FieldTypes, ReadWType
<1>2. c.wp \in Word /\ c.pc \in Word /\ WordOf(c.st) \in Word
  BY StateFields, WordOfType
<1>3. SetReg(SetReg(SetReg(n, 13, c.wp), 14, c.pc), 15, WordOf(c.st)) \in States
  BY <1>1, <1>2, SetRegType
<1> QED BY <1>3 DEF Blwp

LEMMA ImmediateType ==
  ASSUME NEW c \in States, NEW i \in Instruction, i.type = "immediate"
  PROVE  Immediate(c, i) \in States
<1>1. /\ i.op \in {"LI", "AI", "ANDI", "ORI", "CI", "STST", "STWP", "LWPI", "LIMI", "RTWP"}
      /\ i.word \in Word
  BY DEF Instruction
<1> DEFINE x == Reg(c, i.reg)
           a == Address(c, i.reg)
           u == x + i.word
<1>2. Advance(c) \in States /\ x \in Word /\ u % WordSize \in Word
  <2>1. x \in Word
    BY RegType
  <2>2. i.word \in Int
    BY <1>1, ZeroIsWord
  <2> QED BY <2>1, <2>2, AdvanceType, SumType
<1> HIDE DEF x, a
<1>3. WriteW(Advance(c), a, i.word) \in States
  BY <1>1, <1>2, WriteWType
<1>4. \A S \in SUBSET BitNumbers :
        Status(Store(Advance(c), a, u % WordSize), {CY, OV}, S) \in States
  BY <1>2, StoreType, StatusType
<1>5. \A S \in SUBSET BitNumbers : Store(Advance(c), a, WordOf(S)) \in States
  BY <1>2, StoreType, WordOfType
<1>6. BitsOf(x) \cap BitsOf(i.word) \in SUBSET BitNumbers /\ BitsOf(x) \cup BitsOf(i.word) \in SUBSET BitNumbers
  BY SetBits
<1>7. \A of : Status(Advance(c), of, Compared(WordSign, x, i.word)) \in States
               /\ Status(Advance(c), of, BitsOf(i.word)) \in States
  BY <1>2, StatusType, SetBits
<1>8. WriteW(c, a, WordOf(c.st)) \in States /\ WriteW(c, a, c.wp) \in States
  BY StateFields, WordOfType, WriteWType
<1>9. SetWp(Advance(c), i.word) \in States /\ Rtwp(c) \in States
  BY <1>1, <1>2, FieldTypes, RtwpType
<1> USE DEF x, a
<1> QED
  BY <1>1, <1>3, <1>4, <1>5, <1>6, <1>7, <1>8, <1>9, SetBits DEF Immediate

LEMMA StoreAtType ==
  ASSUME NEW c \in States, NEW a, NEW w \in Word
  PROVE  StoreAt(c, a, w) \in States
<1>1. w \in Int
  BY ZeroIsWord
<1>2. Status(WriteB(c, a, w), Ordering, Compared(ByteSign, w % ByteSize, 0)) \in States
  BY <1>1, WriteBType, StatusType, SetBits
<1> QED BY <1>2, StoreType DEF StoreAt

LEMMA SingleType ==
  ASSUME NEW c \in States, NEW i \in Instruction, i.type = "single"
  PROVE  Single(c, i) \in States
<1>1. /\ i.op \in {"BLWP", "B", "BL", "CLR", "SETO", "INV", "SWPB", "NEG", "INC",
                   "INCT", "DEC", "DECT", "ABS"}
      /\ i.s \in Operand
  BY DEF Instruction
<1> DEFINE a == OperandAddress(c, i.s)
           d == Decoded(c, i.s, FALSE)
           w == ReadW(d, a)
           minus == (WordSize - w) % WordSize
           abs == IF Negative(w) THEN minus ELSE w
<1>2. a \in Word /\ d \in States /\ d.pc \in Word
  BY <1>1, OperandAddressType, DecodedType, StateFields
<1>3. w \in Word
  BY <1>2, ReadWType
<1> HIDE DEF a, d, w
<1>4. minus \in Word /\ WordSize - 1 - w \in Word
  <2>1. w \in Nat /\ WordSize - w \in Int /\ WordSize - 1 - w \in 0 .. WordSize - 1
    BY <1>3, Sizes DEF Word
  <2> QED BY <2>1, Wrapped DEF Word
<1>5. abs \in Word
  BY <1>3, <1>4
<1>6. (w % ByteSize) * ByteSize + (w \div ByteSize) \in Word
  BY <1>3, ByteOfWord, WordOfBytes
<1>7. /\ (w + 1) % WordSize \in Word /\ (w + 2) % WordSize \in Word
      /\ (w - 1) % WordSize \in Word /\ (w - 2) % WordSize \in Word
  BY <1>3, SumType
<1> HIDE DEF minus, abs
<1>8. Blwp(d, a) \in States /\ GoTo(d, a) \in States /\ GoTo(SetReg(d, 11, d.pc), a) \in States
  BY <1>2, BlwpType, FieldTypes, SetRegType
<1>9. \A v \in Word : WriteW(d, a, v) \in States /\ Store(d, a, v) \in States /\ StoreAt(d, a, v) \in States
  BY <1>2, WriteWType, StoreType, StoreAtType
<1>10. \A v \in Word : \A of, carry, overflow :
         /\ Status(Store(d, a, v), of, Carries(carry, overflow)) \in States
         /\ Status(StoreAt(d, a, v), of, Carries(carry, overflow)) \in States
  BY <1>9, StatusType, SetBits
<1>11. \A of, carry, overflow :
         Status(WriteW(d, a, abs), of,
                Carries(carry, overflow)
                  \cup (IF Signed(ByteSign, w % ByteSize) > 0 THEN {AGT} ELSE {})
                  \cup (IF abs = 0 THEN {EQ} ELSE {LGT})) \in States
  <2>1. \A carry, overflow :
          Carries(carry, overflow)
            \cup (IF Signed(ByteSign, w % ByteSize) > 0 THEN {AGT} ELSE {})
            \cup (IF abs = 0 THEN {EQ} ELSE {LGT}) \in SUBSET BitNumbers
    BY SetBits, StatusBits
  <2> QED BY <1>5, <1>9, <2>1, StatusType
<1> USE DEF a, d, w, minus, abs
<1> QED
  BY <1>1, <1>4, <1>6, <1>7, <1>8, <1>9, <1>10, <1>11, ZeroIsWord, ZenonT(60) DEF Single

LEMMA ShiftCountType ==
  ASSUME NEW c \in States, NEW i, i.count \in 0 .. 15
  PROVE  ShiftCount(c, i) \in 1 .. 16
<1>1. Reg(c, 0) \in Int
  BY RegType, ZeroIsWord
<1> QED BY <1>1 DEF ShiftCount

(* A shift stores a word, and then the carry and overflow.                  *)
LEMMA ShiftStores ==
  ASSUME NEW c \in States, NEW i \in Instruction, i.type = "shift"
  PROVE  \E w \in Word, of \in SUBSET {CY, OV}, set \in SUBSET {CY, OV} :
           Shift(c, i) = Status(Store(c, Address(c, i.reg), w), of, set)
<1>1. i.op \in {"SRA", "SRC", "SRL", "SLA"} /\ i.count \in 0 .. 15
  BY DEF Instruction
<1> DEFINE n == ShiftCount(c, i)
           x == BitsOf(Reg(c, i.reg))
<1>2. n \in 1 .. 16 /\ x \in SUBSET BitNumbers
  BY <1>1, ShiftCountType, SetBits
<1> HIDE DEF n, x
<1> DEFINE filled == IF WordBits - 1 \in x THEN 2 * WordBits - n .. 2 * WordBits - 1 ELSE {}
           u == CASE i.op = "SRA" -> Right(Left(x, WordBits), n) \cup filled
                  [] i.op = "SRC" -> Right(x \cup Left(x, WordBits), n)
                  [] i.op = "SRL" -> Right(Left(x, WordBits), n)
                  [] i.op = "SLA" -> Left(x, n)
           v == IF i.op \in {"SRA", "SRL"} THEN Right(u, WordBits) ELSE u \cap BitNumbers
<1>3. v \in SUBSET BitNumbers
  <2>1. CASE i.op \in {"SRC", "SLA"}
    <3>1. v = u \cap BitNumbers
      BY <2>1
    <3> HIDE DEF v, u
    <3> QED BY <3>1
  <2>2. CASE i.op \in {"SRA", "SRL"}
    <3>1. \A b \in Right(Left(x, WordBits), n) : b \in Int /\ b <= 2 * WordBits - 1
      BY <1>2, Sizes DEF Right, Left, BitNumbers
    <3>2. \A b \in filled : b \in Int /\ b <= 2 * WordBits - 1
      BY <1>2, Sizes
    <3>3. u \subseteq Right(Left(x, WordBits), n) \cup filled
      BY <2>2
    <3>4. v = Right(u, WordBits)
      BY <2>2
    <3>5. \A b \in u : b \in Int /\ b <= 2 * WordBits - 1
      <4> HIDE DEF u, filled
      <4> QED BY <3>1, <3>2, <3>3
    <3> HIDE DEF u, v
    <3>6. Right(u, WordBits) \subseteq BitNumbers
      BY <3>5, Sizes DEF Right, BitNumbers
    <3> QED BY <3>4, <3>6
  <2> QED BY <1>1, <2>1, <2>2
<1> HIDE DEF v, u
<1>4. WordOf(v) \in Word
  BY <1>3, WordOfType
<1> DEFINE carry == (IF i.op = "SLA" THEN WordBits ELSE WordBits - 1) \in u
           msb == (WordBits - 1 \in u) # (WordBits - 1 \in x)
           of == IF i.op = "SLA" THEN {CY, OV} ELSE {CY}
<1>5. Shift(c, i) = Status(Store(c, Address(c, i.reg), WordOf(v)), of, Carries(carry, msb) \cap of)
  BY DEF Shift, v, u, n, x
<1>6. of \in SUBSET {CY, OV}
  OBVIOUS
<1> DEFINE set == Carries(carry, msb) \cap of
<1> HIDE DEF of
<1>7. set \in SUBSET {CY, OV}
  BY <1>6
<1> HIDE DEF set
<1>8. Shift(c, i) = Status(Store(c, Address(c, i.reg), WordOf(v)), of, set)
  BY <1>5 DEF set
<1> QED BY <1>4, <1>6, <1>7, <1>8

LEMMA ShiftType ==
  ASSUME NEW c \in States, NEW i \in Instruction, i.type = "shift"
  PROVE  Shift(c, i) \in States
<1>1. ASSUME NEW w \in Word, NEW of, NEW set \in SUBSET {CY, OV}
      PROVE  Status(Store(c, Address(c, i.reg), w), of, set) \in States
  <2>1. Store(c, Address(c, i.reg), w) \in States /\ set \in SUBSET BitNumbers
    BY StoreType, StatusBits
  <2> QED BY <2>1, StatusType
<1> QED BY <1>1, ShiftStores

LEMMA JumpType ==
  ASSUME NEW c \in States, NEW i \in Instruction, i.type = "jump"
  PROVE  Jump(c, i) \in States
<1>1. i.offset \in Int
  BY DEF Instruction
<1>2. (c.pc + 2 * i.offset) % WordSize \in Word
  BY <1>1, StateFields, SumType
<1> QED BY <1>2, FieldTypes DEF Jump

LEMMA BitType ==
  ASSUME NEW c \in States, NEW i \in Instruction, i.type = "bit"
  PROVE  Bit(c, i) \in States
<1>1. {0} \subseteq BitNumbers /\ {EQ} \subseteq BitNumbers
  BY StatusBits, Sizes DEF BitNumbers
<1>2. /\ (IF i.bit = 1 THEN {EQ} ELSE {}) \in SUBSET BitNumbers
      /\ (IF i.op = "SBO" THEN {0} ELSE {}) \in SUBSET BitNumbers
  BY <1>1
<1> QED BY <1>2, StatusType, FieldTypes DEF Bit

LEMMA ProductBound ==
  ASSUME NEW p \in Nat, NEW q \in Nat, NEW r \in Nat, NEW t \in Nat, p <= r, q <= t
  PROVE  p * q \in Nat /\ p * q <= r * t
<1>1. p * q <= r * q
  OBVIOUS
<1>2. r * q <= r * t
  OBVIOUS
<1> QED BY <1>1, <1>2

LEMMA QuotientBound ==
  ASSUME NEW n \in Nat, NEW b \in Nat, b >= 1, NEW k \in Nat, n < b * k
  PROVE  n \div b \in Nat /\ n \div b < k
<1> DEFINE q == n \div b
<1>1. q \in Nat /\ b * q <= n
  OBVIOUS
<1> HIDE DEF q
<1>2. ASSUME q >= k PROVE FALSE
  <2>1. b * q >= b * k
    BY <1>1, <1>2
  <2> QED BY <1>1, <2>1
<1> QED BY <1>1, <1>2 DEF q

LEMMA ProductType ==
  ASSUME NEW x \in Word, NEW y \in Word
  PROVE  Product(x, y)[1] \in Word /\ Product(x, y)[2] \in Word
<1> DEFINE B == ByteSize
           W == WordSize
           l == x % B
           h == x \div B
           low == l * y
           q == low \div B
           high == h * y + q
<1>1. B \in Nat /\ B >= 8 /\ W \in Nat /\ W >= B /\ W = B * B
  BY Sizes, ZeroIsWord DEF Byte, Word
<1>2. l \in Nat /\ l <= B - 1 /\ h \in Nat /\ h <= B - 1 /\ y \in Nat /\ y <= W - 1
  <2>1. x \div ByteSize \in Byte /\ x % ByteSize \in Byte
    BY ByteOfWord
  <2>2. h \in 0 .. B - 1 /\ l \in 0 .. B - 1 /\ y \in 0 .. W - 1
    BY <2>1 DEF Byte, Word
  <2> HIDE DEF B, W, l, h
  <2> QED BY <1>1, <2>2
<1> HIDE DEF B, W, l, h
<1>3. low \in Nat /\ low <= (B - 1) * (W - 1) /\ h * y \in Nat /\ h * y <= (B - 1) * (W - 1)
  BY <1>1, <1>2, ProductBound
<1>4. (B - 1) * (W - 1) = B * W - B - W + 1 /\ B * W \in Nat
  BY <1>1
<1>5. q \in Nat /\ q < W - B
  <2>1. B * (W - B) = B * W - W
    BY <1>1
  <2>2. low < B * (W - B) /\ W - B \in Nat
    BY <1>1, <1>3, <1>4, <2>1
  <2> HIDE DEF low
  <2> QED BY <1>1, <1>3, <2>2, QuotientBound
<1>6. high \in Nat /\ high < B * W
  <2> HIDE DEF q
  <2> QED BY <1>1, <1>3, <1>4, <1>5
<1>7. high \div B \in Word
  <2> HIDE DEF high
  <2>1. high \div B \in Nat /\ high \div B < W
    BY <1>1, <1>6, QuotientBound
  <2> QED BY <1>1, <2>1 DEF Word, W
<1>8. high % B \in Byte /\ low % B \in Byte
  <2>1. high \in Int /\ low \in Int
    BY <1>3, <1>6
  <2> HIDE DEF high, low
  <2> QED BY <2>1, Wrapped DEF B
<1>9. (high % B) * B + (low % B) \in Word
  <2> HIDE DEF high, low
  <2> QED BY <1>8, WordOfBytes DEF B
<1>10. Product(x, y) = <<high \div B, (high % B) * B + (low % B)>>
  BY DEF Product, B, l, h
<1> HIDE DEF high, low
<1> QED BY <1>7, <1>9, <1>10

LEMMA DivisionType ==
  ASSUME NEW x \in Word, NEW y \in Word, NEW z \in Word, y < x
  PROVE  Division(x, y, z)[1] \in Word /\ Division(x, y, z)[2] \in Word
<1> DEFINE B == ByteSize
           zh == z \div B
           zl == z % B
           high == y * B + zh
           low == (high % x) * B + zl
<1>1. B \in Nat /\ B >= 8 /\ x \in Nat /\ x >= 1 /\ y \in Nat /\ y <= x - 1
  BY Sizes DEF Word
<1>2. zh \in Nat /\ zh <= B - 1 /\ zl \in Nat /\ zl <= B - 1
  BY <1>1, ByteOfWord DEF Byte
<1> HIDE DEF B, zh, zl
<1>3. ASSUME NEW r \in Nat, NEW b \in Nat, r <= x - 1, b <= B - 1
      PROVE  r * B + b \in Nat /\ r * B + b < x * B
  <2>1. r * B \in Nat /\ r * B <= (x - 1) * B
    BY <1>1, <1>3, ProductBound
  <2>2. (x - 1) * B = x * B - B /\ x * B \in Nat
    BY <1>1
  <2> QED BY <1>1, <1>3, <2>1, <2>2
<1>4. high \in Nat /\ high < x * B
  BY <1>1, <1>2, <1>3
<1> HIDE DEF high
<1>5. high % x \in Nat /\ high % x <= x - 1
  BY <1>1, <1>4
<1>6. low \in Nat /\ low < x * B
  BY <1>2, <1>3, <1>5
<1> HIDE DEF low
<1>7. high \div x \in Byte /\ low \div x \in Byte
  <2>1. high \div x \in Nat /\ high \div x < B /\ low \div x \in Nat /\ low \div x < B
    BY <1>1, <1>4, <1>6, QuotientBound
  <2> QED BY <1>1, <2>1 DEF Byte, B
<1>8. (high \div x) * B + (low \div x) \in Word
  BY <1>7, WordOfBytes DEF B
<1>9. low % x \in Word
  <2>1. low % x \in Nat /\ low % x < x
    BY <1>1, <1>6
  <2> QED BY <2>1, Sizes DEF Word
<1>10. Division(x, y, z) = <<(high \div x) * B + (low \div x), low % x>>
  BY DEF Division, B, zh, zl, high, low
<1> QED BY <1>8, <1>9, <1>10

LEMMA SetDoubleType ==
  ASSUME NEW c \in States, NEW r, NEW p, p[1] \in Word, p[2] \in Word
  PROVE  SetDouble(c, r, p) \in States
  BY SetRegType DEF SetDouble

LEMMA Dual1Type ==
  ASSUME NEW c \in States, NEW i \in Instruction, i.type = "dual1"
  PROVE  Dual1(c, i) \in States
<1>1. /\ i.op \in {"COC", "CZC", "XOR", "XOP", "MPY", "DIV", "LDCR", "STCR"}
      /\ i.s \in Operand /\ i.word \in Word
  BY DEF Instruction
<1> DEFINE a == OperandAddress(c, i.s)
           d == Decoded(c, i.s, FALSE)
           x == ReadW(d, a)
           y == Reg(d, i.reg)
           z == Reg(d, i.reg + 1)
           byte == i.reg <= 8
           sent == Reads(d, a, byte)
           got == WordOf(BitsOf(i.word) \cap Transfers(i))
<1>2. d \in States
  BY <1>1, DecodedType
<1>3. x \in Word /\ y \in Word /\ z \in Word
  BY <1>2, ReadWType, RegType
<1> HIDE DEF a, d, x, y, z
<1>4. got \in Word /\ got \in Int
  BY SetBits, WordOfType, ZeroIsWord
<1>5. /\ BitsOf(sent) \cap Transfers(i) \in SUBSET BitNumbers
      /\ (IF byte THEN Parity(sent) ELSE {}) \in SUBSET BitNumbers
      /\ SymDiff(BitsOf(x), BitsOf(y)) \in SUBSET BitNumbers
  BY SetBits DEF SymDiff
<1> HIDE DEF got, sent
<1>6. \A of, u, v : Status(d, of, Compared(WordSign, u, v)) \in States
  BY <1>2, StatusType, SetBits
<1>7. Store(d, Address(d, i.reg), WordOf(SymDiff(BitsOf(x), BitsOf(y)))) \in States
  BY <1>2, <1>5, StoreType, WordOfType
<1>8. SetDouble(d, i.reg, Product(x, y)) \in States
  BY <1>2, <1>3, ProductType, SetDoubleType
<1>9. Status(d, {OV}, {OV}) \in States /\ Status(d, {OV}, {}) \in States
  BY <1>2, StatusBits, StatusType
<1>10. ASSUME ~(x <= y)
       PROVE  SetDouble(Status(d, {OV}, {}), i.reg, Division(x, y, z)) \in States
  <2>1. y < x
    BY <1>3, <1>10, ZeroIsWord
  <2> QED BY <1>3, <1>9, <2>1, DivisionType, SetDoubleType
<1>11. \A of : Output(Status(d, of, IF byte THEN Parity(sent) ELSE {}),
                      BitsOf(sent) \cap Transfers(i)) \in States
  BY <1>2, <1>5, StatusType, FieldTypes
<1>12. /\ \A of : Status(WriteB(d, a, got), of, Parity(got)) \in States
       /\ WriteW(d, a, got) \in States
  BY <1>2, <1>4, WriteBType, WriteWType, StatusType, SetBits
<1>13. CASE i.op = "DIV"
  <2>1. CASE x <= y
    BY <1>9, <1>13, <2>1 DEF Dual1, x, y, d, a
  <2>2. CASE ~(x <= y)
    BY <1>10, <1>13, <2>2 DEF Dual1, x, y, z, d, a
  <2> QED BY <2>1, <2>2
<1>14. CASE i.op \in {"LDCR", "STCR"}
  <2>1. CASE i.op = "LDCR"
    BY <1>11, <2>1 DEF Dual1, d, a, sent
  <2>2. CASE i.op = "STCR"
    BY <1>12, <2>2 DEF Dual1, d, a, got
  <2> QED BY <1>14, <2>1, <2>2
<1>15. CASE i.op \in {"COC", "CZC", "XOR", "XOP", "MPY"}
  BY <1>2, <1>6, <1>7, <1>8, <1>15 DEF Dual1, x, y, d, a
<1> QED BY <1>1, <1>13, <1>14, <1>15

LEMMA ValueType ==
  ASSUME NEW op \in {"SZC", "SOC", "S", "A", "MOV", "C"}, NEW byte \in BOOLEAN,
         NEW x \in Word, NEW y \in Word
  PROVE  Value(op, IF byte THEN ByteSize ELSE WordSize, x, y) \in Word
<1> DEFINE size == IF byte THEN ByteSize ELSE WordSize
<1>1. \A n \in Int : n % size \in Word
  BY Wrapped, ZeroIsWord
<1>2. y - x \in Int /\ y + x \in Int
  BY ZeroIsWord
<1>3. WordOf(BitsOf(y) \ BitsOf(x)) \in Word /\ WordOf(BitsOf(y) \cup BitsOf(x)) \in Word
  BY SetBits, WordOfType
<1> HIDE DEF size
<1>4. Value(op, size, x, y) \in Word
  BY <1>1, <1>2, <1>3 DEF Value
<1> QED BY <1>4 DEF size

LEMMA Dual2Type ==
  ASSUME NEW c \in States, NEW i \in Instruction, i.type = "dual2"
  PROVE  Dual2(c, i) \in States
<1>1. /\ i.op \in {"SZC", "SOC", "S", "A", "MOV", "C"}
      /\ i.byte \in BOOLEAN /\ i.s \in Operand /\ i.d \in Operand
  BY DEF Instruction
<1> DEFINE x == Source(c, i)
           y == Destination(c, i)
           d == BothDecoded(c, i)
           sign == IF i.byte THEN ByteSign ELSE WordSign
           v == Value(i.op, 2 * sign, x, y)
           stored == IF i.op = "C" THEN d ELSE Writes(d, DestinationAddress(c, i), i.byte, v)
           order == IF i.op = "C" THEN Compared(sign, x, y) ELSE Compared(sign, v, 0)
           carry == IF i.op \in {"A", "S"} THEN Carry(i.op, 2 * sign, x, y) ELSE {}
           parity == IF i.byte THEN Parity(IF i.op = "C" THEN x ELSE v) ELSE {}
           of == Ordering \cup (IF i.op \in {"A", "S"} THEN {CY, OV} ELSE {})
                          \cup (IF i.byte THEN {OP} ELSE {})
<1>2. d \in States /\ x \in Word /\ y \in Word
  BY <1>1, TwoOperands
<1>3. 2 * sign = IF i.byte THEN ByteSize ELSE WordSize
  BY <1>1, Sizes DEF ByteSize
<1> HIDE DEF x, y, d, sign
<1>4. v \in Word
  BY <1>1, <1>2, <1>3, ValueType
<1> HIDE DEF v
<1>5. stored \in States
  BY <1>1, <1>2, <1>4, WritesType
<1>6. order \in SUBSET BitNumbers /\ parity \in SUBSET BitNumbers
  BY SetBits
<1>7. carry \in SUBSET BitNumbers
  BY SetBits DEF Carry
<1> HIDE DEF stored, order, carry, parity, of
<1>8. Status(stored, of, order \cup carry \cup parity) \in States
  BY <1>5, <1>6, <1>7, StatusType
<1> QED BY <1>8 DEF Dual2, of, order, carry, parity, stored, v, sign, d, y, x

LEMMA EffectType ==
  ASSUME NEW c \in States, NEW i \in Instruction
  PROVE  Effect(c, i) \in States
<1>1. i.type \in {"immediate", "single", "shift", "jump", "bit", "dual1", "dual2"}
  BY DEF Instruction
<1> QED
  BY <1>1, ImmediateType, SingleType, ShiftType, JumpType, BitType, Dual1Type, Dual2Type DEF Effect

-----------------------------------------------------------------------------
(* Types                                                                   *)

LEMMA ProgramTypes ==
  ASSUME NEW c \in States, NEW i \in Program
  PROVE  Inner(i) \in Instruction /\ Before(c, i) \in States
<1>1. CASE i \in Instruction
  <2>1. i.type # "X"
    BY <1>1 DEF Instruction
  <2> QED BY <1>1, <2>1, AdvanceType DEF Inner, Before
<1>2. CASE i \in Indirect
  <2>1. i.type = "X" /\ i.inner \in Instruction /\ i.s \in Operand
    BY <1>2 DEF Indirect
  <2>2. Decoded(Advance(c), i.s, FALSE) \in States
    BY <2>1, AdvanceType, DecodedType
  <2> QED BY <2>1, <2>2 DEF Inner, Before
<1> QED BY <1>1, <1>2, ProgramAssumption

LEMMA AcceptedType ==
  ASSUME NEW c \in States, NEW pending \in BOOLEAN
  PROVE  Accepted(c, pending) \in States
  BY BlwpType, StatusType DEF Accepted

(* What an instruction does: its effect, after which an interrupt may be   *)
(* accepted, once.                                                         *)
LEMMA ExecuteSteps ==
  ASSUME NEW i \in Program, Execute(i), cpu \in States
  PROVE  LET e == Effect(Before(cpu, i), Inner(i))
         IN /\ e \in States /\ count < MaxInstructions /\ count' = count + 1
            /\ last'.instr = i
            /\ \/ last' = [instr |-> i, interrupted |-> FALSE] /\ cpu' = e
               \/ last' = [instr |-> i, interrupted |-> TRUE] /\ cpu' = Status(Blwp(e, 4), Mask, {})
<1> DEFINE e == Effect(Before(cpu, i), Inner(i))
           f == Status(Blwp(e, 4), Mask, {})
<1>1. e \in States
  BY ProgramTypes, EffectType
<1>2. PICK pending \in Pending(e) :
        /\ cpu' = Accepted(IF i.type = "X" THEN Accepted(e, pending) ELSE e, pending)
        /\ last' = [instr |-> i, interrupted |-> pending]
  BY DEF Execute
<1>3. count < MaxInstructions /\ count' = count + 1 /\ last'.instr = i
  BY <1>2 DEF Execute
<1>4. pending \in BOOLEAN /\ (pending => e.st \cap Mask # {})
  BY DEF Pending
<1> HIDE DEF e
<1>5. CASE ~pending
  <2>1. Accepted(e, pending) = e
    BY <1>5 DEF Accepted
  <2>2. cpu' = e
    BY <1>2, <2>1
  <2>3. pending = FALSE
    BY <1>4, <1>5
  <2> QED BY <1>1, <1>2, <1>3, <2>2, <2>3 DEF e
<1>6. CASE pending
  <2>1. Accepted(e, pending) = f
    BY <1>4, <1>6 DEF Accepted
  <2>2. f.st \cap Mask = {}
    <3>1. Blwp(e, 4) \in States
      BY <1>1, BlwpType
    <3> QED BY <3>1 DEF Status, States
  <2>3. Accepted(f, pending) = f
    BY <2>2 DEF Accepted
  <2>4. cpu' = f
    BY <1>2, <2>1, <2>3
  <2> QED BY <1>1, <1>2, <1>3, <1>4, <1>6, <2>4 DEF e
<1> QED BY <1>4, <1>5, <1>6

LEMMA NextExecutes ==
  ASSUME Next
  PROVE  Boot \/ \E i \in Program : Execute(i)
  BY DEF Next, OfType, ExecuteImmediate, ExecuteSingle, ExecuteShift, ExecuteJump,
         ExecuteDual1, ExecuteDual2, ExecuteX

LEMMA TypesKept ==
  ASSUME TypeOK, [Next]_vars
  PROVE  TypeOK'
<1>1. cpu \in States /\ count \in 0 .. MaxInstructions /\ MaxInstructions \in Nat
  BY BoundAssumption DEF TypeOK
<1>2. ASSUME NEW i \in Program, Execute(i)
      PROVE  TypeOK'
  <2> DEFINE e == Effect(Before(cpu, i), Inner(i))
  <2>1. /\ e \in States /\ count < MaxInstructions /\ count' = count + 1
        /\ \/ last' = [instr |-> i, interrupted |-> FALSE] /\ cpu' = e
           \/ last' = [instr |-> i, interrupted |-> TRUE] /\ cpu' = Status(Blwp(e, 4), Mask, {})
    BY <1>1, <1>2, ExecuteSteps
  <2> HIDE DEF e
  <2>2. Status(Blwp(e, 4), Mask, {}) \in States
    BY <2>1, BlwpType, StatusType
  <2>3. cpu' \in States
    BY <2>1, <2>2
  <2>4. last' \in [instr : Program \cup {NoInstruction}, interrupted : BOOLEAN]
    <3>1. \E b \in BOOLEAN : last' = [instr |-> i, interrupted |-> b]
      BY <2>1
    <3> QED BY <3>1
  <2>5. count' \in 0 .. MaxInstructions
    BY <1>1, <2>1
  <2> QED BY <2>3, <2>4, <2>5 DEF TypeOK
<1>3. CASE Boot
  <2>1. Status(cpu, BitNumbers, {}) \in States
    BY <1>1, StatusType
  <2>2. cpu' \in States
    BY <1>3, <2>1, BlwpType DEF Boot
  <2>3. last' \in [instr : Program \cup {NoInstruction}, interrupted : BOOLEAN]
    BY <1>3 DEF Boot
  <2> QED BY <1>1, <1>3, <2>2, <2>3 DEF Boot, TypeOK
<1>4. CASE UNCHANGED vars
  BY <1>4 DEF TypeOK, vars
<1> QED BY <1>2, <1>3, <1>4, NextExecutes

(* For every word size, memory and program, registers, status and memory   *)
(* hold words only (TypeOK): no addition, shift, product, quotient or      *)
(* conversion of cpu.cc leaves 16 bits, and a byte stored leaves a word.   *)
THEOREM WordsStayWords == Spec => []TypeOK
<1>1. Init => TypeOK
  BY StartAssumption, BoundAssumption DEF Init, TypeOK
<1>2. TypeOK /\ [Next]_vars => TypeOK'
  BY TypesKept
<1> QED BY <1>1, <1>2, PTL DEF Spec

-----------------------------------------------------------------------------
(* Return                                                                  *)

LEMMA FieldChanges ==
  ASSUME NEW c \in States, NEW w \in Word, NEW of, NEW set \in SUBSET BitNumbers
  PROVE  /\ GoTo(c, w).pc = w /\ GoTo(c, w).wp = c.wp /\ GoTo(c, w).st = c.st /\ GoTo(c, w).mem = c.mem
         /\ SetWp(c, w).pc = c.pc /\ SetWp(c, w).wp = w /\ SetWp(c, w).st = c.st /\ SetWp(c, w).mem = c.mem
         /\ Status(c, of, set).pc = c.pc /\ Status(c, of, set).wp = c.wp
         /\ Status(c, of, set).st = (c.st \ of) \cup set /\ Status(c, of, set).mem = c.mem
  BY DEF GoTo, SetWp, Status, States

(* Memory is what was written last. *)
LEMMA ReadsWrites ==
  ASSUME NEW c \in States, NEW a \in Ram, NEW w \in Word
  PROVE  /\ WriteW(c, a, w).wp = c.wp
         /\ ReadW(WriteW(c, a, w), a) = w
         /\ \A b \in Ram : b # a => ReadW(WriteW(c, a, w), b) = ReadW(c, b)
<1>1. \A b \in Ram : b \in Nat /\ b % 2 = 0 /\ b - (b % 2) = b
  BY MemoryAssumption, Sizes DEF Even, Word
<1>2. WriteW(c, a, w) = [c EXCEPT !.mem[a] = w]
  BY <1>1 DEF WriteW
<1>3. WriteW(c, a, w).wp = c.wp /\ WriteW(c, a, w).mem = [c.mem EXCEPT ![a] = w]
  BY <1>2 DEF States
<1>4. \A d \in States, b \in Ram : ReadW(d, b) = d.mem[b]
  BY <1>1 DEF ReadW
<1>5. c.mem \in [Ram -> Word] /\ WriteW(c, a, w) \in States
  BY StateFields, WriteWType
<1> QED BY <1>3, <1>4, <1>5

LEMMA AddressesDiffer ==
  ASSUME NEW w \in Word
  PROVE  /\ (w + 2 * 13) % WordSize # (w + 2 * 14) % WordSize
         /\ (w + 2 * 13) % WordSize # (w + 2 * 15) % WordSize
         /\ (w + 2 * 14) % WordSize # (w + 2 * 15) % WordSize
<1>1. WordSize \in Nat /\ WordSize >= 64 /\ w \in Nat /\ w < WordSize
  BY Sizes DEF Word
<1>2. ASSUME NEW n \in Nat, n < WordSize + WordSize
      PROVE  n % WordSize = IF n < WordSize THEN n ELSE n - WordSize
  BY <1>1, <1>2
<1>3. \A k \in 26 .. 30 :
        (w + k) % WordSize = IF w + k < WordSize THEN w + k ELSE w + k - WordSize
  BY <1>1, <1>2
<1>4. /\ (w + 26) % WordSize # (w + 28) % WordSize
      /\ (w + 26) % WordSize # (w + 30) % WordSize
      /\ (w + 28) % WordSize # (w + 30) % WordSize
  BY <1>1, <1>3
<1> QED BY <1>4

(* The context a BLWP saves is what RTWP brings back while the workspace   *)
(* and memory stay.                                                        *)
LEMMA BlwpSaves ==
  ASSUME NEW c \in States, NEW a, NEW m \in States,
         m.wp = Blwp(c, a).wp, m.mem = Blwp(c, a).mem,
         {Address(m, r) : r \in 13 .. 15} \subseteq Ram
  PROVE  Context(Rtwp(m)) = Context(c)
<1> DEFINE n == SetWp(GoTo(c, ReadW(c, (a + 2) % WordSize)), ReadW(c, a))
           n1 == SetReg(n, 13, c.wp)
           n2 == SetReg(n1, 14, c.pc)
           n3 == SetReg(n2, 15, WordOf(c.st))
           A(r) == Address(m, r)
<1>1. n \in States /\ c.wp \in Word /\ c.pc \in Word /\ WordOf(c.st) \in Word
  BY FieldTypes, ReadWType, StateFields, WordOfType
<1>2. n1 \in States /\ n2 \in States /\ n3 \in States
  BY <1>1, SetRegType
<1>3. n3 = Blwp(c, a)
  BY DEF Blwp
<1> HIDE DEF n
<1>4. ASSUME NEW d \in States, NEW r, NEW w
      PROVE  SetReg(d, r, w).wp = d.wp
  BY DEF SetReg, WriteW, States
<1>5. n1.wp = n.wp /\ n2.wp = n.wp /\ n3.wp = n.wp /\ m.wp = n.wp
  <2>1. n1.wp = n.wp
    BY ONLY <1>1, <1>4 DEF n1
  <2> HIDE DEF n1
  <2>2. n2.wp = n1.wp
    BY ONLY <1>2, <1>4 DEF n2
  <2> HIDE DEF n2
  <2>3. n3.wp = n2.wp
    BY ONLY <1>2, <1>4 DEF n3
  <2> QED BY <1>3, <2>1, <2>2, <2>3
<1>6. A(13) \in Ram /\ A(14) \in Ram /\ A(15) \in Ram
  OBVIOUS
<1>7. A(13) # A(14) /\ A(13) # A(15) /\ A(14) # A(15)
  BY StateFields, AddressesDiffer DEF Address
<1>8. /\ n1 = WriteW(n, A(13), c.wp)
      /\ n2 = WriteW(n1, A(14), c.pc)
      /\ n3 = WriteW(n2, A(15), WordOf(c.st))
  BY <1>5 DEF SetReg, Address
<1> HIDE DEF n1, n2, n3, A
<1>9. ReadW(n3, A(13)) = c.wp /\ ReadW(n3, A(14)) = c.pc /\ ReadW(n3, A(15)) = WordOf(c.st)
  BY <1>1, <1>2, <1>6, <1>7, <1>8, ReadsWrites
<1>10. Reg(m, 13) = c.wp /\ Reg(m, 14) = c.pc /\ Reg(m, 15) = WordOf(c.st)
  <2>1. \A b : ReadW(m, b) = ReadW(n3, b)
    BY <1>3 DEF ReadW
  <2> QED BY <1>9, <2>1 DEF Reg, A
<1>11. BitsOf(WordOf(c.st)) = c.st /\ c.st \in SUBSET BitNumbers
  BY StateFields, WordOfType
<1> DEFINE s == Status(m, BitNumbers, c.st)
           g == GoTo(s, c.pc)
<1>12. s \in States /\ g \in States
  BY <1>1, <1>11, StatusType, FieldTypes
<1>13. s.st = c.st
  <2>1. s.st = (m.st \ BitNumbers) \cup c.st /\ m.st \subseteq BitNumbers
    BY <1>11, FieldChanges, StateFields, ZeroIsWord
  <2> QED BY <2>1
<1>14. Rtwp(m) = SetWp(g, c.wp)
  BY <1>10, <1>11 DEF Rtwp
<1> HIDE DEF s
<1>15. g.pc = c.pc /\ g.st = c.st
  BY <1>1, <1>11, <1>12, <1>13, FieldChanges
<1> HIDE DEF g
<1>16. SetWp(g, c.wp).pc = c.pc /\ SetWp(g, c.wp).wp = c.wp /\ SetWp(g, c.wp).st = c.st
  BY <1>1, <1>11, <1>12, <1>15, FieldChanges
<1> QED BY <1>14, <1>16 DEF Context

LEMMA InterruptReturns ==
  ASSUME NEW e \in States, NEW m, m = Status(Blwp(e, 4), Mask, {}),
         {Address(m, r) : r \in 13 .. 15} \subseteq Ram
  PROVE  Context(Rtwp(m)) = Context(e) /\ m.st \cap Mask = {}
<1> DEFINE n == Blwp(e, 4)
<1>1. n \in States
  BY BlwpType
<1> HIDE DEF n
<1>2. m = Status(n, Mask, {})
  BY DEF n
<1>3. m \in States
  BY <1>1, <1>2, StatusType
<1>4. m.wp = n.wp /\ m.mem = n.mem /\ m.st = (n.st \ Mask) \cup {}
  BY <1>1, <1>2, FieldChanges, ZeroIsWord
<1> QED BY <1>3, <1>4, BlwpSaves DEF n

LEMMA CallReturns ==
  ASSUME NEW c \in States, NEW i \in Instruction, i.type = "single", i.op = "BLWP",
         {Address(Effect(c, i), r) : r \in 13 .. 15} \subseteq Ram
  PROVE  Context(Rtwp(Effect(c, i))) = Context(Decoded(c, i.s, FALSE))
<1>1. i.s \in Operand
  BY DEF Instruction
<1>2. Decoded(c, i.s, FALSE) \in States
  BY <1>1, DecodedType
<1>3. Effect(c, i) = Blwp(Decoded(c, i.s, FALSE), OperandAddress(c, i.s))
  BY DEF Effect, Single
<1> DEFINE m == Effect(c, i)
           d == Decoded(c, i.s, FALSE)
           a == OperandAddress(c, i.s)
<1>4. d \in States /\ m \in States /\ m.wp = Blwp(d, a).wp /\ m.mem = Blwp(d, a).mem
  BY <1>2, <1>3, BlwpType
<1>5. {Address(m, r) : r \in 13 .. 15} \subseteq Ram
  OBVIOUS
<1> HIDE DEF m, d, a
<1>6. Context(Rtwp(m)) = Context(d)
  BY <1>4, <1>5, BlwpSaves
<1> QED BY <1>6 DEF m, d

LEMMA StepsReturn ==
  ASSUME TypeOK, [Next]_vars
  PROVE  vars' # vars => CallIsUndone
<1>1. ASSUME NEW i \in Program, Execute(i)
      PROVE  CallIsUndone
  <2> DEFINE c == Before(cpu, i)
             e == Effect(c, Inner(i))
  <2>1. /\ e \in States /\ last'.instr = i
        /\ \/ last' = [instr |-> i, interrupted |-> FALSE] /\ cpu' = e
           \/ last' = [instr |-> i, interrupted |-> TRUE] /\ cpu' = Status(Blwp(e, 4), Mask, {})
    BY <1>1, ExecuteSteps DEF TypeOK
  <2>2. c \in States /\ Inner(i) \in Instruction
    BY ProgramTypes DEF TypeOK
  <2>3. CASE last' = [instr |-> i, interrupted |-> FALSE] /\ cpu' = e
    <3>1. ~last'.interrupted
      BY <2>3
    <3> HIDE DEF c
    <3>2. ASSUME {Address(cpu', r) : r \in 13 .. 15} \subseteq Ram,
                 Inner(i).type = "single", Inner(i).op = "BLWP"
          PROVE  Context(Rtwp(cpu')) = Context(Decoded(c, Inner(i).s, FALSE))
      BY <2>2, <2>3, <3>2, CallReturns
    <3> QED BY <2>1, <3>1, <3>2 DEF CallIsUndone, c
  <2>4. CASE last' = [instr |-> i, interrupted |-> TRUE] /\ cpu' = Status(Blwp(e, 4), Mask, {})
    <3>1. last'.interrupted
      BY <2>4
    <3> HIDE DEF e, c
    <3>2. {Address(cpu', r) : r \in 13 .. 15} \subseteq Ram =>
            Context(Rtwp(cpu')) = Context(e) /\ cpu'.st \cap Mask = {}
      BY <2>1, <2>4, InterruptReturns
    <3> QED BY <2>1, <3>1, <3>2 DEF CallIsUndone, e, c
  <2> QED BY <2>1, <2>3, <2>4
<1>2. CASE Boot
  <2>1. last' = [instr |-> NoInstruction, interrupted |-> FALSE]
    BY <1>2 DEF Boot
  <2>2. last'.instr = NoInstruction /\ ~last'.interrupted
    BY <2>1
  <2>3. Inner(last'.instr).type = "none"
    BY <2>2 DEF Inner, NoInstruction
  <2> QED BY <2>2, <2>3 DEF CallIsUndone
<1> QED BY <1>1, <1>2, NextExecutes

(* For every word size, memory and program, whatever the operands and the  *)
(* vectors are, also if X executes the BLWP and an interrupt follows: RTWP *)
(* restores what _blwp saved (cpu.cc 134-154, 995-1016).                   *)
THEOREM ReturnsAreExact == Spec => ReturnUndoesCall
<1>1. TypeOK /\ [Next]_vars => TypeOK' /\ [CallIsUndone]_vars
  BY TypesKept, StepsReturn
<1>2. Init => TypeOK
  BY StartAssumption, BoundAssumption DEF Init, TypeOK
<1>3. Spec => [][CallIsUndone]_vars
  BY <1>1, <1>2, PTL DEF Spec
<1> QED BY <1>3 DEF ReturnUndoesCall

-----------------------------------------------------------------------------
(* Order                                                                   *)

LEMMA SignedOrder ==
  ASSUME NEW sign \in Nat, sign >= 1, NEW x \in 0 .. 2 * sign - 1, NEW y \in 0 .. 2 * sign - 1
  PROVE  /\ Signed(sign, x) \in Int /\ Signed(sign, y) \in Int
         /\ Signed(sign, x) = Signed(sign, y) <=> x = y
  BY DEF Signed

(* The eight conditional jumps on the order of two numbers are taken       *)
(* exactly if the relation they are named for holds, with or without sign, *)
(* for bytes and words of any size and whatever the status was: the three  *)
(* bits of _compareWord and _compareByte (cpu.cc 258-273) and the masks of *)
(* _executeJump (cpu.cc 662-691) fit together.                             *)
THEOREM JumpsFollowOrder ==
  ASSUME NEW sign \in Nat, sign >= 1, NEW x \in 0 .. 2 * sign - 1, NEW y \in 0 .. 2 * sign - 1,
         NEW st, NEW op \in Orderings
  PROVE  Taken(op, (st \ Ordering) \cup Compared(sign, x, y)) <=> Relates(op, sign, x, y)
<1> DEFINE bits == (st \ Ordering) \cup Compared(sign, x, y)
<1>1. LGT # AGT /\ LGT # EQ /\ AGT # EQ
  BY Sizes DEF LGT, AGT, EQ
<1>2. /\ LGT \in bits <=> x > y
      /\ AGT \in bits <=> Signed(sign, x) > Signed(sign, y)
      /\ EQ \in bits <=> x = y
  BY <1>1 DEF Compared, Ordering
<1> HIDE DEF bits
<1>3. /\ Taken("JEQ", bits) <=> EQ \in bits
      /\ Taken("JNE", bits) <=> EQ \notin bits
      /\ Taken("JGT", bits) <=> AGT \in bits /\ EQ \notin bits
      /\ Taken("JLT", bits) <=> AGT \notin bits /\ EQ \notin bits
      /\ Taken("JH", bits) <=> LGT \in bits /\ EQ \notin bits
      /\ Taken("JL", bits) <=> LGT \notin bits /\ EQ \notin bits
      /\ Taken("JHE", bits) <=> LGT \in bits \/ EQ \in bits
      /\ Taken("JLE", bits) <=> LGT \notin bits \/ EQ \in bits
  BY DEF Taken, AllOf, AnyOf
<1>4. /\ Relates("JGT", sign, x, y) <=> Signed(sign, x) > Signed(sign, y) /\ x # y
      /\ Relates("JLT", sign, x, y) <=> ~(Signed(sign, x) > Signed(sign, y)) /\ x # y
      /\ Relates("JH", sign, x, y) <=> x > y /\ x # y
      /\ Relates("JL", sign, x, y) <=> ~(x > y) /\ x # y
      /\ Relates("JHE", sign, x, y) <=> x > y \/ x = y
      /\ Relates("JLE", sign, x, y) <=> ~(x > y) \/ x = y
      /\ Relates("JEQ", sign, x, y) <=> x = y
      /\ Relates("JNE", sign, x, y) <=> x # y
  BY SignedOrder DEF Relates
<1>5. Taken(op, bits) <=> Relates(op, sign, x, y)
  BY <1>2, <1>3, <1>4 DEF Orderings
<1> QED BY <1>5 DEF bits

(* Words and bytes that are written are what is read.                       *)
LEMMA WordWritten ==
  ASSUME NEW c \in States, NEW a, a - (a % 2) \in Ram, NEW w \in Word
  PROVE  ReadW(WriteW(c, a, w), a) = w
<1> DEFINE e == a - (a % 2)
<1>1. WriteW(c, a, w) = [c EXCEPT !.mem[e] = w] /\ e \in Ram
  BY DEF WriteW
<1> HIDE DEF e
<1>2. WriteW(c, a, w).mem[e] = w
  BY <1>1 DEF States
<1> QED BY <1>1, <1>2 DEF ReadW, e

LEMMA ByteWritten ==
  ASSUME NEW c \in States, NEW a, a - (a % 2) \in Ram, NEW b \in Int
  PROVE  ReadB(WriteB(c, a, b), a) = b % ByteSize
<1> DEFINE l == ReadW(c, a) % ByteSize
           h == ReadW(c, a) \div ByteSize
           v == b % ByteSize
<1>1. l \in Byte /\ h \in Byte /\ v \in Byte
  BY Wrapped, ReadWType, ByteOfWord
<1>2. ByteSize \in Nat /\ ByteSize >= 1
  BY Sizes
<1> HIDE DEF l, h, v
<1>3. ASSUME NEW p \in Byte, NEW q \in Byte
      PROVE  (p * ByteSize + q) \div ByteSize = p /\ (p * ByteSize + q) % ByteSize = q
  <2>1. p \in Nat /\ q \in Nat /\ q < ByteSize
    BY <1>2 DEF Byte
  <2> DEFINE n == p * ByteSize + q
             k == n \div ByteSize
             r == n % ByteSize
  <2>2. n \in Nat
    BY <1>2, <2>1
  <2>3. k \in Int /\ r \in Nat /\ r < ByteSize /\ n = ByteSize * k + r
    <3> HIDE DEF n
    <3> QED BY <1>2, <2>2
  <2> HIDE DEF k, r
  <2>4. ByteSize * (k - p) = q - r
    BY <1>2, <2>1, <2>3
  <2>5. k = p
    <3>1. CASE k - p >= 1
      <4>1. ByteSize * (k - p) >= ByteSize
        BY <1>2, <2>1, <2>3, <3>1
      <4> QED BY <1>2, <2>1, <2>3, <2>4, <4>1
    <3>2. CASE k - p <= -1
      <4>1. ByteSize * (k - p) <= -ByteSize
        BY <1>2, <2>1, <2>3, <3>2
      <4> QED BY <1>2, <2>1, <2>3, <2>4, <4>1
    <3> QED BY <2>1, <2>3, <3>1, <3>2
  <2>6. r = q
    BY <1>2, <2>1, <2>3, <2>4, <2>5
  <2> QED BY <2>5, <2>6 DEF k, r
<1>4. CASE a % 2 = 0
  <2>1. v * ByteSize + l \in Word
    BY <1>1, WordOfBytes
  <2>2. WriteB(c, a, b) = WriteW(c, a, v * ByteSize + l)
    BY <1>4 DEF WriteB, v, l
  <2>3. ReadW(WriteB(c, a, b), a) = v * ByteSize + l
    BY <2>1, <2>2, WordWritten
  <2>4. ReadB(WriteB(c, a, b), a) = (v * ByteSize + l) \div ByteSize
    BY <1>4, <2>3 DEF ReadB
  <2> QED BY <1>1, <1>3, <2>4 DEF v
<1>5. CASE a % 2 # 0
  <2>1. h * ByteSize + v \in Word
    BY <1>1, WordOfBytes
  <2>2. WriteB(c, a, b) = WriteW(c, a, h * ByteSize + v)
    BY <1>5 DEF WriteB, v, h
  <2>3. ReadW(WriteB(c, a, b), a) = h * ByteSize + v
    BY <2>1, <2>2, WordWritten
  <2>4. ReadB(WriteB(c, a, b), a) = (h * ByteSize + v) % ByteSize
    BY <1>5, <2>3 DEF ReadB
  <2> QED BY <1>1, <1>3, <2>4 DEF v
<1> QED BY <1>4, <1>5

Sign(byte) == IF byte THEN ByteSign ELSE WordSign

LEMMA Signs ==
  ASSUME NEW byte \in BOOLEAN
  PROVE  /\ Sign(byte) \in Nat /\ Sign(byte) >= 1
         /\ 2 * Sign(byte) = IF byte THEN ByteSize ELSE WordSize
         /\ 0 .. 2 * Sign(byte) - 1 = IF byte THEN Byte ELSE Word
  BY Sizes DEF Sign, ByteSize, Byte, Word

(* In the state e the value v is found at a, and the status is its order   *)
(* to 0.                                                                   *)
Shows(e, a, byte, v) ==
  /\ e \in States
  /\ v \in 0 .. 2 * Sign(byte) - 1
  /\ Reads(e, a, byte) = v
  /\ e.st \cap Ordering = Compared(Sign(byte), v, 0)

LEMMA OrderingBits ==
  /\ \A sign, x, y : Compared(sign, x, y) \subseteq Ordering
  /\ {CY, OV, OP} \cap Ordering = {}
  /\ \A carry, overflow : Carries(carry, overflow) \cap Ordering = {}
  /\ \A b : Parity(b) \cap Ordering = {}
<1>1. {CY, OV, OP} \cap Ordering = {}
  BY Sizes DEF Ordering, LGT, AGT, EQ, CY, OV, OP
<1> QED BY <1>1 DEF Compared, Ordering, Carries, Parity

LEMMA StatusReads ==
  ASSUME NEW c \in States, NEW of, NEW set \in SUBSET BitNumbers, NEW a, NEW byte
  PROVE  Reads(Status(c, of, set), a, byte) = Reads(c, a, byte)
<1>1. Status(c, of, set).mem = c.mem
  BY FieldChanges, ZeroIsWord
<1>2. \A b : ReadW(Status(c, of, set), b) = ReadW(c, b)
  BY <1>1 DEF ReadW
<1> QED BY <1>2 DEF Reads, ReadB

(* A status that is set after the value was written *)
LEMMA ShowsSet ==
  ASSUME NEW c \in States, NEW a, NEW byte \in BOOLEAN, NEW v \in 0 .. 2 * Sign(byte) - 1,
         Reads(c, a, byte) = v,
         NEW of, Ordering \subseteq of, NEW set \in SUBSET BitNumbers,
         set \cap Ordering = Compared(Sign(byte), v, 0)
  PROVE  Shows(Status(c, of, set), a, byte, v)
<1>1. Status(c, of, set) \in States /\ Reads(Status(c, of, set), a, byte) = v
  BY StatusType, StatusReads
<1>2. Status(c, of, set).st = (c.st \ of) \cup set
  BY FieldChanges, ZeroIsWord
<1> QED BY <1>1, <1>2 DEF Shows

(* Other bits do not matter. *)
LEMMA ShowsOn ==
  ASSUME NEW c, NEW a, NEW byte \in BOOLEAN, NEW v, Shows(c, a, byte, v),
         NEW of, of \cap Ordering = {}, NEW set \in SUBSET BitNumbers, set \cap Ordering = {}
  PROVE  Shows(Status(c, of, set), a, byte, v)
<1>1. c \in States /\ Status(c, of, set) \in States
  BY StatusType DEF Shows
<1>2. Reads(Status(c, of, set), a, byte) = v
  BY <1>1, StatusReads DEF Shows
<1>3. Status(c, of, set).st = (c.st \ of) \cup set
  BY <1>1, FieldChanges, ZeroIsWord
<1>4. Status(c, of, set).st \cap Ordering = c.st \cap Ordering
  BY <1>3
<1> QED BY <1>1, <1>2, <1>4 DEF Shows

LEMMA ShowsWord ==
  ASSUME NEW c \in States, NEW a, a - (a % 2) \in Ram, NEW w \in Word
  PROVE  Shows(Store(c, a, w), a, FALSE, w)
<1>1. WriteW(c, a, w) \in States /\ Reads(WriteW(c, a, w), a, FALSE) = w
  BY WriteWType, WordWritten DEF Reads
<1>2. w \in 0 .. 2 * Sign(FALSE) - 1 /\ Sign(FALSE) = WordSign
  BY Signs DEF Sign
<1>3. Compared(WordSign, w, 0) \in SUBSET BitNumbers
      /\ Compared(WordSign, w, 0) \cap Ordering = Compared(WordSign, w, 0)
  BY SetBits, OrderingBits
<1> QED BY <1>1, <1>2, <1>3, ShowsSet DEF Store

LEMMA ShowsByte ==
  ASSUME NEW c \in States, NEW a, a - (a % 2) \in Ram, NEW w \in Word
  PROVE  Shows(Status(WriteB(c, a, w), Ordering, Compared(ByteSign, w % ByteSize, 0)),
               a, TRUE, w % ByteSize)
<1>0. w \in Int
  BY ZeroIsWord
<1>1. WriteB(c, a, w) \in States /\ Reads(WriteB(c, a, w), a, TRUE) = w % ByteSize
  BY <1>0, WriteBType, ByteWritten DEF Reads
<1> DEFINE v == w % ByteSize
<1>2. v \in 0 .. 2 * Sign(TRUE) - 1 /\ Sign(TRUE) = ByteSign
  BY <1>0, Wrapped, Signs DEF Sign
<1> HIDE DEF v
<1>3. Compared(ByteSign, v, 0) \in SUBSET BitNumbers
      /\ Compared(ByteSign, v, 0) \cap Ordering = Compared(ByteSign, v, 0)
  BY SetBits, OrderingBits
<1>4. Shows(Status(WriteB(c, a, w), Ordering, Compared(ByteSign, v, 0)), a, TRUE, v)
  BY <1>1, <1>2, <1>3, ShowsSet DEF v
<1> QED BY <1>4 DEF v

(* Instructions whose result is compared with 0                            *)
HasOrder(c, i) == HasResult(c, i) /\ i \in Instruction /\ c \in States

LEMMA ImmediateShows ==
  ASSUME NEW c, NEW i, HasOrder(c, i), i.type = "immediate"
  PROVE  \E v : Shows(Immediate(c, i), Address(c, i.reg), FALSE, v)
<1> DEFINE a == Address(c, i.reg)
           x == Reg(c, i.reg)
           d == Advance(c)
           u == x + i.word
<1>1. /\ i.op \in {"AI", "ANDI", "ORI"} /\ i.word \in Word
      /\ a - (a % 2) \in Ram
  BY DEF HasOrder, HasResult, ResultAddress, Instruction
<1>2. d \in States /\ x \in Word
  BY AdvanceType, RegType DEF HasOrder
<1>3. u % WordSize \in Word
  BY <1>1, <1>2, ZeroIsWord, SumType
<1>4. /\ WordOf(BitsOf(x) \cap BitsOf(i.word)) \in Word
      /\ WordOf(BitsOf(x) \cup BitsOf(i.word)) \in Word
  BY SetBits, WordOfType
<1> HIDE DEF a, d
<1>5. \A w \in Word : Shows(Store(d, a, w), a, FALSE, w)
  BY <1>1, <1>2, ShowsWord
<1>6. ASSUME NEW w \in Word, NEW carry, NEW overflow
      PROVE  Shows(Status(Store(d, a, w), {CY, OV}, Carries(carry, overflow)), a, FALSE, w)
  BY <1>5, OrderingBits, SetBits, ShowsOn
<1>7. CASE i.op = "AI"
  <2>1. Immediate(c, i) = Status(Store(d, a, u % WordSize), {CY, OV},
                            Carries(u >= WordSize,
                                    /\ Negative(x) = Negative(i.word)
                                    /\ Negative(u % WordSize) # Negative(x)))
    BY <1>7 DEF Immediate, d, a
  <2> HIDE DEF u, x
  <2> QED BY <1>3, <1>6, <2>1 DEF a
<1>8. CASE i.op = "ANDI"
  BY <1>4, <1>5, <1>8 DEF Immediate, d, a
<1>9. CASE i.op = "ORI"
  BY <1>4, <1>5, <1>9 DEF Immediate, d, a
<1> QED BY <1>1, <1>7, <1>8, <1>9

LEMMA SingleShows ==
  ASSUME NEW c, NEW i, HasOrder(c, i), i.type = "single"
  PROVE  \E v : Shows(Single(c, i), OperandAddress(c, i.s), ResultIsByte(c, i), v)
<1> DEFINE a == OperandAddress(c, i.s)
           d == Decoded(c, i.s, FALSE)
           w == ReadW(d, a)
           minus == (WordSize - w) % WordSize
<1>1. /\ i.op \in {"INV", "SWPB", "NEG", "INC", "INCT", "DEC", "DECT"}
      /\ i.s \in Operand /\ c \in States
      /\ a - (a % 2) \in Ram
  BY DEF HasOrder, HasResult, ResultAddress, Instruction
<1>0. ResultIsByte(c, i) = (i.op \in {"INCT", "DECT"} /\ a % 2 = 1)
  <2>1. ResultAddress(c, i) = a
    BY DEF ResultAddress
  <2> HIDE DEF a
  <2> QED BY <2>1 DEF ResultIsByte
<1>2. a \in Word /\ d \in States /\ w \in Word
  BY <1>1, OperandAddressType, DecodedType, ReadWType
<1>3. a % 2 = 0 \/ a % 2 = 1
  <2> HIDE DEF a
  <2> QED BY <1>2, Sizes DEF Word
<1> HIDE DEF a, d, w
<1>4. minus \in Word /\ WordSize - 1 - w \in Word
  <2>1. w \in Nat /\ WordSize - w \in Int /\ WordSize - 1 - w \in 0 .. WordSize - 1
    BY <1>2, Sizes DEF Word
  <2> QED BY <2>1, Wrapped DEF Word
<1>5. (w % ByteSize) * ByteSize + (w \div ByteSize) \in Word
  BY <1>2, ByteOfWord, WordOfBytes
<1>6. /\ (w + 1) % WordSize \in Word /\ (w + 2) % WordSize \in Word
      /\ (w - 1) % WordSize \in Word /\ (w - 2) % WordSize \in Word
  BY <1>2, SumType
<1> HIDE DEF minus
<1>7. \A u \in Word : Shows(Store(d, a, u), a, FALSE, u)
  BY <1>1, <1>2, ShowsWord
<1>7a. /\ {CY, OV} \cap Ordering = {}
        /\ \A set \in SUBSET {CY, OV} : set \in SUBSET BitNumbers /\ set \cap Ordering = {}
  BY OrderingBits, StatusBits
<1>7b. \A carry, overflow : Carries(carry, overflow) \in SUBSET {CY, OV}
  BY DEF Carries
<1>8. ASSUME NEW u \in Word, NEW set \in SUBSET {CY, OV}
      PROVE  Shows(Status(Store(d, a, u), {CY, OV}, set), a, FALSE, u)
  BY <1>7, <1>7a, ShowsOn
<1>9. ASSUME NEW u \in Word, NEW set \in SUBSET {CY, OV}
      PROVE  \E v : Shows(Status(StoreAt(d, a, u), {CY, OV}, set), a, a % 2 = 1, v)
  <2>1. CASE a % 2 = 0
    <3>1. StoreAt(d, a, u) = Store(d, a, u) /\ (a % 2 = 1) = FALSE
      BY <2>1 DEF StoreAt
    <3> QED BY <1>8, <3>1
  <2>2. CASE a % 2 = 1
    <3> DEFINE b == u % ByteSize
    <3>1. StoreAt(d, a, u) = Status(WriteB(d, a, u), Ordering, Compared(ByteSign, b, 0))
          /\ (a % 2 = 1) = TRUE
      BY <2>2 DEF StoreAt
    <3>2. Shows(StoreAt(d, a, u), a, TRUE, b)
      BY <1>1, <1>2, <3>1, ShowsByte, ZenonT(60)
    <3> HIDE DEF b
    <3>3. Shows(Status(StoreAt(d, a, u), {CY, OV}, set), a, TRUE, b)
      BY <3>2, <1>7a, ShowsOn
    <3> QED BY <3>1, <3>3
  <2> QED BY <1>3, <2>1, <2>2
<1>10. CASE i.op \in {"INV", "SWPB"}
  <2>1. ResultIsByte(c, i) = FALSE
    BY <1>0, <1>10
  <2>2. \E u \in Word : Single(c, i) = Store(d, a, u)
    BY <1>4, <1>5, <1>10 DEF Single, d, a, w
  <2> QED BY <1>7, <2>1, <2>2 DEF a
<1>11. CASE i.op \in {"NEG", "INC", "DEC"}
  <2>1. ResultIsByte(c, i) = FALSE
    BY <1>0, <1>11
  <2>2. \E u \in Word, set \in SUBSET {CY, OV} :
          Single(c, i) = Status(Store(d, a, u), {CY, OV}, set)
    <3>1. CASE i.op = "NEG"
      <4>1. Single(c, i) = Status(Store(d, a, minus), {CY, OV}, Carries(w = WordSign, Negative(w)))
        BY <3>1 DEF Single, d, a, w, minus
      <4> QED BY <1>4, <1>7b, <4>1
    <3>2. CASE i.op = "INC"
      <4>1. Single(c, i) = Status(Store(d, a, (w + 1) % WordSize), {CY, OV},
                             Carries(w >= WordSize - 1, ~Negative(w) /\ Negative((w + 1) % WordSize)))
        BY <3>2 DEF Single, d, a, w
      <4> QED BY <1>6, <1>7b, <4>1
    <3>3. CASE i.op = "DEC"
      <4>1. Single(c, i) = Status(Store(d, a, (w - 1) % WordSize), {CY, OV},
                             Carries(w >= 1, Negative(w) /\ ~Negative((w - 1) % WordSize)))
        BY <3>3 DEF Single, d, a, w
      <4> QED BY <1>6, <1>7b, <4>1
    <3> QED BY <1>11, <3>1, <3>2, <3>3
  <2> QED BY <1>8, <2>1, <2>2 DEF a
<1>12. CASE i.op \in {"INCT", "DECT"}
  <2>1. ResultIsByte(c, i) = (a % 2 = 1)
    BY <1>0, <1>12
  <2>2. \E u \in Word, set \in SUBSET {CY, OV} :
          Single(c, i) = Status(StoreAt(d, a, u), {CY, OV}, set)
    <3>1. CASE i.op = "INCT"
      <4>1. Single(c, i) = Status(StoreAt(d, a, (w + 2) % WordSize), {CY, OV},
                             Carries(w >= WordSize - 2, ~Negative(w) /\ Negative((w + 2) % WordSize)))
        BY <3>1 DEF Single, d, a, w
      <4> QED BY <1>6, <1>7b, <4>1
    <3>2. CASE i.op = "DECT"
      <4>1. Single(c, i) = Status(StoreAt(d, a, (w - 2) % WordSize), {CY, OV},
                             Carries(w >= 2, Negative(w) /\ ~Negative((w - 2) % WordSize)))
        BY <3>2 DEF Single, d, a, w
      <4> QED BY <1>6, <1>7b, <4>1
    <3> QED BY <1>12, <3>1, <3>2
  <2> QED BY <1>9, <2>1, <2>2 DEF a
<1> QED BY <1>1, <1>10, <1>11, <1>12

LEMMA ShiftShows ==
  ASSUME NEW c, NEW i, HasOrder(c, i), i.type = "shift"
  PROVE  \E v : Shows(Shift(c, i), Address(c, i.reg), FALSE, v)
<1> DEFINE a == Address(c, i.reg)
<1>1. a - (a % 2) \in Ram /\ c \in States /\ i \in Instruction
  BY DEF HasOrder, HasResult, ResultAddress
<1>2. PICK w \in Word, of \in SUBSET {CY, OV}, set \in SUBSET {CY, OV} :
        Shift(c, i) = Status(Store(c, a, w), of, set)
  BY <1>1, ShiftStores
<1> HIDE DEF a
<1>3. Shows(Store(c, a, w), a, FALSE, w)
  BY <1>1, ShowsWord
<1>4. of \cap Ordering = {} /\ set \cap Ordering = {} /\ set \in SUBSET BitNumbers
  BY OrderingBits, StatusBits
<1>5. Shows(Shift(c, i), a, FALSE, w)
  BY <1>2, <1>3, <1>4, ShowsOn
<1> QED BY <1>5 DEF a

LEMMA XorShows ==
  ASSUME NEW c, NEW i, HasOrder(c, i), i.type = "dual1"
  PROVE  \E v : Shows(Dual1(c, i), Address(Decoded(c, i.s, FALSE), i.reg), FALSE, v)
<1> DEFINE d == Decoded(c, i.s, FALSE)
           a == Address(d, i.reg)
           bits == SymDiff(BitsOf(ReadW(d, OperandAddress(c, i.s))), BitsOf(Reg(d, i.reg)))
<1>1. i.op = "XOR" /\ i.s \in Operand /\ c \in States /\ a - (a % 2) \in Ram
  <2>1. i.op \in {"COC", "CZC", "XOR", "XOP", "MPY", "DIV", "LDCR", "STCR"} /\ i.s \in Operand
    BY DEF HasOrder, Instruction
  <2>2. ResultAddress(c, i) = a
    BY DEF ResultAddress
  <2> HIDE DEF a
  <2> QED BY <2>1, <2>2 DEF HasOrder, HasResult
<1>2. d \in States
  BY <1>1, DecodedType
<1>3. bits \in SUBSET BitNumbers
  BY SetBits DEF SymDiff
<1>4. WordOf(bits) \in Word
  BY <1>3, WordOfType
<1>5. Dual1(c, i) = Store(d, a, WordOf(bits))
  BY <1>1 DEF Dual1
<1> HIDE DEF a, d, bits
<1>6. Shows(Dual1(c, i), a, FALSE, WordOf(bits))
  BY <1>1, <1>2, <1>4, <1>5, ShowsWord
<1> QED BY <1>6 DEF a, d

(* Operands and values of bytes are bytes.                                 *)
LEMMA OperandsSized ==
  ASSUME NEW c \in States, NEW i, i.s \in Operand, i.d \in Operand, i.byte \in BOOLEAN
  PROVE  /\ Source(c, i) \in 0 .. 2 * Sign(i.byte) - 1
         /\ Destination(c, i) \in 0 .. 2 * Sign(i.byte) - 1
<1>1. Decoded(c, i.s, i.byte) \in States /\ BothDecoded(c, i) \in States
  BY DecodedType, TwoOperands
<1>2. \A e \in States : \A a : Reads(e, a, i.byte) \in IF i.byte THEN Byte ELSE Word
  BY ReadWType, ReadBType DEF Reads
<1>3. /\ Source(c, i) \in IF i.byte THEN Byte ELSE Word
      /\ Destination(c, i) \in IF i.byte THEN Byte ELSE Word
  BY <1>1, <1>2 DEF Source, Destination
<1> QED BY <1>3, Signs

LEMMA BytesOfBits ==
  ASSUME NEW S \in SUBSET ByteBits
  PROVE  WordOf(S) \in Byte
<1>1. ByteSize <= WordSize /\ WordSize = 2 ^ WordBits /\ ByteBits \subseteq BitNumbers
  BY Sizes, SizeAssumption, ZeroIsWord DEF ByteBits, BitNumbers
<1>2. WordOf(S) \in Word /\ WordOf(S) < ByteSize
  BY <1>1, ConversionAssumption
<1> QED BY <1>2, Sizes DEF Word, Byte

LEMMA ValueSized ==
  ASSUME NEW op \in {"SZC", "SOC", "S", "A", "MOV"}, NEW byte \in BOOLEAN,
         NEW x \in 0 .. 2 * Sign(byte) - 1, NEW y \in 0 .. 2 * Sign(byte) - 1
  PROVE  Value(op, 2 * Sign(byte), x, y) \in 0 .. 2 * Sign(byte) - 1
<1> DEFINE size == 2 * Sign(byte)
           both == WordOf(BitsOf(y) \cup BitsOf(x))
           rest == WordOf(BitsOf(y) \ BitsOf(x))
<1>1. size \in Nat /\ size >= 1
  BY Signs
<1>2. \A n \in Int : n % size \in 0 .. size - 1
  <2> HIDE DEF size
  <2> QED BY <1>1
<1>3. x \in Int /\ y \in Int /\ y - x \in Int /\ y + x \in Int
  OBVIOUS
<1>4. both \in 0 .. size - 1 /\ rest \in 0 .. size - 1
  <2>1. CASE byte
    <3>1. x \in Byte /\ y \in Byte
      BY <2>1, Signs
    <3>2. BitsOf(x) \subseteq ByteBits /\ BitsOf(y) \subseteq ByteBits
      BY <3>1, ConversionAssumption DEF Byte
    <3>3. both \in Byte /\ rest \in Byte
      BY <3>2, BytesOfBits
    <3> QED BY <2>1, <3>3, Signs
  <2>2. CASE ~byte
    <3>1. both \in Word /\ rest \in Word
      BY SetBits, WordOfType
    <3> QED BY <2>2, <3>1, Signs
  <2> QED BY <2>1, <2>2
<1> HIDE DEF size
<1>5. Value(op, size, x, y) \in 0 .. size - 1
  <2>1. x \in 0 .. size - 1
    BY DEF size
  <2> QED BY <1>2, <1>3, <1>4, <2>1 DEF Value
<1> QED BY <1>5 DEF size

LEMMA ValueWritten ==
  ASSUME NEW c \in States, NEW a, a - (a % 2) \in Ram, NEW byte \in BOOLEAN,
         NEW v \in 0 .. 2 * Sign(byte) - 1
  PROVE  Writes(c, a, byte, v) \in States /\ Reads(Writes(c, a, byte, v), a, byte) = v
<1>1. v \in Int /\ v \in Word /\ (byte => v % ByteSize = v)
  BY Signs, Sizes, ZeroIsWord DEF Byte
<1>2. ReadB(WriteB(c, a, v), a) = v % ByteSize
  BY <1>1, ByteWritten
<1>3. ReadW(WriteW(c, a, v), a) = v
  BY <1>1, WordWritten
<1> QED BY <1>1, <1>2, <1>3, WritesType DEF Reads, Writes

LEMMA Dual2Shows ==
  ASSUME NEW c, NEW i, HasOrder(c, i), i.type = "dual2"
  PROVE  \E v : Shows(Dual2(c, i), DestinationAddress(c, i), i.byte, v)
<1> DEFINE x == Source(c, i)
           y == Destination(c, i)
           d == BothDecoded(c, i)
           a == DestinationAddress(c, i)
           v == Value(i.op, 2 * Sign(i.byte), x, y)
           carry == IF i.op \in {"A", "S"} THEN Carry(i.op, 2 * Sign(i.byte), x, y) ELSE {}
           parity == IF i.byte THEN Parity(v) ELSE {}
           of == Ordering \cup (IF i.op \in {"A", "S"} THEN {CY, OV} ELSE {})
                          \cup (IF i.byte THEN {OP} ELSE {})
           set == Compared(Sign(i.byte), v, 0) \cup carry \cup parity
<1>1. /\ i.op \in {"SZC", "SOC", "S", "A", "MOV"} /\ i.op # "C"
      /\ i.byte \in BOOLEAN /\ i.s \in Operand /\ i.d \in Operand /\ c \in States
  BY DEF HasOrder, HasResult, Instruction
<1>2. a - (a % 2) \in Ram
  <2>1. ResultAddress(c, i) = a
    BY DEF ResultAddress
  <2> HIDE DEF a
  <2> QED BY <2>1 DEF HasOrder, HasResult
<1>3. d \in States /\ x \in 0 .. 2 * Sign(i.byte) - 1 /\ y \in 0 .. 2 * Sign(i.byte) - 1
  BY <1>1, TwoOperands, OperandsSized
<1>4. Dual2(c, i) = Status(Writes(d, a, i.byte, v), of, set)
  BY <1>1 DEF Dual2, Sign
<1> HIDE DEF x, y, d, a
<1>5. v \in 0 .. 2 * Sign(i.byte) - 1
  BY <1>1, <1>3, ValueSized
<1>6. /\ carry \in SUBSET BitNumbers /\ carry \cap Ordering = {}
      /\ parity \in SUBSET BitNumbers /\ parity \cap Ordering = {}
  BY SetBits, OrderingBits DEF Carry
<1> HIDE DEF v, carry, parity
<1>7. /\ set \in SUBSET BitNumbers
      /\ set \cap Ordering = Compared(Sign(i.byte), v, 0)
  BY <1>6, SetBits, OrderingBits
<1>8. Writes(d, a, i.byte, v) \in States /\ Reads(Writes(d, a, i.byte, v), a, i.byte) = v
  BY <1>1, <1>2, <1>3, <1>5, ValueWritten
<1>9. Ordering \subseteq of
  OBVIOUS
<1> HIDE DEF of, set
<1>10. Shows(Dual2(c, i), a, i.byte, v)
  BY <1>1, <1>4, <1>5, <1>7, <1>8, <1>9, ShowsSet
<1> QED BY <1>10 DEF a

(* The instructions that compare two operands                              *)
LEMMA ComparisonShows ==
  ASSUME NEW c \in States, NEW i \in Instruction, Compares(i)
  PROVE  LET p == Sides(c, i, Effect(c, i))
             sign == Sign(ResultIsByte(c, i))
         IN /\ p[1] \in 0 .. 2 * sign - 1 /\ p[2] \in 0 .. 2 * sign - 1
            /\ Effect(c, i).st \cap Ordering = Compared(sign, p[1], p[2])
<1> DEFINE p == Sides(c, i, Effect(c, i))
           sign == Sign(ResultIsByte(c, i))
<1>1. CASE i.type = "immediate"
  <2> DEFINE x == Reg(c, i.reg)
  <2>1. i.op = "CI" /\ i.word \in Word
    BY <1>1 DEF Compares, Instruction
  <2>2. ResultIsByte(c, i) = FALSE
    BY <1>1, <2>1 DEF ResultIsByte
  <2>3. x \in Word /\ Advance(c) \in States
    BY RegType, AdvanceType
  <2>4. p = <<x, i.word>>
    BY <1>1 DEF Sides
  <2>5. Effect(c, i) = Status(Advance(c), Ordering, Compared(WordSign, x, i.word))
    BY <1>1, <2>1 DEF Effect, Immediate
  <2> HIDE DEF x, p
  <2>6. Effect(c, i).st \cap Ordering = Compared(WordSign, x, i.word)
    <3>1. Effect(c, i).st = (Advance(c).st \ Ordering) \cup Compared(WordSign, x, i.word)
      BY <2>3, <2>5, SetBits, FieldChanges, ZeroIsWord
    <3> QED BY <3>1, OrderingBits
  <2>7. sign = WordSign /\ 0 .. 2 * sign - 1 = Word
    BY <2>2, Signs DEF Sign
  <2>8. p[1] = x /\ p[2] = i.word
    BY <2>4
  <2>9. x \in 0 .. 2 * sign - 1 /\ i.word \in 0 .. 2 * sign - 1
    BY <2>1, <2>3, <2>7
  <2> HIDE DEF sign
  <2>10. /\ p[1] \in 0 .. 2 * sign - 1 /\ p[2] \in 0 .. 2 * sign - 1
         /\ Effect(c, i).st \cap Ordering = Compared(sign, p[1], p[2])
    BY <2>6, <2>7, <2>8, <2>9
  <2> QED BY <2>10 DEF p, sign
<1>2. CASE i.type = "dual2"
  <2> DEFINE x == Source(c, i)
             y == Destination(c, i)
             parity == IF i.byte THEN Parity(x) ELSE {}
             of == Ordering \cup {} \cup (IF i.byte THEN {OP} ELSE {})
             set == Compared(Sign(i.byte), x, y) \cup {} \cup parity
  <2>1. i.op = "C" /\ i.byte \in BOOLEAN /\ i.s \in Operand /\ i.d \in Operand
    BY <1>2 DEF Compares, Instruction
  <2>2. ResultIsByte(c, i) = i.byte
    BY <1>2, <2>1 DEF ResultIsByte
  <2>3. /\ x \in 0 .. 2 * Sign(i.byte) - 1 /\ y \in 0 .. 2 * Sign(i.byte) - 1
        /\ BothDecoded(c, i) \in States
    BY <2>1, OperandsSized, TwoOperands
  <2>4. p = <<x, y>>
    BY <1>2 DEF Sides
  <2>5. Effect(c, i) = Status(BothDecoded(c, i), of, set)
    BY <1>2, <2>1 DEF Effect, Dual2, Sign
  <2> HIDE DEF x, y, p
  <2>6. set \in SUBSET BitNumbers /\ set \cap Ordering = Compared(Sign(i.byte), x, y)
    BY SetBits, OrderingBits
  <2> HIDE DEF set
  <2>7. Effect(c, i).st = (BothDecoded(c, i).st \ of) \cup set
    BY <2>3, <2>5, <2>6, FieldChanges, ZeroIsWord
  <2>8. Effect(c, i).st \cap Ordering = Compared(Sign(i.byte), x, y)
    BY <2>6, <2>7
  <2> QED BY <2>2, <2>3, <2>4, <2>8 DEF p
<1> QED BY <1>1, <1>2 DEF Compares

(* The instructions that compare their result with 0                       *)
LEMMA ResultShows ==
  ASSUME NEW c \in States, NEW i \in Instruction, HasResult(c, i)
  PROVE  \E v : Shows(Effect(c, i), ResultAddress(c, i), ResultIsByte(c, i), v)
<1>1. HasOrder(c, i)
  BY DEF HasOrder
<1>2. i.type \in {"immediate", "single", "shift", "dual1", "dual2"}
  BY DEF HasResult
<1>3. CASE i.type = "immediate"
  <2>1. i.op \notin {"INCT", "DECT"}
    BY <1>3 DEF Instruction
  <2>2. ResultIsByte(c, i) = FALSE /\ ResultAddress(c, i) = Address(c, i.reg)
    BY <1>3, <2>1 DEF ResultIsByte, ResultAddress
  <2>3. Effect(c, i) = Immediate(c, i)
    BY <1>3 DEF Effect
  <2> QED BY <1>1, <1>3, <2>2, <2>3, ImmediateShows
<1>4. CASE i.type = "single"
  <2>1. ResultAddress(c, i) = OperandAddress(c, i.s) /\ Effect(c, i) = Single(c, i)
    BY <1>4 DEF ResultAddress, Effect
  <2> QED BY <1>1, <1>4, <2>1, SingleShows
<1>5. CASE i.type = "shift"
  <2>1. i.op \notin {"INCT", "DECT"}
    BY <1>5 DEF Instruction
  <2>2. ResultIsByte(c, i) = FALSE /\ ResultAddress(c, i) = Address(c, i.reg)
    BY <1>5, <2>1 DEF ResultIsByte, ResultAddress
  <2>3. Effect(c, i) = Shift(c, i)
    BY <1>5 DEF Effect
  <2> QED BY <1>1, <1>5, <2>2, <2>3, ShiftShows
<1>6. CASE i.type = "dual1"
  <2>1. i.op \notin {"INCT", "DECT"}
    BY <1>6 DEF Instruction
  <2>2. /\ ResultIsByte(c, i) = FALSE
        /\ ResultAddress(c, i) = Address(Decoded(c, i.s, FALSE), i.reg)
    BY <1>6, <2>1 DEF ResultIsByte, ResultAddress
  <2>3. Effect(c, i) = Dual1(c, i)
    BY <1>6 DEF Effect
  <2> QED BY <1>1, <1>6, <2>2, <2>3, XorShows
<1>7. CASE i.type = "dual2"
  <2>1. i.op \notin {"INCT", "DECT"} /\ i.byte \in BOOLEAN
    BY <1>7 DEF Instruction
  <2>2. ResultIsByte(c, i) = i.byte /\ ResultAddress(c, i) = DestinationAddress(c, i)
    BY <1>7, <2>1 DEF ResultIsByte, ResultAddress
  <2>3. Effect(c, i) = Dual2(c, i)
    BY <1>7 DEF Effect
  <2> QED BY <1>1, <1>7, <2>2, <2>3, Dual2Shows
<1> QED BY <1>2, <1>3, <1>4, <1>5, <1>6, <1>7

LEMMA EffectOrdered ==
  ASSUME NEW c \in States, NEW i \in Instruction, Compares(i) \/ HasResult(c, i)
  PROVE  LET p == Sides(c, i, Effect(c, i))
             sign == Sign(ResultIsByte(c, i))
         IN /\ p[1] \in 0 .. 2 * sign - 1 /\ p[2] \in 0 .. 2 * sign - 1
            /\ Effect(c, i).st \cap Ordering = Compared(sign, p[1], p[2])
<1>1. CASE Compares(i)
  BY <1>1, ComparisonShows
<1>2. CASE ~Compares(i)
  <2> DEFINE byte == ResultIsByte(c, i)
  <2>1. PICK v : Shows(Effect(c, i), ResultAddress(c, i), byte, v)
    BY <1>2, ResultShows
  <2>2. Sides(c, i, Effect(c, i)) = <<v, 0>>
    BY <1>2, <2>1 DEF Sides, Shows
  <2>3. byte \in BOOLEAN
    BY DEF ResultIsByte
  <2>4. v \in 0 .. 2 * Sign(byte) - 1 /\ Effect(c, i).st \cap Ordering = Compared(Sign(byte), v, 0)
    BY <2>1 DEF Shows
  <2> HIDE DEF byte
  <2>5. 0 \in 0 .. 2 * Sign(byte) - 1
    BY <2>3, Signs
  <2> QED BY <2>2, <2>4, <2>5 DEF byte
<1> QED BY <1>1, <1>2

(* The step of OrderDecidesJumps                                           *)
OrderDecides ==
  LET i == Inner(last'.instr)
      c == Before(cpu, last'.instr)
      sign == IF ResultIsByte(c, i) THEN ByteSign ELSE WordSign
  IN ~last'.interrupted /\ (Compares(i) \/ HasResult(c, i)) =>
       \A op \in Orderings :
         Taken(op, cpu'.st) <=>
           LET p == Sides(c, i, cpu') IN Relates(op, sign, p[1], p[2])

LEMMA StepsOrder ==
  ASSUME TypeOK, [Next]_vars
  PROVE  vars' # vars => OrderDecides
<1>1. ASSUME NEW k \in Program, Execute(k)
      PROVE  OrderDecides
  <2> DEFINE c == Before(cpu, k)
             i == Inner(k)
             e == Effect(c, i)
             sign == Sign(ResultIsByte(c, i))
             p == Sides(c, i, cpu')
  <2>1. /\ last'.instr = k
        /\ \/ last' = [instr |-> k, interrupted |-> FALSE] /\ cpu' = e
           \/ last' = [instr |-> k, interrupted |-> TRUE]
    BY <1>1, ExecuteSteps DEF TypeOK
  <2>2. c \in States /\ i \in Instruction
    BY ProgramTypes DEF TypeOK
  <2>3. CASE last' = [instr |-> k, interrupted |-> FALSE] /\ cpu' = e
    <3> SUFFICES ASSUME Compares(i) \/ HasResult(c, i), NEW op \in Orderings
                 PROVE  Taken(op, cpu'.st) <=> Relates(op, sign, p[1], p[2])
      BY <2>1 DEF OrderDecides, Sign
    <3> HIDE DEF c, i
    <3>1. /\ p[1] \in 0 .. 2 * sign - 1 /\ p[2] \in 0 .. 2 * sign - 1
          /\ cpu'.st \cap Ordering = Compared(sign, p[1], p[2])
      BY <2>2, <2>3, EffectOrdered
    <3>2. sign \in Nat /\ sign >= 1
      <4>1. ResultIsByte(c, i) \in BOOLEAN
        BY DEF ResultIsByte
      <4> QED BY <4>1, Signs
    <3> HIDE DEF sign, p
    <3>3. cpu'.st = (cpu'.st \ Ordering) \cup Compared(sign, p[1], p[2])
      BY <3>1
    <3> QED BY <3>1, <3>2, <3>3, JumpsFollowOrder, ZenonT(60)
  <2>4. CASE last' = [instr |-> k, interrupted |-> TRUE]
    BY <2>4 DEF OrderDecides
  <2> QED BY <2>1, <2>3, <2>4
<1>2. CASE Boot
  <2>1. Inner(last'.instr).type = "none"
    BY <1>2 DEF Boot, Inner, NoInstruction
  <2> QED BY <2>1 DEF OrderDecides, Compares, HasResult
<1> QED BY <1>1, <1>2, NextExecutes

(* For every word size, memory and program: what an instruction compares,  *)
(* or the result it is found to have stored, decides every conditional     *)
(* jump as the name of the jump says (cpu.cc 258-273, 662-691).            *)
THEOREM OrderIsFollowed == Spec => OrderDecidesJumps
<1>1. TypeOK /\ [Next]_vars => TypeOK' /\ [OrderDecides]_vars
  BY TypesKept, StepsOrder
<1>2. Init => TypeOK
  BY StartAssumption, BoundAssumption DEF Init, TypeOK
<1>3. Spec => [][OrderDecides]_vars
  BY <1>1, <1>2, PTL DEF Spec
<1> QED BY <1>3 DEF OrderDecidesJumps, OrderDecides

-----------------------------------------------------------------------------
(* Sums and differences                                                    *)

LEMMA Additions ==
  ASSUME NEW sign \in Nat, sign >= 1, NEW x \in 0 .. 2 * sign - 1, NEW y \in 0 .. 2 * sign - 1
  PROVE  LET r == (x + y) % (2 * sign)
         IN /\ r \in 0 .. 2 * sign - 1
            /\ r = x + y <=> ~(x + y >= 2 * sign)
            /\ Signed(sign, r) = Signed(sign, x) + Signed(sign, y)
                 <=> ((x >= sign <=> y >= sign) => (r >= sign <=> x >= sign))
<1> PICK size : size = 2 * sign
  OBVIOUS
<1> DEFINE r == (x + y) % size
<1>1. r \in 0 .. size - 1 /\ (r = x + y \/ r = x + y - size)
  OBVIOUS
<1> HIDE DEF r
<1>2. r = x + y <=> ~(x + y >= size)
  BY <1>1
<1>3. Signed(sign, r) = Signed(sign, x) + Signed(sign, y)
        <=> ((x >= sign <=> y >= sign) => (r >= sign <=> x >= sign))
  BY <1>1 DEF Signed
<1> QED BY <1>1, <1>2, <1>3 DEF r

LEMMA Subtractions ==
  ASSUME NEW sign \in Nat, sign >= 1, NEW x \in 0 .. 2 * sign - 1, NEW y \in 0 .. 2 * sign - 1
  PROVE  LET r == (x - y) % (2 * sign)
         IN /\ r \in 0 .. 2 * sign - 1
            /\ r = x - y <=> x >= y
            /\ Signed(sign, r) = Signed(sign, x) - Signed(sign, y)
                 <=> (~(x >= sign <=> y >= sign) => (r >= sign <=> x >= sign))
<1> PICK size : size = 2 * sign
  OBVIOUS
<1> DEFINE r == (x - y) % size
<1>1. r \in 0 .. size - 1 /\ (r = x - y \/ r = x - y + size)
  OBVIOUS
<1> HIDE DEF r
<1>2. r = x - y <=> x >= y
  BY <1>1
<1>3. Signed(sign, r) = Signed(sign, x) - Signed(sign, y)
        <=> (~(x >= sign <=> y >= sign) => (r >= sign <=> x >= sign))
  BY <1>1 DEF Signed
<1> QED BY <1>1, <1>2, <1>3 DEF r

(* In the state e the sum or difference of x and y is at a, and the carry  *)
(* and overflow bits say whether it fits.                                  *)
SumShown(e, a, byte, subtracts, x, y) ==
  LET r == Reads(e, a, byte)
      Sum(p, q) == IF subtracts THEN p - q ELSE p + q
  IN /\ CY \in e.st <=> (r = Sum(x, y)) = subtracts
     /\ OV \notin e.st <=>
          byte \/ Signed(WordSign, r) = Sum(Signed(WordSign, x), Signed(WordSign, y))

LEMMA CarriesShown ==
  ASSUME NEW c \in States, NEW of, {CY, OV} \subseteq of, NEW set \in SUBSET BitNumbers
  PROVE  /\ CY \in Status(c, of, set).st <=> CY \in set
         /\ OV \in Status(c, of, set).st <=> OV \in set
<1>1. Status(c, of, set).st = (c.st \ of) \cup set
  BY FieldChanges, ZeroIsWord
<1> QED BY <1>1

LEMMA CarriesDiffer == CY # OV /\ CY \in BitNumbers /\ OV \in BitNumbers
  BY Sizes, SizeAssumption DEF CY, OV, BitNumbers

LEMMA SumIsShown ==
  ASSUME NEW c \in States, NEW a, NEW byte \in BOOLEAN, NEW size, size = 2 * Sign(byte),
         NEW x \in 0 .. size - 1, NEW y \in 0 .. size - 1,
         NEW r, r = (x + y) % size, Reads(c, a, byte) = r,
         NEW of, {CY, OV} \subseteq of, NEW set \in SUBSET BitNumbers,
         CY \in set <=> x + y >= size,
         OV \in set <=> ~byte /\ (Negative(x) <=> Negative(y)) /\ ~(Negative(r) <=> Negative(x))
  PROVE  SumShown(Status(c, of, set), a, byte, FALSE, x, y)
<1> DEFINE e == Status(c, of, set)
<1>1. Reads(e, a, byte) = r /\ (CY \in e.st <=> CY \in set) /\ (OV \in e.st <=> OV \in set)
  BY StatusReads, CarriesShown
<1> HIDE DEF e
<1> PICK sign : sign = Sign(byte)
  OBVIOUS
<1>a. /\ sign \in Nat /\ sign >= 1 /\ x \in 0 .. 2 * sign - 1 /\ y \in 0 .. 2 * sign - 1
      /\ r = (x + y) % (2 * sign)
  BY Signs
<1>b. /\ r = x + y <=> ~(x + y >= 2 * sign)
      /\ Signed(sign, r) = Signed(sign, x) + Signed(sign, y)
           <=> ((x >= sign <=> y >= sign) => (r >= sign <=> x >= sign))
  BY ONLY <1>a, Additions
<1>2. r = x + y <=> ~(x + y >= size)
  BY <1>b
<1>3. ASSUME ~byte
      PROVE  Signed(WordSign, r) = Signed(WordSign, x) + Signed(WordSign, y)
               <=> ((Negative(x) <=> Negative(y)) => (Negative(r) <=> Negative(x)))
  <2>1. sign = WordSign
    BY <1>3 DEF Sign
  <2> QED BY <1>b, <2>1 DEF Negative
<1>4. CY \in e.st <=> (r = x + y) = FALSE
  BY <1>1, <1>2
<1>5. OV \notin e.st <=>
         byte \/ Signed(WordSign, r) = Signed(WordSign, x) + Signed(WordSign, y)
  BY <1>1, <1>3
<1>6. SumShown(e, a, byte, FALSE, x, y)
  BY <1>1, <1>4, <1>5 DEF SumShown
<1> QED BY <1>6 DEF e

LEMMA DifferenceIsShown ==
  ASSUME NEW c \in States, NEW a, NEW byte \in BOOLEAN, NEW size, size = 2 * Sign(byte),
         NEW x \in 0 .. size - 1, NEW y \in 0 .. size - 1,
         NEW r, r = (x - y) % size, Reads(c, a, byte) = r,
         NEW of, {CY, OV} \subseteq of, NEW set \in SUBSET BitNumbers,
         CY \in set <=> x >= y,
         OV \in set <=> ~byte /\ ~(Negative(x) <=> Negative(y)) /\ ~(Negative(r) <=> Negative(x))
  PROVE  SumShown(Status(c, of, set), a, byte, TRUE, x, y)
<1> DEFINE e == Status(c, of, set)
<1>1. Reads(e, a, byte) = r /\ (CY \in e.st <=> CY \in set) /\ (OV \in e.st <=> OV \in set)
  BY StatusReads, CarriesShown
<1> HIDE DEF e
<1> PICK sign : sign = Sign(byte)
  OBVIOUS
<1>a. /\ sign \in Nat /\ sign >= 1 /\ x \in 0 .. 2 * sign - 1 /\ y \in 0 .. 2 * sign - 1
      /\ r = (x - y) % (2 * sign)
  BY Signs
<1>b. /\ r = x - y <=> x >= y
      /\ Signed(sign, r) = Signed(sign, x) - Signed(sign, y)
           <=> (~(x >= sign <=> y >= sign) => (r >= sign <=> x >= sign))
  BY ONLY <1>a, Subtractions
<1>2. r = x - y <=> x >= y
  BY <1>b
<1>3. ASSUME ~byte
      PROVE  Signed(WordSign, r) = Signed(WordSign, x) - Signed(WordSign, y)
               <=> (~(Negative(x) <=> Negative(y)) => (Negative(r) <=> Negative(x)))
  <2>1. sign = WordSign
    BY <1>3 DEF Sign
  <2> QED BY <1>b, <2>1 DEF Negative
<1>4. CY \in e.st <=> (r = x - y) = TRUE
  BY <1>1, <1>2
<1>5. OV \notin e.st <=>
         byte \/ Signed(WordSign, r) = Signed(WordSign, x) - Signed(WordSign, y)
  BY <1>1, <1>3
<1>6. SumShown(e, a, byte, TRUE, x, y)
  BY <1>1, <1>4, <1>5 DEF SumShown
<1> QED BY <1>6 DEF e

LEMMA StoredReads ==
  ASSUME NEW c \in States, NEW a, a - (a % 2) \in Ram, NEW w \in Word
  PROVE  Store(c, a, w) \in States /\ Reads(Store(c, a, w), a, FALSE) = w
BY ShowsWord DEF Shows

LEMMA ImmediateSums ==
  ASSUME NEW c, NEW i, HasOrder(c, i), i.type = "immediate", i.op = "AI"
  PROVE  SumShown(Immediate(c, i), Address(c, i.reg), FALSE, FALSE, Reg(c, i.reg), i.word)
<1> DEFINE a == Address(c, i.reg)
           d == Advance(c)
<1> PICK x, y, r : x = Reg(c, i.reg) /\ y = i.word /\ r = (x + y) % WordSize
  OBVIOUS
<1>1. y \in Word /\ a - (a % 2) \in Ram
  BY DEF HasOrder, HasResult, ResultAddress, Instruction
<1>2. d \in States /\ x \in Word
  BY AdvanceType, RegType DEF HasOrder
<1>3. r \in Word
  BY <1>1, <1>2, ZeroIsWord, SumType
<1> DEFINE overflow == Negative(x) = Negative(y) /\ Negative(r) # Negative(x)
           carry == x + y >= WordSize
           set == Carries(carry, overflow)
           e == Store(d, a, r)
<1>4. Immediate(c, i) = Status(e, {CY, OV}, set)
  BY DEF Immediate
<1> HIDE DEF a, d
<1>5. e \in States /\ Reads(e, a, FALSE) = r
  BY <1>1, <1>2, <1>3, StoredReads
<1> HIDE DEF e
<1>6. (CY \in set <=> carry) /\ (OV \in set <=> overflow) /\ set \in SUBSET BitNumbers
  BY CarriesDiffer DEF Carries
<1> HIDE DEF set
<1>7. WordSize = 2 * Sign(FALSE) /\ x \in 0 .. WordSize - 1 /\ y \in 0 .. WordSize - 1
  BY <1>1, <1>2, Signs DEF Word
<1>8. OV \in set <=> ~FALSE /\ (Negative(x) <=> Negative(y)) /\ ~(Negative(r) <=> Negative(x))
  BY <1>6 DEF Negative
<1>9. SumShown(Status(e, {CY, OV}, set), a, FALSE, FALSE, x, y)
  BY <1>5, <1>6, <1>7, <1>8, SumIsShown
<1> QED BY <1>4, <1>9 DEF a

(* A word of memory plus or minus a constant                               *)
LEMMA CountsUp ==
  ASSUME NEW d \in States, NEW a, a - (a % 2) \in Ram, NEW w \in Word, NEW k \in 1 .. 2
  PROVE  SumShown(Status(Store(d, a, (w + k) % WordSize), {CY, OV},
                         Carries(w >= WordSize - k, ~Negative(w) /\ Negative((w + k) % WordSize))),
                  a, FALSE, FALSE, w, k)
<1> PICK r : r = (w + k) % WordSize
  OBVIOUS
<1>1. WordSize = 2 * WordSign /\ WordSign \in Nat /\ WordSign > 2 /\ Word = 0 .. WordSize - 1
  BY Sizes DEF Word
<1>2. r \in Word /\ k \in Word /\ ~Negative(k)
  BY <1>1 DEF Negative
<1> DEFINE carry == w >= WordSize - k
           overflow == ~Negative(w) /\ Negative(r)
           set == Carries(carry, overflow)
           e == Store(d, a, r)
<1>3. e \in States /\ Reads(e, a, FALSE) = r
  BY <1>2, StoredReads
<1> HIDE DEF e
<1>4. (CY \in set <=> carry) /\ (OV \in set <=> overflow) /\ set \in SUBSET BitNumbers
  BY CarriesDiffer DEF Carries
<1> HIDE DEF set
<1>5. WordSize = 2 * Sign(FALSE)
  BY Signs
<1>6. CY \in set <=> w + k >= WordSize
  <2>1. carry <=> w + k >= WordSize
    BY <1>1
  <2> HIDE DEF carry
  <2> QED BY <1>4, <2>1
<1>7. OV \in set <=> ~FALSE /\ (Negative(w) <=> Negative(k)) /\ ~(Negative(r) <=> Negative(w))
  BY <1>2, <1>4
<1>8. w \in 0 .. WordSize - 1 /\ k \in 0 .. WordSize - 1
  BY <1>1, <1>2
<1>9. SumShown(Status(e, {CY, OV}, set), a, FALSE, FALSE, w, k)
  BY <1>3, <1>4, <1>5, <1>6, <1>7, <1>8, SumIsShown
<1> QED BY <1>9 DEF e, set

LEMMA CountsDown ==
  ASSUME NEW d \in States, NEW a, a - (a % 2) \in Ram, NEW w \in Word, NEW k \in 1 .. 2
  PROVE  SumShown(Status(Store(d, a, (w - k) % WordSize), {CY, OV},
                         Carries(w >= k, Negative(w) /\ ~Negative((w - k) % WordSize))),
                  a, FALSE, TRUE, w, k)
<1> PICK r : r = (w - k) % WordSize
  OBVIOUS
<1>1. WordSize = 2 * WordSign /\ WordSign \in Nat /\ WordSign > 2 /\ Word = 0 .. WordSize - 1
  BY Sizes DEF Word
<1>2. r \in Word /\ k \in Word /\ ~Negative(k)
  BY <1>1 DEF Negative
<1> DEFINE carry == w >= k
           overflow == Negative(w) /\ ~Negative(r)
           set == Carries(carry, overflow)
           e == Store(d, a, r)
<1>3. e \in States /\ Reads(e, a, FALSE) = r
  BY <1>2, StoredReads
<1> HIDE DEF e
<1>4. (CY \in set <=> carry) /\ (OV \in set <=> overflow) /\ set \in SUBSET BitNumbers
  BY CarriesDiffer DEF Carries
<1> HIDE DEF set
<1>5. WordSize = 2 * Sign(FALSE)
  BY Signs
<1>6. OV \in set <=> ~FALSE /\ ~(Negative(w) <=> Negative(k)) /\ ~(Negative(r) <=> Negative(w))
  BY <1>2, <1>4
<1>7. w \in 0 .. WordSize - 1 /\ k \in 0 .. WordSize - 1
  BY <1>1, <1>2
<1>8. SumShown(Status(e, {CY, OV}, set), a, FALSE, TRUE, w, k)
  BY <1>3, <1>4, <1>5, <1>6, <1>7, DifferenceIsShown
<1> QED BY <1>8 DEF e, set

(* An instruction that adds or subtracts, and stores where it can be read  *)
HasSum(c, i) ==
  /\ HasOrder(c, i)
  /\ i.op \in {"A", "S", "AI", "INC", "INCT", "DEC", "DECT"}
  /\ ResultIsByte(c, i) => i.type = "dual2"

Subtracts(i) == i.op \in {"S", "DEC", "DECT"}

LEMMA SingleSums ==
  ASSUME NEW c, NEW i, HasSum(c, i), i.type = "single"
  PROVE  SumShown(Single(c, i), OperandAddress(c, i.s), FALSE, Subtracts(i),
                  Addends(c, i)[1], Addends(c, i)[2])
<1> DEFINE a == OperandAddress(c, i.s)
           d == Decoded(c, i.s, FALSE)
           w == ReadW(d, a)
<1>1. /\ i.op \in {"INC", "INCT", "DEC", "DECT"}
      /\ i.s \in Operand /\ c \in States
      /\ a - (a % 2) \in Ram
  BY DEF HasSum, HasOrder, HasResult, ResultAddress, Instruction
<1>2. a \in Word /\ d \in States /\ w \in Word
  BY <1>1, OperandAddressType, DecodedType, ReadWType
<1>3. a % 2 = 0 \/ a % 2 = 1
  <2> HIDE DEF a
  <2> QED BY <1>2, Sizes DEF Word
<1>4. ~ResultIsByte(c, i)
  BY <1>1 DEF HasSum
<1>5. i.op \in {"INCT", "DECT"} => a % 2 = 0
  <2>1. ResultAddress(c, i) = a
    BY DEF ResultAddress
  <2> HIDE DEF a
  <2> QED BY <1>3, <1>4, <2>1 DEF ResultIsByte
<1>6. 1 \in 1 .. 2 /\ 2 \in 1 .. 2
  OBVIOUS
<1>7. CASE i.op = "INC"
  <2>1. /\ Addends(c, i) = <<w, 1>>
        /\ Single(c, i) = Status(Store(d, a, (w + 1) % WordSize), {CY, OV},
                            Carries(w >= WordSize - 1, ~Negative(w) /\ Negative((w + 1) % WordSize)))
    BY <1>7 DEF Addends, Single
  <2> HIDE DEF a, d, w
  <2>2. SumShown(Single(c, i), a, FALSE, FALSE, w, 1)
    BY <1>1, <1>2, <1>6, <2>1, CountsUp
  <2>3. Addends(c, i)[1] = w /\ Addends(c, i)[2] = 1
    BY <2>1
  <2>4. Subtracts(i) = FALSE
    BY <1>7 DEF Subtracts
  <2> QED BY <2>2, <2>3, <2>4 DEF a
<1>8. CASE i.op = "INCT"
  <2>1. /\ Addends(c, i) = <<w, 2>>
        /\ Single(c, i) = Status(StoreAt(d, a, (w + 2) % WordSize), {CY, OV},
                            Carries(w >= WordSize - 2, ~Negative(w) /\ Negative((w + 2) % WordSize)))
    BY <1>8 DEF Addends, Single
  <2> HIDE DEF a, d, w
  <2>a. StoreAt(d, a, (w + 2) % WordSize) = Store(d, a, (w + 2) % WordSize)
    BY <1>5, <1>8 DEF StoreAt
  <2>2. SumShown(Single(c, i), a, FALSE, FALSE, w, 2)
    BY <1>1, <1>2, <1>6, <2>1, <2>a, CountsUp
  <2>3. Addends(c, i)[1] = w /\ Addends(c, i)[2] = 2
    BY <2>1
  <2>4. Subtracts(i) = FALSE
    BY <1>8 DEF Subtracts
  <2> QED BY <2>2, <2>3, <2>4 DEF a
<1>9. CASE i.op = "DEC"
  <2>1. /\ Addends(c, i) = <<w, 1>>
        /\ Single(c, i) = Status(Store(d, a, (w - 1) % WordSize), {CY, OV},
                            Carries(w >= 1, Negative(w) /\ ~Negative((w - 1) % WordSize)))
    BY <1>9 DEF Addends, Single
  <2> HIDE DEF a, d, w
  <2>2. SumShown(Single(c, i), a, FALSE, TRUE, w, 1)
    BY <1>1, <1>2, <1>6, <2>1, CountsDown
  <2>3. Addends(c, i)[1] = w /\ Addends(c, i)[2] = 1
    BY <2>1
  <2>4. Subtracts(i) = TRUE
    BY <1>9 DEF Subtracts
  <2> QED BY <2>2, <2>3, <2>4 DEF a
<1>10. CASE i.op = "DECT"
  <2>1. /\ Addends(c, i) = <<w, 2>>
        /\ Single(c, i) = Status(StoreAt(d, a, (w - 2) % WordSize), {CY, OV},
                            Carries(w >= 2, Negative(w) /\ ~Negative((w - 2) % WordSize)))
    BY <1>10 DEF Addends, Single
  <2> HIDE DEF a, d, w
  <2>a. StoreAt(d, a, (w - 2) % WordSize) = Store(d, a, (w - 2) % WordSize)
    BY <1>5, <1>10 DEF StoreAt
  <2>2. SumShown(Single(c, i), a, FALSE, TRUE, w, 2)
    BY <1>1, <1>2, <1>6, <2>1, <2>a, CountsDown
  <2>3. Addends(c, i)[1] = w /\ Addends(c, i)[2] = 2
    BY <2>1
  <2>4. Subtracts(i) = TRUE
    BY <1>10 DEF Subtracts
  <2> QED BY <2>2, <2>3, <2>4 DEF a
<1> QED BY <1>1, <1>7, <1>8, <1>9, <1>10

(* The overflow of bytes tests a bit they do not have. *)
LEMMA BytesNotNegative ==
  ASSUME NEW x \in Byte, NEW y \in Byte
  PROVE  ~Negative(x) /\ ~Negative(y) /\ ~Negative((y + x) % WordSize)
<1>1. WordSign = ByteSize * ByteSign /\ WordSize = 2 * WordSign /\ ByteSize \in Nat /\ ByteSign \in Nat
      /\ ByteSign >= 4 /\ ByteSize >= 8
  BY Sizes, SizeAssumption DEF WordSign, ByteSize
<1>2. WordSign >= 4 * ByteSize
  <2>1. ByteSize * ByteSign >= ByteSize * 4
    BY <1>1
  <2> QED BY <1>1, <2>1
<1>3. WordSign \in Nat /\ x \in Nat /\ y \in Nat /\ x < ByteSize /\ y < ByteSize
  BY <1>1, Sizes DEF Byte
<1>4. y + x < WordSign /\ y + x \in Nat /\ y + x < WordSize
  BY <1>1, <1>2, <1>3
<1>5. (y + x) % WordSize = y + x
  BY <1>1, <1>3, <1>4
<1> QED BY <1>1, <1>2, <1>3, <1>4, <1>5 DEF Negative

LEMMA Dual2Sums ==
  ASSUME NEW c, NEW i, HasSum(c, i), i.type = "dual2"
  PROVE  SumShown(Dual2(c, i), DestinationAddress(c, i), i.byte, Subtracts(i),
                  Addends(c, i)[1], Addends(c, i)[2])
<1> DEFINE x == Source(c, i)
           y == Destination(c, i)
           d == BothDecoded(c, i)
           a == DestinationAddress(c, i)
           size == 2 * Sign(i.byte)
           v == Value(i.op, size, x, y)
           carry == Carry(i.op, size, x, y)
           parity == IF i.byte THEN Parity(v) ELSE {}
           of == Ordering \cup {CY, OV} \cup (IF i.byte THEN {OP} ELSE {})
           set == Compared(Sign(i.byte), v, 0) \cup carry \cup parity
           e == Writes(d, a, i.byte, v)
<1>1. /\ i.op \in {"S", "A"} /\ i.op # "C"
      /\ i.byte \in BOOLEAN /\ i.s \in Operand /\ i.d \in Operand /\ c \in States
  BY DEF HasSum, HasOrder, Instruction
<1>2. a - (a % 2) \in Ram
  <2>1. ResultAddress(c, i) = a
    BY DEF ResultAddress
  <2> HIDE DEF a
  <2> QED BY <2>1 DEF HasSum, HasOrder, HasResult
<1>3. d \in States /\ x \in 0 .. size - 1 /\ y \in 0 .. size - 1
  BY <1>1, TwoOperands, OperandsSized
<1>4. Dual2(c, i) = Status(e, of, set)
  BY <1>1 DEF Dual2, Sign
<1>5. Addends(c, i)[1] = y /\ Addends(c, i)[2] = x
  BY <1>1 DEF Addends
<1> HIDE DEF x, y, d, a
<1>6. v \in 0 .. size - 1
  BY <1>1, <1>3, ValueSized
<1>7. set \in SUBSET BitNumbers /\ {CY, OV} \subseteq of
  <2>1. carry \in SUBSET BitNumbers /\ parity \in SUBSET BitNumbers
    BY SetBits DEF Carry
  <2> QED BY <2>1, SetBits
<1>8. (CY \in set <=> CY \in carry) /\ (OV \in set <=> OV \in carry)
  <2>1. /\ CY \notin Ordering /\ OV \notin Ordering
        /\ Compared(Sign(i.byte), v, 0) \subseteq Ordering
    BY OrderingBits
  <2>2. CY \notin parity /\ OV \notin parity
    BY Sizes DEF Parity, CY, OV, OP
  <2> HIDE DEF carry, parity
  <2> QED BY <2>1, <2>2
<1>9. e \in States /\ Reads(e, a, i.byte) = v
  BY <1>1, <1>2, <1>3, <1>6, ValueWritten
<1>10. i.byte => ~Negative(x) /\ ~Negative(y) /\ ~Negative((y + x) % WordSize)
  <2>1. i.byte => x \in Byte /\ y \in Byte
    BY <1>1, <1>3, Signs
  <2> QED BY <2>1, BytesNotNegative
<1>11. ~i.byte => size = WordSize
  BY <1>1, Signs
<1> HIDE DEF set, of, e
<1>12. CASE i.op = "A"
  <2>1. v = (y + x) % size
    BY <1>12 DEF Value
  <2>2. carry = Carries(y + x >= size,
               Negative(x) = Negative(y) /\ Negative((y + x) % WordSize) # Negative(y))
    BY <1>12 DEF Carry
  <2>3. Subtracts(i) = FALSE
    BY <1>12 DEF Subtracts
  <2> HIDE DEF v, carry, size
  <2>4. CY \in set <=> y + x >= size
    BY <1>8, <2>2, CarriesDiffer DEF Carries
  <2>5. OV \in set <=>
          Negative(x) = Negative(y) /\ Negative((y + x) % WordSize) # Negative(y)
    BY <1>8, <2>2, CarriesDiffer DEF Carries
  <2>6. OV \in set <=> ~i.byte /\ (Negative(y) <=> Negative(x)) /\ ~(Negative(v) <=> Negative(y))
    <3>1. CASE i.byte
      BY <1>10, <2>5, <3>1 DEF Negative
    <3>2. CASE ~i.byte
      <4>1. v = (y + x) % WordSize
        BY <1>11, <2>1, <3>2
      <4> QED BY <2>5, <3>2, <4>1 DEF Negative
    <3> QED BY <3>1, <3>2
  <2>7. SumShown(Status(e, of, set), a, i.byte, FALSE, y, x)
    <3>1. size = 2 * Sign(i.byte)
      BY DEF size
    <3> QED BY <1>1, <1>3, <1>7, <1>9, <2>1, <2>4, <2>6, <3>1, SumIsShown
  <2> QED BY <1>4, <1>5, <2>3, <2>7 DEF a
<1>13. CASE i.op = "S"
  <2>1. v = (y - x) % size
    BY <1>13 DEF Value
  <2>2. carry = Carries(y >= x,
               Negative(x) # Negative(y) /\ Negative((y - x) % WordSize) # Negative(y))
    BY <1>13 DEF Carry
  <2>3. Subtracts(i) = TRUE
    BY <1>13 DEF Subtracts
  <2> HIDE DEF v, carry, size
  <2>4. CY \in set <=> y >= x
    BY <1>8, <2>2, CarriesDiffer DEF Carries
  <2>5. OV \in set <=>
          Negative(x) # Negative(y) /\ Negative((y - x) % WordSize) # Negative(y)
    BY <1>8, <2>2, CarriesDiffer DEF Carries
  <2>6. OV \in set <=> ~i.byte /\ ~(Negative(y) <=> Negative(x)) /\ ~(Negative(v) <=> Negative(y))
    <3>1. CASE i.byte
      BY <1>10, <2>5, <3>1 DEF Negative
    <3>2. CASE ~i.byte
      <4>1. v = (y - x) % WordSize
        BY <1>11, <2>1, <3>2
      <4> QED BY <2>5, <3>2, <4>1 DEF Negative
    <3> QED BY <3>1, <3>2
  <2>7. SumShown(Status(e, of, set), a, i.byte, TRUE, y, x)
    <3>1. size = 2 * Sign(i.byte)
      BY DEF size
    <3> QED BY <1>1, <1>3, <1>7, <1>9, <2>1, <2>4, <2>6, <3>1, DifferenceIsShown
  <2> QED BY <1>4, <1>5, <2>3, <2>7 DEF a
<1> QED BY <1>1, <1>12, <1>13

LEMMA EffectSums ==
  ASSUME NEW c, NEW i, HasSum(c, i)
  PROVE  SumShown(Effect(c, i), ResultAddress(c, i), ResultIsByte(c, i), Subtracts(i),
                  Addends(c, i)[1], Addends(c, i)[2])
<1>1. i \in Instruction /\ i.type \in {"immediate", "single", "shift", "dual1", "dual2"}
  BY DEF HasSum, HasOrder, HasResult
<1>2. CASE i.type = "immediate"
  <2>1. i.op = "AI"
    BY <1>1, <1>2 DEF HasSum, Instruction
  <2>2. ResultIsByte(c, i) = FALSE
    BY <1>2, <2>1 DEF ResultIsByte
  <2>3. ResultAddress(c, i) = Address(c, i.reg) /\ Effect(c, i) = Immediate(c, i)
    BY <1>2 DEF ResultAddress, Effect
  <2>4. Subtracts(i) = FALSE
    BY <2>1 DEF Subtracts
  <2>5. Addends(c, i)[1] = Reg(c, i.reg) /\ Addends(c, i)[2] = i.word
    BY <2>1 DEF Addends
  <2>6. SumShown(Immediate(c, i), Address(c, i.reg), FALSE, FALSE, Reg(c, i.reg), i.word)
    BY <1>2, <2>1, ImmediateSums DEF HasSum
  <2> QED BY <2>2, <2>3, <2>4, <2>5, <2>6
<1>3. CASE i.type = "single"
  <2>1. ResultIsByte(c, i) = FALSE
    BY <1>3 DEF HasSum, ResultIsByte
  <2>2. ResultAddress(c, i) = OperandAddress(c, i.s) /\ Effect(c, i) = Single(c, i)
    BY <1>3 DEF ResultAddress, Effect
  <2> QED BY <1>3, <2>1, <2>2, SingleSums
<1>4. CASE i.type = "dual2"
  <2>1. i.op \notin {"INCT", "DECT"} /\ i.byte \in BOOLEAN
    BY <1>1, <1>4 DEF Instruction
  <2>2. ResultIsByte(c, i) = i.byte
    BY <1>4, <2>1 DEF ResultIsByte
  <2>3. ResultAddress(c, i) = DestinationAddress(c, i) /\ Effect(c, i) = Dual2(c, i)
    BY <1>4 DEF ResultAddress, Effect
  <2> QED BY <1>4, <2>2, <2>3, Dual2Sums
<1>5. i.type \notin {"shift", "dual1"}
  BY <1>1 DEF HasSum, Instruction
<1> QED BY <1>1, <1>2, <1>3, <1>4, <1>5

(* The step of SumsAreExact                                                *)
SumsHold ==
  LET i == Inner(last'.instr)
      c == Before(cpu, last'.instr)
      subtracts == i.op \in {"S", "DEC", "DECT"}
      byte == ResultIsByte(c, i)
      r == Reads(cpu', ResultAddress(c, i), byte)
      x == Addends(c, i)[1]
      y == Addends(c, i)[2]
      Sum(a, b) == IF subtracts THEN a - b ELSE a + b
  IN /\ ~last'.interrupted
     /\ HasResult(c, i)
     /\ i.op \in {"A", "S", "AI", "INC", "INCT", "DEC", "DECT"}
     /\ byte => i.type = "dual2"
     => /\ CY \in cpu'.st <=> (r = Sum(x, y)) = subtracts
        /\ OV \notin cpu'.st <=>
             byte \/ Signed(WordSign, r) = Sum(Signed(WordSign, x), Signed(WordSign, y))

LEMMA StepsSum ==
  ASSUME TypeOK, [Next]_vars
  PROVE  vars' # vars => SumsHold
<1>1. ASSUME NEW k \in Program, Execute(k)
      PROVE  SumsHold
  <2> DEFINE c == Before(cpu, k)
             i == Inner(k)
  <2>1. /\ last'.instr = k
        /\ \/ last' = [instr |-> k, interrupted |-> FALSE] /\ cpu' = Effect(c, i)
           \/ last' = [instr |-> k, interrupted |-> TRUE]
    BY <1>1, ExecuteSteps DEF TypeOK
  <2>2. c \in States /\ i \in Instruction
    BY ProgramTypes DEF TypeOK
  <2>3. CASE last' = [instr |-> k, interrupted |-> FALSE] /\ cpu' = Effect(c, i)
    <3>1. HasSum(c, i) =>
            SumShown(cpu', ResultAddress(c, i), ResultIsByte(c, i), Subtracts(i),
                     Addends(c, i)[1], Addends(c, i)[2])
      BY <2>3, EffectSums
    <3>2. SUFFICES ASSUME HasSum(c, i) => SumShown(cpu', ResultAddress(c, i), ResultIsByte(c, i),
                            Subtracts(i), Addends(c, i)[1], Addends(c, i)[2])
                   PROVE  SumsHold
      BY <3>1
    <3> QED BY <2>1, <2>2, <3>2 DEF SumsHold, HasSum, HasOrder, SumShown, Subtracts
  <2>4. CASE last' = [instr |-> k, interrupted |-> TRUE]
    BY <2>4 DEF SumsHold
  <2> QED BY <2>1, <2>3, <2>4
<1>2. CASE Boot
  <2>1. Inner(last'.instr).type = "none"
    BY <1>2 DEF Boot, Inner, NoInstruction
  <2> QED BY <2>1 DEF SumsHold, HasResult
<1> QED BY <1>1, <1>2, NextExecutes

(* For every word size, memory and program: carry and overflow say of each *)
(* addition and subtraction whether the result that is found to be stored  *)
(* is the exact sum or difference, without and with the sign; of bytes the *)
(* carry alone does (cpu.cc 354-364, 472-524, 815-914).                    *)
THEOREM SumsAreKept == Spec => SumsAreExact
<1>1. TypeOK /\ [Next]_vars => TypeOK' /\ [SumsHold]_vars
  BY TypesKept, StepsSum
<1>2. Init => TypeOK
  BY StartAssumption, BoundAssumption DEF Init, TypeOK
<1>3. Spec => [][SumsHold]_vars
  BY <1>1, <1>2, PTL DEF Spec
<1> QED BY <1>3 DEF SumsAreExact, SumsHold

-----------------------------------------------------------------------------
(* Products and quotients                                                  *)

LEMMA Quotients ==
  ASSUME NEW n \in Nat, NEW b \in Nat, b >= 1
  PROVE  /\ n \div b \in Nat /\ n % b \in Nat /\ n % b < b
         /\ n = b * (n \div b) + (n % b)
  OBVIOUS

LEMMA OneQuotient ==
  ASSUME NEW b \in Nat, b >= 1, NEW k \in Nat, NEW l \in Nat, NEW r \in Nat, NEW s \in Nat,
         r < b, s < b, b * k + r = b * l + s
  PROVE  k = l /\ r = s
<1>1. b * (k - l) = s - r
  OBVIOUS
<1>2. k = l
  <2>1. CASE k - l >= 1
    <3>1. b * (k - l) >= b
      BY <2>1
    <3> QED BY <1>1, <3>1
  <2>2. CASE k - l <= -1
    <3>1. b * (k - l) <= -b
      BY <2>2
    <3> QED BY <1>1, <3>1
  <2> QED BY <2>1, <2>2
<1>3. r = s
  BY <1>1, <1>2
<1> QED BY <1>2, <1>3

LEMMA ProductIsExact ==
  ASSUME NEW x \in Word, NEW y \in Word
  PROVE  LET p == Product(x, y) IN
           /\ p[1] \in Nat /\ p[2] \in Nat /\ p[2] < WordSize
           /\ WordSize * p[1] + p[2] = x * y
<1> PICK B, W : B = ByteSize /\ W = WordSize
  OBVIOUS
<1> DEFINE l == x % B
           h == x \div B
           low == l * y
           q == low \div B
           s == low % B
           high == h * y + q
           k == high \div B
           t == high % B
<1>1. B \in Nat /\ B >= 1 /\ W \in Nat /\ W = B * B /\ x \in Nat /\ y \in Nat
  BY Sizes DEF Word
<1>2. Product(x, y) = <<k, t * B + s>>
  BY DEF Product
<1>3. h \in Nat /\ l \in Nat /\ x = B * h + l
  BY <1>1, Quotients
<1> HIDE DEF h, l
<1>4. low \in Nat /\ h * y \in Nat
  BY <1>1, <1>3
<1>5. q \in Nat /\ s \in Nat /\ s < B /\ low = B * q + s
  <2> HIDE DEF low
  <2> QED BY <1>1, <1>4, Quotients
<1> HIDE DEF q, s
<1>6. high \in Nat
  BY <1>4, <1>5
<1>7. k \in Nat /\ t \in Nat /\ t < B /\ high = B * k + t
  <2> HIDE DEF high
  <2> QED BY <1>1, <1>6, Quotients
<1> HIDE DEF k, t
<1>8. x * y = B * (h * y) + low
  BY <1>1, <1>3
<1>9. B * high = B * (h * y) + B * q
  BY <1>1, <1>4, <1>5
<1>10. B * high = W * k + t * B
  <2>1. B * (B * k + t) = W * k + t * B
    BY <1>1, <1>7
  <2> QED BY <1>7, <2>1
<1>11. t * B + s \in Nat /\ t * B + s < W
  <2>1. t * B <= (B - 1) * B /\ t * B \in Nat /\ (B - 1) * B = W - B
    BY <1>1, <1>7, ProductBound
  <2> QED BY <1>1, <1>5, <2>1
<1>12. W * k + (t * B + s) = x * y
  <2>1. low \in Int /\ B * high \in Int /\ W * k \in Int /\ t * B \in Int /\ B * q \in Int
        /\ B * (h * y) \in Int
    BY <1>1, <1>4, <1>5, <1>6, <1>7
  <2> HIDE DEF low, high
  <2> QED BY <1>5, <1>8, <1>9, <1>10, <2>1
<1> QED BY <1>2, <1>7, <1>11, <1>12

LEMMA DivisionIsExact ==
  ASSUME NEW x \in Word, NEW y \in Word, NEW z \in Word, y < x
  PROVE  LET p == Division(x, y, z) IN
           /\ p[1] \in Nat /\ p[2] \in Nat /\ p[2] < x
           /\ x * p[1] + p[2] = WordSize * y + z
<1> PICK B, W : B = ByteSize /\ W = WordSize
  OBVIOUS
<1> DEFINE zh == z \div B
           zl == z % B
           high == y * B + zh
           k == high \div x
           t == high % x
           low == t * B + zl
           q == low \div x
           s == low % x
<1>1. B \in Nat /\ B >= 1 /\ W \in Nat /\ W = B * B /\ x \in Nat /\ x >= 1 /\ y \in Nat /\ z \in Nat
  BY Sizes DEF Word
<1>2. Division(x, y, z) = <<k * B + q, s>>
  BY DEF Division
<1>3. zh \in Nat /\ zl \in Nat /\ z = B * zh + zl
  BY <1>1, Quotients
<1> HIDE DEF zh, zl
<1>4. high \in Nat
  BY <1>1, <1>3
<1>5. k \in Nat /\ t \in Nat /\ high = x * k + t
  <2> HIDE DEF high
  <2> QED BY <1>1, <1>4, Quotients
<1> HIDE DEF k, t
<1>6. low \in Nat
  BY <1>1, <1>3, <1>5
<1>7. q \in Nat /\ s \in Nat /\ s < x /\ low = x * q + s
  <2> HIDE DEF low
  <2> QED BY <1>1, <1>6, Quotients
<1> HIDE DEF q, s
<1>8. x * (k * B + q) = B * (x * k) + x * q
  BY <1>1, <1>5, <1>7
<1>9. B * high = B * (x * k) + t * B
  <2>1. B * (x * k + t) = B * (x * k) + t * B
    BY <1>1, <1>5
  <2> QED BY <1>5, <2>1
<1>10. B * high = W * y + B * zh
  BY <1>1, <1>3
<1>11. x * (k * B + q) + s = W * y + z
  <2>1. low \in Int /\ B * high \in Int /\ W * y \in Int /\ t * B \in Int /\ B * zh \in Int
        /\ B * (x * k) \in Int /\ x * q \in Int
    BY <1>1, <1>3, <1>4, <1>5, <1>6, <1>7
  <2>2. B * high - B * (x * k) = t * B /\ low = t * B + zl
    BY <1>9, <2>1
  <2> HIDE DEF low, high
  <2> QED BY <1>3, <1>7, <1>8, <1>9, <1>10, <2>1, <2>2
<1>12. k * B + q \in Nat
  BY <1>1, <1>5, <1>7
<1> QED BY <1>2, <1>7, <1>11, <1>12

(* A product divides back into its factor.                                 *)
LEMMA ProductDivides ==
  ASSUME NEW x \in Word, NEW y \in Word, x # 0
  PROVE  LET p == Product(x, y) IN p[1] < x /\ Division(x, p[1], p[2]) = <<y, 0>>
<1> DEFINE p == Product(x, y)
<1> PICK W : W = WordSize
  OBVIOUS
<1> PICK h, l : h = p[1] /\ l = p[2]
  OBVIOUS
<1>1. W \in Nat /\ W >= 1 /\ x \in Nat /\ x >= 1 /\ y \in Nat /\ y <= W - 1
  BY Sizes DEF Word
<1>2. h \in Word /\ l \in Word /\ W * h + l = x * y /\ h \in Nat /\ l \in Nat
  BY ProductType, ProductIsExact
<1> HIDE DEF p
<1>3. h < x
  <2> SUFFICES ASSUME h >= x PROVE FALSE
    BY <1>1, <1>2
  <2>1. W * h >= W * x /\ W * h \in Nat /\ W * x \in Nat
    BY <1>1, <1>2, ProductBound
  <2>2. x * y <= x * (W - 1) /\ x * y \in Nat
    BY <1>1, ProductBound
  <2>3. x * (W - 1) = W * x - x
    BY <1>1
  <2> QED BY <1>1, <1>2, <2>1, <2>2, <2>3
<1> PICK q, r : q = Division(x, h, l)[1] /\ r = Division(x, h, l)[2]
  OBVIOUS
<1>4. q \in Nat /\ r \in Nat /\ r < x /\ x * q + r = W * h + l
  BY <1>2, <1>3, DivisionIsExact
<1>5. x * q + r = x * y
  BY <1>1, <1>2, <1>4
<1>6. q = y /\ r = 0
  <2> PICK s : s = 0
    OBVIOUS
  <2>1. s \in Nat /\ s < x /\ r < x /\ x * q + r = x * y + s
    BY <1>1, <1>4, <1>5
  <2>2. q = y /\ r = s
    BY ONLY <1>1, <1>4, <2>1, OneQuotient
  <2> QED BY <2>2
<1>7. Division(x, h, l) = <<q, r>>
  BY DEF Division
<1> QED BY <1>3, <1>6, <1>7 DEF p

(* A quotient and its remainder multiply out.                              *)
LEMMA QuotientMultiplies ==
  ASSUME NEW x \in Word, NEW y \in Word, NEW z \in Word, y < x
  PROVE  LET high == Division(x, y, z)[1]
             low == Division(x, y, z)[2]
             p == Product(high, x)
         IN /\ low < x
            /\ p[1] + ((p[2] + low) \div WordSize) = y
            /\ (p[2] + low) % WordSize = z
<1> PICK W : W = WordSize
  OBVIOUS
<1> PICK q, r : q = Division(x, y, z)[1] /\ r = Division(x, y, z)[2]
  OBVIOUS
<1> PICK h, l : h = Product(q, x)[1] /\ l = Product(q, x)[2]
  OBVIOUS
<1>1. W \in Nat /\ W >= 1 /\ x \in Nat /\ y \in Nat /\ z \in Nat /\ z < W
  BY Sizes DEF Word
<1>2. q \in Word /\ q \in Nat /\ r \in Nat /\ r < x /\ x * q + r = W * y + z
  BY DivisionType, DivisionIsExact
<1>3. h \in Nat /\ l \in Nat /\ W * h + l = q * x
  BY <1>2, ProductIsExact
<1> PICK n : n = l + r
  OBVIOUS
<1> DEFINE k == n \div W
           m == n % W
<1>4. k \in Nat /\ m \in Nat /\ m < W /\ n = W * k + m
  <2>1. n \in Nat
    BY <1>2, <1>3
  <2> QED BY <1>1, <2>1, Quotients
<1> HIDE DEF k, m
<1>5. W * (h + k) + m = W * y + z
  <2>1. W * (h + k) = W * h + W * k /\ q * x = x * q
    BY <1>1, <1>2, <1>3, <1>4
  <2>2. W * h \in Int /\ W * k \in Int /\ x * q \in Int /\ W * y \in Int
    BY <1>1, <1>2, <1>3, <1>4
  <2>3. l + r = W * k + m
    BY <1>4
  <2> QED BY <1>1, <1>2, <1>3, <1>4, <2>1, <2>2, <2>3
<1>6. h + k = y /\ m = z
  <2> PICK v : v = h + k
    OBVIOUS
  <2>1. v \in Nat /\ W * v + m = W * y + z
    BY <1>3, <1>4, <1>5
  <2>2. v = y /\ m = z
    BY ONLY <1>1, <1>4, <2>1, OneQuotient
  <2> QED BY <2>2
<1> QED BY <1>2, <1>6 DEF k, m

LEMMA NextRegister ==
  ASSUME NEW c \in States, NEW r \in 0 .. 15
  PROVE  Address(c, r) # Address(c, r + 1)
<1> PICK W, n : W = WordSize /\ n = c.wp + 2 * r
  OBVIOUS
<1>1. W \in Nat /\ W >= 64 /\ c.wp \in Nat
  BY Sizes, StateFields DEF Word
<1>2. n \in Nat
  BY <1>1
<1> DEFINE k == n \div W
           m == n % W
           q == (n + 2) \div W
<1>3. k \in Nat /\ m \in Nat /\ m < W /\ n = W * k + m
  BY <1>1, <1>2, Quotients
<1> HIDE DEF k, m
<1>4. ASSUME (n + 2) % W = m
      PROVE  FALSE
  <2> PICK p : p = n + 2
    OBVIOUS
  <2>1. p \in Nat
    BY <1>2
  <2>2. p \div W \in Nat /\ p = W * (p \div W) + m
    <3>1. p \div W \in Nat /\ p = W * (p \div W) + (p % W)
      BY ONLY <1>1, <2>1, Quotients
    <3> QED BY <1>4, <3>1
  <2> PICK j : j = (p \div W) - k
    OBVIOUS
  <2>3. j \in Int /\ p \div W = k + j
    BY <1>3, <2>2
  <2>4. W * (k + j) = W * k + W * j
    BY <1>1, <1>3, <2>3
  <2>5. W * j = 2
    BY <1>1, <1>3, <2>2, <2>3, <2>4
  <2>6. CASE j >= 1
    <3>1. W * j >= W
      BY <1>1, <2>3, <2>6
    <3> QED BY <1>1, <2>5, <3>1
  <2>7. CASE j <= 0
    <3>1. W * j <= 0
      BY <1>1, <2>3, <2>7
    <3> QED BY <2>5, <3>1
  <2> QED BY <2>3, <2>6, <2>7
<1>5. Address(c, r) = m /\ Address(c, r + 1) = (n + 2) % W
  <2>1. c.wp + 2 * (r + 1) = n + 2
    BY <1>1
  <2> QED BY <2>1 DEF Address, m
<1> QED BY <1>4, <1>5

(* The two registers of a double word, when both can be written            *)
LEMMA DoubleReads ==
  ASSUME NEW c \in States, NEW r \in 0 .. 15, NEW p, p[1] \in Word, p[2] \in Word,
         {Address(c, r), Address(c, r + 1)} \subseteq Ram
  PROVE  /\ SetDouble(c, r, p).st = c.st
         /\ Reg(SetDouble(c, r, p), r) = p[1]
         /\ Reg(SetDouble(c, r, p), r + 1) = p[2]
<1> DEFINE a == Address(c, r)
           b == Address(c, r + 1)
           f == WriteW(c, a, p[1])
           g == WriteW(f, b, p[2])
<1>1. a # b /\ a \in Ram /\ b \in Ram
  BY NextRegister
<1>2. f \in States /\ f.wp = c.wp
  BY <1>1, WriteWType, ReadsWrites
<1>3. g.wp = c.wp
  BY <1>1, <1>2, ReadsWrites
<1>4. SetReg(c, r, p[1]) = f /\ Address(f, r + 1) = b
  BY <1>2 DEF SetReg, Address
<1>5. SetDouble(c, r, p) = g
  BY <1>4 DEF SetDouble, SetReg
<1>6. Address(g, r) = a /\ Address(g, r + 1) = b
  BY <1>3 DEF Address
<1>7. ReadW(f, a) = p[1] /\ ReadW(g, b) = p[2] /\ ReadW(g, a) = ReadW(f, a)
  <2> HIDE DEF a, b
  <2>1. ReadW(f, a) = p[1]
    BY <1>1, ReadsWrites
  <2> HIDE DEF f
  <2> QED BY <1>1, <1>2, <2>1, ReadsWrites
<1>8. \A d \in States : \A e, w : WriteW(d, e, w).st = d.st
  BY DEF WriteW, States
<1>9. g.st = c.st
  <2> HIDE DEF f, g
  <2>1. f.st = c.st
    BY <1>8 DEF f
  <2> QED BY <1>2, <1>8, <2>1 DEF g
<1> HIDE DEF f, g
<1> QED BY <1>5, <1>6, <1>7, <1>9 DEF Reg, a, b

(* In the state e, what MPY or DIV is to leave behind                      *)
Multiplied(c, i, e) ==
  LET d == Decoded(c, i.s, FALSE)
      x == ReadW(d, OperandAddress(c, i.s))
      y == Reg(d, i.reg)
      high == Reg(e, i.reg)
      low == Reg(e, i.reg + 1)
  IN /\ i.op = "MPY" /\ x # 0 => high < x /\ Division(x, high, low) = <<y, 0>>
     /\ i.op = "DIV" /\ OV \notin e.st =>
          /\ low < x
          /\ LET p == Product(high, x) IN
               /\ p[1] + ((p[2] + low) \div WordSize) = y
               /\ (p[2] + low) % WordSize = Reg(d, i.reg + 1)
     /\ i.op = "DIV" /\ OV \in e.st => e.mem = d.mem

LEMMA Dual1Multiplies ==
  ASSUME NEW c \in States, NEW i \in Instruction, i.type = "dual1",
         LET d == Decoded(c, i.s, FALSE)
         IN {Address(d, i.reg), Address(d, i.reg + 1)} \subseteq Ram
  PROVE  Multiplied(c, i, Dual1(c, i))
<1> DEFINE a == OperandAddress(c, i.s)
           d == Decoded(c, i.s, FALSE)
           x == ReadW(d, a)
           y == Reg(d, i.reg)
           z == Reg(d, i.reg + 1)
           e == Dual1(c, i)
<1>1. i.s \in Operand /\ i.reg \in 0 .. 15
  BY DEF Instruction
<1>2. a \in Word /\ d \in States
  BY <1>1, OperandAddressType, DecodedType
<1>3. x \in Word /\ y \in Word /\ z \in Word
  BY <1>2, ReadWType, RegType
<1>4. {Address(d, i.reg), Address(d, i.reg + 1)} \subseteq Ram
  OBVIOUS
<1>5. CASE i.op = "MPY"
  <2>1. e = SetDouble(d, i.reg, Product(x, y))
    BY <1>5 DEF Dual1
  <2> HIDE DEF a, d, x, y, z, e
  <2> PICK p : p = Product(x, y)
    OBVIOUS
  <2>2. p[1] \in Word /\ p[2] \in Word
    BY <1>3, ProductType
  <2>3. Reg(e, i.reg) = p[1] /\ Reg(e, i.reg + 1) = p[2]
    BY <1>1, <1>2, <1>4, <2>1, <2>2, DoubleReads
  <2>4. x # 0 => p[1] < x /\ Division(x, p[1], p[2]) = <<y, 0>>
    BY <1>3, ProductDivides
  <2> QED BY <1>5, <2>3, <2>4 DEF Multiplied, a, d, x, y, e
<1>6. CASE i.op = "DIV" /\ x <= y
  <2>1. e = Status(d, {OV}, {OV})
    BY <1>6 DEF Dual1
  <2> HIDE DEF a, d, x, y, z, e
  <2>2. e.mem = d.mem /\ OV \in e.st
    BY <1>2, <2>1, CarriesDiffer, FieldChanges, ZeroIsWord
  <2> QED BY <1>6, <2>2 DEF Multiplied, a, d, e
<1>7. CASE i.op = "DIV" /\ ~(x <= y)
  <2> DEFINE f == Status(d, {OV}, {})
  <2>1. e = SetDouble(f, i.reg, Division(x, y, z))
    BY <1>7 DEF Dual1
  <2> HIDE DEF a, d, x, y, z, e
  <2>2. f \in States /\ f.wp = d.wp /\ OV \notin f.st
    BY <1>2, StatusType, FieldChanges, ZeroIsWord
  <2>3. {Address(f, i.reg), Address(f, i.reg + 1)} \subseteq Ram
    BY <1>4, <2>2 DEF Address
  <2> HIDE DEF f
  <2>4. y < x
    BY <1>3, <1>7, ZeroIsWord
  <2> PICK p : p = Division(x, y, z)
    OBVIOUS
  <2>5. p[1] \in Word /\ p[2] \in Word
    BY <1>3, <2>4, DivisionType
  <2>6. e.st = f.st /\ Reg(e, i.reg) = p[1] /\ Reg(e, i.reg + 1) = p[2]
    BY <1>1, <2>1, <2>2, <2>3, <2>5, DoubleReads
  <2>7. LET s == Product(p[1], x)
        IN /\ p[2] < x
           /\ s[1] + ((s[2] + p[2]) \div WordSize) = y
           /\ (s[2] + p[2]) % WordSize = z
    BY <1>3, <2>4, QuotientMultiplies
  <2>8. OV \notin e.st
    BY <2>2, <2>6
  <2>9. Multiplied(c, i, e) <=>
          LET s == Product(Reg(e, i.reg), x)
          IN /\ Reg(e, i.reg + 1) < x
             /\ s[1] + ((s[2] + Reg(e, i.reg + 1)) \div WordSize) = y
             /\ (s[2] + Reg(e, i.reg + 1)) % WordSize = z
    BY <1>7, <2>8 DEF Multiplied, a, d, x, y, z
  <2> QED BY <2>6, <2>7, <2>9 DEF e
<1>8. i.op \notin {"MPY", "DIV"} => Multiplied(c, i, e)
  BY DEF Multiplied
<1> QED BY <1>5, <1>6, <1>7, <1>8

(* The step of DivisionUndoesProduct                                       *)
ProductsHold ==
  LET i == Inner(last'.instr)
      c == Before(cpu, last'.instr)
      d == Decoded(c, i.s, FALSE)
      x == ReadW(d, OperandAddress(c, i.s))
      y == Reg(d, i.reg)
      high == Reg(cpu', i.reg)
      low == Reg(cpu', i.reg + 1)
  IN /\ ~last'.interrupted
     /\ i.type = "dual1"
     /\ {Address(d, i.reg), Address(d, i.reg + 1)} \subseteq Ram
     => /\ i.op = "MPY" /\ x # 0 => high < x /\ Division(x, high, low) = <<y, 0>>
        /\ i.op = "DIV" /\ OV \notin cpu'.st =>
            /\ low < x
            /\ LET p == Product(high, x) IN
                 /\ p[1] + ((p[2] + low) \div WordSize) = y
                 /\ (p[2] + low) % WordSize = Reg(d, i.reg + 1)
        /\ i.op = "DIV" /\ OV \in cpu'.st => cpu'.mem = d.mem

LEMMA StepsMultiply ==
  ASSUME TypeOK, [Next]_vars
  PROVE  vars' # vars => ProductsHold
<1>1. ASSUME NEW k \in Program, Execute(k)
      PROVE  ProductsHold
  <2> DEFINE c == Before(cpu, k)
             i == Inner(k)
             d == Decoded(c, i.s, FALSE)
  <2>1. /\ last'.instr = k
        /\ \/ last' = [instr |-> k, interrupted |-> FALSE] /\ cpu' = Effect(c, i)
           \/ last' = [instr |-> k, interrupted |-> TRUE]
    BY <1>1, ExecuteSteps DEF TypeOK
  <2>2. c \in States /\ i \in Instruction
    BY ProgramTypes DEF TypeOK
  <2>3. CASE last' = [instr |-> k, interrupted |-> FALSE] /\ cpu' = Effect(c, i)
    <3> SUFFICES ASSUME i.type = "dual1",
                        {Address(d, i.reg), Address(d, i.reg + 1)} \subseteq Ram
                 PROVE  Multiplied(c, i, cpu')
      BY <2>1 DEF ProductsHold, Multiplied
    <3>1. Effect(c, i) = Dual1(c, i)
      BY DEF Effect
    <3> HIDE DEF c, i
    <3> QED BY <2>2, <2>3, <3>1, Dual1Multiplies
  <2>4. CASE last' = [instr |-> k, interrupted |-> TRUE]
    BY <2>4 DEF ProductsHold
  <2> QED BY <2>1, <2>3, <2>4
<1>2. CASE Boot
  <2>1. Inner(last'.instr).type = "none"
    BY <1>2 DEF Boot, Inner, NoInstruction
  <2> QED BY <2>1 DEF ProductsHold
<1> QED BY <1>1, <1>2, NextExecutes

(* For every word size, memory and program: what DIV leaves multiplies out *)
(* to the dividend, what MPY leaves divides back into its factor, and a    *)
(* quotient that does not fit leaves memory alone (cpu.cc 693-760).        *)
THEOREM ProductsAreExact == Spec => DivisionUndoesProduct
<1>1. TypeOK /\ [Next]_vars => TypeOK' /\ [ProductsHold]_vars
  BY TypesKept, StepsMultiply
<1>2. Init => TypeOK
  BY StartAssumption, BoundAssumption DEF Init, TypeOK
<1>3. Spec => [][ProductsHold]_vars
  BY <1>1, <1>2, PTL DEF Spec
<1> QED BY <1>3 DEF DivisionUndoesProduct, ProductsHold
=============================================================================
