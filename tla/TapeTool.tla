------------------------------ MODULE TapeTool ------------------------------
(* The tape tool (src/mltt-tape.cc): how a program is laid out on a tape in *)
(* bits, and how the bits are read back.  Each block is there twice, with   *)
(* its checksum, behind a preamble of zeroes that shows where bytes start.  *)
(* A tape may be damaged between the two.                                   *)
EXTENDS Integers, Sequences, FiniteSets, SequencesExt

CONSTANTS
  TapeByteBits,     \* 8
  BlockData,        \* 64: bytes of data in a block
  BlockPreamble,    \* 8: bytes of its preamble
  TapePreamble,     \* 768: bytes of the preamble of the tape
  FirstPreamble,    \* 3000: bits of a preamble that the tool looks for, first
  NextPreamble,     \* 40: and then
  RecordPreamble,   \* 3072: bits of the preamble of another record
  TapePrograms,     \* what is put on a tape: sequences of bytes
  DamagedBits       \* bits of a byte that may be read wrong

VARIABLES
  taped,      \* the program on the tape
  tapeAt,     \* bytes of the tape that are read
  tapeDecode, \* what the tool knows of them
  damaged     \* history: the copies with a wrong bit, <<block, copy, in the preamble>>

tapeToolVars == <<taped, tapeAt, tapeDecode, damaged>>

TapeByteRange == 2 ^ TapeByteBits
Mark == TapeByteRange - 1

Checksum(data) == FoldLeft(LAMBDA sum, b : (sum + b) % TapeByteRange, 0, data)

(* outputByte, from the most significant bit.                               *)
Bits(byte) == [i \in 1 .. TapeByteBits |-> (byte \div 2 ^ (TapeByteBits - i)) % 2]

(* outputBlock                                                              *)
OutputBlock(data) == [i \in 1 .. BlockPreamble |-> 0] \o <<Mark>> \o data \o <<Checksum(data)>>

(* outputWav: the number of blocks goes to the header twice.                *)
BlockCount(program) == (Len(program) + 1) \div BlockData

OutputWav(program) ==
  LET n == BlockCount(program)
      Block(i) == OutputBlock(SubSeq(program, (i - 1) * BlockData + 1, i * BlockData))
  IN  [i \in 1 .. TapePreamble |-> 0] \o <<Mark, n, n>>
        \o FlattenSeq([i \in 1 .. n |-> Block(i) \o Block(i)])
-----------------------------------------------------------------------------
(* TapeDecode, and the arguments of setPreamble and setPreambleBits.        *)
Decoder ==
  [sync |-> TRUE, preamble |-> 0, expected |-> FirstPreamble, byte |-> 0, bits |-> 0,
   header |-> 0,          \* bytes of the header so far: 3 is all of it
   copies |-> <<<<>>, <<>>>>, index |-> 1,
   data |-> <<>>,         \* the data of the file
   found |-> FALSE,       \* _errorsFound
   unfixable |-> FALSE]

Synchronise(t) == [t EXCEPT !.sync = TRUE, !.preamble = 0, !.expected = NextPreamble]

DataOf(copy) == SubSeq(copy, 2, BlockData + 1)

BadSum(copy) == Checksum(DataOf(copy)) # copy[BlockData + 2]

(* Mutant: the first copy is used whether its checksum is good or not.      *)
CompareFirst(t) ==
  LET first == t.copies[1]
      second == t.copies[2]
      misaligned == first[1] # Mark
      bad == {c \in 1 .. 2 : BadSum(t.copies[c])}
  IN  [t EXCEPT !.found = @ \/ misaligned \/ first # second \/ bad # {},
                !.unfixable = bad = {1, 2} \/ (@ /\ ~misaligned),
                !.data = @ \o DataOf(first),
                !.copies = <<<<>>, <<>>>>, !.index = 1]

(* Two copies are complete: the second is used only if the first alone has  *)
(* a bad checksum.                                                          *)
CompareCopies(t) ==
  LET first == t.copies[1]
      second == t.copies[2]
      misaligned == first[1] # Mark
      bad == {c \in 1 .. 2 : BadSum(t.copies[c])}
  IN  [t EXCEPT !.found = @ \/ misaligned \/ first # second \/ bad # {},
                !.unfixable = bad = {1, 2} \/ (@ /\ ~misaligned),
                !.data = @ \o DataOf(IF bad = {1} THEN second ELSE first),
                !.copies = <<<<>>, <<>>>>, !.index = 1]

(* decodeBlock: a byte of the header or of a copy of a block.               *)
DecodeBlock(t, byte) ==
  IF t.header < 3
    THEN LET u == [t EXCEPT !.header = @ + 1] IN IF u.header = 3 THEN Synchronise(u) ELSE u
  ELSE LET u == [t EXCEPT !.copies[t.index] = Append(@, byte)]
       IN  IF Len(u.copies[t.index]) < BlockData + 2 THEN u
           ELSE IF t.index = 1 THEN Synchronise([u EXCEPT !.index = 2])
           ELSE CompareCopies(Synchronise(u))

(* decodeBit: a one ends the preamble if it was long enough, and is data.   *)
EndsPreamble(t, bit) ==
  IF bit = 1 /\ t.sync
    THEN [t EXCEPT !.header = IF t.preamble > RecordPreamble /\ @ = 3 THEN 0 ELSE @,
                   !.sync = t.preamble <= t.expected]
    ELSE t

DecodeBit(old, bit) ==
  LET t == EndsPreamble(old, bit)
      u == [t EXCEPT !.byte = 2 * @ + bit, !.bits = @ + 1]
  IN  IF t.sync THEN [t EXCEPT !.preamble = @ + 1]
      ELSE IF u.bits = TapeByteBits THEN DecodeBlock([u EXCEPT !.byte = 0, !.bits = 0], u.byte)
      ELSE u

(* Tape input: the next byte, with the bits in wrong turned.                *)
DecodeByte(t, byte, wrong) ==
  FoldLeft(DecodeBit, t, [i \in 1 .. TapeByteBits |-> IF i \in wrong THEN 1 - Bits(byte)[i]
                                                     ELSE Bits(byte)[i]])
-----------------------------------------------------------------------------
(* The byte of the tape that is next: which copy it belongs to, and where   *)
(* in it.                                                                   *)
CopyBytes == BlockPreamble + BlockData + 2
InBlocks == tapeAt - (TapePreamble + 3)
InCopy == InBlocks % CopyBytes
Copy == [block |-> InBlocks \div (2 * CopyBytes), copy |-> (InBlocks \div CopyBytes) % 2]

AtEnd == tapeAt = Len(OutputWav(taped))

Read(wrong) ==
  /\ ~AtEnd
  /\ tapeDecode' = DecodeByte(tapeDecode, OutputWav(taped)[tapeAt + 1], wrong)
  /\ tapeAt' = tapeAt + 1
  /\ UNCHANGED taped

ReadGood == Read({}) /\ UNCHANGED damaged

(* One bit of a copy is wrong: in its data or its checksum, or in the first *)
(* byte of its preamble.                                                    *)
ReadDamaged(bit) ==
  /\ InBlocks >= 0
  /\ InCopy > BlockPreamble \/ InCopy = 0
  /\ \A d \in damaged : d.copy # Copy
  /\ Read({bit})
  /\ damaged' = damaged \cup {[copy |-> Copy, preamble |-> InCopy = 0]}

(* Another tape.                                                            *)
OutputTape(program) ==
  /\ AtEnd
  /\ taped' = program /\ tapeAt' = 0 /\ tapeDecode' = Decoder /\ damaged' = {}

TapeToolInit == taped = <<>> /\ tapeAt = 0 /\ tapeDecode = Decoder /\ damaged = {}

TapeToolNext ==
  \/ ReadGood
  \/ \E bit \in DamagedBits : ReadDamaged(bit)
  \/ \E program \in TapePrograms : OutputTape(program)
-----------------------------------------------------------------------------
(* What is read from a tape is the program, or the tool reports an error    *)
(* that it could not fix, and that only if both copies of a block are       *)
(* damaged; it reports no error exactly if there was none.  (One wrong bit  *)
(* in each copy, none in its mark, and whole blocks: see README.md.)        *)
TapeRestored ==
  AtEnd =>
    LET bad == {d.copy : d \in {x \in damaged : ~x.preamble}}
    IN  /\ tapeDecode.data = taped \/ (tapeDecode.found /\ tapeDecode.unfixable)
        /\ tapeDecode.found = (bad # {})
        /\ tapeDecode.unfixable => \E c, d \in bad : c # d /\ c.block = d.block
=============================================================================
