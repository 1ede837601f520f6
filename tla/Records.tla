------------------------------- MODULE Records -------------------------------
(* Text files as DIS/VAR files (src/file_disvar.cc): each line is a record  *)
(* with a length byte, no record crosses a sector, and an end mark and      *)
(* zeroes fill what is left of a sector.                                    *)
EXTENDS Integers, Sequences, SequencesExt

CONSTANTS
  SectorBytes,   \* DISK_BYTES_PER_SECTOR: 256
  MaxRecord,     \* 80, the longest line
  Lengths,       \* lengths of lines
  MaxText        \* bound on the lines

(* A line, its length and an end mark fit in a sector, and no length is the *)
(* end mark.                                                                *)
ASSUME RecordsAssumption ==
  /\ SectorBytes \in Nat /\ MaxRecord \in Nat /\ Lengths \subseteq Nat
  /\ MaxRecord + 2 <= SectorBytes /\ MaxRecord < 255

VARIABLE text    \* the lines of the file, without their newlines

EndMark == 255

Padding(space) == <<EndMark>> \o [i \in 1 .. space - 1 |-> 0]

(* Mutant: no byte is left for the end mark.                                *)
EncodeRecordFull(file, line) ==
  LET n == Len(line)
      full == n + 1 > file.space
      space == IF full THEN SectorBytes ELSE file.space
  IN  [out |-> file.out \o (IF full THEN Padding(file.space) ELSE <<>>) \o <<n>> \o line,
       space |-> space - (n + 1)]

(* encodeDisVar for one line; out has space left in its sector.             *)
EncodeRecord(file, line) ==
  LET n == Len(line)
      full == n + 2 > file.space
      space == IF full THEN SectorBytes ELSE file.space
  IN  [out |-> file.out \o (IF full THEN Padding(file.space) ELSE <<>>) \o <<n>> \o line,
       space |-> space - (n + 1)]

EncodeDisVar(lines) ==
  FoldLeft(EncodeRecord, [out |-> <<>>, space |-> SectorBytes], lines).out

(* decodeDisVar: positions count from 0.                                    *)
DecodeDisVar(file) ==
  LET from[pos \in Nat] ==
        IF pos >= Len(file) THEN <<>>
        ELSE LET n == file[pos + 1]
             IN  IF n = EndMark THEN from[(pos \div SectorBytes + 1) * SectorBytes]
                 ELSE <<SubSeq(file, pos + 2, pos + 1 + n)>> \o from[pos + n + 1]
  IN  from[0]

Line(n) == [i \in 1 .. n |-> 97 + Len(text)]

AddLine(n) ==
  /\ Len(text) < MaxText /\ n <= MaxRecord
  /\ text' = Append(text, Line(n))

NewText == text' = <<>>

RecordsInit == text = <<>>

RecordsNext == (\E n \in Lengths : AddLine(n)) \/ NewText
-----------------------------------------------------------------------------
RecordsTypeOK == Len(text) <= MaxText /\ \A i \in DOMAIN text : Len(text[i]) <= MaxRecord

(* Every text comes back from its DIS/VAR file, and no record crosses a     *)
(* sector: the length bytes, the end mark that always has a byte left, the  *)
(* padding and the place of the next sector agree between both directions,  *)
(* also when a record fills its sector exactly.                             *)
RecordsSurvive ==
  LET file == EncodeDisVar(text)
      Start(i) == Len(EncodeDisVar(SubSeq(text, 1, i))) - Len(text[i]) - 1
  IN  /\ DecodeDisVar(file) = text
      /\ \A i \in DOMAIN text :
           Start(i) \div SectorBytes = (Start(i) + Len(text[i]) + 1) \div SectorBytes
=============================================================================
