-------------------------------- MODULE Basic --------------------------------
(* TI BASIC programs as text and in the tokenised form of the computer      *)
(* (src/tibasic_encode.cc, src/tibasic_decode.cc).  The tokenised program   *)
(* is a header, a table of line numbers in descending order and the lines,  *)
(* each with its length; header and table hold addresses of the memory that *)
(* the program is to be loaded to.                                          *)
(*                                                                          *)
(* A line of text is its number and its words: characters and numbers of    *)
(* characters, spaces and the names of the tokens are left out.             *)
EXTENDS Integers, Sequences, FiniteSets, SequencesExt

CONSTANTS
  ProgramTop,     \* PROGRAM_TOP
  ByteValues,     \* values of a byte: 256
  Numbers,        \* line numbers
  Bodies,         \* what is on a line: sequences of words
  MaxLines        \* bound on the lines

VARIABLE listing  \* the program as text: [number, words], in ascending order

(* A word is [kind, token] for a keyword or a sign, or [kind, value] for a  *)
(* string, a number or a name, whose values are sequences of characters.    *)
QuotedString == 199
UnquotedString == 200
LineNumber == 201
Go == 133
To == 177
BeforeLine == {129, 134, 135, 176}   \* ELSE, GOTO, GOSUB, THEN
CallToken == 157

Token(b) == [kind |-> "token", token |-> b]

IsDigit(c) == c \in 48 .. 57

NumberOf(digits) == FoldLeft(LAMBDA n, d : n * 10 + (d - 48), 0, digits)
-----------------------------------------------------------------------------
(* processLine and emitToken.  What a keyword expects behind it is emitted  *)
(* in another form, and any other word there is dropped with a message.     *)
Expects(token) ==
  CASE token = Go -> "to"
    [] token \in BeforeLine -> "line"
    [] token = CallToken -> "name"
    [] OTHER -> "any"

AsString(type, value) == <<type, Len(value)>> \o value

AsLineNumber(n) == <<LineNumber, (n \div ByteValues) % ByteValues, n % ByteValues>>

Emitted(word) ==
  CASE word.kind = "token" -> <<word.token>>
    [] word.kind = "string" -> AsString(QuotedString, word.value)
    [] word.kind = "number" -> AsString(UnquotedString, word.value)
    [] word.kind = "name" -> word.value

ProcessWord(d, word) ==
  CASE d.expect = "any" ->
         [out |-> d.out \o Emitted(word),
          expect |-> IF word.kind = "token" THEN Expects(word.token) ELSE "any"]
    [] d.expect = "to" /\ word = Token(To) -> [out |-> Append(d.out, To), expect |-> "line"]
    [] d.expect \in {"to", "line"} /\ word.kind = "number" ->
         [out |-> d.out \o AsLineNumber(NumberOf(word.value)), expect |-> "any"]
    [] d.expect = "name" /\ word.kind = "name" ->
         [out |-> d.out \o AsString(UnquotedString, word.value), expect |-> "any"]
    [] OTHER -> [d EXCEPT !.expect = "any"]

(* Mutant: the length does not count the 0.                                 *)
ProcessLineShort(words) ==
  LET bytes == FoldLeft(ProcessWord, [out |-> <<>>, expect |-> "any"], words).out
  IN  <<Len(bytes) % ByteValues>> \o Append(bytes, 0)

(* The bytes of a line, with its length in front and a 0 behind.            *)
ProcessLine(words) ==
  LET bytes == Append(FoldLeft(ProcessWord, [out |-> <<>>, expect |-> "any"], words).out, 0)
  IN  <<Len(bytes) % ByteValues>> \o bytes

(* encodeBasicProgram: code is the lines one behind the other; an address   *)
(* is that of the byte behind the length.                                   *)
EncodeBasicProgram(lines) ==
  LET n == Len(lines)
      CodeOf(i) == FlattenSeq([j \in 1 .. i |-> ProcessLine(lines[j].words)])
      lenCode == Len(CodeOf(n))
      Entry(i) == [line |-> lines[i].number,
                   address |-> ProgramTop - lenCode + Len(CodeOf(i - 1)) + 1 + 1]
  IN  [programTop |-> ProgramTop,
       lineNumbersTop |-> ProgramTop - lenCode,
       lineNumbersBottom |-> ProgramTop - lenCode - 4 * n + 1,
       table |-> [i \in 1 .. n |-> Entry(n + 1 - i)],
       code |-> CodeOf(n)]
-----------------------------------------------------------------------------
(* decodeLine: the words that what is printed consists of.  Text before a   *)
(* token goes on in the same word.                                          *)
DigitsOf(n) ==
  LET length == CHOOSE k \in 1 .. 5 : n < 10 ^ k /\ (k = 1 \/ n >= 10 ^ (k - 1))
  IN  [i \in 1 .. length |-> 48 + ((n \div 10 ^ (length - i)) % 10)]

Printed(value) ==
  [kind |-> IF value # <<>> /\ IsDigit(value[1]) THEN "number" ELSE "name", value |-> value]

AddCharacter(words, inName, c) ==
  IF inName THEN [words EXCEPT ![Len(words)].value = Append(@, c)]
            ELSE Append(words, [kind |-> "name", value |-> <<c>>])

DecodeToken(d, data) ==
  LET byte == data[d.at]
      length == data[d.at + 1]
      String == SubSeq(data, d.at + 2, d.at + 1 + length)
      More(word, size) == [at |-> d.at + size, inName |-> FALSE, words |-> Append(d.words, word)]
  IN  CASE byte < 128 -> [at |-> d.at + 1, inName |-> TRUE,
                          words |-> AddCharacter(d.words, d.inName, byte)]
        [] byte = QuotedString -> More([kind |-> "string", value |-> String], length + 2)
        [] byte = UnquotedString -> More(Printed(String), length + 2)
        [] byte = LineNumber -> More(Printed(DigitsOf(length * 256 + data[d.at + 2])), 3)
        [] OTHER -> More(Token(byte), 1)

(* The bytes from the one at first, which is the length of the line.        *)
DecodeLine(code, first) ==
  LET end == first + code[first]   \* the byte that is not looked at
      Step(d, i) == IF d.at >= end THEN d ELSE DecodeToken(d, code)
  IN  FoldLeft(Step, [at |-> first + 1, inName |-> FALSE, words |-> <<>>],
               [i \in 1 .. code[first] |-> i]).words

FileCheck(file) ==
  /\ file.lineNumbersTop >= file.lineNumbersBottom
  /\ file.programTop >= file.lineNumbersTop

(* decodeBasicProgram: lines from the end of the table, addresses relative  *)
(* to it.                                                                   *)
DecodeBasicProgram(file) ==
  LET n == (file.lineNumbersTop - file.lineNumbersBottom + 1) \div 4
      Offset(i) == file.table[i].address - file.lineNumbersBottom - 1
  IN  IF ~FileCheck(file) THEN <<>>
      ELSE [j \in 1 .. n |->
              LET i == n + 1 - j
              IN  [number |-> file.table[i].line,
                   words |-> DecodeLine(file.code, Offset(i) - 4 * n + 1)]]
-----------------------------------------------------------------------------
(* Lines whose tokens say all of their text; README.md lists the others.    *)
Keywords == {Token(b) : b \in (128 .. ByteValues - 1) \ {QuotedString, UnquotedString, LineNumber}}
Texts == [kind : {"string", "number", "name"}, value : Seq(Nat)]

IsNumber(value) == value # <<>> /\ IsDigit(value[1])

(* What is expected of the i-th word.                                       *)
Expected(words, i) ==
  IF i = 1 \/ words[i - 1] \notin Keywords THEN "any"
  ELSE IF i > 2 /\ words[i - 1] = Token(To) /\ words[i - 2] = Token(Go) THEN "line"
  ELSE Expects(words[i - 1].token)

(* A name that no CALL expects has no length: its end is that of the text.  *)
Raw(words, i) == i >= 1 /\ words[i] \in Texts /\ words[i].kind = "name" /\ Expected(words, i) = "any"

KeptWord(words, i) ==
  LET word == words[i]
      expect == Expected(words, i)
  IN  \/ expect = "any" /\ word \in Keywords
      \/ expect = "to" /\ word = Token(To)
      \/ /\ expect = "any" /\ word \in Texts
         /\ CASE word.kind = "string" -> TRUE
              [] word.kind = "number" -> IsNumber(word.value)
              [] word.kind = "name" -> /\ word.value # <<>> /\ ~Raw(words, i - 1)
                                       /\ \A j \in DOMAIN word.value : word.value[j] < 128
      \/ /\ expect \in {"to", "line"} /\ word \in Texts /\ word.kind = "number"
         /\ IsNumber(word.value) /\ NumberOf(word.value) \in 0 .. ByteValues * ByteValues - 1
         /\ DigitsOf(NumberOf(word.value)) = word.value
      \/ /\ expect = "name" /\ word \in Texts /\ word.kind = "name" /\ ~IsNumber(word.value)

ASSUME BasicAssumption ==
  /\ ByteValues = 256 /\ ProgramTop \in Nat
  /\ \A words \in Bodies :
       /\ words \in Seq(Keywords \cup Texts)
       /\ Len(ProcessLine(words)) <= ByteValues
       /\ \A i \in DOMAIN words : KeptWord(words, i)

-----------------------------------------------------------------------------
AddProgramLine(number, words) ==
  /\ Len(listing) < MaxLines
  /\ \A i \in DOMAIN listing : listing[i].number < number
  /\ listing' = Append(listing, [number |-> number, words |-> words])

NewProgram == listing' = <<>>

BasicInit == listing = <<>>

BasicNext ==
  \/ \E number \in Numbers, words \in Bodies : AddProgramLine(number, words)
  \/ NewProgram
-----------------------------------------------------------------------------
(* A program comes back from its tokenised form, line by line: the          *)
(* lengths, the addresses relative to the top of memory, the reversed table *)
(* and the forms that depend on the word before agree in both directions.   *)
(* (README.md lists the lines for which it does not, such as GO SUB.)       *)
BasicSurvives ==
  LET file == EncodeBasicProgram(listing)
  IN  DecodeBasicProgram(file) = listing
=============================================================================
