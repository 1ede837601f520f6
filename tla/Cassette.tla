------------------------------ MODULE Cassette ------------------------------
(* The cassette recorder (src/cassette.cc) and the WAV file it plays and    *)
(* records (src/wav.cc).  Software reaches it through CRU bits: 22 and 23   *)
(* for the motors, 25 for the level to record, 27 for the level that is     *)
(* heard.  What paces a recording is any input on bit 3, the interrupt of   *)
(* the timer: its expiry, its acknowledgement and the scan of keyboard row  *)
(* 0 all come to timerExpired.                                              *)
(*                                                                          *)
(* The state is one record, cassette, and the operations are operators from *)
(* such records to records, as closing a file makes sixteen expiries.       *)
EXTENDS Integers, Sequences, SequencesExt

CONSTANTS
  CellSamples,   \* samples that the duration of the timer stands for
  FlushSamples,  \* samples of the 360000 ns of fileCloseWrite
  MaxCells,      \* bound on the expiries during one recording
  TapeRules      \* a subset of {"restart", "modulation"}, see Obeys

(* A wave has a sample.                                                     *)
ASSUME CassetteAssumption ==
  CellSamples \in Nat \ {0} /\ FlushSamples \in Nat \ {0} /\ MaxCells \in Nat

VARIABLES
  cassette,
  levels    \* history: the levels at the expiries of the last recording

cassetteVars == <<cassette, levels>>

Unset == -1   \* the header that openWrite wrote, until close replaces it

Blank == [exists |-> FALSE, header |-> Unset, samples |-> <<>>]

(* WavFile::WavFile and the statics of Cassette, with tape in the drive.    *)
Started(tape) ==
  [tape |-> tape,         \* cassette.wav: what it says and what it holds
   fp |-> "none",         \* WavFile::_fp, by the mode of fopen
   write |-> FALSE,       \* WavFile::_write
   fileCount |-> 0,       \* WavFile::_sampleCount
   at |-> 0,              \* samples read since the file was opened
   block |-> 0,           \* WavFile::_block, as a level
   remaining |-> 0,       \* Cassette::_sampleCount
   shift |-> <<0, 0, 0>>, \* _modulationState: previous, current and next
   next |-> 0,            \* _modulationNext
   due |-> 0,             \* _modulationReadSamples
   crashed |-> FALSE]     \* a null FILE was used

(* Quarter of a sine wave that a state starts at, and quarters it lasts.    *)
Encoding(state) ==
  CASE state = <<0, 0, 1>> -> [start |-> 3, duration |-> 1]
    [] state = <<0, 1, 0>> -> [start |-> 0, duration |-> 2]
    [] state = <<0, 1, 1>> -> [start |-> 0, duration |-> 1]
    [] state = <<1, 0, 0>> -> [start |-> 2, duration |-> 1]
    [] state = <<1, 0, 1>> -> [start |-> 2, duration |-> 2]
    [] state = <<1, 1, 0>> -> [start |-> 1, duration |-> 1]
    [] OTHER -> [start |-> 0, duration |-> 0]

(* The n samples of a state as levels: a sample reads as 1 only if its sine *)
(* is positive, so the sample at an angle of 0 reads as 0.                  *)
Wave(state, n) ==
  LET e == Encoding(state)
  IN  [i \in 1 .. n |->
         LET angle == e.start * n + (i - 1) * e.duration   \* in quarters of n
         IN  IF 0 < angle /\ angle < 2 * n THEN 1 ELSE 0]

Shifted(c) == <<c.shift[2], c.shift[3], c.next>>

(* WavFile::writeSample: a file open for reading takes no samples, but the  *)
(* count goes up all the same.                                              *)
Recorded(c, wave) ==
  [c EXCEPT !.tape.samples = IF c.fp = "write" THEN @ \o wave ELSE @,
            !.fileCount = @ + Len(wave),
            !.remaining = @ + Len(wave),
            !.block = wave[Len(wave)]]

(* timerExpired: isOpenWrite is _write, which close leaves set.             *)
Expire(c, n) ==
  IF ~c.write THEN [c EXCEPT !.due = n]
  ELSE IF c.fp = "none" THEN [c EXCEPT !.crashed = TRUE]
  ELSE [Recorded(c, Wave(c.shift, n)) EXCEPT !.shift = Shifted(c)]

Toggle(c) == [c EXCEPT !.next = 1 - @]

(* WavFile::close: the header goes to a file that was opened for writing.   *)
Closed(c) ==
  [c EXCEPT !.tape.header = IF c.fp = "write" THEN c.fileCount ELSE @,
            !.fp = "none"]

(* fileCloseWrite: eight dribble bits of two cells.                         *)
Flushed(c) ==
  FoldLeft(LAMBDA d, i : Expire(Expire(Toggle(d), FlushSamples), FlushSamples),
           c, [i \in 1 .. 8 |-> i])

(* Mutant: the file is closed with levels still in the shift register.      *)
FileCloseUnflushed(c) == Closed(c)

FileCloseWrite(c) == Closed(Flushed(c))

(* openWrite truncates the file and counts on from the last count.          *)
FileOpenWrite(c) ==
  [c EXCEPT !.tape = [exists |-> TRUE, header |-> Unset, samples |-> <<>>],
            !.fp = "write", !.write = TRUE]

(* openRead: a header nobody completed is any header: it is refused, or     *)
(* counts any number of samples.                                            *)
Headers(tape) == IF tape.header = Unset THEN 0 .. Len(tape.samples) ELSE {tape.header}

OpenedRead(c) ==
  (IF c.tape.exists
     THEN {[c EXCEPT !.fp = "read", !.at = 0, !.fileCount = n, !.remaining = n]
             : n \in Headers(c.tape)}
     ELSE {})
  \cup (IF c.tape.header = Unset THEN {[c EXCEPT !.remaining = c.fileCount]} ELSE {})

(* readSample, n times: behind the end, and from a file that is open for    *)
(* writing, the block keeps its last sample.                                *)
Heard(c, n) ==
  LET end == Len(c.tape.samples)
  IN  IF c.fp = "read" /\ c.at < end THEN c.tape.samples[Min({c.at + n, end})]
      ELSE c.block

(* Mutant: a read of several samples counts as one.                         *)
PlayCountsOne(c, n) ==
  LET bit == Heard(c, n)
      d == [c EXCEPT !.at = @ + n, !.block = bit, !.next = bit, !.remaining = @ - 1]
  IN  IF d.remaining <= 0 THEN Closed(d) ELSE d

Play(c, n) ==
  LET bit == Heard(c, n)
      d == [c EXCEPT !.at = @ + n, !.block = bit, !.next = bit, !.remaining = @ - n]
  IN  IF d.remaining <= 0 THEN Closed(d) ELSE d

(* modulationRead: the samples that are due, or else one if the time for it *)
(* has passed.                                                              *)
ModulationRead(c, passed) ==
  IF c.fp = "none" THEN Toggle(c)
  ELSE IF c.due > 0 THEN Play([c EXCEPT !.due = 0], c.due)
  ELSE IF passed THEN Play(c, 1) ELSE c
-----------------------------------------------------------------------------
Running == ~cassette.crashed

(* Rules of the programs that a run considers.                              *)
(* "restart": a recording has an emulator of its own, as in mltt-tape       *)
(* (mltt-tape.cc:469-471): the emulator played nothing before, and it ends  *)
(* before anything else is timed, recorded or played.                       *)
(* "modulation": a level lasts one cell or two, so that no three cells are  *)
(* high, a recording stops when the last level has had its cells, and what  *)
(* is recorded is not played at the same time.                              *)
Over == cassette.write /\ cassette.fp = "none"

Obeys(rule, guard) == rule \in TapeRules => guard

Timed == Obeys("restart", ~Over)

TwoAlike ==
  LET n == Len(levels) IN n >= 2 /\ levels[n - 1] = levels[n]

(* Any input on CRU bit 3.                                                  *)
TimerExpired(n) ==
  /\ Running /\ Timed
  /\ IF cassette.fp = "write"
       THEN /\ Len(levels) < MaxCells
            /\ Obeys("modulation", TwoAlike => cassette.next # levels[Len(levels)])
            /\ levels' = Append(levels, cassette.next)
       ELSE UNCHANGED levels
  /\ cassette' = Expire(cassette, n)

(* CRU bit 25.                                                              *)
TapeOutput(value) ==
  /\ Running /\ Timed
  /\ Obeys("restart", cassette.fp = "none" => cassette.fileCount = 0)
  /\ Obeys("modulation", cassette.fp # "read")
  /\ IF cassette.fp = "none"
       THEN /\ cassette' = [FileOpenWrite(cassette) EXCEPT !.next = value]
            /\ levels' = <<>>
       ELSE /\ cassette' = [cassette EXCEPT !.next = value]
            /\ UNCHANGED levels

(* CRU bit 27.                                                              *)
TapeInput(passed) ==
  /\ Running /\ Timed
  /\ Obeys("modulation", cassette.fp # "write")
  /\ \E c \in IF cassette.fp = "none" THEN OpenedRead(cassette) ELSE {cassette} :
       cassette' = ModulationRead(c, passed)
  /\ UNCHANGED levels

(* CRU bits 22 and 23.                                                      *)
Motor(value) ==
  /\ Running
  /\ IF value = 0 /\ cassette.fp # "none"
       THEN /\ Obeys("modulation", cassette.fp = "write" =>
                                     /\ levels # <<>>
                                     /\ cassette.next = levels[Len(levels)])
            /\ cassette' = FileCloseWrite(cassette)
       ELSE UNCHANGED cassette
  /\ UNCHANGED levels

(* The emulator ends and starts again; what it wrote is in the file.        *)
Restart ==
  /\ cassette' = Started(cassette.tape)
  /\ UNCHANGED levels

CassetteInit == cassette = Started(Blank) /\ levels = <<>>

CassetteNext ==
  \/ TimerExpired(CellSamples)
  \/ \E value \in {0, 1} : TapeOutput(value) \/ Motor(value)
  \/ \E passed \in BOOLEAN : TapeInput(passed)
  \/ Restart
-----------------------------------------------------------------------------
CassetteTypeOK ==
  /\ levels \in Seq({0, 1}) /\ Len(levels) <= MaxCells
  /\ cassette.tape.samples \in Seq({0, 1})
  /\ cassette.tape.header \in Nat \cup {Unset}
  /\ cassette.fp \in {"none", "read", "write"}
  /\ cassette.shift \in [1 .. 3 -> {0, 1}]
  /\ {cassette.next, cassette.block} \subseteq {0, 1}
  /\ {cassette.fileCount, cassette.at, cassette.due} \subseteq Nat

(* Where the wave of the i-th expiry of a recording ends on the tape.       *)
WaveEnd(i) ==
  LET timed == Min({i, Len(levels)})
  IN  timed * CellSamples + (i - timed) * FlushSamples

(* Every level that was output when the timer expired is on the tape once   *)
(* the recording is closed, two waves later: the shift register of          *)
(* timerExpired delays it, and fileCloseWrite flushes the register before   *)
(* the file is closed.  The last sample of a wave tells its level, as the   *)
(* first may be the zero crossing.                                          *)
LevelsSurvive ==
  cassette.tape.header # Unset =>
    \A i \in 1 .. Len(levels) :
      /\ WaveEnd(i + 2) <= Len(cassette.tape.samples)
      /\ cassette.tape.samples[WaveEnd(i + 2)] = levels[i]

(* While a tape is played _sampleCount is "how many samples are remaining   *)
(* in the file" (cassette.h:51): what close wrote to the header, what the   *)
(* reads took and where the end is found agree with what is on the tape.    *)
CounterIsRemaining ==
  cassette.fp = "read" /\ cassette.tape.header # Unset =>
    cassette.remaining = Len(cassette.tape.samples) - cassette.at
=============================================================================
