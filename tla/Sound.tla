------------------------------- MODULE Sound -------------------------------
(* The sound generator (src/sound.cc).  The emulator's thread stores the    *)
(* commands of software in the registers of three tones and a noise and     *)
(* puts the samples of the cassette into a ring; the audio thread plays     *)
(* batches of samples, from the ring if it holds enough of them and from    *)
(* the generators otherwise.  The ring has a lock, the registers have none. *)
EXTENDS Integers, Sequences, FiniteSets

CONSTANTS
  Channels,       \* the generators in use, of 0 .. 3
  Noise,          \* the one that makes noise: 3
  Volumes,        \* amplitudes of volume commands
  LowBits, HighBits, \* values of the two bytes of a tone command
  LowRange,       \* low parts there are: 16
  FirstByte,      \* what the first byte of a command adds to its low part: 128
  NoisePeriods,   \* periods of the fixed rates of the noise
  SampleCount,    \* SAMPLE_COUNT
  Fifo,           \* AUX_SAMPLE_FIFO
  AuxSamples,     \* samples of the cassette, as far as they differ
  MaxCommands     \* bound on the commands

VARIABLES
  tones,        \* the registers and counters of each channel
  linked,       \* useTone3Freq
  latched,      \* latchedData of soundWrite: the command waiting for data
  commands,     \* commands so far
  soundAux,     \* the ring, with its next slot to fill and to play
  soundAuxHead, soundAuxTail,
  update        \* where soundUpdate is: see AudioThread

ASSUME SoundAssumption ==
  /\ Fifo \in Nat \ {0} /\ SampleCount \in Nat
  /\ 0 \in AuxSamples        \* the ring starts with silence

soundVars == <<tones, linked, latched, commands, soundAux, soundAuxHead, soundAuxTail, update>>
ringVars == <<soundAux, soundAuxHead, soundAuxTail>>
toneVars == <<tones, linked, latched, commands>>

Silent == [requestedPeriod |-> 0, period |-> 0, counter |-> 0,
           requestedAmplitude |-> 0, amplitude |-> 0]

Idle == [at |-> "count", left |-> 0]

\* latchedData = -1, by its bits
Nothing == [channel |-> Noise, low |-> LowRange - 1]
-----------------------------------------------------------------------------
(* AUDIO_FREQUENCY / CLOCK_FREQUENCY is a little less than 2/5.             *)
PeriodOf(data) == (data * 2) \div 5

(* soundWrite by the kind of the byte.  "volume" ends before the latch is   *)
(* looked at, and so it does for "noise", whose period is set at once.      *)
Volume(c, amplitude) ==
  /\ tones' = [tones EXCEPT ![c].requestedAmplitude = amplitude]
  /\ UNCHANGED <<linked, latched>>

NoisePeriod(period) ==
  /\ tones' = [tones EXCEPT ![Noise].period = period]
  /\ linked' = FALSE
  /\ UNCHANGED latched

NoiseFollows ==
  /\ linked' = TRUE
  /\ UNCHANGED <<tones, latched>>

(* The second byte of a tone; without a first one it goes to channel 3.     *)
Data(high) ==
  LET period == PeriodOf(high * LowRange + latched.low)
      Set(c) == c = latched.channel \/ (latched.channel = 2 /\ linked /\ c = Noise)
  IN  /\ tones' = [c \in Channels |-> IF Set(c) THEN [tones[c] EXCEPT !.requestedPeriod = period]
                                     ELSE tones[c]]
      /\ latched' = Nothing
      /\ UNCHANGED linked

(* The first byte, unless one is waiting already: then it counts as data.   *)
Latch(c, low) ==
  /\ latched = Nothing
  /\ latched' = [channel |-> c, low |-> low]
  /\ UNCHANGED <<tones, linked>>

LatchedTwice(low) ==
  /\ latched # Nothing
  /\ Data(FirstByte + low)

SoundWrite ==
  /\ commands < MaxCommands
  /\ commands' = commands + 1
  /\ \/ \E c \in Channels, v \in Volumes : Volume(c, v)
     \/ \E c \in Channels \ {Noise}, low \in LowBits : Latch(c, low)
     \/ \E low \in LowBits : LatchedTwice(low)
     \/ \E period \in NoisePeriods : NoisePeriod(period)
     \/ NoiseFollows
     \/ \E high \in HighBits : Data(high)
  /\ UNCHANGED <<ringVars, update>>
-----------------------------------------------------------------------------
AuxCount == (Fifo + soundAuxHead - soundAuxTail) % Fifo

(* soundAuxData waits for the lock, which soundUpdate has while it makes a  *)
(* batch.  It does not look whether there is room: the ring holds half a    *)
(* second, and its samples come at the rate they are played (Paced).        *)
Paced == AuxCount + 1 < Fifo

SoundAuxData(sample) ==
  /\ update.at = "count" \/ update.at = "counted"
  /\ Paced
  /\ soundAux' = [soundAux EXCEPT ![soundAuxHead] = sample]
  /\ soundAuxHead' = (soundAuxHead + 1) % Fifo
  /\ UNCHANGED <<soundAuxTail, update, toneVars>>

(* Mutant: a generator that is to fall silent counts as silent already.     *)
ActiveRequested(c) == tones[c].requestedAmplitude # 0

(* updateActiveToneGenerators *)
Active(c) == tones[c].requestedAmplitude # 0 \/ tones[c].amplitude # 0

(* Mutant: a batch may lack a sample.                                       *)
CountAuxShort ==
  /\ update.at = "count"
  /\ \/ /\ AuxCount + 1 >= SampleCount
        /\ update' = [at |-> "counted", left |-> 0]
     \/ /\ AuxCount + 1 < SampleCount
        /\ \E c \in Channels : Active(c)
        /\ update' = [at |-> "tones", left |-> SampleCount * Cardinality(Channels)]
  /\ UNCHANGED <<ringVars, toneVars>>

(* soundUpdate up to the unlock after counting: it goes on with the ring or *)
(* with the generators, or the thread sleeps and tries again.               *)
CountAux ==
  /\ update.at = "count"
  /\ \/ /\ AuxCount >= SampleCount
        /\ update' = [at |-> "counted", left |-> 0]
     \/ /\ AuxCount < SampleCount
        /\ \E c \in Channels : Active(c)
        /\ update' = [at |-> "tones", left |-> SampleCount * Cardinality(Channels)]
  /\ UNCHANGED <<ringVars, toneVars>>

(* The batch from the ring, under one lock.                                 *)
PlayAux ==
  /\ update.at = "counted"
  /\ soundAuxTail' = (soundAuxTail + SampleCount) % Fifo
  /\ update' = Idle
  /\ UNCHANGED <<soundAux, soundAuxHead, toneVars>>

(* generateTone: what was requested is taken up when a cycle starts.        *)
Requested(t) ==
  IF t.counter = 0
    THEN [t EXCEPT !.amplitude = t.requestedAmplitude, !.period = t.requestedPeriod]
    ELSE t

Stepped(t) ==
  IF t.amplitude = 0 \/ t.period = 0 THEN t
  ELSE [t EXCEPT !.counter = (@ + 1) % t.period]

(* The channel whose turn it is: each sample sums all of them.              *)
Turn == CHOOSE c \in Channels :
          Cardinality({d \in Channels : d > c}) = (update.left - 1) % Cardinality(Channels)

GenerateTone ==
  /\ update.at = "tones"
  /\ tones' = [tones EXCEPT ![Turn] = Stepped(Requested(@))]
  /\ update' = IF update.left = 1 THEN Idle ELSE [update EXCEPT !.left = @ - 1]
  /\ UNCHANGED <<ringVars, linked, latched, commands>>

AudioThread == CountAux \/ PlayAux \/ GenerateTone
-----------------------------------------------------------------------------
SoundInit ==
  /\ tones = [c \in Channels |-> Silent]
  /\ linked = FALSE
  /\ latched = Nothing
  /\ commands = 0
  /\ soundAux = [i \in 0 .. Fifo - 1 |-> 0]
  /\ soundAuxHead = 0 /\ soundAuxTail = 0
  /\ update = Idle

SoundNext ==
  \/ SoundWrite
  \/ \E sample \in AuxSamples : SoundAuxData(sample)
  \/ AudioThread
-----------------------------------------------------------------------------
SoundTypeOK ==
  /\ \A c \in Channels : \A f \in DOMAIN tones[c] : tones[c][f] \in Nat
  /\ linked \in BOOLEAN
  /\ latched.channel \in Channels
  /\ soundAux \in [0 .. Fifo - 1 -> AuxSamples]
  /\ {soundAuxHead, soundAuxTail} \subseteq 0 .. Fifo - 1

(* The samples between tail and head, in the order they were put in.        *)
Waiting == [i \in 1 .. AuxCount |-> soundAux[(soundAuxTail + i - 1) % Fifo]]

Ring == INSTANCE SampleQueue WITH Samples <- AuxSamples, Batch <- SampleCount, queue <- Waiting

(* The ring is a queue: although soundUpdate counts under one lock and      *)
(* plays under another, and both indices wrap, every sample of the cassette *)
(* is played once, in order, and never before it was put in.                *)
RingIsQueue == Ring!QueueSpec

(* What software asked for is heard: the volume of every generator becomes  *)
(* the one last requested, although it is taken up only where the counter   *)
(* of a cycle comes back to zero and a noise command changes the period in  *)
(* the middle of one; unless samples of the cassette keep coming, which     *)
(* keep the generators from running.                                        *)
VolumeIsHeard ==
  \A c \in Channels :
    \/ <>[](tones[c].amplitude = tones[c].requestedAmplitude)
    \/ []<>(update.at = "counted")
=============================================================================
