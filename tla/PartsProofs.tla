---------------------------- MODULE PartsProofs ----------------------------
(***************************************************************************)
(* The parts that share no state, for every size of their tables.  Sound:  *)
(* the ring of samples is a queue, although the audio thread counts under  *)
(* one lock and plays under another.  GROM: an interrupt routine that      *)
(* saves and restores the address does not move the program's place.       *)
(* Memory: an address reads as what was last stored in its place.          *)
(* Cassette: a recording has every level, a counter is what is left.       *)
(* Records: a text comes back from its DIS/VAR file.  Basic: a program     *)
(* comes back from its tokenised form.                                     *)
(***************************************************************************)
EXTENDS Cassette, Sound, Grom, Memory, Records, Basic, FoldLemmas, SequenceTheorems

(* Sound.  *)
SoundSpec == SoundInit /\ [][SoundNext]_soundVars

Slots == 0 .. Fifo - 1
-----------------------------------------------------------------------------
(* Indices that wrap once                                                   *)

LEMMA Wrapped ==
  ASSUME NEW x \in 0 .. 2 * Fifo - 1
  PROVE  /\ x < Fifo => x % Fifo = x
         /\ x >= Fifo => x % Fifo = x - Fifo
         /\ x % Fifo \in Slots
<1> DEFINE q == x \div Fifo
           r == x % Fifo
<1>1. Fifo \in Nat \ {0} /\ x \in Nat
  BY SoundAssumption
<1>2. q \in Nat /\ r \in Slots /\ x = q * Fifo + r
  BY <1>1 DEF Slots
<1> HIDE DEF q, r
<1>3. q < 2
  <2>1. CASE q >= 2
    <3>1. q * Fifo >= 2 * Fifo
      BY <1>1, <1>2, <2>1
    <3> QED BY <1>1, <1>2, <3>1 DEF Slots
  <2> QED BY <1>2, <2>1
<1>4. q = 0 \/ q = 1
  BY <1>2, <1>3
<1>5. r = x \/ r = x - Fifo
  <2>1. CASE q = 0
    BY <1>1, <1>2, <2>1 DEF Slots
  <2>2. CASE q = 1
    BY <1>1, <1>2, <2>2 DEF Slots
  <2> QED BY <1>4, <2>1, <2>2
<1>6. (x < Fifo => r = x) /\ (x >= Fifo => r = x - Fifo)
  BY <1>1, <1>2, <1>5 DEF Slots
<1> QED BY <1>2, <1>6 DEF r

LEMMA Distance ==
  ASSUME NEW head \in Slots, NEW tail \in Slots
  PROVE  /\ (Fifo + head - tail) % Fifo \in Slots
         /\ (Fifo + head - tail) % Fifo =
              IF head >= tail THEN head - tail ELSE Fifo + head - tail
<1> DEFINE x == Fifo + head - tail
<1>1. Fifo \in Nat \ {0} /\ head \in Nat /\ tail \in Nat /\ head < Fifo /\ tail < Fifo
  BY SoundAssumption DEF Slots
<1>2. x \in 0 .. 2 * Fifo - 1 /\ (x < Fifo <=> ~(head >= tail)) /\ x - Fifo = head - tail
  BY <1>1
<1> HIDE DEF x
<1>3. /\ x < Fifo => x % Fifo = x
      /\ x >= Fifo => x % Fifo = x - Fifo
      /\ x % Fifo \in Slots
  BY <1>2, Wrapped
<1>4. x \in Int
  BY <1>1, <1>2
<1>5. x % Fifo = IF head >= tail THEN head - tail ELSE x
  BY <1>1, <1>2, <1>3, <1>4
<1> QED BY <1>3, <1>5 DEF x

(* The i-th slot behind another                                             *)
LEMMA SlotBehind ==
  ASSUME NEW tail \in Slots, NEW i \in 1 .. Fifo
  PROVE  /\ (tail + i - 1) % Fifo \in Slots
         /\ (tail + i - 1) % Fifo = IF tail + i - 1 < Fifo THEN tail + i - 1 ELSE (tail + i - 1) - Fifo
<1> DEFINE x == tail + i - 1
<1>1. Fifo \in Nat \ {0}
  BY SoundAssumption
<1>2. x \in 0 .. 2 * Fifo - 1
  BY <1>1 DEF Slots
<1> HIDE DEF x
<1>3. /\ x < Fifo => x % Fifo = x
      /\ x >= Fifo => x % Fifo = x - Fifo
      /\ x % Fifo \in Slots
  BY <1>2, Wrapped
<1>4. x % Fifo = IF x < Fifo THEN x ELSE x - Fifo
  BY <1>1, <1>2, <1>3
<1> QED BY <1>3, <1>4 DEF x

LEMMA Further ==
  ASSUME NEW tail \in Slots, NEW n \in Slots
  PROVE  (tail + n) % Fifo \in Slots
         /\ (tail + n) % Fifo = IF tail + n < Fifo THEN tail + n ELSE (tail + n) - Fifo
<1>1. Fifo \in Nat \ {0}
  BY SoundAssumption
<1>2. n + 1 \in 1 .. Fifo /\ tail + (n + 1) - 1 = tail + n
  BY <1>1 DEF Slots
<1>3. /\ (tail + (n + 1) - 1) % Fifo \in Slots
      /\ (tail + (n + 1) - 1) % Fifo =
           IF tail + (n + 1) - 1 < Fifo THEN tail + (n + 1) - 1 ELSE (tail + (n + 1) - 1) - Fifo
  BY <1>2, SlotBehind
<1> QED BY <1>2, <1>3

-----------------------------------------------------------------------------
(* The ring                                                                 *)

Indices ==
  /\ soundAuxHead \in Slots /\ soundAuxTail \in Slots
  /\ soundAux \in [Slots -> AuxSamples]

LEMMA Ringed ==
  ASSUME Indices
  PROVE  /\ AuxCount \in Slots
         /\ AuxCount = IF soundAuxHead >= soundAuxTail THEN soundAuxHead - soundAuxTail
                       ELSE Fifo + soundAuxHead - soundAuxTail
         /\ Waiting \in Seq(AuxSamples) /\ Len(Waiting) = AuxCount
         /\ \A i \in 1 .. AuxCount : Waiting[i] = soundAux[(soundAuxTail + i - 1) % Fifo]
<1>1. /\ AuxCount \in Slots
      /\ AuxCount = IF soundAuxHead >= soundAuxTail THEN soundAuxHead - soundAuxTail
                       ELSE Fifo + soundAuxHead - soundAuxTail
  BY Distance DEF Indices, AuxCount
<1>2. AuxCount \in Nat /\ AuxCount < Fifo /\ Fifo \in Nat
  BY <1>1, SoundAssumption DEF Slots
<1>3. \A i \in 1 .. AuxCount : (soundAuxTail + i - 1) % Fifo \in Slots
  <2> SUFFICES ASSUME NEW i \in 1 .. AuxCount PROVE (soundAuxTail + i - 1) % Fifo \in Slots
    OBVIOUS
  <2>1. i \in 1 .. Fifo
    BY <1>2
  <2> QED BY <2>1, SlotBehind DEF Indices
<1>4. Waiting \in [1 .. AuxCount -> AuxSamples]
  BY <1>3 DEF Waiting, Indices
<1>5. Waiting \in Seq(AuxSamples) /\ Len(Waiting) = AuxCount
  BY <1>2, <1>4
<1>6. \A i \in 1 .. AuxCount : Waiting[i] = soundAux[(soundAuxTail + i - 1) % Fifo]
  BY DEF Waiting
<1> QED BY <1>1, <1>5, <1>6

(* The same of the next state                                               *)
LEMMA RingedNext ==
  ASSUME Indices'
  PROVE  /\ AuxCount' \in Slots
         /\ AuxCount' = IF soundAuxHead' >= soundAuxTail' THEN soundAuxHead' - soundAuxTail'
                        ELSE Fifo + soundAuxHead' - soundAuxTail'
         /\ Waiting' \in Seq(AuxSamples) /\ Len(Waiting') = AuxCount'
         /\ \A i \in 1 .. AuxCount' : Waiting'[i] = soundAux'[(soundAuxTail' + i - 1) % Fifo]
<1>1. /\ AuxCount' \in Slots
      /\ AuxCount' = IF soundAuxHead' >= soundAuxTail' THEN soundAuxHead' - soundAuxTail'
                        ELSE Fifo + soundAuxHead' - soundAuxTail'
  BY Distance DEF Indices, AuxCount
<1>2. AuxCount' \in Nat /\ AuxCount' < Fifo /\ Fifo \in Nat
  BY <1>1, SoundAssumption DEF Slots
<1>3. \A i \in 1 .. AuxCount' : (soundAuxTail' + i - 1) % Fifo \in Slots
  <2> SUFFICES ASSUME NEW i \in 1 .. AuxCount' PROVE (soundAuxTail' + i - 1) % Fifo \in Slots
    OBVIOUS
  <2>1. i \in 1 .. Fifo
    BY <1>2
  <2> QED BY <2>1, SlotBehind DEF Indices
<1>4. Waiting' \in [1 .. AuxCount' -> AuxSamples]
  BY <1>3 DEF Waiting, Indices
<1>5. Waiting' \in Seq(AuxSamples) /\ Len(Waiting') = AuxCount'
  BY <1>2, <1>4
<1>6. \A i \in 1 .. AuxCount' : Waiting'[i] = soundAux'[(soundAuxTail' + i - 1) % Fifo]
  BY DEF Waiting
<1> QED BY <1>1, <1>5, <1>6
-----------------------------------------------------------------------------
(* The invariant: a batch that was counted is there.                        *)
SoundInv ==
  /\ Indices
  /\ update.at = "counted" => AuxCount >= SampleCount

LEMMA SoundInvInit == SoundInit => SoundInv /\ Waiting = <<>>
<1> SUFFICES ASSUME SoundInit PROVE SoundInv /\ Waiting = <<>>
  OBVIOUS
<1>1. Indices
  BY SoundAssumption DEF SoundInit, Indices, Slots
<1>2. AuxCount = 0
  BY <1>1, Ringed, SoundAssumption DEF SoundInit
<1>3. Waiting = <<>>
  BY <1>1, <1>2, Ringed
<1> QED BY <1>1, <1>3 DEF SoundInit, SoundInv, Idle

(* A sample is put behind the others.                                       *)
LEMMA PutStep ==
  ASSUME SoundInv, NEW sample \in AuxSamples, SoundAuxData(sample)
  PROVE  SoundInv' /\ Waiting' = Append(Waiting, sample)
<1>1. Indices /\ AuxCount + 1 < Fifo /\ Fifo \in Nat \ {0}
  BY SoundAssumption DEF SoundInv, SoundAuxData, Paced
<1>2. soundAuxHead \in Slots /\ 1 \in Slots
  BY <1>1, Ringed DEF Indices, Slots
<1>3. soundAuxHead' = IF soundAuxHead + 1 < Fifo THEN soundAuxHead + 1 ELSE (soundAuxHead + 1) - Fifo
  BY <1>2, Further DEF SoundAuxData
<1>4. Indices'
  BY <1>1, <1>3 DEF SoundAuxData, Indices, Slots
<1>5. soundAuxTail' = soundAuxTail
  BY DEF SoundAuxData
<1>6. AuxCount' = AuxCount + 1
  <2>1. AuxCount' = IF soundAuxHead' >= soundAuxTail' THEN soundAuxHead' - soundAuxTail'
                    ELSE Fifo + soundAuxHead' - soundAuxTail'
    BY <1>4, RingedNext
  <2> QED BY <1>1, <1>3, <1>5, <2>1, Ringed DEF Indices, Slots
<1>7. SoundInv'
  BY <1>1, <1>4, <1>6, Ringed, SoundAssumption DEF SoundInv, SoundAuxData
<1>8. /\ Waiting \in Seq(AuxSamples) /\ Len(Waiting) = AuxCount
      /\ \A i \in 1 .. AuxCount : Waiting[i] = soundAux[(soundAuxTail + i - 1) % Fifo]
  BY <1>1, Ringed
<1>9. /\ Waiting' \in Seq(AuxSamples) /\ Len(Waiting') = AuxCount + 1
      /\ \A i \in 1 .. AuxCount + 1 : Waiting'[i] = soundAux'[(soundAuxTail + i - 1) % Fifo]
  BY <1>4, <1>5, <1>6, RingedNext
<1>10. AuxCount \in Nat
  BY <1>1, Ringed DEF Slots
<1>11. \A i \in 1 .. AuxCount : (soundAuxTail + i - 1) % Fifo # soundAuxHead
  <2> SUFFICES ASSUME NEW i \in 1 .. AuxCount PROVE (soundAuxTail + i - 1) % Fifo # soundAuxHead
    OBVIOUS
  <2>1. i \in 1 .. Fifo
    BY <1>1, <1>10
  <2>2. (soundAuxTail + i - 1) % Fifo = IF soundAuxTail + i - 1 < Fifo THEN soundAuxTail + i - 1
                                         ELSE (soundAuxTail + i - 1) - Fifo
    BY <1>1, <2>1, SlotBehind DEF Indices
  <2>3. AuxCount = IF soundAuxHead >= soundAuxTail THEN soundAuxHead - soundAuxTail
                   ELSE Fifo + soundAuxHead - soundAuxTail
    BY <1>1, Ringed
  <2>4. /\ soundAuxHead \in Nat /\ soundAuxHead < Fifo
        /\ soundAuxTail \in Nat /\ soundAuxTail < Fifo
    BY <1>1 DEF Indices, Slots
  <2> QED BY <1>1, <1>10, <2>1, <2>2, <2>3, <2>4
<1>12. (soundAuxTail + (AuxCount + 1) - 1) % Fifo = soundAuxHead
  <2>1. AuxCount + 1 \in 1 .. Fifo
    BY <1>1, <1>10
  <2>2. (soundAuxTail + (AuxCount + 1) - 1) % Fifo =
          IF soundAuxTail + (AuxCount + 1) - 1 < Fifo THEN soundAuxTail + (AuxCount + 1) - 1
          ELSE (soundAuxTail + (AuxCount + 1) - 1) - Fifo
    BY <1>1, <2>1, SlotBehind DEF Indices
  <2>3. AuxCount = IF soundAuxHead >= soundAuxTail THEN soundAuxHead - soundAuxTail
                   ELSE Fifo + soundAuxHead - soundAuxTail
    BY <1>1, Ringed
  <2>4. /\ soundAuxHead \in Nat /\ soundAuxHead < Fifo
        /\ soundAuxTail \in Nat /\ soundAuxTail < Fifo
    BY <1>1 DEF Indices, Slots
  <2> QED BY <1>1, <1>10, <2>1, <2>2, <2>3, <2>4
<1>13. soundAux' = [soundAux EXCEPT ![soundAuxHead] = sample]
  BY DEF SoundAuxData
<1>14. \A i \in 1 .. AuxCount : Waiting'[i] = Waiting[i]
  <2> SUFFICES ASSUME NEW i \in 1 .. AuxCount PROVE Waiting'[i] = Waiting[i]
    OBVIOUS
  <2>1. i \in 1 .. Fifo /\ i \in 1 .. AuxCount + 1
    BY <1>1, <1>10
  <2>2. (soundAuxTail + i - 1) % Fifo \in Slots
    BY <1>1, <2>1, SlotBehind DEF Indices
  <2>3. soundAux'[(soundAuxTail + i - 1) % Fifo] = soundAux[(soundAuxTail + i - 1) % Fifo]
    BY <1>1, <1>11, <1>13, <2>2 DEF Indices
  <2> QED BY <1>8, <1>9, <2>1, <2>3
<1>15. Waiting'[AuxCount + 1] = sample
  <2>1. AuxCount + 1 \in 1 .. AuxCount + 1
    BY <1>10
  <2>2. Waiting'[AuxCount + 1] = soundAux'[soundAuxHead]
    BY <1>9, <1>12, <2>1
  <2> QED BY <1>1, <1>13, <2>2 DEF Indices
<1>16. /\ Append(Waiting, sample) \in Seq(AuxSamples) /\ Len(Append(Waiting, sample)) = AuxCount + 1
       /\ \A i \in 1 .. AuxCount : Append(Waiting, sample)[i] = Waiting[i]
       /\ Append(Waiting, sample)[AuxCount + 1] = sample
  BY <1>8, AppendProperties
<1>17. \A i \in 1 .. AuxCount + 1 : Waiting'[i] = Append(Waiting, sample)[i]
  BY <1>10, <1>14, <1>15, <1>16
<1>18. Waiting' = Append(Waiting, sample)
  <2>1. \A i \in 1 .. Len(Waiting') : Waiting'[i] = Append(Waiting, sample)[i]
    BY <1>9, <1>17
  <2>2. Len(Waiting') = Len(Append(Waiting, sample))
    BY <1>9, <1>16
  <2> QED BY <1>9, <1>16, <2>1, <2>2, SeqEqual
<1> QED BY <1>7, <1>18

(* The batch that is played is the oldest, and it was put in.               *)
LEMMA PlayStep ==
  ASSUME SoundInv, PlayAux
  PROVE  /\ SoundInv' /\ Len(Waiting) >= SampleCount
         /\ Waiting' = SubSeq(Waiting, SampleCount + 1, Len(Waiting))
<1>1. Indices /\ AuxCount >= SampleCount /\ Fifo \in Nat \ {0} /\ SampleCount \in Nat
  BY SoundAssumption DEF SoundInv, PlayAux
<1>2. AuxCount \in 0 .. Fifo - 1
  BY <1>1, Ringed DEF Slots
<1>3. soundAuxTail \in Slots /\ SampleCount \in Slots
  BY <1>1, <1>2 DEF Indices, Slots
<1>4. soundAuxTail' = IF soundAuxTail + SampleCount < Fifo THEN soundAuxTail + SampleCount
                      ELSE (soundAuxTail + SampleCount) - Fifo
  BY <1>3, Further DEF PlayAux
<1>5. soundAux' = soundAux /\ soundAuxHead' = soundAuxHead /\ update' = Idle
  BY DEF PlayAux
<1>6. Indices'
  BY <1>1, <1>2, <1>4, <1>5 DEF Indices, Slots
<1>7. AuxCount' = AuxCount - SampleCount
  <2>1. AuxCount' = IF soundAuxHead' >= soundAuxTail' THEN soundAuxHead' - soundAuxTail'
                    ELSE Fifo + soundAuxHead' - soundAuxTail'
    BY <1>6, RingedNext
  <2> QED BY <1>1, <1>2, <1>4, <1>5, <2>1, Ringed DEF Indices, Slots
<1>8. SoundInv'
  BY <1>5, <1>6 DEF SoundInv, Idle
<1>9. /\ Waiting \in Seq(AuxSamples) /\ Len(Waiting) = AuxCount
      /\ \A i \in 1 .. AuxCount : Waiting[i] = soundAux[(soundAuxTail + i - 1) % Fifo]
  BY <1>1, Ringed
<1>10. /\ Waiting' \in Seq(AuxSamples) /\ Len(Waiting') = AuxCount - SampleCount
       /\ \A i \in 1 .. AuxCount - SampleCount : Waiting'[i] = soundAux[(soundAuxTail' + i - 1) % Fifo]
  BY <1>5, <1>6, <1>7, RingedNext
<1> DEFINE rest == SubSeq(Waiting, SampleCount + 1, AuxCount)
<1>11. /\ rest \in Seq(AuxSamples) /\ Len(rest) = AuxCount - SampleCount
       /\ \A i \in 1 .. AuxCount - SampleCount : rest[i] = Waiting[SampleCount + i]
  <2>1. SampleCount + 1 \in 1 .. AuxCount + 1 /\ AuxCount \in SampleCount .. Len(Waiting)
    BY <1>1, <1>2, <1>9
  <2>2. rest \in Seq(AuxSamples)
    BY <1>1, <1>2, <1>9
  <2>3. Len(rest) = AuxCount - SampleCount
    BY <1>1, <1>2, <1>9
  <2>4. \A i \in 1 .. AuxCount - SampleCount : rest[i] = Waiting[SampleCount + i]
    BY <1>1, <1>2, <1>9
  <2> QED BY <2>2, <2>3, <2>4
<1>12. \A i \in 1 .. AuxCount - SampleCount : Waiting'[i] = Waiting[SampleCount + i]
  <2> SUFFICES ASSUME NEW i \in 1 .. AuxCount - SampleCount
               PROVE  Waiting'[i] = Waiting[SampleCount + i]
    OBVIOUS
  <2>1. SampleCount + i \in 1 .. AuxCount /\ SampleCount + i \in 1 .. Fifo /\ i \in 1 .. Fifo
    BY <1>1, <1>2
  <2>2. (soundAuxTail + (SampleCount + i) - 1) % Fifo =
          IF soundAuxTail + (SampleCount + i) - 1 < Fifo THEN soundAuxTail + (SampleCount + i) - 1
          ELSE (soundAuxTail + (SampleCount + i) - 1) - Fifo
    BY <1>1, <2>1, SlotBehind DEF Indices
  <2>3. (soundAuxTail' + i - 1) % Fifo =
          IF soundAuxTail' + i - 1 < Fifo THEN soundAuxTail' + i - 1
          ELSE (soundAuxTail' + i - 1) - Fifo
    BY <1>6, <2>1, SlotBehind DEF Indices
  <2>4. (soundAuxTail' + i - 1) % Fifo = (soundAuxTail + (SampleCount + i) - 1) % Fifo
    BY <1>1, <1>2, <1>4, <2>1, <2>2, <2>3 DEF Indices, Slots
  <2> QED BY <1>9, <1>10, <2>1, <2>4
<1>13. Waiting' = rest
  <2>1. \A i \in 1 .. Len(Waiting') : Waiting'[i] = rest[i]
    BY <1>10, <1>11, <1>12
  <2>2. Len(Waiting') = Len(rest)
    BY <1>10, <1>11
  <2> HIDE DEF rest
  <2> QED BY <1>10, <1>11, <2>1, <2>2, SeqEqual
<1> QED BY <1>1, <1>8, <1>9, <1>13

(* Everything else leaves the ring alone.                                   *)
LEMMA OtherSteps ==
  ASSUME SoundInv, UNCHANGED ringVars, update'.at = "counted" => AuxCount >= SampleCount
  PROVE  SoundInv' /\ Waiting' = Waiting
BY DEF SoundInv, ringVars, Indices, Waiting, AuxCount

LEMMA SoundInvNext ==
  ASSUME SoundInv, [SoundNext]_soundVars
  PROVE  SoundInv' /\ [Ring!Put \/ Ring!TakeBatch]_Waiting
<1>1. CASE SoundWrite
  BY <1>1, OtherSteps DEF SoundWrite, SoundInv, ringVars
<1>2. ASSUME NEW sample \in AuxSamples, SoundAuxData(sample)
      PROVE  SoundInv' /\ [Ring!Put \/ Ring!TakeBatch]_Waiting
  BY <1>2, PutStep DEF Ring!Put
<1>3. CASE CountAux
  BY <1>3, OtherSteps DEF CountAux, ringVars
<1>4. CASE PlayAux
  BY <1>4, PlayStep DEF Ring!TakeBatch
<1>5. CASE GenerateTone
  <2>1. UNCHANGED ringVars /\ update.at = "tones"
    BY <1>5 DEF GenerateTone
  <2>2. update'.at = "counted" => FALSE
    <3>1. update' = Idle \/ update' = [update EXCEPT !.left = @ - 1]
      BY <1>5 DEF GenerateTone
    <3>2. CASE update' = Idle
      BY <3>2 DEF Idle
    <3>3. CASE update' = [update EXCEPT !.left = @ - 1]
      BY <2>1, <3>3
    <3> QED BY <3>1, <3>2, <3>3
  <2> QED BY <2>1, <2>2, OtherSteps
<1>6. CASE UNCHANGED soundVars
  BY <1>6, OtherSteps DEF soundVars, ringVars, SoundInv
<1> QED BY <1>1, <1>2, <1>3, <1>4, <1>5, <1>6 DEF SoundNext, AudioThread

(* Every sample of the cassette is played once, in order and not before it  *)
(* was put in: counting and playing under two locks does no harm, because   *)
(* nobody else takes samples out.                                           *)
THEOREM RingRefinesQueue == SoundSpec => RingIsQueue
<1>1. SoundInit => Ring!QueueInit
  BY SoundInvInit DEF Ring!QueueInit
<1> QED BY <1>1, SoundInvInit, SoundInvNext, PTL DEF SoundSpec, RingIsQueue, Ring!QueueSpec

(* The audio thread never plays more than the ring holds.                   *)
THEOREM BatchIsThere == SoundSpec => [](update.at = "counted" => AuxCount >= SampleCount)
<1>1. SoundInv => (update.at = "counted" => AuxCount >= SampleCount)
  BY DEF SoundInv
<1> QED BY <1>1, SoundInvInit, SoundInvNext, PTL DEF SoundSpec

-----------------------------------------------------------------------------
(* GROM.  *)
GromSpec == GromInit /\ [][GromNext]_gromVars

-----------------------------------------------------------------------------
(* Arithmetic of bytes and addresses                                       *)

Bytes == 0 .. ByteRange - 1
GromAddresses == 0 .. AddressRange - 1

LEMMA Division ==
  ASSUME NEW a \in Nat
  PROVE  /\ a \div ByteRange \in Nat
         /\ a % ByteRange \in Bytes
         /\ a = (a \div ByteRange) * ByteRange + (a % ByteRange)
  BY GromAssumption DEF Bytes

LEMMA Multiples ==
  ASSUME NEW h \in Nat, NEW b \in Bytes
  PROVE  /\ (h * ByteRange + b) \div ByteRange = h
         /\ (h * ByteRange + b) % ByteRange = b
  BY GromAssumption DEF Bytes

LEMMA HighBytes ==
  ASSUME NEW a \in GromAddresses
  PROVE  High(a) \in Bytes /\ Low(a) \in Bytes /\ a = High(a) * ByteRange + Low(a)
  BY GromAssumption, Division DEF Bytes, GromAddresses, AddressRange, High, Low

LEMMA AddressOfBytes ==
  ASSUME NEW h \in Bytes, NEW l \in Bytes
  PROVE  h * ByteRange + l \in GromAddresses
  BY GromAssumption DEF Bytes, GromAddresses, AddressRange

LEMMA Zero == 0 \in Bytes
  BY GromAssumption DEF Bytes

LEMMA TwoBytes ==
  ASSUME NEW x \in Bytes, NEW y \in Bytes
  PROVE  Append(<<x>>, y) = <<x, y>> /\ <<x, y>> \in Seq(Bytes)
<1>1. <<x, y>> \in Seq(Bytes) /\ <<x>> \in Seq(Bytes)
  OBVIOUS
<1>2. Append(<<x>>, y) \in Seq(Bytes)
  BY <1>1
<1>3. Len(Append(<<x>>, y)) = 2 /\ Len(<<x, y>>) = 2
  BY <1>1
<1>4. \A i \in 1 .. 2 : Append(<<x>>, y)[i] = <<x, y>>[i]
  BY <1>1
<1> QED BY <1>1, <1>2, <1>3, <1>4, SeqEqual

(* What a routine saves is one more than the address, in bytes that wrap;   *)
(* what it restores is the address, at the ends of pages and of the range.  *)
LEMMA SavedIsAddress ==
  ASSUME NEW a \in GromAddresses,
         routine.saved = <<((a + 1) \div ByteRange) % ByteRange, (a + 1) % ByteRange>>
  PROVE  Saved = a
<1> DEFINE h == (a + 1) \div ByteRange
           l == (a + 1) % ByteRange
<1>1. h \in Nat /\ l \in Bytes /\ a + 1 = h * ByteRange + l /\ a \in Nat
  BY GromAssumption, Division, a + 1 \in Nat, SMTT(40) DEF GromAddresses, AddressRange
<1>2. AddressRange \in Nat \ {0} /\ ByteRange \in Nat \ {0}
  BY GromAssumption DEF AddressRange
<1>3. Saved = ((h % ByteRange) * ByteRange + l + AddressRange - 1) % AddressRange
  BY DEF Saved
<1> HIDE DEF h, l
<1>4. CASE h < ByteRange
  <2>1. h % ByteRange = h
    BY <1>1, <1>2, <1>4
  <2>2. Saved = (a + AddressRange) % AddressRange
    BY <1>1, <1>2, <1>3, <2>1
  <2> QED BY <1>2, <2>2 DEF GromAddresses
<1>5. CASE h >= ByteRange
  <2>1. a + 1 <= AddressRange
    BY <1>2 DEF GromAddresses
  <2>2. h * ByteRange >= AddressRange
    BY <1>1, <1>2, <1>5 DEF AddressRange
  <2>3. l = 0 /\ a + 1 = AddressRange /\ h * ByteRange = AddressRange
    BY <1>1, <1>2, <2>1, <2>2 DEF Bytes
  <2>4. h = ByteRange
    <3>1. h * ByteRange + 0 = ByteRange * ByteRange + 0
      BY <1>1, <1>2, <2>3 DEF AddressRange
    <3>2. (h * ByteRange + 0) \div ByteRange = h
      BY <1>1, Multiples, Zero
    <3>3. (ByteRange * ByteRange + 0) \div ByteRange = ByteRange
      BY <1>2, Multiples, Zero
    <3> QED BY <3>1, <3>2, <3>3
  <2>5. h % ByteRange = 0
    BY <1>2, <2>4
  <2>6. Saved = (AddressRange - 1) % AddressRange
    BY <1>2, <1>3, <2>3, <2>5
  <2>7. \A r \in Nat \ {0} : (r - 1) % r = r - 1
    OBVIOUS
  <2>8. Saved = AddressRange - 1
    BY <1>2, <2>6, <2>7
  <2> QED BY <1>1, <1>2, <2>3, <2>8
<1> QED BY <1>1, <1>2, <1>4, <1>5

-----------------------------------------------------------------------------
(* The port                                                                *)

Ports == [addr : GromAddresses, lowByteGet : BOOLEAN, lowByteSet : BOOLEAN]

LEMMA PortSteps ==
  ASSUME NEW g \in Ports, NEW b \in Bytes
  PROVE  /\ ReadGrom(g) \in Ports
         /\ GetAddress(g).grom \in Ports /\ GetAddress(g).byte \in Bytes
         /\ SetGromAddress(g, b) \in Ports
<1>1. (g.addr + 1) % AddressRange \in GromAddresses /\ g.addr \in GromAddresses
  BY GromAssumption DEF Ports, GromAddresses, AddressRange
<1>2. (g.addr + 1) % ByteRange \in Bytes /\ ((g.addr + 1) \div ByteRange) % ByteRange \in Bytes
  BY <1>1, Division, g.addr + 1 \in Nat DEF GromAddresses
<1>3. g.addr \div ByteRange \in Bytes /\ 0 \in Bytes
  BY <1>1, HighBytes, GromAssumption DEF High, Bytes
<1>4. /\ (g.addr \div ByteRange) * ByteRange + b \in GromAddresses
      /\ b * ByteRange + 0 \in GromAddresses
  BY <1>3, AddressOfBytes
<1>5. b * ByteRange \in GromAddresses
  BY <1>4, GromAssumption DEF Bytes
<1> QED BY <1>1, <1>2, <1>4, <1>5 DEF Ports, ReadGrom, GetAddress, SetGromAddress

-----------------------------------------------------------------------------
(* The invariant: where the address is at each place of program and routine *)

SavedOf(a) == <<((a + 1) \div ByteRange) % ByteRange, (a + 1) % ByteRange>>

Untouched == gRom = [addr |-> aim, lowByteGet |-> FALSE, lowByteSet |-> FALSE]

Places ==
  \/ routine = NoRoutine /\ program = <<>> /\ Untouched
  \/ /\ routine = NoRoutine /\ program = <<Low(aim)>>
     /\ gRom.addr = High(aim) * ByteRange /\ gRom.lowByteSet
  \/ /\ routine = [at |-> "save", saved |-> <<SavedOf(aim)[1]>>, reads |-> 0] /\ program = <<>>
     /\ gRom = [addr |-> aim, lowByteGet |-> TRUE, lowByteSet |-> FALSE]
  \/ /\ routine.at \in {"use", "read"} /\ routine.saved = SavedOf(aim) /\ program = <<>>
     /\ ~gRom.lowByteSet
  \/ /\ routine.at = "restore" /\ routine.saved = SavedOf(aim) /\ program = <<>>
     /\ gRom.addr = High(aim) * ByteRange /\ gRom.lowByteSet

Routines == [at : {"none", "save", "use", "read", "restore"}, saved : Seq(Bytes), reads : Nat]

GromInv ==
  /\ gRom \in Ports
  /\ aim \in GromAddresses
  /\ routine \in Routines
  /\ Places

LEMMA GromInvInit == GromInit => GromInv
<1>1. 0 \in GromAddresses
  BY GromAssumption DEF GromAddresses, AddressRange
<1> QED BY <1>1 DEF GromInit, GromInv, Ports, Routines, Places, Untouched, NoRoutine

LEMMA GromInvNext ==
  ASSUME GromInv, [GromNext]_gromVars PROVE GromInv'
<1> USE DEF GromInv
<1>1. \A b \in Bytes : SetGromAddress(gRom, b) \in Ports
  BY PortSteps
<1>2. /\ ReadGrom(gRom) \in Ports
      /\ GetAddress(gRom).grom \in Ports /\ GetAddress(gRom).byte \in Bytes
  BY PortSteps, Zero
<1>3. High(aim) \in Bytes /\ Low(aim) \in Bytes /\ aim = High(aim) * ByteRange + Low(aim)
  BY HighBytes
<1>4. /\ High(aim) * ByteRange = (High(aim) * ByteRange + 0)
      /\ ((High(aim) * ByteRange) \div ByteRange) * ByteRange + Low(aim) = aim
  <2>1. High(aim) \in Nat /\ Low(aim) \in Nat /\ ByteRange \in Nat \ {0}
    BY <1>3, GromAssumption DEF Bytes
  <2>2. High(aim) * ByteRange \in Nat /\ High(aim) * ByteRange = High(aim) * ByteRange + 0
    BY <2>1
  <2>3. (High(aim) * ByteRange + 0) \div ByteRange = High(aim)
    BY <2>1, Multiples, Zero
  <2> QED BY <1>3, <2>2, <2>3
<1>5. SavedOf(aim)[1] \in Bytes /\ SavedOf(aim)[2] \in Bytes
  <2>1. aim + 1 \in Nat
    BY DEF GromAddresses
  <2>2. (aim + 1) \div ByteRange \in Nat /\ (aim + 1) % ByteRange \in Bytes
    BY <2>1, Division
  <2>3. ((aim + 1) \div ByteRange) % ByteRange \in Bytes
    BY <2>2, Division
  <2> QED BY <2>2, <2>3 DEF SavedOf
<1>6. routine.saved = SavedOf(aim) => Saved = aim
  BY SavedIsAddress DEF SavedOf
<1>7. ASSUME NEW target \in Targets, StartAddress(target) PROVE GromInv'
  <2>1. target \in GromAddresses /\ High(target) \in Bytes
    BY GromAssumption, HighBytes DEF GromAddresses
  <2>2. routine = NoRoutine /\ Untouched
    BY <1>7 DEF StartAddress, Interrupted, Places
  <2> QED BY <1>1, <1>7, <2>1, <2>2 DEF StartAddress, SetGromAddress, Places, Untouched
<1>8. CASE EndAddress
  <2>1. /\ routine = NoRoutine /\ program = <<Low(aim)>>
        /\ gRom.addr = High(aim) * ByteRange /\ gRom.lowByteSet
    BY <1>8 DEF EndAddress, Interrupted, Places
  <2> QED BY <1>1, <1>3, <1>4, <1>8, <2>1 DEF EndAddress, SetGromAddress, Places, Untouched
<1>9. CASE ReadNext
  <2>1. routine = NoRoutine /\ Untouched
    BY <1>9 DEF ReadNext, Interrupted, Places
  <2>2. gRom' = [addr |-> aim', lowByteGet |-> FALSE, lowByteSet |-> FALSE]
    BY <1>9, <2>1 DEF ReadNext, ReadGrom, Untouched
  <2>3. aim' \in GromAddresses /\ gRom' \in Ports
    BY <1>2, <1>9, <2>1 DEF ReadNext, ReadGrom, Untouched, Ports
  <2>4. routine' = NoRoutine /\ program' = <<>>
    BY <1>9, <2>1 DEF ReadNext
  <2>5. Places'
    BY <2>2, <2>4 DEF Places, Untouched
  <2> QED BY <1>9, <2>3, <2>5 DEF ReadNext
<1>10. CASE SaveHigh
  <2>1. Untouched /\ program = <<>>
    BY <1>10 DEF SaveHigh, Interrupted, Places, NoRoutine
  <2>2. GetAddress(gRom).byte = SavedOf(aim)[1]
    BY <2>1 DEF Untouched, GetAddress, SavedOf
  <2>3. routine' = [at |-> "save", saved |-> <<SavedOf(aim)[1]>>, reads |-> 0] /\ routine' \in Routines
    BY <1>5, <1>10, <2>2 DEF SaveHigh, Routines
  <2>4. gRom' = [addr |-> aim, lowByteGet |-> TRUE, lowByteSet |-> FALSE]
    BY <1>10, <2>1 DEF SaveHigh, GetAddress, Untouched
  <2>5. program' = <<>> /\ aim' = aim
    BY <1>10 DEF SaveHigh
  <2>6. Places'
    BY <2>3, <2>4, <2>5 DEF Places
  <2> QED BY <1>2, <1>10, <2>3, <2>5, <2>6 DEF SaveHigh
<1>11. CASE SaveLow
  <2>1. /\ routine.saved = <<SavedOf(aim)[1]>> /\ program = <<>>
        /\ gRom = [addr |-> aim, lowByteGet |-> TRUE, lowByteSet |-> FALSE]
    BY <1>11 DEF SaveLow, Places, NoRoutine
  <2>2. GetAddress(gRom).byte = SavedOf(aim)[2]
    BY <2>1 DEF GetAddress, SavedOf
  <2>3. SavedOf(aim) = <<SavedOf(aim)[1], SavedOf(aim)[2]>>
    BY DEF SavedOf
  <2>4. Append(<<SavedOf(aim)[1]>>, SavedOf(aim)[2]) = <<SavedOf(aim)[1], SavedOf(aim)[2]>>
    BY <1>5, TwoBytes
  <2>5. routine' = [routine EXCEPT !.at = "use", !.saved = SavedOf(aim)]
    BY <1>11, <2>1, <2>2, <2>3, <2>4 DEF SaveLow
  <2>6. SavedOf(aim) \in Seq(Bytes)
    BY <1>5, <2>3, TwoBytes
  <2>7. routine' \in Routines /\ routine'.at = "use" /\ routine'.saved = SavedOf(aim)
    BY <2>5, <2>6 DEF Routines
  <2>8. ~gRom'.lowByteSet /\ program' = <<>> /\ aim' = aim
    BY <1>11, <2>1 DEF SaveLow, GetAddress
  <2>9. Places'
    BY <2>7, <2>8 DEF Places
  <2> QED BY <1>2, <1>11, <2>7, <2>8, <2>9 DEF SaveLow
<1>12. ASSUME NEW target \in Targets, NEW whole \in BOOLEAN, RoutineAddress(target, whole)
       PROVE  GromInv'
  <2>1. High(target) \in Bytes /\ Low(target) \in Bytes
    BY GromAssumption, HighBytes DEF GromAddresses
  <2>2. routine.saved = SavedOf(aim) /\ program = <<>> /\ ~gRom.lowByteSet
    BY <1>12 DEF RoutineAddress, Places, NoRoutine
  <2>3. SetGromAddress(gRom, High(target)) \in Ports /\ SetGromAddress(gRom, High(target)).lowByteSet
    BY <1>1, <2>1, <2>2 DEF SetGromAddress, Ports
  <2>4. gRom' \in Ports /\ ~gRom'.lowByteSet
    BY <1>12, <2>1, <2>3, PortSteps DEF RoutineAddress, SetGromAddress, ReadGrom, Ports
  <2> QED BY <1>12, <2>2, <2>4 DEF RoutineAddress, Places, Routines
<1>13. CASE RoutineRead
  <2>1. routine.saved = SavedOf(aim) /\ program = <<>>
    BY <1>13 DEF RoutineRead, Places, NoRoutine
  <2>2. ~gRom'.lowByteSet
    BY <1>13 DEF RoutineRead, ReadGrom
  <2> QED BY <1>2, <1>13, <2>1, <2>2 DEF RoutineRead, Places, Routines
<1>14. CASE RestoreHigh
  <2>1. routine.saved = SavedOf(aim) /\ program = <<>> /\ ~gRom.lowByteSet
    BY <1>14 DEF RestoreHigh, Places, NoRoutine
  <2>2. gRom' = [gRom EXCEPT !.addr = High(aim) * ByteRange, !.lowByteSet = TRUE]
    BY <1>6, <1>14, <2>1 DEF RestoreHigh, SetGromAddress
  <2>3. gRom' \in Ports
    BY <1>1, <1>3, <1>6, <1>14, <2>1 DEF RestoreHigh
  <2> QED BY <1>14, <2>1, <2>2, <2>3 DEF RestoreHigh, Places, Routines, Ports
<1>15. CASE RestoreLow
  <2>1. /\ routine.saved = SavedOf(aim) /\ program = <<>>
        /\ gRom.addr = High(aim) * ByteRange /\ gRom.lowByteSet
    BY <1>15 DEF RestoreLow, Places, NoRoutine
  <2>2. gRom' = [addr |-> aim, lowByteGet |-> FALSE, lowByteSet |-> FALSE]
    BY <1>4, <1>6, <1>15, <2>1 DEF RestoreLow, SetGromAddress
  <2>3. NoRoutine \in Routines
    BY DEF NoRoutine, Routines
  <2> QED BY <1>15, <2>1, <2>2, <2>3 DEF RestoreLow, Places, Untouched, Ports
<1>16. CASE UNCHANGED gromVars
  BY <1>16 DEF gromVars, Places, Untouched, Saved
<1> QED
  BY <1>7, <1>8, <1>9, <1>10, <1>11, <1>12, <1>13, <1>14, <1>15, <1>16 DEF GromNext

(* The program's place survives every routine that saves and restores it,   *)
(* at the end of the address range too.                                     *)
THEOREM PlaceSurvivesRoutines == GromSpec => []GromPlaceKept
<1>1. GromInv => GromPlaceKept
  BY DEF GromInv, Places, Untouched, GromPlaceKept, Interrupted, NoRoutine
<1> QED BY <1>1, GromInvInit, GromInvNext, PTL DEF GromSpec

(* Addresses stay addresses and what a routine saved stays bytes.           *)
THEOREM GromTypes == GromSpec => []GromTypeOK
<1>1. GromInv => GromTypeOK
  <2> SUFFICES ASSUME GromInv PROVE GromTypeOK
    OBVIOUS
  <2>1. routine.saved \in Seq(Bytes) /\ gRom.addr \in GromAddresses
    BY DEF GromInv, Routines, Ports
  <2>2. \A i \in DOMAIN routine.saved : routine.saved[i] \in Bytes
    BY <2>1
  <2> QED BY <2>1, <2>2 DEF GromAddresses, Bytes, GromTypeOK
<1> QED BY <1>1, GromInvInit, GromInvNext, PTL DEF GromSpec

-----------------------------------------------------------------------------
(* Memory.                                                                 *)
MemorySpec == MemoryInit /\ [][MemoryNext]_memoryVars

Holders == {"console", "ram", "device", "cartridge", "file", "scratch"}

(* The places that hold bytes, and the cell of each                        *)
BytePlaces ==
  {p \in Holders \X Below(64) \X Address :
     \/ p[1] = "console" /\ p[2] = 0 /\ p[3] < 8192
     \/ p[1] = "ram" /\ p[2] = 0 /\ p[3] >= 8192 /\ p[3] < 16384
     \/ p[1] = "ram" /\ p[2] = 0 /\ p[3] >= 40960
     \/ p[1] = "device" /\ p[2] < 16 /\ p[3] >= 16384 /\ p[3] < 24576
     \/ p[1] = "cartridge" /\ p[3] >= 24576 /\ p[3] < 32768
     \/ p[1] = "file" /\ p[2] = 0 /\ p[3] >= 28672 /\ p[3] < 32768
     \/ p[1] = "scratch" /\ p[2] = 0 /\ p[3] < 256}

PlaceBase(p) ==
  IF p[1] = "ram" THEN IF p[3] < 16384 THEN 8192 ELSE 32768
  ELSE IF p[1] = "device" THEN 16384
  ELSE IF p[1] = "cartridge" THEN 24576
  ELSE IF p[1] = "file" THEN 28672
  ELSE 0

CellOf(p) == <<p[1], p[2] * 8192 + p[3] - PlaceBase(p)>>

Cells == Holders \X Below(64 * 8192)

LEMMA CellsDiffer ==
  ASSUME NEW p \in BytePlaces, NEW q \in BytePlaces
  PROVE  /\ CellOf(p) \in Cells
         /\ CellOf(p) = CellOf(q) => p = q
         /\ CellOf(p)[1] = p[1]
<1>1. /\ p[1] \in Holders /\ p[2] \in Below(64) /\ p[3] \in Address /\ p = <<p[1], p[2], p[3]>>
      /\ q[1] \in Holders /\ q[2] \in Below(64) /\ q[3] \in Address /\ q = <<q[1], q[2], q[3]>>
  BY DEF BytePlaces
<1>2. p[2] * 8192 + p[3] - PlaceBase(p) \in Below(64 * 8192)
  BY <1>1 DEF BytePlaces, PlaceBase, Holders, Address, Below
<1>3. ASSUME p[1] = q[1], p[2] * 8192 + p[3] - PlaceBase(p) = q[2] * 8192 + q[3] - PlaceBase(q)
      PROVE  p[2] = q[2] /\ p[3] = q[3]
  <2>1. CASE p[1] = "ram"
    <3>1. p[2] = 0 /\ q[2] = 0
      BY <1>1, <1>3, <2>1 DEF BytePlaces
    <3>2. /\ (p[3] >= 8192 /\ p[3] < 16384) \/ p[3] >= 40960
          /\ (q[3] >= 8192 /\ q[3] < 16384) \/ q[3] >= 40960
      BY <1>1, <1>3, <2>1 DEF BytePlaces
    <3>3. /\ PlaceBase(p) = IF p[3] < 16384 THEN 8192 ELSE 32768
          /\ PlaceBase(q) = IF q[3] < 16384 THEN 8192 ELSE 32768
      BY <1>3, <2>1 DEF PlaceBase
    <3> QED BY <1>1, <1>3, <3>1, <3>2, <3>3 DEF Address, Below
  <2>2. CASE p[1] # "ram"
    <3>1. PlaceBase(p) = PlaceBase(q)
      BY <1>3, <2>2 DEF PlaceBase
    <3>2. p[3] - PlaceBase(p) >= 0 /\ p[3] - PlaceBase(p) < 8192
      BY <1>1, <2>2 DEF BytePlaces, PlaceBase, Holders, Address, Below
    <3>3. q[3] - PlaceBase(q) >= 0 /\ q[3] - PlaceBase(q) < 8192
      BY <1>1, <1>3, <2>2 DEF BytePlaces, PlaceBase, Holders, Address, Below
    <3>4. PlaceBase(p) \in Int
      BY DEF PlaceBase
    <3>5. PICK o \in Int, w \in Int : o = p[3] - PlaceBase(p) /\ w = q[3] - PlaceBase(q)
      BY <1>1, <3>1, <3>4 DEF Address, Below
    <3>6. p[2] \in Int /\ q[2] \in Int /\ p[2] * 8192 + o = q[2] * 8192 + w
      BY <1>1, <1>3, <3>1, <3>4, <3>5 DEF Address, Below
    <3>7. p[2] = q[2] /\ o = w
      BY ONLY <3>2, <3>3, <3>5, <3>6, SMTT(40)
    <3> QED BY <1>1, <3>1, <3>4, <3>5, <3>7 DEF Address, Below
  <2> QED BY <2>1, <2>2
<1> QED BY <1>1, <1>2, <1>3 DEF CellOf, Cells

(* The bytes of cells and those of places, 0 if none was stored            *)
Kept(f, x) == IF x \in DOMAIN f THEN f[x] ELSE 0

Agree(data, there) == \A p \in BytePlaces : Kept(data, CellOf(p)) = Kept(there, p)

(* What is stored in cells of places and remembered in these places        *)
Matching(f, g) ==
  /\ DOMAIN g \subseteq BytePlaces
  /\ DOMAIN f = {CellOf(p) : p \in DOMAIN g}
  /\ \A p \in DOMAIN g : f[CellOf(p)] = g[p]

LEMMA OverlaysAgree ==
  ASSUME NEW f, NEW g, NEW data, NEW there, Matching(f, g), Agree(data, there)
  PROVE  Agree(Overlay(f, data), Overlay(g, there))
<1> SUFFICES ASSUME NEW p \in BytePlaces
             PROVE  Kept(Overlay(f, data), CellOf(p)) = Kept(Overlay(g, there), p)
  BY DEF Agree
<1>1. CellOf(p) \in DOMAIN f <=> p \in DOMAIN g
  BY CellsDiffer DEF Matching
<1>2. Kept(data, CellOf(p)) = Kept(there, p)
  BY DEF Agree
<1>3. \A h, k, x : Kept(Overlay(h, k), x) = IF x \in DOMAIN h THEN h[x] ELSE Kept(k, x)
  BY DEF Kept, Overlay
<1>4. p \in DOMAIN g => f[CellOf(p)] = g[p]
  BY DEF Matching
<1> QED BY <1>1, <1>2, <1>3, <1>4

(* The tables of pages stand for                                           *)
Maps(m) ==
  /\ m.bank \in Below(64) /\ m.device \in Below(16) /\ m.deviceRom \in Below(16)
  /\ m.split \in BOOLEAN /\ m.mapped \in BOOLEAN
  /\ m.split => m.bank = 0

(* A stretch of addresses from low on, all on the same page, where the     *)
(* place of each address is the cell of the page                           *)
Stretch(m, page, low) ==
  /\ low \in Nat /\ low % 2 = 0
  /\ page.mask \in {255, 4095, 8191} /\ page.base \in Nat
  /\ \A b \in Nat : low <= b /\ b <= low + page.mask =>
       /\ b < 65536
       /\ MemMapEntry(m, b) = page
       /\ b % (page.mask + 1) = b - low
       /\ Place(m, b) \in BytePlaces
       /\ Cell(page, b - low) = CellOf(Place(m, b))

Reaches(m, addr) ==
  \E low \in Nat : /\ Stretch(m, MemMapEntry(m, addr), low)
                   /\ low <= addr /\ addr <= low + MemMapEntry(m, addr).mask

LEMMA FirstEntry ==
  ASSUME NEW m, NEW b, b \div 8192 = 0
  PROVE  MemMapEntry(m, b) = MapMain(m, 0)
BY DEF MemMapEntry

LEMMA Stretches ==
  ASSUME NEW m, Maps(m), NEW addr \in Address, Place(m, addr)[1] # "port"
  PROVE  Reaches(m, addr)
<1> addr \in Nat /\ addr < 65536 /\ m.split \in BOOLEAN /\ m.mapped \in BOOLEAN
  BY DEF Address, Below, Maps
<1>1. ASSUME 0 <= addr, addr <= 8191
      PROVE  Reaches(m, addr)
  <2> DEFINE page == Page("console", 0, 8191, "ignore")
  <2>1. ASSUME NEW b \in Nat, 0 <= b, b <= 8191
        PROVE  /\ MemMapEntry(m, b) = page
               /\ b % 8192 = b - 0
               /\ Place(m, b) = <<"console", 0, b>>
    <3>1. b \div 8192 = 0 /\ b % 8192 = b - 0
      BY <2>1
    <3>2. MemMapEntry(m, b) = page
      <4>1. MemMapEntry(m, b) = MapMain(m, 0)
        BY <3>1, FirstEntry
      <4> QED BY <4>1 DEF MapMain
    <3>3. Place(m, b) = <<"console", 0, b>>
      BY <1>1, <2>1 DEF Place, Maps
    <3> QED BY <3>1, <3>2, <3>3
  <2>2. ASSUME NEW b \in Nat, 0 <= b, b <= 8191
        PROVE  /\ <<"console", 0, b>> \in BytePlaces
               /\ Cell(page, b - 0) = CellOf(<<"console", 0, b>>)
    <3>1. <<"console", 0, b>> \in BytePlaces
      BY <1>1, <2>2 DEF BytePlaces, Holders, Maps, Address, Below
    <3>2. Cell(page, b - 0) = CellOf(<<"console", 0, b>>)
      BY <1>1, <2>2 DEF Cell, CellOf, PlaceBase, Page, Maps, Address, Below
    <3> QED BY <3>1, <3>2
  <2>3. page.mask = 8191 /\ 0 + 8191 = 8191 /\ 0 % 2 = 0 /\ 0 \in Nat /\ page.base \in Nat
    BY DEF Page, Maps, Address, Below
  <2> HIDE DEF page
  <2>4. Stretch(m, page, 0)
    BY <2>1, <2>2, <2>3 DEF Stretch
  <2>5. MemMapEntry(m, addr) = page
    BY <1>1, <2>1
  <2> QED BY <1>1, <2>3, <2>4, <2>5 DEF Reaches
<1>2. ASSUME 8192 <= addr, addr <= 16383
      PROVE  Reaches(m, addr)
  <2> DEFINE page == Page("ram", 0, 8191, "store")
  <2>1. ASSUME NEW b \in Nat, 8192 <= b, b <= 16383
        PROVE  /\ MemMapEntry(m, b) = page
               /\ b % 8192 = b - 8192
               /\ Place(m, b) = <<"ram", 0, b>>
    <3>1. b \div 8192 = 1 /\ b % 8192 = b - 8192
      BY <2>1
    <3>2. MemMapEntry(m, b) = page
      BY <1>2, <3>1 DEF MemMapEntry, MapMain
    <3>3. Place(m, b) = <<"ram", 0, b>>
      BY <1>2, <2>1 DEF Place, Maps
    <3> QED BY <3>1, <3>2, <3>3
  <2>2. ASSUME NEW b \in Nat, 8192 <= b, b <= 16383
        PROVE  /\ <<"ram", 0, b>> \in BytePlaces
               /\ Cell(page, b - 8192) = CellOf(<<"ram", 0, b>>)
    <3>1. <<"ram", 0, b>> \in BytePlaces
      BY <1>2, <2>2 DEF BytePlaces, Holders, Maps, Address, Below
    <3>2. Cell(page, b - 8192) = CellOf(<<"ram", 0, b>>)
      BY <1>2, <2>2 DEF Cell, CellOf, PlaceBase, Page, Maps, Address, Below
    <3> QED BY <3>1, <3>2
  <2>3. page.mask = 8191 /\ 8192 + 8191 = 16383 /\ 8192 % 2 = 0 /\ 8192 \in Nat /\ page.base \in Nat
    BY DEF Page, Maps, Address, Below
  <2> HIDE DEF page
  <2>4. Stretch(m, page, 8192)
    BY <2>1, <2>2, <2>3 DEF Stretch
  <2>5. MemMapEntry(m, addr) = page
    BY <1>2, <2>1
  <2> QED BY <1>2, <2>3, <2>4, <2>5 DEF Reaches
<1>3. ASSUME 16384 <= addr, addr <= 24575
      PROVE  Reaches(m, addr)
  <2> DEFINE page == Page("device", m.deviceRom * 8192, 8191, "device")
  <2>1. ASSUME NEW b \in Nat, 16384 <= b, b <= 24575
        PROVE  /\ MemMapEntry(m, b) = page
               /\ b % 8192 = b - 16384
               /\ Place(m, b) = <<"device", m.deviceRom, b>>
    <3>1. b \div 8192 = 2 /\ b % 8192 = b - 16384
      BY <2>1
    <3>2. MemMapEntry(m, b) = page
      BY <1>3, <3>1 DEF MemMapEntry, MapMain
    <3>3. Place(m, b) = <<"device", m.deviceRom, b>>
      BY <1>3, <2>1 DEF Place, Maps
    <3> QED BY <3>1, <3>2, <3>3
  <2>2. ASSUME NEW b \in Nat, 16384 <= b, b <= 24575
        PROVE  /\ <<"device", m.deviceRom, b>> \in BytePlaces
               /\ Cell(page, b - 16384) = CellOf(<<"device", m.deviceRom, b>>)
    <3>1. <<"device", m.deviceRom, b>> \in BytePlaces
      BY <1>3, <2>2 DEF BytePlaces, Holders, Maps, Address, Below
    <3>2. Cell(page, b - 16384) = CellOf(<<"device", m.deviceRom, b>>)
      BY <1>3, <2>2 DEF Cell, CellOf, PlaceBase, Page, Maps, Address, Below
    <3> QED BY <3>1, <3>2
  <2>3. page.mask = 8191 /\ 16384 + 8191 = 24575 /\ 16384 % 2 = 0 /\ 16384 \in Nat /\ page.base \in Nat
    BY DEF Page, Maps, Address, Below
  <2> HIDE DEF page
  <2>4. Stretch(m, page, 16384)
    BY <2>1, <2>2, <2>3 DEF Stretch
  <2>5. MemMapEntry(m, addr) = page
    BY <1>3, <2>1
  <2> QED BY <1>3, <2>3, <2>4, <2>5 DEF Reaches
<1>4. ASSUME 24576 <= addr, addr <= 28671, m.split
      PROVE  Reaches(m, addr)
  <2> DEFINE page == Page("cartridge", 0, 4095, "bank")
  <2>1. ASSUME NEW b \in Nat, 24576 <= b, b <= 28671
        PROVE  /\ MemMapEntry(m, b) = page
               /\ b % 4096 = b - 24576
               /\ Place(m, b) = <<"cartridge", 0, b>>
    <3>1. b \div 8192 = 3 /\ (b % 8192) \div 4096 = 0 /\ b % 4096 = b - 24576
      BY <2>1
    <3>2. MemMapEntry(m, b) = page
      BY <1>4, <3>1 DEF MemMapEntry, MapCart
    <3>3. Place(m, b) = <<"cartridge", 0, b>>
      BY <1>4, <2>1 DEF Place, Maps
    <3> QED BY <3>1, <3>2, <3>3
  <2>2. ASSUME NEW b \in Nat, 24576 <= b, b <= 28671
        PROVE  /\ <<"cartridge", 0, b>> \in BytePlaces
               /\ Cell(page, b - 24576) = CellOf(<<"cartridge", 0, b>>)
    <3>1. <<"cartridge", 0, b>> \in BytePlaces
      BY <1>4, <2>2 DEF BytePlaces, Holders, Maps, Address, Below
    <3>2. Cell(page, b - 24576) = CellOf(<<"cartridge", 0, b>>)
      BY <1>4, <2>2 DEF Cell, CellOf, PlaceBase, Page, Maps, Address, Below
    <3> QED BY <3>1, <3>2
  <2>3. page.mask = 4095 /\ 24576 + 4095 = 28671 /\ 24576 % 2 = 0 /\ 24576 \in Nat /\ page.base \in Nat
    BY DEF Page, Maps, Address, Below
  <2> HIDE DEF page
  <2>4. Stretch(m, page, 24576)
    BY <2>1, <2>2, <2>3 DEF Stretch
  <2>5. MemMapEntry(m, addr) = page
    BY <1>4, <2>1
  <2> QED BY <1>4, <2>3, <2>4, <2>5 DEF Reaches
<1>5. ASSUME 28672 <= addr, addr <= 32767, m.split, m.mapped
      PROVE  Reaches(m, addr)
  <2> DEFINE page == Page("file", 0, 4095, "file")
  <2>1. ASSUME NEW b \in Nat, 28672 <= b, b <= 32767
        PROVE  /\ MemMapEntry(m, b) = page
               /\ b % 4096 = b - 28672
               /\ Place(m, b) = <<"file", 0, b>>
    <3>1. b \div 8192 = 3 /\ (b % 8192) \div 4096 = 1 /\ b % 4096 = b - 28672
      BY <2>1
    <3>2. MemMapEntry(m, b) = page
      BY <1>5, <3>1 DEF MemMapEntry, MapCart
    <3>3. Place(m, b) = <<"file", 0, b>>
      BY <1>5, <2>1 DEF Place, Maps
    <3> QED BY <3>1, <3>2, <3>3
  <2>2. ASSUME NEW b \in Nat, 28672 <= b, b <= 32767
        PROVE  /\ <<"file", 0, b>> \in BytePlaces
               /\ Cell(page, b - 28672) = CellOf(<<"file", 0, b>>)
    <3>1. <<"file", 0, b>> \in BytePlaces
      BY <1>5, <2>2 DEF BytePlaces, Holders, Maps, Address, Below
    <3>2. Cell(page, b - 28672) = CellOf(<<"file", 0, b>>)
      BY <1>5, <2>2 DEF Cell, CellOf, PlaceBase, Page, Maps, Address, Below
    <3> QED BY <3>1, <3>2
  <2>3. page.mask = 4095 /\ 28672 + 4095 = 32767 /\ 28672 % 2 = 0 /\ 28672 \in Nat /\ page.base \in Nat
    BY DEF Page, Maps, Address, Below
  <2> HIDE DEF page
  <2>4. Stretch(m, page, 28672)
    BY <2>1, <2>2, <2>3 DEF Stretch
  <2>5. MemMapEntry(m, addr) = page
    BY <1>5, <2>1
  <2> QED BY <1>5, <2>3, <2>4, <2>5 DEF Reaches
<1>6. ASSUME 28672 <= addr, addr <= 32767, m.split, ~m.mapped
      PROVE  Reaches(m, addr)
  <2> DEFINE page == Page("cartridge", 4096, 4095, "file")
  <2>1. ASSUME NEW b \in Nat, 28672 <= b, b <= 32767
        PROVE  /\ MemMapEntry(m, b) = page
               /\ b % 4096 = b - 28672
               /\ Place(m, b) = <<"cartridge", 0, b>>
    <3>1. b \div 8192 = 3 /\ (b % 8192) \div 4096 = 1 /\ b % 4096 = b - 28672
      BY <2>1
    <3>2. MemMapEntry(m, b) = page
      BY <1>6, <3>1 DEF MemMapEntry, MapCart
    <3>3. Place(m, b) = <<"cartridge", 0, b>>
      BY <1>6, <2>1 DEF Place, Maps
    <3> QED BY <3>1, <3>2, <3>3
  <2>2. ASSUME NEW b \in Nat, 28672 <= b, b <= 32767
        PROVE  /\ <<"cartridge", 0, b>> \in BytePlaces
               /\ Cell(page, b - 28672) = CellOf(<<"cartridge", 0, b>>)
    <3>1. <<"cartridge", 0, b>> \in BytePlaces
      BY <1>6, <2>2 DEF BytePlaces, Holders, Maps, Address, Below
    <3>2. Cell(page, b - 28672) = CellOf(<<"cartridge", 0, b>>)
      BY <1>6, <2>2 DEF Cell, CellOf, PlaceBase, Page, Maps, Address, Below
    <3> QED BY <3>1, <3>2
  <2>3. page.mask = 4095 /\ 28672 + 4095 = 32767 /\ 28672 % 2 = 0 /\ 28672 \in Nat /\ page.base \in Nat
    BY DEF Page, Maps, Address, Below
  <2> HIDE DEF page
  <2>4. Stretch(m, page, 28672)
    BY <2>1, <2>2, <2>3 DEF Stretch
  <2>5. MemMapEntry(m, addr) = page
    BY <1>6, <2>1
  <2> QED BY <1>6, <2>3, <2>4, <2>5 DEF Reaches
<1>7. ASSUME 24576 <= addr, addr <= 32767, ~m.split
      PROVE  Reaches(m, addr)
  <2> DEFINE page == Page("cartridge", m.bank * 8192, 8191, "bank")
  <2>1. ASSUME NEW b \in Nat, 24576 <= b, b <= 32767
        PROVE  /\ MemMapEntry(m, b) = page
               /\ b % 8192 = b - 24576
               /\ Place(m, b) = <<"cartridge", m.bank, b>>
    <3>1. b \div 8192 = 3 /\ b % 8192 = b - 24576
      BY <2>1
    <3>2. MemMapEntry(m, b) = page
      BY <1>7, <3>1 DEF MemMapEntry, MapMain
    <3>3. Place(m, b) = <<"cartridge", m.bank, b>>
      BY <1>7, <2>1 DEF Place, Maps
    <3> QED BY <3>1, <3>2, <3>3
  <2>2. ASSUME NEW b \in Nat, 24576 <= b, b <= 32767
        PROVE  /\ <<"cartridge", m.bank, b>> \in BytePlaces
               /\ Cell(page, b - 24576) = CellOf(<<"cartridge", m.bank, b>>)
    <3>1. <<"cartridge", m.bank, b>> \in BytePlaces
      BY <1>7, <2>2 DEF BytePlaces, Holders, Maps, Address, Below
    <3>2. Cell(page, b - 24576) = CellOf(<<"cartridge", m.bank, b>>)
      BY <1>7, <2>2 DEF Cell, CellOf, PlaceBase, Page, Maps, Address, Below
    <3> QED BY <3>1, <3>2
  <2>3. page.mask = 8191 /\ 24576 + 8191 = 32767 /\ 24576 % 2 = 0 /\ 24576 \in Nat /\ page.base \in Nat
    BY DEF Page, Maps, Address, Below
  <2> HIDE DEF page
  <2>4. Stretch(m, page, 24576)
    BY <2>1, <2>2, <2>3 DEF Stretch
  <2>5. MemMapEntry(m, addr) = page
    BY <1>7, <2>1
  <2> QED BY <1>7, <2>3, <2>4, <2>5 DEF Reaches
<1>8. ASSUME 32768 <= addr, addr <= 33791
      PROVE  Reaches(m, addr)
  <2> DEFINE page == Page("scratch", 0, 255, "store")
  <2> PICK low \in Nat : low = addr - (addr % 256)
    BY <1>8
  <2>0. low >= 32768 /\ low % 256 = 0 /\ low % 2 = 0 /\ low <= addr /\ addr <= low + 255
    BY <1>8
  <2>6. low + 255 <= 33791 /\ low + 255 < 65536
    BY <1>8
  <2>1. ASSUME NEW b \in Nat, low <= b, b <= low + 255
        PROVE  /\ MemMapEntry(m, b) = page
               /\ b % 256 = b - low
               /\ Place(m, b) = <<"scratch", 0, b - low>>
    <3>1. b \div 8192 = 4 /\ (b % 8192) \div 1024 = 0 /\ b % 256 = b - low /\ b >= 32768 /\ b < 33792
      BY <2>0, <2>1, <2>6
    <3>2. MemMapEntry(m, b) = page
      BY <3>1 DEF MemMapEntry, MapMmio
    <3>3. Place(m, b) = <<"scratch", 0, b % 256>>
      BY <3>1 DEF Place
    <3> QED BY <3>1, <3>2, <3>3
  <2>2. ASSUME NEW b \in Nat, low <= b, b <= low + 255
        PROVE  /\ <<"scratch", 0, b - low>> \in BytePlaces
               /\ Cell(page, b - low) = CellOf(<<"scratch", 0, b - low>>)
    <3>1. <<"scratch", 0, b - low>> \in BytePlaces
      BY <2>0, <2>2, <2>6 DEF BytePlaces, Holders, Address, Below
    <3>2. Cell(page, b - low) = CellOf(<<"scratch", 0, b - low>>)
      BY <2>0, <2>2, <2>6 DEF Cell, CellOf, PlaceBase, Page
    <3> QED BY <3>1, <3>2
  <2>3. page.mask = 255 /\ page.base \in Nat
    BY DEF Page
  <2> HIDE DEF page
  <2>4. Stretch(m, page, low)
    BY <2>0, <2>1, <2>2, <2>3, <2>6 DEF Stretch
  <2>5. MemMapEntry(m, addr) = page
    BY <2>0, <2>1
  <2> QED BY <2>0, <2>3, <2>4, <2>5 DEF Reaches
<1>9. ASSUME 40960 <= addr, addr <= 49151
      PROVE  Reaches(m, addr)
  <2> DEFINE page == Page("ram", (5 - 4) * 8192, 8191, "store")
  <2>1. ASSUME NEW b \in Nat, 40960 <= b, b <= 49151
        PROVE  /\ MemMapEntry(m, b) = page
               /\ b % 8192 = b - 40960
               /\ Place(m, b) = <<"ram", 0, b>>
    <3>1. b \div 8192 = 5 /\ b % 8192 = b - 40960
      BY <2>1
    <3>2. MemMapEntry(m, b) = page
      BY <1>9, <3>1 DEF MemMapEntry, MapMain
    <3>3. Place(m, b) = <<"ram", 0, b>>
      BY <1>9, <2>1 DEF Place, Maps
    <3> QED BY <3>1, <3>2, <3>3
  <2>2. ASSUME NEW b \in Nat, 40960 <= b, b <= 49151
        PROVE  /\ <<"ram", 0, b>> \in BytePlaces
               /\ Cell(page, b - 40960) = CellOf(<<"ram", 0, b>>)
    <3>1. <<"ram", 0, b>> \in BytePlaces
      BY <1>9, <2>2 DEF BytePlaces, Holders, Maps, Address, Below
    <3>2. Cell(page, b - 40960) = CellOf(<<"ram", 0, b>>)
      BY <1>9, <2>2 DEF Cell, CellOf, PlaceBase, Page, Maps, Address, Below
    <3> QED BY <3>1, <3>2
  <2>3. page.mask = 8191 /\ 40960 + 8191 = 49151 /\ 40960 % 2 = 0 /\ 40960 \in Nat /\ page.base \in Nat
    BY DEF Page, Maps, Address, Below
  <2> HIDE DEF page
  <2>4. Stretch(m, page, 40960)
    BY <2>1, <2>2, <2>3 DEF Stretch
  <2>5. MemMapEntry(m, addr) = page
    BY <1>9, <2>1
  <2> QED BY <1>9, <2>3, <2>4, <2>5 DEF Reaches
<1>10. ASSUME 49152 <= addr, addr <= 57343
      PROVE  Reaches(m, addr)
  <2> DEFINE page == Page("ram", (6 - 4) * 8192, 8191, "store")
  <2>1. ASSUME NEW b \in Nat, 49152 <= b, b <= 57343
        PROVE  /\ MemMapEntry(m, b) = page
               /\ b % 8192 = b - 49152
               /\ Place(m, b) = <<"ram", 0, b>>
    <3>1. b \div 8192 = 6 /\ b % 8192 = b - 49152
      BY <2>1
    <3>2. MemMapEntry(m, b) = page
      BY <1>10, <3>1 DEF MemMapEntry, MapMain
    <3>3. Place(m, b) = <<"ram", 0, b>>
      BY <1>10, <2>1 DEF Place, Maps
    <3> QED BY <3>1, <3>2, <3>3
  <2>2. ASSUME NEW b \in Nat, 49152 <= b, b <= 57343
        PROVE  /\ <<"ram", 0, b>> \in BytePlaces
               /\ Cell(page, b - 49152) = CellOf(<<"ram", 0, b>>)
    <3>1. <<"ram", 0, b>> \in BytePlaces
      BY <1>10, <2>2 DEF BytePlaces, Holders, Maps, Address, Below
    <3>2. Cell(page, b - 49152) = CellOf(<<"ram", 0, b>>)
      BY <1>10, <2>2 DEF Cell, CellOf, PlaceBase, Page, Maps, Address, Below
    <3> QED BY <3>1, <3>2
  <2>3. page.mask = 8191 /\ 49152 + 8191 = 57343 /\ 49152 % 2 = 0 /\ 49152 \in Nat /\ page.base \in Nat
    BY DEF Page, Maps, Address, Below
  <2> HIDE DEF page
  <2>4. Stretch(m, page, 49152)
    BY <2>1, <2>2, <2>3 DEF Stretch
  <2>5. MemMapEntry(m, addr) = page
    BY <1>10, <2>1
  <2> QED BY <1>10, <2>3, <2>4, <2>5 DEF Reaches
<1>11. ASSUME 57344 <= addr, addr <= 65535
      PROVE  Reaches(m, addr)
  <2> DEFINE page == Page("ram", (7 - 4) * 8192, 8191, "store")
  <2>1. ASSUME NEW b \in Nat, 57344 <= b, b <= 65535
        PROVE  /\ MemMapEntry(m, b) = page
               /\ b % 8192 = b - 57344
               /\ Place(m, b) = <<"ram", 0, b>>
    <3>1. b \div 8192 = 7 /\ b % 8192 = b - 57344
      BY <2>1
    <3>2. MemMapEntry(m, b) = page
      BY <1>11, <3>1 DEF MemMapEntry, MapMain
    <3>3. Place(m, b) = <<"ram", 0, b>>
      BY <1>11, <2>1 DEF Place, Maps
    <3> QED BY <3>1, <3>2, <3>3
  <2>2. ASSUME NEW b \in Nat, 57344 <= b, b <= 65535
        PROVE  /\ <<"ram", 0, b>> \in BytePlaces
               /\ Cell(page, b - 57344) = CellOf(<<"ram", 0, b>>)
    <3>1. <<"ram", 0, b>> \in BytePlaces
      BY <1>11, <2>2 DEF BytePlaces, Holders, Maps, Address, Below
    <3>2. Cell(page, b - 57344) = CellOf(<<"ram", 0, b>>)
      BY <1>11, <2>2 DEF Cell, CellOf, PlaceBase, Page, Maps, Address, Below
    <3> QED BY <3>1, <3>2
  <2>3. page.mask = 8191 /\ 57344 + 8191 = 65535 /\ 57344 % 2 = 0 /\ 57344 \in Nat /\ page.base \in Nat
    BY DEF Page, Maps, Address, Below
  <2> HIDE DEF page
  <2>4. Stretch(m, page, 57344)
    BY <2>1, <2>2, <2>3 DEF Stretch
  <2>5. MemMapEntry(m, addr) = page
    BY <1>11, <2>1
  <2> QED BY <1>11, <2>3, <2>4, <2>5 DEF Reaches
<1>12. ~(33792 <= addr /\ addr < 40960)
  BY DEF Place
<1> QED BY <1>1, <1>2, <1>3, <1>4, <1>5, <1>6, <1>7, <1>8, <1>9, <1>10, <1>11, <1>12

(* Both bytes of the word at an address are on the page of the address.    *)
LEMMA WordsStay ==
  ASSUME NEW m, NEW page, NEW low, Stretch(m, page, low),
         NEW addr \in Nat, low <= addr, addr <= low + page.mask
  PROVE  /\ Even(addr) \in Nat /\ low <= Even(addr) /\ Even(addr) + 1 <= low + page.mask
         /\ Even(addr) - low = (addr - low) - ((addr - low) % 2)
<1>1. low \in Nat /\ low % 2 = 0 /\ page.mask \in {255, 4095, 8191}
  BY DEF Stretch
<1>2. PICK e \in Nat : addr - (addr % 2) = e
  OBVIOUS
<1>3. low <= e /\ e - low = (addr - low) - ((addr - low) % 2)
  BY <1>1, <1>2
<1>4. e + 1 <= low + page.mask
  BY <1>1, <1>2
<1> QED BY <1>2, <1>3, <1>4 DEF Even

(* A read finds what the places of the address hold.                       *)
LEMMA ReadsAgree ==
  ASSUME NEW m, NEW there, NEW low, NEW addr \in Nat, Agree(m.data, there),
         Stretch(m, MemMapEntry(m, addr), low),
         low <= addr, addr <= low + MemMapEntry(m, addr).mask
  PROVE  /\ MemRead(m, addr, 1) = <<Kept(there, Place(m, addr))>>
         /\ MemRead(m, addr, 2) = <<Kept(there, Place(m, Even(addr))),
                                    Kept(there, Place(m, Even(addr) + 1))>>
<1> DEFINE page == MemMapEntry(m, addr)
<1> HIDE DEF page
<1>1. Stretch(m, page, low) /\ low <= addr /\ addr <= low + page.mask
  BY DEF page
<1>2. \A b \in Nat : low <= b /\ b <= low + page.mask =>
        Stored(m, Cell(page, b - low)) = Kept(there, Place(m, b))
  BY <1>1 DEF Stretch, Agree, Stored, Kept
<1>3. low \in Nat /\ page.mask \in Nat /\ addr % (page.mask + 1) = addr - low
  BY <1>1 DEF Stretch
<1>4. MemRead(m, addr, 1) = <<Kept(there, Place(m, addr))>>
  <2>1. MemRead(m, addr, 1) = DataRead(m, page, addr - low, 1)
    BY <1>3 DEF MemRead, page
  <2>2. DataRead(m, page, addr - low, 1) = [i \in 1 .. 1 |-> Stored(m, Cell(page, addr - low + i - 1))]
    BY DEF DataRead
  <2>3. \A i \in 1 .. 1 : addr - low + i - 1 = addr - low
    BY <1>3
  <2>4. DataRead(m, page, addr - low, 1) = [i \in 1 .. 1 |-> Stored(m, Cell(page, addr - low))]
    BY <2>2, <2>3
  <2>5. Stored(m, Cell(page, addr - low)) = Kept(there, Place(m, addr))
    BY <1>1, <1>2
  <2> QED BY <2>1, <2>4, <2>5
<1>5. MemRead(m, addr, 2) = <<Kept(there, Place(m, Even(addr))), Kept(there, Place(m, Even(addr) + 1))>>
  <2>1. PICK e : e = Even(addr)
    OBVIOUS
  <2>2. e \in Nat /\ low <= e /\ e + 1 <= low + page.mask
        /\ e - low = (addr - low) - ((addr - low) % 2)
    BY <1>1, <2>1, WordsStay
  <2>3. MemRead(m, addr, 2) = DataRead(m, page, addr - low, 2)
    BY <1>3 DEF MemRead, page
  <2>4. DataRead(m, page, addr - low, 2) = [i \in 1 .. 2 |-> Stored(m, Cell(page, (e - low) + i - 1))]
    BY <2>2 DEF DataRead
  <2>5. (e - low) + 1 - 1 = e - low /\ (e - low) + 2 - 1 = (e + 1) - low
    BY <1>3, <2>2
  <2>6. Stored(m, Cell(page, e - low)) = Kept(there, Place(m, e))
    BY <1>2, <1>3, <2>2
  <2>7. Stored(m, Cell(page, (e + 1) - low)) = Kept(there, Place(m, e + 1))
    BY <1>2, <1>3, <2>2
  <2>8. DataRead(m, page, addr - low, 2) = <<Kept(there, Place(m, e)), Kept(there, Place(m, e + 1))>>
    BY <2>4, <2>5, <2>6, <2>7
  <2> QED BY <2>1, <2>3, <2>8
<1> QED BY <1>4, <1>5

(* What is stored in a row of cells is remembered in their places.         *)
Row(I, P, v, s, k, f, g) ==
  /\ I \subseteq Int /\ k \in Int
  /\ \A i \in I : P[i] \in BytePlaces /\ CellOf(P[i]) = <<s, k + i>>
  /\ DOMAIN f = {<<s, k + i>> : i \in I}
  /\ \A i \in I : f[<<s, k + i>>] = v[i]
  /\ DOMAIN g = {P[i] : i \in I}
  /\ \A i \in I : \E j \in I : P[j] = P[i] /\ g[P[i]] = v[j]

LEMMA RowsMatch ==
  ASSUME NEW I, NEW P, NEW v, NEW s, NEW k, NEW f, NEW g, Row(I, P, v, s, k, f, g)
  PROVE  Matching(f, g)
<1> I \subseteq Int /\ k \in Int
  BY DEF Row
<1>0. /\ \A i \in I : P[i] \in BytePlaces /\ CellOf(P[i]) = <<s, k + i>>
      /\ DOMAIN f = {<<s, k + i>> : i \in I} /\ DOMAIN g = {P[i] : i \in I}
      /\ \A i \in I : f[<<s, k + i>>] = v[i]
      /\ \A i \in I : \E j \in I : P[j] = P[i] /\ g[P[i]] = v[j]
  BY DEF Row
<1>1. ASSUME NEW i \in I PROVE g[P[i]] = v[i]
  <2>1. PICK j \in I : P[j] = P[i] /\ g[P[i]] = v[j]
    BY <1>0
  <2>2. <<s, k + i>> = <<s, k + j>>
    BY <1>0, <2>1
  <2>3. k + i = k + j /\ i \in Int /\ j \in Int
    BY <2>2
  <2> QED BY <1>0, <2>1, <2>3
<1>2. DOMAIN g \subseteq BytePlaces
  BY <1>0
<1>3. DOMAIN f = {CellOf(p) : p \in DOMAIN g}
  BY <1>0, SMTT(40)
<1>4. \A p \in DOMAIN g : f[CellOf(p)] = g[p]
  BY <1>0, <1>1
<1> QED BY <1>2, <1>3, <1>4 DEF Matching

(* The bytes in cells, the tables, and what holds of them and the places   *)
Bytes8(data) == DOMAIN data \subseteq Cells /\ \A c \in DOMAIN data : data[c] \in Octet

Tables(m) ==
  m = [data |-> m.data, split |-> m.split, bank |-> m.bank, mapped |-> m.mapped,
       device |-> m.device, deviceRom |-> m.deviceRom, halted |-> m.halted]

Holds(m, there) == Tables(m) /\ Maps(m) /\ Bytes8(m.data) /\ Agree(m.data, there)

LEMMA OverlaysHold ==
  ASSUME NEW m, NEW there, NEW f, NEW g, Holds(m, there), Matching(f, g),
         \A c \in DOMAIN f : f[c] \in Octet
  PROVE  Holds([m EXCEPT !.data = Overlay(f, @)], Overlay(g, there))
<1> DEFINE after == [m EXCEPT !.data = Overlay(f, @)]
<1>1. /\ after.data = Overlay(f, m.data) /\ after.split = m.split /\ after.bank = m.bank
      /\ after.mapped = m.mapped /\ after.device = m.device
      /\ after.deviceRom = m.deviceRom /\ Tables(after)
  BY DEF Holds, Tables
<1> HIDE DEF after
<1>2. Agree(after.data, Overlay(g, there))
  BY <1>1, OverlaysAgree DEF Holds
<1>3. Maps(after)
  BY <1>1 DEF Holds, Maps
<1>4. DOMAIN f \subseteq Cells
  BY CellsDiffer DEF Matching
<1>5. Bytes8(Overlay(f, m.data))
  BY <1>4 DEF Holds, Bytes8, Overlay
<1> QED BY <1>1, <1>2, <1>3, <1>5 DEF Holds, after

LEMMA NothingPlaced ==
  ASSUME NEW data, NEW there, Agree(data, there)
  PROVE  Agree(data, Overlay(<<>>, there))
<1>1. \A p : Kept(Overlay(<<>>, there), p) = Kept(there, p)
  <2>1. DOMAIN <<>> = {}
    OBVIOUS
  <2> QED BY <2>1 DEF Kept, Overlay
<1> QED BY <1>1 DEF Agree

(* What a page does with a write, by what is at the address                *)
LEMMA PagesWrite ==
  ASSUME NEW m, Maps(m), NEW addr \in Address
  PROVE  LET page == MemMapEntry(m, addr)
             store == Place(m, addr)[1]
         IN  /\ store \in {"ram", "scratch"} => page.write = "store"
             /\ store = "device" => page.write = "device"
             /\ store = "file" => page.write = "file" /\ m.mapped
             /\ store = "cartridge" => page.write = "bank" \/ (page.write = "file" /\ ~m.mapped)
             /\ store = "console" => page.write = "ignore"
             /\ store = "port" => page.write = "elsewhere"
             /\ store \in Holders \cup {"port"}
<1> DEFINE page == MemMapEntry(m, addr)
           store == Place(m, addr)[1]
           block == addr \div 8192
           part == (addr % 8192) \div 4096
           kilo == (addr % 8192) \div 1024
<1> addr \in Nat /\ addr < 65536 /\ m.split \in BOOLEAN /\ m.mapped \in BOOLEAN
  BY DEF Address, Below, Maps
<1>1. /\ (block = 0) = (addr < 8192)
      /\ (block = 1) = (addr >= 8192 /\ addr < 16384)
      /\ (block = 2) = (addr >= 16384 /\ addr < 24576)
      /\ (block = 3) = (addr >= 24576 /\ addr < 32768)
      /\ (block = 4) = (addr >= 32768 /\ addr < 40960)
      /\ (block = 3 /\ part = 0) = (addr >= 24576 /\ addr < 28672)
      /\ (block = 4 /\ kilo = 0) = (addr >= 32768 /\ addr < 33792)
  OBVIOUS
<1>2. /\ block = 0 => page = MapMain(m, 0)
      /\ block = 1 => page = MapMain(m, 1)
      /\ block = 2 => page = MapMain(m, 2)
      /\ block = 3 /\ m.split => page = MapCart(m, part)
      /\ block = 3 /\ ~m.split => page = MapMain(m, 3)
      /\ block = 4 => page = MapMmio(kilo)
      /\ block > 4 => page = MapMain(m, block)
  BY DEF MemMapEntry
<1> HIDE DEF page, block, part, kilo
<1>3. /\ MapMain(m, 0).write = "ignore" /\ MapMain(m, 1).write = "store"
      /\ MapMain(m, 2).write = "device" /\ MapMain(m, 3).write = "bank"
      /\ block > 4 => MapMain(m, block).write = "store"
  BY DEF MapMain, Page
<1>4. MapCart(m, part).write = IF part = 0 THEN "bank" ELSE "file"
  BY DEF MapCart, Page
<1>5. MapMmio(kilo).write = IF kilo = 0 THEN "store" ELSE "elsewhere"
  BY DEF MapMmio, Page, Port
<1>6. /\ addr < 8192 => store = "console"
      /\ addr >= 8192 /\ addr < 16384 => store = "ram"
      /\ addr >= 16384 /\ addr < 24576 => store = "device"
      /\ addr >= 24576 /\ addr < 28672 => store = "cartridge"
      /\ addr >= 28672 /\ addr < 32768 =>
           store = IF m.mapped /\ m.split THEN "file" ELSE "cartridge"
      /\ addr >= 32768 /\ addr < 33792 => store = "scratch"
      /\ addr >= 33792 /\ addr < 40960 => store = "port"
      /\ addr >= 40960 => store = "ram"
  BY DEF Place
<1> HIDE DEF store
<1>7. block \in Int
  BY DEF block
<1>8. addr >= 40960 => block > 4
  BY DEF block
<1>9. /\ store \in {"ram", "scratch"} => page.write = "store"
      /\ store = "device" => page.write = "device"
      /\ store = "file" => page.write = "file" /\ m.mapped
      /\ store = "cartridge" => page.write = "bank" \/ (page.write = "file" /\ ~m.mapped)
      /\ store = "console" => page.write = "ignore"
      /\ store = "port" => page.write = "elsewhere"
      /\ store \in Holders \cup {"port"}
  BY <1>1, <1>2, <1>3, <1>4, <1>5, <1>6, <1>8 DEF Holders
<1> QED BY <1>9 DEF page, store

(* The cells that a write stores in, by the offset of the first            *)
WrittenCells(page, start, bytes) ==
  [c \in {Cell(page, start + i - 1) : i \in DOMAIN bytes} |-> bytes[c[2] - page.base - start + 1]]

InCells(s, k, bytes, f) ==
  /\ DOMAIN f = {<<s, k + i>> : i \in DOMAIN bytes}
  /\ \A i \in DOMAIN bytes : f[<<s, k + i>>] = bytes[i]

LEMMA WrittenCellsAre ==
  ASSUME NEW page, page.base \in Nat, NEW start \in Nat, NEW bytes, DOMAIN bytes \subseteq Int
  PROVE  InCells(page.store, page.base + start - 1, bytes, WrittenCells(page, start, bytes))
<1> DEFINE f == WrittenCells(page, start, bytes)
<1>1. \A i \in DOMAIN bytes : Cell(page, start + i - 1) = <<page.store, (page.base + start - 1) + i>>
  <2> SUFFICES ASSUME NEW i \in DOMAIN bytes
               PROVE  page.base + (start + i - 1) = (page.base + start - 1) + i
    BY Zenon DEF Cell
  <2>1. i \in Int
    OBVIOUS
  <2> QED BY <2>1
<1>2. DOMAIN f = {Cell(page, start + i - 1) : i \in DOMAIN bytes}
  BY Zenon DEF WrittenCells
<1>3. \A c \in DOMAIN f : f[c] = bytes[c[2] - page.base - start + 1]
  BY Zenon DEF WrittenCells
<1> HIDE DEF f
<1>4. DOMAIN f = {<<page.store, (page.base + start - 1) + i>> : i \in DOMAIN bytes}
  BY ONLY <1>1, <1>2
<1>5. ASSUME NEW i \in DOMAIN bytes
      PROVE  f[<<page.store, (page.base + start - 1) + i>>] = bytes[i]
  <2>1. PICK k : k = (page.base + start - 1) + i
    OBVIOUS
  <2>2. <<page.store, k>> \in DOMAIN f
    BY ONLY <1>4, <1>5, <2>1
  <2>3. <<page.store, k>>[2] - page.base - start + 1 = i
    <3>1. k - page.base - start + 1 = i /\ <<page.store, k>>[2] = k
      BY <1>5, <2>1
    <3> QED BY <3>1
  <2>4. f[<<page.store, k>>] = bytes[<<page.store, k>>[2] - page.base - start + 1]
    BY ONLY <1>3, <2>2
  <2> QED BY ONLY <2>1, <2>3, <2>4
<1> QED BY <1>4, <1>5, Zenon DEF f, InCells

FirstWritten(addr, bytes) == IF Len(bytes) = 2 THEN Even(addr) ELSE addr

InPlaces(m, first, bytes, g) ==
  /\ DOMAIN g = {Place(m, first + i - 1) : i \in DOMAIN bytes}
  /\ \A i \in DOMAIN bytes : \E j \in DOMAIN bytes :
       /\ Place(m, first + j - 1) = Place(m, first + i - 1)
       /\ g[Place(m, first + i - 1)] = bytes[j]

LEMMA WrittenAre ==
  ASSUME NEW m, NEW addr, NEW bytes
  PROVE  InPlaces(m, FirstWritten(addr, bytes), bytes, Written(m, addr, bytes))
<1> DEFINE first == FirstWritten(addr, bytes)
           PlaceOf(i) == Place(m, first + i - 1)
           g == Written(m, addr, bytes)
<1>1. g = [p \in {PlaceOf(i) : i \in DOMAIN bytes} |->
             bytes[CHOOSE i \in DOMAIN bytes : PlaceOf(i) = p]]
  BY Zenon DEF Written, FirstWritten
<1> HIDE DEF g, PlaceOf, first
<1>2. DOMAIN g = {PlaceOf(i) : i \in DOMAIN bytes}
  BY ONLY <1>1, Zenon
<1>3. ASSUME NEW i \in DOMAIN bytes
      PROVE  \E j \in DOMAIN bytes : PlaceOf(j) = PlaceOf(i) /\ g[PlaceOf(i)] = bytes[j]
  <2>1. PICK p : p = PlaceOf(i)
    OBVIOUS
  <2>2. PICK j : j = CHOOSE l \in DOMAIN bytes : PlaceOf(l) = p
    OBVIOUS
  <2>3. j \in DOMAIN bytes /\ PlaceOf(j) = p
    BY <2>1, <2>2
  <2>4. p \in DOMAIN g
    BY ONLY <1>2, <1>3, <2>1
  <2>5. g[p] = bytes[j]
    BY <1>1, <1>2, <2>2, <2>4, Zenon
  <2> QED BY <2>1, <2>3, <2>5
<1> QED BY <1>2, <1>3, Zenon DEF g, PlaceOf, first, InPlaces

LEMMA BytesWritten ==
  ASSUME NEW m, NEW there, Holds(m, there), NEW addr \in Address,
         Place(m, addr)[1] # "port",
         NEW bytes \in Seq(Octet), Len(bytes) \in 1 .. 2
  PROVE  LET page == MemMapEntry(m, addr)
         IN  Holds(DataWrite(m, page, addr % (page.mask + 1), bytes),
                   Overlay(Written(m, addr, bytes), there))
<1> DEFINE page == MemMapEntry(m, addr)
           first == FirstWritten(addr, bytes)
           g == Written(m, addr, bytes)
           P == [i \in DOMAIN bytes |-> Place(m, first + i - 1)]
<1>1. addr \in Nat /\ Maps(m)
  BY DEF Address, Below, Holds
<1>2. PICK low \in Nat : Stretch(m, page, low) /\ low <= addr /\ addr <= low + page.mask
  BY <1>1, Stretches DEF Reaches
<1> DEFINE start == IF Len(bytes) = 2 THEN (addr - low) - ((addr - low) % 2) ELSE addr - low
           f == WrittenCells(page, start, bytes)
           k == page.base + start - 1
<1>3. /\ DOMAIN g = {Place(m, first + i - 1) : i \in DOMAIN bytes}
      /\ \A i \in DOMAIN bytes : \E j \in DOMAIN bytes :
           /\ Place(m, first + j - 1) = Place(m, first + i - 1)
           /\ g[Place(m, first + i - 1)] = bytes[j]
  <2>1. InPlaces(m, first, bytes, g)
    BY WrittenAre, Zenon
  <2> HIDE DEF first, g
  <2> QED BY <2>1, Zenon DEF InPlaces
<1>4. \A i \in DOMAIN bytes : P[i] = Place(m, first + i - 1)
  BY Zenon
<1>5. Len(bytes) = 2 => first = Even(addr)
  BY Zenon DEF FirstWritten
<1>6. Len(bytes) # 2 => first = addr
  BY Zenon DEF FirstWritten
<1>7. DataWrite(m, page, addr - low, bytes) = [m EXCEPT !.data = Overlay(f, @)]
  BY Zenon DEF DataWrite, WrittenCells
<1> HIDE DEF page, g, P, first
<1>8. page.mask \in Nat /\ page.base \in Nat /\ addr % (page.mask + 1) = addr - low
  BY <1>1, <1>2 DEF Stretch
<1>9. Len(bytes) \in Nat /\ DOMAIN bytes = 1 .. Len(bytes)
      /\ \A i \in DOMAIN bytes : bytes[i] \in Octet
  OBVIOUS
<1>10. DOMAIN bytes \subseteq Int
  BY <1>9
<1>11. /\ first \in Nat /\ low <= first /\ first + Len(bytes) - 1 <= low + page.mask
       /\ start = first - low /\ start \in Nat
  <2>1. CASE Len(bytes) = 2
    <3>1. /\ Even(addr) \in Nat /\ low <= Even(addr) /\ Even(addr) + 1 <= low + page.mask
          /\ Even(addr) - low = (addr - low) - ((addr - low) % 2)
      BY <1>1, <1>2, WordsStay
    <3>2. first = Even(addr) /\ start = Even(addr) - low
      BY <1>5, <2>1, <3>1
    <3> HIDE DEF start
    <3> QED BY <1>8, <2>1, <3>1, <3>2
  <2>2. CASE Len(bytes) # 2
    <3>1. first = addr /\ start = addr - low /\ Len(bytes) = 1
      BY <1>6, <2>2
    <3> HIDE DEF start
    <3> QED BY <1>1, <1>2, <1>8, <3>1
  <2> QED BY <2>1, <2>2, Zenon
<1> HIDE DEF start
<1>12. DOMAIN f = {<<page.store, k + i>> : i \in DOMAIN bytes}
       /\ \A i \in DOMAIN bytes : f[<<page.store, k + i>>] = bytes[i]
  <2>1. InCells(page.store, k, bytes, f)
    BY <1>8, <1>10, <1>11, WrittenCellsAre, Zenon
  <2> HIDE DEF f, k
  <2> QED BY <2>1, Zenon DEF InCells
<1>13. k \in Int /\ k = page.base + start - 1
  BY <1>8, <1>11
<1> HIDE DEF f, k
<1>14. ASSUME NEW i \in DOMAIN bytes
       PROVE  /\ Place(m, first + i - 1) \in BytePlaces
              /\ CellOf(Place(m, first + i - 1)) = <<page.store, k + i>>
  <2> DEFINE b == first + i - 1
  <2>0. i \in Nat /\ 1 <= i /\ i <= Len(bytes)
    BY <1>9, <1>14
  <2>1. b \in Nat /\ low <= b /\ b <= low + page.mask
    BY <1>8, <1>9, <1>11, <2>0, SMTT(40)
  <2>4. page.base + (b - low) = k + i
    <3>1. page.base + ((first + i - 1) - low) = (page.base + (first - low) - 1) + i
      BY ONLY <1>8, <1>11, <2>0, low \in Nat, SMTT(40)
    <3> QED BY <1>11, <1>13, <3>1, Zenon
  <2> HIDE DEF b
  <2>2. Place(m, b) \in BytePlaces /\ CellOf(Place(m, b)) = Cell(page, b - low)
    BY <1>2, <2>1 DEF Stretch
  <2>3. Cell(page, b - low) = <<page.store, k + i>>
    BY <2>4 DEF Cell
  <2> QED BY <2>2, <2>3, Zenon DEF b
<1>15. DOMAIN g = {P[i] : i \in DOMAIN bytes}
  BY ONLY <1>3, <1>4, ZenonT(60)
<1>16. \A i \in DOMAIN bytes : \E j \in DOMAIN bytes : P[j] = P[i] /\ g[P[i]] = bytes[j]
  <2> SUFFICES ASSUME NEW i \in DOMAIN bytes
               PROVE  \E j \in DOMAIN bytes : P[j] = P[i] /\ g[P[i]] = bytes[j]
    OBVIOUS
  <2>1. PICK j \in DOMAIN bytes :
          /\ Place(m, first + j - 1) = Place(m, first + i - 1)
          /\ g[Place(m, first + i - 1)] = bytes[j]
    BY <1>3, Zenon
  <2>2. P[i] = Place(m, first + i - 1) /\ P[j] = Place(m, first + j - 1)
    BY <1>4, Zenon
  <2> QED BY <2>1, <2>2, Zenon
<1>17. \A i \in DOMAIN bytes : P[i] \in BytePlaces /\ CellOf(P[i]) = <<page.store, k + i>>
  BY ONLY <1>4, <1>14, Zenon
<1>18. Matching(f, g)
  <2>1. Row(DOMAIN bytes, P, bytes, page.store, k, f, g)
    BY <1>10, <1>12, <1>13, <1>15, <1>16, <1>17, Zenon DEF Row
  <2> QED BY <2>1, RowsMatch, Zenon
<1>19. ASSUME NEW c \in DOMAIN f PROVE f[c] \in Octet
  <2>1. PICK i \in DOMAIN bytes : c = <<page.store, k + i>>
    BY <1>12, <1>19, Zenon
  <2>2. f[c] = bytes[i]
    BY <1>12, <2>1, Zenon
  <2> QED BY <1>9, <2>2, Zenon
<1>20. Holds([m EXCEPT !.data = Overlay(f, @)], Overlay(g, there))
  BY <1>18, <1>19, OverlaysHold, Zenon
<1>21. DataWrite(m, page, addr % (page.mask + 1), bytes) = [m EXCEPT !.data = Overlay(f, @)]
  BY <1>7, <1>8, Zenon
<1> QED BY <1>20, <1>21, Zenon DEF page, g

(* Loading.                                                                *)
ImageCells(base, image) ==
  [cell \in {<<base[1], base[2] + i>> : i \in DOMAIN image.fill} |-> image.fill[cell[2] - base[2]]]

(* What an image must be to fit                                            *)
Fits(image) ==
  /\ image.addr \in {0, 8192, 16384, 24576, 40960, 49152, 57344}
  /\ image.bank \in Nat
  /\ image.addr = 24576 => image.bank * 8192 + image.length <= 64 * 8192
  /\ image.addr = 16384 => image.bank < 16
  /\ image.length \in Nat /\ image.length <= LoadMax(image.addr)

AtPage(addr, i, s, n) ==
  \/ addr = 0 /\ s = "console" /\ n = 0 /\ i < 8192
  \/ addr = 8192 /\ s = "ram" /\ n = 0 /\ i < 8192
  \/ addr = 40960 /\ s = "ram" /\ n = 8192 /\ i < 24576
  \/ addr = 49152 /\ s = "ram" /\ n = 16384 /\ i < 8192
  \/ addr = 57344 /\ s = "ram" /\ n = 24576 /\ i < 8192

(* The places from an address of a page on, and its cells                  *)
LEMMA ImageAtPage ==
  ASSUME NEW m, NEW addr, NEW i \in Nat, NEW s, NEW n \in Nat,
         AtPage(addr, i, s, n)
  PROVE  /\ Place(m, addr + i) \in BytePlaces
         /\ CellOf(Place(m, addr + i)) = <<s, n + i>>
<1>1. PICK b \in Nat : b = addr + i /\ b < 65536
  BY DEF AtPage
<1>2. Place(m, b) = <<s, 0, b>>
  <2>1. s = "console" => b < 8192
    BY <1>1 DEF AtPage
  <2>2. s = "ram" => (b >= 8192 /\ b < 16384) \/ b >= 40960
    BY <1>1 DEF AtPage
  <2>3. s = "console" \/ s = "ram"
    BY DEF AtPage
  <2> QED BY ONLY <2>1, <2>2, <2>3, b \in Nat DEF Place
<1>3. <<s, 0, b>> \in BytePlaces
  BY <1>1 DEF AtPage, BytePlaces, Holders, Address, Below
<1>4. CellOf(<<s, 0, b>>) = <<s, n + i>>
  <2>1. CellOf(<<s, 0, b>>) = <<s, b - PlaceBase(<<s, 0, b>>)>>
    BY DEF CellOf, PlaceBase
  <2>2. PlaceBase(<<s, 0, b>>) = IF s = "ram" THEN IF b < 16384 THEN 8192 ELSE 32768 ELSE 0
    <3>1. s = "ram" \/ s = "console"
      BY DEF AtPage
    <3> QED BY ONLY <3>1 DEF PlaceBase
  <2>3. b - (IF s = "ram" THEN IF b < 16384 THEN 8192 ELSE 32768 ELSE 0) = n + i
    BY <1>1 DEF AtPage
  <2> QED BY ONLY <2>1, <2>2, <2>3
<1> QED BY <1>1, <1>2, <1>3, <1>4

LEMMA PagesLoaded ==
  ASSUME NEW m, NEW bank
  PROVE  /\ LoadBase(m, 0, bank) = <<"console", 0>>
         /\ LoadBase(m, 8192, bank) = <<"ram", 0>>
         /\ LoadBase(m, 16384, bank) = <<"device", bank * 8192>>
         /\ LoadBase(m, 24576, bank) = <<"cartridge", bank * 8192>>
         /\ LoadBase(m, 40960, bank) = <<"ram", 8192>>
         /\ LoadBase(m, 49152, bank) = <<"ram", 16384>>
         /\ LoadBase(m, 57344, bank) = <<"ram", 24576>>
<1>1. \A addr : addr # 24576 /\ addr # 16384 =>
        LoadBase(m, addr, bank) = <<MemMapEntry(m, addr).store, MemMapEntry(m, addr).base>>
  BY DEF LoadBase
<1>2. MemMapEntry(m, 0) = Page("console", 0, 8191, "ignore")
  <2>1. MemMapEntry(m, 0) = MapMain(m, 0)
    BY FirstEntry
  <2> QED BY <2>1 DEF MapMain
<1>3. MemMapEntry(m, 8192) = Page("ram", 0, 8191, "store")
  BY DEF MemMapEntry, MapMain
<1>4. MemMapEntry(m, 40960) = Page("ram", (5 - 4) * 8192, 8191, "store")
  BY DEF MemMapEntry, MapMain
<1>5. MemMapEntry(m, 49152) = Page("ram", (6 - 4) * 8192, 8191, "store")
  BY DEF MemMapEntry, MapMain
<1>6. MemMapEntry(m, 57344) = Page("ram", (7 - 4) * 8192, 8191, "store")
  BY DEF MemMapEntry, MapMain
<1>7. LoadBase(m, 16384, bank) = <<"device", bank * 8192>>
  BY DEF LoadBase
<1>8. LoadBase(m, 24576, bank) = <<"cartridge", bank * 8192>>
  BY DEF LoadBase
<1>9. \A s, n, k, w : Page(s, n, k, w).store = s /\ Page(s, n, k, w).base = n
  BY DEF Page
<1>10. LoadBase(m, 0, bank) = <<"console", 0>>
  BY <1>1, <1>2, <1>9
<1>11. LoadBase(m, 8192, bank) = <<"ram", 0>>
  BY <1>1, <1>3, <1>9
<1>12. LoadBase(m, 40960, bank) = <<"ram", 8192>>
  BY <1>1, <1>4, <1>9
<1>13. LoadBase(m, 49152, bank) = <<"ram", 16384>>
  BY <1>1, <1>5, <1>9
<1>14. LoadBase(m, 57344, bank) = <<"ram", 24576>>
  BY <1>1, <1>6, <1>9
<1> QED BY <1>7, <1>8, <1>10, <1>11, <1>12, <1>13, <1>14

LEMMA ImagesFit ==
  ASSUME NEW m, NEW image, Fits(image), NEW i \in Below(image.length)
  PROVE  \E s \in Holders, n \in Nat, p \in BytePlaces :
           /\ LoadBase(m, image.addr, image.bank) = <<s, n>>
           /\ ImagePlace(m, image, i) = p
           /\ CellOf(p) = <<s, n + i>>
<1>1. i \in Nat /\ i < image.length /\ image.length \in Nat /\ image.bank \in Nat
  BY DEF Below, Fits
<1>2. CASE image.addr = 24576
  <2>1. LoadBase(m, image.addr, image.bank) = <<"cartridge", image.bank * 8192>>
    BY <1>2, PagesLoaded
  <2>2. ImagePlace(m, image, i) = <<"cartridge", image.bank + i \div 8192, 24576 + (i % 8192)>>
    BY <1>2 DEF ImagePlace
  <2>3. PICK p \in Nat, q \in Nat : p = image.bank + i \div 8192 /\ q = 24576 + (i % 8192)
    BY <1>1
  <2>4. image.bank * 8192 + i < 64 * 8192
    BY <1>1, <1>2 DEF Fits
  <2>5. p < 64 /\ q >= 24576 /\ q < 32768 /\ p * 8192 + q - 24576 = image.bank * 8192 + i
    BY <1>1, <2>3, <2>4
  <2>6. <<"cartridge", p, q>> \in BytePlaces
    BY <2>5 DEF BytePlaces, Holders, Address, Below
  <2>7. CellOf(<<"cartridge", p, q>>) = <<"cartridge", p * 8192 + q - 24576>>
    BY DEF CellOf, PlaceBase
  <2>8. image.bank * 8192 \in Nat
    BY <1>1
  <2> QED BY ONLY <2>1, <2>2, <2>3, <2>5, <2>6, <2>7, <2>8 DEF Holders
<1>3. CASE image.addr = 16384
  <2>1. LoadBase(m, image.addr, image.bank) = <<"device", image.bank * 8192>>
    BY <1>3, PagesLoaded
  <2>2. ImagePlace(m, image, i) = <<"device", image.bank, 16384 + i>>
    BY <1>3 DEF ImagePlace
  <2>3. image.bank < 16 /\ i < 8192
    BY <1>1, <1>3 DEF Fits, LoadMax
  <2>4. <<"device", image.bank, 16384 + i>> \in BytePlaces
    BY <1>1, <2>3 DEF BytePlaces, Holders, Address, Below
  <2>5. CellOf(<<"device", image.bank, 16384 + i>>) = <<"device", image.bank * 8192 + (16384 + i) - 16384>>
    BY DEF CellOf, PlaceBase
  <2>6. image.bank * 8192 + (16384 + i) - 16384 = image.bank * 8192 + i /\ image.bank * 8192 \in Nat
    BY <1>1
  <2> QED BY ONLY <2>1, <2>2, <2>4, <2>5, <2>6 DEF Holders
<1>4. CASE image.addr # 24576 /\ image.addr # 16384
  <2>1. ImagePlace(m, image, i) = Place(m, image.addr + i)
    BY <1>4 DEF ImagePlace
  <2>2. i < (IF image.addr = 40960 THEN 24576 ELSE 8192)
    BY <1>1, <1>4 DEF Fits, LoadMax
  <2>3. image.addr \in {0, 8192, 40960, 49152, 57344}
    BY <1>4 DEF Fits
  <2>4. PICK s \in Holders, n \in Nat :
          LoadBase(m, image.addr, image.bank) = <<s, n>> /\ AtPage(image.addr, i, s, n)
    BY <2>2, <2>3, PagesLoaded DEF Holders, AtPage
  <2>5. Place(m, image.addr + i) \in BytePlaces /\ CellOf(Place(m, image.addr + i)) = <<s, n + i>>
    <3>1. i \in Nat /\ n \in Nat /\ AtPage(image.addr, i, s, n)
      BY <1>1, <2>4
    <3> QED BY ONLY <3>1, ImageAtPage
  <2> QED BY ONLY <2>1, <2>4, <2>5, n \in Nat, s \in Holders
<1> QED BY <1>2, <1>3, <1>4

LEMMA ImageInPlaces ==
  ASSUME NEW m, NEW image
  PROVE  LET g == ImagePlaces(m, image)
         IN  /\ DOMAIN g = {ImagePlace(m, image, i) : i \in DOMAIN image.fill}
             /\ \A i \in DOMAIN image.fill : \E j \in DOMAIN image.fill :
                  /\ ImagePlace(m, image, j) = ImagePlace(m, image, i)
                  /\ g[ImagePlace(m, image, i)] = image.fill[j]
<1> DEFINE PlaceOf(i) == ImagePlace(m, image, i)
           fill == image.fill
           g == ImagePlaces(m, image)
<1>1. g = [p \in {PlaceOf(i) : i \in DOMAIN fill} |->
             fill[CHOOSE i \in DOMAIN fill : PlaceOf(i) = p]]
  BY Zenon DEF ImagePlaces
<1> HIDE DEF g, PlaceOf, fill
<1>2. DOMAIN g = {PlaceOf(i) : i \in DOMAIN fill}
  BY ONLY <1>1, Zenon
<1>3. ASSUME NEW i \in DOMAIN fill
      PROVE  \E j \in DOMAIN fill : PlaceOf(j) = PlaceOf(i) /\ g[PlaceOf(i)] = fill[j]
  <2>1. PICK p : p = PlaceOf(i)
    OBVIOUS
  <2>2. PICK j : j = CHOOSE l \in DOMAIN fill : PlaceOf(l) = p
    OBVIOUS
  <2>3. j \in DOMAIN fill /\ PlaceOf(j) = p
    BY <2>1, <2>2
  <2>4. p \in DOMAIN g
    BY ONLY <1>2, <1>3, <2>1
  <2>5. g[p] = fill[j]
    BY <1>1, <1>2, <2>2, <2>4, Zenon
  <2> QED BY <2>1, <2>3, <2>5
<1> QED BY <1>2, <1>3 DEF g, PlaceOf, fill

LEMMA ImagesLoad ==
  ASSUME NEW m, NEW there, Holds(m, there), NEW image, Fits(image),
         DOMAIN image.fill \subseteq Below(image.length),
         \A i \in DOMAIN image.fill : image.fill[i] \in Octet
  PROVE  Holds(Loaded(m, image), Overlay(ImagePlaces(m, image), there))
<1> DEFINE base == LoadBase(m, image.addr, image.bank)
           fill == image.fill
           P == [i \in DOMAIN fill |-> ImagePlace(m, image, i)]
           f == ImageCells(base, image)
           g == ImagePlaces(m, image)
<1>1. Loaded(m, image) = [m EXCEPT !.data = Overlay(f, @)]
  <2>1. ~(image.length > LoadMax(image.addr))
    <3>1. image.length \in Nat /\ LoadMax(image.addr) \in Nat /\ image.length <= LoadMax(image.addr)
      BY DEF Fits, LoadMax
    <3> QED BY <3>1
  <2> QED BY <2>1, Zenon DEF Loaded, ImageCells
<1>2. DOMAIN fill \subseteq Int
  BY DEF Below
<1>3. \A i \in DOMAIN fill : P[i] = ImagePlace(m, image, i)
  OBVIOUS
<1>4. DOMAIN f = {<<base[1], base[2] + i>> : i \in DOMAIN fill}
      /\ \A c \in DOMAIN f : f[c] = fill[c[2] - base[2]]
  BY Zenon DEF ImageCells
<1>5. DOMAIN g = {ImagePlace(m, image, i) : i \in DOMAIN fill}
      /\ \A i \in DOMAIN fill : \E j \in DOMAIN fill :
           ImagePlace(m, image, j) = ImagePlace(m, image, i) /\ g[ImagePlace(m, image, i)] = fill[j]
  BY ImageInPlaces
<1>6. ASSUME NEW i \in DOMAIN fill
      PROVE  base[2] \in Nat /\ ImagePlace(m, image, i) \in BytePlaces
             /\ CellOf(ImagePlace(m, image, i)) = <<base[1], base[2] + i>>
  <2>1. i \in Below(image.length)
    OBVIOUS
  <2>2. PICK s \in Holders, n \in Nat, p \in BytePlaces :
          base = <<s, n>> /\ ImagePlace(m, image, i) = p /\ CellOf(p) = <<s, n + i>>
    BY <2>1, ImagesFit
  <2> HIDE DEF base
  <2> QED BY <2>2
<1> HIDE DEF base, fill, P, f, g
<1>7. CASE DOMAIN fill = {}
  <2>1. Matching(f, g)
    BY <1>4, <1>5, <1>7 DEF Matching
  <2>2. \A c \in DOMAIN f : f[c] \in Octet
    BY <1>4, <1>7
  <2>3. Holds([m EXCEPT !.data = Overlay(f, @)], Overlay(g, there))
    BY <2>1, <2>2, OverlaysHold, Zenon
  <2> QED BY <1>1, <2>3, Zenon DEF g
<1>8. CASE DOMAIN fill # {}
  <2>1. base[2] \in Int /\ base[2] \in Nat
    BY <1>6, <1>8
  <2>2. ASSUME NEW i \in DOMAIN fill PROVE f[<<base[1], base[2] + i>>] = fill[i]
    <3>1. PICK c : c = <<base[1], base[2] + i>>
      OBVIOUS
    <3>2. c \in DOMAIN f
      BY <1>4, <3>1
    <3>3. c[2] - base[2] = i
      BY <1>2, <2>1, <3>1
    <3> QED BY <1>4, <3>1, <3>2, <3>3
  <2>3. DOMAIN g = {P[i] : i \in DOMAIN fill}
    BY ONLY <1>3, <1>5
  <2>4. ASSUME NEW i \in DOMAIN fill
        PROVE  \E j \in DOMAIN fill : P[j] = P[i] /\ g[P[i]] = fill[j]
    <3>1. PICK j \in DOMAIN fill :
            ImagePlace(m, image, j) = ImagePlace(m, image, i) /\ g[ImagePlace(m, image, i)] = fill[j]
      BY <1>5, Zenon
    <3>2. P[i] = ImagePlace(m, image, i) /\ P[j] = ImagePlace(m, image, j)
      BY <1>3, Zenon
    <3> QED BY <3>1, <3>2, Zenon
  <2>5. \A i \in DOMAIN fill : P[i] \in BytePlaces /\ CellOf(P[i]) = <<base[1], base[2] + i>>
    BY <1>3, <1>6, Zenon
  <2>6. Row(DOMAIN fill, P, fill, base[1], base[2], f, g)
    BY <1>2, <1>4, <2>1, <2>2, <2>3, <2>4, <2>5, Zenon DEF Row
  <2>7. Matching(f, g)
    BY <2>6, RowsMatch, Zenon
  <2>8. ASSUME NEW c \in DOMAIN f PROVE f[c] \in Octet
    <3>1. PICK i \in DOMAIN fill : c = <<base[1], base[2] + i>>
      BY <1>4, Zenon
    <3> QED BY <2>2, <3>1, Zenon DEF fill
  <2>9. Holds([m EXCEPT !.data = Overlay(f, @)], Overlay(g, there))
    BY <2>7, <2>8, OverlaysHold, Zenon
  <2> QED BY <1>1, <2>9, Zenon DEF g
<1> QED BY <1>7, <1>8

(* The steps.                                                              *)
MemoryInv == Holds(memory, placed)

LEMMA OthersHold ==
  ASSUME NEW m, NEW there, Holds(m, there), NEW w, Tables(w), w.data = m.data, Maps(w)
  PROVE  Holds(w, Overlay(<<>>, there))
BY NothingPlaced DEF Holds

LEMMA HaltsHold ==
  ASSUME NEW m, NEW there, Holds(m, there)
  PROVE  Holds([m EXCEPT !.halted = TRUE], Overlay(<<>>, there))
<1>1. PICK w : w = [m EXCEPT !.halted = TRUE]
  OBVIOUS
<1>2. Tables(w) /\ w.data = m.data /\ Maps(w)
  BY <1>1 DEF Holds, Tables, Maps
<1> QED BY <1>1, <1>2, OthersHold

LEMMA FileMapsHold ==
  ASSUME NEW m, NEW there, Holds(m, there)
  PROVE  Holds(MemMapFile(m), Overlay(<<>>, there))
<1>1. CASE m.mapped
  BY <1>1, HaltsHold DEF MemMapFile
<1>2. CASE ~m.mapped
  <2>1. PICK w : w = [m EXCEPT !.mapped = TRUE]
    OBVIOUS
  <2>2. Tables(w) /\ w.data = m.data /\ Maps(w)
    BY <2>1 DEF Holds, Tables, Maps
  <2>3. MemMapFile(m) = w
    BY <1>2, <2>1 DEF MemMapFile
  <2> QED BY <2>2, <2>3, OthersHold
<1> QED BY <1>1, <1>2

LEMMA SelectsHold ==
  ASSUME NEW m, NEW there, Holds(m, there), NEW index \in Nat, NEW state \in {0, 1}
  PROVE  Holds(MemDeviceRomSelect(m, index, state), Overlay(<<>>, there))
<1>1. (index \div 128) % 16 \in Below(16) /\ 0 \in Below(16)
  BY DEF Below
<1>2. PICK w : w = MemDeviceRomSelect(m, index, state)
  OBVIOUS
<1>3. Tables(w) /\ w.data = m.data /\ Maps(w)
  BY <1>1, <1>2 DEF Holds, MemDeviceRomSelect, Tables, Maps
<1> QED BY <1>2, <1>3, OthersHold

LEMMA WritesHold ==
  ASSUME NEW m, NEW there, Holds(m, there), NEW addr \in Address,
         NEW bytes \in Seq(Octet), Len(bytes) \in 1 .. 2
  PROVE  Holds(MemWrite(m, addr, bytes),
               Overlay(IF Writable(m, addr) THEN Written(m, addr, bytes) ELSE <<>>, there))
<1> DEFINE page == MemMapEntry(m, addr)
           offset == addr % (page.mask + 1)
           store == Place(m, addr)[1]
           written == MemWrite(m, addr, bytes)
<1>1. Maps(m) /\ Tables(m)
  BY DEF Holds
<1>2. /\ store \in {"ram", "scratch"} => page.write = "store"
      /\ store = "device" => page.write = "device"
      /\ store = "file" => page.write = "file" /\ m.mapped
      /\ store = "cartridge" => page.write = "bank" \/ (page.write = "file" /\ ~m.mapped)
      /\ store = "console" => page.write = "ignore"
      /\ store = "port" => page.write = "elsewhere"
      /\ store \in Holders \cup {"port"}
  BY <1>1, PagesWrite
<1>3. store # "port" => Holds(DataWrite(m, page, offset, bytes), Overlay(Written(m, addr, bytes), there))
  BY BytesWritten
<1>4. Writable(m, addr) = (store \in {"ram", "scratch", "file"} \/ (store = "device" /\ m.device = Sam))
  BY DEF Writable
<1>5. written =
        CASE page.write = "store" -> DataWrite(m, page, offset, bytes)
          [] page.write = "bank" -> BankSelect(m, offset)
          [] page.write = "file" -> IF m.mapped THEN DataWrite(m, page, offset, bytes)
                                    ELSE [m EXCEPT !.halted = TRUE]
          [] page.write = "device" /\ m.device = Sam /\ ~Registers(m, offset) ->
               DataWrite(m, page, offset, bytes)
          [] OTHER -> m
  BY Zenon DEF MemWrite
<1>6. m.device = Sam => ~Registers(m, offset)
  BY DEF Sam, Registers
<1>7. store # "port" => offset \in Nat
  <2>1. addr \in Nat
    BY DEF Address, Below
  <2>2. store # "port" => page.mask \in {255, 4095, 8191}
    BY <1>1, Stretches DEF Reaches, Stretch
  <2> QED BY <2>1, <2>2
<1> HIDE DEF page, offset, store, written
<1>8. CASE Writable(m, addr)
  <2>1. written = DataWrite(m, page, offset, bytes) /\ store # "port"
    BY <1>2, <1>4, <1>5, <1>6, <1>8
  <2> QED BY <1>3, <1>8, <2>1 DEF written
<1>9. CASE ~Writable(m, addr)
  <2>1. \/ written = m
        \/ written = [m EXCEPT !.halted = TRUE]
        \/ written = BankSelect(m, offset) /\ store # "port"
    BY <1>2, <1>4, <1>5, <1>9 DEF Holders
  <2>2. CASE written = m
    BY <1>1, <1>9, <2>2, OthersHold DEF written
  <2>3. CASE written = [m EXCEPT !.halted = TRUE]
    <3>1. Tables(written) /\ written.data = m.data /\ Maps(written)
      BY <1>1, <2>3 DEF Tables, Maps
    <3> QED BY <1>9, <3>1, OthersHold DEF written
  <2>4. CASE written = BankSelect(m, offset) /\ store # "port"
    <3>1. (offset % 128) \div 2 \in Below(64)
      BY <1>7, <2>4 DEF Below
    <3>2. Tables(written) /\ written.data = m.data /\ Maps(written)
      BY <1>1, <2>4, <3>1 DEF Tables, Maps, BankSelect
    <3> QED BY <1>9, <3>2, OthersHold DEF written
  <2> QED BY <2>1, <2>2, <2>3, <2>4
<1> QED BY <1>8, <1>9

LEMMA MemoryStart == MemoryInit => MemoryInv
<1> SUFFICES ASSUME MemoryInit PROVE MemoryInv
  OBVIOUS
<1>1. Tables(PoweredOn) /\ Maps(PoweredOn) /\ PoweredOn.data = <<>>
  BY DEF Tables, Maps, PoweredOn, Below
<1>2. DOMAIN <<>> = {}
  OBVIOUS
<1>3. Bytes8(<<>>) /\ Agree(<<>>, <<>>)
  BY <1>2 DEF Bytes8, Agree, Kept
<1> QED BY <1>1, <1>3 DEF MemoryInit, MemoryInv, Holds

(* What is in the mapped file is kept.                                     *)
OfFile(f) == [c \in {d \in DOMAIN f : d[1] = "file"} |-> f[c]]

LEMMA FilesHold ==
  ASSUME NEW m, NEW there, Holds(m, there)
  PROVE  Holds([PoweredOn EXCEPT !.data = OfFile(m.data)], OfFile(there))
<1> DEFINE w == [PoweredOn EXCEPT !.data = OfFile(m.data)]
<1>0. Tables(PoweredOn) /\ Maps(PoweredOn)
  BY DEF Tables, Maps, PoweredOn, Below
<1>1. Tables(w) /\ Maps(w) /\ w.data = OfFile(m.data)
  <2>1. w = [PoweredOn EXCEPT !.data = OfFile(m.data)]
    OBVIOUS
  <2> HIDE DEF w
  <2> QED BY <1>0, <2>1 DEF Tables, Maps
<1> HIDE DEF w
<1>2. \A f, x : Kept(OfFile(f), x) = IF x[1] = "file" THEN Kept(f, x) ELSE 0
  BY DEF Kept, OfFile
<1>3. ASSUME NEW p \in BytePlaces PROVE Kept(OfFile(m.data), CellOf(p)) = Kept(OfFile(there), p)
  <2>1. CellOf(p)[1] = p[1]
    BY CellsDiffer
  <2>2. Kept(m.data, CellOf(p)) = Kept(there, p)
    BY DEF Holds, Agree
  <2> QED BY <1>2, <2>1, <2>2
<1>4. Agree(w.data, OfFile(there))
  BY <1>1, <1>3 DEF Agree
<1>5. Bytes8(w.data)
  BY <1>1 DEF Holds, Bytes8, OfFile
<1> QED BY <1>1, <1>4, <1>5 DEF Holds, w

LEMMA MemorySteps ==
  ASSUME MemoryInv, [MemoryNext]_memoryVars
  PROVE  MemoryInv'
<1>0. Holds(memory, placed)
  BY DEF MemoryInv
<1>1. ASSUME NEW store \in Stores, Store(store) PROVE MemoryInv'
  <2>1. store.addr \in Address /\ store.bytes \in Seq(Octet) /\ Len(store.bytes) \in 1 .. 2
    BY MemoryAssumption
  <2>2. /\ memory' = MemWrite(memory, store.addr, store.bytes)
        /\ placed' = Overlay(IF Writable(memory, store.addr)
                             THEN Written(memory, store.addr, store.bytes) ELSE <<>>, placed)
    BY <1>1, Zenon DEF Store, Step
  <2>3. Holds(MemWrite(memory, store.addr, store.bytes),
              Overlay(IF Writable(memory, store.addr)
                      THEN Written(memory, store.addr, store.bytes) ELSE <<>>, placed))
    BY <1>0, <2>1, WritesHold, Zenon
  <2> QED BY <2>2, <2>3, Zenon DEF MemoryInv
<1>2. ASSUME NEW index \in Selections, NEW state \in {0, 1}, SelectDevice(index, state)
      PROVE  MemoryInv'
  <2>1. memory' = MemDeviceRomSelect(memory, index, state) /\ placed' = Overlay(<<>>, placed)
    BY <1>2, Zenon DEF SelectDevice, Step
  <2>2. index \in Nat
    BY MemoryAssumption
  <2>3. Holds(MemDeviceRomSelect(memory, index, state), Overlay(<<>>, placed))
    BY <1>0, <2>2, SelectsHold, Zenon
  <2> QED BY <2>1, <2>3, Zenon DEF MemoryInv
<1>3. ASSUME NEW image \in Images, Load(image) PROVE MemoryInv'
  <2>1. /\ memory' = Loaded(memory, image)
        /\ placed' = Overlay(IF image.length > LoadMax(image.addr) THEN <<>>
                             ELSE ImagePlaces(memory, image), placed)
    BY <1>3, Zenon DEF Load, Step
  <2>2. CASE image.length > LoadMax(image.addr)
    <3>1. Loaded(memory, image) = [memory EXCEPT !.halted = TRUE]
      BY <2>2, Zenon DEF Loaded
    <3>3. Holds([memory EXCEPT !.halted = TRUE], Overlay(<<>>, placed))
      BY <1>0, HaltsHold, Zenon
    <3>4. placed' = Overlay(<<>>, placed)
      BY <2>1, <2>2, Zenon
    <3> QED BY <2>1, <3>1, <3>3, <3>4, Zenon DEF MemoryInv
  <2>3. CASE ~(image.length > LoadMax(image.addr))
    <3>1. LoadMax(image.addr) \in Nat
      BY DEF LoadMax
    <3>2. Fits(image)
      BY <2>3, <3>1, MemoryAssumption DEF Fits
    <3>3. DOMAIN image.fill \subseteq Below(image.length)
          /\ \A i \in DOMAIN image.fill : image.fill[i] \in Octet
      BY MemoryAssumption
    <3>4. Holds(Loaded(memory, image), Overlay(ImagePlaces(memory, image), placed))
      BY <1>0, <3>2, <3>3, ImagesLoad, Zenon
    <3>5. placed' = Overlay(ImagePlaces(memory, image), placed)
      BY <2>1, <2>3, Zenon
    <3> QED BY <2>1, <3>4, <3>5, Zenon DEF MemoryInv
  <2> QED BY <2>2, <2>3
<1>4. ASSUME MapFile PROVE MemoryInv'
  <2>1. memory' = MemMapFile(memory) /\ placed' = Overlay(<<>>, placed)
    BY <1>4, Zenon DEF MapFile, Step
  <2>2. Holds(MemMapFile(memory), Overlay(<<>>, placed))
    BY <1>0, FileMapsHold, Zenon
  <2> QED BY <2>1, <2>2, Zenon DEF MemoryInv
<1>5. ASSUME PowerOn PROVE MemoryInv'
  <2>1. memory' = [PoweredOn EXCEPT !.data = OfFile(memory.data)] /\ placed' = OfFile(placed)
    BY <1>5, Zenon DEF PowerOn, OfFile
  <2> QED BY <1>0, <2>1, FilesHold, Zenon DEF MemoryInv
<1>6. CASE UNCHANGED memoryVars
  BY <1>0, <1>6 DEF memoryVars, MemoryInv
<1> QED BY <1>1, <1>2, <1>3, <1>4, <1>5, <1>6 DEF MemoryNext

LEMMA MemoryIsKept == MemorySpec => []MemoryInv
<1>1. MemoryInv /\ [MemoryNext]_memoryVars => MemoryInv'
  BY MemorySteps
<1> QED BY <1>1, MemoryStart, PTL DEF MemorySpec

(* Every byte that is stored is that of a cell which exists, and the bank  *)
(* and the selected device are ones that there are.                        *)
THEOREM MemoryTypes == MemorySpec => []MemoryTypeOK
<1>1. MemoryInv => MemoryTypeOK
  BY DEF MemoryInv, Holds, Maps, Bytes8, Cells, Holders, MemoryTypeOK
<1> QED BY <1>1, MemoryIsKept, PTL

(* For all addresses, sequences of writes, banks, devices, images and      *)
(* restarts: an address reads as what was last stored in the place it      *)
(* stands for, whichever way the place is reached.                         *)
THEOREM WritesAreKept == MemorySpec => []MemoryKeepsWrites
<1>1. MemoryInv => MemoryKeepsWrites
  <2> SUFFICES ASSUME MemoryInv,
                      NEW addr \in {a \in Addresses : ~IsPort(memory, a)}
               PROVE  /\ MemRead(memory, addr, 1) = <<Kept(placed, Place(memory, addr))>>
                      /\ MemRead(memory, addr, 2) = <<Kept(placed, Place(memory, Even(addr))),
                                                      Kept(placed, Place(memory, Even(addr) + 1))>>
    BY Zenon DEF MemoryKeepsWrites, Kept
  <2>1. addr \in Address /\ Place(memory, addr)[1] # "port"
    BY MemoryAssumption DEF IsPort
  <2>2. Maps(memory) /\ Agree(memory.data, placed)
    BY DEF MemoryInv, Holds
  <2>3. addr \in Nat
    BY <2>1 DEF Address, Below
  <2>4. PICK low \in Nat : /\ Stretch(memory, MemMapEntry(memory, addr), low)
                           /\ low <= addr /\ addr <= low + MemMapEntry(memory, addr).mask
    BY <2>1, <2>2, Stretches, Zenon DEF Reaches
  <2> QED BY <2>2, <2>3, <2>4, ReadsAgree, Zenon
<1> QED BY <1>1, MemoryIsKept, PTL
-----------------------------------------------------------------------------
(* Cassette.                                                               *)
CassetteSpec == CassetteInit /\ [][CassetteNext]_cassetteVars

Sample == {0, 1}

Tape == [exists : BOOLEAN, header : Nat \cup {Unset}, samples : Seq(Sample)]

Recorder ==
  [tape : Tape, fp : {"none", "read", "write"}, write : BOOLEAN, fileCount : Nat, at : Nat,
   block : Sample, remaining : Int, shift : [1 .. 3 -> Sample], next : Sample,
   due : Nat, crashed : BOOLEAN]

(* A wave is as long as it should be, and its last sample is the level in  *)
(* the middle of the state, unless three levels are high.                  *)
LEMMA WaveFacts ==
  ASSUME NEW state, NEW n \in Nat \ {0}
  PROVE  Wave(state, n) \in Seq(Sample) /\ Len(Wave(state, n)) = n
<1> PICK e : e = Encoding(state)
  OBVIOUS
<1>1. Wave(state, n) = [i \in 1 .. n |->
         IF 0 < e.start * n + (i - 1) * e.duration /\ e.start * n + (i - 1) * e.duration < 2 * n
         THEN 1 ELSE 0]
  BY Zenon DEF Wave
<1>2. Wave(state, n) \in [1 .. n -> Sample]
  BY <1>1, Zenon DEF Sample
<1> QED BY <1>2, SeqDef, LenProperties, IsASeq

LEMMA WaveEnds ==
  ASSUME NEW p \in Sample, NEW q \in Sample, NEW r \in Sample, NEW n \in Nat, n >= 2,
         ~(p = 1 /\ q = 1 /\ r = 1)
  PROVE  Wave(<<p, q, r>>, n)[n] = q
<1>1. \A e : e = Encoding(<<p, q, r>>) =>
        Wave(<<p, q, r>>, n)[n] =
          IF 0 < e.start * n + (n - 1) * e.duration /\ e.start * n + (n - 1) * e.duration < 2 * n
          THEN 1 ELSE 0
  BY DEF Wave
<1>2. CASE p = 0 /\ q = 0 /\ r = 0
  <2>1. Encoding(<<0, 0, 0>>) = [start |-> 0, duration |-> 0]
    BY DEF Encoding
  <2> QED BY <1>1, <1>2, <2>1
<1>3. CASE p = 0 /\ q = 0 /\ r = 1
  <2>1. Encoding(<<0, 0, 1>>) = [start |-> 3, duration |-> 1]
    BY DEF Encoding
  <2> QED BY <1>1, <1>3, <2>1
<1>4. CASE p = 0 /\ q = 1 /\ r = 0
  <2>1. Encoding(<<0, 1, 0>>) = [start |-> 0, duration |-> 2]
    BY DEF Encoding
  <2> QED BY <1>1, <1>4, <2>1
<1>5. CASE p = 0 /\ q = 1 /\ r = 1
  <2>1. Encoding(<<0, 1, 1>>) = [start |-> 0, duration |-> 1]
    BY DEF Encoding
  <2> QED BY <1>1, <1>5, <2>1
<1>6. CASE p = 1 /\ q = 0 /\ r = 0
  <2>1. Encoding(<<1, 0, 0>>) = [start |-> 2, duration |-> 1]
    BY DEF Encoding
  <2> QED BY <1>1, <1>6, <2>1
<1>7. CASE p = 1 /\ q = 0 /\ r = 1
  <2>1. Encoding(<<1, 0, 1>>) = [start |-> 2, duration |-> 2]
    BY DEF Encoding
  <2> QED BY <1>1, <1>7, <2>1
<1>8. CASE p = 1 /\ q = 1 /\ r = 0
  <2>1. Encoding(<<1, 1, 0>>) = [start |-> 1, duration |-> 1]
    BY DEF Encoding
  <2> QED BY <1>1, <1>8, <2>1
<1> QED BY <1>2, <1>3, <1>4, <1>5, <1>6, <1>7, <1>8 DEF Sample

-----------------------------------------------------------------------------
(* What the operations leave alone                                         *)

(* What an expiry makes of a recorder that records, and of one that does   *)
(* not.                                                                    *)
Continues(c, e, n) ==
  /\ e.tape.samples = c.tape.samples \o Wave(c.shift, n)
  /\ e.fileCount = c.fileCount + n
  /\ e.shift = <<c.shift[2], c.shift[3], c.next>>

Rests(c, e) ==
  /\ e.tape = c.tape /\ e.fileCount = c.fileCount /\ e.remaining = c.remaining
  /\ e.shift = c.shift

SameTape(c, e) ==
  /\ e.fp = c.fp /\ e.write = c.write /\ e.tape.header = c.tape.header
  /\ e.at = c.at

LEMMA ExpireFacts ==
  ASSUME NEW c \in Recorder, NEW n \in Nat \ {0}
  PROVE  /\ Expire(c, n) \in Recorder /\ SameTape(c, Expire(c, n))
         /\ ~c.write => Rests(c, Expire(c, n))
         /\ c.write /\ c.fp = "write" => Continues(c, Expire(c, n), n)
         /\ Expire(c, n).next = c.next
<1> PICK w \in Seq(Sample) : w = Wave(c.shift, n) /\ Len(w) = n
  BY WaveFacts
<1>1. w[n] \in Sample
  BY ElementOfSeq
<1>2. CASE ~c.write
  BY <1>2 DEF Expire, Recorder, SameTape, Rests
<1>3. CASE c.write /\ c.fp = "none"
  BY <1>3 DEF Expire, Recorder, SameTape, Rests
<1>4. CASE c.write /\ c.fp # "none"
  <2>1. PICK s \in Seq(Sample) : s = c.tape.samples \o w
    BY ConcatProperties DEF Recorder, Tape
  <2>2. PICK t \in [1 .. 3 -> Sample] : t = Shifted(c)
    <3>1. PICK a \in Sample, b \in Sample, d \in Sample :
            a = c.shift[2] /\ b = c.shift[3] /\ d = c.next
      BY DEF Recorder
    <3>2. <<a, b, d>> \in [1 .. 3 -> Sample]
      OBVIOUS
    <3> QED BY <3>1, <3>2 DEF Shifted
  <2>3. t = <<c.shift[2], c.shift[3], c.next>>
    BY <2>2 DEF Shifted
  <2> PICK k \in Nat, m \in Int : k = c.fileCount + n /\ m = c.remaining + n
    BY DEF Recorder
  <2> PICK x \in Sample : x = w[n]
    BY <1>1
  <2>4. CASE c.fp = "write"
    <3>1. PICK u \in Tape : u = [c.tape EXCEPT !.samples = s]
      BY DEF Recorder, Tape
    <3>2. Expire(c, n) =
            [c EXCEPT !.tape = u, !.fileCount = k, !.remaining = m, !.block = x, !.shift = t]
      BY <1>4, <2>1, <2>2, <2>4, <3>1 DEF Expire, Recorded, Recorder
    <3>3. u.samples = s /\ u.header = c.tape.header
      BY <3>1 DEF Recorder, Tape
    <3>4. Expire(c, n) \in Recorder
      BY <1>1, <3>2 DEF Recorder
    <3> QED BY <1>4, <2>1, <2>3, <2>4, <3>2, <3>3, <3>4 DEF Recorder, SameTape, Continues
  <2>5. CASE c.fp # "write"
    <3>1. PICK u \in Tape : u = [c.tape EXCEPT !.samples = c.tape.samples] /\ u = c.tape
      BY DEF Recorder, Tape
    <3>2. Expire(c, n) =
            [c EXCEPT !.tape = u, !.fileCount = k, !.remaining = m, !.block = x, !.shift = t]
      BY <1>4, <2>2, <2>5, <3>1 DEF Expire, Recorded, Recorder
    <3> QED BY <1>4, <2>5, <3>1, <3>2, ZenonT(60) DEF Recorder, SameTape, Continues
  <2> QED BY <2>4, <2>5
<1> QED BY <1>2, <1>3, <1>4

LEMMA ToggleFacts ==
  ASSUME NEW c \in Recorder
  PROVE  /\ Toggle(c) \in Recorder /\ SameTape(c, Toggle(c)) /\ Rests(c, Toggle(c))
         /\ Toggle(c).next = 1 - c.next
<1>1. 1 - c.next \in Sample
  BY DEF Recorder, Sample
<1> QED BY <1>1 DEF Toggle, Recorder, SameTape, Rests

LEMMA ClosedFacts ==
  ASSUME NEW c \in Recorder
  PROVE  /\ Closed(c) \in Recorder /\ Closed(c).fp = "none" /\ Closed(c).write = c.write
         /\ Closed(c).tape.samples = c.tape.samples
         /\ Closed(c).tape.header = IF c.fp = "write" THEN c.fileCount ELSE c.tape.header
         /\ Closed(c).shift = c.shift
<1>1. CASE c.fp = "write"
  <2>1. PICK u \in Tape : u = [c.tape EXCEPT !.header = c.fileCount]
    BY DEF Recorder, Tape
  <2>2. Closed(c) = [c EXCEPT !.tape = u, !.fp = "none"]
    BY <1>1, <2>1 DEF Closed, Recorder
  <2>3. u.samples = c.tape.samples /\ u.header = c.fileCount
    BY <2>1 DEF Recorder, Tape
  <2> QED BY <1>1, <2>2, <2>3 DEF Recorder
<1>2. CASE c.fp # "write"
  <2>1. Closed(c) = [c EXCEPT !.fp = "none"]
    BY <1>2 DEF Closed, Recorder, Tape
  <2> QED BY <1>2, <2>1 DEF Recorder
<1> QED BY <1>1, <1>2

-----------------------------------------------------------------------------
(* The flush of fileCloseWrite                                             *)

Dribble(d) == Expire(Expire(Toggle(d), FlushSamples), FlushSamples)

LEMMA DribbleStays == ASSUME NEW d \in Recorder PROVE Dribble(d) \in Recorder
<1>1. FlushSamples \in Nat \ {0}
  BY CassetteAssumption
<1> QED BY <1>1, ToggleFacts, ExpireFacts DEF Dribble

LEMMA FlushSteps ==
  ASSUME NEW c \in Recorder
  PROVE  \E f \in [0 .. 8 -> Recorder] :
           /\ f[0] = c /\ f[8] = Flushed(c)
           /\ \A k \in 1 .. 8 : f[k] = Dribble(f[k - 1])
<1> DEFINE F == [k \in 1 .. 8 |-> [d \in Recorder |-> Dribble(d)]]
           eight == [i \in 1 .. 8 |-> i]
<1>1. F \in [1 .. 8 -> [Recorder -> Recorder]]
  BY DribbleStays
<1>2. Flushed(c) =
        (CHOOSE it : it = [s \in SUBSET DOMAIN eight |->
           IF s = {} THEN c
           ELSE Expire(Expire(Toggle(it[s \ {Max(s)}]), FlushSamples), FlushSamples)])[DOMAIN eight]
  BY Zenon DEF Flushed, FoldLeft, MapThenFoldSet
<1> DEFINE Folds(it) == it = [s \in SUBSET (1 .. 8) |->
                                IF s = {} THEN c ELSE Dribble(it[s \ {Max(s)}])]
<1>3. Flushed(c) = (CHOOSE it : Folds(it))[1 .. 8]
  <2>1. DOMAIN eight = 1 .. 8
    OBVIOUS
  <2> HIDE DEF eight
  <2> QED BY <1>2, <2>1, Zenon DEF Dribble
<1>4. \A s \in SUBSET (1 .. 8) : s # {} => Max(s) \in 1 .. 8
  BY MaxIsLargest
<1>5. \E it : Folds(it)
  <2> HIDE DEF F
  <2>1. PICK it \in [SUBSET (1 .. 8) -> Recorder] : IsFold(it, 8, c, F)
    BY <1>1, FoldExists
  <2>2. ASSUME NEW s \in SUBSET (1 .. 8), s # {}
        PROVE  it[s] = Dribble(it[s \ {Max(s)}])
    <3>1. it[s] = F[Max(s)][it[s \ {Max(s)}]] /\ Max(s) \in 1 .. 8
      BY <1>4, <2>1, <2>2 DEF IsFold
    <3>2. s \ {Max(s)} \in SUBSET (1 .. 8)
      OBVIOUS
    <3> QED BY <3>1, <3>2 DEF F
  <2>3. it[{}] = c
    BY <2>1 DEF IsFold
  <2>4. Folds(it)
    BY <2>2, <2>3
  <2> QED BY <2>4
<1>6. PICK it : Folds(it) /\ Flushed(c) = it[1 .. 8]
  <2> HIDE DEF Folds
  <2> QED BY <1>3, <1>5
<1>7. \A s \in SUBSET (1 .. 8) :
        s # {} /\ it[s \ {Max(s)}] \in Recorder => it[s] = F[Max(s)][it[s \ {Max(s)}]]
  BY <1>4, <1>6
<1>8. it[{}] = c
  BY <1>6
<1>9. FoldsWithin(Recorder, 8, c, F, it)
  <2> HIDE DEF F, Folds
  <2> QED BY <1>1, <1>7, <1>8 DEF FoldsWithin
<1>10. PICK f \in [0 .. 8 -> Recorder] :
         /\ f[0] = c /\ f[8] = it[1 .. 8]
         /\ \A k \in 1 .. 8 : f[k] = F[k][f[k - 1]]
  <2> HIDE DEF F, Folds
  <2> PICK G, n : G = F /\ n = 8
    OBVIOUS
  <2>1. FoldsWithin(Recorder, n, c, G, it)
    BY <1>9
  <2>2. PICK f \in [0 .. n -> Recorder] : /\ f[0] = c /\ f[n] = it[1 .. n]
                                          /\ \A k \in 1 .. n : f[k] = G[k][f[k - 1]]
    BY ONLY <2>1, FoldSteps
  <2> QED BY <2>2
<1>11. \A k \in 1 .. 8 : f[k] = Dribble(f[k - 1])
  <2> SUFFICES ASSUME NEW k \in 1 .. 8 PROVE f[k] = Dribble(f[k - 1])
    OBVIOUS
  <2>1. f[k] = F[k][f[k - 1]] /\ k - 1 \in 0 .. 8
    BY <1>10
  <2>2. f[k - 1] \in Recorder
    BY <2>1
  <2> QED BY <2>1, <2>2
<1> QED BY <1>6, <1>10, <1>11

(* Samples are added behind those there are, and counted.                  *)
Prefix(s, t) == Len(s) <= Len(t) /\ \A i \in 1 .. Len(s) : t[i] = s[i]

Counted(c) == c.fileCount = Len(c.tape.samples)

Grows(c, e) ==
  /\ SameTape(c, e)
  /\ ~c.write => Rests(c, e)
  /\ c.write /\ c.fp = "write" =>
       Prefix(c.tape.samples, e.tape.samples) /\ (Counted(c) => Counted(e))

LEMMA GrowsOn ==
  ASSUME NEW c \in Recorder, NEW d \in Recorder, NEW e \in Recorder, Grows(c, d), Grows(d, e)
  PROVE  Grows(c, e)
<1>1. SameTape(c, e) /\ (~c.write => Rests(c, e)) /\ d.fp = c.fp /\ d.write = c.write
  BY DEF Grows, SameTape, Rests
<1>2. ASSUME c.write, c.fp = "write"
      PROVE  Prefix(c.tape.samples, e.tape.samples) /\ (Counted(c) => Counted(e))
  <2>1. PICK s \in Seq(Sample), t \in Seq(Sample), u \in Seq(Sample) :
          s = c.tape.samples /\ t = d.tape.samples /\ u = e.tape.samples
    BY DEF Recorder, Tape
  <2>2. Prefix(s, t) /\ Prefix(t, u)
    BY <1>1, <1>2, <2>1 DEF Grows
  <2>3. Len(s) \in Nat /\ Len(t) \in Nat /\ Len(u) \in Nat
    BY LenProperties
  <2>4. Prefix(s, u)
    BY <2>2, <2>3 DEF Prefix
  <2> QED BY <1>1, <1>2, <2>1, <2>4 DEF Grows
<1> QED BY <1>1, <1>2 DEF Grows

LEMMA ExpireGrows ==
  ASSUME NEW c \in Recorder, NEW n \in Nat \ {0}
  PROVE  Expire(c, n) \in Recorder /\ Grows(c, Expire(c, n))
<1> PICK e \in Recorder : e = Expire(c, n)
  BY ExpireFacts
<1>1. SameTape(c, e) /\ (~c.write => Rests(c, e))
  BY ExpireFacts
<1>2. ASSUME c.write, c.fp = "write"
      PROVE  Prefix(c.tape.samples, e.tape.samples) /\ (Counted(c) => Counted(e))
  <2>1. PICK s \in Seq(Sample), w \in Seq(Sample) : s = c.tape.samples /\ w = Wave(c.shift, n) /\ Len(w) = n
    BY WaveFacts, SMTT(40) DEF Recorder, Tape
  <2>2. e.tape.samples = s \o w /\ e.fileCount = c.fileCount + n
    BY <1>2, <2>1, ExpireFacts DEF Continues
  <2>3. PICK k \in Nat : k = Len(s)
    BY LenProperties
  <2>4. PICK u \in Seq(Sample) : u = s \o w /\ Len(u) = k + n /\ \A i \in 1 .. k + n : i <= k => u[i] = s[i]
    <3> PICK u \in Seq(Sample) : u = s \o w
      BY ConcatProperties
    <3>1. Len(u) = Len(s) + Len(w) /\ \A i \in 1 .. Len(s) + Len(w) :
                                         u[i] = IF i <= Len(s) THEN s[i] ELSE w[i - Len(s)]
      BY ConcatProperties
    <3>2. Len(u) = k + n /\ \A i \in 1 .. k + n : u[i] = IF i <= k THEN s[i] ELSE w[i - k]
      BY <2>1, <2>3, <3>1
    <3> QED BY <3>2
  <2>5. Prefix(s, u)
    BY <2>3, <2>4 DEF Prefix
  <2>6. Counted(c) => Counted(e)
    BY <2>1, <2>2, <2>3, <2>4 DEF Counted
  <2> QED BY <2>1, <2>2, <2>4, <2>5, <2>6
<1> QED BY <1>1, <1>2 DEF Grows

LEMMA ToggleGrows ==
  ASSUME NEW c \in Recorder
  PROVE  Toggle(c) \in Recorder /\ Grows(c, Toggle(c))
<1> PICK e \in Recorder : e = Toggle(c)
  BY ToggleFacts
<1>1. SameTape(c, e) /\ Rests(c, e)
  BY ToggleFacts
<1>2. PICK s \in Seq(Sample) : s = c.tape.samples
  BY DEF Recorder, Tape
<1>3. Prefix(s, s)
  BY LenProperties DEF Prefix
<1> QED BY <1>1, <1>2, <1>3 DEF Grows, Rests, Counted

LEMMA DribbleGrows == ASSUME NEW c \in Recorder PROVE Grows(c, Dribble(c))
<1>1. FlushSamples \in Nat \ {0}
  BY CassetteAssumption
<1>2. PICK d \in Recorder : d = Toggle(c) /\ Grows(c, d)
  BY ToggleGrows
<1>3. PICK e \in Recorder : e = Expire(d, FlushSamples) /\ Grows(d, e)
  BY <1>1, ExpireGrows
<1>4. PICK f \in Recorder : f = Expire(e, FlushSamples) /\ Grows(e, f)
  BY <1>1, ExpireGrows
<1> QED BY <1>2, <1>3, <1>4, GrowsOn DEF Dribble

LEMMA FlushedGrows ==
  ASSUME NEW c \in Recorder
  PROVE  /\ Flushed(c) \in Recorder /\ Dribble(c) \in Recorder
         /\ Grows(c, Flushed(c)) /\ Grows(Dribble(c), Flushed(c))
<1> PICK d \in Recorder : d = Dribble(c) /\ Grows(c, d)
  BY DribbleStays, DribbleGrows
<1> PICK f \in [0 .. 8 -> Recorder] :
      /\ f[0] = c /\ f[8] = Flushed(c)
      /\ \A k \in 1 .. 8 : f[k] = Dribble(f[k - 1])
  BY FlushSteps
<1>1. \A k \in 0 .. 8 : f[k] \in Recorder
  OBVIOUS
<1>2. f[1] = d
  OBVIOUS
<1>3. \A k \in 1 .. 7 : Grows(f[k], f[k + 1])
  <2> SUFFICES ASSUME NEW k \in 1 .. 7 PROVE Grows(f[k], f[k + 1])
    OBVIOUS
  <2>1. f[k] \in Recorder /\ f[k + 1] = Dribble(f[k])
    OBVIOUS
  <2> QED BY <2>1, DribbleGrows
<1> DEFINE S == {k \in 0 .. 7 : k = 0 \/ Grows(d, f[k + 1])}
<1>4. 0 \in S
  OBVIOUS
<1>5. ASSUME NEW k \in 0 .. 7 - 1, k \in S PROVE k + 1 \in S
  <2>1. PICK j \in 1 .. 7 : j = k + 1
    OBVIOUS
  <2>2. Grows(f[j], f[j + 1]) /\ f[j] \in Recorder /\ f[j + 1] \in Recorder
    BY <1>1, <1>3
  <2>3. CASE k = 0
    BY <1>2, <2>1, <2>2, <2>3
  <2>4. CASE k # 0
    <3>1. Grows(d, f[j])
      BY <1>5, <2>1, <2>4
    <3>2. Grows(d, f[j + 1])
      BY <2>2, <3>1, GrowsOn
    <3> QED BY <2>1, <3>2
  <2> QED BY <2>3, <2>4
<1>6. \A k \in 0 .. 7 : k \in S
  <2> HIDE DEF S
  <2> QED BY <1>4, <1>5, BoundedInduction
<1>7. Grows(d, f[8])
  BY <1>6
<1>8. f[8] \in Recorder
  BY <1>1
<1> QED BY <1>7, <1>8, GrowsOn

-----------------------------------------------------------------------------
(* Counters and headers                                                    *)

Counters(c) ==
  /\ c \in Recorder
  /\ c.fp = "write" => c.write /\ c.tape.header = Unset /\ Counted(c)
  /\ c.fp = "read" => ~c.write
  /\ c.tape.header # Unset => c.tape.header = Len(c.tape.samples)
  /\ c.fp = "read" /\ c.tape.header # Unset =>
       c.remaining = Len(c.tape.samples) - c.at

LEMMA ClosedCounts == ASSUME NEW c, Counters(c) PROVE Counters(Closed(c))
<1> c \in Recorder
  BY DEF Counters
<1> PICK e \in Recorder : e = Closed(c)
  BY ClosedFacts
<1>1. /\ e.fp = "none" /\ e.tape.samples = c.tape.samples
      /\ e.tape.header = IF c.fp = "write" THEN c.fileCount ELSE c.tape.header
  BY ClosedFacts
<1> QED BY <1>1 DEF Counters, Counted

LEMMA HeardIsSample ==
  ASSUME NEW c \in Recorder, NEW n \in Nat \ {0}
  PROVE  Heard(c, n) \in Sample
<1>1. PICK s \in Seq(Sample), a \in Nat : s = c.tape.samples /\ a = c.at /\ c.block \in Sample
  BY DEF Recorder, Tape
<1>2. CASE c.fp = "read" /\ a < Len(s)
  <2>1. PICK end \in Nat : end = Len(s)
    BY LenProperties
  <2>2. \E x \in {a + n, end} : \A y \in {a + n, end} : x <= y
    BY <2>1
  <2>3. PICK m : m = Min({a + n, end})
    OBVIOUS
  <2>4. m \in {a + n, end} /\ \A y \in {a + n, end} : m <= y
    BY <2>2, <2>3, Zenon DEF Min
  <2>5. m \in 1 .. end
    BY <1>2, <2>1, <2>4
  <2>6. s[m] \in Sample
    BY <2>1, <2>5, ElementOfSeq
  <2>7. Heard(c, n) = s[m]
    BY <1>1, <1>2, <2>1, <2>3 DEF Heard
  <2> QED BY <2>6, <2>7
<1>3. CASE ~(c.fp = "read" /\ a < Len(s))
  BY <1>1, <1>3 DEF Heard
<1> QED BY <1>2, <1>3

LEMMA PlayCounts ==
  ASSUME NEW c, Counters(c), NEW n \in Nat \ {0} PROVE Counters(Play(c, n))
<1>1. c \in Recorder /\ c.at \in Nat /\ c.remaining \in Int
  BY DEF Counters, Recorder
<1> PICK bit \in Sample : bit = Heard(c, n)
  BY <1>1, HeardIsSample
<1> PICK a \in Nat, r \in Int : a = c.at + n /\ r = c.remaining - n
  BY <1>1
<1> PICK d : d = [c EXCEPT !.at = a, !.block = bit, !.next = bit, !.remaining = r]
  OBVIOUS
<1>2. d \in Recorder
  BY <1>1 DEF Recorder
<1>3. /\ d.fp = c.fp /\ d.write = c.write /\ d.tape = c.tape /\ d.fileCount = c.fileCount
      /\ d.at = c.at + n /\ d.remaining = c.remaining - n
  BY <1>1 DEF Recorder
<1>4. PICK k \in Int : k = Len(c.tape.samples)
  BY <1>1, LenProperties, SMTT(40) DEF Recorder, Tape
<1>5. Counters(d)
  BY <1>1, <1>2, <1>3, <1>4, SMTT(40) DEF Counters, Counted
<1>6. Play(c, n) = IF r <= 0 THEN Closed(d) ELSE d
  BY <1>1, <1>3 DEF Play
<1> QED BY <1>5, <1>6, ClosedCounts

LEMMA ReadCounts ==
  ASSUME NEW c, Counters(c), NEW passed \in BOOLEAN PROVE Counters(ModulationRead(c, passed))
<1>1. c \in Recorder /\ c.due \in Nat
  BY DEF Counters, Recorder
<1>2. CASE c.fp = "none"
  <2>1. PICK e \in Recorder : e = Toggle(c) /\ SameTape(c, e) /\ Rests(c, e)
    BY <1>1, ToggleFacts
  <2>2. Counters(e)
    BY <1>2, <2>1 DEF Counters, SameTape, Rests
  <2> QED BY <1>2, <2>1, <2>2 DEF ModulationRead
<1>3. CASE c.fp # "none" /\ c.due > 0
  <2> PICK d : d = [c EXCEPT !.due = 0]
    OBVIOUS
  <2>1. d \in Recorder
    BY <1>1 DEF Recorder
  <2>2. Counters(d)
    BY <1>1, <2>1 DEF Counters, Counted, Recorder
  <2>3. Counters(Play(d, c.due))
    BY <1>1, <1>3, <2>2, PlayCounts
  <2> QED BY <1>3, <2>3 DEF ModulationRead
<1>4. CASE c.fp # "none" /\ ~(c.due > 0)
  BY <1>4, PlayCounts DEF ModulationRead
<1> QED BY <1>2, <1>3, <1>4

LEMMA OpenedCounts ==
  ASSUME NEW c, Counters(c), c.fp = "none", ~c.write, NEW e \in OpenedRead(c)
  PROVE  Counters(e)
<1>1. c \in Recorder
  BY DEF Counters
<1>2. CASE c.tape.exists /\ \E n \in Headers(c.tape) :
             e = [c EXCEPT !.fp = "read", !.at = 0, !.fileCount = n, !.remaining = n]
  <2>1. PICK n \in Headers(c.tape) :
          e = [c EXCEPT !.fp = "read", !.at = 0, !.fileCount = n, !.remaining = n]
    BY <1>2
  <2>2. n \in Nat /\ (c.tape.header # Unset => n = Len(c.tape.samples))
    BY <1>1, LenProperties DEF Headers, Counters, Recorder, Tape
  <2> PICK r \in Int : r = n
    BY <2>2
  <2>3. e \in Recorder
    <3>1. e = [c EXCEPT !.fp = "read", !.at = 0, !.fileCount = n, !.remaining = r]
      BY <2>1
    <3> QED BY ONLY <1>1, <2>2, <3>1, r \in Int DEF Recorder
  <2>4. e.fp = "read" /\ e.at = 0 /\ e.remaining = n /\ e.tape = c.tape /\ e.write = c.write
    BY <1>1, <2>1 DEF Recorder
  <2> QED BY <2>2, <2>3, <2>4 DEF Counters
<1>3. CASE e = [c EXCEPT !.remaining = c.fileCount]
  <2>1. e \in Recorder
    BY <1>1, <1>3 DEF Recorder
  <2>2. e.fp = c.fp /\ e.tape = c.tape /\ e.write = c.write
    BY <1>1, <1>3 DEF Recorder
  <2> QED BY <2>1, <2>2 DEF Counters
<1> QED BY <1>2, <1>3 DEF OpenedRead

LEMMA CloseWriteCounts ==
  ASSUME NEW c, Counters(c), c.fp # "none" PROVE Counters(FileCloseWrite(c))
<1>1. c \in Recorder /\ c.fp \in {"read", "write"}
  BY DEF Counters, Recorder
<1>2. PICK e \in Recorder : e = Flushed(c) /\ Grows(c, e)
  BY <1>1, FlushedGrows
<1>3. Counters(e)
  <2>1. CASE c.fp = "write"
    BY <1>2, <2>1 DEF Counters, Grows, SameTape
  <2>2. CASE c.fp = "read"
    BY <1>2, <2>2 DEF Counters, Grows, SameTape, Rests
  <2> QED BY <1>1, <2>1, <2>2
<1> QED BY <1>2, <1>3, ClosedCounts DEF FileCloseWrite

LEMMA StartedCounts ==
  ASSUME NEW tape \in Tape, tape.header # Unset => tape.header = Len(tape.samples)
  PROVE  Counters(Started(tape))
<1>1. /\ Started(tape).tape = tape /\ Started(tape).fp = "none"
      /\ Started(tape).fileCount = 0 /\ ~Started(tape).write
  BY DEF Started
<1>2. Started(tape) \in Recorder
  <2>1. <<0, 0, 0>> \in [1 .. 3 -> Sample]
    BY DEF Sample
  <2>2. PICK z \in [1 .. 3 -> Sample] : z = <<0, 0, 0>>
    BY <2>1
  <2>3. Started(tape) =
          [tape |-> tape, fp |-> "none", write |-> FALSE, fileCount |-> 0, at |-> 0, block |-> 0,
           remaining |-> 0, shift |-> z, next |-> 0, due |-> 0, crashed |-> FALSE]
    BY <2>2 DEF Started
  <2>4. 0 \in Sample
    BY DEF Sample
  <2> QED BY <2>3, <2>4 DEF Recorder
<1> QED BY <1>1, <1>2 DEF Counters

LEMMA BlankIsTape == Blank \in Tape /\ Blank.header = Unset
<1>1. <<>> \in Seq(Sample)
  BY EmptySeq
<1> QED BY <1>1 DEF Blank, Tape

(* A recording that begins                                                 *)
LEMMA OpenedWrite ==
  ASSUME NEW c \in Recorder, NEW value \in Sample
  PROVE  LET e == [FileOpenWrite(c) EXCEPT !.next = value]
         IN  /\ e \in Recorder /\ e.fp = "write" /\ e.write /\ e.fileCount = c.fileCount
             /\ e.tape.header = Unset /\ e.tape.samples = <<>>
             /\ e.shift = c.shift /\ e.next = value
<1>1. <<>> \in Seq(Sample)
  BY EmptySeq
<1>2. PICK t \in Tape : t = [exists |-> TRUE, header |-> Unset, samples |-> <<>>]
  BY <1>1 DEF Tape
<1>3. t.header = Unset /\ t.samples = <<>>
  BY <1>2
<1>4. PICK e : e = [FileOpenWrite(c) EXCEPT !.next = value]
  OBVIOUS
<1>5. e = [c EXCEPT !.tape = t, !.fp = "write", !.write = TRUE, !.next = value]
  BY <1>2, <1>4 DEF FileOpenWrite, Recorder
<1>6. e \in Recorder
  BY <1>5 DEF Recorder
<1>7. e.fp = "write" /\ e.write /\ e.fileCount = c.fileCount /\ e.tape = t /\ e.shift = c.shift /\ e.next = value
  BY <1>5 DEF Recorder
<1> QED BY <1>3, <1>4, <1>6, <1>7, Zenon

LEMMA NextLevel ==
  ASSUME NEW c \in Recorder, NEW value \in Sample
  PROVE  LET e == [c EXCEPT !.next = value]
         IN  /\ e \in Recorder /\ e.next = value
             /\ e.fp = c.fp /\ e.write = c.write /\ e.fileCount = c.fileCount /\ e.tape = c.tape
             /\ e.at = c.at /\ e.remaining = c.remaining /\ e.shift = c.shift
BY DEF Recorder

CounterInv == Counters(cassette)

LEMMA CounterInit == ASSUME CassetteInit PROVE CounterInv
BY BlankIsTape, StartedCounts DEF CassetteInit, CounterInv

LEMMA CounterNext ==
  ASSUME CounterInv, "restart" \in TapeRules, [CassetteNext]_cassetteVars
  PROVE  CounterInv'
<1> PICK c : c = cassette /\ Counters(c)
  BY DEF CounterInv
<1>0. c \in Recorder
  BY DEF Counters
<1>1. ASSUME TimerExpired(CellSamples) PROVE CounterInv'
  <2>1. cassette' = Expire(c, CellSamples) /\ ~(c.write /\ c.fp = "none")
    BY <1>1 DEF TimerExpired, Timed, Over, Obeys
  <2>2. PICK e \in Recorder : e = cassette' /\ Grows(c, e) /\ SameTape(c, e)
    BY <1>0, <2>1, ExpireGrows, CassetteAssumption DEF Grows
  <2>3. CASE c.write
    <3>1. c.fp = "write"
      BY <1>0, <2>1, <2>3 DEF Counters, Recorder
    <3> QED BY <2>2, <2>3, <3>1 DEF CounterInv, Counters, Grows, SameTape
  <2>4. CASE ~c.write
    BY <2>2, <2>4 DEF CounterInv, Counters, Grows, SameTape, Rests
  <2> QED BY <2>3, <2>4
<1>2. ASSUME NEW value \in {0, 1}, TapeOutput(value) PROVE CounterInv'
  <2>0. value \in Sample
    BY DEF Sample
  <2>1. CASE c.fp = "none"
    <3>1. c.fileCount = 0 /\ cassette' = [FileOpenWrite(c) EXCEPT !.next = value]
      BY <1>2, <2>1 DEF TapeOutput, Obeys
    <3>2. Counters(cassette')
      BY <1>0, <2>0, <3>1, OpenedWrite, EmptySeq DEF Counters, Counted
    <3> QED BY <3>2 DEF CounterInv
  <2>2. CASE c.fp # "none"
    <3>1. PICK e \in Recorder :
            /\ e = cassette'
            /\ e.fp = c.fp /\ e.write = c.write /\ e.fileCount = c.fileCount /\ e.tape = c.tape
            /\ e.at = c.at /\ e.remaining = c.remaining
      BY <1>0, <1>2, <2>0, <2>2, NextLevel DEF TapeOutput
    <3>2. Counters(e)
      BY <3>1 DEF Counters, Counted
    <3> QED BY <3>1, <3>2 DEF CounterInv
  <2> QED BY <2>1, <2>2
<1>3. ASSUME NEW value \in {0, 1}, Motor(value) PROVE CounterInv'
  <2>1. (c.fp # "none" /\ cassette' = FileCloseWrite(c)) \/ cassette' = c
    BY <1>3 DEF Motor
  <2> QED BY <2>1, CloseWriteCounts DEF CounterInv
<1>4. ASSUME NEW passed \in BOOLEAN, TapeInput(passed) PROVE CounterInv'
  <2>1. PICK e \in IF c.fp = "none" THEN OpenedRead(c) ELSE {c} : cassette' = ModulationRead(e, passed)
    BY <1>4 DEF TapeInput
  <2>2. ~(c.write /\ c.fp = "none")
    BY <1>4 DEF TapeInput, Timed, Over, Obeys
  <2>3. Counters(e)
    BY <1>0, <2>1, <2>2, OpenedCounts DEF Recorder
  <2>4. Counters(ModulationRead(e, passed))
    BY <2>3, ReadCounts
  <2> QED BY <2>1, <2>4 DEF CounterInv
<1>5. ASSUME Restart PROVE CounterInv'
  <2>1. c.tape \in Tape /\ (c.tape.header # Unset => c.tape.header = Len(c.tape.samples))
    BY <1>0 DEF Counters, Recorder
  <2> QED BY <1>5, <2>1, StartedCounts DEF Restart, CounterInv
<1>6. ASSUME UNCHANGED cassetteVars PROVE CounterInv'
  BY <1>6 DEF cassetteVars, CounterInv
<1> QED BY <1>1, <1>2, <1>3, <1>4, <1>5, <1>6, Zenon DEF CassetteNext

-----------------------------------------------------------------------------
(* Levels on the tape                                                      *)

(* The level of the k-th expiry, 0 before the first                        *)
At(l, k) == IF k >= 1 THEN l[k] ELSE 0

(* Where the wave of the i-th expiry ends when the levels l were timed     *)
End(l, i) ==
  IF i <= Len(l) THEN i * CellSamples
  ELSE Len(l) * CellSamples + (i - Len(l)) * FlushSamples

Survives(samples, l) ==
  \A i \in 1 .. Len(l) :
    End(l, i + 2) <= Len(samples) /\ samples[End(l, i + 2)] = l[i]

NotThree(l) ==
  \A i \in 1 .. Len(l) : i + 2 <= Len(l) => ~(l[i] = l[i + 1] /\ l[i + 1] = l[i + 2])

(* A recording of the levels l so far                                      *)
Recording(c, l) ==
  /\ Len(c.tape.samples) = Len(l) * CellSamples
  /\ c.shift = <<At(l, Len(l) - 2), At(l, Len(l) - 1), At(l, Len(l))>>
  /\ \A i \in 1 .. Len(l) :
       i + 2 <= Len(l) => c.tape.samples[(i + 2) * CellSamples] = l[i]
  /\ NotThree(l)

LEMMA Rates == CellSamples \in Nat \ {0} /\ FlushSamples \in Nat \ {0}
BY CassetteAssumption

LEMMA Products ==
  ASSUME NEW a \in Nat, NEW b \in Nat, NEW n \in Nat, a <= b
  PROVE  a * n \in Nat /\ b * n \in Nat /\ a * n <= b * n
<1> PICK d \in Nat : b = a + d
  OBVIOUS
<1>1. b * n = a * n + d * n
  OBVIOUS
<1>2. a * n \in Nat /\ d * n \in Nat
  OBVIOUS
<1> QED BY <1>1, <1>2

(* What an expiry puts behind the k samples there are                      *)
Adds(c, e, n, k, q, r) ==
  /\ Len(e.tape.samples) = k + n
  /\ e.tape.samples[k + n] = q
  /\ \A i \in 1 .. k : e.tape.samples[i] = c.tape.samples[i]
  /\ e.shift = <<q, r, c.next>>

LEMMA ExpiryAdds ==
  ASSUME NEW c \in Recorder, c.write, c.fp = "write", NEW n \in Nat, n >= 2,
         NEW p \in Sample, NEW q \in Sample, NEW r \in Sample, c.shift = <<p, q, r>>,
         ~(p = 1 /\ q = 1 /\ r = 1), NEW k \in Nat, k = Len(c.tape.samples)
  PROVE  Adds(c, Expire(c, n), n, k, q, r)
<1>1. PICK s \in Seq(Sample), w \in Seq(Sample) :
        s = c.tape.samples /\ w = Wave(c.shift, n) /\ Len(w) = n
  BY WaveFacts DEF Recorder, Tape
<1>2. Expire(c, n).tape.samples = s \o w /\ Expire(c, n).shift = <<c.shift[2], c.shift[3], c.next>>
  <2>1. Continues(c, Expire(c, n), n)
    <3> PICK m \in Nat \ {0} : m = n
      OBVIOUS
    <3>1. Continues(c, Expire(c, m), m)
      BY ExpireFacts
    <3> QED BY <3>1
  <2> QED BY <1>1, <2>1, Zenon DEF Continues
<1>3. PICK u \in Seq(Sample) : u = s \o w
  BY ConcatProperties
<1>4. Len(u) = Len(s) + Len(w) /\ \A i \in 1 .. Len(s) + Len(w) :
                                     u[i] = IF i <= Len(s) THEN s[i] ELSE w[i - Len(s)]
  BY <1>3, ConcatProperties
<1>5. Len(u) = k + n /\ \A i \in 1 .. k + n : u[i] = IF i <= k THEN s[i] ELSE w[i - k]
  BY <1>1, <1>4
<1>6. u[k + n] = w[n]
  <2>0. PICK x \in Nat, y \in Nat \ {0} : x = k /\ y = n
    OBVIOUS
  <2>1. x + y \in 1 .. x + y /\ ~(x + y <= x) /\ (x + y) - x = y
    BY ONLY x \in Nat, y \in Nat \ {0}
  <2> QED BY <1>5, <2>0, <2>1
<1>7. w[n] = q
  <2>1. w = Wave(<<p, q, r>>, n)
    BY <1>1, Zenon
  <2> QED BY <2>1, WaveEnds
<1>8. ASSUME NEW i \in 1 .. k PROVE u[i] = s[i]
  <2>1. i \in 1 .. k + n /\ i <= k
    OBVIOUS
  <2> QED BY ONLY <1>5, <2>1
<1>9. Expire(c, n).shift = <<q, r, c.next>>
  BY <1>2
<1> QED BY <1>1, <1>2, <1>3, <1>5, <1>6, <1>7, <1>8, <1>9 DEF Adds

(* The levels in the shift register                                        *)
LEMMA ShiftLevels ==
  ASSUME NEW l \in Seq(Sample), NotThree(l)
  PROVE  /\ At(l, Len(l) - 2) \in Sample /\ At(l, Len(l) - 1) \in Sample /\ At(l, Len(l)) \in Sample
         /\ ~(At(l, Len(l) - 2) = 1 /\ At(l, Len(l) - 1) = 1 /\ At(l, Len(l)) = 1)
<1> PICK n \in Nat : n = Len(l)
  BY LenProperties
<1>1. \A k \in 1 .. n : l[k] \in Sample
  BY ElementOfSeq
<1>2. 0 \in Sample /\ 0 # 1
  BY DEF Sample
<1>3. At(l, n - 2) \in Sample /\ At(l, n - 1) \in Sample /\ At(l, n) \in Sample
  BY <1>1, <1>2 DEF At
<1>4. ASSUME At(l, n - 2) = 1, At(l, n - 1) = 1, At(l, n) = 1 PROVE FALSE
  <2>1. n - 2 >= 1
    BY <1>4 DEF At
  <2>2. PICK i \in 1 .. n : i = n - 2
    BY <2>1
  <2>3. l[i] = 1 /\ l[i + 1] = 1 /\ l[i + 2] = 1 /\ i + 2 <= n
    BY <1>4, <2>1, <2>2 DEF At
  <2> QED BY <2>3 DEF NotThree
<1> QED BY <1>3, <1>4

LEMMA LevelTimed ==
  ASSUME NEW c \in Recorder, c.write, c.fp = "write", NEW l \in Seq(Sample), Recording(c, l),
         CellSamples >= 2,
         Len(l) >= 2 /\ l[Len(l) - 1] = l[Len(l)] => c.next # l[Len(l)]
  PROVE  Recording(Expire(c, CellSamples), Append(l, c.next))
<1>0. c.next \in Sample /\ CellSamples \in Nat
  BY Rates DEF Recorder
<1> PICK n \in Nat : n = Len(l)
  BY LenProperties
<1> PICK m \in Seq(Sample) : m = Append(l, c.next)
  BY <1>0, AppendProperties
<1>1. Len(m) = n + 1 /\ m[n + 1] = c.next /\ \A i \in 1 .. n : m[i] = l[i]
  BY <1>0, AppendProperties
<1> PICK k \in Nat : k = n * CellSamples
  BY <1>0
<1>2. k = Len(c.tape.samples)
  BY DEF Recording
<1> PICK e : e = Expire(c, CellSamples)
  OBVIOUS
<1>3. /\ At(l, n - 2) \in Sample /\ At(l, n - 1) \in Sample /\ At(l, n) \in Sample
      /\ ~(At(l, n - 2) = 1 /\ At(l, n - 1) = 1 /\ At(l, n) = 1)
  BY ShiftLevels DEF Recording
<1>4. c.shift = <<At(l, n - 2), At(l, n - 1), At(l, n)>>
  BY DEF Recording
<1>5. /\ Len(e.tape.samples) = k + CellSamples
      /\ e.tape.samples[k + CellSamples] = At(l, n - 1)
      /\ \A i \in 1 .. k : e.tape.samples[i] = c.tape.samples[i]
      /\ e.shift = <<At(l, n - 1), At(l, n), c.next>>
  <2> PICK p \in Sample, q \in Sample, r \in Sample :
        p = At(l, n - 2) /\ q = At(l, n - 1) /\ r = At(l, n)
    BY <1>3
  <2>1. c.shift = <<p, q, r>> /\ ~(p = 1 /\ q = 1 /\ r = 1)
    BY <1>3, <1>4
  <2>2. Adds(c, Expire(c, CellSamples), CellSamples, k, q, r)
    BY <1>0, <1>2, <2>1, ExpiryAdds
  <2> QED BY <2>2 DEF Adds
<1>6. (n + 1) * CellSamples = k + CellSamples
  <2> PICK b \in Nat : b = CellSamples
    BY <1>0
  <2>1. (n + 1) * b = n * b + b
    OBVIOUS
  <2> QED BY <2>1
<1>7. e.shift = <<At(m, Len(m) - 2), At(m, Len(m) - 1), At(m, Len(m))>>
  <2>1. At(m, n - 1) = At(l, n - 1) /\ At(m, n) = At(l, n) /\ At(m, n + 1) = c.next
    BY <1>1 DEF At
  <2>2. Len(m) - 2 = n - 1 /\ Len(m) - 1 = n
    BY <1>1
  <2> QED BY <1>1, <1>5, <2>1, <2>2
<1>8. ASSUME NEW i \in 1 .. n + 1, i + 2 <= n + 1
      PROVE  e.tape.samples[(i + 2) * CellSamples] = m[i]
  <2>1. CASE i + 2 <= n
    <3>1. (i + 2) * CellSamples \in Nat /\ (i + 2) * CellSamples <= k /\ (i + 2) * CellSamples >= 1
      <4> PICK x \in Nat : x = i + 2
        OBVIOUS
      <4>1. x * CellSamples <= n * CellSamples /\ x * CellSamples \in Nat
        BY <1>0, <2>1, Products
      <4>2. 1 <= x /\ CellSamples >= 1
        BY <1>0
      <4>3. 1 * CellSamples <= x * CellSamples
        BY <1>0, <4>2, Products
      <4> QED BY <1>0, <4>1, <4>2, <4>3, SMTT(40)
    <3>2. c.tape.samples[(i + 2) * CellSamples] = l[i]
      BY <2>1 DEF Recording
    <3>3. (i + 2) * CellSamples \in 1 .. k
      BY <3>1
    <3>4. m[i] = l[i]
      BY <1>1, <2>1
    <3> QED BY <1>5, <3>2, <3>3, <3>4
  <2>2. CASE ~(i + 2 <= n)
    <3>1. i = n - 1 /\ i + 2 = n + 1 /\ n - 1 >= 1
      BY <1>8, <2>2
    <3>2. m[i] = l[n - 1] /\ At(l, n - 1) = l[n - 1]
      BY <1>1, <3>1 DEF At
    <3> QED BY <1>5, <1>6, <3>1, <3>2
  <2> QED BY <2>1, <2>2
<1>9. NotThree(m)
  <2> SUFFICES ASSUME NEW i \in 1 .. n + 1, i + 2 <= n + 1, m[i] = m[i + 1], m[i + 1] = m[i + 2]
               PROVE  FALSE
    BY <1>1 DEF NotThree
  <2>1. CASE i + 2 <= n
    BY <1>1, <2>1 DEF NotThree, Recording
  <2>2. CASE ~(i + 2 <= n)
    <3>1. i = n - 1 /\ i + 2 = n + 1 /\ i + 1 = n /\ n >= 2
      BY <2>2
    <3>2. l[n - 1] = l[n] /\ l[n] = c.next
      BY <1>1, <3>1
    <3> QED BY <3>1, <3>2
  <2> QED BY <2>1, <2>2
<1> QED BY <1>1, <1>5, <1>6, <1>7, <1>8, <1>9 DEF Recording

(* The two waves after the last timed one have the last two levels         *)
LEMMA ClosedSurvives ==
  ASSUME NEW c \in Recorder, c.write, c.fp = "write", NEW l \in Seq(Sample), Recording(c, l),
         FlushSamples >= 2, l # <<>>, c.next = l[Len(l)]
  PROVE  Survives(Flushed(c).tape.samples, l)
<1>0. CellSamples \in Nat \ {0} /\ FlushSamples \in Nat
  BY Rates
<1> PICK n \in Nat : n = Len(l) /\ n >= 1
  BY LenProperties, EmptySeq
<1> PICK k \in Nat : k = n * CellSamples
  BY <1>0
<1>1. k = Len(c.tape.samples)
  BY DEF Recording
<1>2. /\ At(l, n - 2) \in Sample /\ At(l, n - 1) \in Sample /\ At(l, n) \in Sample
      /\ ~(At(l, n - 2) = 1 /\ At(l, n - 1) = 1 /\ At(l, n) = 1)
  BY ShiftLevels DEF Recording
<1> PICK p \in Sample, q \in Sample, r \in Sample :
      p = At(l, n - 2) /\ q = At(l, n - 1) /\ r = At(l, n)
  BY <1>2
<1>3. PICK t \in Recorder :
        /\ t = Toggle(c) /\ t.write /\ t.fp = "write" /\ t.tape = c.tape /\ t.shift = <<p, q, r>>
        /\ t.next = 1 - r
  <2>1. c.shift = <<p, q, r>> /\ c.next = r
    BY DEF Recording, At
  <2> QED BY <2>1, ToggleFacts DEF SameTape, Rests
<1>4. PICK d \in Recorder :
        /\ d = Expire(t, FlushSamples) /\ d.write /\ d.fp = "write"
        /\ Len(d.tape.samples) = k + FlushSamples
        /\ d.tape.samples[k + FlushSamples] = q
        /\ \A i \in 1 .. k : d.tape.samples[i] = c.tape.samples[i]
        /\ d.shift = <<q, r, 1 - r>>
  <2>1. Expire(t, FlushSamples) \in Recorder /\ SameTape(t, Expire(t, FlushSamples))
    BY Rates, ExpireFacts
  <2>2. ~(p = 1 /\ q = 1 /\ r = 1) /\ k = Len(t.tape.samples)
    BY <1>1, <1>2, <1>3
  <2>3. Adds(t, Expire(t, FlushSamples), FlushSamples, k, q, r)
    BY <1>0, <1>3, <2>2, ExpiryAdds
  <2> PICK d : d = Expire(t, FlushSamples)
    OBVIOUS
  <2>4. /\ Len(d.tape.samples) = k + FlushSamples
        /\ d.tape.samples[k + FlushSamples] = q
        /\ \A i \in 1 .. k : d.tape.samples[i] = c.tape.samples[i]
        /\ d.shift = <<q, r, 1 - r>>
    BY <1>3, <2>3, Zenon DEF Adds
  <2>5. d \in Recorder /\ d.write /\ d.fp = "write"
    BY <1>3, <2>1 DEF SameTape
  <2> QED BY <2>4, <2>5
<1> PICK j \in Nat : j = k + FlushSamples
  BY <1>0
<1>5. 1 - r \in Sample /\ ~(q = 1 /\ r = 1 /\ 1 - r = 1)
  BY DEF Sample
<1>6. PICK e \in Recorder :
        /\ e = Expire(d, FlushSamples)
        /\ Len(e.tape.samples) = j + FlushSamples
        /\ e.tape.samples[j + FlushSamples] = r
        /\ \A i \in 1 .. j : e.tape.samples[i] = d.tape.samples[i]
  <2> PICK x \in Sample : x = 1 - r
    BY <1>5
  <2>1. Expire(d, FlushSamples) \in Recorder
    BY Rates, ExpireFacts
  <2>2. d.shift = <<q, r, x>> /\ ~(q = 1 /\ r = 1 /\ x = 1) /\ j = Len(d.tape.samples)
    BY <1>4, <1>5
  <2>3. Adds(d, Expire(d, FlushSamples), FlushSamples, j, r, x)
    BY <1>0, <1>4, <2>2, ExpiryAdds, ZenonT(60)
  <2> QED BY <2>1, <2>3 DEF Adds
<1>7. e = Dribble(c)
  BY <1>3, <1>4, <1>6 DEF Dribble
<1>8. PICK f \in Recorder : f = Flushed(c) /\ Grows(e, f)
  BY <1>7, FlushedGrows
<1>9. e.write /\ e.fp = "write"
  BY <1>7, DribbleGrows DEF Grows, SameTape
<1>10. Prefix(e.tape.samples, f.tape.samples)
  BY <1>8, <1>9 DEF Grows
<1> PICK u : u = f.tape.samples
  OBVIOUS
<1>11. /\ Len(u) \in Nat /\ j + FlushSamples <= Len(u)
       /\ \A i \in 1 .. j + FlushSamples : u[i] = e.tape.samples[i]
  BY <1>6, <1>10, LenProperties DEF Prefix, Recorder, Tape
<1>12. /\ u[j + FlushSamples] = r /\ u[k + FlushSamples] = q
       /\ \A i \in 1 .. k : u[i] = c.tape.samples[i]
  <2>1. j + FlushSamples \in 1 .. j + FlushSamples /\ k + FlushSamples \in 1 .. j + FlushSamples
        /\ k + FlushSamples \in 1 .. j /\ \A i \in 1 .. k : i \in 1 .. j /\ i \in 1 .. j + FlushSamples
    BY <1>0
  <2>2. u[j + FlushSamples] = r
    BY <1>6, <1>11, <2>1
  <2>3. u[k + FlushSamples] = q
    <3> PICK x : x = k + FlushSamples
      OBVIOUS
    <3>1. u[x] = e.tape.samples[x] /\ e.tape.samples[x] = d.tape.samples[x]
      BY <1>6, <1>11, <2>1
    <3> QED BY <1>4, <3>1
  <2>4. \A i \in 1 .. k : u[i] = c.tape.samples[i]
    <3> SUFFICES ASSUME NEW i \in 1 .. k PROVE u[i] = c.tape.samples[i]
      OBVIOUS
    <3>1. i \in 1 .. j /\ i \in 1 .. j + FlushSamples
      BY <2>1
    <3>2. u[i] = e.tape.samples[i]
      BY <1>11, <3>1
    <3>3. e.tape.samples[i] = d.tape.samples[i]
      BY <1>6, <3>1
    <3>4. d.tape.samples[i] = c.tape.samples[i]
      BY <1>4
    <3> QED BY <3>2, <3>3, <3>4
  <2> QED BY <2>2, <2>3, <2>4
<1>13. ASSUME NEW i \in 1 .. n PROVE End(l, i + 2) <= Len(u) /\ u[End(l, i + 2)] = l[i]
  <2>1. CASE i + 2 <= n
    <3>1. End(l, i + 2) = (i + 2) * CellSamples
      BY <2>1 DEF End
    <3>2. i + 2 \in Nat /\ (i + 2) * CellSamples <= n * CellSamples /\ (i + 2) * CellSamples \in Nat
      BY <1>0, <2>1, Products
    <3>3. 1 * CellSamples <= (i + 2) * CellSamples
      BY <1>0, Products
    <3>4. PICK x : x = (i + 2) * CellSamples
      OBVIOUS
    <3>5. x \in 1 .. k /\ x <= Len(u)
      <4>1. x \in Nat /\ x <= k
        BY <3>2, <3>4
      <4>2. 1 * CellSamples >= 1
        BY <1>0
      <4>3. x >= 1
        BY <1>0, <3>3, <3>4, <4>1, <4>2
      <4>4. k + FlushSamples + FlushSamples <= Len(u)
        BY <1>11
      <4>5. x <= Len(u)
        BY <1>0, <1>11, <4>1, <4>4, SMTT(40)
      <4> QED BY <4>1, <4>3, <4>5
    <3>6. c.tape.samples[x] = l[i]
      BY <2>1, <3>4 DEF Recording
    <3> QED BY <1>12, <3>1, <3>4, <3>5, <3>6
  <2>2. CASE i = n - 1
    <3>1. End(l, i + 2) = n * CellSamples + 1 * FlushSamples
      BY <2>2 DEF End
    <3>2. End(l, i + 2) = k + FlushSamples
      BY <1>0, <3>1
    <3>3. l[i] = q
      BY <2>2 DEF At
    <3> QED BY <1>0, <1>11, <1>12, <3>2, <3>3, SMTT(40)
  <2>3. CASE i = n
    <3>1. End(l, i + 2) = n * CellSamples + 2 * FlushSamples
      BY <2>3 DEF End
    <3>2. End(l, i + 2) = j + FlushSamples
      BY <1>0, <3>1
    <3>3. l[i] = r
      BY <2>3 DEF At
    <3> QED BY <1>0, <1>11, <1>12, <3>2, <3>3
  <2> QED BY <2>1, <2>2, <2>3
<1> QED BY <1>8, <1>13 DEF Survives

-----------------------------------------------------------------------------
(* The recorder                                                            *)

(* Playing leaves the tape and the shift register alone                    *)
Plays(c, e) ==
  /\ e \in Recorder /\ e.fp # "write"
  /\ e.tape = c.tape /\ e.shift = c.shift /\ e.write = c.write

LEMMA PlayPlays ==
  ASSUME NEW c \in Recorder, c.fp # "write", NEW n \in Nat \ {0} PROVE Plays(c, Play(c, n))
<1> PICK bit \in Sample : bit = Heard(c, n)
  BY HeardIsSample
<1> PICK a \in Nat, r \in Int : a = c.at + n /\ r = c.remaining - n
  BY DEF Recorder
<1> PICK d : d = [c EXCEPT !.at = a, !.block = bit, !.next = bit, !.remaining = r]
  OBVIOUS
<1>1. d \in Recorder
  BY DEF Recorder
<1>2. d.fp = c.fp /\ d.write = c.write /\ d.tape = c.tape /\ d.shift = c.shift /\ d.remaining = r
  BY DEF Recorder
<1>3. Play(c, n) = IF r <= 0 THEN Closed(d) ELSE d
  BY <1>2 DEF Play
<1>4. Closed(d).tape = d.tape
  <2>1. [d.tape EXCEPT !.header = d.tape.header] = d.tape
    BY <1>1 DEF Recorder, Tape
  <2>2. Closed(d) = [d EXCEPT !.tape = d.tape, !.fp = "none"]
    BY <1>1, <1>2, <2>1 DEF Closed, Recorder
  <2> QED BY <1>1, <2>2 DEF Recorder
<1> QED BY <1>1, <1>2, <1>3, <1>4, ClosedFacts, ZenonT(60) DEF Plays

LEMMA ReadPlays ==
  ASSUME NEW c \in Recorder, c.fp # "write", NEW passed \in BOOLEAN
  PROVE  Plays(c, ModulationRead(c, passed))
<1>1. CASE c.fp = "none"
  <2>1. PICK e \in Recorder : e = Toggle(c) /\ SameTape(c, e) /\ Rests(c, e)
    BY ToggleFacts
  <2> QED BY <1>1, <2>1 DEF ModulationRead, Plays, SameTape, Rests
<1>2. CASE c.fp # "none" /\ c.due > 0
  <2> PICK d : d = [c EXCEPT !.due = 0]
    OBVIOUS
  <2>1. d \in Recorder /\ d.fp = c.fp /\ d.tape = c.tape /\ d.shift = c.shift /\ d.write = c.write
    BY DEF Recorder
  <2>2. c.due \in Nat \ {0}
    BY <1>2 DEF Recorder
  <2>3. Plays(d, Play(d, c.due))
    BY <2>1, <2>2, PlayPlays
  <2> QED BY <1>2, <2>1, <2>3 DEF ModulationRead, Plays
<1>3. CASE c.fp # "none" /\ ~(c.due > 0)
  <2>1. Plays(c, Play(c, 1)) /\ Plays(c, c)
    BY PlayPlays DEF Plays
  <2> QED BY <1>3, <2>1 DEF ModulationRead
<1> QED BY <1>1, <1>2, <1>3

LEMMA OpenedPlays ==
  ASSUME NEW c, Counters(c), c.fp = "none", ~c.write, NEW e \in OpenedRead(c)
  PROVE  Plays(c, e)
<1>1. c \in Recorder /\ e \in Recorder
  BY OpenedCounts DEF Counters
<1>2. e.fp # "write" /\ e.tape = c.tape /\ e.shift = c.shift /\ e.write = c.write
  BY <1>1, ZenonT(60) DEF OpenedRead, Recorder
<1> QED BY <1>1, <1>2 DEF Plays

(* Either the recorder records the levels, or those of a complete tape are *)
(* on it.                                                                  *)
Levels(c, l) ==
  /\ l \in Seq(Sample)
  /\ ~c.write => c.shift = <<0, 0, 0>>
  /\ c.fp = "write" => Recording(c, l)
  /\ c.tape.header # Unset => Survives(c.tape.samples, l)

TapeInv == CounterInv /\ Levels(cassette, levels)

LEMMA StartedLevels ==
  ASSUME NEW tape, NEW l \in Seq(Sample), tape.header # Unset => Survives(tape.samples, l)
  PROVE  Levels(Started(tape), l)
<1>1. /\ Started(tape).tape = tape /\ Started(tape).fp = "none"
      /\ Started(tape).shift = <<0, 0, 0>>
  BY DEF Started
<1> QED BY <1>1 DEF Levels

LEMMA TapeInit == ASSUME CassetteInit PROVE TapeInv
<1>1. <<>> \in Seq(Sample)
  BY EmptySeq
<1> QED BY <1>1, CounterInit, BlankIsTape, StartedLevels DEF CassetteInit, TapeInv

LEMMA TapeNext ==
  ASSUME TapeInv, {"restart", "modulation"} \subseteq TapeRules,
         CellSamples >= 2, FlushSamples >= 2, [CassetteNext]_cassetteVars
  PROVE  TapeInv'
<1>0. CounterInv'
  BY CounterNext DEF TapeInv
<1> PICK c, l : c = cassette /\ l = levels /\ Counters(c) /\ Levels(c, l)
  BY DEF TapeInv, CounterInv
<1> USE DEF Counters
<1>1. ASSUME TimerExpired(CellSamples) PROVE Levels(cassette', levels')
  <2> PICK e : e = cassette' /\ e = Expire(c, CellSamples)
    BY <1>1 DEF TimerExpired
  <2>1. ~(c.write /\ c.fp = "none") /\ c.fp \in {"none", "read", "write"} /\ c.next \in Sample
    BY <1>1 DEF TimerExpired, Timed, Over, Obeys, Recorder
  <2>2. SameTape(c, e) /\ (~c.write => Rests(c, e))
    BY Rates, ExpireFacts
  <2>3. CASE c.write
    <3>1. c.fp = "write" /\ c.tape.header = Unset
      BY <2>1, <2>3
    <3>2. levels' = Append(l, c.next) /\ (TwoAlike => c.next # l[Len(l)])
      BY <1>1, <3>1 DEF TimerExpired, Obeys
    <3>3. Recording(e, levels')
      BY <2>3, <3>1, <3>2, LevelTimed DEF Levels, TwoAlike
    <3>4. levels' \in Seq(Sample)
      BY <2>1, <3>2, AppendProperties DEF Levels
    <3> QED BY <2>2, <2>3, <3>1, <3>3, <3>4 DEF Levels, SameTape
  <2>4. CASE ~c.write
    <3>1. c.fp # "write" /\ levels' = l
      BY <1>1, <2>4 DEF TimerExpired
    <3> QED BY <2>2, <2>4, <3>1 DEF Levels, SameTape, Rests
  <2> QED BY <2>3, <2>4
<1>2. ASSUME NEW value \in {0, 1}, TapeOutput(value) PROVE Levels(cassette', levels')
  <2>0. value \in Sample
    BY DEF Sample
  <2>1. CASE c.fp = "none"
    <3>1. /\ ~c.write /\ levels' = <<>>
          /\ cassette' = [FileOpenWrite(c) EXCEPT !.next = value]
      BY <1>2, <2>1 DEF TapeOutput, Timed, Over, Obeys
    <3>2. PICK e : /\ e = cassette' /\ e.write /\ e.tape.header = Unset /\ e.tape.samples = <<>>
                   /\ e.shift = <<0, 0, 0>>
      <4>1. c.shift = <<0, 0, 0>>
        BY <3>1 DEF Levels
      <4> PICK e : e = [FileOpenWrite(c) EXCEPT !.next = value]
        OBVIOUS
      <4>2. e.write /\ e.tape.header = Unset /\ e.tape.samples = <<>> /\ e.shift = c.shift
        BY <2>0, OpenedWrite
      <4> QED BY <3>1, <4>1, <4>2
    <3>3. Recording(e, <<>>)
      BY <3>2, Rates DEF Recording, At, NotThree
    <3> QED BY <3>1, <3>2, <3>3, EmptySeq DEF Levels
  <2>2. CASE c.fp # "none"
    <3>1. levels' = l /\ cassette' = [c EXCEPT !.next = value]
      BY <1>2, <2>2 DEF TapeOutput
    <3>2. PICK e : /\ e = cassette' /\ e.fp = c.fp /\ e.write = c.write /\ e.tape = c.tape
                   /\ e.shift = c.shift
      BY <2>0, <3>1, NextLevel, ZenonT(60)
    <3> QED BY <3>1, <3>2 DEF Levels, Recording
  <2> QED BY <2>1, <2>2
<1>3. ASSUME NEW value \in {0, 1}, Motor(value) PROVE Levels(cassette', levels')
  <2>1. levels' = l
    BY <1>3 DEF Motor
  <2>2. CASE cassette' = c
    BY <2>1, <2>2
  <2>3. CASE cassette' = FileCloseWrite(c) /\ c.fp = "write"
    <3>1. l # <<>> /\ c.next = l[Len(l)]
      <4>1. cassette' # c
        <5>1. cassette'.fp = "none"
          BY <2>3, ClosedFacts, FlushedGrows DEF FileCloseWrite
        <5> QED BY <2>3, <5>1
      <4> QED BY <1>3, <2>3, <4>1 DEF Motor, Obeys
    <3>2. Survives(Flushed(c).tape.samples, l)
      BY <2>3, <3>1, ClosedSurvives DEF Levels
    <3>3. PICK e : /\ e = cassette' /\ e.fp = "none" /\ e.write = Flushed(c).write
                   /\ e.tape.samples = Flushed(c).tape.samples
      BY <2>3, ClosedFacts, FlushedGrows DEF FileCloseWrite
    <3>4. Flushed(c).write
      BY <2>3, FlushedGrows DEF Grows, SameTape
    <3> QED BY <2>1, <3>2, <3>3, <3>4 DEF Levels
  <2>4. CASE cassette' = FileCloseWrite(c) /\ c.fp = "read"
    <3>1. PICK d \in Recorder : d = Flushed(c) /\ SameTape(c, d) /\ Rests(c, d)
      BY <2>4, FlushedGrows DEF Grows
    <3>2. PICK e : /\ e = cassette' /\ e.fp = "none" /\ e.write = c.write
                   /\ e.tape.samples = c.tape.samples /\ e.tape.header = c.tape.header
                   /\ e.shift = c.shift
      BY <2>4, <3>1, ClosedFacts DEF FileCloseWrite, SameTape, Rests
    <3> QED BY <2>1, <3>2 DEF Levels
  <2>5. (c.fp # "none" /\ cassette' = FileCloseWrite(c)) \/ cassette' = c
    BY <1>3 DEF Motor
  <2>6. c.fp \in {"none", "read", "write"}
    BY DEF Recorder
  <2> QED BY <2>2, <2>3, <2>4, <2>5, <2>6
<1>4. ASSUME NEW passed \in BOOLEAN, TapeInput(passed) PROVE Levels(cassette', levels')
  <2>1. PICK e \in IF c.fp = "none" THEN OpenedRead(c) ELSE {c} : cassette' = ModulationRead(e, passed)
    BY <1>4 DEF TapeInput
  <2>2. ~(c.write /\ c.fp = "none") /\ c.fp # "write" /\ levels' = l
    BY <1>4 DEF TapeInput, Timed, Over, Obeys
  <2>3. Plays(c, e)
    BY <2>1, <2>2, OpenedPlays DEF Plays
  <2>4. Plays(e, cassette')
    BY <2>1, <2>3, ReadPlays DEF Plays
  <2> QED BY <2>2, <2>3, <2>4 DEF Plays, Levels
<1>5. ASSUME Restart PROVE Levels(cassette', levels')
  BY <1>5, StartedLevels DEF Restart, Levels
<1>6. ASSUME UNCHANGED cassetteVars PROVE Levels(cassette', levels')
  BY <1>6 DEF cassetteVars
<1>7. Levels(cassette', levels')
  BY <1>1, <1>2, <1>3, <1>4, <1>5, <1>6, Zenon DEF CassetteNext
<1> QED BY <1>0, <1>7 DEF TapeInv

(* While a tape is played the counter is what is left of it, through       *)
(* headers, reads of one and of several samples, closing and opening       *)
(* again, if a recording has an emulator of its own (wav.cc 69-102).       *)
THEOREM CounterKeepsCount ==
  ASSUME "restart" \in TapeRules PROVE CassetteSpec => []CounterIsRemaining
<1>1. CounterInv => CounterIsRemaining
  BY DEF CounterInv, Counters, CounterIsRemaining
<1>2. QED
  BY <1>1, CounterInit, CounterNext, PTL DEF CassetteSpec

(* Every level output at an expiry is on the tape once the recording is    *)
(* closed, however long it is and for cells of any length, if levels last  *)
(* one cell or two (cassette.cc 74-111, 205-223).                          *)
THEOREM LevelsAreKept ==
  ASSUME {"restart", "modulation"} \subseteq TapeRules, CellSamples >= 2, FlushSamples >= 2
  PROVE  CassetteSpec => []LevelsSurvive
<1>1. TapeInv => LevelsSurvive
  <2> SUFFICES ASSUME TapeInv, cassette.tape.header # Unset, NEW i \in 1 .. Len(levels)
               PROVE  /\ WaveEnd(i + 2) <= Len(cassette.tape.samples)
                      /\ cassette.tape.samples[WaveEnd(i + 2)] = levels[i]
    BY DEF LevelsSurvive
  <2>1. Survives(cassette.tape.samples, levels) /\ levels \in Seq(Sample)
    BY DEF TapeInv, Levels
  <2> PICK n \in Nat : n = Len(levels)
    BY <2>1, LenProperties
  <2>2. PICK m : m = Min({i + 2, n})
    OBVIOUS
  <2>3. \E x \in {i + 2, n} : \A y \in {i + 2, n} : x <= y
    OBVIOUS
  <2>4. m \in {i + 2, n} /\ \A y \in {i + 2, n} : m <= y
    BY <2>2, <2>3, Zenon DEF Min
  <2>5. m = IF i + 2 <= n THEN i + 2 ELSE n
    BY <2>4
  <2>6. WaveEnd(i + 2) = m * CellSamples + ((i + 2) - m) * FlushSamples
    BY <2>2 DEF WaveEnd
  <2>7. WaveEnd(i + 2) = End(levels, i + 2)
    <3>0. CellSamples \in Nat /\ FlushSamples \in Nat
      BY Rates
    <3>1. CASE i + 2 <= n
      <4>1. m = i + 2 /\ (i + 2) - m = 0
        BY <2>5, <3>1
      <4>2. WaveEnd(i + 2) = (i + 2) * CellSamples + 0 * FlushSamples
        BY <2>6, <4>1
      <4> QED BY <3>0, <3>1, <4>2 DEF End
    <3>2. CASE ~(i + 2 <= n)
      BY <2>5, <2>6, <3>2 DEF End
    <3> QED BY <3>1, <3>2
  <2> QED BY <2>1, <2>7 DEF Survives
<1>2. QED
  BY <1>1, TapeInit, TapeNext, PTL DEF CassetteSpec

(* Counts, samples and levels have their types, and no recording goes past *)
(* its bound, if a recording has an emulator of its own.                   *)
LevelsTyped == levels \in Seq(Sample) /\ Len(levels) <= MaxCells

LEMMA LevelsTypedNext ==
  ASSUME LevelsTyped, CounterInv, [CassetteNext]_cassetteVars PROVE LevelsTyped'
<1>1. ASSUME TimerExpired(CellSamples) PROVE LevelsTyped'
  <2>1. CASE cassette.fp = "write"
    <3>1. cassette.next \in Sample
      BY DEF CounterInv, Counters, Recorder
    <3>2. Len(levels) \in Nat /\ Len(levels) < MaxCells /\ levels' = Append(levels, cassette.next)
      BY <1>1, <2>1, LenProperties DEF TimerExpired, LevelsTyped
    <3>3. levels' \in Seq(Sample) /\ Len(levels') = Len(levels) + 1
      BY <3>1, <3>2, AppendProperties DEF LevelsTyped
    <3> QED BY <3>2, <3>3, CassetteAssumption DEF LevelsTyped
  <2>2. CASE cassette.fp # "write"
    BY <1>1, <2>2 DEF TimerExpired, LevelsTyped
  <2> QED BY <2>1, <2>2
<1>2. ASSUME NEW value \in {0, 1}, TapeOutput(value) PROVE LevelsTyped'
  <2>1. <<>> \in Seq(Sample) /\ Len(<<>>) = 0
    BY EmptySeq
  <2>2. levels' = <<>> \/ levels' = levels
    BY <1>2 DEF TapeOutput
  <2>3. 0 <= MaxCells
    BY CassetteAssumption
  <2>4. CASE levels' = <<>>
    BY <2>1, <2>3, <2>4 DEF LevelsTyped
  <2> QED BY <2>2, <2>4 DEF LevelsTyped
<1>3. ASSUME UNCHANGED levels PROVE LevelsTyped'
  BY <1>3 DEF LevelsTyped
<1>4. TimerExpired(CellSamples) \/ (\E value \in {0, 1} : TapeOutput(value)) \/ UNCHANGED levels
  BY Zenon DEF CassetteNext, Motor, TapeInput, Restart, cassetteVars
<1> QED BY <1>1, <1>2, <1>3, <1>4

THEOREM CassetteTypes ==
  ASSUME "restart" \in TapeRules PROVE CassetteSpec => []CassetteTypeOK
<1>1. CassetteInit => LevelsTyped
  <2>1. <<>> \in Seq(Sample) /\ Len(<<>>) = 0
    BY EmptySeq
  <2> QED BY <2>1, CassetteAssumption DEF CassetteInit, LevelsTyped
<1>2. LevelsTyped /\ CounterInv => CassetteTypeOK
  BY DEF LevelsTyped, CounterInv, Counters, Recorder, Tape, Sample, CassetteTypeOK
<1>3. QED
  BY <1>1, <1>2, CounterInit, CounterNext, LevelsTypedNext, PTL DEF CassetteSpec

-----------------------------------------------------------------------------
(* Positions in sectors                                                    *)

LEMMA DivisionFacts ==
  ASSUME NEW x \in Nat, NEW d \in Nat \ {0}
  PROVE  /\ x \div d \in Nat
         /\ (x \div d) * d <= x /\ x < (x \div d + 1) * d
<1> DEFINE q == x \div d
           r == x % d
<1>1. q \in Nat /\ r \in 0 .. d - 1 /\ x = q * d + r
  OBVIOUS
<1> HIDE DEF q, r
<1>2. (q + 1) * d = q * d + d
  BY <1>1
<1>3. PICK e \in Nat : e = q * d
  BY <1>1
<1>4. q \in Nat /\ q * d <= x /\ x < (q + 1) * d
  BY <1>1, <1>2, <1>3
<1> QED BY <1>4 DEF q

(* The number of a position in a sector. *)
LEMMA InSector ==
  ASSUME NEW d \in Nat \ {0}, NEW x \in Nat, NEW j \in Nat, j * d <= x, x < (j + 1) * d
  PROVE  x \div d = j
<1> DEFINE q == x \div d
<1>1. q \in Nat /\ q * d <= x /\ x < (q + 1) * d
  BY DivisionFacts
<1> HIDE DEF q
<1>2. \A a, b \in Nat : a < b => (a + 1) * d <= b * d
  <2> SUFFICES ASSUME NEW a \in Nat, NEW b \in Nat, a < b PROVE (a + 1) * d <= b * d
    OBVIOUS
  <2>1. PICK g \in Nat : b = a + 1 + g
    <3>1. b - a - 1 \in Nat
      OBVIOUS
    <3> QED BY <3>1
  <2>2. b * d = (a + 1) * d + g * d
    BY <2>1
  <2>3. g * d \in Nat /\ (a + 1) * d \in Nat
    OBVIOUS
  <2> QED BY <2>2, <2>3
<1>3. PICK u \in Nat, v \in Nat, y \in Nat, z \in Nat :
        u = q * d /\ v = (q + 1) * d /\ y = j * d /\ z = (j + 1) * d
  BY <1>1
<1>4. ~(q < j) /\ ~(j < q)
  BY <1>1, <1>2, <1>3
<1>5. q = j
  BY <1>1, <1>4
<1> QED BY <1>5 DEF q


-----------------------------------------------------------------------------
(* DIS/VAR files: one record                                               *)

Lines == {line \in Seq(Nat) : Len(line) <= MaxRecord}

Encoder == [out : Seq(Nat), space : 1 .. SectorBytes]

LEMMA JoinedFacts ==
  ASSUME NEW s \in Seq(Nat), NEW t \in Seq(Nat)
  PROVE  /\ s \o t \in Seq(Nat) /\ Len(s \o t) = Len(s) + Len(t)
         /\ Len(s) \in Nat /\ Len(t) \in Nat
         /\ \A i \in 1 .. Len(s) : (s \o t)[i] = s[i]
         /\ \A i \in 1 .. Len(t) : (s \o t)[Len(s) + i] = t[i]
<1>1. s \o t \in Seq(Nat) /\ Len(s \o t) = Len(s) + Len(t) /\ Len(s) \in Nat /\ Len(t) \in Nat
  BY ConcatProperties
<1>2. \A i \in 1 .. Len(s) + Len(t) : (s \o t)[i] = IF i <= Len(s) THEN s[i] ELSE t[i - Len(s)]
  BY ConcatProperties
<1>3. \A i \in 1 .. Len(s) : (s \o t)[i] = s[i]
  BY <1>1, <1>2
<1>4. ASSUME NEW i \in 1 .. Len(t) PROVE (s \o t)[Len(s) + i] = t[i]
  <2>1. Len(s) + i \in 1 .. Len(s) + Len(t) /\ ~(Len(s) + i <= Len(s)) /\ Len(s) + i - Len(s) = i
    BY <1>1
  <2> QED BY <1>2, <2>1
<1> QED BY <1>1, <1>3, <1>4

LEMMA PaddingFacts ==
  ASSUME NEW n \in 1 .. SectorBytes
  PROVE  Padding(n) \in Seq(Nat) /\ Len(Padding(n)) = n /\ Padding(n)[1] = EndMark
<1> DEFINE z == [i \in 1 .. n - 1 |-> 0]
           e == <<EndMark>>
<1>1. n \in Nat /\ n - 1 \in Nat
  BY RecordsAssumption
<1>2. z \in Seq(Nat) /\ Len(z) = n - 1
  <2> PICK m \in Nat : m = n - 1
    BY <1>1
  <2>1. [i \in 1 .. m |-> 0] \in Seq(Nat) /\ Len([i \in 1 .. m |-> 0]) = m
    OBVIOUS
  <2> QED BY <2>1
<1>3. e \in Seq(Nat) /\ Len(e) = 1 /\ e[1] = EndMark
  BY DEF EndMark
<1> HIDE DEF z, e
<1>4. e \o z \in Seq(Nat) /\ Len(e \o z) = Len(e) + Len(z) /\ (e \o z)[1] = e[1]
  <2>1. 1 \in 1 .. Len(e)
    BY <1>3
  <2> QED BY <1>2, <1>3, <2>1, JoinedFacts
<1>5. Padding(n) = e \o z
  BY DEF Padding, e, z
<1> QED BY <1>1, <1>2, <1>3, <1>4, <1>5

(* The encoder d has the record of line at the position p, behind what c had. *)
Extends(c, line, p, d) ==
  /\ p \in Nat
  /\ d \in Encoder
  /\ Len(d.out) = p + 1 + Len(line)
  /\ \A i \in 1 .. Len(c.out) : d.out[i] = c.out[i]
  /\ d.out[p + 1] = Len(line)
  /\ \A i \in 1 .. Len(line) : d.out[p + 1 + i] = line[i]
  /\ \/ /\ p = Len(c.out) /\ d.space = c.space - (Len(line) + 1)
     \/ /\ p = Len(c.out) + c.space /\ d.space = SectorBytes - (Len(line) + 1)
        /\ d.out[Len(c.out) + 1] = EndMark

LEMMA EncodeExtends ==
  ASSUME NEW c \in Encoder, NEW line \in Lines
  PROVE  \E p \in Nat : Extends(c, line, p, EncodeRecord(c, line))
<1> DEFINE S == Seq(Nat)
<1>1. PICK out \in Seq(Nat), space \in 1 .. SectorBytes : c = [out |-> out, space |-> space]
  BY DEF Encoder
<1>2. PICK n \in Nat, SB \in Nat : n = Len(line) /\ n <= MaxRecord /\ SB = SectorBytes /\ n + 2 <= SB
  BY RecordsAssumption DEF Lines
<1>3. line \in Seq(Nat) /\ <<n>> \in Seq(Nat) /\ Len(<<n>>) = 1 /\ <<n>>[1] = n
  BY DEF Lines
<1>4. PICK pad \in Seq(Nat) :
        /\ pad = IF n + 2 > space THEN Padding(space) ELSE <<>>
        /\ Len(pad) = IF n + 2 > space THEN space ELSE 0
        /\ n + 2 > space => pad[1] = EndMark
  <2>1. CASE n + 2 > space
    BY <2>1, PaddingFacts
  <2>2. CASE ~(n + 2 > space)
    <3>4. <<>> \in Seq(Nat) /\ Len(<<>>) = 0
      OBVIOUS
    <3> DEFINE pad == <<>>
    <3>1. pad \in Seq(Nat) /\ pad = <<>> /\ Len(pad) = 0
      BY <3>4
    <3> HIDE DEF pad
    <3>2. pad = IF n + 2 > space THEN Padding(space) ELSE <<>>
      BY <2>2, <3>1, Zenon
    <3>3. Len(pad) = IF n + 2 > space THEN space ELSE 0
      BY <2>2, <3>1
    <3> QED BY <2>2, <3>1, <3>2, <3>3, Zenon
  <2> QED BY <2>1, <2>2
<1> DEFINE left == (IF n + 2 > space THEN SectorBytes ELSE space) - (n + 1)
           all == out \o pad \o <<n>> \o line
           r == [out |-> all, space |-> left]
<1>5. EncodeRecord(c, line) = r
  BY <1>1, <1>2, <1>4, Zenon DEF EncodeRecord
<1>6. left \in 1 .. SectorBytes
  BY <1>2
<1>7. PICK a \in Seq(Nat) : a = out \o pad
  BY JoinedFacts
<1>8. /\ Len(a) = Len(out) + Len(pad) /\ Len(a) \in Nat /\ Len(out) \in Nat /\ Len(pad) \in Nat
      /\ \A i \in 1 .. Len(out) : a[i] = out[i]
      /\ \A i \in 1 .. Len(pad) : a[Len(out) + i] = pad[i]
  BY <1>7, JoinedFacts
<1>9. PICK b \in Seq(Nat) : b = a \o <<n>>
  BY <1>3, JoinedFacts
<1>10. PICK m : m = <<n>>
  OBVIOUS
<1>11. /\ Len(b) = Len(a) + 1 /\ b[Len(a) + 1] = n
       /\ \A i \in 1 .. Len(a) : b[i] = a[i]
  <2>1. /\ Len(b) = Len(a) + Len(m)
        /\ \A i \in 1 .. Len(a) : b[i] = a[i]
        /\ \A i \in 1 .. Len(m) : b[Len(a) + i] = m[i]
    BY <1>3, <1>9, <1>10, JoinedFacts
  <2>2. Len(m) = 1 /\ m[1] = n /\ 1 \in 1 .. 1
    BY <1>3, <1>10
  <2> QED BY <2>1, <2>2
<1>12. /\ all \in Seq(Nat) /\ Len(all) = Len(b) + n
       /\ \A i \in 1 .. Len(b) : all[i] = b[i]
       /\ \A i \in 1 .. n : all[Len(b) + i] = line[i]
  <2>1. all = b \o line
    BY <1>7, <1>9
  <2> HIDE DEF all
  <2> QED BY <1>2, <1>3, <2>1, JoinedFacts
<1> HIDE DEF all, left
<1>13. PICK p \in Nat : p = Len(a)
  BY <1>8
<1>14. Len(all) = p + 1 + n /\ all[p + 1] = n /\ \A i \in 1 .. n : all[p + 1 + i] = line[i]
  BY <1>8, <1>11, <1>12, <1>13, SMTT(40)
<1>15. \A i \in 1 .. Len(out) : all[i] = out[i]
  <2> SUFFICES ASSUME NEW i \in 1 .. Len(out) PROVE all[i] = out[i]
    OBVIOUS
  <2>1. i \in 1 .. Len(a) /\ i \in 1 .. Len(b)
    BY <1>8, <1>11
  <2> QED BY <1>8, <1>11, <1>12, <2>1
<1>16. r \in Encoder /\ r.out = all /\ r.space = left
  <2>1. all \in Seq(Nat)
    BY <1>12
  <2> QED BY <1>6, <2>1 DEF Encoder
<1>17. c.out = out /\ c.space = space
  BY <1>1
<1> HIDE DEF r
<1>18. \/ p = Len(out) /\ left = space - (n + 1)
       \/ p = Len(out) + space /\ left = SectorBytes - (n + 1) /\ all[Len(out) + 1] = EndMark
  <2>1. CASE n + 2 > space
    <3>1. p = Len(out) + space /\ left = SectorBytes - (n + 1)
      BY <1>4, <1>8, <1>13, <2>1 DEF left
    <3>4. Len(pad) = space /\ space \in Nat /\ space >= 1
      BY <1>4, <2>1, RecordsAssumption
    <3>2. 1 \in 1 .. Len(pad) /\ Len(out) + 1 \in 1 .. Len(a) /\ Len(out) + 1 \in 1 .. Len(b)
      BY <1>8, <1>11, <3>4
    <3>3. a[Len(out) + 1] = pad[1] /\ b[Len(out) + 1] = a[Len(out) + 1]
          /\ all[Len(out) + 1] = b[Len(out) + 1]
      BY <1>8, <1>11, <1>12, <3>2
    <3> QED BY <1>4, <2>1, <3>1, <3>3
  <2>2. CASE ~(n + 2 > space)
    BY <1>4, <1>8, <1>13, <2>2 DEF left
  <2> QED BY <2>1, <2>2
<1>19. Extends(c, line, p, r)
  BY <1>2, <1>14, <1>15, <1>16, <1>17, <1>18 DEF Extends
<1> QED BY <1>5, <1>19

(* The results after each line. *)
NothingEncoded == [out |-> <<>>, space |-> SectorBytes]

IsEncoding(lines, f) ==
  /\ f \in [0 .. Len(lines) -> Encoder] /\ f[0] = NothingEncoded
  /\ \A k \in 1 .. Len(lines) : f[k] = EncodeRecord(f[k - 1], lines[k])

LEMMA NothingEncodedIsEncoder == NothingEncoded \in Encoder /\ Len(NothingEncoded.out) = 0 /\ NothingEncoded.space = SectorBytes
<1>1. SectorBytes \in 1 .. SectorBytes
  BY RecordsAssumption
<1>2. <<>> \in Seq(Nat) /\ Len(<<>>) = 0
  OBVIOUS
<1> DEFINE S == Seq(Nat)
<1> HIDE DEF S
<1>3. <<>> \in S
  BY <1>2 DEF S
<1>4. NothingEncoded \in [out : S, space : 1 .. SectorBytes]
  BY <1>1, <1>3 DEF NothingEncoded
<1> QED BY <1>2, <1>4 DEF Encoder, NothingEncoded, S

LEMMA EncodeSteps ==
  ASSUME NEW lines \in Seq(Lines)
  PROVE  \E f : IsEncoding(lines, f) /\ EncodeDisVar(lines) = f[Len(lines)].out
<1> DEFINE F == [k \in 1 .. Len(lines) |-> [d \in Encoder |-> EncodeRecord(d, lines[k])]]
<1>0. PICK n \in Nat : n = Len(lines) /\ DOMAIN lines = 1 .. n
  OBVIOUS
<1>1. F \in [1 .. n -> [Encoder -> Encoder]]
  <2>1. ASSUME NEW k \in 1 .. n, NEW d \in Encoder PROVE EncodeRecord(d, lines[k]) \in Encoder
    <3>1. lines[k] \in Lines
      BY <1>0
    <3> QED BY <3>1, EncodeExtends DEF Extends
  <2> QED BY <1>0, <2>1
<1>2. EncodeDisVar(lines) =
        (CHOOSE it : it = [s \in SUBSET DOMAIN lines |->
           IF s = {} THEN NothingEncoded
           ELSE EncodeRecord(it[s \ {Max(s)}], lines[Max(s)])])[DOMAIN lines].out
  BY Zenon DEF EncodeDisVar, FoldLeft, MapThenFoldSet, NothingEncoded
<1> DEFINE Folds(it) == it = [s \in SUBSET (1 .. n) |->
                                IF s = {} THEN NothingEncoded
                                ELSE EncodeRecord(it[s \ {Max(s)}], lines[Max(s)])]
<1>3. EncodeDisVar(lines) = (CHOOSE it : Folds(it))[1 .. n].out
  BY <1>0, <1>2, Zenon
<1>4. \A s \in SUBSET (1 .. n) : s # {} => Max(s) \in 1 .. n
  BY MaxIsLargest
<1>5. \E it : Folds(it)
  <2> HIDE DEF F
  <2>1. PICK it \in [SUBSET (1 .. n) -> Encoder] : IsFold(it, n, NothingEncoded, F)
    BY <1>1, NothingEncodedIsEncoder, FoldExists
  <2>2. ASSUME NEW s \in SUBSET (1 .. n), s # {}
        PROVE  it[s] = EncodeRecord(it[s \ {Max(s)}], lines[Max(s)])
    <3>1. it[s] = F[Max(s)][it[s \ {Max(s)}]] /\ Max(s) \in 1 .. n
      BY <1>4, <2>1, <2>2 DEF IsFold
    <3>2. s \ {Max(s)} \in SUBSET (1 .. n)
      OBVIOUS
    <3> QED BY <1>0, <3>1, <3>2 DEF F
  <2>3. it[{}] = NothingEncoded
    BY <2>1 DEF IsFold
  <2>4. Folds(it)
    BY <2>2, <2>3
  <2> QED BY <2>4
<1>6. PICK it : Folds(it) /\ EncodeDisVar(lines) = it[1 .. n].out
  <2> HIDE DEF Folds
  <2> QED BY <1>3, <1>5
<1>7. \A s \in SUBSET (1 .. n) :
        s # {} /\ it[s \ {Max(s)}] \in Encoder => it[s] = F[Max(s)][it[s \ {Max(s)}]]
  BY <1>0, <1>4, <1>6
<1>8. it[{}] = NothingEncoded
  BY <1>6
<1>9. FoldsWithin(Encoder, n, NothingEncoded, F, it)
  <2> HIDE DEF F, Folds
  <2> QED BY <1>1, <1>7, <1>8, NothingEncodedIsEncoder DEF FoldsWithin
<1>10. PICK f \in [0 .. n -> Encoder] :
         /\ f[0] = NothingEncoded /\ f[n] = it[1 .. n]
         /\ \A k \in 1 .. n : f[k] = F[k][f[k - 1]]
  <2> HIDE DEF F, Folds
  <2> PICK G : G = F
    OBVIOUS
  <2>1. FoldsWithin(Encoder, n, NothingEncoded, G, it)
    BY <1>9
  <2>2. PICK f \in [0 .. n -> Encoder] : /\ f[0] = NothingEncoded /\ f[n] = it[1 .. n]
                                         /\ \A k \in 1 .. n : f[k] = G[k][f[k - 1]]
    BY ONLY <2>1, FoldSteps
  <2> QED BY <2>2
<1>11. \A k \in 1 .. n : f[k] = EncodeRecord(f[k - 1], lines[k])
  <2> SUFFICES ASSUME NEW k \in 1 .. n PROVE f[k] = EncodeRecord(f[k - 1], lines[k])
    OBVIOUS
  <2>1. k - 1 \in 0 .. n
    OBVIOUS
  <2>2. f[k - 1] \in Encoder
    BY <2>1
  <2>3. f[k] = F[k][f[k - 1]]
    <3> HIDE DEF F
    <3> QED BY <1>10
  <2> QED BY <1>0, <2>2, <2>3
<1>12. IsEncoding(lines, f)
  BY <1>0, <1>10, <1>11 DEF IsEncoding
<1> QED BY <1>0, <1>6, <1>10, <1>12

(* The encodings of the first lines are those of all on the way. *)
LEMMA EncodePrefix ==
  ASSUME NEW lines \in Seq(Lines), NEW f, IsEncoding(lines, f), NEW k \in 0 .. Len(lines)
  PROVE  EncodeDisVar(SubSeq(lines, 1, k)) = f[k].out
<1> DEFINE first == SubSeq(lines, 1, k)
<1>0. PICK n \in Nat : n = Len(lines)
  OBVIOUS
<1>1. first \in Seq(Lines) /\ Len(first) = k /\ \A i \in 1 .. k : first[i] = lines[i]
  <2>1. \A i \in 1 .. k : lines[i] \in Lines
    BY <1>0
  <2>2. /\ first \in Seq(Lines)
        /\ Len(first) = IF 1 <= k THEN k - 1 + 1 ELSE 0
        /\ \A i \in 1 .. k - 1 + 1 : first[i] = lines[1 + i - 1]
    BY <1>0, <2>1, SubSeqProperties
  <2> HIDE DEF first
  <2> QED BY <1>0, <2>2
<1> HIDE DEF first
<1>2. PICK g : IsEncoding(first, g) /\ EncodeDisVar(first) = g[k].out
  BY <1>1, EncodeSteps
<1> DEFINE S == {i \in 0 .. k : g[i] = f[i]}
<1>3. 0 \in S
  BY <1>2 DEF IsEncoding
<1>4. ASSUME NEW i \in 0 .. k - 1, i \in S PROVE i + 1 \in S
  <2>1. PICK j \in 1 .. k : j = i + 1 /\ j - 1 = i /\ j \in 1 .. n
    BY <1>0
  <2>2. g[j] = EncodeRecord(g[j - 1], first[j]) /\ f[j] = EncodeRecord(f[j - 1], lines[j])
    BY <1>0, <1>1, <1>2, <2>1 DEF IsEncoding
  <2>3. g[j] = f[j]
    BY <1>1, <1>4, <2>1, <2>2
  <2> QED BY <2>1, <2>3
<1>5. \A i \in 0 .. k : i \in S
  <2> HIDE DEF S
  <2> QED BY <1>3, <1>4, BoundedInduction
<1>6. g[k] = f[k]
  BY <1>5
<1> QED BY <1>2, <1>6 DEF first

(* Sectors: how far into one the encoder is. *)
LEMMA EncoderInSector ==
  ASSUME NEW lines \in Seq(Lines), NEW f, IsEncoding(lines, f)
  PROVE  \A k \in 0 .. Len(lines) :
           \E j \in Nat : Len(f[k].out) + f[k].space = (j + 1) * SectorBytes
<1>0. PICK n \in Nat : n = Len(lines)
  OBVIOUS
<1>00. PICK SB \in Nat \ {0} : SB = SectorBytes
  BY RecordsAssumption
<1> DEFINE S == {k \in 0 .. n : \E j \in Nat : Len(f[k].out) + f[k].space = (j + 1) * SB}
<1>1. 0 \in S
  <2>1. Len(f[0].out) + f[0].space = SB
    BY <1>00, NothingEncodedIsEncoder DEF IsEncoding
  <2>2. (0 + 1) * SB = SB
    OBVIOUS
  <2> QED BY <2>1, <2>2
<1>2. ASSUME NEW i \in 0 .. n - 1, i \in S PROVE i + 1 \in S
  <2>1. PICK k \in 1 .. n : k = i + 1 /\ k - 1 = i
    OBVIOUS
  <2>2. f[i] \in Encoder /\ lines[k] \in Lines /\ f[k] = EncodeRecord(f[i], lines[k])
    BY <1>0, <2>1 DEF IsEncoding
  <2>3. PICK p \in Nat : Extends(f[i], lines[k], p, f[k])
    BY <2>2, EncodeExtends
  <2>4. PICK j \in Nat : Len(f[i].out) + f[i].space = (j + 1) * SB
    BY <1>2
  <2>5. PICK len \in Nat, a \in Nat, s \in Nat, b \in Nat, t \in Nat :
          /\ len = Len(lines[k]) /\ a = Len(f[i].out) /\ s = f[i].space
          /\ b = Len(f[k].out) /\ t = f[k].space
    <3>1. lines[k] \in Seq(Nat) /\ f[i].out \in Seq(Nat) /\ f[k].out \in Seq(Nat)
          /\ f[i].space \in 1 .. SB /\ f[k].space \in 1 .. SB
      BY <1>00, <2>2, <2>3 DEF Lines, Encoder, Extends
    <3>2. Len(lines[k]) \in Nat /\ Len(f[i].out) \in Nat /\ Len(f[k].out) \in Nat
      BY <3>1, LenProperties
    <3>3. f[i].space \in Nat /\ f[k].space \in Nat
      BY <1>00, <3>1, SMTT(40)
    <3> QED BY <3>2, <3>3
  <2>6. /\ b = p + 1 + len
        /\ \/ p = a /\ t = s - (len + 1)
           \/ p = a + s /\ t = SB - (len + 1)
    BY <1>00, <2>3, <2>5 DEF Extends
  <2>7. a + s = (j + 1) * SB
    BY <2>4, <2>5
  <2>8. b + t = (j + 1) * SB \/ b + t = ((j + 1) + 1) * SB
    <3>1. ((j + 1) + 1) * SB = (j + 1) * SB + SB
      OBVIOUS
    <3>2. PICK y \in Nat : y = (j + 1) * SB
      OBVIOUS
    <3> QED BY <2>6, <2>7, <3>1, <3>2
  <2>9. PICK m \in Nat : b + t = (m + 1) * SB
    <3>1. j + 1 \in Nat
      OBVIOUS
    <3> QED BY <2>8, <3>1
  <2>10. Len(f[k].out) + f[k].space = (m + 1) * SB /\ k \in 0 .. n
    BY <2>1, <2>5, <2>9
  <2>11. k \in S
    BY <2>10
  <2> QED BY <2>1, <2>11
<1>3. \A k \in 0 .. n : k \in S
  <2> HIDE DEF S
  <2> QED BY <1>1, <1>2, BoundedInduction
<1> QED BY <1>0, <1>00, <1>3

(* Decoding: what is found at a position, if h is what is found behind it. *)
Found(file, h, pos) ==
  IF pos >= Len(file) THEN <<>>
  ELSE IF file[pos + 1] = EndMark THEN h[(pos \div SectorBytes + 1) * SectorBytes]
  ELSE <<SubSeq(file, pos + 2, pos + 1 + file[pos + 1])>> \o h[pos + file[pos + 1] + 1]

IsDecoding(file, h) == h = [pos \in Nat |-> Found(file, h, pos)]

LEMMA FoundBehind ==
  ASSUME NEW file \in Seq(Nat), NEW pos \in Nat, NEW g, NEW h,
         \A q \in Nat : q > pos => g[q] = h[q]
  PROVE  Found(file, g, pos) = Found(file, h, pos)
<1>1. CASE pos >= Len(file)
  BY <1>1 DEF Found
<1>2. CASE ~(pos >= Len(file))
  <2>1. file[pos + 1] \in Nat
    <3>1. pos + 1 \in 1 .. Len(file)
      BY <1>2
    <3> QED BY <3>1
  <2>2. pos + file[pos + 1] + 1 \in Nat /\ pos + file[pos + 1] + 1 > pos
    BY <2>1
  <2>3. (pos \div SectorBytes + 1) * SectorBytes \in Nat
        /\ (pos \div SectorBytes + 1) * SectorBytes > pos
    <3>1. PICK d \in Nat \ {0} : d = SectorBytes
      BY RecordsAssumption
    <3>2. pos \div d \in Nat /\ pos < (pos \div d + 1) * d
      BY DivisionFacts
    <3>3. PICK q \in Nat : q = pos \div d
      BY <3>2
    <3>4. (q + 1) * d \in Nat
      OBVIOUS
    <3>5. PICK x \in Nat : x = (q + 1) * d
      BY <3>4
    <3>6. x > pos
      BY <3>2, <3>3, <3>5
    <3> QED BY <3>1, <3>3, <3>5, <3>6
  <2> PICK a \in Nat, b \in Nat : /\ a = pos + file[pos + 1] + 1 /\ a > pos
                                  /\ b = (pos \div SectorBytes + 1) * SectorBytes /\ b > pos
    BY <2>2, <2>3
  <2>4. g[a] = h[a] /\ g[b] = h[b]
    OBVIOUS
  <2> QED BY <1>2, <2>4, Zenon DEF Found
<1> QED BY <1>1, <1>2

LEMMA DecodingExists == ASSUME NEW file \in Seq(Nat) PROVE \E h : IsDecoding(file, h)
<1>0. PICK len \in Nat : len = Len(file)
  BY LenProperties
<1> DEFINE T == [pos \in Nat |-> <<>>]
           Good(k, h) == /\ h = [pos \in Nat |-> h[pos]]
                         /\ \A pos \in Nat : pos >= len - k => h[pos] = Found(file, h, pos)
           S == {k \in 0 .. len : \E h : Good(k, h)}
<1>1. 0 \in S
  <2>1. \A pos \in Nat : pos >= len => Found(file, T, pos) = <<>>
    BY <1>0 DEF Found
  <2>2. Good(0, T)
    BY <2>1
  <2> QED BY <2>2
<1>2. ASSUME NEW k \in 0 .. len - 1, k \in S PROVE k + 1 \in S
  <2>1. PICK h : Good(k, h)
    BY <1>2
  <2>2. PICK at \in Nat : at = len - (k + 1) /\ at < len - k /\ \A pos \in Nat : pos > at => pos >= len - k
    OBVIOUS
  <2> DEFINE g == [pos \in Nat |-> IF pos = at THEN Found(file, h, at) ELSE h[pos]]
  <2>3. \A pos \in Nat : pos # at => g[pos] = h[pos]
    OBVIOUS
  <2>4. g[at] = Found(file, h, at)
    OBVIOUS
  <2>5. g = [pos \in Nat |-> g[pos]]
    OBVIOUS
  <2> HIDE DEF g
  <2>6. ASSUME NEW pos \in Nat, pos >= at PROVE Found(file, g, pos) = Found(file, h, pos)
    <3>1. \A q \in Nat : q > pos => g[q] = h[q]
      BY <2>2, <2>3, <2>6
    <3> QED BY <3>1, FoundBehind
  <2>7. ASSUME NEW pos \in Nat, pos >= len - (k + 1) PROVE g[pos] = Found(file, g, pos)
    <3>1. CASE pos = at
      BY <2>4, <2>6, <3>1
    <3>2. CASE pos # at
      <4>1. pos > at /\ pos >= len - k
        BY <2>2, <2>7, <3>2
      <4>2. h[pos] = Found(file, h, pos)
        BY <2>1, <4>1
      <4> QED BY <2>3, <2>6, <3>2, <4>1, <4>2
    <3> QED BY <3>1, <3>2
  <2>8. Good(k + 1, g)
    BY <2>5, <2>7
  <2>9. k + 1 \in 0 .. len
    OBVIOUS
  <2> HIDE DEF Good
  <2> QED BY <2>8, <2>9
<1>3. \A k \in 0 .. len : k \in S
  <2> HIDE DEF S
  <2> QED BY <1>1, <1>2, BoundedInduction
<1>4. PICK h : Good(len, h)
  <2>1. len \in 0 .. len
    OBVIOUS
  <2> HIDE DEF Good
  <2> QED BY <1>3, <2>1
<1>5. \A pos \in Nat : h[pos] = Found(file, h, pos)
  <2> SUFFICES ASSUME NEW pos \in Nat PROVE h[pos] = Found(file, h, pos)
    OBVIOUS
  <2>1. pos >= len - len
    OBVIOUS
  <2> QED BY <1>4, <2>1
<1>6. h = [pos \in Nat |-> Found(file, h, pos)]
  <2>1. h = [pos \in Nat |-> h[pos]]
    BY <1>4
  <2> HIDE DEF Good
  <2> PICK r : r = h
    OBVIOUS
  <2>2. h = [pos \in Nat |-> r[pos]] /\ \A pos \in Nat : r[pos] = Found(file, h, pos)
    BY <1>5, <2>1
  <2> QED BY <2>2
<1> QED BY <1>6 DEF IsDecoding

LEMMA DecodeFacts ==
  ASSUME NEW file \in Seq(Nat)
  PROVE  \E h : (\A pos \in Nat : h[pos] = Found(file, h, pos)) /\ DecodeDisVar(file) = h[0]
<1>1. DecodeDisVar(file) = (CHOOSE h : IsDecoding(file, h))[0]
  BY Zenon DEF DecodeDisVar, IsDecoding, Found
<1>2. PICK h : IsDecoding(file, h) /\ h = CHOOSE g : IsDecoding(file, g)
  BY DecodingExists
<1>3. \A pos \in Nat : h[pos] = Found(file, h, pos)
  BY <1>2 DEF IsDecoding
<1> QED BY <1>1, <1>2, <1>3

LEMMA EncodeStep ==
  ASSUME NEW lines \in Seq(Lines), NEW f, IsEncoding(lines, f), NEW k \in 1 .. Len(lines)
  PROVE  /\ f[k - 1] \in Encoder /\ f[k] \in Encoder /\ lines[k] \in Lines /\ k - 1 \in 0 .. Len(lines)
         /\ \E p \in Nat : Extends(f[k - 1], lines[k], p, f[k])
<1>0. PICK n \in Nat : n = Len(lines)
  OBVIOUS
<1>1. k \in 0 .. n /\ k - 1 \in 0 .. n
  BY <1>0
<1>2. f[k - 1] \in Encoder /\ f[k] \in Encoder /\ f[k] = EncodeRecord(f[k - 1], lines[k])
  BY <1>0, <1>1 DEF IsEncoding
<1>3. lines[k] \in Lines
  BY <1>0
<1> QED BY <1>0, <1>1, <1>2, <1>3, EncodeExtends

(* What the file has of the first lines is what their encoding has. *)
Begins(s, t) == Len(s) <= Len(t) /\ \A i \in 1 .. Len(s) : t[i] = s[i]

LEMMA EncodingBegins ==
  ASSUME NEW lines \in Seq(Lines), NEW f, IsEncoding(lines, f)
  PROVE  \A k \in 0 .. Len(lines) : Begins(f[k].out, f[Len(lines)].out)
<1>0. PICK n \in Nat : n = Len(lines)
  OBVIOUS
<1> DEFINE S == {d \in 0 .. n : Begins(f[n - d].out, f[n].out)}
<1>9. \A k \in 0 .. n : Len(f[k].out) \in Nat
  <2> SUFFICES ASSUME NEW k \in 0 .. n PROVE Len(f[k].out) \in Nat
    OBVIOUS
  <2>1. f[k].out \in Seq(Nat)
    BY <1>0 DEF IsEncoding, Encoder
  <2> QED BY <2>1, LenProperties
<1>1. 0 \in S
  <2>1. n - 0 = n /\ n \in 0 .. n
    OBVIOUS
  <2> QED BY <1>9, <2>1 DEF Begins
<1>2. ASSUME NEW d \in 0 .. n - 1, d \in S PROVE d + 1 \in S
  <2>1. PICK k \in 1 .. n, i \in 0 .. n : k = n - d /\ i = k - 1 /\ i = n - (d + 1)
    <3>1. n - d \in 1 .. n /\ n - (d + 1) \in 0 .. n /\ n - (d + 1) = (n - d) - 1
      OBVIOUS
    <3> QED BY <3>1
  <2>2. PICK p \in Nat : Extends(f[i], lines[k], p, f[k]) /\ lines[k] \in Lines /\ f[i] \in Encoder
    BY <1>0, <2>1, EncodeStep
  <2>3. PICK a \in Nat, b \in Nat, c \in Nat, len \in Nat :
          a = Len(f[i].out) /\ b = Len(f[k].out) /\ c = Len(f[n].out) /\ len = Len(lines[k])
    <3>1. Len(lines[k]) \in Nat
      BY <2>2, LenProperties DEF Lines
    <3>2. n \in 0 .. n /\ k \in 0 .. n
      OBVIOUS
    <3> QED BY <1>9, <3>1, <3>2
  <2>4. b = p + 1 + len /\ a <= p
    <3>1. f[i].space \in 1 .. SectorBytes /\ SectorBytes \in Nat
      BY <2>2, RecordsAssumption DEF Encoder
    <3>2. PICK space \in Nat : space = f[i].space
      BY <3>1
    <3>3. Len(f[k].out) = p + 1 + Len(lines[k]) /\ (p = Len(f[i].out) \/ p = Len(f[i].out) + f[i].space)
      BY <2>2 DEF Extends
    <3>4. b = p + 1 + len /\ (p = a \/ p = a + space)
      BY <2>3, <3>2, <3>3
    <3> QED BY ONLY <3>4, a \in Nat, space \in Nat
  <2>5. b <= c /\ \A x \in 1 .. b : f[n].out[x] = f[k].out[x]
    BY <1>2, <2>1, <2>3 DEF Begins
  <2>6. \A x \in 1 .. a : f[k].out[x] = f[i].out[x]
    BY <2>2, <2>3 DEF Extends
  <2>7. a <= c /\ \A x \in 1 .. a : f[n].out[x] = f[i].out[x]
    <3>1. a <= b
      BY <2>4
    <3>2. \A x \in 1 .. a : x \in 1 .. b
      BY <3>1
    <3> QED BY <2>5, <2>6, <3>1, <3>2
  <2>8. Begins(f[i].out, f[n].out)
    BY <2>3, <2>7 DEF Begins
  <2>9. d + 1 \in 0 .. n
    OBVIOUS
  <2> QED BY <2>1, <2>8, <2>9
<1>3. \A d \in 0 .. n : d \in S
  <2> HIDE DEF S
  <2> QED BY <1>1, <1>2, BoundedInduction
<1>4. ASSUME NEW k \in 0 .. n PROVE Begins(f[k].out, f[n].out)
  <2>1. PICK d \in 0 .. n : d = n - k /\ n - d = k
    <3>1. n - k \in 0 .. n /\ n - (n - k) = k
      OBVIOUS
    <3> QED BY <3>1
  <2> QED BY <1>3, <2>1
<1> QED BY <1>0, <1>4

(* A record is found where its encoder put it, or at the end mark that      *)
(* stands where it did not fit.                                             *)
LEMMA RecordFound ==
  ASSUME NEW lines \in Seq(Lines), NEW f, IsEncoding(lines, f), NEW k \in 1 .. Len(lines),
         NEW h, \A pos \in Nat : h[pos] = Found(f[Len(lines)].out, h, pos)
  PROVE  h[Len(f[k - 1].out)] = <<lines[k]>> \o h[Len(f[k].out)]
<1>0. PICK n \in Nat : n = Len(lines)
  OBVIOUS
<1>1. PICK i \in 0 .. n : i = k - 1 /\ f[i] \in Encoder /\ f[k] \in Encoder /\ lines[k] \in Lines
                          /\ k \in 0 .. n
  BY <1>0, EncodeStep
<1>2. PICK p \in Nat : Extends(f[i], lines[k], p, f[k])
  BY <1>0, <1>1, EncodeStep
<1>3. PICK file \in Seq(Nat) : file = f[n].out /\ f[n] \in Encoder
  <2>1. n \in 0 .. n
    OBVIOUS
  <2>2. f[n] \in Encoder
    BY <1>0, <2>1 DEF IsEncoding
  <2> QED BY <2>2 DEF Encoder
<1>4. Begins(f[k].out, file)
  BY <1>0, <1>1, <1>3, EncodingBegins
<1>5. PICK line \in Seq(Nat), len \in Nat : line = lines[k] /\ len = Len(line) /\ len # EndMark
  <2>1. lines[k] \in Seq(Nat) /\ Len(lines[k]) \in Nat /\ Len(lines[k]) <= MaxRecord
    BY <1>1, LenProperties DEF Lines
  <2>2. Len(lines[k]) # EndMark
    <3>1. PICK m \in Nat : m = Len(lines[k]) /\ m <= MaxRecord
      BY <2>1
    <3>2. m < 255
      BY <3>1, RecordsAssumption
    <3>3. m # 255
      BY <3>2
    <3>4. m # EndMark
      BY <3>3 DEF EndMark
    <3> QED BY <3>1, <3>4
  <2> QED BY <2>1, <2>2
<1>6. PICK a \in Nat, b \in Nat, s \in Nat, c \in Nat, SB \in Nat \ {0} :
        /\ a = Len(f[i].out) /\ b = Len(f[k].out) /\ s = f[i].space /\ SB = SectorBytes
        /\ 1 <= s /\ s <= SB /\ c = Len(file)
  <2>1. f[i].out \in Seq(Nat) /\ f[k].out \in Seq(Nat) /\ f[i].space \in 1 .. SectorBytes
    BY <1>1 DEF Encoder
  <2>2. Len(f[i].out) \in Nat /\ Len(f[k].out) \in Nat /\ Len(file) \in Nat
    BY <2>1, LenProperties
  <2>3. SectorBytes \in Nat \ {0}
    BY RecordsAssumption
  <2>4. f[i].space \in Nat /\ 1 <= f[i].space /\ f[i].space <= SectorBytes
    BY <2>1, <2>3
  <2> QED BY <2>2, <2>3, <2>4
<1>7. /\ b = p + 1 + len /\ b <= c /\ \A x \in 1 .. b : file[x] = f[k].out[x]
      /\ f[k].out[p + 1] = len /\ \A x \in 1 .. len : f[k].out[p + 1 + x] = line[x]
      /\ \/ p = a
         \/ p = a + s /\ f[k].out[a + 1] = EndMark
  BY <1>2, <1>4, <1>5, <1>6 DEF Extends, Begins
<1>8. /\ file[p + 1] = len /\ ~(p >= c)
      /\ \A x \in 1 .. len : file[p + 1 + x] = line[x]
  <2>1. p + 1 \in 1 .. b /\ ~(p >= c) /\ \A x \in 1 .. len : p + 1 + x \in 1 .. b
    BY <1>7
  <2> QED BY <1>7, <2>1
<1>9. h[p] = <<line>> \o h[b]
  <2> DEFINE sub == SubSeq(file, p + 2, p + 1 + len)
  <2>1. Found(file, h, p) = <<sub>> \o h[p + len + 1]
    BY <1>5, <1>6, <1>8, Zenon DEF Found
  <2>2. sub = line
    <3>1. p + 2 \in Int /\ p + 1 + len \in Int /\ \A x \in p + 2 .. p + 1 + len : file[x] \in Nat
      <4>1. \A x \in p + 2 .. p + 1 + len : x \in 1 .. Len(file)
        BY <1>6, <1>7
      <4> QED BY <4>1
    <3>2. /\ sub \in Seq(Nat)
          /\ Len(sub) = IF p + 2 <= p + 1 + len THEN (p + 1 + len) - (p + 2) + 1 ELSE 0
          /\ \A x \in 1 .. (p + 1 + len) - (p + 2) + 1 : sub[x] = file[(p + 2) + x - 1]
      BY <3>1, SubSeqProperties
    <3> HIDE DEF sub
    <3>3. Len(sub) = len /\ (p + 1 + len) - (p + 2) + 1 = len
      BY <3>2
    <3>4. \A x \in 1 .. len : sub[x] = line[x]
      <4> SUFFICES ASSUME NEW x \in 1 .. len PROVE sub[x] = line[x]
        OBVIOUS
      <4>1. (p + 2) + x - 1 = p + 1 + x
        OBVIOUS
      <4>2. sub[x] = file[(p + 2) + x - 1]
        BY <3>2, <3>3
      <4> QED BY <1>8, <4>1, <4>2
    <3> QED BY <1>5, <3>2, <3>3, <3>4, SeqEqual
  <2>3. p + len + 1 = b
    BY <1>7
  <2>4. h[p] = Found(file, h, p)
    BY <1>0, <1>3
  <2> HIDE DEF sub
  <2> QED BY <2>1, <2>2, <2>3, <2>4
<1>10. h[a] = h[p]
  <2>1. CASE p = a
    BY <2>1
  <2>2. CASE p = a + s /\ f[k].out[a + 1] = EndMark
    <3>0. p = a + s /\ b = p + 1 + len /\ b <= c
      BY <1>7, <2>2
    <3>10. a <= p /\ a + 1 <= b /\ ~(a >= c)
      BY ONLY a \in Nat, b \in Nat, c \in Nat, s \in Nat, p \in Nat, len \in Nat, <3>0
    <3>1. a + 1 \in 1 .. b /\ ~(a >= c)
      BY ONLY a \in Nat, b \in Nat, <3>10
    <3>2. file[a + 1] = EndMark
      BY <1>7, <2>2, <3>1
    <3>3. PICK j \in Nat : a + s = (j + 1) * SB
      <4>0. IsEncoding(lines, f)
        OBVIOUS
      <4>2. \A x \in 0 .. Len(lines) :
              \E j \in Nat : Len(f[x].out) + f[x].space = (j + 1) * SectorBytes
        BY ONLY lines \in Seq(Lines), <4>0, EncoderInSector, Zenon
      <4>3. i \in 0 .. Len(lines)
        BY ONLY i \in 0 .. n, <1>0
      <4>1. \E j \in Nat : Len(f[i].out) + f[i].space = (j + 1) * SectorBytes
        BY ONLY <4>2, <4>3, Zenon
      <4> QED BY <1>6, <4>1
    <3>4. j * SB <= a /\ a < (j + 1) * SB
      <4>1. (j + 1) * SB = j * SB + SB
        OBVIOUS
      <4>2. PICK y \in Nat : y = j * SB
        OBVIOUS
      <4>3. a + s = y + SB /\ (j + 1) * SB = y + SB /\ 1 <= s /\ s <= SB
        BY <1>6, <3>3, <4>1, <4>2
      <4>4. y <= a /\ a < y + SB
        BY <4>3
      <4> QED BY <4>2, <4>3, <4>4
    <3>5. a \div SB = j
      BY <3>4, InSector
    <3>6. Found(file, h, a) = h[(a \div SectorBytes + 1) * SectorBytes]
      BY <1>6, <3>1, <3>2, Zenon DEF Found
    <3>7. (a \div SectorBytes + 1) * SectorBytes = p
      BY <1>6, <2>2, <3>3, <3>5
    <3>8. h[a] = Found(file, h, a)
      BY <1>0, <1>3
    <3> QED BY <3>6, <3>7, <3>8
  <2> QED BY <1>7, <2>1, <2>2
<1> QED BY <1>1, <1>5, <1>6, <1>9, <1>10

(* A record starts and ends in the same sector. *)
LEMMA RecordInSector ==
  ASSUME NEW lines \in Seq(Lines), NEW f, IsEncoding(lines, f), NEW k \in 1 .. Len(lines)
  PROVE  LET start == Len(f[k].out) - Len(lines[k]) - 1
         IN  start \div SectorBytes = (start + Len(lines[k]) + 1) \div SectorBytes
<1>0. PICK n \in Nat : n = Len(lines)
  OBVIOUS
<1>1. PICK i \in 0 .. n : i = k - 1 /\ f[i] \in Encoder /\ f[k] \in Encoder /\ lines[k] \in Lines
                          /\ k \in 0 .. n
  BY <1>0, EncodeStep
<1>2. PICK p \in Nat : Extends(f[i], lines[k], p, f[k])
  BY <1>0, <1>1, EncodeStep
<1>3. PICK len \in Nat, b \in Nat, s \in Nat, t \in Nat, SB \in Nat \ {0} :
        /\ len = Len(lines[k]) /\ b = Len(f[k].out) /\ s = f[i].space /\ t = f[k].space
        /\ SB = SectorBytes /\ s <= SB /\ 1 <= t
  <2>1. f[k].out \in Seq(Nat) /\ f[i].space \in 1 .. SectorBytes /\ f[k].space \in 1 .. SectorBytes
        /\ lines[k] \in Seq(Nat)
    BY <1>1 DEF Encoder, Lines
  <2>2. Len(f[k].out) \in Nat /\ Len(lines[k]) \in Nat
    BY <2>1, LenProperties
  <2>3. SectorBytes \in Nat \ {0}
    BY RecordsAssumption
  <2>4. f[i].space \in Nat /\ f[i].space <= SectorBytes /\ f[k].space \in Nat /\ 1 <= f[k].space
    BY <2>1, <2>3
  <2> QED BY <2>2, <2>3, <2>4
<1>4. b = p + 1 + len /\ t <= SB - (len + 1)
  BY <1>2, <1>3, SMTT(40) DEF Extends
<1>5. PICK j \in Nat : b + t = (j + 1) * SB
  <2>2. IsEncoding(lines, f)
    OBVIOUS
  <2>3. \A x \in 0 .. Len(lines) :
          \E j \in Nat : Len(f[x].out) + f[x].space = (j + 1) * SectorBytes
    BY ONLY lines \in Seq(Lines), <2>2, EncoderInSector, Zenon
  <2>4. k \in 0 .. Len(lines)
    BY <1>0, <1>1, Zenon
  <2>1. \E j \in Nat : Len(f[k].out) + f[k].space = (j + 1) * SectorBytes
    BY ONLY <2>3, <2>4, Zenon
  <2> QED BY <1>3, <2>1
<1>6. j * SB <= p /\ p < (j + 1) * SB /\ j * SB <= b /\ b < (j + 1) * SB
  <2>1. (j + 1) * SB = j * SB + SB
    OBVIOUS
  <2>2. PICK y \in Nat : y = j * SB
    OBVIOUS
  <2>3. b + t = y + SB /\ (j + 1) * SB = y + SB /\ b = p + 1 + len /\ t <= SB - (len + 1) /\ 1 <= t
    BY <1>3, <1>4, <1>5, <2>1, <2>2
  <2>4. y <= p /\ p < y + SB /\ y <= b /\ b < y + SB
    BY <2>3
  <2> QED BY <2>2, <2>3, <2>4
<1>7. p \div SB = j /\ b \div SB = j
  BY <1>6, InSector
<1>8. b - len - 1 = p /\ p + len + 1 = b
  BY <1>4
<1> QED BY <1>3, <1>7, <1>8

(* Every text of lines of any bytes that are not longer than MaxRecord. *)
LEMMA TextSurvives == ASSUME text \in Seq(Lines) PROVE RecordsSurvive
<1>0. PICK n \in Nat : n = Len(text) /\ DOMAIN text = 1 .. n
  OBVIOUS
<1>1. PICK f : IsEncoding(text, f) /\ EncodeDisVar(text) = f[n].out
  BY <1>0, EncodeSteps
<1>2. PICK file \in Seq(Nat) : file = f[n].out
  <2>1. n \in 0 .. n
    OBVIOUS
  <2>2. f[n] \in Encoder
    BY <1>0, <1>1, <2>1 DEF IsEncoding
  <2> QED BY <2>2 DEF Encoder
<1>3. PICK h : (\A pos \in Nat : h[pos] = Found(file, h, pos)) /\ DecodeDisVar(file) = h[0]
  BY DecodeFacts
<1> DEFINE S == {d \in 0 .. n : h[Len(f[n - d].out)] = SubSeq(text, n - d + 1, n)}
<1>4. 0 \in S
  <2>1. n - 0 = n /\ n + 1 > n /\ Len(file) \in Nat
    BY LenProperties
  <2>2. SubSeq(text, n + 1, n) = <<>>
    BY <2>1, SubSeqEmpty
  <2>3. Found(file, h, Len(file)) = <<>>
    BY <2>1 DEF Found
  <2>4. h[Len(file)] = <<>>
    BY <1>3, <2>1, <2>3
  <2>5. n - 0 = n /\ n - 0 + 1 = n + 1 /\ 0 \in 0 .. n
    OBVIOUS
  <2>6. h[Len(f[n - 0].out)] = SubSeq(text, n - 0 + 1, n)
    BY <1>2, <2>2, <2>4, <2>5
  <2> QED BY <2>5, <2>6
<1>5. ASSUME NEW d \in 0 .. n - 1, d \in S PROVE d + 1 \in S
  <2>1. PICK k \in 1 .. n : k = n - d /\ k - 1 = n - (d + 1)
    <3>1. n - d \in 1 .. n /\ (n - d) - 1 = n - (d + 1)
      OBVIOUS
    <3> QED BY <3>1
  <2>2. h[Len(f[k - 1].out)] = <<text[k]>> \o h[Len(f[k].out)]
    BY <1>0, <1>1, <1>2, <1>3, RecordFound
  <2>3. h[Len(f[k].out)] = SubSeq(text, k + 1, n)
    BY <1>5, <2>1
  <2>4. SubSeq(text, k, n) = <<text[k]>> \o SubSeq(text, k + 1, n)
    <3>1. k \in 1 .. Len(text) /\ n \in k .. Len(text)
      BY <1>0
    <3> QED BY <3>1, SubSeqRecursiveFirst
  <2>5. n - (d + 1) + 1 = k /\ d + 1 \in 0 .. n
    BY <2>1
  <2>6. h[Len(f[n - (d + 1)].out)] = SubSeq(text, k, n)
    BY <2>1, <2>2, <2>3, <2>4
  <2> QED BY <2>5, <2>6
<1>6. \A d \in 0 .. n : d \in S
  <2> HIDE DEF S
  <2> QED BY <1>4, <1>5, BoundedInduction
<1>7. h[0] = text
  <2>1. n \in 0 .. n /\ n - n = 0 /\ n - n + 1 = 1
    OBVIOUS
  <2>2. h[Len(f[n - n].out)] = SubSeq(text, n - n + 1, n)
    BY <1>6, <2>1
  <2>3. Len(f[0].out) = 0
    BY <1>1, NothingEncodedIsEncoder DEF IsEncoding
  <2>4. SubSeq(text, 1, n) = text
    BY <1>0, SubSeqFull
  <2> QED BY <2>1, <2>2, <2>3, <2>4
<1>8. DecodeDisVar(EncodeDisVar(text)) = text
  BY <1>1, <1>2, <1>3, <1>7
<1>9. ASSUME NEW k \in DOMAIN text
      PROVE  LET start == Len(EncodeDisVar(SubSeq(text, 1, k))) - Len(text[k]) - 1
             IN  start \div SectorBytes = (start + Len(text[k]) + 1) \div SectorBytes
  <2>1. k \in 1 .. Len(text) /\ k \in 0 .. Len(text)
    BY <1>0
  <2>2. EncodeDisVar(SubSeq(text, 1, k)) = f[k].out
    BY <1>1, <2>1, EncodePrefix
  <2> QED BY <1>1, <2>1, <2>2, RecordInSector
<1> QED BY <1>8, <1>9, Zenon DEF RecordsSurvive

RecordsSpec == RecordsInit /\ [][RecordsNext]_text

(* Every text comes back from its DIS/VAR file (encodeDisVar, decodeDisVar), *)
(* and no record crosses a sector: for sectors and texts of any size, of     *)
(* lines up to MaxRecord, for which two more bytes of a sector suffice.      *)
THEOREM TextsSurvive == RecordsSpec => []RecordsSurvive
<1>1. RecordsInit => text \in Seq(Lines)
  BY DEF RecordsInit
<1>2. text \in Seq(Lines) /\ [RecordsNext]_text => (text \in Seq(Lines))'
  <2> SUFFICES ASSUME text \in Seq(Lines), [RecordsNext]_text PROVE text' \in Seq(Lines)
    OBVIOUS
  <2>1. CASE \E n \in Lengths : AddLine(n)
    <3>1. PICK n \in Lengths : AddLine(n)
      BY <2>1
    <3>2. n \in Nat /\ n <= MaxRecord
      BY <2>1, <3>1, RecordsAssumption DEF AddLine
    <3>3. PICK c \in Nat : c = 97 + Len(text)
      <4>1. Len(text) \in Nat
        BY LenProperties
      <4> QED BY <4>1
    <3>4. [i \in 1 .. n |-> c] \in Seq(Nat) /\ Len([i \in 1 .. n |-> c]) = n
      BY <3>2
    <3>5. Line(n) \in Lines
      BY <3>2, <3>3, <3>4 DEF Line, Lines
    <3>6. text' = Append(text, Line(n))
      BY <3>1 DEF AddLine
    <3> QED BY <3>5, <3>6, AppendProperties
  <2>2. CASE NewText
    BY <2>2 DEF NewText
  <2> QED BY <2>1, <2>2 DEF RecordsNext
<1>3. text \in Seq(Lines) => RecordsSurvive
  BY TextSurvives
<1> QED BY <1>1, <1>2, <1>3, PTL DEF RecordsSpec
-----------------------------------------------------------------------------
(* Tokenised programs: the words of a line                                  *)

Words == Keywords \cup Texts

Tokeniser == [out : Seq(Nat), expect : {"any", "to", "line", "name"}]

Begun == [out |-> <<>>, expect |-> "any"]

LEMMA BegunIsTokeniser == Begun \in Tokeniser /\ Len(Begun.out) = 0
<1> DEFINE S == Seq(Nat)
<1>1. <<>> \in S /\ Len(<<>>) = 0
  OBVIOUS
<1> HIDE DEF S
<1>2. Begun \in [out : S, expect : {"any", "to", "line", "name"}]
  BY <1>1 DEF Begun
<1> QED BY <1>1, <1>2 DEF Tokeniser, Begun, S

(* The value of any characters is a number, if not a useful one. *)
LEMMA NumberTyped == ASSUME NEW v \in Seq(Nat) PROVE NumberOf(v) \in Int
<1> DEFINE F == [k \in 1 .. Len(v) |-> [x \in Int |-> x * 10 + (v[k] - 48)]]
<1>0. PICK n \in Nat : n = Len(v) /\ DOMAIN v = 1 .. n
  OBVIOUS
<1>1. F \in [1 .. n -> [Int -> Int]]
  <2>1. ASSUME NEW k \in 1 .. n, NEW x \in Int PROVE x * 10 + (v[k] - 48) \in Int
    <3>1. v[k] \in Nat
      BY <1>0
    <3> QED BY <3>1
  <2> QED BY <1>0, <2>1
<1> DEFINE Folds(it) == it = [s \in SUBSET (1 .. n) |->
                                IF s = {} THEN 0 ELSE it[s \ {Max(s)}] * 10 + (v[Max(s)] - 48)]
<1>2. NumberOf(v) = (CHOOSE it : Folds(it))[1 .. n]
  <2>1. NumberOf(v) = (CHOOSE it : it = [s \in SUBSET DOMAIN v |->
           IF s = {} THEN 0 ELSE it[s \ {Max(s)}] * 10 + (v[Max(s)] - 48)])[DOMAIN v]
    BY Zenon DEF NumberOf, FoldLeft, MapThenFoldSet
  <2> QED BY <1>0, <2>1, Zenon
<1>4. \A s \in SUBSET (1 .. n) : s # {} => Max(s) \in 1 .. n
  BY MaxIsLargest
<1>5. \E it : Folds(it)
  <2> HIDE DEF F
  <2>1. PICK it \in [SUBSET (1 .. n) -> Int] : IsFold(it, n, 0, F)
    <3>1. 0 \in Int
      OBVIOUS
    <3> QED BY <1>1, <3>1, FoldExists
  <2>2. ASSUME NEW s \in SUBSET (1 .. n), s # {}
        PROVE  it[s] = it[s \ {Max(s)}] * 10 + (v[Max(s)] - 48)
    <3>1. it[s] = F[Max(s)][it[s \ {Max(s)}]] /\ Max(s) \in 1 .. n
      BY <1>4, <2>1, <2>2 DEF IsFold
    <3>2. s \ {Max(s)} \in SUBSET (1 .. n)
      OBVIOUS
    <3>3. it[s \ {Max(s)}] \in Int
      BY <3>2
    <3> QED BY <1>0, <3>1, <3>3 DEF F
  <2>3. it[{}] = 0
    BY <2>1 DEF IsFold
  <2>4. Folds(it)
    BY <2>2, <2>3
  <2> QED BY <2>4
<1>6. PICK it : Folds(it) /\ NumberOf(v) = it[1 .. n]
  <2> HIDE DEF Folds
  <2> QED BY <1>2, <1>5
<1>7. \A s \in SUBSET (1 .. n) :
        s # {} /\ it[s \ {Max(s)}] \in Int => it[s] = F[Max(s)][it[s \ {Max(s)}]]
  BY <1>0, <1>4, <1>6
<1>8. it[{}] = 0
  BY <1>6
<1>9. FoldsWithin(Int, n, 0, F, it)
  <2>1. 0 \in Int
    OBVIOUS
  <2> HIDE DEF F, Folds
  <2> QED BY <1>1, <1>7, <1>8, <2>1 DEF FoldsWithin
<1>10. PICK f : Partial(f, Int, n, 0, F, it)
  <2> HIDE DEF F, Folds
  <2> QED BY <1>9, PartialExists
<1>11. n \in 0 .. n
  OBVIOUS
<1> HIDE DEF F, Folds
<1>12. f[n] \in Int /\ f[n] = it[1 .. n]
  BY <1>10, <1>11 DEF Partial
<1> QED BY <1>6, <1>12

LEMMA LineNumberTyped ==
  ASSUME NEW m \in Int
  PROVE  AsLineNumber(m) \in Seq(Nat) /\ Len(AsLineNumber(m)) = 3
         /\ AsLineNumber(m)[1] = LineNumber
         /\ AsLineNumber(m)[2] = (m \div 256) % 256 /\ AsLineNumber(m)[3] = m % 256
<1>1. PICK a \in Nat, b \in Nat : a = (m \div 256) % 256 /\ b = m % 256
  OBVIOUS
<1>0. PICK c \in Nat : c = LineNumber
  BY DEF LineNumber
<1>2. AsLineNumber(m) = <<c, a, b>>
  BY <1>0, <1>1, BasicAssumption DEF AsLineNumber
<1>3. <<c, a, b>> \in Seq(Nat)
  OBVIOUS
<1>4. Len(<<c, a, b>>) = 3
  OBVIOUS
<1> QED BY <1>0, <1>1, <1>2, <1>3, <1>4

LEMMA StringTyped ==
  ASSUME NEW type \in Nat, NEW value \in Seq(Nat)
  PROVE  /\ AsString(type, value) \in Seq(Nat) /\ Len(AsString(type, value)) = Len(value) + 2
         /\ AsString(type, value)[1] = type /\ AsString(type, value)[2] = Len(value)
         /\ \A j \in 1 .. Len(value) : AsString(type, value)[j + 2] = value[j]
<1>0. PICK l \in Nat : l = Len(value)
  OBVIOUS
<1>10. <<type, l>> \in Seq(Nat)
  OBVIOUS
<1>1. PICK s \in Seq(Nat) : s = <<type, l>>
  BY <1>10
<1>2. Len(s) = 2 /\ s[1] = type /\ s[2] = Len(value)
  BY <1>0, <1>1
<1>3. AsString(type, value) = s \o value
  BY <1>0, <1>1 DEF AsString
<1>4. /\ s \o value \in Seq(Nat) /\ Len(s \o value) = Len(s) + Len(value) /\ Len(value) \in Nat
      /\ \A i \in 1 .. Len(s) : (s \o value)[i] = s[i]
      /\ \A i \in 1 .. Len(value) : (s \o value)[Len(s) + i] = value[i]
  BY JoinedFacts
<1>5. PICK r : r = s \o value
  OBVIOUS
<1>6. \A i \in 1 .. Len(value) : 2 + i = i + 2
  OBVIOUS
<1>7. r \in Seq(Nat) /\ Len(r) = Len(value) + 2 /\ r[1] = type /\ r[2] = Len(value)
      /\ \A j \in 1 .. Len(value) : r[j + 2] = value[j]
  BY <1>2, <1>4, <1>5, <1>6
<1> QED BY <1>3, <1>5, <1>7

(* The bytes of a word in its place. *)
Form(expect, word) ==
  IF expect = "any" THEN Emitted(word)
  ELSE IF expect = "to" /\ word = Token(To) THEN <<To>>
  ELSE IF expect \in {"to", "line"} /\ word.kind = "number" THEN AsLineNumber(NumberOf(word.value))
  ELSE IF expect = "name" /\ word.kind = "name" THEN AsString(UnquotedString, word.value)
  ELSE <<>>

(* What is expected behind it. *)
Behind(expect, word) ==
  IF expect = "any" THEN IF word.kind = "token" THEN Expects(word.token) ELSE "any"
  ELSE IF expect = "to" /\ word = Token(To) THEN "line"
  ELSE "any"

LEMMA KeywordFacts ==
  ASSUME NEW w \in Keywords
  PROVE  /\ w.kind = "token" /\ w = Token(w.token)
         /\ w.token \in Nat /\ w.token >= 128
         /\ w.token \notin {QuotedString, UnquotedString, LineNumber}
<1>1. PICK b \in (128 .. ByteValues - 1) \ {QuotedString, UnquotedString, LineNumber} : w = Token(b)
  BY DEF Keywords
<1> QED BY <1>1, BasicAssumption DEF Token

LEMMA TextFacts ==
  ASSUME NEW w \in Texts
  PROVE  /\ w.kind \in {"string", "number", "name"} /\ w.value \in Seq(Nat)
         /\ w = [kind |-> w.kind, value |-> w.value]
         /\ w \notin Keywords
<1>1. w.kind # "token"
  BY DEF Texts
<1>2. w \notin Keywords
  BY <1>1, KeywordFacts
<1> QED BY <1>2 DEF Texts

LEMMA FormTyped ==
  ASSUME NEW e \in {"any", "to", "line", "name"}, NEW w \in Words
  PROVE  Form(e, w) \in Seq(Nat)
<1>1. CASE w \in Keywords
  <2>1. w.kind = "token" /\ w.token \in Nat
    BY <1>1, KeywordFacts
  <2>2. Form(e, w) \in {<<w.token>>, <<To>>, <<>>}
    BY <2>1 DEF Form, Emitted
  <2>3. PICK S : S = Seq(Nat)
    OBVIOUS
  <2>4. <<w.token>> \in S /\ <<To>> \in S /\ <<>> \in S
    BY <2>1, <2>3 DEF To
  <2>5. Form(e, w) \in S
    BY ONLY <2>2, <2>4
  <2> QED BY <2>3, <2>5
<1>2. CASE w \in Texts
  <2>1. w.kind \in {"string", "number", "name"} /\ w.value \in Seq(Nat) /\ w # Token(To)
    BY <1>2, TextFacts DEF Texts, Token
  <2>2. NumberOf(w.value) \in Int
    BY <2>1, NumberTyped
  <2>3. AsLineNumber(NumberOf(w.value)) \in Seq(Nat)
    BY <2>2, LineNumberTyped
  <2>4. QuotedString \in Nat /\ UnquotedString \in Nat
    BY DEF QuotedString, UnquotedString
  <2>5. AsString(QuotedString, w.value) \in Seq(Nat) /\ AsString(UnquotedString, w.value) \in Seq(Nat)
    BY <2>1, <2>4, StringTyped
  <2>6. Emitted(w) \in {AsString(QuotedString, w.value), AsString(UnquotedString, w.value), w.value}
    BY <2>1 DEF Emitted
  <2>7. <<>> \in Seq(Nat)
    OBVIOUS
  <2> QED BY <2>1, <2>3, <2>5, <2>6, <2>7, Zenon DEF Form
<1> QED BY <1>1, <1>2 DEF Words

LEMMA ProcessWordIs ==
  ASSUME NEW d \in Tokeniser, NEW w \in Words
  PROVE  /\ ProcessWord(d, w).out = d.out \o Form(d.expect, w)
         /\ ProcessWord(d, w).expect = Behind(d.expect, w)
         /\ ProcessWord(d, w) \in Tokeniser
<1>0. d.out \in Seq(Nat) /\ d.expect \in {"any", "to", "line", "name"} /\ d = [out |-> d.out, expect |-> d.expect]
  BY DEF Tokeniser
<1>1. Form(d.expect, w) \in Seq(Nat)
  BY <1>0, FormTyped
<1>2. d.out \o <<>> = d.out /\ Append(d.out, To) = d.out \o <<To>>
  BY <1>0 DEF To
<1>3. ProcessWord(d, w) = [out |-> d.out \o Form(d.expect, w), expect |-> Behind(d.expect, w)]
  <2>1. CASE d.expect = "any"
    BY <2>1, Zenon DEF ProcessWord, Form, Behind
  <2>2. CASE d.expect = "to" /\ w = Token(To)
    <3>1. ProcessWord(d, w) = [out |-> Append(d.out, To), expect |-> "line"]
      <4>1. d.expect # "any" /\ w.kind # "number" /\ d.expect # "name"
        BY <2>2 DEF Token
      <4> QED BY <2>2, <4>1 DEF ProcessWord
    <3>2. Form(d.expect, w) = <<To>> /\ Behind(d.expect, w) = "line"
      BY <2>2 DEF Form, Behind
    <3> QED BY <1>2, <3>1, <3>2
  <2>3. CASE d.expect \in {"to", "line"} /\ w.kind = "number" /\ ~(d.expect = "to" /\ w = Token(To))
    BY <2>3 DEF ProcessWord, Form, Behind
  <2>4. CASE d.expect = "name" /\ w.kind = "name"
    BY <2>4 DEF ProcessWord, Form, Behind
  <2>5. CASE /\ d.expect # "any" /\ ~(d.expect = "to" /\ w = Token(To))
             /\ ~(d.expect \in {"to", "line"} /\ w.kind = "number") /\ ~(d.expect = "name" /\ w.kind = "name")
    BY <2>5, <1>0, <1>2 DEF ProcessWord, Form, Behind
  <2> QED BY <2>1, <2>2, <2>3, <2>4, <2>5
<1>4. Behind(d.expect, w) \in {"any", "to", "line", "name"}
  BY DEF Behind, Expects
<1>5. d.out \o Form(d.expect, w) \in Seq(Nat)
  BY <1>0, <1>1, JoinedFacts
<1> QED BY <1>3, <1>4, <1>5 DEF Tokeniser

(* r is t behind s. *)
Joined(r, s, t) ==
  /\ Len(r) = Len(s) + Len(t) /\ Len(s) \in Nat /\ Len(t) \in Nat
  /\ \A i \in 1 .. Len(s) : r[i] = s[i]
  /\ \A i \in 1 .. Len(t) : r[Len(s) + i] = t[i]

LEMMA JoinedAre ==
  ASSUME NEW s \in Seq(Nat), NEW t \in Seq(Nat) PROVE Joined(s \o t, s, t)
  BY JoinedFacts DEF Joined

(* Pieces are put one behind the other; h[k] is the first k of them. *)
Pieces(n, h, t) ==
  /\ \A k \in 0 .. n : h[k] \in Seq(Nat)
  /\ \A k \in 1 .. n : t[k] \in Seq(Nat) /\ h[k] = h[k - 1] \o t[k]

InWhole(n, h, t, k) ==
  /\ Len(h[k]) = Len(h[k - 1]) + Len(t[k]) /\ Len(h[k]) <= Len(h[n])
  /\ Len(h[k]) \in Nat /\ Len(h[k - 1]) \in Nat /\ Len(h[n]) \in Nat /\ Len(t[k]) \in Nat
  /\ \A j \in 1 .. Len(t[k]) : h[n][Len(h[k - 1]) + j] = t[k][j]

(* What the whole has in the place of a piece. *)
LEMMA PiecesInWhole ==
  ASSUME NEW n \in Nat, NEW h, NEW t, Pieces(n, h, t), NEW k \in 1 .. n
  PROVE  InWhole(n, h, t, k)
<1>00. /\ \A i \in 0 .. n : h[i] \in Seq(Nat)
       /\ \A i \in 1 .. n : t[i] \in Seq(Nat) /\ h[i] = h[i - 1] \o t[i]
  BY DEF Pieces
<1> DEFINE Keeps(d) == Len(h[k]) <= Len(h[d]) /\ \A j \in 1 .. Len(h[k]) : h[d][j] = h[k][j]
           S == {g \in 0 .. n - k : Keeps(k + g)}
<1>1. 0 \in S
  <2>1. k + 0 = k /\ Len(h[k]) \in Nat /\ 0 \in 0 .. n - k
    <3>1. k \in 0 .. n
      OBVIOUS
    <3>2. h[k] \in Seq(Nat)
      BY <1>00, <3>1
    <3> QED BY <3>2, LenProperties
  <2> QED BY <2>1
<1>2. ASSUME NEW g \in 0 .. n - k - 1, g \in S PROVE g + 1 \in S
  <2>1. PICK a \in 0 .. n, b \in 1 .. n : a = k + g /\ b = k + (g + 1) /\ a = b - 1
    OBVIOUS
  <2>2. Keeps(a)
    BY <1>2, <2>1
  <2>2a. h[b] = h[b - 1] \o t[b] /\ t[b] \in Seq(Nat)
    BY <1>00
  <2>3. h[a] \in Seq(Nat) /\ t[b] \in Seq(Nat) /\ h[b] = h[a] \o t[b]
    BY <1>00, <2>1, <2>2a
  <2>4. Joined(h[b], h[a], t[b])
    BY ONLY <2>3, JoinedAre
  <2>5. Len(h[k]) \in Nat
    <3>1. k \in 0 .. n
      OBVIOUS
    <3>2. h[k] \in Seq(Nat)
      BY <1>00, <3>1
    <3> QED BY <3>2, LenProperties
  <2>6. Keeps(b)
    <3>1. PICK x \in Nat, y \in Nat, z \in Nat :
            x = Len(h[k]) /\ y = Len(h[a]) /\ z = Len(t[b])
      BY <2>4, <2>5 DEF Joined
    <3>2. Len(h[b]) = y + z /\ x <= y /\ \A j \in 1 .. y : h[b][j] = h[a][j]
      BY <2>2, <2>4, <3>1 DEF Joined
    <3>3. \A j \in 1 .. x : h[a][j] = h[k][j]
      BY <2>2, <3>1
    <3> HIDE DEF Keeps
    <3>4. x <= y + z /\ \A j \in 1 .. x : h[b][j] = h[k][j]
      BY ONLY x \in Nat, y \in Nat, z \in Nat, <3>2, <3>3
    <3> QED BY <3>1, <3>2, <3>4 DEF Keeps
  <2>7. g + 1 \in 0 .. n - k
    OBVIOUS
  <2> HIDE DEF Keeps
  <2> QED BY <2>1, <2>6, <2>7
<1>3. n - k \in 0 .. n - k /\ k + (n - k) = n /\ n - k \in Nat
  OBVIOUS
<1>4. \A g \in 0 .. n - k : g \in S
  <2> HIDE DEF S
  <2> PICK u \in Nat : u = n - k
    BY <1>3
  <2>1. \A g \in 0 .. u - 1 : g \in S => g + 1 \in S
    BY <1>2
  <2>2. \A g \in 0 .. u : g \in S
    BY ONLY u \in Nat, <1>1, <2>1, BoundedInduction
  <2> QED BY <2>2
<1>5. Keeps(n)
  <2> HIDE DEF Keeps
  <2> QED BY <1>3, <1>4
<1>6. k - 1 \in 0 .. n /\ k \in 0 .. n
  OBVIOUS
<1>7. h[k - 1] \in Seq(Nat) /\ t[k] \in Seq(Nat) /\ h[k] = h[k - 1] \o t[k]
  BY <1>00, <1>6
<1>77. Joined(h[k], h[k - 1], t[k])
  BY ONLY <1>7, JoinedAre
<1>8. /\ Len(h[k]) = Len(h[k - 1]) + Len(t[k]) /\ Len(h[k - 1]) \in Nat /\ Len(t[k]) \in Nat
      /\ \A j \in 1 .. Len(t[k]) : h[k][Len(h[k - 1]) + j] = t[k][j]
  BY <1>77 DEF Joined
<1>9. \A j \in 1 .. Len(t[k]) : h[n][Len(h[k - 1]) + j] = t[k][j]
  <2> SUFFICES ASSUME NEW j \in 1 .. Len(t[k]) PROVE h[n][Len(h[k - 1]) + j] = t[k][j]
    OBVIOUS
  <2>1. Len(h[k - 1]) + j \in 1 .. Len(h[k])
    <3>1. PICK x \in Nat, y \in Nat : x = Len(h[k - 1]) /\ y = Len(t[k])
      BY <1>8
    <3>2. \A i \in 1 .. y : x + i \in 1 .. x + y
      OBVIOUS
    <3>3. Len(h[k]) = x + y /\ j \in 1 .. y
      BY <1>8, <3>1
    <3> QED BY ONLY <3>1, <3>2, <3>3
  <2>2. h[n][Len(h[k - 1]) + j] = h[k][Len(h[k - 1]) + j]
    BY <1>5, <2>1
  <2>3. h[k][Len(h[k - 1]) + j] = t[k][j]
    BY <1>8
  <2> QED BY <2>2, <2>3
<1>10. Len(h[n]) \in Nat
  <2>1. n \in 0 .. n
    OBVIOUS
  <2>2. h[n] \in Seq(Nat)
    BY <1>00, <2>1
  <2> QED BY <2>2, LenProperties
<1>11. Len(h[k]) <= Len(h[n]) /\ Len(h[k]) \in Nat
  <2>1. Len(h[k]) <= Len(h[n])
    BY <1>5
  <2>2. Len(h[k]) \in Nat
    BY <1>6, <1>00, LenProperties
  <2> QED BY <2>1, <2>2
<1> HIDE DEF Keeps
<1> QED BY <1>8, <1>9, <1>10, <1>11 DEF InWhole

IsTokenised(words, f) ==
  /\ f \in [0 .. Len(words) -> Tokeniser]
  /\ f[0] = Begun
  /\ \A k \in 1 .. Len(words) : f[k] = ProcessWord(f[k - 1], words[k])

Tokenised(words) == FoldLeft(ProcessWord, [out |-> <<>>, expect |-> "any"], words)

LEMMA TokenSteps ==
  ASSUME NEW words \in Seq(Words)
  PROVE  \E f : IsTokenised(words, f) /\ Tokenised(words) = f[Len(words)]
<1> DEFINE F == [k \in 1 .. Len(words) |-> [d \in Tokeniser |-> ProcessWord(d, words[k])]]
<1>0. PICK n \in Nat : n = Len(words) /\ DOMAIN words = 1 .. n
  OBVIOUS
<1>1. F \in [1 .. n -> [Tokeniser -> Tokeniser]]
  <2>1. ASSUME NEW k \in 1 .. n, NEW d \in Tokeniser PROVE ProcessWord(d, words[k]) \in Tokeniser
    <3>1. words[k] \in Words
      BY <1>0
    <3> QED BY <3>1, ProcessWordIs
  <2> QED BY <1>0, <2>1
<1> DEFINE Folds(it) == it = [s \in SUBSET (1 .. n) |->
                                IF s = {} THEN Begun
                                ELSE ProcessWord(it[s \ {Max(s)}], words[Max(s)])]
<1>3. Tokenised(words) = (CHOOSE it : Folds(it))[1 .. n]
  <2>1. Tokenised(words) =
        (CHOOSE it : it = [s \in SUBSET DOMAIN words |->
           IF s = {} THEN Begun
           ELSE ProcessWord(it[s \ {Max(s)}], words[Max(s)])])[DOMAIN words]
    BY Zenon DEF Tokenised, FoldLeft, MapThenFoldSet, Begun
  <2> QED BY <1>0, <2>1, Zenon
<1>4. \A s \in SUBSET (1 .. n) : s # {} => Max(s) \in 1 .. n
  BY MaxIsLargest
<1>5. \E it : Folds(it)
  <2> HIDE DEF F
  <2>1. PICK it \in [SUBSET (1 .. n) -> Tokeniser] : IsFold(it, n, Begun, F)
    BY <1>1, BegunIsTokeniser, FoldExists
  <2>2. ASSUME NEW s \in SUBSET (1 .. n), s # {}
        PROVE  it[s] = ProcessWord(it[s \ {Max(s)}], words[Max(s)])
    <3>1. it[s] = F[Max(s)][it[s \ {Max(s)}]] /\ Max(s) \in 1 .. n
      BY <1>4, <2>1, <2>2 DEF IsFold
    <3>2. s \ {Max(s)} \in SUBSET (1 .. n)
      OBVIOUS
    <3> QED BY <1>0, <3>1, <3>2 DEF F
  <2>3. it[{}] = Begun
    BY <2>1 DEF IsFold
  <2>4. Folds(it)
    BY <2>2, <2>3
  <2> QED BY <2>4
<1>6. PICK it : Folds(it) /\ Tokenised(words) = it[1 .. n]
  <2> HIDE DEF Folds
  <2> QED BY <1>3, <1>5
<1>7. \A s \in SUBSET (1 .. n) :
        s # {} /\ it[s \ {Max(s)}] \in Tokeniser => it[s] = F[Max(s)][it[s \ {Max(s)}]]
  BY <1>0, <1>4, <1>6
<1>8. it[{}] = Begun
  BY <1>6
<1>9. FoldsWithin(Tokeniser, n, Begun, F, it)
  <2> HIDE DEF F, Folds
  <2> QED BY <1>1, <1>7, <1>8, BegunIsTokeniser DEF FoldsWithin
<1>10. PICK f : Partial(f, Tokeniser, n, Begun, F, it)
  <2> HIDE DEF F, Folds
  <2> QED BY <1>9, PartialExists
<1>11. /\ f \in [0 .. n -> Tokeniser] /\ f[0] = Begun /\ f[n] = it[1 .. n]
       /\ \A k \in 1 .. n : f[k] = F[k][f[k - 1]]
  <2> HIDE DEF F, Folds
  <2> QED BY <1>10 DEF Partial
<1>12. \A k \in 1 .. n : f[k] = ProcessWord(f[k - 1], words[k])
  <2> SUFFICES ASSUME NEW k \in 1 .. n PROVE f[k] = ProcessWord(f[k - 1], words[k])
    OBVIOUS
  <2>1. k - 1 \in 0 .. n
    OBVIOUS
  <2>2. f[k - 1] \in Tokeniser
    BY <1>11, <2>1
  <2>3. f[k] = F[k][f[k - 1]]
    <3> HIDE DEF F
    <3> QED BY <1>11
  <2> QED BY <1>0, <2>2, <2>3
<1> HIDE DEF F, Folds
<1> QED BY <1>0, <1>6, <1>11, <1>12 DEF IsTokenised

LEMMA GoTo == Token(To) \in Keywords /\ Token(Go) \in Keywords /\ Token(To) # Token(Go)
              /\ Token(Go).token = Go /\ Token(To).token = To
  BY BasicAssumption DEF Keywords, Token, To, Go, QuotedString, UnquotedString, LineNumber

(* A line that is kept is tokenised as its words expect. *)
LEMMA ExpectedNext ==
  ASSUME NEW words, NEW k \in Nat \ {0}, KeptWord(words, k)
  PROVE  Expected(words, k + 1) = Behind(Expected(words, k), words[k])
<1> DEFINE e == Expected(words, k)
           w == words[k]
<1>0. PICK m \in Nat : m = k + 1 /\ m # 1 /\ m - 1 = k /\ m - 2 = k - 1 /\ (m > 2 <=> k > 1) /\ (k > 1 <=> k # 1)
  OBVIOUS
<1>1. Expected(words, m) = IF w \notin Keywords THEN "any"
                           ELSE IF k > 1 /\ w = Token(To) /\ words[k - 1] = Token(Go) THEN "line"
                           ELSE Expects(w.token)
  BY <1>0 DEF Expected
<1>2. /\ k # 1 /\ words[k - 1] = Token(Go) => e = "to"
      /\ e = "to" => k > 1 /\ words[k - 1] = Token(Go)
  <2>1. Expects(Go) = "to" /\ \A b : Expects(b) = "to" => b = Go
    BY DEF Expects, Go, BeforeLine, CallToken
  <2>2. ASSUME k # 1, words[k - 1] = Token(Go) PROVE e = "to"
    BY <1>0, <2>1, <2>2, GoTo, Zenon DEF Expected
  <2>3. ASSUME e = "to" PROVE k # 1 /\ words[k - 1] = Token(Go)
    <3>1. k # 1 /\ words[k - 1] \in Keywords /\ Expects(words[k - 1].token) = "to"
      BY <2>3 DEF Expected
    <3>2. words[k - 1] = Token(words[k - 1].token)
      BY <3>1, KeywordFacts
    <3> QED BY <2>1, <3>1, <3>2
  <2> QED BY <1>0, <2>2, <2>3
<1> HIDE DEF e
<1>3. CASE e = "any" /\ w \in Keywords
  <2>1. w.kind = "token"
    BY <1>3, KeywordFacts
  <2>2. ~(k > 1 /\ words[k - 1] = Token(Go))
    BY <1>0, <1>2, <1>3
  <2> QED BY <1>0, <1>1, <1>3, <2>1, <2>2 DEF Behind, e
<1>4. CASE e = "to" /\ w = Token(To)
  <2>1. w \in Keywords
    BY <1>4, GoTo
  <2> QED BY <1>0, <1>1, <1>2, <1>4, <2>1 DEF Behind, e
<1>5. CASE w \in Texts /\ (e = "any" \/ e \in {"to", "line"} \/ e = "name")
  <2>1. w \notin Keywords /\ w.kind # "token" /\ w # Token(To)
    BY <1>5, TextFacts DEF Token
  <2> QED BY <1>0, <1>1, <1>5, <2>1 DEF Behind, e
<1>6. \/ e = "any" /\ w \in Keywords
      \/ e = "to" /\ w = Token(To)
      \/ w \in Texts /\ (e = "any" \/ e \in {"to", "line"} \/ e = "name")
  BY Zenon DEF KeptWord, e
<1> QED BY <1>3, <1>4, <1>5, <1>6

LEMMA ExpectedIs ==
  ASSUME NEW words \in Seq(Words), NEW f, IsTokenised(words, f),
         \A i \in DOMAIN words : KeptWord(words, i)
  PROVE  \A k \in 1 .. Len(words) : f[k - 1].expect = Expected(words, k)
<1>0. PICK n \in Nat : n = Len(words) /\ DOMAIN words = 1 .. n
  OBVIOUS
<1> DEFINE S == {g \in 0 .. n : f[g].expect = Expected(words, g + 1)}
<1>1. 0 \in S
  <2>1. f[0].expect = "any"
    BY DEF IsTokenised, Begun
  <2>2. Expected(words, 0 + 1) = "any"
    BY DEF Expected
  <2> QED BY <2>1, <2>2
<1>2. ASSUME NEW g \in 0 .. n - 1, g \in S PROVE g + 1 \in S
  <2>1. PICK k \in 1 .. n : k = g + 1 /\ k - 1 = g /\ k \in Nat \ {0}
    OBVIOUS
  <2>2. f[g] \in Tokeniser /\ f[k] = ProcessWord(f[g], words[k]) /\ words[k] \in Words /\ KeptWord(words, k)
    BY <1>0, <2>1 DEF IsTokenised
  <2>3. f[k].expect = Behind(f[g].expect, words[k])
    <3>1. PICK d \in Tokeniser, w \in Words : d = f[g] /\ w = words[k] /\ f[k] = ProcessWord(d, w)
      BY <2>2
    <3>2. ProcessWord(d, w).expect = Behind(d.expect, w)
      BY ONLY d \in Tokeniser, w \in Words, ProcessWordIs
    <3> QED BY <3>1, <3>2
  <2>4. Expected(words, k + 1) = Behind(Expected(words, k), words[k])
    BY <2>1, <2>2, ExpectedNext
  <2>5. f[k].expect = Expected(words, k + 1)
    BY <1>2, <2>1, <2>3, <2>4
  <2> QED BY <2>1, <2>5
<1>3. \A g \in 0 .. n : g \in S
  <2> HIDE DEF S
  <2> QED BY <1>1, <1>2, BoundedInduction
<1>4. ASSUME NEW k \in 1 .. n PROVE f[k - 1].expect = Expected(words, k)
  <2>1. k - 1 \in 0 .. n /\ (k - 1) + 1 = k
    OBVIOUS
  <2>2. k - 1 \in S
    BY <1>3, <2>1
  <2> QED BY <2>1, <2>2
<1> QED BY <1>0, <1>4

-----------------------------------------------------------------------------
(* Tokenised programs: a line that is read                                  *)

KeptLine(words) ==
  /\ words \in Seq(Words)
  /\ Len(ProcessLine(words)) <= ByteValues
  /\ \A i \in DOMAIN words : KeptWord(words, i)

(* The bytes of a line are in code behind the place first. *)
InCode(words, f, code, first) ==
  /\ KeptLine(words) /\ IsTokenised(words, f)
  /\ code \in Seq(Nat) /\ first \in Nat
  /\ \A j \in 1 .. Len(f[Len(words)].out) : code[first + j] = f[Len(words)].out[j]

(* What becomes of the k-th word. *)
WordBytes(words, k) == Form(Expected(words, k), words[k])

LEMMA WordInCode ==
  ASSUME NEW words, NEW f, NEW code, NEW first, InCode(words, f, code, first),
         NEW k \in 1 .. Len(words)
  PROVE  /\ WordBytes(words, k) \in Seq(Nat) /\ Len(f[k - 1].out) \in Nat
         /\ Len(f[k].out) = Len(f[k - 1].out) + Len(WordBytes(words, k))
         /\ Len(f[k].out) <= Len(f[Len(words)].out)
         /\ \A j \in 1 .. Len(WordBytes(words, k)) :
              code[first + (Len(f[k - 1].out) + j)] = WordBytes(words, k)[j]
<1>0. PICK n \in Nat : n = Len(words) /\ words \in Seq(Words) /\ k \in 1 .. n
  BY DEF InCode, KeptLine
<1> DEFINE h == [i \in 0 .. n |-> f[i].out]
           t == [i \in 1 .. n |-> Form(Expected(words, i), words[i])]
<1>1. \A i \in 0 .. n : h[i] \in Seq(Nat)
  <2>1. \A i \in 0 .. n : f[i] \in Tokeniser
    BY <1>0 DEF InCode, IsTokenised
  <2> QED BY <2>1 DEF Tokeniser
<1>2. ASSUME NEW i \in 1 .. n PROVE t[i] \in Seq(Nat) /\ h[i] = h[i - 1] \o t[i]
  <2>1. /\ f[i - 1] \in Tokeniser /\ f[i] = ProcessWord(f[i - 1], words[i]) /\ words[i] \in Words
        /\ i - 1 \in 0 .. n /\ i \in 0 .. n
    BY <1>0, SMTT(40) DEF InCode, IsTokenised
  <2>2. f[i - 1].expect = Expected(words, i)
    BY <1>0, ExpectedIs DEF InCode, KeptLine
  <2>3. f[i].out = f[i - 1].out \o Form(Expected(words, i), words[i])
    <3>1. PICK d \in Tokeniser, w \in Words : d = f[i - 1] /\ w = words[i] /\ f[i] = ProcessWord(d, w)
      BY <2>1
    <3>2. ProcessWord(d, w).out = d.out \o Form(d.expect, w)
      BY ONLY d \in Tokeniser, w \in Words, ProcessWordIs
    <3> QED BY <2>2, <3>1, <3>2
  <2>4. Form(Expected(words, i), words[i]) \in Seq(Nat)
    <3>1. f[i - 1].expect \in {"any", "to", "line", "name"}
      BY <2>1 DEF Tokeniser
    <3> QED BY <2>1, <2>2, <3>1, FormTyped
  <2> QED BY <2>1, <2>3, <2>4
<1> HIDE DEF h, t
<1>3. InWhole(n, h, t, k)
  <2>1. Pieces(n, h, t)
    BY <1>1, <1>2 DEF Pieces
  <2> QED BY <1>0, <2>1, PiecesInWhole
<1>4. /\ h[n] = f[n].out /\ h[k] = f[k].out /\ h[k - 1] = f[k - 1].out
      /\ t[k] = Form(Expected(words, k), words[k]) /\ k - 1 \in 0 .. n
      /\ k \in 0 .. n /\ n \in 0 .. n
  BY <1>0 DEF h, t
<1>5. /\ Len(h[k]) = Len(h[k - 1]) + Len(t[k]) /\ Len(h[k]) <= Len(h[n])
      /\ Len(h[k - 1]) \in Nat /\ Len(t[k]) \in Nat /\ Len(h[n]) \in Nat
      /\ \A j \in 1 .. Len(t[k]) : h[n][Len(h[k - 1]) + j] = t[k][j]
      /\ t[k] \in Seq(Nat)
  BY <1>0, <1>2, <1>3 DEF InWhole
<1>6. \A j \in 1 .. Len(t[k]) : code[first + (Len(h[k - 1]) + j)] = t[k][j]
  <2> SUFFICES ASSUME NEW j \in 1 .. Len(t[k]) PROVE code[first + (Len(h[k - 1]) + j)] = t[k][j]
    OBVIOUS
  <2>1. PICK i \in 1 .. Len(h[n]) : i = Len(h[k - 1]) + j
    <3>1. PICK x \in Nat, y \in Nat, z \in Nat : x = Len(h[k - 1]) /\ y = Len(t[k]) /\ z = Len(h[n])
      BY <1>5
    <3>2. x + y <= z /\ j \in 1 .. y
      BY <1>5, <3>1
    <3>3. x + j \in 1 .. z
      BY <3>2
    <3> QED BY <3>1, <3>3
  <2>2. code[first + i] = h[n][i]
    BY <1>0, <1>4, <2>1 DEF InCode
  <2> QED BY <1>5, <2>1, <2>2
<1> HIDE DEF h, t
<1> QED BY <1>0, <1>4, <1>5, <1>6 DEF WordBytes


(* The bytes s are in code from pos. *)
HoldsAt(code, pos, s) ==
  /\ s \in Seq(Nat) /\ pos \in Nat
  /\ \A j \in 1 .. Len(s) : code[pos + (j - 1)] = s[j]

(* What is read when a word is over. *)
After(d, size, word) == [at |-> d.at + size, inName |-> FALSE, words |-> Append(d.words, word)]

LEMMA ReadKeyword ==
  ASSUME NEW d, NEW code, NEW w \in Keywords, code[d.at] = w.token
  PROVE  DecodeToken(d, code) = After(d, 1, w)
<1>1. /\ w = Token(w.token) /\ w.token \in Nat /\ w.token >= 128
      /\ w.token # QuotedString /\ w.token # UnquotedString /\ w.token # LineNumber
  BY KeywordFacts
<1>2. ~(w.token < 128)
  BY <1>1
<1> QED BY <1>1, <1>2, Zenon DEF DecodeToken, After

LEMMA ReadCharacter ==
  ASSUME NEW d, NEW code, code[d.at] \in Nat, code[d.at] < 128
  PROVE  DecodeToken(d, code) = [at |-> d.at + 1, inName |-> TRUE,
                                 words |-> AddCharacter(d.words, d.inName, code[d.at])]
<1>1. code[d.at] # QuotedString /\ code[d.at] # UnquotedString /\ code[d.at] # LineNumber
  BY DEF QuotedString, UnquotedString, LineNumber
<1> QED BY <1>1, Zenon DEF DecodeToken

LEMMA ReadLineNumber ==
  ASSUME NEW d, NEW code, NEW m \in Nat, m < 65536, HoldsAt(code, d.at, AsLineNumber(m))
  PROVE  DecodeToken(d, code) = After(d, 3, Printed(DigitsOf(m)))
<1>1. /\ Len(AsLineNumber(m)) = 3 /\ AsLineNumber(m)[1] = LineNumber
      /\ AsLineNumber(m)[2] = (m \div 256) % 256 /\ AsLineNumber(m)[3] = (m % 256)
  BY LineNumberTyped
<1>2. code[d.at] = LineNumber /\ code[d.at + 1] = (m \div 256) % 256 /\ code[d.at + 2] = (m % 256)
  <2>1. PICK p \in Nat : p = d.at
    BY DEF HoldsAt
  <2>2. \A j \in 1 .. 3 : code[p + (j - 1)] = AsLineNumber(m)[j]
    BY <1>1, <2>1, SMTT(40) DEF HoldsAt
  <2>3. 1 \in 1 .. 3 /\ 2 \in 1 .. 3 /\ 3 \in 1 .. 3 /\ p + (1 - 1) = p /\ p + (2 - 1) = p + 1 /\ p + (3 - 1) = p + 2
    OBVIOUS
  <2> QED BY <1>1, <2>1, <2>2, <2>3
<1>3. ((m \div 256) % 256) * 256 + (m % 256) = m
  <2>1. PICK q \in Nat, r \in 0 .. 255 : q = m \div 256 /\ r = (m % 256) /\ m = q * 256 + r
    OBVIOUS
  <2>2. q < 256
    BY <2>1
  <2>3. q % 256 = q
    BY <2>2
  <2> QED BY <2>1, <2>3
<1>4. ~(LineNumber < 128) /\ LineNumber # QuotedString /\ LineNumber # UnquotedString
  BY DEF QuotedString, UnquotedString, LineNumber
<1>5. code[d.at + 1] * 256 + code[d.at + 2] = m
  BY <1>2, <1>3
<1> QED BY ONLY <1>2, <1>4, <1>5, ZenonT(60) DEF DecodeToken, After

LEMMA ReadString ==
  ASSUME NEW d, NEW code, NEW type \in {QuotedString, UnquotedString}, NEW value \in Seq(Nat),
         HoldsAt(code, d.at, AsString(type, value))
  PROVE  DecodeToken(d, code)
           = After(d, Len(value) + 2, IF type = QuotedString THEN [kind |-> "string", value |-> value]
                                      ELSE Printed(value))
<1>1. /\ Len(AsString(type, value)) = Len(value) + 2
      /\ AsString(type, value)[1] = type /\ AsString(type, value)[2] = Len(value)
      /\ \A j \in 1 .. Len(value) : AsString(type, value)[j + 2] = value[j]
  <2>1. type \in Nat
    BY DEF QuotedString, UnquotedString
  <2> QED BY <2>1, StringTyped
<1>2. PICK p \in Nat, l \in Nat : p = d.at /\ l = Len(value)
  BY DEF HoldsAt
<1>3. \A j \in 1 .. l + 2 : code[p + (j - 1)] = AsString(type, value)[j]
  BY <1>1, <1>2 DEF HoldsAt
<1>4. code[p] = type /\ code[p + 1] = l
  <2>1. 1 \in 1 .. l + 2 /\ 2 \in 1 .. l + 2 /\ p + (1 - 1) = p /\ p + (2 - 1) = p + 1
    OBVIOUS
  <2> QED BY <1>1, <1>2, <1>3, <2>1
<1>5. ASSUME NEW j \in 1 .. l PROVE code[p + 2 + j - 1] = value[j]
  <2>1. j + 2 \in 1 .. l + 2 /\ p + ((j + 2) - 1) = p + 2 + j - 1
    OBVIOUS
  <2> QED BY <1>1, <1>2, <1>3, <2>1
<1>6. SubSeq(code, p + 2, p + 1 + l) = value
  <2> DEFINE sub == SubSeq(code, p + 2, p + 1 + l)
  <2>1. ASSUME NEW i \in p + 2 .. p + 1 + l PROVE code[i] \in Nat
    <3>1. PICK j \in 1 .. l : i = p + 2 + j - 1
      <4>1. i - p - 1 \in 1 .. l /\ i = p + 2 + (i - p - 1) - 1
        OBVIOUS
      <4> QED BY <4>1
    <3> QED BY <1>2, <1>5, <3>1, SMTT(40)
  <2>2. p + 2 \in Int /\ p + 1 + l \in Int
    OBVIOUS
  <2>3. /\ sub \in Seq(Nat)
        /\ Len(sub) = IF p + 2 <= p + 1 + l THEN p + 1 + l - (p + 2) + 1 ELSE 0
        /\ \A i \in 1 .. p + 1 + l - (p + 2) + 1 : sub[i] = code[p + 2 + i - 1]
    BY ONLY <2>1, <2>2, SubSeqProperties
  <2>4. Len(sub) = l /\ p + 1 + l - (p + 2) + 1 = l
    BY <2>3
  <2>5. \A i \in 1 .. l : sub[i] = value[i]
    BY <1>5, <2>3, <2>4
  <2>6. sub \in Seq(Nat) /\ value \in Seq(Nat) /\ Len(sub) = Len(value) /\ \A i \in 1 .. Len(sub) : sub[i] = value[i]
    BY <1>2, <2>3, <2>4, <2>5
  <2> HIDE DEF sub
  <2>7. sub = value
    BY ONLY <2>6, SeqEqual
  <2> QED BY <2>7 DEF sub
<1>7. ~(type < 128) /\ type # LineNumber /\ QuotedString # UnquotedString
  BY DEF QuotedString, UnquotedString, LineNumber
<1>8. CASE type = QuotedString
  BY <1>2, <1>4, <1>6, <1>7, <1>8, ZenonT(60) DEF DecodeToken, After
<1>9. CASE type = UnquotedString
  BY <1>2, <1>4, <1>6, <1>7, <1>9, ZenonT(60) DEF DecodeToken, After
<1> QED BY <1>8, <1>9

LEMMA WordHeld ==
  ASSUME NEW words, NEW f, NEW code, NEW first, InCode(words, f, code, first),
         NEW k \in 1 .. Len(words)
  PROVE  HoldsAt(code, first + 1 + Len(f[k - 1].out), WordBytes(words, k))
<1> DEFINE s == WordBytes(words, k)
<1>1. /\ s \in Seq(Nat) /\ Len(f[k - 1].out) \in Nat
      /\ \A j \in 1 .. Len(s) : code[first + (Len(f[k - 1].out) + j)] = s[j]
  BY WordInCode
<1>0. first \in Nat
  BY DEF InCode
<1> HIDE DEF s
<1>00. Len(s) \in Nat
  BY <1>1, LenProperties
<1>2. PICK at \in Nat, p \in Nat, l \in Nat : at = Len(f[k - 1].out) /\ p = first /\ l = Len(s)
  BY <1>0, <1>00, <1>1
<1>3. ASSUME NEW j \in 1 .. l PROVE code[p + 1 + at + (j - 1)] = s[j]
  <2>1. p + 1 + at + (j - 1) = p + (at + j)
    OBVIOUS
  <2> QED BY <1>1, <1>2, <2>1
<1>4. p + 1 + at \in Nat
  OBVIOUS
<1>5. HoldsAt(code, p + 1 + at, s)
  BY <1>1, <1>2, <1>3, <1>4 DEF HoldsAt
<1> QED BY <1>2, <1>5 DEF s

LEMMA FirstHeld ==
  ASSUME NEW code, NEW pos, NEW s, HoldsAt(code, pos, s), Len(s) >= 1
  PROVE  code[pos] = s[1]
<1>1. PICK p \in Nat, l \in Nat : p = pos /\ l = Len(s)
  BY LenProperties DEF HoldsAt
<1>2. 1 \in 1 .. l /\ p + (1 - 1) = p
  BY <1>1
<1> QED BY <1>1, <1>2 DEF HoldsAt

LEMMA UnderTwoBytes ==
  ASSUME NEW m, m \in 0 .. ByteValues * ByteValues - 1
  PROVE  m \in Nat /\ m < 65536
<1>1. ByteValues = 256
  BY BasicAssumption, Zenon
<1>2. 256 * 256 = 65536
  BY ONLY TRUE
<1>3. ByteValues \in Nat /\ ByteValues * ByteValues = 65536
  BY ONLY <1>1, <1>2
<1>4. ByteValues \in Nat
  BY ONLY <1>3
<1>5. m \in Nat /\ m < ByteValues * ByteValues
  BY ONLY <1>4, m \in 0 .. ByteValues * ByteValues - 1
<1> QED BY ONLY <1>3, <1>5

(* A word that is over with its last byte. *)
LEMMA ReadWord ==
  ASSUME NEW words, NEW k, words[k] \in Words, KeptWord(words, k), ~Raw(words, k), k >= 1,
         NEW d, NEW code, HoldsAt(code, d.at, WordBytes(words, k))
  PROVE  /\ Len(WordBytes(words, k)) >= 1
         /\ DecodeToken(d, code) = After(d, Len(WordBytes(words, k)), words[k])
<1> DEFINE e == Expected(words, k)
           w == words[k]
           v == w.value
<1>1. \/ e = "any" /\ w \in Keywords
      \/ e = "to" /\ w = Token(To)
      \/ e = "any" /\ w \in Texts /\ w.kind = "string"
      \/ e = "any" /\ w \in Texts /\ w.kind = "number" /\ IsNumber(v)
      \/ /\ e \in {"to", "line"} /\ w \in Texts /\ w.kind = "number" /\ IsNumber(v)
         /\ NumberOf(v) \in 0 .. ByteValues * ByteValues - 1 /\ DigitsOf(NumberOf(v)) = v
      \/ e = "name" /\ w \in Texts /\ w.kind = "name" /\ ~IsNumber(v)
  BY TextFacts, Zenon DEF KeptWord, Raw
<1>0. HoldsAt(code, d.at, Form(e, w)) /\ WordBytes(words, k) = Form(e, w)
  BY DEF WordBytes
<1> HIDE DEF e
<1>2. CASE (e = "any" /\ w \in Keywords) \/ (e = "to" /\ w = Token(To))
  <2>1. w \in Keywords /\ w.kind = "token" /\ w.token \in Nat
    BY <1>2, GoTo, KeywordFacts
  <2>2. Form(e, w) = <<w.token>>
    <3>1. CASE e = "any"
      BY <2>1, <3>1 DEF Form, Emitted
    <3>2. CASE e = "to" /\ w = Token(To)
      BY <3>2, GoTo DEF Form
    <3> QED BY <1>2, <3>1, <3>2
  <2>3. PICK b \in Nat : b = w.token
    BY <2>1
  <2>4. Len(<<b>>) = 1 /\ <<b>>[1] = b
    OBVIOUS
  <2>5. code[d.at] = w.token
    BY <1>0, <2>2, <2>3, <2>4, FirstHeld
  <2>6. DecodeToken(d, code) = After(d, 1, w)
    BY <2>1, <2>5, ReadKeyword
  <2> QED BY <1>0, <2>2, <2>3, <2>4, <2>6
<1>3. CASE e = "any" /\ w \in Texts /\ w.kind = "string"
  <2>1. v \in Seq(Nat) /\ w = [kind |-> "string", value |-> v]
    BY <1>3, TextFacts
  <2>2. Form(e, w) = AsString(QuotedString, v)
    BY <1>3 DEF Form, Emitted
  <2>3. Len(AsString(QuotedString, v)) = Len(v) + 2 /\ Len(v) \in Nat
    <3>1. QuotedString \in Nat
      BY DEF QuotedString
    <3>2. Len(AsString(QuotedString, v)) = Len(v) + 2
      BY <2>1, <3>1, StringTyped
    <3> QED BY <2>1, <3>2, LenProperties
  <2>4. DecodeToken(d, code) = After(d, Len(v) + 2, w)
    BY <1>0, <2>1, <2>2, ReadString
  <2> QED BY <1>0, <2>2, <2>3, <2>4
<1>4. CASE \/ e = "any" /\ w \in Texts /\ w.kind = "number" /\ IsNumber(v)
           \/ e = "name" /\ w \in Texts /\ w.kind = "name" /\ ~IsNumber(v)
  <2>1. v \in Seq(Nat) /\ w = [kind |-> w.kind, value |-> v]
    BY <1>4, TextFacts
  <2>2. Form(e, w) = AsString(UnquotedString, v)
    <3>1. CASE e = "any"
      BY <1>4, <3>1 DEF Form, Emitted
    <3>2. CASE e = "name"
      BY <1>4, <3>2 DEF Form
    <3> QED BY <1>4, <3>1, <3>2
  <2>3. Len(AsString(UnquotedString, v)) = Len(v) + 2 /\ Len(v) \in Nat
    <3>1. UnquotedString \in Nat
      BY DEF UnquotedString
    <3>2. Len(AsString(UnquotedString, v)) = Len(v) + 2
      BY <2>1, <3>1, StringTyped
    <3> QED BY <2>1, <3>2, LenProperties
  <2>4. Printed(v) = w
    BY <1>4, <2>1, Zenon DEF Printed, IsNumber
  <2>5. DecodeToken(d, code) = After(d, Len(v) + 2, w)
    <3>1. UnquotedString # QuotedString
      BY DEF UnquotedString, QuotedString
    <3> QED BY <1>0, <2>1, <2>2, <2>4, <3>1, ReadString
  <2> QED BY <1>0, <2>2, <2>3, <2>5
<1>5. CASE /\ e \in {"to", "line"} /\ w \in Texts /\ w.kind = "number" /\ IsNumber(v)
           /\ NumberOf(v) \in 0 .. ByteValues * ByteValues - 1 /\ DigitsOf(NumberOf(v)) = v
  <2>1. v \in Seq(Nat) /\ w = [kind |-> "number", value |-> v] /\ w # Token(To)
    BY <1>5, TextFacts DEF Token
  <2>2. Form(e, w) = AsLineNumber(NumberOf(v))
    BY <1>5, <2>1 DEF Form
  <2>3. NumberOf(v) \in Nat /\ NumberOf(v) < 65536
    BY <1>5, UnderTwoBytes
  <2>4. Len(AsLineNumber(NumberOf(v))) = 3
    BY <2>3, LineNumberTyped
  <2>5. Printed(v) = w
    BY <1>5, <2>1, Zenon DEF Printed, IsNumber
  <2>6. DecodeToken(d, code) = After(d, 3, w)
    BY <1>0, <1>5, <2>2, <2>3, <2>5, ReadLineNumber
  <2> QED BY <1>0, <2>2, <2>4, <2>6
<1> QED BY <1>1, <1>2, <1>3, <1>4, <1>5

LEMMA NextOfFirst ==
  ASSUME NEW S, NEW s \in Seq(S), NEW k \in 1 .. Len(s)
  PROVE  /\ SubSeq(s, 1, k) = Append(SubSeq(s, 1, k - 1), s[k])
         /\ SubSeq(s, 1, k - 1) \in Seq(S) /\ Len(SubSeq(s, 1, k - 1)) = k - 1
         /\ s[k] \in S
<1>1. s[k] \in S /\ 1 \in 1 .. Len(s) /\ 1 <= k /\ k - 1 \in Int /\ 1 \in Int
  BY LenProperties
<1>2. SubSeq(s, 1, k) = SubSeq(s, 1, k - 1) \o <<s[k]>>
  <2>1. k \in 1 .. Len(s)
    OBVIOUS
  <2> QED BY <1>1, <2>1, SubSeqRecursiveSecond
<1>3. \A i \in 1 .. k - 1 : s[i] \in S
  BY LenProperties
<1>4. /\ SubSeq(s, 1, k - 1) \in Seq(S)
      /\ Len(SubSeq(s, 1, k - 1)) = IF 1 <= k - 1 THEN k - 1 - 1 + 1 ELSE 0
  BY ONLY <1>1, <1>3, SubSeqProperties
<1>5. PICK t \in Seq(S), x \in S : t = SubSeq(s, 1, k - 1) /\ x = s[k]
  BY <1>1, <1>4
<1>6. Append(t, x) = t \o <<x>>
  BY AppendIsConcat
<1>7. Len(t) = k - 1
  BY <1>4, <1>5
<1> QED BY <1>1, <1>2, <1>5, <1>6, <1>7

LEMMA LastChanged ==
  ASSUME NEW S, NEW s \in Seq(S), NEW x \in S, NEW y \in S
  PROVE  /\ [Append(s, x) EXCEPT ![Len(Append(s, x))] = y] = Append(s, y)
         /\ Append(s, x)[Len(Append(s, x))] = x
<1>1. /\ Append(s, x) \in Seq(S) /\ Len(Append(s, x)) = Len(s) + 1
      /\ \A i \in 1 .. Len(s) : Append(s, x)[i] = s[i]
      /\ Append(s, x)[Len(s) + 1] = x
  BY AppendProperties
<1>2. /\ Append(s, y) \in Seq(S) /\ Len(Append(s, y)) = Len(s) + 1
      /\ \A i \in 1 .. Len(s) : Append(s, y)[i] = s[i]
      /\ Append(s, y)[Len(s) + 1] = y
  BY AppendProperties
<1>3. PICK n \in Nat : n = Len(s)
  BY LenProperties
<1>4. PICK a \in Seq(S) : a = Append(s, x)
  BY <1>1
<1>5. Len(a) = n + 1 /\ \A i \in 1 .. n : a[i] = s[i]
  BY <1>1, <1>3, <1>4
<1>6. [a EXCEPT ![n + 1] = y] \in Seq(S)
  BY <1>5, ExceptSeq
<1>7. /\ Len([a EXCEPT ![n + 1] = y]) = n + 1
      /\ \A i \in 1 .. n + 1 : [a EXCEPT ![n + 1] = y][i] = Append(s, y)[i]
  <2>1. Len([a EXCEPT ![n + 1] = y]) = n + 1
    BY <1>5, ExceptSeq
  <2>2. ASSUME NEW i \in 1 .. n + 1 PROVE [a EXCEPT ![n + 1] = y][i] = Append(s, y)[i]
    <3>1. DOMAIN a = 1 .. n + 1
      BY <1>5, LenProperties
    <3>2. CASE i = n + 1
      BY <1>2, <1>3, <3>1, <3>2
    <3>3. CASE i \in 1 .. n
      <4>1. i # n + 1
        BY <3>3
      <4>2. [a EXCEPT ![n + 1] = y][i] = a[i]
        BY <3>1, <4>1
      <4> QED BY <1>2, <1>3, <1>5, <3>3, <4>2
    <3>4. i = n + 1 \/ i \in 1 .. n
      OBVIOUS
    <3> QED BY ONLY <3>2, <3>3, <3>4, Zenon
  <2> QED BY <2>1, <2>2
<1>8. PICK r \in Seq(S), t \in Seq(S) : r = [a EXCEPT ![n + 1] = y] /\ t = Append(s, y)
  BY <1>2, <1>6
<1>9. r = t
  <2>1. Len(r) = Len(t) /\ \A i \in 1 .. Len(r) : r[i] = t[i]
    BY <1>2, <1>3, <1>7, <1>8
  <2> QED BY ONLY r \in Seq(S), t \in Seq(S), <2>1, SeqEqual
<1> QED BY <1>1, <1>3, <1>4, <1>8, <1>9

(* Where the decoder is with the first k words read, and with the first m   *)
(* characters of the k-th word, that has no length.                         *)
ReadTo(words, f, first, k) ==
  [at |-> first + 1 + Len(f[k].out), inName |-> Raw(words, k), words |-> SubSeq(words, 1, k)]

Name(value) == [kind |-> "name", value |-> value]

Within(words, f, first, k, m) ==
  [at |-> first + 1 + Len(f[k - 1].out) + m, inName |-> TRUE,
   words |-> Append(SubSeq(words, 1, k - 1), Name(SubSeq(words[k].value, 1, m)))]

LEMMA NextPlace ==
  ASSUME NEW words, NEW f, NEW code, NEW first, InCode(words, f, code, first),
         NEW k \in 1 .. Len(words), ~Raw(words, k)
  PROVE  /\ DecodeToken(ReadTo(words, f, first, k - 1), code) = ReadTo(words, f, first, k)
         /\ Len(f[k].out) > Len(f[k - 1].out)
<1> DEFINE d == ReadTo(words, f, first, k - 1)
           b == WordBytes(words, k)
<1>0. PICK n \in Nat : n = Len(words) /\ words \in Seq(Words) /\ k \in 1 .. n /\ DOMAIN words = 1 .. n
  BY LenProperties DEF InCode, KeptLine
<1>1. words[k] \in Words /\ KeptWord(words, k) /\ k >= 1
  BY <1>0 DEF InCode, KeptLine
<1>2. HoldsAt(code, d.at, b)
  BY WordHeld DEF ReadTo
<1>3. Len(b) >= 1 /\ DecodeToken(d, code) = After(d, Len(b), words[k])
  <2> HIDE DEF d
  <2> QED BY <1>1, <1>2, ReadWord
<1>4. Len(b) \in Nat /\ Len(f[k - 1].out) \in Nat /\ Len(f[k].out) = Len(f[k - 1].out) + Len(b)
  BY WordInCode, LenProperties
<1>5. SubSeq(words, 1, k) = Append(SubSeq(words, 1, k - 1), words[k])
  BY <1>0, NextOfFirst
<1>6. first \in Nat
  BY DEF InCode
<1> HIDE DEF b
<1>7. first + 1 + Len(f[k].out) = first + 1 + Len(f[k - 1].out) + Len(b)
  <2>1. PICK x \in Nat, y \in Nat, p \in Nat : x = Len(f[k - 1].out) /\ y = Len(b) /\ p = first
    BY <1>4, <1>6
  <2>2. p + 1 + (x + y) = p + 1 + x + y
    OBVIOUS
  <2> QED BY <1>4, <2>1, <2>2
<1>8. Raw(words, k) = FALSE
  BY DEF Raw
<1>9. After(d, Len(b), words[k]) = ReadTo(words, f, first, k)
  BY <1>5, <1>7, <1>8, Zenon DEF After, ReadTo
<1>10. Len(f[k].out) > Len(f[k - 1].out)
  BY <1>3, <1>4
<1> HIDE DEF d
<1> QED BY <1>3, <1>9, <1>10 DEF d

(* A name that has no length. *)
LEMMA RawIs ==
  ASSUME NEW words, NEW f, NEW code, NEW first, InCode(words, f, code, first),
         NEW k \in 1 .. Len(words), Raw(words, k)
  PROVE  /\ words[k].value \in Seq(Nat) /\ words[k] = Name(words[k].value)
         /\ Len(words[k].value) \in Nat \ {0}
         /\ \A m \in 1 .. Len(words[k].value) : words[k].value[m] \in Nat /\ words[k].value[m] < 128
         /\ Raw(words, k - 1) = FALSE
         /\ WordBytes(words, k) = words[k].value
         /\ Len(f[k].out) = Len(f[k - 1].out) + Len(words[k].value)
         /\ SubSeq(words, 1, k - 1) \in Seq(Words) /\ Len(SubSeq(words, 1, k - 1)) = k - 1
<1> DEFINE w == words[k]
           v == w.value
<1>0. PICK n \in Nat : n = Len(words) /\ words \in Seq(Words) /\ k \in 1 .. n /\ DOMAIN words = 1 .. n
  BY LenProperties DEF InCode, KeptLine
<1>1. KeptWord(words, k)
  BY <1>0 DEF InCode, KeptLine
<1>2. w \in Texts /\ w.kind = "name" /\ Expected(words, k) = "any"
  BY DEF Raw
<1>3. w \notin Keywords /\ v \in Seq(Nat) /\ w = Name(v)
  BY <1>2, TextFacts DEF Name
<1>4. v # <<>> /\ ~Raw(words, k - 1) /\ \A j \in DOMAIN v : v[j] < 128
  BY <1>1, <1>2, <1>3, Zenon DEF KeptWord
<1>5. WordBytes(words, k) = v
  BY <1>2 DEF WordBytes, Form, Emitted
<1>6. Len(v) \in Nat \ {0} /\ \A m \in 1 .. Len(v) : v[m] \in Nat /\ v[m] < 128
  <2>1. PICK l \in Nat : l = Len(v) /\ DOMAIN v = 1 .. l /\ \A m \in 1 .. l : v[m] \in Nat
    BY <1>3, LenProperties
  <2>2. l # 0
    BY <1>3, <1>4, <2>1, EmptySeq
  <2> QED BY <1>4, <2>1, <2>2
<1>7. Len(f[k].out) = Len(f[k - 1].out) + Len(v)
  BY <1>5, WordInCode, ZenonT(60)
<1>8. SubSeq(words, 1, k - 1) \in Seq(Words) /\ Len(SubSeq(words, 1, k - 1)) = k - 1
  BY <1>0, NextOfFirst
<1>9. Raw(words, k - 1) = FALSE
  BY <1>4 DEF Raw
<1> QED BY <1>3, <1>5, <1>6, <1>7, <1>8, <1>9

(* Its characters, one by one. *)
LEMMA CharacterInCode ==
  ASSUME NEW words, NEW f, NEW code, NEW first, InCode(words, f, code, first),
         NEW k \in 1 .. Len(words), Raw(words, k), NEW m \in 0 .. Len(words[k].value) - 1
  PROVE  code[first + 1 + Len(f[k - 1].out) + m] = words[k].value[m + 1]
<1>1. HoldsAt(code, first + 1 + Len(f[k - 1].out), words[k].value)
  <2>1. HoldsAt(code, first + 1 + Len(f[k - 1].out), WordBytes(words, k))
    BY WordHeld
  <2>2. WordBytes(words, k) = words[k].value
    BY RawIs
  <2> QED BY <2>1, <2>2
<1>2. PICK p \in Nat, l \in Nat : p = first + 1 + Len(f[k - 1].out) /\ l = Len(words[k].value)
  BY <1>1, RawIs DEF HoldsAt
<1>3. m \in Nat /\ m + 1 \in 1 .. l /\ (m + 1) - 1 = m
  BY <1>2
<1> QED BY <1>1, <1>2, <1>3 DEF HoldsAt

LEMMA FirstCharacter ==
  ASSUME NEW words, NEW f, NEW code, NEW first, InCode(words, f, code, first),
         NEW k \in 1 .. Len(words), Raw(words, k)
  PROVE  DecodeToken(ReadTo(words, f, first, k - 1), code) = Within(words, f, first, k, 1)
<1> DEFINE d == ReadTo(words, f, first, k - 1)
           v == words[k].value
<1>1. /\ v \in Seq(Nat) /\ Len(v) \in Nat \ {0} /\ v[1] \in Nat /\ v[1] < 128
      /\ d.inName = FALSE
  <2>1. v \in Seq(Nat) /\ Len(v) \in Nat \ {0} /\ Raw(words, k - 1) = FALSE
    BY RawIs
  <2>2. \A m \in 1 .. Len(v) : v[m] \in Nat /\ v[m] < 128
    BY RawIs
  <2>3. 1 \in 1 .. Len(v)
    BY <2>1
  <2> QED BY <2>1, <2>2, <2>3 DEF ReadTo
<1>2. first + 1 + Len(f[k - 1].out) \in Nat
  BY WordHeld DEF HoldsAt
<1>3. code[d.at] = v[1]
  <2>1. 0 \in 0 .. Len(v) - 1 /\ 0 + 1 = 1
    BY <1>1
  <2>2. code[first + 1 + Len(f[k - 1].out) + 0] = v[0 + 1]
    BY <2>1, CharacterInCode
  <2> QED BY <1>2, <2>2 DEF ReadTo
<1>4. SubSeq(v, 1, 1) = <<v[1]>>
  <2>1. 1 \in 1 .. Len(v)
    BY <1>1
  <2>2. SubSeq(v, 1, 1) = Append(SubSeq(v, 1, 1 - 1), v[1])
    BY <1>1, <2>1, NextOfFirst
  <2>3. SubSeq(v, 1, 1 - 1) = <<>>
    <3>1. 1 \in Int /\ 1 - 1 \in Int /\ 1 - 1 < 1
      OBVIOUS
    <3> QED BY <3>1, SubSeqEmpty
  <2>4. Append(<<>>, v[1]) = <<v[1]>>
    OBVIOUS
  <2> QED BY <2>2, <2>3, <2>4
<1>5. DecodeToken(d, code) = [at |-> d.at + 1, inName |-> TRUE, words |-> AddCharacter(d.words, d.inName, code[d.at])]
  <2> HIDE DEF d
  <2> QED BY <1>1, <1>3, ReadCharacter
<1>6. AddCharacter(d.words, d.inName, code[d.at]) = Append(SubSeq(words, 1, k - 1), Name(SubSeq(v, 1, 1)))
  BY <1>1, <1>3, <1>4 DEF AddCharacter, Name, ReadTo
<1>7. DecodeToken(d, code) = Within(words, f, first, k, 1)
  BY <1>5, <1>6 DEF Within, ReadTo
<1> QED BY <1>7

LEMMA NextCharacter ==
  ASSUME NEW words, NEW f, NEW code, NEW first, InCode(words, f, code, first),
         NEW k \in 1 .. Len(words), Raw(words, k), NEW m \in 1 .. Len(words[k].value) - 1
  PROVE  DecodeToken(Within(words, f, first, k, m), code) = Within(words, f, first, k, m + 1)
<1> DEFINE d == Within(words, f, first, k, m)
           v == words[k].value
           s == SubSeq(words, 1, k - 1)
<1>0. PICK l \in Nat : l = Len(v) /\ m \in Nat /\ m + 1 \in 1 .. l /\ m \in 0 .. l - 1 /\ m + 1 - 1 = m
  BY RawIs
<1>1. v \in Seq(Nat) /\ v[m + 1] \in Nat /\ v[m + 1] < 128 /\ s \in Seq(Words)
  BY <1>0, RawIs, ZenonT(60)
<1>2. first + 1 + Len(f[k - 1].out) \in Nat
  BY WordHeld DEF HoldsAt
<1>3. code[d.at] = v[m + 1]
  BY <1>0, CharacterInCode DEF Within
<1>4. DecodeToken(d, code) = [at |-> d.at + 1, inName |-> TRUE, words |-> AddCharacter(d.words, d.inName, code[d.at])]
  <2> HIDE DEF d
  <2> QED BY <1>1, <1>3, ReadCharacter
<1>5. /\ SubSeq(v, 1, m + 1) = Append(SubSeq(v, 1, m), v[m + 1])
      /\ SubSeq(v, 1, m) \in Seq(Nat)
  <2>1. /\ SubSeq(v, 1, m + 1) = Append(SubSeq(v, 1, m + 1 - 1), v[m + 1])
        /\ SubSeq(v, 1, m + 1 - 1) \in Seq(Nat)
    BY <1>0, <1>1, NextOfFirst, SMTT(40)
  <2> QED BY <1>0, <2>1
<1>6. PICK x \in Seq(Nat), c \in Nat : x = SubSeq(v, 1, m) /\ c = v[m + 1]
  BY <1>1, <1>5
<1>7. Name(x) \in Words /\ Name(Append(x, c)) \in Words
  <2>1. Append(x, c) \in Seq(Nat)
    BY AppendProperties
  <2> QED BY <2>1 DEF Name, Words, Texts
<1>8. AddCharacter(Append(s, Name(x)), TRUE, c) = Append(s, Name(Append(x, c)))
  <2>1. PICK a : a = Append(s, Name(x))
    OBVIOUS
  <2>2. a[Len(a)] = Name(x) /\ [a EXCEPT ![Len(a)] = Name(Append(x, c))] = Append(s, Name(Append(x, c)))
    <3>1. PICK y \in Words, z \in Words, t \in Seq(Words) : y = Name(x) /\ z = Name(Append(x, c)) /\ t = s
      BY <1>1, <1>7
    <3>2. /\ [Append(t, y) EXCEPT ![Len(Append(t, y))] = z] = Append(t, z)
          /\ Append(t, y)[Len(Append(t, y))] = y
      BY LastChanged
    <3> QED BY ONLY <2>1, <3>1, <3>2
  <2>3. [Name(x) EXCEPT !.value = Append(Name(x).value, c)] = Name(Append(x, c))
    <3>1. PICK z : z = Append(x, c)
      OBVIOUS
    <3>2. Name(x).value = x /\ [Name(x) EXCEPT !.value = z] = Name(z)
      BY DEF Name
    <3> QED BY <3>1, <3>2
  <2>4. AddCharacter(a, TRUE, c) = [a EXCEPT ![Len(a)] = [a[Len(a)] EXCEPT !.value = Append(a[Len(a)].value, c)]]
    BY Zenon DEF AddCharacter
  <2> QED BY <2>1, <2>2, <2>3, <2>4
<1>9. d.words = Append(s, Name(x)) /\ d.inName = TRUE
  BY <1>6 DEF Within
<1>10. AddCharacter(d.words, d.inName, code[d.at]) = Append(s, Name(SubSeq(v, 1, m + 1)))
  BY <1>3, <1>5, <1>6, <1>8, <1>9
<1>11. d.at + 1 = first + 1 + Len(f[k - 1].out) + (m + 1)
  BY <1>0, <1>2 DEF Within
<1>12. DecodeToken(d, code) = Within(words, f, first, k, m + 1)
  <2> HIDE DEF d
  <2> QED BY <1>4, <1>10, <1>11 DEF Within
<1> QED BY <1>12

LEMMA LastCharacter ==
  ASSUME NEW words, NEW f, NEW code, NEW first, InCode(words, f, code, first),
         NEW k \in 1 .. Len(words), Raw(words, k)
  PROVE  Within(words, f, first, k, Len(words[k].value)) = ReadTo(words, f, first, k)
<1> DEFINE v == words[k].value
<1>1. /\ v \in Seq(Nat) /\ words[k] = Name(v) /\ words \in Seq(Words)
      /\ Len(f[k].out) = Len(f[k - 1].out) + Len(v)
      /\ Len(f[k - 1].out) \in Nat /\ Len(v) \in Nat /\ first \in Nat
  <2>1. v \in Seq(Nat) /\ words[k] = Name(v) /\ Len(v) \in Nat
    BY RawIs
  <2>2. Len(f[k].out) = Len(f[k - 1].out) + Len(v)
    BY RawIs, ZenonT(60)
  <2>3. Len(f[k - 1].out) \in Nat
    BY WordInCode
  <2>4. words \in Seq(Words) /\ first \in Nat
    BY DEF InCode, KeptLine
  <2> QED BY <2>1, <2>2, <2>3, <2>4
<1>2. SubSeq(v, 1, Len(v)) = v
  BY <1>1, SubSeqFull
<1>3. SubSeq(words, 1, k) = Append(SubSeq(words, 1, k - 1), Name(v))
  BY <1>1, NextOfFirst
<1>4. first + 1 + Len(f[k].out) = first + 1 + Len(f[k - 1].out) + Len(v)
  <2>1. PICK x \in Nat, y \in Nat, p \in Nat : x = Len(f[k - 1].out) /\ y = Len(v) /\ p = first
    BY <1>1
  <2>2. p + 1 + (x + y) = p + 1 + x + y
    OBVIOUS
  <2> QED BY <1>1, <2>1, <2>2
<1>5. Raw(words, k) = TRUE
  BY DEF Raw
<1> QED BY <1>2, <1>3, <1>4, <1>5 DEF Within, ReadTo

(* All that the decoder goes through. *)
DecoderPlaces(words, f, first) ==
  {ReadTo(words, f, first, k) : k \in 0 .. Len(words)}
  \cup UNION {{Within(words, f, first, k, m) : m \in 1 .. Len(words[k].value)} :
                k \in {i \in 1 .. Len(words) : Raw(words, i)}}

EndOf(words, f, first) == first + 1 + Len(f[Len(words)].out)

(* It goes on to another of them, until the words are read. *)
GoesOn(words, f, code, first, d) ==
  /\ d.at \in Nat
  /\ d.at < EndOf(words, f, first) =>
       /\ DecodeToken(d, code) \in DecoderPlaces(words, f, first)
       /\ DecodeToken(d, code).at > d.at
  /\ d.at >= EndOf(words, f, first) => d.words = words

LEMMA WithinIsPlace ==
  ASSUME NEW words, NEW f, NEW first, NEW k \in 1 .. Len(words), Raw(words, k),
         NEW m \in 1 .. Len(words[k].value)
  PROVE  Within(words, f, first, k, m) \in DecoderPlaces(words, f, first)
<1>1. k \in {i \in 1 .. Len(words) : Raw(words, i)}
  OBVIOUS
<1>2. Within(words, f, first, k, m) \in {Within(words, f, first, k, j) : j \in 1 .. Len(words[k].value)}
  OBVIOUS
<1> QED BY ONLY <1>1, <1>2, Zenon DEF DecoderPlaces

LEMMA PlaceTyped ==
  ASSUME NEW words, NEW f, NEW code, NEW first, InCode(words, f, code, first),
         NEW k \in 0 .. Len(words)
  PROVE  Len(words) \in Nat /\ Len(f[k].out) \in Nat /\ first \in Nat
<1>1. words \in Seq(Words) /\ IsTokenised(words, f) /\ first \in Nat
  BY DEF InCode, KeptLine
<1>2. f[k] \in Tokeniser
  BY <1>1 DEF IsTokenised
<1>3. f[k].out \in Seq(Nat)
  BY <1>2 DEF Tokeniser
<1> QED BY <1>1, <1>3, LenProperties

LEMMA ReadGoesOn ==
  ASSUME NEW words, NEW f, NEW code, NEW first, InCode(words, f, code, first),
         NEW k \in 0 .. Len(words)
  PROVE  GoesOn(words, f, code, first, ReadTo(words, f, first, k))
<1> DEFINE d == ReadTo(words, f, first, k)
<1>0. PICK n \in Nat, x \in Nat, p \in Nat : n = Len(words) /\ x = Len(f[k].out) /\ p = first /\ k \in 0 .. n
  BY PlaceTyped
<1>1. d.at = p + 1 + x
  BY <1>0 DEF ReadTo
<1>2. CASE k = n
  <2>1. d.words = words
    <3>1. words \in Seq(Words)
      BY DEF InCode, KeptLine
    <3> QED BY <1>0, <1>2, <3>1, SubSeqFull DEF ReadTo
  <2>2. EndOf(words, f, first) = p + 1 + x
    BY <1>0, <1>2 DEF EndOf
  <2>3. ~(p + 1 + x < p + 1 + x) /\ p + 1 + x \in Nat
    OBVIOUS
  <2> HIDE DEF d
  <2>4. GoesOn(words, f, code, first, d)
    BY <1>1, <2>1, <2>2, <2>3 DEF GoesOn
  <2> QED BY <2>4 DEF d
<1>3. CASE k # n
  <2>1. PICK k1 \in 1 .. n : k1 = k + 1 /\ k = k1 - 1 /\ k1 \in 0 .. n
    BY <1>0, <1>3
  <2>2. PICK y \in Nat, z \in Nat : y = Len(f[k1].out) /\ z = Len(f[n].out)
    BY <1>0, <2>1, PlaceTyped
  <2>3. y <= z
    BY <1>0, <2>1, <2>2, WordInCode
  <2>4. EndOf(words, f, first) = p + 1 + z
    BY <1>0, <2>2 DEF EndOf
  <2>5. DecodeToken(d, code) \in DecoderPlaces(words, f, first) /\ DecodeToken(d, code).at > d.at /\ x < y
    <3>1. CASE ~Raw(words, k1)
      <4>1. DecodeToken(d, code) = ReadTo(words, f, first, k1) /\ y > x
        BY <1>0, <2>1, <2>2, <3>1, NextPlace
      <4>2. DecodeToken(d, code) \in DecoderPlaces(words, f, first)
        BY <1>0, <2>1, <4>1, Zenon DEF DecoderPlaces
      <4>3. ReadTo(words, f, first, k1).at = p + 1 + y
        BY <1>0, <2>2 DEF ReadTo
      <4>4. p + 1 + y > p + 1 + x /\ x < y
        BY <4>1
      <4> HIDE DEF d
      <4> QED BY <1>1, <4>1, <4>2, <4>3, <4>4
    <3>2. CASE Raw(words, k1)
      <4>1. DecodeToken(d, code) = Within(words, f, first, k1, 1)
        BY <1>0, <2>1, <3>2, FirstCharacter
      <4>2. Len(words[k1].value) \in Nat \ {0}
        BY <1>0, <3>2, RawIs
      <4>22. y = x + Len(words[k1].value)
        <5>1. Len(f[k1].out) = Len(f[k1 - 1].out) + Len(words[k1].value)
          BY <1>0, <3>2, RawIs, ZenonT(60)
        <5> QED BY <1>0, <2>1, <2>2, <5>1
      <4>3. DecodeToken(d, code) \in DecoderPlaces(words, f, first)
        <5>1. 1 \in 1 .. Len(words[k1].value)
          BY <4>2
        <5> HIDE DEF d
        <5> QED BY <1>0, <3>2, <4>1, <5>1, WithinIsPlace
      <4>4. Within(words, f, first, k1, 1).at = p + 1 + x + 1
        BY <1>0, <2>1 DEF Within
      <4>5. p + 1 + x + 1 > p + 1 + x /\ x < y
        BY <4>2, <4>22
      <4> HIDE DEF d
      <4> QED BY <1>1, <4>1, <4>3, <4>4, <4>5
    <3> QED BY <3>1, <3>2
  <2>6. p + 1 + x \in Nat /\ ~(p + 1 + x >= p + 1 + z)
    BY <2>3, <2>5
  <2> HIDE DEF d
  <2>7. GoesOn(words, f, code, first, d)
    BY <1>1, <2>4, <2>5, <2>6 DEF GoesOn
  <2> QED BY <2>7 DEF d
<1> QED BY <1>2, <1>3

LEMMA NameGoesOn ==
  ASSUME NEW words, NEW f, NEW code, NEW first, InCode(words, f, code, first),
         NEW k \in 1 .. Len(words), Raw(words, k), NEW m \in 1 .. Len(words[k].value)
  PROVE  GoesOn(words, f, code, first, Within(words, f, first, k, m))
<1> DEFINE d == Within(words, f, first, k, m)
<1>0. PICK n \in Nat, l \in Nat : n = Len(words) /\ l = Len(words[k].value) /\ k \in 1 .. n /\ m \in 1 .. l
  BY RawIs DEF InCode, KeptLine
<1>00. k \in 0 .. n /\ k - 1 \in 0 .. n /\ n \in 0 .. n
  BY <1>0
<1>1. CASE m = l
  <2>1. d = ReadTo(words, f, first, k)
    BY <1>0, <1>1, LastCharacter
  <2>2. GoesOn(words, f, code, first, ReadTo(words, f, first, k))
    BY <1>0, <1>00, ReadGoesOn
  <2> QED BY <2>1, <2>2
<1>2. CASE m # l
  <2>1. m \in 1 .. l - 1 /\ m + 1 \in 1 .. l /\ m \in Nat
    BY <1>0, <1>2
  <2>2. DecodeToken(d, code) = Within(words, f, first, k, m + 1)
    BY <1>0, <2>1, NextCharacter
  <2>3. PICK x \in Nat, y \in Nat, z \in Nat, p \in Nat :
          x = Len(f[k - 1].out) /\ y = Len(f[k].out) /\ z = Len(f[n].out) /\ p = first
    BY <1>0, <1>00, PlaceTyped
  <2>4. y <= z
    BY <1>0, <2>3, WordInCode
  <2>5. y = x + l
    BY <1>0, <2>3, RawIs, ZenonT(60)
  <2>6. EndOf(words, f, first) = p + 1 + z
    BY <1>0, <2>3 DEF EndOf
  <2>7. d.at = p + 1 + x + m
    BY <2>3 DEF Within
  <2>8. DecodeToken(d, code).at = p + 1 + x + (m + 1)
    <3> HIDE DEF d
    <3> QED BY <2>2, <2>3 DEF Within
  <2>9. DecodeToken(d, code) \in DecoderPlaces(words, f, first)
    <3> HIDE DEF d
    <3> QED BY <1>0, <2>1, <2>2, WithinIsPlace
  <2>10. /\ p + 1 + x + m \in Nat /\ ~(p + 1 + x + m >= p + 1 + z)
         /\ p + 1 + x + (m + 1) > p + 1 + x + m
    BY <2>1, <2>4, <2>5
  <2> HIDE DEF d
  <2>11. GoesOn(words, f, code, first, d)
    BY <2>6, <2>7, <2>8, <2>9, <2>10 DEF GoesOn
  <2> QED BY <2>11 DEF d
<1> QED BY <1>1, <1>2

LEMMA PlacesGoOn ==
  ASSUME NEW words, NEW f, NEW code, NEW first, InCode(words, f, code, first),
         NEW d \in DecoderPlaces(words, f, first)
  PROVE  GoesOn(words, f, code, first, d)
<1>1. ASSUME NEW k \in 0 .. Len(words), d = ReadTo(words, f, first, k)
      PROVE  GoesOn(words, f, code, first, d)
  BY <1>1, ReadGoesOn
<1>2. ASSUME NEW k \in 1 .. Len(words), Raw(words, k), NEW m \in 1 .. Len(words[k].value),
             d = Within(words, f, first, k, m)
      PROVE  GoesOn(words, f, code, first, d)
  BY <1>2, NameGoesOn
<1> QED BY <1>1, <1>2, Zenon DEF DecoderPlaces

(* The whole line is read. *)
LEMMA LineDecoded ==
  ASSUME NEW words, NEW f, NEW code, NEW first, InCode(words, f, code, first),
         code[first] = Len(f[Len(words)].out) + 1
  PROVE  DecodeLine(code, first) = words
<1> DEFINE D == DecoderPlaces(words, f, first)
           b == ReadTo(words, f, first, 0)
           Goes(d) == IF d.at >= first + code[first] THEN d ELSE DecodeToken(d, code)
           F == [k \in 1 .. code[first] |-> [d \in D |-> Goes(d)]]
<1>0. PICK z \in Nat, p \in Nat, n \in Nat : z = Len(f[Len(words)].out) /\ p = first /\ n = z + 1 /\ n = code[first]
  <2>1. Len(words) \in 0 .. Len(words)
    BY LenProperties DEF InCode, KeptLine
  <2>2. Len(f[Len(words)].out) \in Nat /\ first \in Nat
    BY <2>1, PlaceTyped
  <2> QED BY <2>2
<1>1. first + code[first] = EndOf(words, f, first) /\ EndOf(words, f, first) = p + n
  <2>0. n = z + 1
    BY <1>0
  <2>1. p + 1 + z = p + n
    BY ONLY <2>0, p \in Nat, z \in Nat
  <2> QED BY <1>0, <2>1 DEF EndOf
<1>2. b \in D
  <2>1. 0 \in 0 .. Len(words)
    BY LenProperties DEF InCode, KeptLine
  <2> QED BY <2>1, Zenon DEF DecoderPlaces
<1>3. ASSUME NEW d \in D
      PROVE  /\ Goes(d) \in D /\ d.at \in Nat
             /\ d.at >= p + n => d.words = words /\ Goes(d) = d
             /\ d.at < p + n => Goes(d).at > d.at
  <2>1. GoesOn(words, f, code, first, d)
    BY PlacesGoOn
  <2>2. d.at \in Nat
    BY <2>1 DEF GoesOn
  <2>3. CASE d.at >= p + n
    BY <1>1, <2>1, <2>2, <2>3 DEF GoesOn
  <2>4. CASE d.at < p + n
    <3>1. ~(d.at >= p + n)
      BY <2>2, <2>4
    <3>2. Goes(d) = DecodeToken(d, code)
      BY <1>1, <3>1
    <3>3. DecodeToken(d, code) \in D /\ DecodeToken(d, code).at > d.at
      BY <1>1, <2>1, <2>4 DEF GoesOn
    <3> HIDE DEF Goes, D
    <3> QED BY <2>2, <2>4, <3>1, <3>2, <3>3
  <2> QED BY <2>2, <2>3, <2>4
<1>4. b.at = p + 1
  <2>1. f[0] = Begun
    BY DEF InCode, IsTokenised
  <2> QED BY <1>0, <2>1, BegunIsTokeniser DEF ReadTo
<1>5. b = [at |-> first + 1, inName |-> FALSE, words |-> <<>>]
  <2>1. f[0] = Begun
    BY DEF InCode, IsTokenised
  <2>2. first + 1 + Len(f[0].out) = first + 1
    BY <1>0, <2>1, BegunIsTokeniser
  <2>3. Raw(words, 0) = FALSE
    BY DEF Raw
  <2>4. SubSeq(words, 1, 0) = <<>>
    <3>1. 1 \in Int /\ 0 \in Int /\ 0 < 1
      OBVIOUS
    <3> QED BY <3>1, SubSeqEmpty
  <2> QED BY <2>2, <2>3, <2>4 DEF ReadTo
<1> HIDE DEF D, b
<1>6. F \in [1 .. n -> [D -> D]]
  BY <1>0, <1>3
<1> DEFINE Folds(it) == it = [s \in SUBSET (1 .. n) |-> IF s = {} THEN b ELSE Goes(it[s \ {Max(s)}])]
<1>7. DecodeLine(code, first) = (CHOOSE it : Folds(it))[1 .. n].words
  <2>1. DecodeLine(code, first) =
        (CHOOSE it : it = [s \in SUBSET DOMAIN [i \in 1 .. code[first] |-> i] |->
           IF s = {} THEN b ELSE Goes(it[s \ {Max(s)}])])[DOMAIN [i \in 1 .. code[first] |-> i]].words
    BY <1>5, Zenon DEF DecodeLine, FoldLeft, MapThenFoldSet
  <2>2. DOMAIN [i \in 1 .. code[first] |-> i] = 1 .. n
    BY <1>0
  <2> HIDE DEF Goes
  <2> QED BY <2>1, <2>2, Zenon
<1>8. \A s \in SUBSET (1 .. n) : s # {} => Max(s) \in 1 .. n
  BY MaxIsLargest
<1>9. \A k \in 1 .. n : \A d \in D : F[k][d] = Goes(d)
  <2> HIDE DEF Goes
  <2> QED BY <1>0
<1> HIDE DEF F, Goes
<1>10. \E it : Folds(it)
  <2>1. PICK it \in [SUBSET (1 .. n) -> D] : IsFold(it, n, b, F)
    BY <1>2, <1>6, FoldExists
  <2>2. ASSUME NEW s \in SUBSET (1 .. n), s # {} PROVE it[s] = Goes(it[s \ {Max(s)}])
    <3>1. it[s] = F[Max(s)][it[s \ {Max(s)}]] /\ Max(s) \in 1 .. n
      BY <1>8, <2>1, <2>2 DEF IsFold
    <3>2. s \ {Max(s)} \in SUBSET (1 .. n)
      OBVIOUS
    <3> QED BY <1>9, <3>1, <3>2
  <2>3. it[{}] = b
    BY <2>1 DEF IsFold
  <2>4. Folds(it)
    BY <2>2, <2>3
  <2> QED BY <2>4
<1>11. PICK it : Folds(it) /\ DecodeLine(code, first) = it[1 .. n].words
  <2> HIDE DEF Folds
  <2> QED BY <1>7, <1>10
<1>12. \A s \in SUBSET (1 .. n) : s # {} /\ it[s \ {Max(s)}] \in D => it[s] = F[Max(s)][it[s \ {Max(s)}]]
  BY <1>8, <1>9, <1>11
<1>13. it[{}] = b
  BY <1>11
<1> HIDE DEF Folds
<1>14. FoldsWithin(D, n, b, F, it)
  BY <1>2, <1>6, <1>12, <1>13 DEF FoldsWithin
<1>15. PICK g : Partial(g, D, n, b, F, it)
  BY <1>14, PartialExists
<1>16. g \in [0 .. n -> D] /\ g[0] = b /\ g[n] = it[1 .. n] /\ \A k \in 1 .. n : g[k] = F[k][g[k - 1]]
  BY <1>15 DEF Partial
<1> DEFINE S == {m \in 0 .. n : g[m].at >= p + n \/ g[m].at >= p + 1 + m}
<1>17. 0 \in S
  BY <1>4, <1>16
<1>18. ASSUME NEW m \in 0 .. n - 1, m \in S PROVE m + 1 \in S
  <2>1. PICK k \in 1 .. n : k = m + 1 /\ k - 1 = m /\ k \in 0 .. n /\ m \in 0 .. n
    OBVIOUS
  <2>2. PICK d \in D : d = g[m] /\ g[k] = Goes(d)
    BY <1>9, <1>16, <2>1
  <2>3. d.at \in Nat /\ (d.at >= p + n => Goes(d) = d) /\ (d.at < p + n => Goes(d).at > d.at)
    BY <1>3
  <2>4. Goes(d).at \in Nat
    BY <1>3
  <2>5. d.at >= p + n \/ d.at >= p + 1 + m
    BY <1>18, <2>2
  <2>6. Goes(d).at >= p + n \/ Goes(d).at >= p + 1 + (m + 1)
    <3>1. PICK x \in Nat, y \in Nat : x = d.at /\ y = Goes(d).at
      BY <2>3, <2>4
    <3>2. CASE x >= p + n
      BY <2>3, <3>1, <3>2
    <3>3. CASE x < p + n
      <4>1. y > x /\ x >= p + 1 + m
        BY <2>3, <2>5, <3>1, <3>3
      <4>2. y >= p + 1 + (m + 1)
        BY <4>1
      <4> QED BY <3>1, <4>2
    <3> QED BY <3>2, <3>3
  <2> QED BY <2>1, <2>2, <2>6
<1>19. \A m \in 0 .. n : m \in S
  <2> HIDE DEF S
  <2> QED BY <1>17, <1>18, BoundedInduction
<1>20. g[n].at >= p + n /\ g[n] \in D
  <2>1. n \in 0 .. n
    OBVIOUS
  <2>2. g[n] \in D /\ g[n].at \in Nat
    BY <1>3, <1>16, <2>1
  <2>3. g[n].at >= p + n \/ g[n].at >= p + 1 + n
    BY <1>19, <2>1
  <2> QED BY <2>2, <2>3
<1>21. g[n].words = words
  BY <1>3, <1>20
<1> QED BY <1>11, <1>16, <1>21

-----------------------------------------------------------------------------
(* Tokenised programs: the lines                                            *)

LEMMA AppendedFacts ==
  ASSUME NEW s \in Seq(Nat), NEW x \in Nat
  PROVE  /\ Append(s, x) \in Seq(Nat) /\ Len(Append(s, x)) = Len(s) + 1 /\ Len(s) \in Nat
         /\ \A i \in 1 .. Len(s) : Append(s, x)[i] = s[i]
  BY AppendProperties, LenProperties

(* A line is its length, the bytes of its words and a 0. *)
IsLine(s, out) ==
  /\ s \in Seq(Nat) /\ Len(out) \in Nat
  /\ Len(s) = Len(out) + 2 /\ s[1] = Len(out) + 1
  /\ \A j \in 1 .. Len(out) : s[j + 1] = out[j]

LEMMA LineBytes ==
  ASSUME NEW words, KeptLine(words)
  PROVE  \E f : IsTokenised(words, f) /\ IsLine(ProcessLine(words), f[Len(words)].out)
<1>1. words \in Seq(Words) /\ Len(words) \in Nat
  BY LenProperties DEF KeptLine
<1>2. PICK f : IsTokenised(words, f) /\ Tokenised(words) = f[Len(words)]
  BY <1>1, TokenSteps
<1>3. f[Len(words)] \in Tokeniser
  <2>1. Len(words) \in 0 .. Len(words)
    BY <1>1
  <2> QED BY <1>2, <2>1 DEF IsTokenised
<1>4. PICK out \in Seq(Nat) : out = f[Len(words)].out
  BY <1>3 DEF Tokeniser
<1>5. PICK bytes \in Seq(Nat), l \in Nat :
        /\ bytes = Append(out, 0) /\ l = Len(out)
        /\ Len(bytes) = l + 1 /\ \A i \in 1 .. l : bytes[i] = out[i]
  BY AppendedFacts
<1>6. ProcessLine(words) = <<(l + 1) % ByteValues>> \o bytes
  BY <1>2, <1>4, <1>5, Zenon DEF ProcessLine, Tokenised
<1>7. ByteValues = 256 /\ Len(ProcessLine(words)) <= 256
  BY BasicAssumption DEF KeptLine
<1>8. PICK c \in Nat : c = (l + 1) % ByteValues
  BY <1>7
<1>9. <<c>> \in Seq(Nat) /\ Len(<<c>>) = 1 /\ <<c>>[1] = c
  OBVIOUS
<1>10. PICK s \in Seq(Nat) : s = <<c>> /\ Len(s) = 1 /\ s[1] = c
  BY <1>9
<1>11. PICK r : r = s \o bytes
  OBVIOUS
<1>12. Joined(r, s, bytes) /\ r \in Seq(Nat)
  BY <1>11, JoinedAre, JoinedFacts
<1>13. /\ Len(r) = 1 + (l + 1) /\ \A i \in 1 .. 1 : r[i] = s[i]
       /\ \A i \in 1 .. l + 1 : r[1 + i] = bytes[i]
  BY <1>5, <1>10, <1>12 DEF Joined
<1>14. ProcessLine(words) = r
  BY <1>6, <1>8, <1>10, <1>11
<1>15. l + 1 < 256 /\ c = l + 1
  <2>1. l + 2 <= 256
    BY <1>7, <1>13, <1>14
  <2> QED BY <1>7, <1>8, <2>1
<1>16. r[1] = l + 1
  <2>1. 1 \in 1 .. 1
    OBVIOUS
  <2> QED BY <1>10, <1>13, <1>15, <2>1
<1>17. ASSUME NEW j \in 1 .. l PROVE r[j + 1] = out[j]
  <2>1. j \in 1 .. l + 1 /\ 1 + j = j + 1
    OBVIOUS
  <2> QED BY <1>5, <1>13, <2>1
<1>18. IsLine(r, out)
  BY <1>5, <1>12, <1>13, <1>16, <1>17 DEF IsLine
<1> QED BY <1>2, <1>4, <1>14, <1>18

(* h[k] is the first k of the pieces, one behind the other. *)
RunningCode(n, h, t) == h[0] = <<>> /\ Pieces(n, h, t)

LEMMA RunningExists ==
  ASSUME NEW n \in Nat, NEW t, \A i \in 1 .. n : t[i] \in Seq(Nat)
  PROVE  \E h : RunningCode(n, h, t)
<1> DEFINE D == Seq(Nat)
           F == [k \in 1 .. n |-> [x \in D |-> x \o t[k]]]
<1>1. F \in [1 .. n -> [D -> D]]
  <2>1. ASSUME NEW k \in 1 .. n, NEW x \in D PROVE x \o t[k] \in D
    BY JoinedFacts
  <2> QED BY <2>1
<1>2. <<>> \in D
  OBVIOUS
<1>3. \A k \in 1 .. n : \A x \in D : F[k][x] = x \o t[k]
  OBVIOUS
<1> HIDE DEF F
<1>4. PICK it \in [SUBSET (1 .. n) -> D] : IsFold(it, n, <<>>, F)
  <2> HIDE DEF D
  <2> QED BY <1>1, <1>2, FoldExists
<1>5. FoldsWithin(D, n, <<>>, F, it)
  <2>1. it[{}] = <<>>
    BY <1>4 DEF IsFold
  <2>2. \A s \in SUBSET (1 .. n) : s # {} => it[s] = F[Max(s)][it[s \ {Max(s)}]]
    BY <1>4 DEF IsFold
  <2> HIDE DEF D
  <2> QED BY <1>1, <1>2, <2>1, <2>2 DEF FoldsWithin
<1>6. PICK h : Partial(h, D, n, <<>>, F, it)
  <2> HIDE DEF D
  <2> QED BY <1>5, PartialExists
<1>7. h \in [0 .. n -> D] /\ h[0] = <<>> /\ \A k \in 1 .. n : h[k] = F[k][h[k - 1]]
  BY <1>6 DEF Partial
<1>8. ASSUME NEW k \in 1 .. n PROVE h[k] = h[k - 1] \o t[k]
  <2>1. k - 1 \in 0 .. n
    OBVIOUS
  <2>2. h[k - 1] \in D
    BY <1>7, <2>1
  <2> QED BY <1>3, <1>7, <2>2
<1> QED BY <1>7, <1>8 DEF RunningCode, Pieces

LEMMA Flattened ==
  ASSUME NEW n \in Nat, NEW h, NEW t, RunningCode(n, h, t), NEW k \in 0 .. n
  PROVE  FlattenSeq([j \in 1 .. k |-> t[j]]) = h[k]
<1> DEFINE seqs == [j \in 1 .. k |-> t[j]]
<1>0. /\ h[0] = <<>> /\ \A i \in 0 .. n : h[i] \in Seq(Nat)
      /\ \A i \in 1 .. n : t[i] \in Seq(Nat) /\ h[i] = h[i - 1] \o t[i]
  BY DEF RunningCode, Pieces
<1>1. Len(seqs) = k /\ seqs \in Seq(Seq(Nat)) /\ \A j \in 1 .. k : seqs[j] = t[j]
  <2>1. k \in Nat /\ \A j \in 1 .. k : t[j] \in Seq(Nat)
    <3>1. k \in Nat /\ \A j \in 1 .. k : j \in 1 .. n
      OBVIOUS
    <3>2. \A i \in 1 .. n : t[i] \in Seq(Nat)
      BY <1>0
    <3> QED BY ONLY <3>1, <3>2
  <2> DEFINE S == Seq(Nat)
  <2>2. \A j \in 1 .. k : t[j] \in S
    BY <2>1
  <2> HIDE DEF S
  <2>3. seqs \in Seq(S) /\ Len(seqs) = k
    BY <2>1, <2>2
  <2> QED BY <2>3 DEF S
<1> HIDE DEF seqs
<1>2. CASE k = 0
  <2>1. seqs = <<>>
    BY <1>1, <1>2, EmptySeq
  <2> QED BY <1>0, <1>1, <1>2, <2>1 DEF FlattenSeq, seqs
<1>3. CASE k # 0
  <2> DEFINE Is(fl) == fl = [i \in 1 .. k |-> IF i = 1 THEN seqs[i] ELSE fl[i - 1] \o seqs[i]]
  <2>1. FlattenSeq(seqs) = (CHOOSE fl : Is(fl))[k]
    <3>1. Len(seqs) # 0
      BY <1>1, <1>3
    <3>2. FlattenSeq(seqs) = (CHOOSE fl : fl = [i \in 1 .. Len(seqs) |->
             IF i = 1 THEN seqs[i] ELSE fl[i - 1] \o seqs[i]])[Len(seqs)]
      BY <3>1, Zenon DEF FlattenSeq
    <3> QED BY <1>1, <3>2, Zenon
  <2>2. h[1] = t[1]
    <3>1. 1 \in 1 .. n /\ 1 - 1 = 0
      BY <1>3
    <3>2. h[1] = <<>> \o t[1] /\ t[1] \in Seq(Nat)
      BY <1>0, <3>1
    <3> QED BY <3>2
  <2>3. \E fl : Is(fl)
    <3> DEFINE g == [i \in 1 .. k |-> h[i]]
    <3>1. ASSUME NEW i \in 1 .. k PROVE g[i] = IF i = 1 THEN seqs[i] ELSE g[i - 1] \o seqs[i]
      <4>1. CASE i = 1
        BY <1>1, <2>2, <4>1
      <4>2. CASE i # 1
        <5>1. i - 1 \in 1 .. k /\ i \in 1 .. n
          BY <4>2
        <5> QED BY <1>0, <1>1, <4>2, <5>1
      <4> QED BY <4>1, <4>2
    <3>2. g = [i \in 1 .. k |-> g[i]]
      OBVIOUS
    <3>3. Is(g)
      <4> HIDE DEF g
      <4> QED BY <3>1, <3>2
    <3> QED BY <3>3
  <2>4. PICK fl : Is(fl) /\ FlattenSeq(seqs) = fl[k]
    <3> HIDE DEF Is
    <3> QED BY <2>1, <2>3
  <2>5. \A i \in 1 .. k : fl[i] = IF i = 1 THEN seqs[i] ELSE fl[i - 1] \o seqs[i]
    BY <2>4
  <2> HIDE DEF Is
  <2> DEFINE S == {i \in 0 .. k : i = 0 \/ fl[i] = h[i]}
  <2>6. 0 \in S
    OBVIOUS
  <2>7. ASSUME NEW i \in 0 .. k - 1, i \in S PROVE i + 1 \in S
    <3>1. PICK j \in 1 .. k : j = i + 1 /\ j - 1 = i /\ j \in 0 .. k /\ j \in 1 .. n
      OBVIOUS
    <3>2. CASE i = 0
      <4>1. j = 1 /\ fl[j] = seqs[j]
        BY <2>5, <3>1, <3>2
      <4> QED BY <1>1, <2>2, <3>1, <4>1
    <3>3. CASE i # 0
      <4>1. j # 1 /\ fl[j] = fl[i] \o seqs[j] /\ fl[i] = h[i]
        <5>1. j # 1
          BY <3>1, <3>3
        <5>2. fl[j] = fl[j - 1] \o seqs[j]
          BY <2>5, <5>1
        <5> QED BY <2>7, <3>1, <3>3, <5>1, <5>2
      <4>2. h[j] = h[i] \o t[j]
        BY <1>0, <3>1
      <4> QED BY <1>1, <3>1, <4>1, <4>2
    <3> QED BY <3>2, <3>3
  <2>8. k \in S
    <3> HIDE DEF S
    <3>1. \A i \in 0 .. k : i \in S
      BY <2>6, <2>7, BoundedInduction
    <3> QED BY <3>1
  <2> QED BY <1>3, <2>4, <2>8 DEF seqs
<1> QED BY <1>2, <1>3

ProgramLines == [number : Numbers, words : Bodies]

LEMMA BodiesKept == ASSUME NEW words \in Bodies PROVE KeptLine(words)
  BY BasicAssumption DEF KeptLine, Words

(* h[k] is the code of the first k lines. *)
IsCode(h, lines) == RunningCode(Len(lines), h, [j \in 1 .. Len(lines) |-> ProcessLine(lines[j].words)])

LEMMA CodeExists ==
  ASSUME NEW lines \in Seq(ProgramLines) PROVE \E h : IsCode(h, lines)
<1> DEFINE t == [j \in 1 .. Len(lines) |-> ProcessLine(lines[j].words)]
<1>0. Len(lines) \in Nat /\ \A i \in 1 .. Len(lines) : lines[i] \in ProgramLines
  BY LenProperties
<1>1. ASSUME NEW i \in 1 .. Len(lines) PROVE t[i] \in Seq(Nat)
  <2>1. KeptLine(lines[i].words)
    BY <1>0, BodiesKept DEF ProgramLines
  <2>2. ProcessLine(lines[i].words) \in Seq(Nat)
    BY <2>1, LineBytes DEF IsLine
  <2> QED BY <2>2
<1> HIDE DEF t
<1>2. \E h : RunningCode(Len(lines), h, t)
  BY <1>0, <1>1, RunningExists
<1> QED BY <1>2 DEF IsCode, t

LEMMA CodeIs ==
  ASSUME NEW lines \in Seq(ProgramLines), NEW h, IsCode(h, lines), NEW k \in 0 .. Len(lines)
  PROVE  FlattenSeq([j \in 1 .. k |-> ProcessLine(lines[j].words)]) = h[k] /\ Len(h[k]) \in Nat
<1> DEFINE t == [j \in 1 .. Len(lines) |-> ProcessLine(lines[j].words)]
<1>0. PICK n \in Nat : n = Len(lines) /\ k \in 0 .. n
  BY LenProperties
<1>1. [j \in 1 .. k |-> ProcessLine(lines[j].words)] = [j \in 1 .. k |-> t[j]]
  <2>1. \A j \in 1 .. k : j \in 1 .. Len(lines)
    BY <1>0
  <2> QED BY <2>1
<1> HIDE DEF t
<1>2. RunningCode(n, h, t)
  BY <1>0 DEF IsCode, t
<1>3. FlattenSeq([j \in 1 .. k |-> t[j]]) = h[k]
  BY <1>0, <1>2, Flattened
<1>4. h[k] \in Seq(Nat)
  BY <1>0, <1>2 DEF RunningCode, Pieces
<1> QED BY <1>1, <1>3, <1>4, LenProperties

(* A line is decoded from its place. *)
LEMMA LineSurvives ==
  ASSUME NEW lines \in Seq(ProgramLines), NEW h, IsCode(h, lines), NEW j \in 1 .. Len(lines)
  PROVE  DecodeLine(h[Len(lines)], Len(h[j - 1]) + 1) = lines[j].words
<1> DEFINE t == [i \in 1 .. Len(lines) |-> ProcessLine(lines[i].words)]
           words == lines[j].words
<1>0. PICK n \in Nat : n = Len(lines) /\ j \in 1 .. n
  BY LenProperties
<1>1. RunningCode(n, h, t)
  BY <1>0 DEF IsCode
<1>2. t[j] = ProcessLine(words)
  BY <1>0
<1>3. KeptLine(words)
  <2>1. lines[j] \in ProgramLines
    BY LenProperties
  <2> QED BY <2>1, BodiesKept DEF ProgramLines
<1> HIDE DEF t, words
<1>4. InWhole(n, h, t, j) /\ h[n] \in Seq(Nat)
  <2>1. Pieces(n, h, t)
    BY <1>1 DEF RunningCode
  <2>2. n \in 0 .. n
    OBVIOUS
  <2>3. h[n] \in Seq(Nat)
    BY <2>1, <2>2 DEF Pieces
  <2> QED BY <1>0, <2>1, <2>3, PiecesInWhole
<1>5. PICK f : IsTokenised(words, f) /\ IsLine(ProcessLine(words), f[Len(words)].out)
  BY <1>3, LineBytes
<1>6. PICK l \in Nat, p \in Nat : l = Len(f[Len(words)].out) /\ p = Len(h[j - 1])
  BY <1>4, <1>5 DEF IsLine, InWhole
<1>7. /\ Len(t[j]) = l + 2 /\ t[j][1] = l + 1
      /\ \A i \in 1 .. l : t[j][i + 1] = f[Len(words)].out[i]
  BY <1>2, <1>5, <1>6 DEF IsLine
<1>8. \A i \in 1 .. l + 2 : h[n][p + i] = t[j][i]
  BY <1>4, <1>6, <1>7 DEF InWhole
<1>9. h[n][p + 1] = l + 1
  <2>1. 1 \in 1 .. l + 2
    OBVIOUS
  <2> QED BY <1>7, <1>8, <2>1
<1>10. ASSUME NEW i \in 1 .. l PROVE h[n][p + 1 + i] = f[Len(words)].out[i]
  <2>1. i + 1 \in 1 .. l + 2 /\ p + (i + 1) = p + 1 + i
    OBVIOUS
  <2> QED BY <1>7, <1>8, <2>1
<1>11. InCode(words, f, h[n], p + 1)
  BY <1>3, <1>4, <1>5, <1>6, <1>10, SMTT(40) DEF InCode
<1>12. DecodeLine(h[n], p + 1) = words
  BY <1>6, <1>9, <1>11, LineDecoded
<1> QED BY <1>0, <1>6, <1>12 DEF words

CodeOfFirst(lines, i) == FlattenSeq([j \in 1 .. i |-> ProcessLine(lines[j].words)])

(* A program comes back from its tokenised form. *)
LEMMA ProgramSurvives ==
  ASSUME NEW lines \in Seq(ProgramLines)
  PROVE  DecodeBasicProgram(EncodeBasicProgram(lines)) = lines
<1> DEFINE file == EncodeBasicProgram(lines)
<1>0. PICK n \in Nat, top \in Nat :
        n = Len(lines) /\ top = ProgramTop /\ DOMAIN lines = 1 .. n /\ \A j \in 1 .. n : lines[j] \in ProgramLines
  BY BasicAssumption, LenProperties
<1>1. PICK h : IsCode(h, lines)
  BY CodeExists
<1>2. \A k \in 0 .. n : CodeOfFirst(lines, k) = h[k] /\ Len(h[k]) \in Nat
  BY <1>0, <1>1, CodeIs DEF CodeOfFirst
<1>3a. file.programTop = ProgramTop
  BY Zenon DEF EncodeBasicProgram, CodeOfFirst
<1>3b. file.lineNumbersTop = ProgramTop - Len(CodeOfFirst(lines, Len(lines)))
  BY Zenon DEF EncodeBasicProgram, CodeOfFirst
<1>3c. file.lineNumbersBottom = ProgramTop - Len(CodeOfFirst(lines, Len(lines))) - 4 * Len(lines) + 1
  BY Zenon DEF EncodeBasicProgram, CodeOfFirst
<1>3d. file.code = CodeOfFirst(lines, Len(lines))
  BY Zenon DEF EncodeBasicProgram, CodeOfFirst
<1>3e. ASSUME NEW i \in 1 .. Len(lines)
       PROVE  /\ file.table[i].line = lines[Len(lines) + 1 - i].number
              /\ file.table[i].address
                   = ProgramTop - Len(CodeOfFirst(lines, Len(lines))) + Len(CodeOfFirst(lines, (Len(lines) + 1 - i) - 1)) + 1 + 1
  <2>1. file.table[i].line = lines[Len(lines) + 1 - i].number
    BY Zenon DEF EncodeBasicProgram, CodeOfFirst
  <2>2. file.table[i].address = ProgramTop - Len(CodeOfFirst(lines, Len(lines))) + Len(CodeOfFirst(lines, (Len(lines) + 1 - i) - 1)) + 1 + 1
    BY Zenon DEF EncodeBasicProgram, CodeOfFirst
  <2> QED BY <2>1, <2>2
<1> HIDE DEF file
<1>3. /\ file.programTop = ProgramTop
      /\ file.lineNumbersTop = ProgramTop - Len(CodeOfFirst(lines, Len(lines)))
      /\ file.lineNumbersBottom = ProgramTop - Len(CodeOfFirst(lines, Len(lines))) - 4 * Len(lines) + 1
      /\ file.code = CodeOfFirst(lines, Len(lines))
  BY <1>3a, <1>3b, <1>3c, <1>3d
<1>4. PICK c \in Nat : c = Len(h[n]) /\ CodeOfFirst(lines, n) = h[n]
  <2>1. n \in 0 .. n
    OBVIOUS
  <2> QED BY <1>2, <2>1
<1>5. /\ file.programTop = top /\ file.lineNumbersTop = top - c
      /\ file.lineNumbersBottom = top - c - 4 * n + 1 /\ file.code = h[n]
  BY <1>0, <1>3, <1>4
<1>6. ASSUME NEW j \in 1 .. n
      PROVE  /\ file.table[n + 1 - j].line = lines[j].number
             /\ file.table[n + 1 - j].address - file.lineNumbersBottom - 1 - 4 * n + 1 = Len(h[j - 1]) + 1
  <2>1. PICK i \in 1 .. n : i = n + 1 - j /\ n + 1 - i = j
    OBVIOUS
  <2>2. j - 1 \in 0 .. n
    OBVIOUS
  <2>3. PICK x \in Nat : x = Len(h[j - 1]) /\ CodeOfFirst(lines, j - 1) = h[j - 1]
    BY <1>2, <2>2
  <2>4. file.table[i].line = lines[j].number /\ file.table[i].address = top - c + x + 1 + 1
    <3>1. i \in 1 .. Len(lines) /\ Len(lines) + 1 - i = j /\ Len(lines) = n
      BY <1>0, <2>1
    <3>2. /\ file.table[i].line = lines[Len(lines) + 1 - i].number
          /\ file.table[i].address
               = ProgramTop - Len(CodeOfFirst(lines, Len(lines))) + Len(CodeOfFirst(lines, (Len(lines) + 1 - i) - 1)) + 1 + 1
      BY <1>3e, <3>1
    <3>3. /\ file.table[i].line = lines[j].number
          /\ file.table[i].address = ProgramTop - Len(CodeOfFirst(lines, n)) + Len(CodeOfFirst(lines, j - 1)) + 1 + 1
      <4>1. CodeOfFirst(lines, Len(lines)) = CodeOfFirst(lines, n) /\ CodeOfFirst(lines, (Len(lines) + 1 - i) - 1) = CodeOfFirst(lines, j - 1) /\ lines[Len(lines) + 1 - i] = lines[j]
        BY ONLY <3>1
      <4> QED BY ONLY <3>2, <4>1, Zenon
    <3>4. ProgramTop = top /\ Len(CodeOfFirst(lines, n)) = c /\ Len(CodeOfFirst(lines, j - 1)) = x
      BY <1>0, <1>4, <2>3
    <3> QED BY ONLY <3>3, <3>4, Zenon
  <2>5. top - c + x + 1 + 1 - (top - c - 4 * n + 1) - 1 - 4 * n + 1 = x + 1
    OBVIOUS
  <2>6. PICK a : a = file.table[i].address /\ a = top - c + x + 1 + 1
    BY <2>4
  <2>7. PICK b : b = file.lineNumbersBottom /\ b = top - c - 4 * n + 1
    BY <1>5
  <2>8. a - b - 1 - 4 * n + 1 = x + 1
    BY <2>5, <2>6, <2>7
  <2> QED BY <2>1, <2>3, <2>4, <2>6, <2>7, <2>8, Zenon
<1>7. (file.lineNumbersTop - file.lineNumbersBottom + 1) \div 4 = n
  <2>1. top - c - (top - c - 4 * n + 1) + 1 = 4 * n
    OBVIOUS
  <2>2. (4 * n) \div 4 = n
    OBVIOUS
  <2> QED BY <1>5, <2>1, <2>2
<1>8. FileCheck(file) <=> n # 0
  <2>1. top - c >= top - c - 4 * n + 1 <=> n # 0
    OBVIOUS
  <2>2. top >= top - c
    OBVIOUS
  <2> QED BY <1>5, <2>1, <2>2 DEF FileCheck
<1>9. CASE n = 0
  <2>1. lines = <<>>
    BY <1>0, <1>9, EmptySeq
  <2>2. DecodeBasicProgram(file) = <<>>
    BY <1>8, <1>9, Zenon DEF DecodeBasicProgram
  <2> QED BY <2>1, <2>2 DEF file
<1>10. CASE n # 0
  <2>1. FileCheck(file)
    BY <1>8, <1>10
  <2>2. DecodeBasicProgram(file) =
          [j \in 1 .. n |->
             [number |-> file.table[n + 1 - j].line,
              words |-> DecodeLine(file.code,
                          file.table[n + 1 - j].address - file.lineNumbersBottom - 1 - 4 * n + 1)]]
    BY <1>7, <2>1, Zenon DEF DecodeBasicProgram
  <2>3. ASSUME NEW j \in 1 .. n
        PROVE  [number |-> file.table[n + 1 - j].line,
                words |-> DecodeLine(file.code,
                            file.table[n + 1 - j].address - file.lineNumbersBottom - 1 - 4 * n + 1)] = lines[j]
    <3>1. DecodeLine(h[n], Len(h[j - 1]) + 1) = lines[j].words
      BY <1>0, <1>1, LineSurvives
    <3>2. lines[j] = [number |-> lines[j].number, words |-> lines[j].words]
      BY <1>0 DEF ProgramLines
    <3> QED BY <1>5, <1>6, <3>1, <3>2
  <2>4. lines = [j \in 1 .. n |-> lines[j]]
    BY <1>0
  <2>5. DecodeBasicProgram(file) = [j \in 1 .. n |-> lines[j]]
    BY <2>2, <2>3
  <2> QED BY <2>4, <2>5 DEF file
<1> QED BY <1>9, <1>10

BasicSpec == BasicInit /\ [][BasicNext]_listing

(* Every program that is typed from lines whose tokens say all of their     *)
(* text comes back from the file that encodeBasicProgram makes of it        *)
(* (src/tibasic_encode.cc, src/tibasic_decode.cc), for any number of lines  *)
(* and of words on a line, wherever the top of memory is.                   *)
THEOREM ProgramsSurvive == BasicSpec => []BasicSurvives
<1>1. BasicInit => listing \in Seq(ProgramLines)
  BY DEF BasicInit
<1>2. listing \in Seq(ProgramLines) /\ [BasicNext]_listing => (listing \in Seq(ProgramLines))'
  <2> SUFFICES ASSUME listing \in Seq(ProgramLines), [BasicNext]_listing PROVE listing' \in Seq(ProgramLines)
    OBVIOUS
  <2>1. ASSUME NEW number \in Numbers, NEW words \in Bodies, AddProgramLine(number, words)
        PROVE  listing' \in Seq(ProgramLines)
    <3>1. PICK l \in ProgramLines : l = [number |-> number, words |-> words]
      BY DEF ProgramLines
    <3>2. listing' = Append(listing, l)
      BY <2>1, <3>1 DEF AddProgramLine
    <3> QED BY <3>2, AppendProperties
  <2>2. CASE NewProgram
    BY <2>2 DEF NewProgram
  <2> QED BY <2>1, <2>2 DEF BasicNext
<1>3. listing \in Seq(ProgramLines) => BasicSurvives
  BY ProgramSurvives DEF BasicSurvives
<1> QED BY <1>1, <1>2, <1>3, PTL DEF BasicSpec
=============================================================================
