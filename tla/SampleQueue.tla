---------------------------- MODULE SampleQueue ----------------------------
(* What the ring of auxiliary samples in src/sound.cc promises: one thread  *)
(* puts samples into a queue, another takes a batch of the oldest.          *)
EXTENDS Naturals, Sequences

CONSTANTS Samples, Batch

VARIABLE queue

QueueInit == queue = <<>>

Put == \E sample \in Samples : queue' = Append(queue, sample)

TakeBatch ==
  /\ Len(queue) >= Batch
  /\ queue' = SubSeq(queue, Batch + 1, Len(queue))

QueueSpec == QueueInit /\ [][Put \/ TakeBatch]_queue
=============================================================================
