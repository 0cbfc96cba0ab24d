---------------------------- MODULE SampleQueue ----------------------------
(***************************************************************************)
(* What a single-producer / single-consumer ring promises its two callers: *)
(* a bounded first-in first-out queue of samples.  A write appends a       *)
(* prefix of what was offered, a read hands out and removes a prefix of    *)
(* what is queued, a discard removes a prefix without handing it out, and  *)
(* a reset empties the queue.  Each takes effect at one instant, whatever  *)
(* the two threads are doing.                                              *)
(*                                                                         *)
(* SpscRingBuffer implements this specification.                           *)
(***************************************************************************)
EXTENDS Naturals, Sequences

CONSTANTS
  Capacity,   \* samples the queue can hold
  Sample,     \* the values a sample can take
  MaxCount    \* bound: the most samples one call offers

VARIABLES
  queue,      \* samples written and not yet read or discarded
  offered,    \* what the write in progress was called with
  delivered   \* what the last completed read handed to its caller

vars == <<queue, offered, delivered>>

Init ==
  /\ queue = <<>>
  /\ offered = <<>>
  /\ delivered = <<>>

\* write() is called with `batch`.
Offer(batch) ==
  /\ offered = <<>>
  /\ offered' = batch
  /\ UNCHANGED <<queue, delivered>>

\* write() takes the first n samples it was offered, which fit.
Put(n) ==
  /\ Len(queue) + n <= Capacity
  /\ queue' = queue \o SubSeq(offered, 1, n)
  /\ offered' = <<>>
  /\ UNCHANGED delivered

\* read() hands out the first n samples.
Take(n) ==
  /\ delivered' = SubSeq(queue, 1, n)
  /\ queue' = SubSeq(queue, n + 1, Len(queue))
  /\ UNCHANGED offered

\* discard() drops the first n samples.
Drop(n) ==
  /\ queue' = SubSeq(queue, n + 1, Len(queue))
  /\ UNCHANGED <<offered, delivered>>

Clear ==
  /\ offered = <<>>
  /\ queue' = <<>>
  /\ UNCHANGED <<offered, delivered>>

\* The batches a write may be called with.
Batches == UNION {[1..n -> Sample] : n \in 1..MaxCount}

Next ==
  \/ \E batch \in Batches : Offer(batch)
  \/ \E n \in 1..Len(offered) : Put(n)
  \/ \E n \in 1..Len(queue) : Take(n) \/ Drop(n)
  \/ Clear

Spec == Init /\ [][Next]_vars
=============================================================================
