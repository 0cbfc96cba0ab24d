---------------------------- MODULE CallbackProofs ----------------------------
(***************************************************************************)
(* What the audio callback shares with other threads, for every size and   *)
(* every set of values: the ring, the slot and the preview stage, each by  *)
(* itself with an inductive invariant of its own, and at the end the three *)
(* as one model.                                                           *)
(***************************************************************************)
EXTENDS MCCallback, SequenceTheorems, TLAPS

-----------------------------------------------------------------------------
(* The ring.                                                               *)
(*                                                                         *)
(* For every capacity, every set of samples and every batch size: the ring *)
(* keeps its types, the two views err on the safe side, the copy loops of  *)
(* the two threads never touch the same slot, and what the callers see is  *)
(* the bounded queue of SampleQueue.                                       *)
(*                                                                         *)
(* The argument is about distances between the four indices, never about   *)
(* the indices themselves.  Going round the doubled range from the         *)
(* producer's view of readIndex one meets                                  *)
(*     readSeen <= readIndex <= writeSeen <= writeIndex                    *)
(* within Capacity, which RingOrder says by adding distances.  A batch     *)
(* being copied was clamped against a view, and views only move forward.   *)
\* The four indices stand in this order round the range, within one capacity.
RingOrder ==
  /\ fillLevel(readIndex, readSeen) + fillLevel(writeIndex, readIndex)
       = fillLevel(writeIndex, readSeen)
  /\ fillLevel(writeSeen, readIndex) + fillLevel(writeIndex, writeSeen)
       = fillLevel(writeIndex, readIndex)
  /\ fillLevel(writeIndex, readSeen) <= Capacity

\* What the producer still has to copy fits in the space it saw.
ProducerFits ==
  /\ prod.pc = "idle" => prod.taken = 0
  /\ prod.pc = "copy" => /\ prod.copied <= prod.taken
                         /\ prod.taken <= Len(prod.data)
                         /\ prod.taken <= Capacity - fillLevel(writeIndex, readSeen)

\* What the consumer takes is in the ring.
ConsumerHolds ==
  /\ cons.pc = "idle" => cons.taken = 0
  /\ cons.pc # "idle" => /\ cons.copied <= cons.taken
                         /\ cons.taken <= fillLevel(writeSeen, readIndex)

\* The inductive invariant.
RingInv ==
  /\ TypeOK
  /\ RingOrder
  /\ ProducerFits
  /\ ConsumerHolds
-----------------------------------------------------------------------------
LEMMA FillLevelRange ==
  ASSUME NEW a \in Indices, NEW b \in Indices
  PROVE  fillLevel(a, b) \in 0..(2 * Capacity - 1)
BY CapacityAssumption DEF fillLevel, Indices, indexLimit

\* advance() stays in the doubled range.
LEMMA AdvanceRange ==
  ASSUME NEW a \in Indices, NEW n \in 0..Capacity
  PROVE  advance(a, n) \in Indices
BY CapacityAssumption DEF advance, Indices, indexLimit

\* Moving the leading index by n adds n to its distance from a trailing one,
\* as long as the result stays within the capacity.
LEMMA AdvanceLeader ==
  ASSUME NEW a \in Indices, NEW b \in Indices, NEW n \in 0..Capacity,
         fillLevel(a, b) + n <= Capacity
  PROVE  fillLevel(advance(a, n), b) = fillLevel(a, b) + n
BY CapacityAssumption DEF advance, fillLevel, Indices, indexLimit

\* Moving the trailing index by n, without passing the leading one, takes n
\* from the distance.
LEMMA AdvanceTrailer ==
  ASSUME NEW a \in Indices, NEW b \in Indices, NEW n \in 0..Capacity,
         n <= fillLevel(a, b)
  PROVE  fillLevel(a, advance(b, n)) = fillLevel(a, b) - n
BY CapacityAssumption DEF advance, fillLevel, Indices, indexLimit

LEMMA FillLevelSelf ==
  ASSUME NEW a \in Indices
  PROVE  fillLevel(a, a) = 0
BY CapacityAssumption DEF fillLevel, Indices, indexLimit

\* The k-th slot of a run that starts inside the ring is a slot of the ring.
LEMMA RunSlotRange ==
  ASSUME NEW pos \in Indices, NEW k \in 0..(Capacity - 1)
  PROVE  RunSlot(pos, k) \in Slots
BY CapacityAssumption DEF RunSlot, slotOf, Slots, Indices

\* A position i past the write index and a position j before it lie in
\* different slots while the ring is not asked to hold more than its capacity.
LEMMA RunsAreDisjoint ==
  ASSUME NEW w \in Indices, NEW r \in Indices, NEW i \in Nat, NEW j \in Nat,
         j < fillLevel(w, r),
         fillLevel(w, r) + i < Capacity
  PROVE  RunSlot(w, i) # RunSlot(r, j)
BY CapacityAssumption DEF RunSlot, slotOf, fillLevel, Indices, indexLimit

LEMMA BatchesAreSequences ==
  ASSUME NEW source \in Batches
  PROVE  source \in Seq(Sample) /\ Len(source) \in Nat
<1>1. PICK n \in 1..MaxCount : source \in [1..n -> Sample]
  BY DEF Batches
<1>2. n \in Nat
  BY <1>1, MaxCountAssumption
<1> QED
  BY <1>1, <1>2, SeqDef, LenProperties
-----------------------------------------------------------------------------
LEMMA RingInitInv == Init => RingInv
<1> SUFFICES ASSUME Init PROVE RingInv
  OBVIOUS
<1>1. 0 \in Indices
  BY CapacityAssumption DEF Indices
<1>2. <<>> \in Seq(Sample)
  BY EmptySeq
<1>3. TypeOK
  BY <1>1, <1>2, CapacityAssumption, SampleAssumption DEF Init, TypeOK, Idle, Slots
<1>4. fillLevel(0, 0) = 0
  BY <1>1, FillLevelSelf
<1>5. RingOrder
  BY <1>4, CapacityAssumption DEF Init, RingOrder
<1>6. ProducerFits /\ ConsumerHolds
  BY DEF Init, ProducerFits, ConsumerHolds, Idle
<1> QED
  BY <1>3, <1>5, <1>6 DEF RingInv
-----------------------------------------------------------------------------
(* The producer's steps.  Only storage, prod and writeIndex can change.    *)

LEMMA WriteBeginKeeps ==
  ASSUME RingInv, NEW source \in Batches, WriteBegin(source)
  PROVE  RingInv'
<1> DEFINE taken == Lesser(Len(source), Free)
<1>1. source \in Seq(Sample) /\ Len(source) \in Nat
  BY BatchesAreSequences
<1>2. fillLevel(writeIndex, readSeen) \in 0..(2 * Capacity - 1)
  BY FillLevelRange DEF RingInv, TypeOK
<1>3. fillLevel(writeIndex, readSeen) <= Capacity
  BY DEF RingInv, RingOrder
<1>4. Free \in 0..Capacity
  BY <1>2, <1>3, CapacityAssumption DEF Free
<1>5. /\ taken \in 0..Capacity
      /\ taken <= Len(source)
      /\ taken <= Capacity - fillLevel(writeIndex, readSeen)
  BY <1>1, <1>4, CapacityAssumption DEF Lesser, Free
<1>6. /\ prod' = [pc |-> "copy", taken |-> taken, copied |-> 0, data |-> source]
      /\ UNCHANGED <<writeIndex, readIndex, readSeen, writeSeen, storage, cons, delivered>>
  BY DEF WriteBegin
<1> HIDE DEF taken
<1>7. TypeOK'
  BY <1>1, <1>5, <1>6, CapacityAssumption DEF RingInv, TypeOK
<1>8. RingOrder' /\ ConsumerHolds'
  BY <1>6 DEF RingInv, RingOrder, ConsumerHolds, fillLevel
<1>9. ProducerFits'
  BY <1>1, <1>5, <1>6 DEF ProducerFits, fillLevel
<1> QED
  BY <1>7, <1>8, <1>9 DEF RingInv

LEMMA WriteCopyKeeps ==
  ASSUME RingInv, WriteCopy
  PROVE  RingInv'
<1>1. /\ prod.copied \in 0..Capacity
      /\ prod.taken \in 0..Capacity
      /\ prod.copied < prod.taken
      /\ prod.taken <= Len(prod.data)
      /\ prod.data \in Seq(Sample)
      /\ prod.pc = "copy"
  BY DEF RingInv, TypeOK, WriteCopy, ProducerFits
<1>2. prod.data[prod.copied + 1] \in Sample
  BY <1>1, CapacityAssumption
<1>3. RunSlot(writeIndex, prod.copied) \in Slots
  BY <1>1, RunSlotRange, CapacityAssumption DEF RingInv, TypeOK
<1>4. TypeOK'
  <2>1. storage' \in [Slots -> Sample]
    BY <1>2, <1>3 DEF WriteCopy, RingInv, TypeOK
  <2>2. /\ prod' = [pc |-> "copy", taken |-> prod.taken, copied |-> prod.copied + 1,
                    data |-> prod.data]
        /\ prod.copied + 1 \in 0..Capacity
    <3>1. prod \in [pc : {"idle", "copy"}, taken : 0..Capacity, copied : 0..Capacity,
                    data : Seq(Sample)]
      BY DEF RingInv, TypeOK
    <3>2. prod' = [prod EXCEPT !.copied = @ + 1]
      BY DEF WriteCopy
    <3> QED
      BY <1>1, <3>1, <3>2, CapacityAssumption
  <2>3. prod' \in [pc : {"idle", "copy"}, taken : 0..Capacity, copied : 0..Capacity,
                   data : Seq(Sample)]
    BY <1>1, <2>2
  <2>4. UNCHANGED <<writeIndex, readIndex, readSeen, writeSeen, cons, delivered>>
    BY DEF WriteCopy
  <2> QED
    BY <2>1, <2>3, <2>4 DEF RingInv, TypeOK
<1>5. RingOrder' /\ ConsumerHolds'
  BY DEF WriteCopy, RingInv, RingOrder, ConsumerHolds, fillLevel
<1>6. ProducerFits'
  BY <1>1, CapacityAssumption DEF WriteCopy, RingInv, TypeOK, ProducerFits, fillLevel
<1> QED
  BY <1>4, <1>5, <1>6 DEF RingInv

LEMMA WritePublishKeeps ==
  ASSUME RingInv, WritePublish
  PROVE  RingInv'
<1> DEFINE newIndex == advance(writeIndex, prod.taken)
<1>1. /\ writeIndex \in Indices /\ readIndex \in Indices
      /\ readSeen \in Indices /\ writeSeen \in Indices
      /\ prod.taken \in 0..Capacity
      /\ prod.taken <= Capacity - fillLevel(writeIndex, readSeen)
  BY DEF RingInv, TypeOK, WritePublish, ProducerFits
<1>2. newIndex \in Indices
  BY <1>1, AdvanceRange
<1>3. /\ fillLevel(writeIndex, readSeen) \in 0..(2 * Capacity - 1)
      /\ fillLevel(writeIndex, readIndex) \in 0..(2 * Capacity - 1)
      /\ fillLevel(writeIndex, writeSeen) \in 0..(2 * Capacity - 1)
      /\ fillLevel(readIndex, readSeen) \in 0..(2 * Capacity - 1)
      /\ fillLevel(writeSeen, readIndex) \in 0..(2 * Capacity - 1)
  BY <1>1, FillLevelRange
<1>4. /\ fillLevel(writeIndex, readIndex) <= fillLevel(writeIndex, readSeen)
      /\ fillLevel(writeIndex, writeSeen) <= fillLevel(writeIndex, readSeen)
  BY <1>3, CapacityAssumption DEF RingInv, RingOrder
<1>5. /\ fillLevel(newIndex, readSeen) = fillLevel(writeIndex, readSeen) + prod.taken
      /\ fillLevel(newIndex, readIndex) = fillLevel(writeIndex, readIndex) + prod.taken
      /\ fillLevel(newIndex, writeSeen) = fillLevel(writeIndex, writeSeen) + prod.taken
  <2>1. /\ fillLevel(writeIndex, readSeen) + prod.taken <= Capacity
        /\ fillLevel(writeIndex, readIndex) + prod.taken <= Capacity
        /\ fillLevel(writeIndex, writeSeen) + prod.taken <= Capacity
    BY <1>1, <1>3, <1>4, CapacityAssumption
  <2> QED
    BY <1>1, <2>1, AdvanceLeader
<1>6. /\ writeIndex' = newIndex
      /\ prod' = Idle
      /\ UNCHANGED <<readIndex, readSeen, writeSeen, storage, cons, delivered>>
  BY DEF WritePublish
<1> HIDE DEF newIndex
<1>7. TypeOK'
  BY <1>2, <1>6, EmptySeq, CapacityAssumption DEF RingInv, TypeOK, Idle
<1>8. RingOrder'
  <2>1. /\ fillLevel(readIndex, readSeen) + fillLevel(newIndex, readIndex)
             = fillLevel(newIndex, readSeen)
        /\ fillLevel(writeSeen, readIndex) + fillLevel(newIndex, writeSeen)
             = fillLevel(newIndex, readIndex)
        /\ fillLevel(newIndex, readSeen) <= Capacity
    BY <1>1, <1>3, <1>5, CapacityAssumption DEF RingInv, RingOrder
  <2> QED
    BY <2>1, <1>6 DEF RingOrder, fillLevel
<1>9. ProducerFits' /\ ConsumerHolds'
  BY <1>6 DEF RingInv, ProducerFits, ConsumerHolds, Idle, fillLevel
<1> QED
  BY <1>7, <1>8, <1>9 DEF RingInv
-----------------------------------------------------------------------------
(* The consumer's steps.  Only cons, delivered and readIndex can change.   *)

\* ReadBegin and DiscardBegin clamp the request in the same way.
LEMMA ConsumerClamp ==
  ASSUME RingInv, NEW count \in 1..MaxCount
  PROVE  /\ Lesser(count, Used) \in 0..Capacity
         /\ Lesser(count, Used) <= fillLevel(writeSeen, readIndex)
<1>1. /\ fillLevel(writeSeen, readIndex) \in 0..(2 * Capacity - 1)
      /\ fillLevel(writeIndex, writeSeen) \in 0..(2 * Capacity - 1)
      /\ fillLevel(writeIndex, readIndex) \in 0..(2 * Capacity - 1)
      /\ fillLevel(readIndex, readSeen) \in 0..(2 * Capacity - 1)
      /\ fillLevel(writeIndex, readSeen) \in 0..(2 * Capacity - 1)
  BY FillLevelRange DEF RingInv, TypeOK
<1>2. Used \in 0..Capacity
  BY <1>1, CapacityAssumption DEF Used, RingInv, RingOrder
<1> QED
  BY <1>2, MaxCountAssumption, CapacityAssumption DEF Lesser, Used

LEMMA ReadBeginKeeps ==
  ASSUME RingInv, NEW count \in 1..MaxCount, ReadBegin(count) \/ DiscardBegin(count)
  PROVE  RingInv'
<1> DEFINE taken == Lesser(count, Used)
<1>1. taken \in 0..Capacity /\ taken <= fillLevel(writeSeen, readIndex)
  BY ConsumerClamp
<1>2. PICK pc \in {"copy", "skip"} :
        cons' = [pc |-> pc, taken |-> taken, copied |-> 0, data |-> <<>>]
  BY DEF ReadBegin, DiscardBegin
<1>3. UNCHANGED <<writeIndex, readIndex, readSeen, writeSeen, storage, prod, delivered>>
  BY DEF ReadBegin, DiscardBegin
<1> HIDE DEF taken
<1>4. TypeOK'
  BY <1>1, <1>2, <1>3, EmptySeq, CapacityAssumption DEF RingInv, TypeOK
<1>5. RingOrder' /\ ProducerFits'
  BY <1>3 DEF RingInv, RingOrder, ProducerFits, fillLevel
<1>6. ConsumerHolds'
  BY <1>1, <1>2, <1>3 DEF ConsumerHolds, fillLevel
<1> QED
  BY <1>4, <1>5, <1>6 DEF RingInv

LEMMA ReadCopyKeeps ==
  ASSUME RingInv, ReadCopy
  PROVE  RingInv'
<1>1. /\ cons.copied \in 0..Capacity
      /\ cons.taken \in 0..Capacity
      /\ cons.copied < cons.taken
      /\ cons.data \in Seq(Sample)
      /\ cons.pc = "copy"
  BY DEF RingInv, TypeOK, ReadCopy
<1>2. RunSlot(readIndex, cons.copied) \in Slots
  BY <1>1, RunSlotRange, CapacityAssumption DEF RingInv, TypeOK
<1>3. storage[RunSlot(readIndex, cons.copied)] \in Sample
  BY <1>2 DEF RingInv, TypeOK
<1>4. Append(cons.data, storage[RunSlot(readIndex, cons.copied)]) \in Seq(Sample)
  BY <1>1, <1>3, AppendProperties
<1>5. /\ cons' = [pc |-> "copy", taken |-> cons.taken, copied |-> cons.copied + 1,
                  data |-> Append(cons.data, storage[RunSlot(readIndex, cons.copied)])]
      /\ cons.copied + 1 \in 0..Capacity
      /\ cons.copied + 1 <= cons.taken
  <2>1. cons \in [pc : {"idle", "copy", "skip"}, taken : 0..Capacity,
                  copied : 0..Capacity, data : Seq(Sample)]
    BY DEF RingInv, TypeOK
  <2> DEFINE data == Append(cons.data, storage[RunSlot(readIndex, cons.copied)])
  <2>2. cons' = [cons EXCEPT !.copied = cons.copied + 1, !.data = data]
    BY DEF ReadCopy
  <2> HIDE DEF data
  <2>3. cons' = [pc |-> "copy", taken |-> cons.taken, copied |-> cons.copied + 1,
                 data |-> data]
    BY <1>1, <2>1, <2>2
  <2>4. cons.copied + 1 \in 0..Capacity /\ cons.copied + 1 <= cons.taken
    BY <1>1, CapacityAssumption
  <2> QED
    BY <2>3, <2>4 DEF data
<1>6. TypeOK'
  <2>1. cons' \in [pc : {"idle", "copy", "skip"}, taken : 0..Capacity,
                   copied : 0..Capacity, data : Seq(Sample)]
    <3> DEFINE data == Append(cons.data, storage[RunSlot(readIndex, cons.copied)])
    <3>1. data \in Seq(Sample)
      BY <1>4
    <3>2. cons' = [pc |-> "copy", taken |-> cons.taken, copied |-> cons.copied + 1,
                   data |-> data]
      BY <1>5
    <3> HIDE DEF data
    <3> QED
      BY <1>1, <1>5, <3>1, <3>2
  <2>2. UNCHANGED <<writeIndex, readIndex, readSeen, writeSeen, storage, prod, delivered>>
    BY DEF ReadCopy
  <2> QED
    BY <2>1, <2>2 DEF RingInv, TypeOK
<1>7. RingOrder' /\ ProducerFits'
  BY DEF ReadCopy, RingInv, RingOrder, ProducerFits, fillLevel
<1>8. ConsumerHolds'
  BY <1>1, <1>5 DEF ReadCopy, RingInv, ConsumerHolds, fillLevel
<1> QED
  BY <1>6, <1>7, <1>8 DEF RingInv

\* ReadPublish and DiscardPublish store the same index.
LEMMA ReadPublishKeeps ==
  ASSUME RingInv, ReadPublish \/ DiscardPublish
  PROVE  RingInv'
<1> DEFINE newIndex == advance(readIndex, cons.taken)
<1>1. /\ writeIndex \in Indices /\ readIndex \in Indices
      /\ readSeen \in Indices /\ writeSeen \in Indices
      /\ cons.taken \in 0..Capacity
      /\ cons.taken <= fillLevel(writeSeen, readIndex)
  BY DEF RingInv, TypeOK, ReadPublish, DiscardPublish, ConsumerHolds
<1>2. newIndex \in Indices
  BY <1>1, AdvanceRange
<1>3. /\ fillLevel(writeIndex, readSeen) \in 0..(2 * Capacity - 1)
      /\ fillLevel(writeIndex, readIndex) \in 0..(2 * Capacity - 1)
      /\ fillLevel(writeIndex, writeSeen) \in 0..(2 * Capacity - 1)
      /\ fillLevel(readIndex, readSeen) \in 0..(2 * Capacity - 1)
      /\ fillLevel(writeSeen, readIndex) \in 0..(2 * Capacity - 1)
  BY <1>1, FillLevelRange
<1>4. /\ cons.taken <= fillLevel(writeIndex, readIndex)
      /\ fillLevel(readIndex, readSeen) + cons.taken <= Capacity
  BY <1>1, <1>3, CapacityAssumption DEF RingInv, RingOrder
<1>5. /\ fillLevel(newIndex, readSeen) = fillLevel(readIndex, readSeen) + cons.taken
      /\ fillLevel(writeIndex, newIndex) = fillLevel(writeIndex, readIndex) - cons.taken
      /\ fillLevel(writeSeen, newIndex) = fillLevel(writeSeen, readIndex) - cons.taken
  BY <1>1, <1>4, AdvanceLeader, AdvanceTrailer
<1>6. /\ readIndex' = newIndex
      /\ cons' = Idle
      /\ delivered' \in {cons.data, delivered}
      /\ UNCHANGED <<writeIndex, readSeen, writeSeen, storage, prod>>
  BY DEF ReadPublish, DiscardPublish
<1> HIDE DEF newIndex
<1>7. TypeOK'
  BY <1>2, <1>6, EmptySeq, CapacityAssumption DEF RingInv, TypeOK, Idle
<1>8. RingOrder'
  <2>1. /\ fillLevel(newIndex, readSeen) + fillLevel(writeIndex, newIndex)
             = fillLevel(writeIndex, readSeen)
        /\ fillLevel(writeSeen, newIndex) + fillLevel(writeIndex, writeSeen)
             = fillLevel(writeIndex, newIndex)
        /\ fillLevel(writeIndex, readSeen) <= Capacity
    BY <1>1, <1>3, <1>5, CapacityAssumption DEF RingInv, RingOrder
  <2> QED
    BY <2>1, <1>6 DEF RingOrder, fillLevel
<1>9. ProducerFits' /\ ConsumerHolds'
  BY <1>6 DEF RingInv, ProducerFits, ConsumerHolds, Idle, fillLevel
<1> QED
  BY <1>7, <1>8, <1>9 DEF RingInv
-----------------------------------------------------------------------------
(* A view catches up, and the reset between two runs.                      *)

LEMMA SeeReadKeeps ==
  ASSUME RingInv, SeeRead
  PROVE  RingInv'
<1>1. /\ fillLevel(readIndex, readIndex) = 0
      /\ fillLevel(readIndex, readSeen) \in 0..(2 * Capacity - 1)
      /\ fillLevel(writeIndex, readIndex) \in 0..(2 * Capacity - 1)
      /\ fillLevel(writeIndex, readSeen) \in 0..(2 * Capacity - 1)
  BY FillLevelSelf, FillLevelRange DEF RingInv, TypeOK
<1>2. fillLevel(writeIndex, readIndex) <= fillLevel(writeIndex, readSeen)
  BY <1>1, CapacityAssumption DEF RingInv, RingOrder
<1>3. TypeOK'
  BY DEF SeeRead, RingInv, TypeOK
<1>4. RingOrder'
  <2>1. /\ fillLevel(readIndex, readIndex) + fillLevel(writeIndex, readIndex)
             = fillLevel(writeIndex, readIndex)
        /\ fillLevel(writeSeen, readIndex) + fillLevel(writeIndex, writeSeen)
             = fillLevel(writeIndex, readIndex)
        /\ fillLevel(writeIndex, readIndex) <= Capacity
    BY <1>1, <1>2, CapacityAssumption DEF RingInv, RingOrder
  <2> QED
    BY <2>1 DEF SeeRead, RingOrder, fillLevel
<1>5. ProducerFits'
  <2>1. prod.pc = "copy" => /\ prod.taken \in 0..Capacity
                            /\ prod.taken <= Capacity - fillLevel(writeIndex, readIndex)
    BY <1>1, <1>2, CapacityAssumption DEF RingInv, TypeOK, ProducerFits
  <2> QED
    BY <2>1 DEF SeeRead, RingInv, ProducerFits, fillLevel
<1>6. ConsumerHolds'
  BY DEF SeeRead, RingInv, ConsumerHolds, fillLevel
<1> QED
  BY <1>3, <1>4, <1>5, <1>6 DEF RingInv

LEMMA SeeWriteKeeps ==
  ASSUME RingInv, SeeWrite
  PROVE  RingInv'
<1>1. /\ fillLevel(writeIndex, writeIndex) = 0
      /\ fillLevel(writeSeen, readIndex) \in 0..(2 * Capacity - 1)
      /\ fillLevel(writeIndex, readIndex) \in 0..(2 * Capacity - 1)
      /\ fillLevel(writeIndex, writeSeen) \in 0..(2 * Capacity - 1)
  BY FillLevelSelf, FillLevelRange DEF RingInv, TypeOK
<1>2. TypeOK'
  BY DEF SeeWrite, RingInv, TypeOK
<1>3. RingOrder'
  <2>1. fillLevel(writeIndex, readIndex) + fillLevel(writeIndex, writeIndex)
          = fillLevel(writeIndex, readIndex)
    BY <1>1
  <2> QED
    BY <2>1 DEF SeeWrite, RingInv, RingOrder, fillLevel
<1>4. ProducerFits'
  BY DEF SeeWrite, RingInv, ProducerFits, fillLevel
<1>5. ConsumerHolds'
  <2>1. cons.pc # "idle" => /\ cons.copied <= cons.taken
                            /\ cons.taken <= fillLevel(writeIndex, readIndex)
    BY <1>1, CapacityAssumption DEF RingInv, TypeOK, RingOrder, ConsumerHolds
  <2> QED
    BY <2>1 DEF SeeWrite, RingInv, ConsumerHolds, fillLevel
<1> QED
  BY <1>2, <1>3, <1>4, <1>5 DEF RingInv

LEMMA RingResetKeeps ==
  ASSUME RingInv, Reset
  PROVE  RingInv'
<1>1. 0 \in Indices /\ fillLevel(0, 0) = 0
  BY FillLevelSelf, CapacityAssumption DEF Indices
<1>2. TypeOK'
  BY <1>1 DEF Reset, RingInv, TypeOK
<1>3. RingOrder'
  <2>1. fillLevel(0, 0) + fillLevel(0, 0) = fillLevel(0, 0) /\ fillLevel(0, 0) <= Capacity
    BY <1>1, CapacityAssumption
  <2> QED
    BY <2>1 DEF Reset, RingOrder, fillLevel
<1>4. ProducerFits' /\ ConsumerHolds'
  BY DEF Reset, RingInv, ProducerFits, ConsumerHolds
<1> QED
  BY <1>2, <1>3, <1>4 DEF RingInv
-----------------------------------------------------------------------------
LEMMA RingStepInv == RingInv /\ [Next]_vars => RingInv'
<1> SUFFICES ASSUME RingInv, [Next]_vars PROVE RingInv'
  OBVIOUS
<1>1. CASE Producer
  BY <1>1, WriteBeginKeeps, WriteCopyKeeps, WritePublishKeeps DEF Producer
<1>2. CASE Consumer
  BY <1>2, ReadBeginKeeps, ReadCopyKeeps, ReadPublishKeeps DEF Consumer
<1>3. CASE SeeRead
  BY <1>3, SeeReadKeeps
<1>4. CASE SeeWrite
  BY <1>4, SeeWriteKeeps
<1>5. CASE Reset
  BY <1>5, RingResetKeeps
<1>6. CASE UNCHANGED vars
  BY <1>6 DEF vars, RingInv, TypeOK, RingOrder, ProducerFits, ConsumerHolds, fillLevel
<1> QED
  BY <1>1, <1>2, <1>3, <1>4, <1>5, <1>6 DEF Next

\* The order of the four indices holds in every state of every execution.
LEMMA RingInvAlways == Spec => []RingInv
<1>1. Init => RingInv
  BY RingInitInv
<1>2. RingInv /\ [Next]_vars => RingInv'
  BY RingStepInv
<1> QED
  BY <1>1, <1>2, PTL DEF Spec

\* Indices stay in the doubled range, storage stays full of samples, and no
\* call of write(), read() or discard() takes more than the ring holds.
THEOREM RingTypeCorrect == Spec => []TypeOK
<1>1. RingInv => TypeOK
  BY DEF RingInv
<1> QED
  BY <1>1, RingInvAlways, PTL

\* What availableToWrite() and availableToRead() promise: a stale view never
\* shows more free space or more samples than there are.
THEOREM ViewsSafe == Spec => []ViewsAreConservative
<1>1. ASSUME RingInv PROVE ViewsAreConservative
  <2>1. /\ fillLevel(readIndex, readSeen) \in 0..(2 * Capacity - 1)
        /\ fillLevel(writeIndex, readIndex) \in 0..(2 * Capacity - 1)
        /\ fillLevel(writeIndex, readSeen) \in 0..(2 * Capacity - 1)
        /\ fillLevel(writeSeen, readIndex) \in 0..(2 * Capacity - 1)
        /\ fillLevel(writeIndex, writeSeen) \in 0..(2 * Capacity - 1)
    BY <1>1, FillLevelRange DEF RingInv, TypeOK
  <2> QED
    BY <1>1, <2>1, CapacityAssumption DEF RingInv, RingOrder, ViewsAreConservative
<1> QED
  BY <1>1, RingInvAlways, PTL

LEMMA RingInvHolds ==
  ASSUME RingInv
  PROVE  NoSlotRace
<1> SUFFICES ASSUME NEW i \in 0..(prod.taken - 1), NEW j \in 0..(cons.taken - 1)
             PROVE  RunSlot(writeIndex, i) # RunSlot(readIndex, j)
  BY DEF NoSlotRace
<1>1. /\ prod.taken \in 0..Capacity /\ cons.taken \in 0..Capacity
      /\ prod.pc \in {"idle", "copy"}
      /\ writeIndex \in Indices /\ readIndex \in Indices
      /\ readSeen \in Indices /\ writeSeen \in Indices
  BY DEF RingInv, TypeOK
<1>2. /\ fillLevel(readIndex, readSeen) \in 0..(2 * Capacity - 1)
      /\ fillLevel(writeIndex, readIndex) \in 0..(2 * Capacity - 1)
      /\ fillLevel(writeIndex, readSeen) \in 0..(2 * Capacity - 1)
      /\ fillLevel(writeSeen, readIndex) \in 0..(2 * Capacity - 1)
      /\ fillLevel(writeIndex, writeSeen) \in 0..(2 * Capacity - 1)
  BY <1>1, FillLevelRange
<1>3. i \in Nat /\ j \in Nat /\ i < prod.taken /\ j < cons.taken
  BY <1>1, CapacityAssumption
<1>4. prod.taken <= Capacity - fillLevel(writeIndex, readSeen)
  BY <1>1, <1>3 DEF RingInv, ProducerFits
<1>5. cons.taken <= fillLevel(writeSeen, readIndex)
  BY <1>1, <1>3 DEF RingInv, ConsumerHolds
<1>6. j < fillLevel(writeIndex, readIndex) /\ fillLevel(writeIndex, readIndex) + i < Capacity
  BY <1>1, <1>2, <1>3, <1>4, <1>5, CapacityAssumption DEF RingInv, RingOrder
<1> QED
  BY <1>1, <1>3, <1>6, RunsAreDisjoint

\* The memcpy calls of write() and of read() never touch the same slot at the
\* same time, so the plain storage needs no lock.
THEOREM RaceFree == Spec => []NoSlotRace
BY RingInvHolds, RingInvAlways, PTL
-----------------------------------------------------------------------------
(* The refinement: every step of the two threads is one of SampleQueue, or   *)
(* changes nothing it can see.  What is new over RingInv is what the copy    *)
(* loops have done so far.                                                   *)

\* The slots past the write index hold what write() has copied so far.
WriterCopied ==
  /\ prod.pc = "idle" => prod = Idle
  /\ prod.pc = "copy" =>
       /\ prod.taken > 0
       /\ \A k \in 0..(prod.copied - 1) : storage[RunSlot(writeIndex, k)] = prod.data[k + 1]

\* What read() has copied out so far is still in the slots it came from.
ReaderCopied ==
  /\ cons.pc # "idle" => cons.taken > 0
  /\ cons.pc = "copy" =>
       cons.data = [k \in 1..cons.copied |-> storage[RunSlot(readIndex, k - 1)]]

CopyInv == WriterCopied /\ ReaderCopied

\* Contents, as an operator of what it is made of.
QueueOf(w, r, s) == [k \in 1..fillLevel(w, r) |-> s[RunSlot(r, k - 1)]]

LEMMA QueueOfProperties ==
  ASSUME NEW w \in Indices, NEW r \in Indices, NEW s \in [Slots -> Sample],
         fillLevel(w, r) <= Capacity
  PROVE  /\ fillLevel(w, r) \in 0..Capacity
         /\ QueueOf(w, r, s) \in Seq(Sample)
         /\ Len(QueueOf(w, r, s)) = fillLevel(w, r)
         /\ \A k \in 1..fillLevel(w, r) : QueueOf(w, r, s)[k] = s[RunSlot(r, k - 1)]
<1> DEFINE fill == fillLevel(w, r)
<1> DEFINE q == QueueOf(w, r, s)
<1>1. fill \in 0..Capacity /\ fill \in Nat
  <2>1. fill \in 0..(2 * Capacity - 1)
    BY FillLevelRange
  <2> QED
    BY <2>1, CapacityAssumption
<1>2. \A k \in 1..fill : s[RunSlot(r, k - 1)] \in Sample
  <2> TAKE k \in 1..fill
  <2>1. k - 1 \in 0..(Capacity - 1)
    BY <1>1, CapacityAssumption
  <2> QED
    BY <2>1, RunSlotRange
<1>3. q = [k \in 1..fill |-> s[RunSlot(r, k - 1)]]
  BY DEF QueueOf
<1> HIDE DEF fill, q
<1>4. q \in [1..fill -> Sample]
  BY <1>2, <1>3
<1>5. q \in Seq(Sample)
  BY <1>1, <1>4, SeqDef
<1>6. Len(q) = fill
  BY <1>1, <1>4, <1>5, LenProperties
<1>7. \A k \in 1..fill : q[k] = s[RunSlot(r, k - 1)]
  BY <1>3
<1> QED
  BY <1>1, <1>5, <1>6, <1>7 DEF fill, q

\* Slots are counted from either index: n past the read index is where a run
\* that starts n later starts, and so is fillLevel past it for the write index.
LEMMA RunSlotAdvanced ==
  ASSUME NEW r \in Indices, NEW n \in 0..Capacity, NEW k \in Nat, n + k < Capacity
  PROVE  RunSlot(advance(r, n), k) = RunSlot(r, n + k)
BY CapacityAssumption DEF RunSlot, slotOf, advance, Indices, indexLimit

LEMMA RunSlotAcross ==
  ASSUME NEW w \in Indices, NEW r \in Indices, NEW k \in Nat,
         fillLevel(w, r) + k < Capacity
  PROVE  RunSlot(w, k) = RunSlot(r, fillLevel(w, r) + k)
BY CapacityAssumption DEF RunSlot, slotOf, fillLevel, Indices, indexLimit

\* Two positions of one run lie in different slots.
LEMMA RunSlotInjective ==
  ASSUME NEW pos \in Indices, NEW i \in 0..(Capacity - 1), NEW j \in 0..(Capacity - 1), i # j
  PROVE  RunSlot(pos, i) # RunSlot(pos, j)
BY CapacityAssumption DEF RunSlot, slotOf, Indices

\* The facts about a write in progress that its steps need.
LEMMA WriterFacts ==
  ASSUME RingInv, CopyInv, prod.pc = "copy"
  PROVE  /\ prod.taken \in 1..Capacity
         /\ prod.copied \in 0..prod.taken
         /\ prod.taken <= Len(prod.data)
         /\ prod.data \in Seq(Sample)
         /\ fillLevel(writeIndex, readIndex) \in 0..Capacity
         /\ fillLevel(writeIndex, readIndex) + prod.taken <= Capacity
         /\ writeIndex \in Indices /\ readIndex \in Indices
<1>1. /\ fillLevel(readIndex, readSeen) \in 0..(2 * Capacity - 1)
      /\ fillLevel(writeIndex, readSeen) \in 0..(2 * Capacity - 1)
      /\ fillLevel(writeIndex, readIndex) \in 0..(2 * Capacity - 1)
  BY FillLevelRange DEF RingInv, TypeOK
<1> QED
  BY <1>1, CapacityAssumption DEF RingInv, TypeOK, RingOrder, ProducerFits, CopyInv, WriterCopied

\* And about a read or a discard in progress.
LEMMA ReaderFacts ==
  ASSUME RingInv, CopyInv, cons.pc # "idle"
  PROVE  /\ cons.taken \in 1..Capacity
         /\ cons.copied \in 0..cons.taken
         /\ cons.data \in Seq(Sample)
         /\ fillLevel(writeIndex, readIndex) \in 0..Capacity
         /\ cons.taken <= fillLevel(writeIndex, readIndex)
         /\ writeIndex \in Indices /\ readIndex \in Indices
<1>1. /\ fillLevel(readIndex, readSeen) \in 0..(2 * Capacity - 1)
      /\ fillLevel(writeIndex, readSeen) \in 0..(2 * Capacity - 1)
      /\ fillLevel(writeIndex, readIndex) \in 0..(2 * Capacity - 1)
      /\ fillLevel(writeSeen, readIndex) \in 0..(2 * Capacity - 1)
      /\ fillLevel(writeIndex, writeSeen) \in 0..(2 * Capacity - 1)
  BY FillLevelRange DEF RingInv, TypeOK
<1> QED
  BY <1>1, CapacityAssumption DEF RingInv, TypeOK, RingOrder, ConsumerHolds, CopyInv, ReaderCopied
-----------------------------------------------------------------------------
LEMMA InitCopyInv == Init => CopyInv
BY DEF Init, CopyInv, WriterCopied, ReaderCopied, Idle

LEMMA WriteBeginCopies ==
  ASSUME RingInv, CopyInv, NEW source \in Batches, WriteBegin(source)
  PROVE  CopyInv'
<1> DEFINE taken == Lesser(Len(source), Free)
<1>1. /\ prod' = [pc |-> "copy", taken |-> taken, copied |-> 0, data |-> source]
      /\ taken > 0
      /\ UNCHANGED <<writeIndex, readIndex, storage, cons>>
  BY DEF WriteBegin
<1> HIDE DEF taken
<1>2. WriterCopied'
  BY <1>1 DEF WriterCopied
<1>3. ReaderCopied'
  BY <1>1 DEF CopyInv, ReaderCopied
<1> QED
  BY <1>2, <1>3 DEF CopyInv

\* The slot WriteCopy fills is none of those copied before it, on either side.
LEMMA WriteCopyStays ==
  ASSUME RingInv, CopyInv, WriteCopy
  PROVE  /\ storage' = [storage EXCEPT ![RunSlot(writeIndex, prod.copied)]
                          = prod.data[prod.copied + 1]]
         /\ RunSlot(writeIndex, prod.copied) \in Slots
         /\ \A k \in 0..(prod.copied - 1) :
              storage'[RunSlot(writeIndex, k)] = storage[RunSlot(writeIndex, k)]
         /\ \A k \in 0..(fillLevel(writeIndex, readIndex) - 1) :
              storage'[RunSlot(readIndex, k)] = storage[RunSlot(readIndex, k)]
<1>1. /\ prod.taken \in 1..Capacity
      /\ prod.copied \in 0..prod.taken /\ prod.copied < prod.taken
      /\ fillLevel(writeIndex, readIndex) \in 0..Capacity
      /\ fillLevel(writeIndex, readIndex) + prod.taken <= Capacity
      /\ writeIndex \in Indices /\ readIndex \in Indices
  BY WriterFacts DEF WriteCopy
<1>2. prod.copied \in 0..(Capacity - 1)
  BY <1>1, CapacityAssumption
<1> DEFINE slot == RunSlot(writeIndex, prod.copied)
<1>3. slot \in Slots
  BY <1>1, <1>2, RunSlotRange
<1>4. storage \in [Slots -> Sample]
  BY DEF RingInv, TypeOK
<1>5. storage' = [storage EXCEPT ![slot] = prod.data[prod.copied + 1]]
  BY DEF WriteCopy
<1>6. ASSUME NEW k \in 0..(prod.copied - 1)
      PROVE  storage'[RunSlot(writeIndex, k)] = storage[RunSlot(writeIndex, k)]
  <2>1. k \in 0..(Capacity - 1) /\ k # prod.copied
    BY <1>1, <1>6, CapacityAssumption
  <2>2. RunSlot(writeIndex, k) \in Slots /\ RunSlot(writeIndex, k) # slot
    BY <1>1, <1>2, <2>1, RunSlotRange, RunSlotInjective
  <2> HIDE DEF slot
  <2> QED
    BY <1>4, <1>5, <2>2
<1>7. ASSUME NEW k \in 0..(fillLevel(writeIndex, readIndex) - 1)
      PROVE  storage'[RunSlot(readIndex, k)] = storage[RunSlot(readIndex, k)]
  <2>1. /\ k \in 0..(Capacity - 1) /\ k \in Nat /\ prod.copied \in Nat
        /\ k < fillLevel(writeIndex, readIndex)
        /\ fillLevel(writeIndex, readIndex) + prod.copied < Capacity
    BY <1>1, <1>7, CapacityAssumption
  <2>2. RunSlot(readIndex, k) \in Slots /\ RunSlot(readIndex, k) # slot
    BY <1>1, <2>1, RunSlotRange, RunsAreDisjoint
  <2> HIDE DEF slot
  <2> QED
    BY <1>4, <1>5, <2>2
<1> QED
  BY <1>3, <1>5, <1>6, <1>7

LEMMA WriteCopyCopies ==
  ASSUME RingInv, CopyInv, WriteCopy
  PROVE  CopyInv'
<1>1. /\ prod.taken \in 1..Capacity
      /\ prod.copied \in 0..prod.taken
  BY WriterFacts DEF WriteCopy
<1>2. prod' = [pc |-> "copy", taken |-> prod.taken, copied |-> prod.copied + 1,
               data |-> prod.data]
  <2>1. prod \in [pc : {"idle", "copy"}, taken : 0..Capacity, copied : 0..Capacity,
                  data : Seq(Sample)]
    BY DEF RingInv, TypeOK
  <2> QED
    BY <2>1 DEF WriteCopy
<1>3. UNCHANGED <<writeIndex, readIndex, cons>>
  BY DEF WriteCopy
<1>4. WriterCopied'
  <2>1. \A k \in 0..prod.copied : storage'[RunSlot(writeIndex, k)] = prod.data[k + 1]
    <3> SUFFICES ASSUME NEW k \in 0..prod.copied
                 PROVE  storage'[RunSlot(writeIndex, k)] = prod.data[k + 1]
      OBVIOUS
    <3>1. CASE k = prod.copied
      BY <3>1, WriteCopyStays DEF RingInv, TypeOK
    <3>2. CASE k \in 0..(prod.copied - 1)
      BY <3>2, WriteCopyStays DEF CopyInv, WriterCopied, WriteCopy
    <3> QED
      BY <1>1, <3>1, <3>2
  <2>2. prod'.copied - 1 = prod.copied
    BY <1>1, <1>2
  <2>3. \A k \in 0..(prod'.copied - 1) : storage'[RunSlot(writeIndex', k)] = prod'.data[k + 1]
    BY <1>2, <1>3, <2>1, <2>2
  <2>4. prod'.pc = "copy" /\ prod'.taken > 0
    BY <1>1, <1>2
  <2> QED
    BY <2>3, <2>4 DEF WriterCopied, RunSlot
<1>5. ReaderCopied'
  <2>1. CASE cons.pc # "copy"
    BY <1>3, <2>1 DEF CopyInv, ReaderCopied
  <2>2. CASE cons.pc = "copy"
    <3>1. /\ cons.copied \in 0..cons.taken /\ cons.taken \in 1..Capacity
          /\ cons.taken <= fillLevel(writeIndex, readIndex)
          /\ fillLevel(writeIndex, readIndex) \in 0..Capacity
      BY <2>2, ReaderFacts
    <3>2. \A k \in 1..cons.copied : k - 1 \in 0..(fillLevel(writeIndex, readIndex) - 1)
      BY <3>1, CapacityAssumption
    <3>3. \A k \in 1..cons.copied :
            storage'[RunSlot(readIndex, k - 1)] = storage[RunSlot(readIndex, k - 1)]
      BY <3>2, WriteCopyStays
    <3>4. cons.data = [k \in 1..cons.copied |-> storage'[RunSlot(readIndex, k - 1)]]
      BY <2>2, <3>3 DEF CopyInv, ReaderCopied
    <3> QED
      BY <1>3, <2>2, <3>4 DEF CopyInv, ReaderCopied, RunSlot
  <2> QED
    BY <2>1, <2>2
<1> QED
  BY <1>4, <1>5 DEF CopyInv

LEMMA ReadCopyCopies ==
  ASSUME RingInv, CopyInv, ReadCopy
  PROVE  CopyInv'
<1> DEFINE next == storage[RunSlot(readIndex, cons.copied)]
<1>1. /\ cons.taken \in 1..Capacity
      /\ cons.copied \in 0..cons.taken /\ cons.copied < cons.taken
      /\ cons.data \in Seq(Sample)
      /\ readIndex \in Indices
  BY ReaderFacts DEF ReadCopy
<1>2. next \in Sample
  <2>1. cons.copied \in 0..(Capacity - 1)
    BY <1>1, CapacityAssumption
  <2> QED
    BY <1>1, <2>1, RunSlotRange DEF RingInv, TypeOK
<1>3. cons.data = [k \in 1..cons.copied |-> storage[RunSlot(readIndex, k - 1)]]
  BY DEF ReadCopy, CopyInv, ReaderCopied
<1>4. Len(cons.data) = cons.copied
  <2>1. DOMAIN cons.data = 1..cons.copied
    BY <1>3
  <2> QED
    BY <1>1, <2>1, LenProperties
<1>5. /\ UNCHANGED <<writeIndex, readIndex, storage, prod>>
      /\ cons'.pc = "copy" /\ cons'.taken = cons.taken
      /\ cons'.copied = cons.copied + 1
      /\ cons'.data = Append(cons.data, next)
  BY DEF ReadCopy, RingInv, TypeOK
<1> HIDE DEF next
<1>6. Append(cons.data, next) = [k \in 1..(cons.copied + 1) |-> storage[RunSlot(readIndex, k - 1)]]
  <2> DEFINE longer == [k \in 1..(cons.copied + 1) |-> storage[RunSlot(readIndex, k - 1)]]
  <2>1. /\ Append(cons.data, next) \in [1..(cons.copied + 1) -> Sample]
        /\ \A k \in 1..cons.copied : Append(cons.data, next)[k] = cons.data[k]
        /\ Append(cons.data, next)[cons.copied + 1] = next
    <3>1. /\ Append(cons.data, next) \in Seq(Sample)
          /\ Len(Append(cons.data, next)) = cons.copied + 1
          /\ \A k \in 1..cons.copied : Append(cons.data, next)[k] = cons.data[k]
          /\ Append(cons.data, next)[cons.copied + 1] = next
      BY <1>1, <1>2, <1>4, AppendProperties
    <3> QED
      BY <3>1, LenProperties
  <2>2. \A k \in 1..(cons.copied + 1) : Append(cons.data, next)[k] = longer[k]
    <3> SUFFICES ASSUME NEW k \in 1..(cons.copied + 1)
                 PROVE  Append(cons.data, next)[k] = longer[k]
      OBVIOUS
    <3>1. CASE k = cons.copied + 1
      BY <1>1, <2>1, <3>1 DEF next
    <3>2. CASE k \in 1..cons.copied
      BY <1>1, <1>3, <2>1, <3>2
    <3>3. k = cons.copied + 1 \/ k \in 1..cons.copied
      BY <1>1, CapacityAssumption
    <3> QED
      BY <3>1, <3>2, <3>3
  <2> QED
    BY <2>1, <2>2
<1>7. ReaderCopied'
  BY <1>1, <1>5, <1>6 DEF ReaderCopied, RunSlot
<1>8. WriterCopied'
  BY <1>5 DEF CopyInv, WriterCopied
<1> QED
  BY <1>7, <1>8 DEF CopyInv

LEMMA StepCopyInv ==
  ASSUME RingInv, CopyInv, [Next]_vars
  PROVE  CopyInv'
<1>1. CASE \E source \in Batches : WriteBegin(source)
  BY <1>1, WriteBeginCopies
<1>2. CASE WriteCopy
  BY <1>2, WriteCopyCopies
<1>3. CASE WritePublish
  BY <1>3 DEF WritePublish, CopyInv, WriterCopied, ReaderCopied, Idle
<1>4. ASSUME NEW count \in 1..MaxCount, ReadBegin(count) \/ DiscardBegin(count)
      PROVE  CopyInv'
  <2> DEFINE taken == Lesser(count, Used)
  <2>1. PICK pc \in {"copy", "skip"} :
          cons' = [pc |-> pc, taken |-> taken, copied |-> 0, data |-> <<>>]
    BY <1>4 DEF ReadBegin, DiscardBegin
  <2>2. taken > 0 /\ UNCHANGED <<writeIndex, readIndex, storage, prod>>
    BY <1>4 DEF ReadBegin, DiscardBegin
  <2> HIDE DEF taken
  <2>3. <<>> = [k \in 1..0 |-> storage[RunSlot(readIndex, k - 1)]]
    OBVIOUS
  <2>4. ReaderCopied'
    BY <2>1, <2>2, <2>3 DEF ReaderCopied
  <2> QED
    BY <2>2, <2>4 DEF CopyInv, WriterCopied
<1>5. CASE ReadCopy
  BY <1>5, ReadCopyCopies
<1>6. CASE ReadPublish \/ DiscardPublish
  BY <1>6 DEF ReadPublish, DiscardPublish, CopyInv, WriterCopied, ReaderCopied, Idle
<1>7. CASE SeeRead \/ SeeWrite \/ UNCHANGED vars
  BY <1>7 DEF SeeRead, SeeWrite, vars, CopyInv, WriterCopied, ReaderCopied
<1>8. CASE Reset
  BY <1>8 DEF Reset, CopyInv, WriterCopied, ReaderCopied, Idle
<1> QED
  BY <1>1, <1>2, <1>3, <1>4, <1>5, <1>6, <1>7, <1>8 DEF Next, Producer, Consumer

LEMMA CopyInvAlways == Spec => [](RingInv /\ CopyInv)
<1>1. Init => RingInv /\ CopyInv
  BY RingInitInv, InitCopyInv
<1>2. RingInv /\ CopyInv /\ [Next]_vars => (RingInv /\ CopyInv)'
  BY RingStepInv, StepCopyInv
<1> QED
  BY <1>1, <1>2, PTL DEF Spec
-----------------------------------------------------------------------------
(* What the three publishing steps do to the queue.                          *)

\* Moving the write index over n slots that hold the first n samples of `data`
\* appends them.
LEMMA QueueOfLonger ==
  ASSUME NEW w \in Indices, NEW r \in Indices, NEW s \in [Slots -> Sample],
         NEW data \in Seq(Sample), NEW n \in 1..Capacity,
         n <= Len(data), fillLevel(w, r) + n <= Capacity,
         \A k \in 0..(n - 1) : s[RunSlot(w, k)] = data[k + 1]
  PROVE  QueueOf(advance(w, n), r, s) = QueueOf(w, r, s) \o SubSeq(data, 1, n)
<1> DEFINE fill == fillLevel(w, r)
<1> DEFINE before == QueueOf(w, r, s)
<1> DEFINE after == QueueOf(advance(w, n), r, s)
<1> DEFINE put == SubSeq(data, 1, n)
<1>1. n \in Nat /\ n \in 0..Capacity /\ Len(data) \in Nat
  BY CapacityAssumption, LenProperties
<1>2. fill \in 0..Capacity
  <2>1. fill \in 0..(2 * Capacity - 1)
    BY FillLevelRange
  <2> QED
    BY <1>1, <2>1, CapacityAssumption
<1>3. /\ before \in Seq(Sample) /\ Len(before) = fill
      /\ \A k \in 1..fill : before[k] = s[RunSlot(r, k - 1)]
  BY <1>1, <1>2, QueueOfProperties, CapacityAssumption
<1>4. advance(w, n) \in Indices /\ fillLevel(advance(w, n), r) = fill + n
  BY <1>1, AdvanceRange, AdvanceLeader
<1>5. /\ after \in Seq(Sample) /\ Len(after) = fill + n
      /\ \A k \in 1..(fill + n) : after[k] = s[RunSlot(r, k - 1)]
  BY <1>4, QueueOfProperties
<1>6. /\ put \in Seq(Sample) /\ Len(put) = n
      /\ \A k \in 1..n : put[k] = data[k]
  <2>1. \A k \in 1..n : data[k] \in Sample
    BY <1>1, ElementOfSeq
  <2>2. /\ put \in Seq(Sample) /\ Len(put) = n - 1 + 1
        /\ \A k \in 1..(n - 1 + 1) : put[k] = data[1 + k - 1]
    BY <1>1, <2>1, SubSeqProperties
  <2> HIDE DEF put
  <2> QED
    BY <1>1, <2>2
<1>7. \A k \in (fill + 1)..(fill + n) : s[RunSlot(r, k - 1)] = data[k - fill]
  <2> SUFFICES ASSUME NEW k \in (fill + 1)..(fill + n)
               PROVE  s[RunSlot(r, k - 1)] = data[k - fill]
    OBVIOUS
  <2> DEFINE j == k - 1 - fill
  <2>1. /\ j \in Nat /\ j \in 0..(n - 1) /\ fill + j < Capacity
        /\ fill + j = k - 1 /\ j + 1 = k - fill
    BY <1>1, <1>2, CapacityAssumption
  <2>2. RunSlot(w, j) = RunSlot(r, fill + j)
    BY <2>1, RunSlotAcross
  <2> HIDE DEF j
  <2>3. s[RunSlot(w, j)] = data[j + 1]
    BY <2>1
  <2> QED
    BY <2>1, <2>2, <2>3
<1> HIDE DEF fill, before, after, put
<1>8. /\ before \o put \in Seq(Sample) /\ Len(before \o put) = fill + n
      /\ \A k \in 1..(fill + n) :
           (before \o put)[k] = IF k <= fill THEN before[k] ELSE put[k - fill]
  BY <1>3, <1>6, ConcatProperties
<1>9. \A k \in 1..(fill + n) : after[k] = (before \o put)[k]
  <2> SUFFICES ASSUME NEW k \in 1..(fill + n) PROVE after[k] = (before \o put)[k]
    OBVIOUS
  <2>1. CASE k <= fill
    <3>1. k \in 1..fill
      BY <1>1, <1>2, <2>1, CapacityAssumption
    <3> QED
      BY <1>3, <1>5, <1>8, <2>1, <3>1
  <2>2. CASE ~(k <= fill)
    <3>1. k \in (fill + 1)..(fill + n) /\ k - fill \in 1..n
      BY <1>1, <1>2, <2>2, CapacityAssumption
    <3>2. after[k] = data[k - fill]
      BY <1>5, <1>7, <3>1
    <3>3. (before \o put)[k] = put[k - fill]
      BY <1>8, <2>2
    <3> QED
      BY <1>6, <3>1, <3>2, <3>3
  <2> QED
    BY <2>1, <2>2
<1>10. after = before \o put
  BY <1>5, <1>8, <1>9, SeqEqual
<1> QED
  BY <1>10 DEF before, after, put

\* Moving the read index over the first n samples removes them.
LEMMA QueueOfShorter ==
  ASSUME NEW w \in Indices, NEW r \in Indices, NEW s \in [Slots -> Sample],
         NEW n \in 1..Capacity, n <= fillLevel(w, r), fillLevel(w, r) <= Capacity
  PROVE  /\ QueueOf(w, advance(r, n), s)
               = SubSeq(QueueOf(w, r, s), n + 1, Len(QueueOf(w, r, s)))
         /\ [k \in 1..n |-> s[RunSlot(r, k - 1)]] = SubSeq(QueueOf(w, r, s), 1, n)
<1> DEFINE fill == fillLevel(w, r)
<1> DEFINE before == QueueOf(w, r, s)
<1> DEFINE after == QueueOf(w, advance(r, n), s)
<1> DEFINE rest == SubSeq(before, n + 1, fill)
<1> DEFINE taken == SubSeq(before, 1, n)
<1> DEFINE copied == [k \in 1..n |-> s[RunSlot(r, k - 1)]]
<1>1. n \in Nat /\ n \in 0..Capacity
  BY CapacityAssumption
<1>2. /\ fill \in 0..Capacity
      /\ before \in Seq(Sample) /\ Len(before) = fill
      /\ \A k \in 1..fill : before[k] = s[RunSlot(r, k - 1)]
  BY QueueOfProperties
<1>3. fill \in Nat /\ n <= fill
  BY <1>2, CapacityAssumption
<1>4. advance(r, n) \in Indices /\ fillLevel(w, advance(r, n)) = fill - n
  BY <1>1, AdvanceRange, AdvanceTrailer
<1>5. /\ after \in Seq(Sample) /\ Len(after) = fill - n
      /\ \A k \in 1..(fill - n) : after[k] = s[RunSlot(advance(r, n), k - 1)]
  <2>1. fill - n <= Capacity
    BY <1>1, <1>2, CapacityAssumption
  <2> QED
    BY <1>4, <2>1, QueueOfProperties
<1>6. \A k \in 1..(fill - n) : s[RunSlot(advance(r, n), k - 1)] = before[n + k]
  <2> SUFFICES ASSUME NEW k \in 1..(fill - n)
               PROVE  s[RunSlot(advance(r, n), k - 1)] = before[n + k]
    OBVIOUS
  <2>1. /\ k - 1 \in Nat /\ n + (k - 1) < Capacity
        /\ n + k \in 1..fill /\ n + (k - 1) = (n + k) - 1
    BY <1>1, <1>2, <1>3, CapacityAssumption
  <2>2. RunSlot(advance(r, n), k - 1) = RunSlot(r, n + (k - 1))
    BY <1>1, <2>1, RunSlotAdvanced
  <2>3. before[n + k] = s[RunSlot(r, (n + k) - 1)]
    BY <1>2, <2>1
  <2> QED
    BY <2>1, <2>2, <2>3
<1> HIDE DEF fill, before, after
<1>7. \A k \in 1..fill : before[k] \in Sample
  BY <1>2, ElementOfSeq
<1>8. /\ rest \in Seq(Sample) /\ Len(rest) = fill - n
      /\ \A k \in 1..(fill - n) : rest[k] = before[n + k]
  <2>1. \A k \in (n + 1)..fill : before[k] \in Sample
    BY <1>1, <1>3, <1>7
  <2>2. /\ n + 1 \in Int /\ fill \in Int
        /\ fill - (n + 1) + 1 = fill - n
        /\ (n + 1 <= fill \/ fill - n = 0)
        /\ \A k \in 1..(fill - n) : n + 1 + k - 1 = n + k
    BY <1>1, <1>3
  <2>3. /\ rest \in Seq(Sample)
        /\ Len(rest) = IF n + 1 <= fill THEN fill - (n + 1) + 1 ELSE 0
        /\ \A k \in 1..(fill - (n + 1) + 1) : rest[k] = before[n + 1 + k - 1]
    BY <2>1, <2>2, SubSeqProperties
  <2> HIDE DEF rest
  <2>4. Len(rest) = fill - n
    BY <1>1, <1>3, <2>3
  <2> QED
    BY <2>2, <2>3, <2>4
<1>9. /\ taken \in Seq(Sample) /\ Len(taken) = n
      /\ \A k \in 1..n : taken[k] = before[k]
  <2>1. \A k \in 1..n : before[k] \in Sample
    BY <1>1, <1>3, <1>7
  <2>2. /\ taken \in Seq(Sample)
        /\ Len(taken) = IF 1 <= n THEN n - 1 + 1 ELSE 0
        /\ \A k \in 1..(n - 1 + 1) : taken[k] = before[1 + k - 1]
    BY <1>1, <2>1, SubSeqProperties
  <2> HIDE DEF taken
  <2> QED
    BY <1>1, <2>2
<1> HIDE DEF rest, taken
<1>10. after = rest
  <2>1. \A k \in 1..(fill - n) : after[k] = rest[k]
    BY <1>5, <1>6, <1>8
  <2> QED
    BY <1>5, <1>8, <2>1, SeqEqual
<1>11. copied = taken
  <2>1. \A k \in 1..n : k \in 1..fill
    BY <1>1, <1>3
  <2>2. \A k \in 1..n : copied[k] = taken[k]
    BY <1>2, <1>9, <2>1
  <2>3. taken \in [1..n -> Sample]
    BY <1>9, LenProperties
  <2> QED
    BY <2>2, <2>3
<1> QED
  BY <1>2, <1>10, <1>11 DEF before, after, rest, taken
-----------------------------------------------------------------------------
(* Each step as a step of SampleQueue.                                       *)

LEMMA ContentsIsQueueOf ==
  Contents = QueueOf(writeIndex, readIndex, storage)
BY DEF Contents, QueueOf

LEMMA RingFits ==
  ASSUME RingInv
  PROVE  /\ writeIndex \in Indices /\ readIndex \in Indices
         /\ storage \in [Slots -> Sample]
         /\ fillLevel(writeIndex, readIndex) <= Capacity
<1>1. /\ fillLevel(readIndex, readSeen) \in 0..(2 * Capacity - 1)
      /\ fillLevel(writeIndex, readSeen) \in 0..(2 * Capacity - 1)
      /\ fillLevel(writeIndex, readIndex) \in 0..(2 * Capacity - 1)
  BY FillLevelRange DEF RingInv, TypeOK
<1> QED
  BY <1>1, CapacityAssumption DEF RingInv, TypeOK, RingOrder

LEMMA WriteCopyIsInvisible ==
  ASSUME RingInv, CopyInv, WriteCopy
  PROVE  UNCHANGED <<Contents, prod.data, delivered>>
<1>1. UNCHANGED <<writeIndex, readIndex, prod.data, delivered>>
  BY DEF WriteCopy, RingInv, TypeOK
<1>2. \A k \in 1..fillLevel(writeIndex, readIndex) :
        storage'[RunSlot(readIndex, k - 1)] = storage[RunSlot(readIndex, k - 1)]
  <2>1. fillLevel(writeIndex, readIndex) \in 0..Capacity
    BY WriterFacts DEF WriteCopy
  <2>2. \A k \in 1..fillLevel(writeIndex, readIndex) :
          k - 1 \in 0..(fillLevel(writeIndex, readIndex) - 1)
    BY <2>1, CapacityAssumption
  <2> QED
    BY <2>2, WriteCopyStays
<1>3. QueueOf(writeIndex, readIndex, storage') = QueueOf(writeIndex, readIndex, storage)
  BY <1>2 DEF QueueOf
<1>4. Contents' = QueueOf(writeIndex, readIndex, storage')
  BY <1>1 DEF Contents, QueueOf, fillLevel, RunSlot
<1> QED
  BY <1>1, <1>3, <1>4, ContentsIsQueueOf

LEMMA WritePublishPuts ==
  ASSUME RingInv, CopyInv, WritePublish
  PROVE  \E n \in 1..Len(prod.data) : Abstract!Put(n)
<1>1. /\ prod.taken \in 1..Capacity
      /\ prod.taken <= Len(prod.data) /\ prod.data \in Seq(Sample)
      /\ fillLevel(writeIndex, readIndex) \in 0..Capacity
      /\ fillLevel(writeIndex, readIndex) + prod.taken <= Capacity
  BY WriterFacts DEF WritePublish
<1>2. prod.taken \in 1..Len(prod.data)
  BY <1>1, CapacityAssumption, LenProperties
<1>3. \A k \in 0..(prod.taken - 1) : storage[RunSlot(writeIndex, k)] = prod.data[k + 1]
  BY DEF WritePublish, CopyInv, WriterCopied
<1>4. Contents' = QueueOf(advance(writeIndex, prod.taken), readIndex, storage)
  BY DEF WritePublish, Contents, QueueOf, fillLevel, RunSlot
<1>5. Contents' = Contents \o SubSeq(prod.data, 1, prod.taken)
  BY <1>1, <1>3, <1>4, QueueOfLonger, RingFits, ContentsIsQueueOf
<1>6. Len(Contents) + prod.taken <= Capacity
  BY <1>1, QueueOfProperties, RingFits, ContentsIsQueueOf
<1>7. prod'.data = <<>> /\ UNCHANGED delivered
  BY DEF WritePublish, Idle
<1>8. Abstract!Put(prod.taken)
  BY <1>5, <1>6, <1>7 DEF Abstract!Put
<1> QED
  BY <1>2, <1>8

LEMMA ReadPublishTakes ==
  ASSUME RingInv, CopyInv, ReadPublish \/ DiscardPublish
  PROVE  \E n \in 1..Len(Contents) : Abstract!Take(n) \/ Abstract!Drop(n)
<1>1. /\ cons.taken \in 1..Capacity
      /\ cons.taken <= fillLevel(writeIndex, readIndex)
      /\ fillLevel(writeIndex, readIndex) \in 0..Capacity
  BY ReaderFacts DEF ReadPublish, DiscardPublish
<1>2. Len(Contents) = fillLevel(writeIndex, readIndex)
  BY QueueOfProperties, RingFits, ContentsIsQueueOf
<1>3. cons.taken \in 1..Len(Contents)
  BY <1>1, <1>2, CapacityAssumption
<1>4. Contents' = QueueOf(writeIndex, advance(readIndex, cons.taken), storage)
  BY DEF ReadPublish, DiscardPublish, Contents, QueueOf, fillLevel, RunSlot
<1>5. /\ Contents' = SubSeq(Contents, cons.taken + 1, Len(Contents))
      /\ [k \in 1..cons.taken |-> storage[RunSlot(readIndex, k - 1)]]
           = SubSeq(Contents, 1, cons.taken)
  BY <1>1, <1>4, QueueOfShorter, RingFits, ContentsIsQueueOf
<1>6. CASE ReadPublish
  <2>1. delivered' = SubSeq(Contents, 1, cons.taken)
    BY <1>5, <1>6 DEF ReadPublish, CopyInv, ReaderCopied
  <2>2. UNCHANGED prod.data
    BY <1>6 DEF ReadPublish
  <2>3. Abstract!Take(cons.taken)
    BY <1>5, <2>1, <2>2 DEF Abstract!Take
  <2> QED
    BY <1>3, <2>3
<1>7. CASE DiscardPublish
  <2>1. UNCHANGED <<prod.data, delivered>>
    BY <1>7 DEF DiscardPublish
  <2>2. Abstract!Drop(cons.taken)
    BY <1>5, <2>1 DEF Abstract!Drop
  <2> QED
    BY <1>3, <2>2
<1> QED
  BY <1>6, <1>7

LEMMA EmptyQueueOf ==
  ASSUME NEW s
  PROVE  QueueOf(0, 0, s) = <<>>
<1>1. fillLevel(0, 0) = 0
  BY FillLevelSelf, CapacityAssumption DEF Indices
<1> QED
  BY <1>1 DEF QueueOf

LEMMA StepImplements ==
  ASSUME RingInv, CopyInv, [Next]_vars
  PROVE  [Abstract!Next]_(Abstract!vars)
<1>1. ASSUME NEW source \in Batches, WriteBegin(source)
      PROVE  \E batch \in Abstract!Batches : Abstract!Offer(batch)
  <2>1. prod.data = <<>>
    BY <1>1 DEF WriteBegin, CopyInv, WriterCopied, Idle
  <2>2. prod'.data = source
    BY <1>1 DEF WriteBegin
  <2>3. UNCHANGED <<Contents, delivered>>
    BY <1>1 DEF WriteBegin, Contents, fillLevel, RunSlot
  <2>4. source \in Abstract!Batches
    BY DEF Batches, Abstract!Batches
  <2> QED
    BY <2>1, <2>2, <2>3, <2>4 DEF Abstract!Offer
<1>2. CASE WriteCopy
  BY <1>2, WriteCopyIsInvisible DEF Abstract!vars
<1>3. CASE WritePublish
  BY <1>3, WritePublishPuts DEF Abstract!Next
<1>4. ASSUME NEW count \in 1..MaxCount, ReadBegin(count) \/ DiscardBegin(count)
      PROVE  UNCHANGED <<Contents, prod.data, delivered>>
  BY <1>4 DEF ReadBegin, DiscardBegin, Contents, fillLevel, RunSlot
<1>5. CASE ReadCopy \/ SeeRead \/ SeeWrite \/ UNCHANGED vars
  BY <1>5 DEF ReadCopy, SeeRead, SeeWrite, vars, Contents, fillLevel, RunSlot, Abstract!vars
<1>6. CASE ReadPublish \/ DiscardPublish
  BY <1>6, ReadPublishTakes DEF Abstract!Next
<1>7. CASE Reset
  <2>1. prod.data = <<>> /\ UNCHANGED <<prod.data, delivered>>
    BY <1>7 DEF Reset, CopyInv, WriterCopied, Idle
  <2>2. Contents' = <<>>
    <3>1. Contents' = QueueOf(0, 0, storage)
      BY <1>7 DEF Reset, Contents, QueueOf, fillLevel, RunSlot
    <3> QED
      BY <3>1, EmptyQueueOf
  <2> QED
    BY <2>1, <2>2 DEF Abstract!Clear, Abstract!Next
<1> QED
  BY <1>1, <1>2, <1>3, <1>4, <1>5, <1>6, <1>7
  DEF Next, Producer, Consumer, Abstract!Next, Abstract!vars

LEMMA QueueInit == Init => Abstract!Init
<1> SUFFICES ASSUME Init PROVE Abstract!Init
  OBVIOUS
<1>1. Contents = QueueOf(0, 0, storage)
  BY DEF Init, Contents, QueueOf
<1> QED
  BY <1>1, EmptyQueueOf DEF Init, Idle, Abstract!Init

\* The ring is a bounded first-in first-out queue of samples: whatever the two
\* threads are in the middle of and however stale their views, write(), read()
\* and discard() each take effect at the instant they store their index, with
\* nothing lost, duplicated, reordered or torn.
THEOREM QueueImplemented == Spec => ImplementsQueue
<1>1. RingInv /\ CopyInv /\ [Next]_vars => [Abstract!Next]_(Abstract!vars)
  BY StepImplements
<1> QED
  BY <1>1, QueueInit, CopyInvAlways, PTL DEF Spec, ImplementsQueue, Abstract!Spec
-----------------------------------------------------------------------------
(* The slot.                                                               *)
(*                                                                         *)
(* For every set of values and of words: the three slot indices stay a     *)
(* permutation, a collected value is never torn, and publish and fetch     *)
(* implement a mailbox that keeps the newest value.                        *)
(*                                                                         *)
(* The permutation alone says nothing about contents.  What makes it       *)
(* useful is that every slot but the writer's holds one whole value: the   *)
(* writer gives a slot away only when all its words are written, and what  *)
(* it gets back it may spoil because neither the reader nor state_ names   *)
(* it any more.                                                            *)
IsWhole(content) == \E value \in Value : content = Whole(value)

\* Every slot but the writer's is whole, and the writer's as far as it got.
SlotsAreWhole ==
  /\ \A s \in Slot : s # writeSlot => IsWhole(slots[s])
  /\ writer.pc = "copy" => \A w \in Word \ writer.left : slots[writeSlot][w] = writer.value

\* The destination follows the reader's slot as far as it was copied.
DestinationFollows ==
  /\ reader.pc # "copy" => IsWhole(destination)
  /\ reader.pc = "copy" => \A w \in Word \ reader.left : destination[w] = slots[readSlot][w]

\* Only the reader takes the fresh bit away, so having seen it is having it.
FreshStaysFresh ==
  freshSeen \/ reader.pc = "exchange" => IsFresh(state)

\* The inductive invariant.
SlotInv ==
  /\ SlotTypeOK
  /\ SlotsArePermuted
  /\ SlotsAreWhole
  /\ DestinationFollows
  /\ FreshStaysFresh
-----------------------------------------------------------------------------
\* What masking and testing do to a slot index with and without its fresh bit.
LEMMA StateWord ==
  ASSUME NEW s \in Slot
  PROVE  /\ kSlotMask(s) = s /\ ~IsFresh(s)
         /\ kSlotMask(s + kFreshBit) = s /\ IsFresh(s + kFreshBit)
         /\ s + kFreshBit \in Slot \union {kFreshBit + r : r \in Slot}
<1>1. s = 0 \/ s = 1 \/ s = 2
  BY DEF Slot
<1>2. /\ kSlotMask(s) = s /\ ~IsFresh(s)
      /\ kSlotMask(s + kFreshBit) = s /\ IsFresh(s + kFreshBit)
  BY <1>1 DEF kSlotMask, IsFresh, kFreshBit
<1>3. s + kFreshBit \in {kFreshBit + r : r \in Slot}
  BY <1>1 DEF Slot, kFreshBit
<1> QED
  BY <1>2, <1>3

\* The slot named by a state word is one of the three.
LEMMA MaskInSlot ==
  ASSUME NEW word \in Slot \union {kFreshBit + r : r \in Slot}
  PROVE  kSlotMask(word) \in Slot
<1>1. CASE word \in Slot
  BY <1>1, StateWord
<1>2. CASE word \in {kFreshBit + r : r \in Slot}
  <2>1. PICK r \in Slot : word = kFreshBit + r
    BY <1>2
  <2>2. word = r + kFreshBit
    BY <2>1 DEF Slot, kFreshBit
  <2> QED
    BY <2>2, StateWord
<1> QED
  BY <1>1, <1>2

\* A whole value says which value it is.
LEMMA WholeInjective ==
  ASSUME NEW u, NEW v, Whole(u) = Whole(v)
  PROVE  u = v
<1>1. PICK w \in Word : TRUE
  BY WordAssumption
<1>2. Whole(u)[w] = u /\ Whole(v)[w] = v
  BY DEF Whole
<1> QED
  BY <1>2

LEMMA WholeType ==
  ASSUME NEW v \in Value
  PROVE  Whole(v) \in [Word -> Value]
BY DEF Whole

\* A content of which every word is v's is Whole(v).
LEMMA WholeWhenComplete ==
  ASSUME NEW content \in [Word -> Value], NEW v, \A w \in Word : content[w] = v
  PROVE  content = Whole(v)
BY DEF Whole
-----------------------------------------------------------------------------
LEMMA SlotInitInv == SlotInit => SlotInv
<1> SUFFICES ASSUME SlotInit PROVE SlotInv
  OBVIOUS
<1>1. 0 \in Slot /\ 1 \in Slot /\ 2 \in Slot
  BY DEF Slot
<1>2. kSlotMask(2) = 2 /\ ~IsFresh(2)
  BY <1>1, StateWord
<1>3. SlotTypeOK
  BY <1>1, DefaultAssumption, WholeType DEF SlotInit, SlotTypeOK, kInitialPublished
<1>4. SlotsArePermuted
  BY <1>2 DEF SlotInit, SlotsArePermuted, kInitialPublished
<1>5. SlotsAreWhole /\ DestinationFollows
  BY DefaultAssumption DEF SlotInit, SlotsAreWhole, DestinationFollows, IsWhole
<1>6. FreshStaysFresh
  BY DEF SlotInit, FreshStaysFresh
<1> QED
  BY <1>3, <1>4, <1>5, <1>6 DEF SlotInv
-----------------------------------------------------------------------------
\* PublishCopy touches the writer's slot, which nobody else names.
LEMMA PublishCopyKeepsSlotInv ==
  ASSUME SlotInv, NEW w \in Word, PublishCopy(w)
  PROVE  SlotInv'
<1> USE DEF PublishCopy
<1>1. /\ slots \in [Slot -> [Word -> Value]] /\ writeSlot \in Slot /\ readSlot \in Slot
      /\ writer.value \in Value /\ writer.left \in SUBSET Word
      /\ writer \in [pc : {"idle", "copy"}, value : Value, left : SUBSET Word]
  BY DEF SlotInv, SlotTypeOK
<1>2. slots' = [slots EXCEPT ![writeSlot] = [slots[writeSlot] EXCEPT ![w] = writer.value]]
  BY DEF PublishCopy
<1>3. /\ slots'[writeSlot] = [slots[writeSlot] EXCEPT ![w] = writer.value]
      /\ \A s \in Slot : s # writeSlot => slots'[s] = slots[s]
      /\ slots' \in [Slot -> [Word -> Value]]
  BY <1>1, <1>2
<1>4. /\ writer' \in [pc : {"idle", "copy"}, value : Value, left : SUBSET Word]
      /\ writer'.pc = "copy" /\ writer'.value = writer.value /\ writer'.left = writer.left \ {w}
  BY <1>1
<1>5. SlotTypeOK'
  BY <1>3, <1>4 DEF SlotInv, SlotTypeOK
<1>6. SlotsArePermuted' /\ FreshStaysFresh'
  BY DEF SlotInv, SlotsArePermuted, FreshStaysFresh
<1>7. SlotsAreWhole'
  <2>1. \A s \in Slot : s # writeSlot' => IsWhole(slots'[s])
    BY <1>3 DEF SlotInv, SlotsAreWhole
  <2>2. \A v \in Word \ writer'.left : slots'[writeSlot][v] = writer'.value
    <3> SUFFICES ASSUME NEW v \in Word, v \notin writer'.left
                 PROVE  slots'[writeSlot][v] = writer.value
      BY <1>4
    <3>1. CASE v = w
      BY <3>1, <1>1, <1>3
    <3>2. CASE v # w
      BY <3>2, <1>1, <1>3, <1>4 DEF SlotInv, SlotsAreWhole
    <3> QED
      BY <3>1, <3>2
  <2> QED
    BY <2>1, <2>2 DEF SlotsAreWhole, IsWhole
<1>8. DestinationFollows'
  BY <1>1, <1>3 DEF SlotInv, SlotsArePermuted, DestinationFollows, IsWhole
<1> QED
  BY <1>5, <1>6, <1>7, <1>8 DEF SlotInv

\* The writer gives away a slot it has completed.
LEMMA PublishExchangeKeepsSlotInv ==
  ASSUME SlotInv, PublishExchange
  PROVE  SlotInv'
<1> USE DEF PublishExchange
<1>1. /\ writeSlot \in Slot /\ readSlot \in Slot /\ slots \in [Slot -> [Word -> Value]]
      /\ writer.value \in Value
      /\ writer \in [pc : {"idle", "copy"}, value : Value, left : SUBSET Word]
      /\ state \in Slot \union {kFreshBit + r : r \in Slot}
  BY DEF SlotInv, SlotTypeOK
<1>2. kSlotMask(state') = writeSlot /\ IsFresh(state')
      /\ state' \in Slot \union {kFreshBit + r : r \in Slot}
  BY <1>1, StateWord
<1>3. writeSlot' \in Slot
  BY <1>1, MaskInSlot
<1>4. SlotTypeOK'
  BY <1>1, <1>2, <1>3 DEF SlotInv, SlotTypeOK
<1>5. SlotsArePermuted'
  BY <1>2 DEF SlotInv, SlotsArePermuted
<1>6. slots[writeSlot] = Whole(writer.value)
  BY <1>1, WholeWhenComplete DEF SlotInv, SlotsAreWhole
<1>7. SlotsAreWhole'
  BY <1>1, <1>6 DEF SlotInv, SlotsAreWhole, IsWhole
<1>8. DestinationFollows' /\ FreshStaysFresh'
  BY <1>2 DEF SlotInv, DestinationFollows, FreshStaysFresh, IsWhole
<1> QED
  BY <1>4, <1>5, <1>7, <1>8 DEF SlotInv

\* The reader swaps its slot for the published one.
LEMMA FetchExchangeKeepsSlotInv ==
  ASSUME SlotInv, FetchExchange
  PROVE  SlotInv'
<1> USE DEF FetchExchange
<1>1. /\ writeSlot \in Slot /\ readSlot \in Slot
      /\ reader \in [pc : {"idle", "exchange", "copy"}, left : SUBSET Word]
      /\ state \in Slot \union {kFreshBit + r : r \in Slot}
  BY DEF SlotInv, SlotTypeOK
<1>2. kSlotMask(state') = readSlot /\ readSlot' \in Slot
  BY <1>1, StateWord, MaskInSlot
<1>3. SlotTypeOK'
  BY <1>1, <1>2 DEF SlotInv, SlotTypeOK
<1>4. SlotsArePermuted' /\ SlotsAreWhole'
  BY <1>2 DEF SlotInv, SlotsArePermuted, SlotsAreWhole, IsWhole
<1>5. DestinationFollows' /\ FreshStaysFresh'
  BY DEF DestinationFollows, FreshStaysFresh
<1> QED
  BY <1>3, <1>4, <1>5 DEF SlotInv

LEMMA FetchCopyKeepsSlotInv ==
  ASSUME SlotInv, NEW w \in Word, FetchCopy(w)
  PROVE  SlotInv'
<1> USE DEF FetchCopy
<1>1. /\ slots \in [Slot -> [Word -> Value]] /\ readSlot \in Slot
      /\ destination \in [Word -> Value]
      /\ reader \in [pc : {"idle", "exchange", "copy"}, left : SUBSET Word]
  BY DEF SlotInv, SlotTypeOK
<1>2. destination' = [destination EXCEPT ![w] = slots[readSlot][w]]
  OBVIOUS
<1>3. /\ destination' \in [Word -> Value]
      /\ destination'[w] = slots[readSlot][w]
      /\ \A v \in Word : v # w => destination'[v] = destination[v]
  BY <1>1, <1>2
<1>4. /\ reader' \in [pc : {"idle", "exchange", "copy"}, left : SUBSET Word]
      /\ reader'.pc = "copy" /\ reader'.left = reader.left \ {w}
  BY <1>1
<1>5. SlotTypeOK'
  BY <1>3, <1>4 DEF SlotInv, SlotTypeOK
<1>6. SlotsArePermuted' /\ SlotsAreWhole' /\ FreshStaysFresh'
  BY <1>4 DEF SlotInv, SlotsArePermuted, SlotsAreWhole, FreshStaysFresh, IsWhole
<1>7. \A v \in Word \ reader'.left : destination'[v] = slots'[readSlot'][v]
  BY <1>1, <1>3, <1>4 DEF SlotInv, DestinationFollows
<1>8. DestinationFollows'
  BY <1>4, <1>7 DEF DestinationFollows
<1> QED
  BY <1>5, <1>6, <1>8 DEF SlotInv

\* The copy is complete: the destination is what the reader's slot holds.
LEMMA FetchReturnKeepsSlotInv ==
  ASSUME SlotInv, FetchReturn
  PROVE  SlotInv' /\ destination = slots[readSlot]
<1> USE DEF FetchReturn
<1>1. /\ slots \in [Slot -> [Word -> Value]] /\ readSlot \in Slot
      /\ destination \in [Word -> Value]
      /\ reader \in [pc : {"idle", "exchange", "copy"}, left : SUBSET Word]
  BY DEF SlotInv, SlotTypeOK
<1>2. \A w \in Word : destination[w] = slots[readSlot][w]
  BY DEF SlotInv, DestinationFollows
<1>3. destination = slots[readSlot]
  BY <1>1, <1>2
<1>4. IsWhole(destination)
  BY <1>1, <1>3 DEF SlotInv, SlotsArePermuted, SlotsAreWhole
<1>5. reader'.pc = "idle" /\ reader' \in [pc : {"idle", "exchange", "copy"}, left : SUBSET Word]
  BY <1>1
<1>6. SlotTypeOK' /\ SlotsArePermuted' /\ SlotsAreWhole' /\ FreshStaysFresh'
  BY <1>5 DEF SlotInv, SlotTypeOK, SlotsArePermuted, SlotsAreWhole, FreshStaysFresh, IsWhole
<1>7. DestinationFollows'
  BY <1>4, <1>5 DEF DestinationFollows, IsWhole
<1> QED
  BY <1>3, <1>6, <1>7 DEF SlotInv

\* The actions that move no data.
LEMMA OtherStepsKeepSlotInv ==
  ASSUME SlotInv,
         \/ \E value \in Value : PublishBegin(value)
         \/ FetchBegin
         \/ SeePublish
         \/ UNCHANGED slotVars
  PROVE  SlotInv'
<1>1. ASSUME NEW value \in Value, PublishBegin(value) PROVE SlotInv'
  <2>1. /\ writer' \in [pc : {"idle", "copy"}, value : Value, left : SUBSET Word]
        /\ writer'.left = Word
    BY <1>1 DEF PublishBegin
  <2>2. SlotTypeOK'
    BY <1>1, <2>1 DEF SlotInv, SlotTypeOK, PublishBegin
  <2>3. SlotsArePermuted' /\ SlotsAreWhole' /\ DestinationFollows' /\ FreshStaysFresh'
    BY <1>1, <2>1 DEF SlotInv, SlotsArePermuted, SlotsAreWhole, DestinationFollows,
                      FreshStaysFresh, IsWhole, PublishBegin
  <2> QED
    BY <2>2, <2>3 DEF SlotInv
<1>2. ASSUME FetchBegin PROVE SlotInv'
  <2>1. /\ reader' \in [pc : {"idle", "exchange", "copy"}, left : SUBSET Word]
        /\ reader'.pc = "exchange"
    BY <1>2 DEF FetchBegin, SlotInv, SlotTypeOK
  <2>2. SlotTypeOK'
    BY <1>2, <2>1 DEF SlotInv, SlotTypeOK, FetchBegin
  <2>3. SlotsArePermuted' /\ SlotsAreWhole' /\ DestinationFollows' /\ FreshStaysFresh'
    BY <1>2, <2>1 DEF SlotInv, SlotsArePermuted, SlotsAreWhole, DestinationFollows,
                      FreshStaysFresh, IsWhole, FetchBegin
  <2> QED
    BY <2>2, <2>3 DEF SlotInv
<1>3. ASSUME SeePublish PROVE SlotInv'
  <2>1. freshSeen' \in BOOLEAN
    BY <1>3 DEF SeePublish, IsFresh
  <2> QED
    BY <1>3, <2>1 DEF SeePublish, SlotInv, SlotTypeOK, SlotsArePermuted, SlotsAreWhole,
                      DestinationFollows, FreshStaysFresh, IsWhole
<1>4. ASSUME UNCHANGED slotVars PROVE SlotInv'
  BY <1>4 DEF slotVars, SlotInv, SlotTypeOK, SlotsArePermuted, SlotsAreWhole, DestinationFollows,
              FreshStaysFresh, IsWhole
<1> QED
  BY <1>1, <1>2, <1>3, <1>4

LEMMA SlotStepInv == SlotInv /\ [SlotNext]_slotVars => SlotInv'
<1> SUFFICES ASSUME SlotInv, [SlotNext]_slotVars PROVE SlotInv'
  OBVIOUS
<1>1. CASE Publish
  BY <1>1, OtherStepsKeepSlotInv, PublishCopyKeepsSlotInv, PublishExchangeKeepsSlotInv DEF Publish
<1>2. CASE Fetch
  BY <1>2, OtherStepsKeepSlotInv, FetchExchangeKeepsSlotInv, FetchCopyKeepsSlotInv,
     FetchReturnKeepsSlotInv DEF Fetch
<1>3. CASE SeePublish \/ UNCHANGED slotVars
  BY <1>3, OtherStepsKeepSlotInv
<1> QED
  BY <1>1, <1>2, <1>3 DEF SlotNext

LEMMA SlotInvAlways == SlotSpec => []SlotInv
<1> QED
  BY SlotInitInv, SlotStepInv, PTL DEF SlotSpec
-----------------------------------------------------------------------------
\* Every variable of the slot keeps its type, for any set of values and words.
THEOREM SlotTypeCorrect == SlotSpec => []SlotTypeOK
<1>1. SlotInv => SlotTypeOK
  BY DEF SlotInv
<1> QED
  BY <1>1, SlotInvAlways, PTL

\* What the class comment argues in words: the writer's slot, the reader's slot
\* and the published slot are a permutation of {0, 1, 2}.
THEOREM SlotsPermuted == SlotSpec => []SlotsArePermuted
<1>1. SlotInv => SlotsArePermuted
  BY DEF SlotInv
<1> QED
  BY <1>1, SlotInvAlways, PTL

LEMMA SlotInvHolds == SlotInv => NoTornValue
BY DEF SlotInv, DestinationFollows, NoTornValue, IsWhole

\* The callback never configures a filter with words of two settings.
THEOREM NeverTorn == SlotSpec => []NoTornValue
BY SlotInvHolds, SlotInvAlways, PTL
-----------------------------------------------------------------------------
(* The refinement.  A publish takes effect at its exchange, a fetch at its *)
(* exchange; every other step leaves the mailbox as it is.                 *)

LEMMA ValueOfWhole ==
  ASSUME NEW v \in Value
  PROVE  ValueOf(Whole(v)) = v
<1>1. \E value \in Value : Whole(v) = Whole(value)
  OBVIOUS
<1>2. ValueOf(Whole(v)) \in Value /\ Whole(v) = Whole(ValueOf(Whole(v)))
  BY <1>1 DEF ValueOf
<1> QED
  BY <1>2, WholeInjective

LEMMA InitBox == SlotInit => Box!Init
<1> SUFFICES ASSUME SlotInit PROVE Waiting = Nothing /\ Received = Default
  BY DEF Box!Init
<1>1. 2 \in Slot
  BY DEF Slot
<1>2. ~IsFresh(state)
  BY <1>1, StateWord DEF SlotInit, kInitialPublished
<1>3. Waiting = Nothing
  BY <1>2 DEF Waiting
<1>4. Received = ValueOf(Whole(Default))
  BY DEF SlotInit, Received
<1> QED
  BY <1>3, <1>4, ValueOfWhole, DefaultAssumption

\* The exchange of publish() is the mailbox's Publish.
LEMMA PublishExchangeIsPublish ==
  ASSUME SlotInv, PublishExchange
  PROVE  \E value \in Value : Box!Publish(value)
<1> USE DEF PublishExchange
<1>1. /\ writeSlot \in Slot /\ slots \in [Slot -> [Word -> Value]] /\ writer.value \in Value
  BY DEF SlotInv, SlotTypeOK
<1>2. kSlotMask(state') = writeSlot /\ IsFresh(state')
  BY <1>1, StateWord
<1>3. slots[writeSlot] = Whole(writer.value)
  BY <1>1, WholeWhenComplete DEF SlotInv, SlotsAreWhole
<1>4. Waiting' = ValueOf(Whole(writer.value))
  BY <1>2, <1>3 DEF Waiting
<1>5. Waiting' = writer.value
  BY <1>1, <1>4, ValueOfWhole
<1>6. Received' = Received
  BY DEF Received
<1> QED
  BY <1>1, <1>5, <1>6 DEF Box!Publish

\* The exchange of fetch() is the mailbox's Collect.
LEMMA FetchExchangeIsCollect ==
  ASSUME SlotInv, FetchExchange
  PROVE  Box!Collect
<1> USE DEF FetchExchange
<1>1. /\ readSlot \in Slot /\ IsFresh(state)
      /\ state \in Slot \union {kFreshBit + r : r \in Slot}
  BY DEF SlotInv, SlotTypeOK, FreshStaysFresh
<1>2. kSlotMask(state) \in Slot /\ kSlotMask(state) # writeSlot
  BY <1>1, MaskInSlot DEF SlotInv, SlotsArePermuted
<1>3. PICK value \in Value : slots[kSlotMask(state)] = Whole(value)
  BY <1>2 DEF SlotInv, SlotsAreWhole, IsWhole
<1>4. Waiting = value
  BY <1>1, <1>3, ValueOfWhole DEF Waiting
<1>5. Waiting # Nothing
  BY <1>4, NothingAssumption
<1>6. Received' = value
  BY <1>3, ValueOfWhole DEF Received
<1>7. Waiting' = Nothing
  BY <1>1, StateWord DEF Waiting
<1> QED
  BY <1>4, <1>5, <1>6, <1>7 DEF Box!Collect

\* The copy of publish() goes to a slot the mailbox does not see.
LEMMA PublishCopyIsInvisible ==
  ASSUME SlotInv, NEW w \in Word, PublishCopy(w)
  PROVE  UNCHANGED <<Waiting, Received>>
<1> USE DEF PublishCopy
<1>1. /\ slots \in [Slot -> [Word -> Value]] /\ writeSlot \in Slot /\ readSlot \in Slot
      /\ state \in Slot \union {kFreshBit + r : r \in Slot}
  BY DEF SlotInv, SlotTypeOK
<1>2. slots' = [slots EXCEPT ![writeSlot] = [slots[writeSlot] EXCEPT ![w] = writer.value]]
  BY DEF PublishCopy
<1>3. \A s \in Slot : s # writeSlot => slots'[s] = slots[s]
  BY <1>1, <1>2
<1>4. /\ kSlotMask(state) \in Slot /\ kSlotMask(state) # writeSlot
      /\ readSlot # writeSlot
  BY <1>1, MaskInSlot DEF SlotInv, SlotsArePermuted
<1>5. /\ slots'[kSlotMask(state)] = slots[kSlotMask(state)]
      /\ slots'[readSlot] = slots[readSlot]
  BY <1>1, <1>3, <1>4
<1> QED
  BY <1>5 DEF Waiting, Received

LEMMA NextImplementsBox == SlotInv /\ [SlotNext]_slotVars => [Box!Next]_(Box!vars)
<1> SUFFICES ASSUME SlotInv, [SlotNext]_slotVars, ~Box!Next
             PROVE  UNCHANGED <<Waiting, Received>>
  BY DEF Box!vars
<1>1. ASSUME NEW value \in Value, PublishBegin(value) PROVE UNCHANGED <<Waiting, Received>>
  BY <1>1 DEF PublishBegin, Waiting, Received
<1>2. ASSUME NEW w \in Word, PublishCopy(w) PROVE UNCHANGED <<Waiting, Received>>
  BY <1>2, PublishCopyIsInvisible
<1>3. ~PublishExchange /\ ~FetchExchange
  BY PublishExchangeIsPublish, FetchExchangeIsCollect DEF Box!Next
<1>4. ASSUME FetchBegin PROVE UNCHANGED <<Waiting, Received>>
  <2>1. reader.pc # "copy" /\ reader'.pc # "copy"
    BY <1>4 DEF FetchBegin, SlotInv, SlotTypeOK
  <2> QED
    BY <1>4, <2>1 DEF FetchBegin, Waiting, Received
<1>5. ASSUME NEW w \in Word, FetchCopy(w) PROVE UNCHANGED <<Waiting, Received>>
  <2>1. reader.pc = "copy" /\ reader'.pc = "copy"
    BY <1>5 DEF FetchCopy, SlotInv, SlotTypeOK
  <2> QED
    BY <1>5, <2>1 DEF FetchCopy, Waiting, Received
<1>6. ASSUME FetchReturn PROVE UNCHANGED <<Waiting, Received>>
  <2>1. reader.pc = "copy" /\ reader'.pc # "copy"
    BY <1>6 DEF FetchReturn, SlotInv, SlotTypeOK
  <2> QED
    BY <1>6, <2>1, FetchReturnKeepsSlotInv DEF FetchReturn, Waiting, Received
<1>7. ASSUME SeePublish PROVE UNCHANGED <<Waiting, Received>>
  BY <1>7 DEF SeePublish, Waiting, Received
<1>8. ASSUME UNCHANGED slotVars PROVE UNCHANGED <<Waiting, Received>>
  BY <1>8 DEF slotVars, Waiting, Received
<1> QED
  BY <1>1, <1>2, <1>3, <1>4, <1>5, <1>6, <1>7, <1>8 DEF SlotNext, Publish, Fetch

\* publish() and fetch() implement the mailbox: what a fetch returns is the
\* value published last, whole, and no value is returned twice.
THEOREM MailboxImplemented == SlotSpec => ImplementsMailbox
<1> QED
  BY InitBox, NextImplementsBox, SlotInvAlways, PTL DEF SlotSpec, ImplementsMailbox, Box!Spec
-----------------------------------------------------------------------------
(* The stage.                                                              *)
(*                                                                         *)
(* For every set of settings, any length of the crossfade and of the       *)
(* blocks: a setting is heard whole or on its way to the next, and from    *)
(* one sample to the next no weight moves by more than one part of the     *)
(* crossfade.                                                              *)
(*                                                                         *)
(* What makes it inductive is that the stage knows what was heard last:    *)
(* unless a reset has cut the sound off, the last sample is the mix that   *)
(* the stage stands at, and whatever a change does to the stage leaves     *)
(* that mix as it is.                                                      *)
Mixture == [Path -> Nat]

\* The processor that is heard is configured with the settings that are said to
\* be active, and so is the one that is being faded in.
WellConfigured(s) ==
  /\ ~s.active.bypassed => s.processors[s.activeIndex].config = s.active.processor
  /\ s.fadeRemaining > 0 => s.processors[incomingIndex(s)].config = s.target.processor

\* The mix the stage stands at.
Standing(s) == Mix(s, IF s.fadeRemaining = 0 THEN 0 ELSE crossfadeFrames - s.fadeRemaining)

StageInv(s) == s \in Stage /\ s.fadeRemaining <= crossfadeFrames /\ WellConfigured(s)

PreviewInv == /\ PreviewTypeOK
              /\ WellConfigured(stage)
              /\ left > 0 => prepared
              /\ stage.firstBlock => heard = <<>>
              /\ heard # <<>> => heard[Len(heard)] = Standing(stage)
              /\ NoStepInOutput
-----------------------------------------------------------------------------
(* The stage's own steps.                                                  *)

LEMMA StageFields ==
  ASSUME NEW s \in Stage
  PROVE  /\ s.activeIndex \in {0, 1} /\ incomingIndex(s) \in {0, 1}
         /\ incomingIndex(s) # s.activeIndex
         /\ s.active \in Published /\ s.target \in Published /\ s.fadeRemaining \in Nat
         /\ s.firstBlock \in BOOLEAN
         /\ s.processors \in [{0, 1} -> Processor]
         /\ \A i \in {0, 1} : s.processors[i].config \in Settings
BY DEF Stage, incomingIndex, Processor

LEMMA Paths ==
  ASSUME NEW s \in Stage
  PROVE  ActivePath(s) \in Path /\ IncomingPath(s) \in Path
BY StageFields DEF ActivePath, IncomingPath, Path

\* A stage with other processors of the same configurations sounds the same.
LEMMA SameSound ==
  ASSUME NEW s \in Stage, NEW processors \in [{0, 1} -> Processor],
         \A i \in {0, 1} : processors[i].config = s.processors[i].config
  PROVE  LET t == [s EXCEPT !.processors = processors] IN
         /\ t \in Stage /\ t.fadeRemaining = s.fadeRemaining /\ t.firstBlock = s.firstBlock
         /\ t.active = s.active /\ t.target = s.target /\ t.activeIndex = s.activeIndex
         /\ WellConfigured(s) => WellConfigured(t)
         /\ ActivePath(t) = ActivePath(s) /\ IncomingPath(t) = IncomingPath(s)
<1> DEFINE t == [s EXCEPT !.processors = processors]
<1>1. /\ t \in Stage /\ t.fadeRemaining = s.fadeRemaining /\ t.firstBlock = s.firstBlock
      /\ t.active = s.active /\ t.target = s.target /\ t.activeIndex = s.activeIndex
      /\ t.processors = processors
  BY DEF Stage
<1> HIDE DEF t
<1>2. incomingIndex(t) = incomingIndex(s)
  BY <1>1 DEF incomingIndex
<1>3. ActivePath(t) = ActivePath(s) /\ IncomingPath(t) = IncomingPath(s)
  BY <1>1, <1>2, StageFields DEF ActivePath, IncomingPath
<1>4. WellConfigured(s) => WellConfigured(t)
  BY <1>1, <1>2, StageFields DEF WellConfigured
<1> QED
  BY <1>1, <1>3, <1>4 DEF t

LEMMA AgedProcessors ==
  ASSUME NEW s \in Stage
  PROVE  /\ [i \in {0, 1} |-> Aged(s.processors[i])] \in [{0, 1} -> Processor]
         /\ \A i \in {0, 1} : Aged(s.processors[i]).config = s.processors[i].config
<1>1. \A p \in Processor : Aged(p) \in Processor /\ Aged(p).config = p.config
  BY DEF Aged, Processor
<1> QED
  BY <1>1, StageFields

LEMMA ExercisedStage ==
  ASSUME NEW s \in Stage
  PROVE  LET t == Exercised(s) IN
         /\ t \in Stage /\ t.fadeRemaining = s.fadeRemaining /\ t.firstBlock = s.firstBlock
         /\ t.active = s.active /\ t.target = s.target /\ t.activeIndex = s.activeIndex
         /\ WellConfigured(s) => WellConfigured(t)
         /\ ActivePath(t) = ActivePath(s) /\ IncomingPath(t) = IncomingPath(s)
<1> DEFINE ps == [i \in {0, 1} |-> IF Ran(s, i) THEN [s.processors[i] EXCEPT !.memory = "current"]
                                   ELSE Aged(s.processors[i])]
<1>1. \A p \in Processor : /\ Aged(p) \in Processor /\ Aged(p).config = p.config
                           /\ [p EXCEPT !.memory = "current"] \in Processor
                           /\ [p EXCEPT !.memory = "current"].config = p.config
  BY DEF Aged, Processor
<1>2. ps \in [{0, 1} -> Processor] /\ \A i \in {0, 1} : ps[i].config = s.processors[i].config
  BY <1>1, StageFields
<1>3. Exercised(s) = [s EXCEPT !.processors = ps]
  BY DEF Exercised
<1> HIDE DEF ps
<1> QED
  BY <1>2, <1>3, SameSound

\* A reset adopts what was being faded in, and is heard from its start.
LEMMA ResetKeeps ==
  ASSUME NEW s \in Stage, WellConfigured(s)
  PROVE  LET t == ResetStage(s) IN
         t \in Stage /\ t.fadeRemaining = 0 /\ WellConfigured(t)
<1> DEFINE t == ResetStage(s)
           ps == [i \in {0, 1} |-> Cleared(s.processors[i])]
           a == IF s.fadeRemaining > 0 THEN s.target ELSE s.active
           k == IF s.fadeRemaining > 0 THEN incomingIndex(s) ELSE s.activeIndex
<1>1. \A p \in Processor : Cleared(p) \in Processor /\ Cleared(p).config = p.config
  BY DEF Cleared, Processor
<1>2. ps \in [{0, 1} -> Processor] /\ \A i \in {0, 1} : ps[i].config = s.processors[i].config
  BY <1>1, StageFields
<1>3. t = [s EXCEPT !.active = a, !.activeIndex = k, !.fadeRemaining = 0, !.firstBlock = TRUE,
                    !.processors = ps]
  BY DEF ResetStage, Stage
<1>4. a \in Published /\ k \in {0, 1}
  BY StageFields
<1>5. ~a.bypassed => s.processors[k].config = a.processor
  BY StageFields DEF WellConfigured
<1> HIDE DEF ps, a, k, t
<1>6. t \in Stage /\ t.fadeRemaining = 0 /\ t.active = a /\ t.activeIndex = k /\ t.processors = ps
  BY <1>2, <1>3, <1>4 DEF Stage
<1>7. WellConfigured(t)
  BY <1>2, <1>4, <1>5, <1>6 DEF WellConfigured
<1> QED
  BY <1>6, <1>7 DEF t

\* A change is taken up: at once where nothing is heard of it, and otherwise as
\* the target of a fade that starts from what is heard.
LEMMA TakeUpKeeps ==
  ASSUME NEW s \in Stage, NEW incoming \in Published, WellConfigured(s), s.fadeRemaining = 0,
         crossfadeFrames \in Nat \ {0}
  PROVE  LET t == TakeUp(s, incoming) IN
         /\ StageInv(t)
         /\ s.firstBlock \/ Standing(t) = Standing(s)
<1> DEFINE t == TakeUp(s, incoming)
           i == s.activeIndex
           j == incomingIndex(s)
<1>1. \A p \in Processor, settings \in Settings :
        /\ Configured(p, settings) \in Processor /\ Configured(p, settings).config = settings
        /\ Cleared(p) \in Processor
  BY DEF Configured, Processor, Cleared
<1>2. /\ incoming.processor \in Settings /\ incoming.bypassed \in BOOLEAN
      /\ s.active.processor \in Settings /\ s.active.bypassed \in BOOLEAN
  BY StageFields DEF Published
<1>3. CASE incoming = s.active
  BY <1>3 DEF TakeUp, StageInv, Standing
<1>4. CASE incoming # s.active /\ (s.firstBlock \/ (s.active.bypassed /\ incoming.bypassed))
  <2> DEFINE p == Configured(Cleared(s.processors[i]), incoming.processor)
  <2>1. t = [s EXCEPT !.active = incoming, !.processors = [s.processors EXCEPT ![i] = p]]
    BY <1>4, StageFields DEF TakeUp, Stage
  <2>2. p \in Processor /\ p.config = incoming.processor
    BY <1>1, <1>2, StageFields
  <2> HIDE DEF p, t
  <2>3. /\ t \in Stage /\ t.active = incoming /\ t.activeIndex = i /\ t.fadeRemaining = 0
        /\ t.target = s.target /\ t.processors[i].config = incoming.processor
    BY <2>1, <2>2, StageFields DEF Stage
  <2>4. WellConfigured(t)
    BY <2>3 DEF WellConfigured
  <2>5. StageInv(t)
    BY <2>3, <2>4 DEF StageInv
  <2>6. s.active.bypassed /\ incoming.bypassed => Standing(t) = Standing(s)
    <3> SUFFICES ASSUME s.active.bypassed, incoming.bypassed PROVE Standing(t) = Standing(s)
      OBVIOUS
    <3>1. ActivePath(t) = ActivePath(s)
      BY <2>3 DEF ActivePath
    <3>2. Standing(t) = Mix(t, 0) /\ Standing(s) = Mix(s, 0)
      BY <2>3 DEF Standing
    <3>3. Mix(t, 0) = Mix(s, 0)
      BY <3>1 DEF Mix
    <3> QED
      BY <3>2, <3>3
  <2> QED
    BY <1>4, <2>5, <2>6 DEF t
<1>5. CASE incoming # s.active /\ ~(s.firstBlock \/ (s.active.bypassed /\ incoming.bypassed))
  <2> DEFINE p == Configured(s.processors[i], incoming.processor)
  <2>1. t = [s EXCEPT !.target = incoming, !.processors = [s.processors EXCEPT ![j] = p],
                      !.fadeRemaining = crossfadeFrames]
    BY <1>5, StageFields DEF TakeUp, Stage
  <2>2. p \in Processor /\ p.config = incoming.processor
    BY <1>1, <1>2, StageFields
  <2> HIDE DEF p, t
  <2>3. /\ t \in Stage /\ t.active = s.active /\ t.activeIndex = i /\ t.target = incoming
        /\ t.fadeRemaining = crossfadeFrames /\ t.processors[j].config = incoming.processor
        /\ t.processors[i] = s.processors[i]
    BY <2>1, <2>2, StageFields DEF Stage
  <2>4. WellConfigured(t)
    BY <2>3 DEF WellConfigured, incomingIndex
  <2>5. StageInv(t)
    BY <2>3, <2>4 DEF StageInv
  <2>6. Standing(t) = Standing(s)
    <3>1. ActivePath(t) = ActivePath(s)
      BY <2>3 DEF ActivePath
    <3>2. Standing(t) = Mix(t, 0) /\ Standing(s) = Mix(s, 0)
      BY <2>3 DEF Standing
    <3>3. Mix(t, 0) = Mix(s, 0)
      BY <3>1 DEF Mix
    <3> QED
      BY <3>2, <3>3
  <2> QED
    BY <2>5, <2>6 DEF t
<1> QED
  BY <1>3, <1>4, <1>5
-----------------------------------------------------------------------------
(* A piece: its sound, and where it leaves the stage.                      *)

\* The mix after `n` frames of a piece that starts at s.
After(s, n) ==
  IF n <= s.fadeRemaining /\ s.fadeRemaining > 0
  THEN Mix(s, crossfadeFrames - s.fadeRemaining + n)
  ELSE [p \in Path |-> IF p = (IF s.fadeRemaining > 0 THEN IncomingPath(s) ELSE ActivePath(s))
                       THEN crossfadeFrames ELSE 0]

LEMMA StillMix ==
  ASSUME NEW s \in Stage, crossfadeFrames \in Nat \ {0}
  PROVE  Mix(s, 0) = [p \in Path |-> IF p = ActivePath(s) THEN crossfadeFrames ELSE 0]
<1>1. \A p \in Path : (IF p = ActivePath(s) THEN crossfadeFrames - 0 ELSE 0)
                      + (IF p = IncomingPath(s) THEN 0 ELSE 0)
                      = IF p = ActivePath(s) THEN crossfadeFrames ELSE 0
  OBVIOUS
<1> QED
  BY <1>1 DEF Mix

\* The mix moves by one part of the crossfade at a time.
LEMMA SmallSteps ==
  ASSUME NEW s, StageInv(s), crossfadeFrames \in Nat \ {0}, NEW n \in Nat, NEW p \in Path
  PROVE  /\ After(s, n) \in Mixture
         /\ Apart(After(s, n)[p], After(s, n + 1)[p]) <= 1
         /\ After(s, 0) = Standing(s)
<1>1. s \in Stage /\ s.fadeRemaining \in Nat /\ s.fadeRemaining <= crossfadeFrames
  BY StageFields DEF StageInv
<1>2. ActivePath(s) \in Path /\ IncomingPath(s) \in Path
  BY <1>1, Paths
<1>3. \A m \in Nat : m <= s.fadeRemaining /\ s.fadeRemaining > 0 =>
        /\ After(s, m) \in Mixture
        /\ \A q \in Path : After(s, m)[q] = 
             (IF q = ActivePath(s) THEN s.fadeRemaining - m ELSE 0)
             + (IF q = IncomingPath(s) THEN crossfadeFrames - s.fadeRemaining + m ELSE 0)
  BY <1>1 DEF After, Mix, Mixture
<1>4. \A m \in Nat : m > s.fadeRemaining /\ s.fadeRemaining > 0 =>
        /\ After(s, m) \in Mixture
        /\ \A q \in Path : After(s, m)[q] = IF q = IncomingPath(s) THEN crossfadeFrames ELSE 0
  BY <1>1 DEF After, Mixture
<1>5. \A m \in Nat : s.fadeRemaining = 0 =>
        /\ After(s, m) \in Mixture
        /\ \A q \in Path : After(s, m)[q] = IF q = ActivePath(s) THEN crossfadeFrames ELSE 0
  BY <1>1 DEF After, Mixture
<1>6. After(s, n) \in Mixture
  BY <1>1, <1>3, <1>4, <1>5
<1>7. Apart(After(s, n)[p], After(s, n + 1)[p]) <= 1
  <2>1. CASE s.fadeRemaining = 0
    BY <1>5, <2>1 DEF Apart
  <2>2. CASE s.fadeRemaining > 0 /\ n + 1 <= s.fadeRemaining
    BY <1>1, <1>3, <2>2 DEF Apart
  <2>3. CASE s.fadeRemaining > 0 /\ n = s.fadeRemaining
    BY <1>1, <1>3, <1>4, <2>3 DEF Apart
  <2>4. CASE s.fadeRemaining > 0 /\ n > s.fadeRemaining
    BY <1>1, <1>4, <2>4 DEF Apart
  <2> QED
    BY <1>1, <2>1, <2>2, <2>3, <2>4
<1>8. After(s, 0) = Standing(s)
  BY <1>1, StillMix DEF After, Standing
<1> QED
  BY <1>6, <1>7, <1>8

\* Where the stage stands after a piece is what the piece ended on.
LEMMA FadedKeeps ==
  ASSUME NEW s, StageInv(s), crossfadeFrames \in Nat \ {0}, NEW count \in Nat
  PROVE  LET t == Faded(s, count) IN
         /\ StageInv(t) /\ t.firstBlock = s.firstBlock
         /\ Standing(t) = After(s, count)
         /\ s.fadeRemaining = 0 => t = s
         /\ s.fadeRemaining > 0 /\ s.fadeRemaining <= count => ActivePath(t) = IncomingPath(s)
<1> DEFINE t == Faded(s, count)
<1>1. s \in Stage /\ s.fadeRemaining \in Nat /\ s.fadeRemaining <= crossfadeFrames
      /\ WellConfigured(s)
  BY StageFields DEF StageInv
<1>2. CASE s.fadeRemaining = 0
  <2>1. t = s
    BY <1>2 DEF Faded
  <2>2. Standing(s) = [p \in Path |-> IF p = ActivePath(s) THEN crossfadeFrames ELSE 0]
    BY <1>1, <1>2, StillMix DEF Standing
  <2>3. After(s, count) = [p \in Path |-> IF p = ActivePath(s) THEN crossfadeFrames ELSE 0]
    BY <1>2 DEF After
  <2> HIDE DEF t
  <2> QED
    BY <1>2, <2>1, <2>2, <2>3 DEF t
<1>3. CASE s.fadeRemaining > count
  <2>1. t = [s EXCEPT !.fadeRemaining = s.fadeRemaining - count]
    BY <1>1, <1>3 DEF Faded
  <2>2. s.fadeRemaining - count \in Nat /\ s.fadeRemaining - count > 0
        /\ s.fadeRemaining - count <= crossfadeFrames
    BY <1>1, <1>3
  <2> HIDE DEF t
  <2>3. /\ t \in Stage /\ t.fadeRemaining = s.fadeRemaining - count /\ t.active = s.active
        /\ t.target = s.target /\ t.activeIndex = s.activeIndex /\ t.processors = s.processors
        /\ t.firstBlock = s.firstBlock
    BY <1>1, <2>1, <2>2 DEF Stage
  <2>4. incomingIndex(t) = incomingIndex(s)
    BY <2>3 DEF incomingIndex
  <2>5. ActivePath(t) = ActivePath(s) /\ IncomingPath(t) = IncomingPath(s)
    BY <2>3, <2>4 DEF ActivePath, IncomingPath
  <2>6. StageInv(t)
    BY <1>1, <1>3, <2>2, <2>3, <2>4 DEF StageInv, WellConfigured
  <2>7. crossfadeFrames - t.fadeRemaining = crossfadeFrames - s.fadeRemaining + count
    BY <1>1, <2>3
  <2>8. Standing(t) = Mix(t, crossfadeFrames - s.fadeRemaining + count)
    BY <2>2, <2>3, <2>7 DEF Standing
  <2>9. Standing(t) = Mix(s, crossfadeFrames - s.fadeRemaining + count)
    BY <2>5, <2>8 DEF Mix
  <2>10. After(s, count) = Mix(s, crossfadeFrames - s.fadeRemaining + count)
    BY <1>1, <1>3 DEF After
  <2>11. s.fadeRemaining # 0 /\ ~(s.fadeRemaining <= count)
    BY <1>1, <1>3
  <2> QED
    BY <2>3, <2>6, <2>9, <2>10, <2>11 DEF t
<1>4. CASE s.fadeRemaining > 0 /\ s.fadeRemaining <= count
  <2>1. t = [s EXCEPT !.fadeRemaining = 0, !.activeIndex = incomingIndex(s), !.active = s.target]
    BY <1>1, <1>4 DEF Faded
  <2> HIDE DEF t
  <2>2. /\ t \in Stage /\ t.fadeRemaining = 0 /\ t.active = s.target
        /\ t.activeIndex = incomingIndex(s) /\ t.processors = s.processors
        /\ t.firstBlock = s.firstBlock
    BY <1>1, <2>1, StageFields DEF Stage
  <2>3. ActivePath(t) = IncomingPath(s)
    BY <2>2 DEF ActivePath, IncomingPath
  <2>4. StageInv(t)
    BY <1>1, <1>4, <2>2 DEF StageInv, WellConfigured
  <2>5. Standing(t) = [p \in Path |-> IF p = IncomingPath(s) THEN crossfadeFrames ELSE 0]
    BY <2>2, <2>3, StillMix DEF Standing
  <2>6. After(s, count) = [p \in Path |-> IF p = IncomingPath(s) THEN crossfadeFrames ELSE 0]
    <3>1. CASE count = s.fadeRemaining
      <4>1. After(s, count) = Mix(s, crossfadeFrames)
        BY <1>1, <1>4, <3>1 DEF After
      <4>2. \A p \in Path : (IF p = ActivePath(s) THEN crossfadeFrames - crossfadeFrames ELSE 0)
                            + (IF p = IncomingPath(s) THEN crossfadeFrames ELSE 0)
                            = IF p = IncomingPath(s) THEN crossfadeFrames ELSE 0
        OBVIOUS
      <4> QED
        BY <4>1, <4>2 DEF Mix
    <3>2. CASE count # s.fadeRemaining
      BY <1>1, <1>4, <3>2 DEF After
    <3> QED
      BY <3>1, <3>2
  <2> QED
    BY <1>4, <2>2, <2>3, <2>4, <2>5, <2>6 DEF t
<1> QED
  BY <1>1, <1>2, <1>3, <1>4

LEMMA SoundIsAfter ==
  ASSUME NEW s, StageInv(s), crossfadeFrames \in Nat \ {0}, NEW count \in Nat
  PROVE  /\ Sound(s, count) \in Seq(Mixture) /\ Len(Sound(s, count)) = count
         /\ \A i \in 1..count : Sound(s, count)[i] = After(s, i)
<1>1. s \in Stage /\ s.fadeRemaining \in Nat
  BY StageFields DEF StageInv
<1>2. ASSUME NEW i \in 1..count
      PROVE  Sound(s, count)[i] = After(s, i)
  <2>1. CASE i <= s.fadeRemaining
    BY <1>1, <1>2, <2>1 DEF Sound, After
  <2>2. CASE i > s.fadeRemaining
    <3> DEFINE t == Faded(s, count)
    <3>1. /\ StageInv(t) /\ (s.fadeRemaining = 0 => t = s)
          /\ s.fadeRemaining > 0 => ActivePath(t) = IncomingPath(s)
      BY <1>1, <2>2, FadedKeeps
    <3>2. Sound(s, count)[i] = Mix(t, 0)
      BY <1>1, <1>2, <2>2 DEF Sound
    <3> HIDE DEF t
    <3>3. Mix(t, 0) = [p \in Path |-> IF p = ActivePath(t) THEN crossfadeFrames ELSE 0]
      BY <3>1, StillMix DEF StageInv
    <3>4. ActivePath(t) = IF s.fadeRemaining > 0 THEN IncomingPath(s) ELSE ActivePath(s)
      BY <1>1, <3>1
    <3>5. After(s, i) = [p \in Path |-> IF p = ActivePath(t) THEN crossfadeFrames ELSE 0]
      BY <1>1, <2>2, <3>4 DEF After
    <3> QED
      BY <3>2, <3>3, <3>5
  <2> QED
    BY <1>1, <2>1, <2>2
<1>3. \A i \in 1..count : After(s, i) \in Mixture
  <2> SUFFICES ASSUME NEW i \in 1..count PROVE After(s, i) \in Mixture
    OBVIOUS
  <2>1. PICK p \in Path : TRUE
    BY DEF Path
  <2> QED
    BY <2>1, SmallSteps
<1>4. Sound(s, count) = [i \in 1..count |-> Sound(s, count)[i]]
  BY DEF Sound
<1> HIDE DEF Sound
<1> QED
  BY <1>2, <1>3, <1>4

\* What is heard of a piece carries on from what was heard before it.
LEMMA PieceIsSmooth ==
  ASSUME NEW s, StageInv(s), crossfadeFrames \in Nat \ {0}, NEW count \in Nat,
         NEW before \in Seq(Mixture), before # <<>> => before[Len(before)] = Standing(s)
  PROVE  LET h == LastOf(before) \o Sound(s, count) IN
         /\ h \in Seq(Mixture)
         /\ h # <<>> => h[Len(h)] = After(s, count)
         /\ \A k \in 1..(Len(h) - 1) : \A p \in Path : Apart(h[k][p], h[k + 1][p]) <= 1
<1> DEFINE sound == Sound(s, count)
           h == LastOf(before) \o sound
<1>1. sound \in Seq(Mixture) /\ Len(sound) = count /\ \A i \in 1..count : sound[i] = After(s, i)
  BY SoundIsAfter
<1>2. \A n \in Nat, p \in Path : Apart(After(s, n)[p], After(s, n + 1)[p]) <= 1
  BY SmallSteps
<1>3. After(s, 0) = Standing(s) /\ After(s, 0) \in Mixture
  <2>1. PICK p \in Path : TRUE
    BY DEF Path
  <2> QED
    BY <2>1, SmallSteps
<1> HIDE DEF sound
<1>4. CASE before = <<>>
  <2>1. h \in Seq(Mixture) /\ Len(h) = count /\ \A i \in 1..count : h[i] = After(s, i)
    BY <1>1, <1>4 DEF LastOf
  <2> HIDE DEF h
  <2>2. h # <<>> => h[Len(h)] = After(s, count)
    BY <2>1
  <2>3. \A k \in 1..(Len(h) - 1) : \A p \in Path : Apart(h[k][p], h[k + 1][p]) <= 1
    BY <1>2, <2>1
  <2> QED
    BY <2>1, <2>2, <2>3 DEF h, sound
<1>5. CASE before # <<>>
  <2>1. LastOf(before) = <<After(s, 0)>>
    BY <1>3, <1>5 DEF LastOf
  <2>2. h \in Seq(Mixture) /\ Len(h) = count + 1 /\ h[1] = After(s, 0)
        /\ \A i \in 1..count : h[i + 1] = After(s, i)
    BY <1>1, <1>3, <2>1
  <2> HIDE DEF h
  <2>3. \A k \in 1..(count + 1) : k - 1 \in Nat /\ h[k] = After(s, k - 1)
    BY <2>2
  <2>4. h[Len(h)] = After(s, count)
    BY <2>2, <2>3
  <2>5. \A k \in 1..(Len(h) - 1) : \A p \in Path : Apart(h[k][p], h[k + 1][p]) <= 1
    <3> SUFFICES ASSUME NEW k \in 1..(Len(h) - 1), NEW p \in Path
                 PROVE  Apart(h[k][p], h[k + 1][p]) <= 1
      OBVIOUS
    <3>1. k \in 1..(count + 1) /\ k + 1 \in 1..(count + 1) /\ k - 1 \in Nat /\ (k + 1) - 1 = (k - 1) + 1
      BY <2>2
    <3>2. h[k] = After(s, k - 1) /\ h[k + 1] = After(s, (k - 1) + 1)
      BY <2>3, <3>1
    <3> QED
      BY <1>2, <3>1, <3>2
  <2> QED
    BY <2>2, <2>4, <2>5 DEF h, sound
<1> QED
  BY <1>4, <1>5
-----------------------------------------------------------------------------
(* The invariant.                                                          *)

LEMMA Defaults == DefaultPublished \in Published /\ DefaultPublished.bypassed
BY SettingsAssumption DEF DefaultPublished, Published

LEMMA PreviewInitInv == PreviewInit => PreviewInv
<1> SUFFICES ASSUME PreviewInit PROVE PreviewInv
  OBVIOUS
<1> DEFINE p == [config |-> DefaultSettings, memory |-> "rest"]
<1>1. /\ stage = [active |-> DefaultPublished, target |-> DefaultPublished, activeIndex |-> 0,
                  processors |-> [i \in {0, 1} |-> p], fadeRemaining |-> 0, firstBlock |-> TRUE]
      /\ pending = DefaultPublished /\ waiting = NothingFresh /\ collected = DefaultPublished
      /\ prepared = FALSE /\ crossfadeFrames \in CrossfadeFrames /\ maxBlockFrames = 0
      /\ left = 0 /\ refusedBlocks = 0 /\ heard = <<>>
  BY DEF PreviewInit, slot_!Init
<1>2. p \in Processor
  BY SettingsAssumption DEF Processor
<1> HIDE DEF p
<1>3. stage \in Stage
  BY <1>1, <1>2, Defaults DEF Stage
<1>4. WellConfigured(stage)
  BY <1>1, Defaults DEF WellConfigured
<1>5. crossfadeFrames \in Nat /\ MaxFrames \in Nat /\ MaxRefused \in Nat
  BY <1>1, SizesAssumption
<1>6. heard \in Seq([Path -> Nat]) /\ NoStepInOutput
  BY <1>1 DEF NoStepInOutput
<1>7. PreviewTypeOK
  BY <1>1, <1>3, <1>5, <1>6, Defaults DEF PreviewTypeOK
<1> QED
  BY <1>1, <1>4, <1>6, <1>7 DEF PreviewInv

\* A reset cuts the sound off.
LEMMA SilenceKeeps ==
  ASSUME PreviewTypeOK', heard' = <<>>, WellConfigured(stage'), left' > 0 => prepared'
  PROVE  PreviewInv'
BY DEF PreviewInv, NoStepInOutput

LEMMA ControlKeeps ==
  ASSUME PreviewInv, Control \/ ResetPreview
  PROVE  PreviewInv'
<1>1. CASE ResetPreview
  <2>1. /\ stage' = ResetStage(stage) /\ heard' = <<>> /\ left = 0
        /\ UNCHANGED <<pending, waiting, collected, prepared, crossfadeFrames, maxBlockFrames, left,
                       refusedBlocks>>
    BY <1>1 DEF ResetPreview
  <2>2. stage' \in Stage /\ stage'.fadeRemaining = 0 /\ WellConfigured(stage')
    BY <2>1, ResetKeeps DEF PreviewInv, PreviewTypeOK
  <2>3. crossfadeFrames \in Nat
    BY SizesAssumption DEF PreviewInv, PreviewTypeOK
  <2>4. PreviewTypeOK'
    BY <2>1, <2>2, <2>3 DEF PreviewInv, PreviewTypeOK
  <2> QED
    BY <2>1, <2>2, <2>4, SilenceKeeps
<1>2. ASSUME NEW fade \in CrossfadeFrames, NEW frames \in BlockSizes, Prepare(fade, frames)
      PROVE  PreviewInv'
  <2> DEFINE s == [stage EXCEPT !.active = DefaultPublished]
  <2>1. /\ stage' = ResetStage(s) /\ heard' = <<>> /\ left = 0 /\ prepared' = TRUE
        /\ crossfadeFrames' = fade /\ maxBlockFrames' = frames /\ pending' = DefaultPublished
        /\ waiting' = DefaultPublished
        /\ UNCHANGED <<collected, left, refusedBlocks>>
    BY <1>2 DEF Prepare, slot_!Publish
  <2>2. s \in Stage /\ s.active = DefaultPublished /\ s.fadeRemaining = stage.fadeRemaining
        /\ s.processors = stage.processors /\ s.target = stage.target
        /\ s.activeIndex = stage.activeIndex
    BY Defaults DEF PreviewInv, PreviewTypeOK, Stage
  <2> HIDE DEF s
  <2>3. WellConfigured(s)
    BY <2>2, Defaults DEF PreviewInv, WellConfigured, incomingIndex
  <2>4. stage' \in Stage /\ stage'.fadeRemaining = 0 /\ WellConfigured(stage')
    BY <2>1, <2>2, <2>3, ResetKeeps
  <2>5. crossfadeFrames' \in Nat
    BY <2>1, SizesAssumption
  <2>6. PreviewTypeOK'
    BY <2>1, <2>4, <2>5, Defaults DEF PreviewInv, PreviewTypeOK
  <2> QED
    BY <2>1, <2>4, <2>6, SilenceKeeps
<1>3. CASE (\E settings \in Settings : PublishSettings(settings))
           \/ (\E bypassed \in BOOLEAN : SetBypassed(bypassed))
  <2>1. /\ UNCHANGED <<collected, stage, prepared, crossfadeFrames, maxBlockFrames, left,
                       refusedBlocks, heard>>
        /\ waiting' = pending'
    BY <1>3 DEF PublishSettings, SetBypassed, ControlUnchanged, slot_!Publish
  <2>2. pending' \in Published
    BY <1>3 DEF PublishSettings, SetBypassed, Published, PreviewInv, PreviewTypeOK
  <2>3. PreviewTypeOK'
    BY <2>1, <2>2 DEF PreviewInv, PreviewTypeOK
  <2> QED
    BY <2>1, <2>3 DEF PreviewInv, Standing, Mix, NoStepInOutput
<1> QED
  BY <1>1, <1>2, <1>3 DEF Control

\* A piece, whether or not a change was taken up before it.
LEMMA PieceKeeps ==
  ASSUME PreviewInv, NEW s, StageInv(s), heard # <<>> => Standing(s) = Standing(stage),
         ProcessPiece(s), left > 0, waiting' \in Published \cup {NothingFresh}, collected' \in Published
  PROVE  PreviewInv'
<1> DEFINE count == Shorter(maxBlockFrames, left)
           running == [s EXCEPT !.firstBlock = FALSE]
           after == Faded(Exercised(running), count)
<1>1. /\ heard' = LastOf(heard) \o Sound(running, count) /\ stage' = after /\ left' = left - count
      /\ UNCHANGED <<pending, prepared, crossfadeFrames, maxBlockFrames, refusedBlocks>>
  BY DEF ProcessPiece
<1>2. /\ crossfadeFrames \in Nat \ {0} /\ maxBlockFrames \in Nat /\ left \in Nat /\ left <= MaxFrames
      /\ heard \in Seq(Mixture) /\ prepared
  BY SizesAssumption DEF PreviewInv, PreviewTypeOK, Mixture
<1>3. count \in Nat /\ count <= left
  BY <1>2 DEF Shorter
<1>4. /\ running \in Stage /\ running.fadeRemaining = s.fadeRemaining /\ running.firstBlock = FALSE
      /\ running.active = s.active /\ running.target = s.target
      /\ running.activeIndex = s.activeIndex /\ running.processors = s.processors
  BY DEF StageInv, Stage
<1> HIDE DEF count, running, after
<1>5. incomingIndex(running) = incomingIndex(s)
  BY <1>4 DEF incomingIndex
<1>6. StageInv(running)
  BY <1>4, <1>5 DEF StageInv, WellConfigured
<1>7. ActivePath(running) = ActivePath(s) /\ IncomingPath(running) = IncomingPath(s)
  BY <1>4, <1>5 DEF ActivePath, IncomingPath
<1>8. Standing(running) = Standing(s)
  BY <1>4, <1>7 DEF Standing, Mix
<1>9. heard # <<>> => heard[Len(heard)] = Standing(running)
  BY <1>8 DEF PreviewInv
<1>10. /\ heard' \in Seq(Mixture) /\ (heard' # <<>> => heard'[Len(heard')] = After(running, count))
       /\ NoStepInOutput'
  <2>1. /\ heard' \in Seq(Mixture) /\ (heard' # <<>> => heard'[Len(heard')] = After(running, count))
        /\ \A k \in 1..(Len(heard') - 1) : \A p \in Path : Apart(heard'[k][p], heard'[k + 1][p]) <= 1
    BY <1>1, <1>2, <1>3, <1>6, <1>9, PieceIsSmooth
  <2> QED
    BY <2>1 DEF NoStepInOutput
<1> DEFINE t == Exercised(running)
<1>11. /\ t \in Stage /\ t.fadeRemaining = running.fadeRemaining /\ t.firstBlock = FALSE
       /\ WellConfigured(t)
       /\ ActivePath(t) = ActivePath(running) /\ IncomingPath(t) = IncomingPath(running)
  BY <1>4, <1>6, ExercisedStage DEF StageInv
<1>12. after = Faded(t, count)
  BY DEF after
<1> HIDE DEF t
<1>13. StageInv(t) /\ After(t, count) = After(running, count)
  BY <1>6, <1>11 DEF StageInv, After, Mix
<1>14. StageInv(after) /\ after.firstBlock = FALSE /\ Standing(after) = After(running, count)
  BY <1>2, <1>3, <1>11, <1>12, <1>13, FadedKeeps
<1>15. left' \in 0..MaxFrames
  BY <1>1, <1>2, <1>3, SizesAssumption
<1>16. PreviewTypeOK'
  BY <1>1, <1>10, <1>14, <1>15 DEF PreviewInv, PreviewTypeOK, StageInv, Mixture
<1>17. Standing(stage)' = Standing(stage')
  BY <1>1 DEF Standing, Mix
<1>18. WellConfigured(stage)'
  BY <1>1, <1>14 DEF StageInv
<1> QED
  BY <1>1, <1>2, <1>10, <1>14, <1>16, <1>17, <1>18 DEF PreviewInv

LEMMA ProcessKeeps ==
  ASSUME PreviewInv, Process \/ ProcessRefused
  PROVE  PreviewInv'
<1>1. CASE PieceWithChange
  <2>1. /\ left > 0 /\ stage.fadeRemaining = 0 /\ waiting # NothingFresh /\ waiting' = NothingFresh
        /\ collected' = waiting /\ ProcessPiece(TakeUp(stage, waiting))
    BY <1>1 DEF PieceWithChange, CanCollect, slot_!Collect
  <2>2. waiting \in Published /\ crossfadeFrames \in Nat \ {0} /\ stage \in Stage
    BY <2>1, SizesAssumption DEF PreviewInv, PreviewTypeOK
  <2>3. StageInv(TakeUp(stage, waiting))
        /\ (stage.firstBlock \/ Standing(TakeUp(stage, waiting)) = Standing(stage))
    BY <2>1, <2>2, TakeUpKeeps DEF PreviewInv
  <2>4. heard # <<>> => Standing(TakeUp(stage, waiting)) = Standing(stage)
    BY <2>3 DEF PreviewInv
  <2> QED
    BY <2>1, <2>2, <2>3, <2>4, PieceKeeps
<1>2. CASE PieceWithout
  <2>1. StageInv(stage)
    BY DEF PreviewInv, PreviewTypeOK, StageInv
  <2>2. waiting' \in Published \cup {NothingFresh} /\ collected' \in Published
    BY <1>2 DEF PieceWithout, PreviewInv, PreviewTypeOK
  <2> QED
    BY <1>2, <2>1, <2>2, PieceKeeps DEF PieceWithout
<1>3. ASSUME NEW frames \in 1..MaxFrames, ProcessBegin(frames) PROVE PreviewInv'
  <2>1. left' \in 0..MaxFrames /\ prepared
        /\ UNCHANGED <<pending, waiting, collected, stage, prepared, crossfadeFrames, maxBlockFrames,
                       refusedBlocks, heard>>
    BY <1>3, SizesAssumption DEF ProcessBegin
  <2> QED
    BY <2>1 DEF PreviewInv, PreviewTypeOK, Standing, Mix, NoStepInOutput
<1>4. CASE ProcessRefused
  <2> DEFINE ps == [i \in {0, 1} |-> Aged(stage.processors[i])]
  <2>1. /\ stage' = [stage EXCEPT !.processors = ps] /\ heard' = <<>>
        /\ refusedBlocks' = refusedBlocks + 1 /\ refusedBlocks < MaxRefused
        /\ UNCHANGED <<pending, waiting, collected, prepared, crossfadeFrames, maxBlockFrames, left>>
    BY <1>4 DEF ProcessRefused
  <2>2. stage \in Stage /\ refusedBlocks \in Nat
    BY SizesAssumption DEF PreviewInv, PreviewTypeOK
  <2>3. ps \in [{0, 1} -> Processor] /\ \A i \in {0, 1} : ps[i].config = stage.processors[i].config
    BY <2>2, AgedProcessors
  <2> HIDE DEF ps
  <2>4. stage' \in Stage /\ stage'.fadeRemaining = stage.fadeRemaining /\ WellConfigured(stage')
    BY <2>1, <2>2, <2>3, SameSound DEF PreviewInv
  <2>5. refusedBlocks' \in 0..MaxRefused
    BY <2>1, <2>2, SizesAssumption
  <2>6. PreviewTypeOK'
    BY <2>1, <2>4, <2>5 DEF PreviewInv, PreviewTypeOK
  <2> QED
    BY <2>1, <2>4, <2>6, SilenceKeeps DEF PreviewInv
<1> QED
  BY <1>1, <1>2, <1>3, <1>4 DEF Process

LEMMA PreviewStepInv == PreviewInv /\ [PreviewNext]_previewVars => PreviewInv'
<1> SUFFICES ASSUME PreviewInv, [PreviewNext]_previewVars PROVE PreviewInv'
  OBVIOUS
<1>1. CASE UNCHANGED previewVars
  BY <1>1 DEF previewVars, PreviewInv, PreviewTypeOK, Standing, Mix, NoStepInOutput
<1>2. CASE PreviewNext
  BY <1>2, ControlKeeps, ProcessKeeps DEF PreviewNext
<1> QED
  BY <1>1, <1>2

LEMMA PreviewInvHolds == PreviewInv => PreviewTypeOK /\ CurvesPlayWhole
<1> SUFFICES ASSUME PreviewInv PROVE PreviewTypeOK /\ PlaysTheActiveSettings /\ NoStepInOutput
  BY DEF CurvesPlayWhole
<1>1. stage \in Stage /\ crossfadeFrames \in Nat \ {0}
  BY SizesAssumption DEF PreviewInv, PreviewTypeOK
<1>2. PlaysTheActiveSettings
  <2> SUFFICES ASSUME stage.fadeRemaining = 0, heard # <<>>
               PROVE  heard[Len(heard)]
                        = [p \in Path |-> IF p = (IF stage.active.bypassed THEN Dry
                                                  ELSE stage.active.processor)
                                          THEN crossfadeFrames ELSE 0]
    BY DEF PlaysTheActiveSettings
  <2>1. heard[Len(heard)] = Mix(stage, 0)
    BY DEF PreviewInv, Standing
  <2>2. ActivePath(stage) = IF stage.active.bypassed THEN Dry ELSE stage.active.processor
    BY DEF PreviewInv, WellConfigured, ActivePath
  <2> QED
    BY <1>1, <2>1, <2>2, StillMix
<1> QED
  BY <1>2 DEF PreviewInv

\* The inductive invariant holds in every state.
THEOREM PreviewInvAlways == PreviewSpec => []PreviewInv
BY PreviewInitInv, PreviewStepInv, PTL DEF PreviewSpec

\* Every variable of the stage keeps its type, and a fade is never longer than
\* the crossfade.
THEOREM PreviewTypeCorrect == PreviewSpec => []PreviewTypeOK
BY PreviewInvAlways, PreviewInvHolds, PTL

\* However settings, bypass, seeks and prepare() arrive between blocks of any
\* length, no weight moves by more than one part of the crossfade from sample to
\* sample, and outside a fade exactly the active settings are heard.
THEOREM CurvesAlwaysPlayWhole == PreviewSpec => []CurvesPlayWhole
BY PreviewInvAlways, PreviewInvHolds, PTL
-----------------------------------------------------------------------------
(* The three in one.                                                       *)

\* A step of one is a step or a stutter of each, so each invariant goes on
\* holding, in whichever structure a behaviour belongs to.
LEMMA CallbackInvAlways == CallbackSpec => [](RingInv /\ CopyInv /\ SlotInv /\ PreviewInv)
<1>1. CallbackInit => RingInv /\ CopyInv /\ SlotInv /\ PreviewInv
  BY RingInitInv, InitCopyInv, SlotInitInv, PreviewInitInv DEF CallbackInit
<1>2. CallbackNext => [Next]_vars /\ [SlotNext]_slotVars /\ [PreviewNext]_previewVars
  BY DEF CallbackNext
<1>3. UNCHANGED <<structure, vars, slotVars, previewVars>> =>
        [Next]_vars /\ [SlotNext]_slotVars /\ [PreviewNext]_previewVars
  OBVIOUS
<1>4. /\ RingInv /\ CopyInv /\ SlotInv /\ PreviewInv
      /\ [CallbackNext]_<<structure, vars, slotVars, previewVars>>
      => (RingInv /\ CopyInv /\ SlotInv /\ PreviewInv)'
  BY <1>2, <1>3, RingStepInv, StepCopyInv, SlotStepInv, PreviewStepInv
<1> QED
  BY <1>1, <1>4, PTL DEF CallbackSpec

\* In every state of the model: the copies of the ring never touch the same slot,
\* a setting is never torn, and a curve is heard whole or on its way to the next.
THEOREM CallbackIsSafe == CallbackSpec => [](NoSlotRace /\ NoTornValue /\ CurvesPlayWhole)
<1>1. RingInv /\ SlotInv /\ PreviewInv => NoSlotRace /\ NoTornValue /\ CurvesPlayWhole
  BY RingInvHolds, SlotInvHolds, PreviewInvHolds
<1> QED
  BY <1>1, CallbackInvAlways, PTL

\* In every behaviour of the model the ring is a bounded first-in first-out queue,
\* and the slot a mailbox that keeps the newest value.
THEOREM CallbackImplements == CallbackSpec => ImplementsQueue /\ ImplementsMailbox
<1>1. CallbackInit => Abstract!Init /\ Box!Init
  BY QueueInit, InitBox DEF CallbackInit
<1>2. CallbackNext => [Next]_vars /\ [SlotNext]_slotVars
  BY DEF CallbackNext
<1>3. UNCHANGED <<structure, vars, slotVars, previewVars>> => [Next]_vars /\ [SlotNext]_slotVars
  OBVIOUS
<1>4. /\ RingInv /\ CopyInv /\ SlotInv
      /\ [CallbackNext]_<<structure, vars, slotVars, previewVars>>
      => [Abstract!Next]_(Abstract!vars) /\ [Box!Next]_(Box!vars)
  BY <1>2, <1>3, StepImplements, NextImplementsBox
<1> QED
  BY <1>1, <1>4, CallbackInvAlways, PTL
  DEF CallbackSpec, ImplementsQueue, ImplementsMailbox, Abstract!Spec, Box!Spec
=============================================================================
