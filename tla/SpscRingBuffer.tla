--------------------------- MODULE SpscRingBuffer ---------------------------
(***************************************************************************)
(* The lock-free ring that carries samples from a worker thread to the     *)
(* audio callback (src/sa-device/include/sa/device/SpscRingBuffer.h).      *)
(*                                                                         *)
(* The producer and the consumer each own one index.  Indices run over     *)
(* [0, 2 * Capacity), so that a full ring and an empty one are different   *)
(* states.  A call loads its own index and the other side's, copies        *)
(* samples one by one, and stores its own index; the threads interleave    *)
(* between any two of those steps.                                         *)
(*                                                                         *)
(* The release/acquire pairs are modelled by giving each side a view of    *)
(* the index it does not own: `readSeen` is what the producer's next       *)
(* acquire load of readIndex_ returns, and it catches up with readIndex at *)
(* an arbitrary moment (SeeRead).  A view is therefore some value that was *)
(* really stored, never older than the one seen before.                    *)
(***************************************************************************)
EXTENDS Naturals, Sequences

CONSTANTS
  Capacity,   \* samples the ring holds (capacity_)
  Sample,     \* the values a sample can take
  Silence,    \* the sample a fresh ring is filled with
  MaxCount    \* bound: the largest `count` a caller passes

ASSUME CapacityAssumption == Capacity \in Nat \ {0}
ASSUME MaxCountAssumption == MaxCount \in Nat \ {0}
ASSUME SampleAssumption == Silence \in Sample

VARIABLES
  writeIndex,  \* writeIndex_, stored by the producer only
  readIndex,   \* readIndex_, stored by the consumer only
  readSeen,    \* the producer's view of readIndex_
  writeSeen,   \* the consumer's view of writeIndex_
  storage,     \* storage_
  prod,        \* the producer: where it is in write(), and its locals
  cons,        \* the consumer: where it is in read() or discard()
  delivered    \* the samples the last completed read() put in `destination`

vars == <<writeIndex, readIndex, readSeen, writeSeen, storage, prod, cons, delivered>>

Slots == 0 .. (Capacity - 1)
Indices == 0 .. (2 * Capacity - 1)
Batches == UNION {[1..n -> Sample] : n \in 1..MaxCount}

indexLimit == 2 * Capacity
slotOf(index) == IF index >= Capacity THEN index - Capacity ELSE index
advance(index, count) ==
  IF index + count >= indexLimit THEN index + count - indexLimit ELSE index + count
fillLevel(writePos, readPos) ==
  IF writePos >= readPos THEN writePos - readPos ELSE writePos + indexLimit - readPos

\* The slot of the k-th sample of a run starting at index `pos`.  The two
\* memcpy calls of write() and read() are the runs before and after the wrap.
RunSlot(pos, k) ==
  IF slotOf(pos) + k < Capacity THEN slotOf(pos) + k ELSE slotOf(pos) + k - Capacity

Lesser(a, b) == IF a < b THEN a ELSE b

Idle == [pc |-> "idle", taken |-> 0, copied |-> 0, data |-> <<>>]

Init ==
  /\ writeIndex = 0
  /\ readIndex = 0
  /\ readSeen = 0
  /\ writeSeen = 0
  /\ storage = [slot \in Slots |-> Silence]
  /\ prod = Idle
  /\ cons = Idle
  /\ delivered = <<>>
-----------------------------------------------------------------------------
(* The producer: write(source, count).                                     *)

\* A bug: the full and the empty ring confused, so one sample too many is taken.
Free_OffByOne == Capacity + 1 - fillLevel(writeIndex, readSeen)
\* Free space as the producer sees it: capacity_ - fillLevel(writePos, readPos).
Free == Capacity - fillLevel(writeIndex, readSeen)

\* Loads both indices and settles how many samples this call takes.  A call
\* that can take none returns 0 and changes nothing.
WriteBegin(source) ==
  LET taken == Lesser(Len(source), Free) IN
  /\ prod.pc = "idle"
  /\ taken > 0
  /\ prod' = [pc |-> "copy", taken |-> taken, copied |-> 0, data |-> source]
  /\ UNCHANGED <<writeIndex, readIndex, readSeen, writeSeen, storage, cons, delivered>>

\* A bug: both runs of a wrapped write land at the start of the first run.
WriteCopy_NoWrap ==
  /\ prod.pc = "copy"
  /\ prod.copied < prod.taken
  /\ storage' = [storage EXCEPT ![Lesser(slotOf(writeIndex) + prod.copied, Capacity - 1)]
                   = prod.data[prod.copied + 1]]
  /\ prod' = [prod EXCEPT !.copied = @ + 1]
  /\ UNCHANGED <<writeIndex, readIndex, readSeen, writeSeen, cons, delivered>>

WriteCopy ==
  /\ prod.pc = "copy"
  /\ prod.copied < prod.taken
  /\ storage' = [storage EXCEPT ![RunSlot(writeIndex, prod.copied)] = prod.data[prod.copied + 1]]
  /\ prod' = [prod EXCEPT !.copied = @ + 1]
  /\ UNCHANGED <<writeIndex, readIndex, readSeen, writeSeen, cons, delivered>>

WritePublish ==
  /\ prod.pc = "copy"
  /\ prod.copied = prod.taken
  /\ writeIndex' = advance(writeIndex, prod.taken)
  /\ prod' = Idle
  /\ UNCHANGED <<readIndex, readSeen, writeSeen, storage, cons, delivered>>
-----------------------------------------------------------------------------
(* The consumer: read(destination, count) and discard(count).              *)

\* Samples the consumer sees: fillLevel(writePos, readPos).
Used == fillLevel(writeSeen, readIndex)

ReadBegin(count) ==
  LET taken == Lesser(count, Used) IN
  /\ cons.pc = "idle"
  /\ taken > 0
  /\ cons' = [pc |-> "copy", taken |-> taken, copied |-> 0, data |-> <<>>]
  /\ UNCHANGED <<writeIndex, readIndex, readSeen, writeSeen, storage, prod, delivered>>

ReadCopy ==
  /\ cons.pc = "copy"
  /\ cons.copied < cons.taken
  /\ cons' = [cons EXCEPT !.copied = @ + 1,
                          !.data = Append(@, storage[RunSlot(readIndex, cons.copied)])]
  /\ UNCHANGED <<writeIndex, readIndex, readSeen, writeSeen, storage, prod, delivered>>

ReadPublish ==
  /\ cons.pc = "copy"
  /\ cons.copied = cons.taken
  /\ readIndex' = advance(readIndex, cons.taken)
  /\ delivered' = cons.data
  /\ cons' = Idle
  /\ UNCHANGED <<writeIndex, readSeen, writeSeen, storage, prod>>

DiscardBegin(count) ==
  LET taken == Lesser(count, Used) IN
  /\ cons.pc = "idle"
  /\ taken > 0
  /\ cons' = [pc |-> "skip", taken |-> taken, copied |-> 0, data |-> <<>>]
  /\ UNCHANGED <<writeIndex, readIndex, readSeen, writeSeen, storage, prod, delivered>>

DiscardPublish ==
  /\ cons.pc = "skip"
  /\ readIndex' = advance(readIndex, cons.taken)
  /\ cons' = Idle
  /\ UNCHANGED <<writeIndex, readSeen, writeSeen, storage, prod, delivered>>
-----------------------------------------------------------------------------
(* The memory system: a released index reaches the other side.             *)

SeeRead ==
  /\ readSeen' = readIndex
  /\ UNCHANGED <<writeIndex, readIndex, writeSeen, storage, prod, cons, delivered>>

SeeWrite ==
  /\ writeSeen' = writeIndex
  /\ UNCHANGED <<writeIndex, readIndex, readSeen, storage, prod, cons, delivered>>

\* reset() is called between runs only, with both threads joined; joining and
\* starting a thread synchronise, so the next run starts from these values.
Reset ==
  /\ prod.pc = "idle"
  /\ cons.pc = "idle"
  /\ writeIndex' = 0
  /\ readIndex' = 0
  /\ readSeen' = 0
  /\ writeSeen' = 0
  /\ UNCHANGED <<storage, prod, cons, delivered>>
-----------------------------------------------------------------------------
Producer ==
  \/ \E source \in Batches : WriteBegin(source)
  \/ WriteCopy
  \/ WritePublish

Consumer ==
  \/ \E count \in 1..MaxCount : ReadBegin(count) \/ DiscardBegin(count)
  \/ ReadCopy
  \/ ReadPublish
  \/ DiscardPublish

Next == Producer \/ Consumer \/ SeeRead \/ SeeWrite \/ Reset

Spec == Init /\ [][Next]_vars
-----------------------------------------------------------------------------
(* Properties.                                                             *)

\* Every variable keeps its type, and no call takes more than the ring holds.
TypeOK ==
  /\ writeIndex \in Indices
  /\ readIndex \in Indices
  /\ readSeen \in Indices
  /\ writeSeen \in Indices
  /\ storage \in [Slots -> Sample]
  /\ prod \in [pc : {"idle", "copy"}, taken : 0..Capacity, copied : 0..Capacity,
               data : Seq(Sample)]
  /\ cons \in [pc : {"idle", "copy", "skip"}, taken : 0..Capacity, copied : 0..Capacity,
               data : Seq(Sample)]
  /\ delivered \in Seq(Sample)

\* A stale view errs on the safe side only: the producer never sees more free
\* space than there is and the consumer never sees more samples than there
\* are, and the ring never holds more than Capacity (the promises made above
\* availableToRead() and availableToWrite()).
ViewsAreConservative ==
  /\ fillLevel(writeIndex, readIndex) <= fillLevel(writeIndex, readSeen)
  /\ fillLevel(writeSeen, readIndex) <= fillLevel(writeIndex, readIndex)
  /\ fillLevel(writeIndex, readSeen) <= Capacity

\* The slots write() is filling and the slots read() is emptying never
\* overlap: the plain memcpy calls on the two threads do not race.
NoSlotRace ==
  \A i \in 0..(prod.taken - 1), j \in 0..(cons.taken - 1) :
    RunSlot(writeIndex, i) # RunSlot(readIndex, j)

\* The queue the ring stands for: the samples between the two indices.
Contents == [k \in 1..fillLevel(writeIndex, readIndex) |-> storage[RunSlot(readIndex, k - 1)]]

Abstract == INSTANCE SampleQueue WITH queue <- Contents, offered <- prod.data

\* The ring is a bounded FIFO queue: nothing is lost, duplicated, reordered or
\* torn, and every call takes effect at the instant it stores its index.
ImplementsQueue == Abstract!Spec
=============================================================================
