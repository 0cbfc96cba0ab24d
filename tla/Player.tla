------------------------------- MODULE Player -------------------------------
(***************************************************************************)
(* Playback (src/sa-transport/src/Player.cpp): a control thread that calls *)
(* play() and stop(), a worker that reads the source and fills the ring,   *)
(* and the device's callback that drains it.                               *)
(*                                                                         *)
(* The device is the contract of AudioDevice, which OutputDevice and       *)
(* NullDevice implement.  The ring is a bounded queue of frames whose      *)
(* writes and reads may move fewer frames than would fit, as SampleQueue   *)
(* (which SpscRingBuffer implements) lets them: a view may lag.  A frame   *)
(* is <<take, index>>, the play() it was read for and its place in the     *)
(* source; the channels of a frame travel together because the ring's      *)
(* capacity and every batch are whole frames.                              *)
(***************************************************************************)
EXTENDS Naturals, Sequences

CONSTANTS
  SourceFrames,   \* bound: frames in the source
  RingFrames,     \* frames the ring holds
  RenderBlock,    \* frames the worker asks the source for (kRenderBlock)
  BlockFrames,    \* frames the device asks the callback for
  MaxUnderruns,   \* bound: the underrun counter saturates here
  Processors,     \* the processors a caller may pass
  None            \* no processor

ASSUME SizeAssumption ==
  /\ SourceFrames \in Nat /\ MaxUnderruns \in Nat
  /\ RingFrames \in Nat \ {0} /\ RenderBlock \in Nat \ {0} /\ BlockFrames \in Nat \ {0}
ASSUME NoneAssumption == None \notin Processors

VARIABLES
  stream, inCallback,   \* the device, as AudioDevice describes it
  cpc,          \* where the control thread is in play() or stop()
  request,      \* the arguments of the play() in progress
  take,         \* history: tells the frames of one play() from the last one's
  running,      \* running_
  processor,    \* processor_
  rangeStart,   \* rangeStart_
  rangeLength,  \* rangeLength_
  framesPlayed, \* framesPlayed_
  exhausted,    \* sourceExhausted_
  underruns,    \* underruns_
  queue,        \* what is in ring_
  wpc,          \* where the worker is in runWorker()
  cursor,       \* the worker's cursor into the source
  pending,      \* frames read and not yet written to the ring
  got           \* what the callback in progress took from the ring

device == <<stream, inCallback>>
worker == <<wpc, cursor, pending>>
settings == <<take, processor, rangeStart, rangeLength>>
counters == <<framesPlayed, exhausted, underruns>>
vars == <<device, cpc, request, settings, running, counters, queue, worker, got>>

Dev == INSTANCE AudioDevice

Min2(a, b) == IF a < b THEN a ELSE b

Requests == [from : 0..SourceFrames, to : 0..SourceFrames, processor : Processors \cup {None}]

Init ==
  /\ Dev!Init
  /\ cpc = "idle"
  /\ request = [from |-> 0, to |-> 0, processor |-> None]
  /\ take = 0
  /\ running = FALSE
  /\ processor = None
  /\ rangeStart = 0 /\ rangeLength = 0
  /\ framesPlayed = 0 /\ exhausted = FALSE /\ underruns = 0
  /\ queue = <<>>
  /\ wpc = "none" /\ cursor = 0 /\ pending = <<>>
  /\ got = <<>>
-----------------------------------------------------------------------------
(* stop(), on its own or as the first thing play() does.                   *)

StopCalled ==
  /\ cpc = "idle"
  /\ running' = FALSE
  /\ cpc' = "stopDevice"
  /\ UNCHANGED <<device, request, settings, counters, queue, worker, got>>

\* play() is stop() followed by the rest, with its arguments in hand.
PlayCalled(r) ==
  /\ cpc = "idle"
  /\ running' = FALSE
  /\ request' = r
  /\ cpc' = "playStopDevice"
  /\ UNCHANGED <<device, settings, counters, queue, worker, got>>

\* device_->stop() asks the stream to end ...
DeviceStopAsks ==
  /\ cpc \in {"stopDevice", "playStopDevice"}
  /\ Dev!Wind
  /\ UNCHANGED <<cpc, request, settings, running, counters, queue, worker, got>>

\* A bug: nobody waits for the stream to end.
DeviceStopReturns_AtOnce ==
  /\ cpc \in {"stopDevice", "playStopDevice"}
  /\ cpc' = IF cpc = "stopDevice" THEN "stopJoin" ELSE "playJoin"
  /\ UNCHANGED <<device, request, settings, running, counters, queue, worker, got>>

\* ... and returns once it has.
DeviceStopReturns ==
  /\ cpc \in {"stopDevice", "playStopDevice"}
  /\ stream = "off"
  /\ cpc' = IF cpc = "stopDevice" THEN "stopJoin" ELSE "playJoin"
  /\ UNCHANGED <<device, request, settings, running, counters, queue, worker, got>>

WorkerEnded == wpc \in {"none", "done"}

\* Joins the worker and drops the processor.
StopJoins ==
  /\ cpc \in {"stopJoin", "playJoin"}
  /\ WorkerEnded
  /\ wpc' = "none"
  /\ processor' = None
  /\ cpc' = IF cpc = "stopJoin" THEN "idle" ELSE "prepare"
  /\ UNCHANGED <<device, request, take, rangeStart, rangeLength, running, counters, queue,
                 cursor, pending, got>>
-----------------------------------------------------------------------------
(* The rest of play().                                                     *)

\* An empty range, a missing source or a source of another width.
PlayRefused ==
  /\ cpc = "prepare"
  /\ cpc' = "idle"
  /\ UNCHANGED <<device, request, settings, running, counters, queue, worker, got>>

\* A bug: the ring keeps what the last playback left in it.
PlayPrepares_NoReset ==
  /\ cpc = "prepare"
  /\ request.from < request.to
  /\ framesPlayed' = 0 /\ underruns' = 0 /\ exhausted' = FALSE
  /\ rangeStart' = request.from
  /\ rangeLength' = request.to - request.from
  /\ take' = 1 - take
  /\ processor' = request.processor
  /\ cpc' = "launch"
  /\ UNCHANGED <<device, request, running, queue, worker, got>>

PlayPrepares ==
  /\ cpc = "prepare"
  /\ request.from < request.to
  /\ framesPlayed' = 0 /\ underruns' = 0 /\ exhausted' = FALSE
  /\ rangeStart' = request.from
  /\ rangeLength' = request.to - request.from
  /\ take' = 1 - take
  /\ queue' = <<>>
  /\ processor' = request.processor
  /\ cpc' = "launch"
  /\ UNCHANGED <<device, request, running, worker, got>>

\* running_ goes true and the worker is created.
PlayLaunches ==
  /\ cpc = "launch"
  /\ running' = TRUE
  /\ wpc' = "loop"
  /\ cursor' = request.from
  /\ pending' = <<>>
  /\ cpc' = "startDevice"
  /\ UNCHANGED <<device, request, settings, counters, queue, got>>

\* device_->start(): the callback may run from here on, before it returns.
DeviceStarts ==
  /\ cpc = "startDevice"
  /\ Dev!SwitchOn
  /\ cpc' = "starting"
  /\ UNCHANGED <<request, settings, running, counters, queue, worker, got>>

DeviceStartReturns ==
  /\ cpc = "starting"
  /\ cpc' = "idle"
  /\ UNCHANGED <<device, request, settings, running, counters, queue, worker, got>>

\* The stream did not open: no callback was ever made.
DeviceStartFails ==
  /\ cpc = "startDevice"
  /\ cpc' = "failed"
  /\ UNCHANGED <<device, request, settings, running, counters, queue, worker, got>>

\* start() gave up waiting, and what it left behind still unwinds.
DeviceStartTimesOut ==
  /\ cpc = "starting"
  /\ Dev!Wind
  /\ cpc' = "failed"
  /\ UNCHANGED <<request, settings, running, counters, queue, worker, got>>

PlayFails ==
  /\ cpc = "failed"
  /\ running' = FALSE
  /\ cpc' = "failedJoin"
  /\ UNCHANGED <<device, request, settings, counters, queue, worker, got>>

\* The worker is joined; the device is not stopped and the processor is kept.
PlayFailedJoins ==
  /\ cpc = "failedJoin"
  /\ WorkerEnded
  /\ wpc' = "none"
  /\ cpc' = "idle"
  /\ UNCHANGED <<device, request, settings, running, counters, queue, cursor, pending, got>>
-----------------------------------------------------------------------------
(* runWorker().                                                            *)

\* The worker's copy of `to`: a new range is only set once it has been joined.
rangeEnd == rangeStart + rangeLength

WorkerStep(pc) ==
  /\ wpc' = pc
  /\ UNCHANGED <<device, cpc, request, settings, running, framesPlayed, underruns, got>>

\* A bug: the end of the range is looked for before the last block is written.
WorkerLoops_DropsTail ==
  /\ wpc = "loop"
  /\ WorkerStep(CASE ~running -> "done"
                  [] running /\ cursor >= rangeEnd /\ Len(pending) < RenderBlock -> "exhaust"
                  [] running /\ pending # <<>> -> "write"
                  [] OTHER -> "read")
  /\ UNCHANGED <<exhausted, cursor, pending, queue>>

WorkerLoops ==
  /\ wpc = "loop"
  /\ WorkerStep(CASE ~running -> "done"
                  [] running /\ pending # <<>> -> "write"
                  [] running /\ pending = <<>> /\ cursor >= rangeEnd -> "exhaust"
                  [] OTHER -> "read")
  /\ UNCHANGED <<exhausted, cursor, pending, queue>>

\* The source gives some of what was asked for.
WorkerReads ==
  /\ wpc = "read"
  /\ \E frames \in 1..Min2(RenderBlock, rangeEnd - cursor) :
       /\ pending' = [i \in 1..frames |-> <<take, cursor + i - 1>>]
       /\ cursor' = cursor + frames
  /\ WorkerStep("write")
  /\ UNCHANGED <<exhausted, queue>>

\* It fails, or has no more to give.
WorkerReadFails ==
  /\ wpc = "read"
  /\ WorkerStep("exhaust")
  /\ UNCHANGED <<exhausted, cursor, pending, queue>>

WorkerExhausts ==
  /\ wpc = "exhaust"
  /\ exhausted' = TRUE
  /\ WorkerStep("done")
  /\ UNCHANGED <<cursor, pending, queue>>

\* A bug: `offset` stays behind, so a block that did not fit is sent again.
WorkerWrites_Again(frames) ==
  /\ wpc = "write"
  /\ queue' = queue \o SubSeq(pending, 1, frames)
  /\ pending' = SubSeq(pending, 1, Len(pending) - frames)
  /\ WorkerStep("loop")
  /\ UNCHANGED <<exhausted, cursor>>

\* ring_->write() takes what fits in the space it sees, perhaps nothing.
WorkerWrites(frames) ==
  /\ wpc = "write"
  /\ queue' = queue \o SubSeq(pending, 1, frames)
  /\ pending' = SubSeq(pending, frames + 1, Len(pending))
  /\ WorkerStep("loop")
  /\ UNCHANGED <<exhausted, cursor>>

Fits == Min2(Len(pending), RingFrames - Len(queue))
-----------------------------------------------------------------------------
(* The device: its callback, and the end of a stream that unwinds.         *)

\* ring_->read() hands over what it sees, up to a block.
CallbackReads(frames) ==
  /\ Dev!CallbackBegins
  /\ got' = SubSeq(queue, 1, frames)
  /\ queue' = SubSeq(queue, frames + 1, Len(queue))
  /\ UNCHANGED <<cpc, request, settings, running, counters, worker>>

Ready == Min2(BlockFrames, Len(queue))


\* The block goes through the processor and to the device; frames and, for a
\* short block, an underrun are counted.
CallbackEnds ==
  /\ Dev!CallbackEnds
  /\ framesPlayed' = framesPlayed + Len(got)
  /\ underruns' = IF Len(got) < BlockFrames /\ ~exhausted
                  THEN Min2(underruns + 1, MaxUnderruns) ELSE underruns
  /\ got' = <<>>
  /\ UNCHANGED <<cpc, request, settings, running, exhausted, queue, worker>>

StreamUnwinds ==
  /\ stream = "unwinding"
  /\ Dev!SwitchOff
  /\ UNCHANGED <<cpc, request, settings, running, counters, queue, worker, got>>
-----------------------------------------------------------------------------
Call == StopCalled \/ \E r \in Requests : PlayCalled(r)

ControlStep ==
  \/ DeviceStopAsks \/ DeviceStopReturns \/ StopJoins
  \/ PlayRefused \/ PlayPrepares \/ PlayLaunches
  \/ DeviceStarts \/ DeviceStartReturns \/ DeviceStartFails \/ DeviceStartTimesOut
  \/ PlayFails \/ PlayFailedJoins

WorkerNext ==
  \/ WorkerLoops \/ WorkerReads \/ WorkerReadFails \/ WorkerExhausts
  \/ \E frames \in 0..Fits : WorkerWrites(frames)

CallbackNext ==
  \/ \E frames \in 0..Ready : CallbackReads(frames)
  \/ CallbackEnds

Next == Call \/ ControlStep \/ WorkerNext \/ CallbackNext \/ StreamUnwinds

Spec == Init /\ [][Next]_vars

\* A call in progress, the worker and the callback go on; a stream that
\* unwinds ends.  A ring that has room, or frames, again and again is at last
\* seen to have some (the indices are published with release stores).
Fairness ==
  /\ WF_vars(ControlStep)
  /\ WF_vars(WorkerNext)
  /\ WF_vars(CallbackNext)
  /\ SF_vars(StreamUnwinds)
  /\ SF_vars(\E frames \in 1..Fits : WorkerWrites(frames))
  /\ SF_vars(\E frames \in 1..Ready : CallbackReads(frames))

FairSpec == Spec /\ Fairness
-----------------------------------------------------------------------------
(* Properties.                                                             *)

Frame == {0, 1} \X (0..SourceFrames)

\* Every variable keeps its type and the ring is never over-filled.
TypeOK ==
  /\ stream \in {"off", "on", "unwinding"} /\ inCallback \in BOOLEAN
  /\ cpc \in {"idle", "stopDevice", "playStopDevice", "stopJoin", "playJoin", "prepare",
              "launch", "startDevice", "starting", "failed", "failedJoin"}
  /\ request \in Requests
  /\ take \in {0, 1} /\ running \in BOOLEAN /\ processor \in Processors \cup {None}
  /\ rangeStart \in 0..SourceFrames /\ rangeLength \in 0..SourceFrames
  /\ framesPlayed \in 0..rangeLength
  /\ exhausted \in BOOLEAN /\ underruns \in 0..MaxUnderruns
  /\ queue \in Seq(Frame) /\ Len(queue) <= RingFrames
  /\ wpc \in {"none", "loop", "read", "exhaust", "write", "done"}
  /\ cursor \in 0..SourceFrames
  /\ pending \in Seq(Frame) /\ got \in Seq(Frame)

\* From the source to the loudspeaker nothing is lost, repeated, reordered or
\* carried over from the playback before: what the callback holds, what is in
\* the ring and what the worker has yet to write are together the frames from
\* the reported position to the worker's cursor.
PipelineIsContiguous ==
  ~WorkerEnded =>
    got \o queue \o pending =
      [i \in 1..(cursor - rangeStart - framesPlayed) |->
         <<take, rangeStart + framesPlayed + i - 1>>]

\* What a block that is being played consists of is what the position says,
\* also while a playback is being stopped or has failed.
PlaysFromPosition ==
  \A i \in 1..Len(got) : got[i] = <<take, rangeStart + framesPlayed + i - 1>>

\* What is played is the range, from its beginning, each frame once.
PlaysTheDocument == PipelineIsContiguous /\ PlaysFromPosition

\* processor_, the scratch and the ring's reset take no lock: they are touched
\* only while no stream is there to call back and no worker runs.
SetupIsUnobserved ==
  [][(processor' # processor \/ take' # take) => stream = "off" /\ WorkerEnded]_vars

\* When stop() returns the callback is over, the worker is joined and nobody
\* will use the processor any more, even if the last play() had timed out.
StopIsQuiet ==
  [][cpc = "stopJoin" /\ cpc' = "idle" =>
       stream' = "off" /\ ~inCallback' /\ wpc' = "none" /\ processor' = None]_vars

\* Nothing runs behind a call's back: not while it prepares, not once it has
\* stopped what ran.
NothingRunsBehindACall == SetupIsUnobserved /\ StopIsQuiet

\* Every play() and every stop() returns.
EveryCallReturns == cpc # "idle" ~> cpc = "idle"

\* A playback that nobody stops reaches the end of its range, unless the source
\* fails on the way.
PlaysToTheEnd ==
  running /\ stream = "on" ~>
    \/ framesPlayed = rangeLength
    \/ exhausted /\ cursor < rangeEnd
    \/ ~running

\* What is asked of the player comes about: its calls return and it plays.
PlayerAnswers == EveryCallReturns /\ PlaysToTheEnd
=============================================================================
