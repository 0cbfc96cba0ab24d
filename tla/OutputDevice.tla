---------------------------- MODULE OutputDevice ----------------------------
(***************************************************************************)
(* A hardware playback device: the half of it that has nothing to do with  *)
(* the platform (src/sa-device/src/ThreadedOutputDevice.cpp), with the     *)
(* chunk-to-block adapter its render loop drives (InterleavedOutput.cpp).  *)
(*                                                                         *)
(* Any number of control threads call start() and stop(); lifecycle_       *)
(* serialises what they do, except for the store to running_ that stop()   *)
(* makes before it takes the mutex.  Each start() creates a render thread  *)
(* that opens the platform stream, answers start() through the handshake,  *)
(* and then renders, rebuilding a stream that breaks, until running_ goes  *)
(* false.                                                                  *)
(*                                                                         *)
(* The platform is external: a stream opens, fails cleanly or is left half *)
(* built, breaks whenever it likes, and asks for chunks of any size.       *)
(* wakeStream() and the notification in stop() only make a bounded wait    *)
(* end sooner, so they are not steps here.                                 *)
(***************************************************************************)
EXTENDS Naturals, FiniteSets

CONSTANTS
  Control,      \* the threads that may call start() and stop()
  Thread,       \* names for render threads; a joined one is used again
  None,         \* no thread, no lock holder, no callback
  BlockFrames,  \* frames per callback block
  MaxChunk      \* bound: the largest chunk the platform asks for, in frames

ASSUME BlockAssumption == BlockFrames \in Nat \ {0} /\ MaxChunk \in Nat \ {0}
ASSUME NoneAssumption == None \notin Control \cup Thread

VARIABLES
  running,     \* running_
  lifecycle,   \* the control thread that holds lifecycle_, or None
  settled,     \* startupSettled_
  startupOk,   \* startupStatus_.ok()
  handle,      \* the thread thread_ would join, or None
  callback,    \* callback_: the control thread whose start() installed it
  cpc,         \* where each control thread is in start() or stop()
  rpc,         \* where each render thread is in renderThreadMain()
  streamOpen,  \* whether the platform stream holds a resource
  consumed,    \* consumed_ of the OutputBlocker
  left,        \* frames of the current chunk still to be written
  stoppedItself \* history: the callback has called stop() in this run

control == <<lifecycle, handle, callback, cpc>>
shake == <<settled, startupOk>>
render == <<streamOpen, consumed, left>>
vars == <<running, lifecycle, settled, startupOk, handle, callback, cpc, rpc,
          streamOpen, consumed, left, stoppedItself>>

Init ==
  /\ running = FALSE
  /\ lifecycle = None
  /\ settled = FALSE
  /\ startupOk = TRUE
  /\ handle = None
  /\ callback = None
  /\ cpc = [c \in Control |-> "idle"]
  /\ rpc = [t \in Thread |-> "none"]
  /\ streamOpen = FALSE
  /\ consumed = 0
  /\ left = 0
  /\ stoppedItself = FALSE

Live(t) == rpc[t] \notin {"none", "done"}

Goto(c, pc) == cpc' = [cpc EXCEPT ![c] = pc]
Step(t, pc) == rpc' = [rpc EXCEPT ![t] = pc]
-----------------------------------------------------------------------------
(* The mutex and the join both operations use.                             *)

Lock(c) == lifecycle = None /\ lifecycle' = c
Return(c) == lifecycle' = None /\ Goto(c, "idle")

\* A bug: the handle is dropped without waiting for the thread.
Joins_NoWait ==
  /\ handle' = None
  /\ rpc' = rpc

\* joinRenderThread(): waits for the thread to end, if there is one to join.
Joins ==
  /\ handle # None => rpc[handle] = "done"
  /\ handle' = None
  /\ rpc' = IF handle = None THEN rpc ELSE [rpc EXCEPT ![handle] = "none"]
-----------------------------------------------------------------------------
(* start(callback).                                                        *)

\* A start() that finds the device running is refused and changes nothing.
StartLock(c) ==
  /\ cpc[c] = "idle"
  /\ ~running
  /\ Lock(c)
  /\ Goto(c, "startJoin")
  /\ UNCHANGED <<running, handle, callback, rpc, shake, render, stoppedItself>>

\* A bug: the thread of an earlier start() that timed out is forgotten.
StartJoin_Forgets(c) ==
  /\ cpc[c] = "startJoin"
  /\ handle' = None
  /\ Goto(c, "prepare")
  /\ UNCHANGED <<running, lifecycle, callback, rpc, shake, render, stoppedItself>>

StartJoin(c) ==
  /\ cpc[c] = "startJoin"
  /\ Joins
  /\ Goto(c, "prepare")
  /\ UNCHANGED <<running, lifecycle, callback, shake, render, stoppedItself>>

\* Readies the blocker, installs the callback and re-arms the handshake.
StartPrepare(c) ==
  /\ cpc[c] = "prepare"
  /\ consumed' = BlockFrames
  /\ callback' = c
  /\ settled' = FALSE
  /\ startupOk' = TRUE
  /\ Goto(c, "launch")
  /\ UNCHANGED <<running, lifecycle, handle, rpc, streamOpen, left, stoppedItself>>

StartLaunch(c) ==
  /\ cpc[c] = "launch"
  /\ running' = TRUE
  /\ stoppedItself' = FALSE
  /\ Goto(c, "spawn")
  /\ UNCHANGED <<lifecycle, handle, callback, rpc, shake, render>>

StartSpawn(c) ==
  /\ cpc[c] = "spawn"
  /\ \E t \in Thread :
       /\ rpc[t] = "none"
       /\ Step(t, "open")
       /\ handle' = t
  /\ Goto(c, "await")
  /\ UNCHANGED <<running, lifecycle, callback, shake, render, stoppedItself>>

\* std::thread throws: the resources are exhausted.
StartSpawnFails(c) ==
  /\ cpc[c] = "spawn"
  /\ running' = FALSE
  /\ callback' = None
  /\ Return(c)
  /\ UNCHANGED <<handle, rpc, shake, render, stoppedItself>>

StartAnswered(c) ==
  /\ cpc[c] = "await"
  /\ settled
  /\ IF startupOk THEN Return(c) ELSE Goto(c, "abort") /\ UNCHANGED lifecycle
  /\ UNCHANGED <<running, handle, callback, rpc, shake, render, stoppedItself>>

StartAbort(c) ==
  /\ cpc[c] = "abort"
  /\ running' = FALSE
  /\ Goto(c, "abortJoin")
  /\ UNCHANGED <<lifecycle, handle, callback, rpc, shake, render, stoppedItself>>

StartAbortJoin(c) ==
  /\ cpc[c] = "abortJoin"
  /\ Joins
  /\ callback' = None
  /\ Return(c)
  /\ UNCHANGED <<running, shake, render, stoppedItself>>

\* The wait runs out.  The thread may still answer before the next step.
StartTimesOut(c) ==
  /\ cpc[c] = "await"
  /\ ~settled
  /\ Goto(c, "giveUp")
  /\ UNCHANGED <<running, lifecycle, handle, callback, rpc, shake, render, stoppedItself>>

\* Deliberately not joined: the next stop() or start() does it.
StartGiveUp(c) ==
  /\ cpc[c] = "giveUp"
  /\ running' = FALSE
  /\ Return(c)
  /\ UNCHANGED <<handle, callback, rpc, shake, render, stoppedItself>>
-----------------------------------------------------------------------------
(* stop(), from a control thread.  The destructor of a backend is one.     *)

StopRequest(c) ==
  /\ cpc[c] = "idle"
  /\ running' = FALSE
  /\ Goto(c, "stopLock")
  /\ UNCHANGED <<lifecycle, handle, callback, rpc, shake, render, stoppedItself>>

StopLock(c) ==
  /\ cpc[c] = "stopLock"
  /\ Lock(c)
  /\ Goto(c, "stopJoin")
  /\ UNCHANGED <<running, handle, callback, rpc, shake, render, stoppedItself>>

StopJoin(c) ==
  /\ cpc[c] = "stopJoin"
  /\ Joins
  /\ Return(c)
  /\ UNCHANGED <<running, callback, shake, render, stoppedItself>>
-----------------------------------------------------------------------------
(* renderThreadMain().                                                     *)

OpenSucceeds == streamOpen' = TRUE
OpenFails == streamOpen' \in BOOLEAN      \* a half-built stream holds resources

RenderOpen(t) ==
  /\ rpc[t] = "open"
  /\ \/ OpenSucceeds /\ Step(t, "publishOk")
     \/ OpenFails /\ Step(t, "publishError")
  /\ UNCHANGED <<running, control, shake, consumed, left, stoppedItself>>

RenderPublish(t) ==
  /\ rpc[t] \in {"publishOk", "publishError"}
  /\ settled' = TRUE
  /\ startupOk' = (rpc[t] = "publishOk")
  /\ Step(t, IF rpc[t] = "publishOk" THEN "loop" ELSE "finalClose")
  /\ UNCHANGED <<running, control, render, stoppedItself>>

\* A bug: a stop that lands before the first pass skips the final close.
RenderLoop_LeavesOpen(t) ==
  /\ rpc[t] = "loop"
  /\ Step(t, IF running THEN "stream" ELSE "done")
  /\ UNCHANGED <<running, control, shake, render, stoppedItself>>

RenderLoop(t) ==
  /\ rpc[t] = "loop"
  /\ Step(t, IF running THEN "stream" ELSE "finalClose")
  /\ UNCHANGED <<running, control, shake, render, stoppedItself>>
-----------------------------------------------------------------------------
(* runStream() and OutputBlocker::render().                                *)

\* A bug: running_ is not looked at between chunks.
ChunkBegins_Unasked(t) ==
  /\ rpc[t] = "stream"
  /\ streamOpen
  /\ left' \in 1..MaxChunk
  /\ Step(t, "chunk")
  /\ UNCHANGED <<running, control, shake, streamOpen, consumed, stoppedItself>>

\* The platform asks for another chunk while the device should be playing.
ChunkBegins(t) ==
  /\ rpc[t] = "stream"
  /\ streamOpen
  /\ running
  /\ left' \in 1..MaxChunk
  /\ Step(t, "chunk")
  /\ UNCHANGED <<running, control, shake, streamOpen, consumed, stoppedItself>>

\* The block is spent, so the callback is asked for another.
CallbackBegins(t) ==
  /\ rpc[t] = "chunk"
  /\ left > 0
  /\ consumed >= BlockFrames
  /\ Step(t, "callback")
  /\ UNCHANGED <<running, control, shake, render, stoppedItself>>

\* The callback stops its own device: stop() returns at once.
CallbackStops(t) ==
  /\ rpc[t] = "callback"
  /\ running' = FALSE
  /\ stoppedItself' = TRUE
  /\ UNCHANGED <<control, rpc, shake, render>>

CallbackEnds(t) ==
  /\ rpc[t] = "callback"
  /\ consumed' = 0
  /\ Step(t, "chunk")
  /\ UNCHANGED <<running, control, shake, streamOpen, left, stoppedItself>>


ChunkCopies(t) ==
  LET available == BlockFrames - consumed
      frames == IF left < available THEN left ELSE available
  IN
  /\ rpc[t] = "chunk"
  /\ left > 0
  /\ consumed < BlockFrames
  /\ consumed' = consumed + frames
  /\ left' = left - frames
  /\ UNCHANGED <<running, control, rpc, shake, streamOpen, stoppedItself>>

\* The platform takes the chunk.
ChunkEnds(t) ==
  /\ rpc[t] = "chunk"
  /\ left = 0
  /\ Step(t, "stream")
  /\ UNCHANGED <<running, control, shake, render, stoppedItself>>

\* runStream() returns: the stream was never built, running_ went false, or
\* the stream broke (at any time between two chunks).
StreamEnds(t) ==
  /\ rpc[t] = "stream"
  /\ Step(t, "close")
  /\ UNCHANGED <<running, control, shake, render, stoppedItself>>
-----------------------------------------------------------------------------
(* After runStream(): close, and rebuild if the device is still wanted.    *)

RenderClose(t) ==
  /\ rpc[t] = "close"
  /\ streamOpen' = FALSE
  /\ Step(t, "closed")
  /\ UNCHANGED <<running, control, shake, consumed, left, stoppedItself>>

RenderCheck(t) ==
  /\ rpc[t] = "closed"
  /\ Step(t, IF running THEN "discard" ELSE "finalClose")
  /\ UNCHANGED <<running, control, shake, render, stoppedItself>>

RenderDiscard(t) ==
  /\ rpc[t] = "discard"
  /\ consumed' = BlockFrames
  /\ Step(t, "backoff")
  /\ UNCHANGED <<running, control, shake, streamOpen, left, stoppedItself>>

\* waitBeforeRestart(), which ends by itself after kStreamRestartDelayMs.
RenderBackoff(t) ==
  /\ rpc[t] = "backoff"
  /\ Step(t, IF running THEN "reopen" ELSE "finalClose")
  /\ UNCHANGED <<running, control, shake, render, stoppedItself>>

ReopenSucceeds(t) ==
  /\ rpc[t] = "reopen"
  /\ OpenSucceeds
  /\ Step(t, "loop")
  /\ UNCHANGED <<running, control, shake, consumed, left, stoppedItself>>

\* A bug: a rebuild that fails is the end of the stream.
ReopenFails_GivesUp(t) ==
  /\ rpc[t] = "reopen"
  /\ OpenFails
  /\ Step(t, "finalClose")
  /\ UNCHANGED <<running, control, shake, consumed, left, stoppedItself>>

ReopenFails(t) ==
  /\ rpc[t] = "reopen"
  /\ OpenFails
  /\ Step(t, "reopenFailed")
  /\ UNCHANGED <<running, control, shake, consumed, left, stoppedItself>>

RenderReopenFailed(t) ==
  /\ rpc[t] = "reopenFailed"
  /\ streamOpen' = FALSE
  /\ Step(t, "loop")
  /\ UNCHANGED <<running, control, shake, consumed, left, stoppedItself>>

RenderFinalClose(t) ==
  /\ rpc[t] = "finalClose"
  /\ streamOpen' = FALSE
  /\ Step(t, "done")
  /\ UNCHANGED <<running, control, shake, consumed, left, stoppedItself>>
-----------------------------------------------------------------------------
\* What a call in progress does next.
ControlStep(c) ==
  \/ StartJoin(c) \/ StartPrepare(c) \/ StartLaunch(c)
  \/ StartSpawn(c) \/ StartSpawnFails(c)
  \/ StartAnswered(c) \/ StartAbort(c) \/ StartAbortJoin(c)
  \/ StartTimesOut(c) \/ StartGiveUp(c)
  \/ StopLock(c) \/ StopJoin(c)

RenderStep(t) ==
  \/ RenderOpen(t) \/ RenderPublish(t) \/ RenderLoop(t)
  \/ ChunkBegins(t) \/ CallbackBegins(t) \/ CallbackEnds(t)
  \/ ChunkCopies(t) \/ ChunkEnds(t) \/ StreamEnds(t)
  \/ RenderClose(t) \/ RenderCheck(t) \/ RenderDiscard(t) \/ RenderBackoff(t)
  \/ ReopenSucceeds(t) \/ ReopenFails(t) \/ RenderReopenFailed(t)
  \/ RenderFinalClose(t)

Next ==
  \/ \E c \in Control : StartLock(c) \/ StopRequest(c) \/ ControlStep(c)
  \/ \E t \in Thread : RenderStep(t) \/ CallbackStops(t)

Spec == Init /\ [][Next]_vars

\* Calls go on once begun, and so do render threads: openStream() and the
\* callback return.  A platform that is asked for a stream again and again
\* grants one at last, and one that runs a stream again and again at last asks
\* it for a chunk.
Fairness ==
  /\ \A c \in Control : WF_vars(ControlStep(c))
  /\ \A t \in Thread : /\ WF_vars(RenderStep(t))
                       /\ SF_vars(ReopenSucceeds(t))
                       /\ SF_vars(ChunkBegins(t))

FairSpec == Spec /\ Fairness
-----------------------------------------------------------------------------
(* Properties.                                                             *)

ControlPc == {"idle", "startJoin", "prepare", "launch", "spawn", "await", "abort",
              "abortJoin", "giveUp", "stopLock", "stopJoin"}
RenderPc == {"none", "open", "publishOk", "publishError", "loop", "stream", "chunk",
             "callback", "close", "closed", "discard", "backoff", "reopen",
             "reopenFailed", "finalClose", "done"}

\* Every variable keeps its type; a block is never over-consumed.
TypeOK ==
  /\ running \in BOOLEAN /\ settled \in BOOLEAN /\ startupOk \in BOOLEAN
  /\ streamOpen \in BOOLEAN /\ stoppedItself \in BOOLEAN
  /\ lifecycle \in Control \cup {None}
  /\ handle \in Thread \cup {None}
  /\ callback \in Control \cup {None}
  /\ cpc \in [Control -> ControlPc]
  /\ rpc \in [Thread -> RenderPc]
  /\ consumed \in 0..BlockFrames
  /\ left \in 0..MaxChunk

\* Whatever start() and stop() calls overlap, timed out or were made by the
\* callback itself, the one render thread there is is the one thread_ can
\* join, and start() never assigns to a thread_ that is still joinable (which
\* would end the process).
OneRenderThread ==
  /\ \A t \in Thread : rpc[t] # "none" => handle = t
  /\ \A c \in Control : cpc[c] = "spawn" => handle = None

\* callback_ is a plain std::function that the render thread calls without a
\* lock: it is never replaced or cleared while a render thread lives.
CallbackIsStable == [][callback' # callback => \A t \in Thread : ~Live(t)]_vars

\* The guarantee stop() exists for: when it returns to a control thread the
\* callback is not running and no thread is left that could run it.
StopIsSilence ==
  [][\A c \in Control :
       cpc[c] = "stopJoin" /\ cpc'[c] = "idle" => \A t \in Thread : ~Live(t)']_vars

\* A callback that stops its own device ("The thread unwinds after the current
\* block", AudioDevice.h) is asked for no more than the platform's current chunk:
\* the thread unwinds with that.
UnwindsWithTheChunk ==
  [][\A t \in Thread : rpc[t] = "stream" /\ rpc'[t] = "chunk" => ~stoppedItself]_vars

\* The sentence itself. It does not hold: a chunk longer than what is left of a
\* block asks the callback again in OutputBlocker::render(), which never looks at
\* running_ (README, "Seen while modelling").
UnwindsAfterCurrentBlock ==
  [][\A t \in Thread : rpc[t] # "callback" /\ rpc'[t] = "callback" => ~stoppedItself]_vars

\* Every platform stream is closed before the next one is opened and before
\* its render thread ends, half-built ones and those a stop overtook included.
NoStreamLeak ==
  /\ \A t \in Thread : rpc[t] \in {"open", "reopen", "done"} => ~streamOpen
  /\ handle = None => ~streamOpen

\* A rebuilt stream never starts in the middle of a block that was rendered
\* for the endpoint that has gone.
RebuildStartsOnNewBlock ==
  \A t \in Thread : rpc[t] \in {"open", "loop", "reopen"} => consumed = BlockFrames

\* Whatever breaks, times out or is stopped half way: one thread, that can be
\* joined, with one stream, that starts on a block of its own and is closed.
NothingIsLeftBehind == OneRenderThread /\ NoStreamLeak /\ RebuildStartsOnNewBlock

\* What the device looks like to whoever started it.
Stream ==
  IF \A t \in Thread : ~Live(t) THEN "off" ELSE IF running THEN "on" ELSE "unwinding"
InCallback == \E t \in Thread : rpc[t] = "callback"

Contract == INSTANCE AudioDevice WITH stream <- Stream, inCallback <- InCallback

\* The device keeps the contract of AudioDevice, under any number of callers: the
\* callback runs in a stream only, is the same throughout, and is not asked for
\* another chunk once it has stopped the device.
KeepsContract == Contract!Spec /\ CallbackIsStable /\ UnwindsWithTheChunk

\* While no other control thread calls in, every start() and every stop()
\* returns, whatever the platform and the callback do meanwhile: nobody waits on
\* himself.  Two callers can make a stop() wait for as long as the device plays,
\* see StopJoinsAnUnwindingLoop.
LoneCallReturns ==
  \A c \in Control :
    [](\A other \in Control \ {c} : cpc[other] = "idle")
      => (cpc[c] # "idle" ~> cpc[c] = "idle")

\* A stream that breaks is rebuilt until the callback runs again or somebody
\* stops the device, however often the platform refuses.
AudioComesBack == \A t \in Thread : rpc[t] = "closed" ~> rpc[t] = "callback" \/ ~running

\* stop() says of the store it makes before taking the mutex: "Requested before
\* anything else, so the loop is already unwinding by the time we get as far as
\* joining it."
StopJoinsAnUnwindingLoop == \A c \in Control : cpc[c] = "stopJoin" => ~running
=============================================================================
