---------------------------- MODULE DevicesProofs ----------------------------
(***************************************************************************)
(* For any callers, endpoints, mixers, periods, blocks and rates: what     *)
(* every kind of output device keeps.  The platform-neutral half of a      *)
(* hardware device comes first, by itself, then the null device and the    *)
(* two platforms, each with an inductive invariant of its own, and then    *)
(* their sum.                                                              *)
(***************************************************************************)
EXTENDS MCDevices, TLAPS

-----------------------------------------------------------------------------
(* The platform-neutral half: one joinable render thread, no stream leaked, *)
(* a rebuilt one starting on a block of its own, silence once stop() has   *)
(* returned, no callback swapped under a running thread, and the contract  *)
(* of AudioDevice.                                                         *)
(*                                                                         *)
(* Everything rests on two facts.  Whoever is past lifecycle_ is alone     *)
(* there (LockHeld), and a render thread exists only while thread_ names   *)
(* it, which it does not from the join in start() to the new thread        *)
(* (ThreadJoinable).  So there is never more than one render thread, and   *)
(* what it leaves in the stream and the block can be said per program      *)
(* counter (StreamClosed, BlockReady).                                     *)


\* lifecycle_ is held by exactly the call that is past it.
LockHeld == \A c \in Control : cpc[c] \notin {"idle", "stopLock"} <=> lifecycle = c

\* A render thread is the one that thread_ names; between the join and the new
\* thread there is none.
ThreadJoinable ==
  /\ \A t \in Thread : rpc[t] # "none" => handle = t
  /\ \A c \in Control : cpc[c] \in {"prepare", "launch", "spawn"} => handle = None

\* Where the render thread is sure that no platform stream is open.
StreamClosed ==
  /\ \A t \in Thread :
       rpc[t] \in {"open", "closed", "discard", "backoff", "reopen", "done"} => ~streamOpen
  /\ handle = None => ~streamOpen

\* Where it is sure that the next sample starts a block.
BlockReady ==
  /\ \A t \in Thread :
       rpc[t] \in {"open", "publishOk", "loop", "backoff", "reopen", "reopenFailed"}
         => consumed = BlockFrames
  /\ \A c \in Control : cpc[c] \in {"launch", "spawn"} => consumed = BlockFrames

\* The inductive invariant.
DeviceInv == TypeOK /\ LockHeld /\ ThreadJoinable /\ StreamClosed /\ BlockReady
-----------------------------------------------------------------------------
LEMMA InitDeviceInv == Init => DeviceInv
<1> SUFFICES ASSUME Init PROVE DeviceInv
  OBVIOUS
<1>1. TypeOK
  <2>1. consumed \in 0..BlockFrames /\ left \in 0..MaxChunk
    BY BlockAssumption DEF Init
  <2>2. cpc \in [Control -> ControlPc] /\ rpc \in [Thread -> RenderPc]
    BY DEF Init, ControlPc, RenderPc
  <2> QED
    BY <2>1, <2>2 DEF Init, TypeOK
<1>2. LockHeld /\ ThreadJoinable /\ StreamClosed /\ BlockReady
  BY NoneAssumption DEF Init, LockHeld, ThreadJoinable, StreamClosed, BlockReady
<1> QED
  BY <1>1, <1>2 DEF DeviceInv

\* The one render thread.
LEMMA OneThread ==
  ASSUME DeviceInv, NEW t \in Thread, rpc[t] # "none"
  PROVE  /\ handle = t /\ handle # None
         /\ \A u \in Thread : u # t => rpc[u] = "none"
         /\ \A c \in Control : cpc[c] \notin {"prepare", "launch", "spawn"}
BY NoneAssumption DEF DeviceInv, ThreadJoinable

LEMMA NoThread ==
  ASSUME DeviceInv, handle = None
  PROVE  \A t \in Thread : rpc[t] = "none"
BY NoneAssumption DEF DeviceInv, ThreadJoinable

\* joinRenderThread(), wherever it is called: no thread is left, and the one
\* there was had closed its stream.
LEMMA JoinsClears ==
  ASSUME DeviceInv, Joins
  PROVE  /\ handle' = None
         /\ rpc' \in [Thread -> RenderPc]
         /\ \A t \in Thread : rpc'[t] = "none"
         /\ \A t \in Thread : ~Live(t)
         /\ ~streamOpen
<1>1. CASE handle = None
  BY <1>1, NoThread DEF Joins, DeviceInv, TypeOK, StreamClosed, Live
<1>2. CASE handle # None
  <2>1. handle \in Thread /\ rpc[handle] = "done"
    BY <1>2 DEF Joins, DeviceInv, TypeOK
  <2>2. \A u \in Thread : u # handle => rpc[u] = "none"
    BY <2>1, OneThread
  <2>3. rpc' = [rpc EXCEPT ![handle] = "none"] /\ handle' = None
    BY <1>2 DEF Joins
  <2>4. rpc \in [Thread -> RenderPc]
    BY DEF DeviceInv, TypeOK
  <2>5. rpc' \in [Thread -> RenderPc] /\ \A t \in Thread : rpc'[t] = "none"
    BY <2>1, <2>2, <2>3, <2>4 DEF RenderPc
  <2>6. ~streamOpen
    BY <2>1 DEF DeviceInv, StreamClosed
  <2> QED
    BY <2>1, <2>2, <2>3, <2>5, <2>6 DEF Live
<1> QED
  BY <1>1, <1>2
-----------------------------------------------------------------------------
(* The control threads.                                                    *)

\* How a step of one control thread moves its program counter.
LEMMA GotoMoves ==
  ASSUME DeviceInv, NEW c \in Control, NEW pc \in ControlPc, Goto(c, pc)
  PROVE  /\ cpc' \in [Control -> ControlPc]
         /\ cpc'[c] = pc
         /\ \A d \in Control : d # c => cpc'[d] = cpc[d]
BY DEF Goto, DeviceInv, TypeOK

\* Whoever holds the mutex is alone past it.
LEMMA Alone ==
  ASSUME DeviceInv, NEW c \in Control, cpc[c] \notin {"idle", "stopLock"}
  PROVE  /\ lifecycle = c
         /\ \A d \in Control : d # c => cpc[d] \in {"idle", "stopLock"}
BY DEF DeviceInv, LockHeld

\* Steps that enter or leave the mutex, or move within it, without touching a
\* thread, the stream or the block.
LEMMA QuietControlKeeps ==
  ASSUME DeviceInv, NEW c \in Control,
         \/ StartLock(c) \/ StartAnswered(c) \/ StartAbort(c)
         \/ StartTimesOut(c) \/ StartGiveUp(c) \/ StopRequest(c) \/ StopLock(c)
  PROVE  DeviceInv'
<1>1. PICK pc \in ControlPc \ {"prepare", "launch", "spawn"} : Goto(c, pc)
  BY DEF StartLock, StartAnswered, StartAbort, StartTimesOut, StartGiveUp,
         StopRequest, StopLock, Return, ControlPc
<1>2. /\ cpc' \in [Control -> ControlPc]
      /\ cpc'[c] = pc
      /\ \A d \in Control : d # c => cpc'[d] = cpc[d]
  BY <1>1, GotoMoves
<1>3. UNCHANGED <<handle, callback, rpc, settled, startupOk, streamOpen, consumed, left, stoppedItself>>
  BY DEF StartLock, StartAnswered, StartAbort, StartTimesOut, StartGiveUp,
         StopRequest, StopLock, shake, render
<1>4. running' \in BOOLEAN /\ lifecycle' \in Control \cup {None}
  BY DEF StartLock, StartAnswered, StartAbort, StartTimesOut, StartGiveUp,
         StopRequest, StopLock, Lock, Return, DeviceInv, TypeOK
<1>5. TypeOK'
  BY <1>2, <1>3, <1>4 DEF DeviceInv, TypeOK
<1>6. LockHeld'
  <2>1. CASE StartLock(c) \/ StopLock(c)
    BY <1>2, <2>1, NoneAssumption DEF StartLock, StopLock, Lock, Goto, DeviceInv, TypeOK, LockHeld
  <2>2. CASE StopRequest(c)
    BY <1>2, <2>2, NoneAssumption DEF StopRequest, Goto, DeviceInv, TypeOK, LockHeld
  <2>3. CASE StartAnswered(c) \/ StartAbort(c) \/ StartTimesOut(c) \/ StartGiveUp(c)
    BY <1>2, <2>3, NoneAssumption
    DEF StartAnswered, StartAbort, StartTimesOut, StartGiveUp, Goto, Return, DeviceInv, TypeOK, LockHeld
  <2> QED
    BY <2>1, <2>2, <2>3
<1>7. ThreadJoinable' /\ StreamClosed' /\ BlockReady'
  BY <1>1, <1>2, <1>3 DEF DeviceInv, ThreadJoinable, StreamClosed, BlockReady
<1> QED
  BY <1>5, <1>6, <1>7 DEF DeviceInv

LEMMA StartJoinKeeps ==
  ASSUME DeviceInv, NEW c \in Control, StartJoin(c)
  PROVE  DeviceInv'
<1>1. Goto(c, "prepare") /\ "prepare" \in ControlPc
  BY DEF StartJoin, ControlPc
<1>2. /\ cpc' \in [Control -> ControlPc] /\ cpc'[c] = "prepare" /\ cpc[c] = "startJoin"
      /\ \A d \in Control : d # c => cpc'[d] = cpc[d]
      /\ \A d \in Control : d # c => cpc[d] \in {"idle", "stopLock"}
  BY <1>1, GotoMoves, Alone DEF StartJoin
<1>3. /\ handle' = None /\ rpc' \in [Thread -> RenderPc]
      /\ (\A t \in Thread : rpc'[t] = "none") /\ ~streamOpen
  BY JoinsClears DEF StartJoin
<1>4. UNCHANGED <<running, lifecycle, callback, settled, startupOk, streamOpen, consumed, left, stoppedItself>>
  BY DEF StartJoin, shake, render
<1>5. TypeOK'
  BY <1>2, <1>3, <1>4 DEF DeviceInv, TypeOK
<1>6. LockHeld'
  BY <1>2, <1>4 DEF DeviceInv, LockHeld
<1>7. ThreadJoinable' /\ StreamClosed' /\ BlockReady'
  BY <1>2, <1>3, <1>4 DEF DeviceInv, ThreadJoinable, StreamClosed, BlockReady
<1> QED
  BY <1>5, <1>6, <1>7 DEF DeviceInv

\* StartAbortJoin and StopJoin join and leave the mutex.
LEMMA FinalJoinKeeps ==
  ASSUME DeviceInv, NEW c \in Control, StartAbortJoin(c) \/ StopJoin(c)
  PROVE  DeviceInv'
<1>1. Goto(c, "idle") /\ "idle" \in ControlPc /\ lifecycle' = None
  BY DEF StartAbortJoin, StopJoin, Return, ControlPc
<1>2. /\ cpc' \in [Control -> ControlPc] /\ cpc'[c] = "idle"
      /\ \A d \in Control : d # c => cpc'[d] = cpc[d]
      /\ \A d \in Control : d # c => cpc[d] \in {"idle", "stopLock"}
  BY <1>1, GotoMoves, Alone DEF StartAbortJoin, StopJoin
<1>3. /\ handle' = None /\ rpc' \in [Thread -> RenderPc]
      /\ (\A t \in Thread : rpc'[t] = "none") /\ ~streamOpen
  BY JoinsClears DEF StartAbortJoin, StopJoin
<1>4. /\ UNCHANGED <<running, settled, startupOk, streamOpen, consumed, left, stoppedItself>>
      /\ callback' \in {callback, None}
  BY DEF StartAbortJoin, StopJoin, shake, render
<1>5. TypeOK'
  BY <1>1, <1>2, <1>3, <1>4 DEF DeviceInv, TypeOK
<1>6. LockHeld'
  BY <1>1, <1>2, NoneAssumption DEF DeviceInv, LockHeld
<1>7. ThreadJoinable' /\ StreamClosed' /\ BlockReady'
  BY <1>2, <1>3, <1>4 DEF DeviceInv, ThreadJoinable, StreamClosed, BlockReady
<1> QED
  BY <1>5, <1>6, <1>7 DEF DeviceInv

\* From the join to the new thread there is no render thread to disturb.
LEMMA PreparingKeeps ==
  ASSUME DeviceInv, NEW c \in Control, StartPrepare(c) \/ StartLaunch(c) \/ StartSpawnFails(c)
  PROVE  DeviceInv'
<1>1. PICK pc \in {"launch", "spawn", "idle"} : Goto(c, pc)
  BY DEF StartPrepare, StartLaunch, StartSpawnFails, Return
<1>2. /\ cpc[c] \in {"prepare", "launch", "spawn"} /\ pc \in ControlPc
      /\ cpc' \in [Control -> ControlPc] /\ cpc'[c] = pc
      /\ \A d \in Control : d # c => cpc'[d] = cpc[d]
      /\ \A d \in Control : d # c => cpc[d] \in {"idle", "stopLock"}
      /\ lifecycle = c
  <2>1. cpc[c] \in {"prepare", "launch", "spawn"} /\ pc \in ControlPc
    BY DEF StartPrepare, StartLaunch, StartSpawnFails, ControlPc
  <2> QED
    BY <1>1, <2>1, GotoMoves, Alone
<1>3. handle = None /\ (\A t \in Thread : rpc[t] = "none") /\ ~streamOpen
  BY <1>2, NoThread DEF DeviceInv, ThreadJoinable, StreamClosed
<1>4. UNCHANGED <<handle, rpc, streamOpen, left>>
  BY DEF StartPrepare, StartLaunch, StartSpawnFails, render
<1>5. /\ running' \in BOOLEAN /\ callback' \in Control \cup {None}
      /\ settled' \in BOOLEAN /\ startupOk' \in BOOLEAN /\ stoppedItself' \in BOOLEAN
      /\ lifecycle' \in Control \cup {None}
  BY DEF StartPrepare, StartLaunch, StartSpawnFails, Return, DeviceInv, TypeOK, shake
<1>6. consumed' \in 0..BlockFrames /\ (pc \in {"launch", "spawn"} => consumed' = BlockFrames)
  <2>1. CASE StartPrepare(c)
    <3>1. BlockFrames \in 0..BlockFrames
      BY BlockAssumption
    <3> QED
      BY <2>1, <3>1 DEF StartPrepare
  <2>2. CASE StartLaunch(c)
    BY <2>2 DEF StartLaunch, render, DeviceInv, TypeOK, BlockReady
  <2>3. CASE StartSpawnFails(c)
    <3>1. pc = "idle"
      BY <1>2, <2>3 DEF StartSpawnFails, Return, Goto, DeviceInv, TypeOK
    <3> QED
      BY <2>3, <3>1 DEF StartSpawnFails, render, DeviceInv, TypeOK
  <2> QED
    BY <2>1, <2>2, <2>3
<1>7. TypeOK'
  BY <1>2, <1>4, <1>5, <1>6 DEF DeviceInv, TypeOK
<1>8. LockHeld'
  <2>1. CASE pc = "idle"
    <3>1. lifecycle' = None
      BY <1>2, <2>1 DEF StartPrepare, StartLaunch, StartSpawnFails, Return, Goto, DeviceInv, TypeOK
    <3> QED
      BY <1>2, <2>1, <3>1, NoneAssumption DEF LockHeld
  <2>2. CASE pc # "idle"
    <3>1. UNCHANGED lifecycle
      BY <1>2, <2>2 DEF StartPrepare, StartLaunch, StartSpawnFails, Return, Goto, DeviceInv, TypeOK
    <3> QED
      BY <1>1, <1>2, <2>2, <3>1 DEF DeviceInv, LockHeld
  <2> QED
    BY <2>1, <2>2
<1>9. ThreadJoinable' /\ StreamClosed'
  BY <1>3, <1>4 DEF ThreadJoinable, StreamClosed
<1>10. BlockReady'
  BY <1>2, <1>3, <1>4, <1>6 DEF BlockReady
<1> QED
  BY <1>7, <1>8, <1>9, <1>10 DEF DeviceInv

LEMMA StartSpawnKeeps ==
  ASSUME DeviceInv, NEW c \in Control, StartSpawn(c)
  PROVE  DeviceInv'
<1>1. Goto(c, "await") /\ "await" \in ControlPc
  BY DEF StartSpawn, ControlPc
<1>2. /\ cpc[c] = "spawn"
      /\ cpc' \in [Control -> ControlPc] /\ cpc'[c] = "await"
      /\ \A d \in Control : d # c => cpc'[d] = cpc[d]
      /\ \A d \in Control : d # c => cpc[d] \in {"idle", "stopLock"}
      /\ lifecycle = c
  BY <1>1, GotoMoves, Alone DEF StartSpawn
<1>3. handle = None /\ (\A t \in Thread : rpc[t] = "none") /\ ~streamOpen /\ consumed = BlockFrames
  BY <1>2, NoThread DEF DeviceInv, ThreadJoinable, StreamClosed, BlockReady
<1>4. PICK t \in Thread : rpc' = [rpc EXCEPT ![t] = "open"] /\ handle' = t
  BY DEF StartSpawn, Step
<1>5. /\ rpc' \in [Thread -> RenderPc] /\ rpc'[t] = "open"
      /\ \A u \in Thread : u # t => rpc'[u] = "none"
  BY <1>3, <1>4 DEF DeviceInv, TypeOK, RenderPc
<1>6. UNCHANGED <<running, lifecycle, callback, settled, startupOk, streamOpen, consumed, left, stoppedItself>>
  BY DEF StartSpawn, shake, render
<1>7. TypeOK'
  BY <1>2, <1>4, <1>5, <1>6 DEF DeviceInv, TypeOK
<1>8. LockHeld'
  BY <1>2, <1>6 DEF DeviceInv, LockHeld
<1>9. ThreadJoinable' /\ StreamClosed' /\ BlockReady'
  BY <1>2, <1>3, <1>4, <1>5, <1>6, NoneAssumption DEF ThreadJoinable, StreamClosed, BlockReady
<1> QED
  BY <1>7, <1>8, <1>9 DEF DeviceInv

LEMMA ControlKeeps ==
  ASSUME DeviceInv, NEW c \in Control, StartLock(c) \/ StopRequest(c) \/ ControlStep(c)
  PROVE  DeviceInv'
BY QuietControlKeeps, StartJoinKeeps, FinalJoinKeeps, PreparingKeeps, StartSpawnKeeps DEF ControlStep
-----------------------------------------------------------------------------
(* The render thread.  A step of it moves it from one program counter to   *)
(* another and may change the stream and the block.                        *)

\* What each step of the render thread does to the stream and to the block.
RenderEffect(t) ==
  /\ rpc[t] # "none"
  /\ UNCHANGED control
  /\ running' \in BOOLEAN /\ stoppedItself' \in BOOLEAN
  /\ settled' \in BOOLEAN /\ startupOk' \in BOOLEAN
  /\ streamOpen' \in BOOLEAN /\ consumed' \in 0..BlockFrames /\ left' \in 0..MaxChunk
  /\ \E pc \in RenderPc \ {"none", "open"} :
       /\ Step(t, pc) \/ (UNCHANGED rpc /\ rpc[t] = pc)
       /\ pc \in {"closed", "discard", "backoff", "reopen", "done"} => ~streamOpen'
       /\ pc \in {"publishOk", "loop", "backoff", "reopen", "reopenFailed"} =>
            consumed' = BlockFrames

\* Opening a stream, for the first time or again: whatever it leaves open, the
\* block stays ready.
LEMMA OpeningEffect ==
  ASSUME DeviceInv, NEW t \in Thread,
         \/ RenderOpen(t) \/ ReopenSucceeds(t) \/ ReopenFails(t) \/ RenderReopenFailed(t)
  PROVE  RenderEffect(t)
<1>1. /\ rpc[t] \in {"open", "reopen", "reopenFailed"}
      /\ UNCHANGED <<control, running, stoppedItself, settled, startupOk, consumed, left>>
      /\ streamOpen' \in BOOLEAN
      /\ \E pc \in {"publishOk", "publishError", "loop", "reopenFailed"} : Step(t, pc)
  BY DEF RenderOpen, ReopenSucceeds, ReopenFails, RenderReopenFailed, OpenSucceeds, OpenFails, shake
<1>2. consumed = BlockFrames
  BY <1>1 DEF DeviceInv, BlockReady
<1> QED
  BY <1>1, <1>2 DEF RenderEffect, DeviceInv, TypeOK, RenderPc

\* Moving on without touching the stream or the block.
LEMMA MovingEffect ==
  ASSUME DeviceInv, NEW t \in Thread,
         \/ RenderPublish(t) \/ RenderLoop(t) \/ CallbackBegins(t) \/ ChunkEnds(t)
         \/ StreamEnds(t) \/ RenderCheck(t) \/ RenderBackoff(t) \/ CallbackStops(t)
  PROVE  RenderEffect(t)
<1>1. /\ UNCHANGED <<control, streamOpen, consumed, left>>
      /\ running' \in BOOLEAN /\ stoppedItself' \in BOOLEAN
      /\ settled' \in BOOLEAN /\ startupOk' \in BOOLEAN
  BY DEF RenderPublish, RenderLoop, CallbackBegins, ChunkEnds, StreamEnds, RenderCheck,
         RenderBackoff, CallbackStops, shake, render, DeviceInv, TypeOK
<1>2. streamOpen \in BOOLEAN /\ consumed \in 0..BlockFrames /\ left \in 0..MaxChunk
  BY DEF DeviceInv, TypeOK
<1>3. CASE RenderPublish(t)
  <2>1. \/ rpc[t] = "publishOk" /\ Step(t, "loop")
        \/ rpc[t] = "publishError" /\ Step(t, "finalClose")
    BY <1>3 DEF RenderPublish
  <2>2. rpc[t] = "publishOk" => consumed = BlockFrames
    BY DEF DeviceInv, BlockReady
  <2> QED
    BY <1>1, <1>2, <2>1, <2>2 DEF RenderEffect, RenderPc
<1>4. CASE RenderLoop(t) \/ CallbackBegins(t) \/ ChunkEnds(t) \/ StreamEnds(t)
  <2>1. /\ rpc[t] \in {"loop", "chunk", "stream"}
        /\ \E pc \in {"stream", "finalClose", "callback", "close"} : Step(t, pc)
    BY <1>4 DEF RenderLoop, CallbackBegins, ChunkEnds, StreamEnds
  <2> QED
    BY <1>1, <1>2, <2>1 DEF RenderEffect, RenderPc
<1>5. CASE RenderCheck(t) \/ RenderBackoff(t)
  <2>1. \/ rpc[t] = "closed" /\ \E pc \in {"discard", "finalClose"} : Step(t, pc)
        \/ rpc[t] = "backoff" /\ \E pc \in {"reopen", "finalClose"} : Step(t, pc)
    BY <1>5 DEF RenderCheck, RenderBackoff
  <2>2. ~streamOpen /\ (rpc[t] = "backoff" => consumed = BlockFrames)
    BY <2>1 DEF DeviceInv, StreamClosed, BlockReady
  <2> QED
    BY <1>1, <1>2, <2>1, <2>2 DEF RenderEffect, RenderPc
<1>6. CASE CallbackStops(t)
  <2>1. rpc[t] = "callback" /\ UNCHANGED rpc
    BY <1>6 DEF CallbackStops
  <2> QED
    BY <1>1, <1>2, <2>1 DEF RenderEffect, RenderPc
<1> QED
  BY <1>3, <1>4, <1>5, <1>6

\* Feeding a chunk from the block.
LEMMA ChunkEffect ==
  ASSUME DeviceInv, NEW t \in Thread, ChunkBegins(t) \/ CallbackEnds(t) \/ ChunkCopies(t)
  PROVE  RenderEffect(t)
<1>1. /\ UNCHANGED <<control, running, stoppedItself, settled, startupOk, streamOpen>>
      /\ rpc[t] \in {"stream", "callback", "chunk"}
      /\ Step(t, "chunk") \/ (UNCHANGED rpc /\ rpc[t] = "chunk")
  BY DEF ChunkBegins, CallbackEnds, ChunkCopies, shake
<1>2. consumed \in 0..BlockFrames /\ left \in 0..MaxChunk
  BY DEF DeviceInv, TypeOK
<1>3. consumed' \in 0..BlockFrames /\ left' \in 0..MaxChunk
  <2>1. CASE ChunkBegins(t)
    BY <1>2, <2>1, BlockAssumption DEF ChunkBegins
  <2>2. CASE CallbackEnds(t)
    BY <1>2, <2>2, BlockAssumption DEF CallbackEnds
  <2>3. CASE ChunkCopies(t)
    BY <1>2, <2>3, BlockAssumption DEF ChunkCopies
  <2> QED
    BY <2>1, <2>2, <2>3
<1> QED
  BY <1>1, <1>3 DEF RenderEffect, DeviceInv, TypeOK, RenderPc

\* Closing the stream, and readying the block for the next one.
LEMMA ClosingEffect ==
  ASSUME DeviceInv, NEW t \in Thread, RenderClose(t) \/ RenderDiscard(t) \/ RenderFinalClose(t)
  PROVE  RenderEffect(t)
<1>1. /\ UNCHANGED <<control, running, stoppedItself, settled, startupOk, left>>
      /\ rpc[t] \in {"close", "discard", "finalClose"}
      /\ streamOpen' = FALSE
      /\ \/ consumed' = consumed /\ \E pc \in {"closed", "done"} : Step(t, pc)
         \/ consumed' = BlockFrames /\ Step(t, "backoff")
  BY DEF RenderClose, RenderDiscard, RenderFinalClose, shake, DeviceInv, StreamClosed, TypeOK
<1>2. BlockFrames \in 0..BlockFrames
  BY BlockAssumption
<1> QED
  BY <1>1, <1>2 DEF RenderEffect, DeviceInv, TypeOK, RenderPc

LEMMA RenderKeeps ==
  ASSUME DeviceInv, NEW t \in Thread, RenderStep(t) \/ CallbackStops(t)
  PROVE  DeviceInv'
<1>1. RenderEffect(t)
  BY OpeningEffect, MovingEffect, ChunkEffect, ClosingEffect DEF RenderStep
<1>2. PICK pc \in RenderPc \ {"none", "open"} :
        /\ Step(t, pc) \/ (UNCHANGED rpc /\ rpc[t] = pc)
        /\ pc \in {"closed", "discard", "backoff", "reopen", "done"} => ~streamOpen'
        /\ pc \in {"publishOk", "loop", "backoff", "reopen", "reopenFailed"} =>
             consumed' = BlockFrames
  BY <1>1 DEF RenderEffect
<1>3. /\ handle = t /\ handle # None
      /\ \A u \in Thread : u # t => rpc[u] = "none"
      /\ \A c \in Control : cpc[c] \notin {"prepare", "launch", "spawn"}
  BY <1>1, OneThread DEF RenderEffect
<1>4. /\ rpc' \in [Thread -> RenderPc] /\ rpc'[t] = pc
      /\ \A u \in Thread : u # t => rpc'[u] = "none"
  BY <1>2, <1>3 DEF Step, DeviceInv, TypeOK
<1>5. UNCHANGED <<lifecycle, handle, callback, cpc>>
  BY <1>1 DEF RenderEffect, control
<1>6. TypeOK'
  BY <1>1, <1>4, <1>5 DEF RenderEffect, DeviceInv, TypeOK
<1>7. LockHeld'
  BY <1>5 DEF DeviceInv, LockHeld
<1>8. ThreadJoinable' /\ StreamClosed' /\ BlockReady'
  BY <1>2, <1>3, <1>4, <1>5 DEF ThreadJoinable, StreamClosed, BlockReady
<1> QED
  BY <1>6, <1>7, <1>8 DEF DeviceInv
-----------------------------------------------------------------------------
\* Every step, stuttering included, keeps the invariant.
LEMMA StepDeviceInv == DeviceInv /\ [Next]_vars => DeviceInv'
<1> SUFFICES ASSUME DeviceInv, [Next]_vars PROVE DeviceInv'
  OBVIOUS
<1>1. CASE UNCHANGED vars
  BY <1>1 DEF vars, DeviceInv, TypeOK, LockHeld, ThreadJoinable, StreamClosed, BlockReady
<1>2. CASE Next
  BY <1>2, ControlKeeps, RenderKeeps DEF Next
<1> QED
  BY <1>1, <1>2

\* The invariant holds in every state.
THEOREM DeviceInvAlways == Spec => []DeviceInv
BY InitDeviceInv, StepDeviceInv, PTL DEF Spec

\* Type correctness: for any number of callers and any block, no variable
\* leaves its type and a block is never over-consumed.
THEOREM TypeCorrect == Spec => []TypeOK
<1>1. DeviceInv => TypeOK
  BY DEF DeviceInv
<1> QED
  BY <1>1, DeviceInvAlways, PTL

LEMMA InvLeavesNothingBehind == DeviceInv => NothingIsLeftBehind
BY DEF DeviceInv, ThreadJoinable, StreamClosed, BlockReady, NothingIsLeftBehind,
       OneRenderThread, NoStreamLeak, RebuildStartsOnNewBlock

\* Whatever start(), stop() and a callback's own stop() overlap, there is one
\* render thread, that thread_ can join; every stream is closed before the next
\* is opened; and a rebuilt one starts a block of its own.
THEOREM NothingLeftBehind == Spec => []NothingIsLeftBehind
BY DeviceInvAlways, InvLeavesNothingBehind, PTL
-----------------------------------------------------------------------------
(* Action properties.                                                      *)

\* A step of the render thread is no step of a call.
LEMMA RenderLeavesControl ==
  ASSUME NEW t \in Thread, RenderStep(t) \/ CallbackStops(t)
  PROVE  UNCHANGED control
BY DEF RenderStep, RenderOpen, RenderPublish, RenderLoop, ChunkBegins, CallbackBegins,
       CallbackEnds, ChunkCopies, ChunkEnds, StreamEnds, RenderClose, RenderCheck, RenderDiscard,
       RenderBackoff, ReopenSucceeds, ReopenFails, RenderReopenFailed, RenderFinalClose,
       CallbackStops

\* Only stop()'s own join takes a call from there to its return.
LEMMA StopReturns ==
  ASSUME DeviceInv, NEW c \in Control, cpc[c] = "stopJoin", cpc'[c] = "idle", [Next]_vars
  PROVE  StopJoin(c)
<1>1. cpc' # cpc
  OBVIOUS
<1>2. PICK d \in Control : StartLock(d) \/ StopRequest(d) \/ ControlStep(d)
  BY <1>1, RenderLeavesControl DEF Next, vars, control
<1>3. \E pc : Goto(d, pc)
  BY <1>2 DEF ControlStep, StartLock, StopRequest, StartJoin, StartPrepare, StartLaunch, StartSpawn,
     StartSpawnFails, StartAnswered, StartAbort, StartAbortJoin, StartTimesOut, StartGiveUp,
     StopLock, StopJoin, Return
<1>4. d = c
  BY <1>3 DEF Goto, DeviceInv, TypeOK
<1> QED
  BY <1>2, <1>4 DEF ControlStep, StartLock, StopRequest, StartJoin, StartPrepare, StartLaunch,
     StartSpawn, StartSpawnFails, StartAnswered, StartAbort, StartAbortJoin, StartTimesOut,
     StartGiveUp, StopLock

\* What stop() promises: when it returns, no thread is left that could run the
\* callback.
LEMMA StepStopIsSilence ==
  DeviceInv /\ [Next]_vars =>
    [\A c \in Control : cpc[c] = "stopJoin" /\ cpc'[c] = "idle" => \A t \in Thread : ~Live(t)']_vars
<1> SUFFICES ASSUME DeviceInv, [Next]_vars, NEW c \in Control, cpc[c] = "stopJoin", cpc'[c] = "idle"
             PROVE  \A t \in Thread : ~Live(t)'
  OBVIOUS
<1>1. StopJoin(c)
  BY StopReturns
<1>2. \A t \in Thread : rpc'[t] = "none"
  BY <1>1, JoinsClears DEF StopJoin
<1> QED
  BY <1>2 DEF Live

THEOREM StopSilences == Spec => StopIsSilence
<1>1. DeviceInv /\ [Next]_vars =>
        [\A c \in Control :
           cpc[c] = "stopJoin" /\ cpc'[c] = "idle" => \A t \in Thread : ~Live(t)']_vars
  BY StepStopIsSilence
<1> QED
  BY <1>1, DeviceInvAlways, PTL DEF Spec, StopIsSilence

\* callback_ is replaced only where no thread is left that could call it.
LEMMA StepCallbackIsStable ==
  DeviceInv /\ [Next]_vars => [callback' # callback => \A t \in Thread : ~Live(t)]_vars
<1> SUFFICES ASSUME DeviceInv, [Next]_vars, callback' # callback
             PROVE  \A t \in Thread : ~Live(t)
  OBVIOUS
<1>1. PICK c \in Control : StartLock(c) \/ StopRequest(c) \/ ControlStep(c)
  BY RenderLeavesControl DEF Next, vars, control
<1>2. StartPrepare(c) \/ StartSpawnFails(c) \/ StartAbortJoin(c)
  BY <1>1 DEF ControlStep, StartLock, StopRequest, StartJoin, StartLaunch, StartSpawn,
     StartAnswered, StartAbort, StartTimesOut, StartGiveUp, StopLock, StopJoin
<1>3. CASE StartPrepare(c) \/ StartSpawnFails(c)
  <2>1. handle = None
    BY <1>3 DEF StartPrepare, StartSpawnFails, DeviceInv, ThreadJoinable
  <2> QED
    BY <2>1, NoThread DEF Live
<1>4. CASE StartAbortJoin(c)
  BY <1>4, JoinsClears DEF StartAbortJoin
<1> QED
  BY <1>2, <1>3, <1>4

\* The render thread calls callback_ without a lock, and never while it changes.
THEOREM CallbackStaysPut == Spec => CallbackIsStable
<1>1. DeviceInv /\ [Next]_vars => [callback' # callback => \A t \in Thread : ~Live(t)]_vars
  BY StepCallbackIsStable
<1> QED
  BY <1>1, DeviceInvAlways, PTL DEF Spec, CallbackIsStable
-----------------------------------------------------------------------------
(* The device implements AudioDevice.                                      *)

LEMMA ContractInit == Init => Contract!Init
BY DEF Init, Contract!Init, Stream, InCallback, Live

\* Without a live thread the stream is off.
LEMMA OffWithoutThread ==
  ASSUME \A t \in Thread : ~Live(t)
  PROVE  Stream = "off" /\ InCallback = FALSE
BY DEF Stream, InCallback, Live

\* With one, it is what running_ says.
LEMMA OnWithThread ==
  ASSUME NEW t \in Thread, Live(t), \A u \in Thread : u # t => rpc[u] = "none"
  PROVE  /\ Stream = IF running THEN "on" ELSE "unwinding"
         /\ InCallback = (rpc[t] = "callback")
BY DEF Stream, InCallback

\* A store to running_ that can only clear it winds the stream.
LEMMA ClearingWinds ==
  ASSUME DeviceInv, UNCHANGED rpc, running' \in {running, FALSE}
  PROVE  [Contract!Next]_Contract!vars
<1>1. InCallback' = InCallback
  BY DEF InCallback
<1>2. (\A t \in Thread : ~Live(t)) = (\A t \in Thread : ~Live(t)')
  BY DEF Live
<1>3. Stream' = Stream \/ (Stream = "on" /\ Stream' = "unwinding")
  <2>1. CASE \A t \in Thread : ~Live(t)
    BY <1>2, <2>1 DEF Stream
  <2>2. CASE ~\A t \in Thread : ~Live(t)
    <3>1. running' = running \/ (running = TRUE /\ running' = FALSE)
      BY DEF DeviceInv, TypeOK
    <3>2. Stream = (IF running THEN "on" ELSE "unwinding") /\ Stream' = (IF running' THEN "on" ELSE "unwinding")
      BY <1>2, <2>2 DEF Stream
    <3> QED
      BY <3>1, <3>2
  <2> QED
    BY <2>1, <2>2
<1> QED
  BY <1>1, <1>3 DEF Contract!vars, Contract!Next, Contract!Wind

LEMMA ControlImplements ==
  ASSUME DeviceInv, NEW c \in Control, StartLock(c) \/ StopRequest(c) \/ ControlStep(c)
  PROVE  [Contract!Next]_Contract!vars
<1>1. CASE \/ StartLock(c) \/ StopRequest(c) \/ StartPrepare(c) \/ StartSpawnFails(c)
           \/ StartAnswered(c) \/ StartAbort(c) \/ StartTimesOut(c) \/ StartGiveUp(c) \/ StopLock(c)
  <2>1. UNCHANGED rpc /\ running' \in {running, FALSE}
    BY <1>1 DEF StartLock, StopRequest, StartPrepare, StartSpawnFails, StartAnswered, StartAbort,
                StartTimesOut, StartGiveUp, StopLock
  <2> QED
    BY <2>1, ClearingWinds
<1>2. CASE StartJoin(c) \/ StartAbortJoin(c) \/ StopJoin(c)
  <2>1. (\A t \in Thread : ~Live(t)) /\ \A t \in Thread : ~Live(t)'
    BY <1>2, JoinsClears DEF StartJoin, StartAbortJoin, StopJoin, Live
  <2>2. Stream = "off" /\ InCallback = FALSE /\ Stream' = "off" /\ InCallback' = FALSE
    BY <2>1 DEF Stream, InCallback, Live
  <2> QED
    BY <2>2 DEF Contract!vars
<1>3. CASE StartLaunch(c)
  <2>1. (\A t \in Thread : ~Live(t)) /\ UNCHANGED rpc
    BY <1>3, NoThread DEF StartLaunch, Live, DeviceInv, ThreadJoinable
  <2>2. Stream = "off" /\ InCallback = FALSE /\ Stream' = "off" /\ InCallback' = FALSE
    BY <2>1 DEF Stream, InCallback, Live
  <2> QED
    BY <2>2 DEF Contract!vars
<1>4. CASE StartSpawn(c)
  <2>1. \A t \in Thread : rpc[t] = "none"
    BY <1>4, NoThread DEF StartSpawn, DeviceInv, ThreadJoinable
  <2>2. Stream = "off" /\ InCallback = FALSE
    BY <2>1, OffWithoutThread DEF Live
  <2>3. PICK t \in Thread : rpc' = [rpc EXCEPT ![t] = "open"]
    BY <1>4 DEF StartSpawn, Step
  <2>4. rpc'[t] = "open" /\ \A u \in Thread : u # t => rpc'[u] = "none"
    BY <2>1, <2>3 DEF DeviceInv, TypeOK
  <2>5. Stream' = (IF running' THEN "on" ELSE "unwinding") /\ InCallback' = FALSE
    BY <2>4 DEF Stream, InCallback, Live
  <2> QED
    BY <2>2, <2>5 DEF Contract!Next, Contract!SwitchOn, Contract!SwitchOnUnwinding
<1> QED
  BY <1>1, <1>2, <1>3, <1>4 DEF ControlStep

LEMMA RenderImplements ==
  ASSUME DeviceInv, NEW t \in Thread, RenderStep(t) \/ CallbackStops(t)
  PROVE  [Contract!Next]_Contract!vars
<1>1. CASE CallbackStops(t)
  <2>1. UNCHANGED rpc /\ running' \in {running, FALSE}
    BY <1>1 DEF CallbackStops
  <2> QED
    BY <2>1, ClearingWinds
<1>2. CASE RenderStep(t)
  <2>1. UNCHANGED running /\ Live(t)
    BY <1>2 DEF RenderStep, RenderOpen, RenderPublish, RenderLoop, ChunkBegins, CallbackBegins,
       CallbackEnds, ChunkCopies, ChunkEnds, StreamEnds, RenderClose, RenderCheck, RenderDiscard,
       RenderBackoff, ReopenSucceeds, ReopenFails, RenderReopenFailed, RenderFinalClose, Live
  <2>2. \A u \in Thread : u # t => rpc[u] = "none"
    BY <2>1, OneThread DEF Live
  <2>3. PICK pc \in RenderPc \ {"none"} : rpc' = [rpc EXCEPT ![t] = pc] \/ (UNCHANGED rpc /\ rpc[t] = pc)
    <3>1. RenderEffect(t)
      BY <1>2, OpeningEffect, MovingEffect, ChunkEffect, ClosingEffect DEF RenderStep
    <3> QED
      BY <3>1 DEF RenderEffect, Step
  <2>4. rpc'[t] = pc /\ \A u \in Thread : u # t => rpc'[u] = "none"
    BY <2>2, <2>3 DEF DeviceInv, TypeOK
  <2>5. /\ Stream = IF running THEN "on" ELSE "unwinding"
        /\ InCallback = (rpc[t] = "callback")
    BY <2>1, <2>2, OnWithThread
  <2>6. CASE RenderFinalClose(t)
    <3>1. rpc[t] = "finalClose" /\ rpc' = [rpc EXCEPT ![t] = "done"]
      BY <2>6 DEF RenderFinalClose, Step
    <3>2. rpc'[t] = "done"
      BY <3>1 DEF DeviceInv, TypeOK
    <3>3. Stream' = "off" /\ InCallback' = FALSE
      BY <2>4, <3>2 DEF Stream, InCallback, Live
    <3> QED
      BY <2>5, <3>1, <3>3 DEF Contract!Next, Contract!SwitchOff
  <2>7. CASE ~RenderFinalClose(t)
    <3>1. pc # "done"
      BY <1>2, <2>3, <2>4, <2>7 DEF RenderStep, RenderOpen, RenderPublish, RenderLoop, ChunkBegins,
         CallbackBegins, CallbackEnds, ChunkCopies, ChunkEnds, StreamEnds, RenderClose, RenderCheck,
         RenderDiscard, RenderBackoff, ReopenSucceeds, ReopenFails, RenderReopenFailed, Step,
         DeviceInv, TypeOK
    <3>2. /\ Stream' = IF running' THEN "on" ELSE "unwinding"
          /\ InCallback' = (pc = "callback")
      BY <2>4, <3>1 DEF Stream, InCallback, Live
    <3>3. Stream' = Stream /\ Stream # "off"
      BY <2>1, <2>5, <3>2
    <3> QED
      BY <2>5, <3>2, <3>3
      DEF Contract!vars, Contract!Next, Contract!CallbackBegins, Contract!CallbackEnds
  <2> QED
    BY <2>6, <2>7
<1> QED
  BY <1>1, <1>2

LEMMA StepContract == DeviceInv /\ [Next]_vars => [Contract!Next]_Contract!vars
<1> SUFFICES ASSUME DeviceInv, [Next]_vars PROVE [Contract!Next]_Contract!vars
  OBVIOUS
<1>1. CASE UNCHANGED vars
  BY <1>1, ClearingWinds DEF vars
<1>2. CASE Next
  BY <1>2, ControlImplements, RenderImplements DEF Next
<1> QED
  BY <1>1, <1>2

\* A callback that has stopped its device finds running_ cleared, until a start()
\* that has joined its thread.
StoppedUnwinds == stoppedItself => ~running

LEMMA InitStoppedUnwinds == Init => StoppedUnwinds
BY DEF Init, StoppedUnwinds

LEMMA StepStoppedUnwinds == StoppedUnwinds /\ [Next]_vars => StoppedUnwinds'
<1> SUFFICES ASSUME StoppedUnwinds, [Next]_vars PROVE StoppedUnwinds'
  OBVIOUS
<1>1. CASE UNCHANGED vars
  BY <1>1 DEF vars, StoppedUnwinds
<1>2. CASE \E c \in Control : StartLock(c) \/ StopRequest(c) \/ ControlStep(c)
  BY <1>2 DEF StoppedUnwinds, ControlStep, StartLock, StopRequest, StartJoin, StartPrepare,
     StartLaunch, StartSpawn, StartSpawnFails, StartAnswered, StartAbort, StartAbortJoin,
     StartTimesOut, StartGiveUp, StopLock, StopJoin
<1>3. CASE \E t \in Thread : RenderStep(t) \/ CallbackStops(t)
  BY <1>3 DEF StoppedUnwinds, RenderStep, RenderOpen, RenderPublish, RenderLoop, ChunkBegins,
     CallbackBegins, CallbackEnds, ChunkCopies, ChunkEnds, StreamEnds, RenderClose, RenderCheck,
     RenderDiscard, RenderBackoff, ReopenSucceeds, ReopenFails, RenderReopenFailed,
     RenderFinalClose, CallbackStops
<1> QED
  BY <1>1, <1>2, <1>3 DEF Next

\* The thread of a callback that has stopped the device takes no further chunk:
\* running_ is looked at before each.
LEMMA StepUnwinds ==
  DeviceInv /\ StoppedUnwinds /\ [Next]_vars =>
    [\A t \in Thread : rpc[t] = "stream" /\ rpc'[t] = "chunk" => ~stoppedItself]_vars
<1> SUFFICES ASSUME DeviceInv, StoppedUnwinds, [Next]_vars,
                    NEW t \in Thread, rpc[t] = "stream", rpc'[t] = "chunk"
             PROVE  ~stoppedItself
  OBVIOUS
<1>1. rpc' # rpc
  OBVIOUS
<1>2. CASE \E c \in Control : StartLock(c) \/ StopRequest(c) \/ ControlStep(c)
  <2>1. PICK c \in Control : StartLock(c) \/ StopRequest(c) \/ ControlStep(c)
    BY <1>2
  <2>2. Joins \/ StartSpawn(c)
    BY <1>1, <2>1 DEF ControlStep, StartLock, StopRequest, StartJoin, StartPrepare, StartLaunch,
       StartSpawnFails, StartAnswered, StartAbort, StartAbortJoin, StartTimesOut, StartGiveUp,
       StopLock, StopJoin
  <2>3. ~Joins
    BY JoinsClears
  <2>4. ~StartSpawn(c)
    BY DEF StartSpawn, Step, DeviceInv, TypeOK
  <2> QED
    BY <2>2, <2>3, <2>4
<1>3. CASE \E u \in Thread : RenderStep(u) \/ CallbackStops(u)
  <2>1. PICK u \in Thread : RenderStep(u) \/ CallbackStops(u)
    BY <1>3
  <2>2. ChunkBegins(u)
    BY <1>1, <2>1 DEF RenderStep, RenderOpen, RenderPublish, RenderLoop, CallbackBegins,
       CallbackEnds, ChunkCopies, ChunkEnds, StreamEnds, RenderClose, RenderCheck, RenderDiscard,
       RenderBackoff, ReopenSucceeds, ReopenFails, RenderReopenFailed, RenderFinalClose,
       CallbackStops, Step, DeviceInv, TypeOK
  <2> QED
    BY <2>2 DEF ChunkBegins, StoppedUnwinds
<1> QED
  BY <1>1, <1>2, <1>3 DEF Next, vars

\* The device is an AudioDevice, under any number of callers: a callback runs
\* only between a start() and the end of the thread it created, the same all the
\* while, a stream that began to unwind is never picked up again, and a callback
\* that stops the device is asked for no other chunk.
THEOREM ContractKept == Spec => KeepsContract
<1>1. DeviceInv /\ StoppedUnwinds /\ [Next]_vars =>
        [\A t \in Thread : rpc[t] = "stream" /\ rpc'[t] = "chunk" => ~stoppedItself]_vars
  BY StepUnwinds
<1>2. Spec => []StoppedUnwinds
  BY InitStoppedUnwinds, StepStoppedUnwinds, PTL DEF Spec
<1> QED
  BY ContractInit, DeviceInvAlways, StepContract, CallbackStaysPut, <1>1, <1>2, PTL
  DEF Spec, KeepsContract, Contract!Spec, UnwindsWithTheChunk


-----------------------------------------------------------------------------
(* The null device.                                                        *)

\* lifecycle_ is held by exactly the call that is past it; from the join in
\* start() to the new thread there is no thread to join; and a loop that has
\* stopped itself finds running_ cleared, until a start() that has joined it.
NullInv ==
  /\ Null!TypeOK
  /\ \A c \in NullControl : nullCpc[c] \notin {"idle", "stopLock"} <=> nullLifecycle = c
  /\ \A c \in NullControl : nullCpc[c] \in {"launch", "spawn"} => nullHandle = None
  /\ nullStoppedItself => ~nullRunning
  /\ \A t \in Thread : nullRpc[t] = "wait" => ~nullStoppedItself

LEMMA NullInitInv == Null!Init => NullInv
BY NoneAssumption, NullAssumption DEF Null!Init, NullInv, Null!TypeOK

LEMMA NullOneThread ==
  ASSUME NullInv, NEW t \in Thread, nullRpc[t] # "none"
  PROVE  /\ nullHandle = t /\ nullHandle # None
         /\ \A u \in Thread : u # t => nullRpc[u] = "none"
         /\ \A c \in NullControl : nullCpc[c] \notin {"launch", "spawn"}
BY NoneAssumption DEF NullInv, Null!TypeOK

LEMMA NullNoThread ==
  ASSUME NullInv, nullHandle = None
  PROVE  \A t \in Thread : nullRpc[t] = "none" /\ ~Null!Live(t)
BY NoneAssumption DEF NullInv, Null!TypeOK, Null!Live

\* joinRenderThread() leaves no thread.
LEMMA NullJoinsClears ==
  ASSUME NullInv, Null!Joins
  PROVE  /\ nullHandle' = None
         /\ nullRpc' \in [Thread -> {"none", "loop", "wait", "callback", "done"}]
         /\ \A t \in Thread : nullRpc'[t] = "none" /\ ~Null!Live(t)
<1>1. CASE nullHandle = None
  BY <1>1, NullNoThread DEF Null!Joins, NullInv, Null!TypeOK
<1>2. CASE nullHandle # None
  <2>1. nullHandle \in Thread /\ nullRpc[nullHandle] = "done"
    BY <1>2 DEF Null!Joins, NullInv, Null!TypeOK
  <2>2. \A u \in Thread : u # nullHandle => nullRpc[u] = "none"
    BY <2>1, NullOneThread
  <2>3. nullRpc' = [nullRpc EXCEPT ![nullHandle] = "none"] /\ nullHandle' = None
    BY <1>2 DEF Null!Joins
  <2> QED
    BY <2>1, <2>2, <2>3 DEF NullInv, Null!TypeOK, Null!Live
<1> QED
  BY <1>1, <1>2

\* A call that moves its own program counter.
LEMMA NullGotoMoves ==
  ASSUME NullInv, NEW c \in NullControl,
         NEW pc \in {"idle", "startJoin", "launch", "spawn", "stopLock", "stopJoin"},
         Null!Goto(c, pc)
  PROVE  /\ nullCpc' \in [NullControl ->
                          {"idle", "startJoin", "launch", "spawn", "stopLock", "stopJoin"}]
         /\ nullCpc'[c] = pc
         /\ \A d \in NullControl : d # c => nullCpc'[d] = nullCpc[d]
BY DEF Null!Goto, NullInv, Null!TypeOK

\* Entering the mutex, and asking for a stop.
LEMMA NullEntering ==
  ASSUME NullInv, NEW c \in NullControl,
         Null!StartLock(c) \/ Null!StopRequest(c) \/ Null!StopLock(c)
  PROVE  NullInv'
<1>1. PICK pc \in {"startJoin", "stopLock", "stopJoin"} : Null!Goto(c, pc)
  BY DEF Null!StartLock, Null!StopRequest, Null!StopLock
<1>2. /\ nullCpc' \in [NullControl ->
                       {"idle", "startJoin", "launch", "spawn", "stopLock", "stopJoin"}]
      /\ nullCpc'[c] = pc
      /\ \A d \in NullControl : d # c => nullCpc'[d] = nullCpc[d]
  BY <1>1, NullGotoMoves
<1>3. /\ UNCHANGED <<nullHandle, nullCallback, nullRpc, nullStoppedItself>>
      /\ nullRunning' \in {nullRunning, FALSE}
      /\ nullLifecycle' \in NullControl \cup {None}
  BY DEF Null!StartLock, Null!StopRequest, Null!StopLock, Null!Lock, NullInv, Null!TypeOK
<1>4. Null!TypeOK'
  BY <1>2, <1>3 DEF NullInv, Null!TypeOK
<1>5. \A d \in NullControl : nullCpc'[d] \notin {"idle", "stopLock"} <=> nullLifecycle' = d
  <2>1. CASE Null!StartLock(c) \/ Null!StopLock(c)
    BY <1>1, <1>2, <2>1, NullAssumption DEF Null!StartLock, Null!StopLock, Null!Lock, Null!Goto, NullInv, Null!TypeOK
  <2>2. CASE Null!StopRequest(c)
    BY <1>1, <1>2, <2>2, NullAssumption DEF Null!StopRequest, Null!Goto, NullInv, Null!TypeOK
  <2> QED
    BY <2>1, <2>2
<1>6. nullStoppedItself' => ~nullRunning'
  BY <1>3 DEF NullInv
<1>7. /\ \A d \in NullControl : nullCpc'[d] \in {"launch", "spawn"} => nullHandle' = None
      /\ \A t \in Thread : nullRpc'[t] = "wait" => ~nullStoppedItself'
  BY <1>1, <1>2, <1>3 DEF NullInv
<1> QED
  BY <1>4, <1>5, <1>6, <1>7 DEF NullInv

\* Joining a thread, in start() and in stop().
LEMMA NullJoining ==
  ASSUME NullInv, NEW c \in NullControl, Null!StartJoin(c) \/ Null!StopJoin(c)
  PROVE  NullInv'
<1>1. PICK pc \in {"launch", "idle"} :
        /\ Null!Goto(c, pc) /\ nullCpc[c] \in {"startJoin", "stopJoin"}
        /\ nullLifecycle' = IF pc = "idle" THEN None ELSE nullLifecycle
  BY DEF Null!StartJoin, Null!StopJoin, Null!Return
<1>2. /\ nullCpc' \in [NullControl ->
                       {"idle", "startJoin", "launch", "spawn", "stopLock", "stopJoin"}]
      /\ nullCpc'[c] = pc
      /\ \A d \in NullControl : d # c => nullCpc'[d] = nullCpc[d]
  BY <1>1, NullGotoMoves
<1>3. /\ nullHandle' = None
      /\ nullRpc' \in [Thread -> {"none", "loop", "wait", "callback", "done"}]
      /\ \A t \in Thread : nullRpc'[t] = "none"
      /\ UNCHANGED <<nullRunning, nullCallback, nullStoppedItself>>
  BY NullJoinsClears DEF Null!StartJoin, Null!StopJoin
<1>4. nullLifecycle = c /\ nullLifecycle' \in NullControl \cup {None}
  BY <1>1 DEF NullInv, Null!TypeOK
<1>5. Null!TypeOK'
  BY <1>2, <1>3, <1>4, NoneAssumption DEF NullInv, Null!TypeOK
<1>6. \A d \in NullControl : nullCpc'[d] \notin {"idle", "stopLock"} <=> nullLifecycle' = d
  BY <1>1, <1>2, <1>4, NullAssumption DEF NullInv, Null!TypeOK
<1> QED
  BY <1>3, <1>5, <1>6 DEF NullInv

\* Launching a thread, where there is none.
LEMMA NullLaunching ==
  ASSUME NullInv, NEW c \in NullControl,
         Null!StartLaunch(c) \/ Null!StartSpawn(c) \/ Null!StartSpawnFails(c)
  PROVE  NullInv'
<1>1. PICK pc \in {"spawn", "idle"} :
        /\ Null!Goto(c, pc) /\ nullCpc[c] \in {"launch", "spawn"}
        /\ nullLifecycle' = IF pc = "idle" THEN None ELSE nullLifecycle
  BY DEF Null!StartLaunch, Null!StartSpawn, Null!StartSpawnFails, Null!Return
<1>2. /\ nullCpc' \in [NullControl ->
                       {"idle", "startJoin", "launch", "spawn", "stopLock", "stopJoin"}]
      /\ nullCpc'[c] = pc
      /\ \A d \in NullControl : d # c => nullCpc'[d] = nullCpc[d]
  BY <1>1, NullGotoMoves
<1>3. /\ nullHandle = None /\ nullLifecycle = c
      /\ \A t \in Thread : nullRpc[t] = "none"
      /\ \A d \in NullControl : d # c => nullCpc[d] \in {"idle", "stopLock"}
  BY <1>1, NullNoThread DEF NullInv
<1>4. /\ nullRunning' \in BOOLEAN /\ nullStoppedItself' \in BOOLEAN
      /\ nullStoppedItself' => ~nullRunning'
      /\ nullCallback' \in NullControl \cup {None}
      /\ nullLifecycle' \in NullControl \cup {None}
  <2>1. nullLifecycle' \in NullControl \cup {None} /\ nullCallback' \in NullControl \cup {None}
    BY <1>1, <1>3 DEF Null!StartLaunch, Null!StartSpawn, Null!StartSpawnFails, NullInv, Null!TypeOK
  <2>2. CASE Null!StartLaunch(c)
    BY <2>1, <2>2 DEF Null!StartLaunch
  <2>3. CASE Null!StartSpawn(c)
    BY <2>1, <2>3 DEF Null!StartSpawn, NullInv, Null!TypeOK
  <2>4. CASE Null!StartSpawnFails(c)
    BY <2>1, <2>4 DEF Null!StartSpawnFails, NullInv, Null!TypeOK
  <2> QED
    BY <2>2, <2>3, <2>4
<1>5. /\ nullHandle' \in Thread \cup {None}
      /\ nullRpc' \in [Thread -> {"none", "loop", "wait", "callback", "done"}]
      /\ \A t \in Thread : (nullRpc'[t] # "none") = (nullHandle' = t)
      /\ \A t \in Thread : nullRpc'[t] # "wait"
      /\ pc = "spawn" => nullHandle' = None
  <2>1. CASE Null!StartLaunch(c) \/ Null!StartSpawnFails(c)
    BY <1>3, <2>1, NoneAssumption DEF Null!StartLaunch, Null!StartSpawnFails, NullInv, Null!TypeOK
  <2>2. CASE Null!StartSpawn(c)
    <3>1. PICK t \in Thread : nullRpc' = [nullRpc EXCEPT ![t] = "loop"] /\ nullHandle' = t
      BY <2>2 DEF Null!StartSpawn, Null!Step
    <3>2. pc = "idle"
      BY <1>1, <2>2 DEF Null!StartSpawn, Null!Return, Null!Goto, NullInv, Null!TypeOK
    <3> QED
      BY <1>3, <3>1, <3>2 DEF NullInv, Null!TypeOK
  <2> QED
    BY <2>1, <2>2
<1>6. Null!TypeOK'
  BY <1>2, <1>4, <1>5 DEF Null!TypeOK
<1>7. \A d \in NullControl : nullCpc'[d] \notin {"idle", "stopLock"} <=> nullLifecycle' = d
  BY <1>1, <1>2, <1>3, NullAssumption DEF NullInv, Null!TypeOK
<1> QED
  BY <1>2, <1>3, <1>4, <1>5, <1>6, <1>7 DEF NullInv

\* The loop.  A callback that stops the device is the only thread there is.
LEMMA NullRendering ==
  ASSUME NullInv, NEW t \in Thread, Null!RenderStep(t) \/ Null!CallbackStops(t)
  PROVE  NullInv'
<1>1. /\ nullRpc[t] # "none"
      /\ UNCHANGED <<nullLifecycle, nullHandle, nullCallback, nullCpc>>
      /\ nullRunning' \in BOOLEAN /\ nullStoppedItself' \in BOOLEAN
  BY DEF Null!RenderStep, Null!RenderLoop, Null!CallbackBegins, Null!CallbackEnds,
         Null!CallbackStops, NullInv, Null!TypeOK
<1>2. \A u \in Thread : u # t => nullRpc[u] = "none"
  BY <1>1, NullOneThread
<1>3. PICK pc \in {"loop", "wait", "callback", "done"} :
        /\ nullRpc' = [nullRpc EXCEPT ![t] = pc] \/ (UNCHANGED nullRpc /\ nullRpc[t] = pc)
        /\ pc = "wait" => ~nullStoppedItself'
  BY DEF Null!RenderStep, Null!RenderLoop, Null!CallbackBegins, Null!CallbackEnds,
         Null!CallbackStops, Null!Step, NullInv
<1>4. /\ nullRpc' \in [Thread -> {"none", "loop", "wait", "callback", "done"}]
      /\ nullRpc'[t] = pc
      /\ \A u \in Thread : u # t => nullRpc'[u] = "none"
  BY <1>2, <1>3 DEF NullInv, Null!TypeOK
<1>5. nullStoppedItself' => ~nullRunning'
  BY DEF Null!RenderStep, Null!RenderLoop, Null!CallbackBegins, Null!CallbackEnds,
         Null!CallbackStops, NullInv
<1>6. Null!TypeOK'
  BY <1>1, <1>2, <1>4 DEF NullInv, Null!TypeOK
<1> QED
  BY <1>1, <1>3, <1>4, <1>5, <1>6 DEF NullInv

LEMMA NullStepInv == NullInv /\ [Null!Next]_nullVars => NullInv'
<1> SUFFICES ASSUME NullInv, [Null!Next]_nullVars PROVE NullInv'
  OBVIOUS
<1>1. CASE UNCHANGED nullVars
  BY <1>1 DEF nullVars, NullInv, Null!TypeOK
<1>2. CASE Null!Next
  BY <1>2, NullEntering, NullJoining, NullLaunching, NullRendering DEF Null!Next, Null!ControlStep
<1> QED
  BY <1>1, <1>2

\* A callback that has stopped its own device is not called for another block.
LEMMA NullStepUnwinds ==
  NullInv /\ [Null!Next]_nullVars =>
    [\A t \in Thread :
       nullRpc[t] # "callback" /\ nullRpc'[t] = "callback" => ~nullStoppedItself]_nullVars
<1> SUFFICES ASSUME NullInv, Null!Next, NEW t \in Thread,
                    nullRpc[t] # "callback", nullRpc'[t] = "callback"
             PROVE  ~nullStoppedItself
  BY DEF nullVars
<1>1. CASE \E c \in NullControl : Null!StartLock(c) \/ Null!StopRequest(c) \/ Null!ControlStep(c)
  <2>1. PICK c \in NullControl : Null!StartLock(c) \/ Null!StopRequest(c) \/ Null!ControlStep(c)
    BY <1>1
  <2>2. UNCHANGED nullRpc \/ Null!Joins \/ Null!StartSpawn(c)
    BY <2>1 DEF Null!StartLock, Null!StopRequest, Null!ControlStep, Null!StartJoin, Null!StartLaunch,
                Null!StartSpawnFails, Null!StopLock, Null!StopJoin
  <2>3. ~Null!Joins
    BY NullJoinsClears
  <2>4. ~Null!StartSpawn(c)
    BY DEF Null!StartSpawn, Null!Step, NullInv, Null!TypeOK
  <2> QED
    BY <2>2, <2>3, <2>4
<1>2. CASE \E u \in Thread : Null!RenderStep(u) \/ Null!CallbackStops(u)
  BY <1>2 DEF Null!RenderStep, Null!RenderLoop, Null!CallbackBegins, Null!CallbackEnds,
              Null!CallbackStops, Null!Step, NullInv, Null!TypeOK
<1> QED
  BY <1>1, <1>2 DEF Null!Next

\* Its callback is replaced only where there is no thread.
LEMMA NullStepStable ==
  NullInv /\ [Null!Next]_nullVars =>
    [nullCallback' # nullCallback => \A t \in Thread : ~Null!Live(t)]_nullVars
<1> SUFFICES ASSUME NullInv, Null!Next, nullCallback' # nullCallback
             PROVE  \A t \in Thread : ~Null!Live(t)
  BY DEF nullVars
<1>1. PICK c \in NullControl : Null!StartLaunch(c) \/ Null!StartSpawnFails(c)
  BY DEF Null!Next, Null!ControlStep, Null!StartLock, Null!StopRequest, Null!StartJoin,
         Null!StartSpawn, Null!StopLock, Null!StopJoin, Null!RenderStep, Null!RenderLoop,
         Null!CallbackBegins, Null!CallbackEnds, Null!CallbackStops
<1>2. nullHandle = None
  BY <1>1 DEF Null!StartLaunch, Null!StartSpawnFails, NullInv
<1> QED
  BY <1>2, NullNoThread

\* Only stop()'s own join takes a call from there to its return, and it leaves
\* no thread.
LEMMA NullStepStopIsSilence ==
  NullInv /\ [Null!Next]_nullVars =>
    [\A c \in NullControl : nullCpc[c] = "stopJoin" /\ nullCpc'[c] = "idle"
                              => \A t \in Thread : ~Null!Live(t)']_nullVars
<1> SUFFICES ASSUME NullInv, Null!Next, NEW c \in NullControl,
                    nullCpc[c] = "stopJoin", nullCpc'[c] = "idle"
             PROVE  \A t \in Thread : ~Null!Live(t)'
  BY DEF nullVars
<1>1. PICK d \in NullControl : Null!StartLock(d) \/ Null!StopRequest(d) \/ Null!ControlStep(d)
  BY DEF Null!Next, Null!RenderStep, Null!RenderLoop, Null!CallbackBegins, Null!CallbackEnds,
         Null!CallbackStops
<1>2. Null!StopJoin(d)
  <2>1. \E pc : Null!Goto(d, pc)
    BY <1>1 DEF Null!ControlStep, Null!StartLock, Null!StopRequest, Null!StartJoin,
       Null!StartLaunch, Null!StartSpawn, Null!StartSpawnFails, Null!StopLock, Null!StopJoin,
       Null!Return
  <2>2. d = c
    BY <2>1 DEF Null!Goto, NullInv, Null!TypeOK
  <2> QED
    BY <1>1, <2>2 DEF Null!ControlStep, Null!StartLock, Null!StopRequest, Null!StartJoin,
       Null!StartLaunch, Null!StartSpawn, Null!StartSpawnFails, Null!StopLock
<1> QED
  BY <1>2, NullJoinsClears DEF Null!StopJoin, Null!Live

\* The null device implements AudioDevice.
LEMMA NullContractInit == Null!Init => Null!Contract!Init
BY DEF Null!Init, Null!Contract!Init, Null!Stream, Null!InCallback, Null!Live

LEMMA NullClearingWinds ==
  ASSUME NullInv, UNCHANGED nullRpc, nullRunning' \in {nullRunning, FALSE}
  PROVE  [Null!Contract!Next]_(Null!Contract!vars)
<1>1. Null!InCallback' = Null!InCallback
  BY DEF Null!InCallback
<1>2. (\A t \in Thread : ~Null!Live(t)) = (\A t \in Thread : ~Null!Live(t)')
  BY DEF Null!Live
<1>3. Null!Stream' = Null!Stream \/ (Null!Stream = "on" /\ Null!Stream' = "unwinding")
  <2>1. CASE \A t \in Thread : ~Null!Live(t)
    BY <1>2, <2>1 DEF Null!Stream
  <2>2. CASE ~\A t \in Thread : ~Null!Live(t)
    <3>1. nullRunning' = nullRunning \/ (nullRunning = TRUE /\ nullRunning' = FALSE)
      BY DEF NullInv, Null!TypeOK
    <3>2. /\ Null!Stream = (IF nullRunning THEN "on" ELSE "unwinding")
          /\ Null!Stream' = (IF nullRunning' THEN "on" ELSE "unwinding")
      BY <1>2, <2>2 DEF Null!Stream
    <3> QED
      BY <3>1, <3>2
  <2> QED
    BY <2>1, <2>2
<1> QED
  BY <1>1, <1>3 DEF Null!Contract!vars, Null!Contract!Next, Null!Contract!Wind

LEMMA NullControlImplements ==
  ASSUME NullInv, NEW c \in NullControl,
         Null!StartLock(c) \/ Null!StopRequest(c) \/ Null!ControlStep(c)
  PROVE  [Null!Contract!Next]_(Null!Contract!vars)
<1>1. CASE Null!StartLock(c) \/ Null!StopRequest(c) \/ Null!StartSpawnFails(c) \/ Null!StopLock(c)
  <2>1. UNCHANGED nullRpc /\ nullRunning' \in {nullRunning, FALSE}
    BY <1>1 DEF Null!StartLock, Null!StopRequest, Null!StartSpawnFails, Null!StopLock
  <2> QED
    BY <2>1, NullClearingWinds
<1>2. CASE Null!StartJoin(c) \/ Null!StopJoin(c) \/ Null!StartLaunch(c)
  <2>1. (\A t \in Thread : ~Null!Live(t)) /\ \A t \in Thread : nullRpc'[t] \in {"none", nullRpc[t]}
    BY <1>2, NullJoinsClears, NullNoThread
    DEF Null!StartJoin, Null!StopJoin, Null!StartLaunch, NullInv
  <2>2. /\ Null!Stream = "off" /\ Null!InCallback = FALSE
        /\ Null!Stream' = "off" /\ Null!InCallback' = FALSE
    BY <2>1 DEF Null!Stream, Null!InCallback, Null!Live
  <2> QED
    BY <2>2 DEF Null!Contract!vars
<1>3. CASE Null!StartSpawn(c)
  <2>1. \A t \in Thread : nullRpc[t] = "none"
    BY <1>3, NullNoThread DEF Null!StartSpawn, NullInv
  <2>2. PICK t \in Thread : nullRpc' = [nullRpc EXCEPT ![t] = "loop"]
    BY <1>3 DEF Null!StartSpawn, Null!Step
  <2>3. nullRpc'[t] = "loop" /\ \A u \in Thread : u # t => nullRpc'[u] = "none"
    BY <2>1, <2>2 DEF NullInv, Null!TypeOK
  <2>4. Null!Stream = "off" /\ Null!InCallback = FALSE
    BY <2>1 DEF Null!Stream, Null!InCallback, Null!Live
  <2>5. /\ Null!Stream' = IF nullRunning' THEN "on" ELSE "unwinding"
        /\ Null!InCallback' = FALSE
    BY <2>3 DEF Null!Stream, Null!InCallback, Null!Live
  <2> QED
    BY <2>4, <2>5
    DEF Null!Contract!Next, Null!Contract!SwitchOn, Null!Contract!SwitchOnUnwinding
<1> QED
  BY <1>1, <1>2, <1>3 DEF Null!ControlStep

LEMMA NullRenderImplements ==
  ASSUME NullInv, NEW t \in Thread, Null!RenderStep(t) \/ Null!CallbackStops(t)
  PROVE  [Null!Contract!Next]_(Null!Contract!vars)
<1>1. CASE Null!CallbackStops(t)
  <2>1. UNCHANGED nullRpc /\ nullRunning' \in {nullRunning, FALSE}
    BY <1>1 DEF Null!CallbackStops
  <2> QED
    BY <2>1, NullClearingWinds
<1>2. CASE Null!RenderStep(t)
  <2>1. /\ UNCHANGED nullRunning /\ nullRpc[t] \in {"loop", "wait", "callback"}
        /\ nullRpc[t] = "loop" \/ (nullRpc[t] = "wait" /\ Null!Step(t, "callback"))
             \/ (nullRpc[t] = "callback" /\ Null!Step(t, "loop"))
        /\ nullRpc[t] = "loop" => Null!Step(t, "wait") \/ Null!Step(t, "done")
    BY <1>2 DEF Null!RenderStep, Null!RenderLoop, Null!CallbackBegins, Null!CallbackEnds
  <2>2. \A u \in Thread : u # t => nullRpc[u] = "none"
    BY <2>1, NullOneThread
  <2>3. PICK pc : /\ nullRpc' = [nullRpc EXCEPT ![t] = pc]
                  /\ <<nullRpc[t], pc>> \in {<<"loop", "wait">>, <<"loop", "done">>,
                                            <<"wait", "callback">>, <<"callback", "loop">>}
    BY <2>1 DEF Null!Step
  <2>4. nullRpc'[t] = pc /\ \A u \in Thread : u # t => nullRpc'[u] = "none"
    BY <2>2, <2>3 DEF NullInv, Null!TypeOK
  <2>5. /\ Null!Stream = IF nullRunning THEN "on" ELSE "unwinding"
        /\ Null!InCallback = (nullRpc[t] = "callback")
    BY <2>1, <2>2 DEF Null!Stream, Null!InCallback, Null!Live
  <2>6. CASE pc = "done"
    <3>1. Null!Stream' = "off" /\ Null!InCallback' = FALSE
      BY <2>4, <2>6 DEF Null!Stream, Null!InCallback, Null!Live
    <3> QED
      BY <2>3, <2>5, <2>6, <3>1 DEF Null!Contract!Next, Null!Contract!SwitchOff
  <2>7. CASE pc # "done"
    <3>1. /\ Null!Stream' = IF nullRunning' THEN "on" ELSE "unwinding"
          /\ Null!InCallback' = (pc = "callback")
      BY <2>3, <2>4, <2>7 DEF Null!Stream, Null!InCallback, Null!Live
    <3>2. Null!Stream' = Null!Stream /\ Null!Stream # "off"
      BY <2>1, <2>5, <3>1
    <3> QED
      BY <2>3, <2>5, <3>1, <3>2 DEF Null!Contract!vars, Null!Contract!Next,
         Null!Contract!CallbackBegins, Null!Contract!CallbackEnds
  <2> QED
    BY <2>6, <2>7
<1> QED
  BY <1>1, <1>2

LEMMA NullStepContract ==
  NullInv /\ [Null!Next]_nullVars => [Null!Contract!Next]_(Null!Contract!vars)
<1> SUFFICES ASSUME NullInv, [Null!Next]_nullVars PROVE [Null!Contract!Next]_(Null!Contract!vars)
  OBVIOUS
<1>1. CASE UNCHANGED nullVars
  BY <1>1, NullClearingWinds DEF nullVars
<1>2. CASE Null!Next
  BY <1>2, NullControlImplements, NullRenderImplements DEF Null!Next
<1> QED
  BY <1>1, <1>2
-----------------------------------------------------------------------------
(* ALSA.                                                                   *)

\* Where a PCM is open, and what it has then been prepared with.
AlsaInv ==
  /\ aPc \in {"open", "again", "ended"} => pcm = "none"
  /\ aPc = "loop" => pcm \in {"none", "prepared"}
  /\ aPc \in {"turn", "write"} => pcm = "prepared"
  /\ pcm = "prepared" => chunkFrames \in Nat \ {0} /\ scratch = chunkFrames /\ aRate = pcmRate
  /\ aPc = "write" =>
       cursor \in Nat /\ remaining \in Nat /\ cursor + remaining = chunkFrames /\ ~broken
  /\ aPc \in {"negotiate", "prepare"} => pcm = "open"

LEMMA AlsaInitInv == Alsa!Init => AlsaInv
BY DEF Alsa!Init, AlsaInv

LEMMA AlsaStepInv == AlsaInv /\ [Alsa!Next]_alsaVars => AlsaInv'
<1> SUFFICES ASSUME AlsaInv, [Alsa!Next]_alsaVars PROVE AlsaInv'
  OBVIOUS
<1> USE DEF AlsaInv, Alsa!rates, Alsa!buffers, Alsa!block, Alsa!Goto, Alsa!OpenFails
<1>1. CASE UNCHANGED alsaVars
  BY <1>1 DEF alsaVars
<1>2. CASE Alsa!Start \/ Alsa!StopRequests \/ Alsa!StopJoins
  BY <1>2 DEF Alsa!Start, Alsa!StopRequests, Alsa!StopJoins
<1>3. CASE Alsa!OpenPcm \/ Alsa!OpenNegotiates
  BY <1>3 DEF Alsa!OpenPcm, Alsa!OpenNegotiates
<1>4. CASE Alsa!OpenPrepares
  <2>1. \A period \in 0..MaxPeriod : Alsa!chunkOf(period) \in Nat \ {0}
    BY BufferAssumption DEF Alsa!chunkOf
  <2> QED
    BY <1>4, <2>1 DEF Alsa!OpenPrepares
<1>5. CASE Alsa!RenderLoop
  BY <1>5 DEF Alsa!RenderLoop
<1>6. CASE Alsa!RunRenders
  BY <1>6 DEF Alsa!RunRenders
<1>7. CASE Alsa!RunWrites
  BY <1>7 DEF Alsa!RunWrites
<1>8. CASE Alsa!RunRecovers \/ Alsa!BlockEnds \/ Alsa!RenderRebuilds
  BY <1>8 DEF Alsa!RunRecovers, Alsa!DropsRest, Alsa!BlockEnds, Alsa!RenderRebuilds
<1>9. CASE Alsa!closeStream
  BY <1>9 DEF Alsa!closeStream, Alsa!closed
<1> QED
  BY <1>1, <1>2, <1>3, <1>4, <1>5, <1>6, <1>7, <1>8, <1>9 DEF Alsa!Next, Alsa!RenderStep

LEMMA AlsaInvHolds == AlsaInv => Alsa!ClosedHoldsNothing /\ Alsa!WritesTheBlock
BY DEF AlsaInv, Alsa!ClosedHoldsNothing, Alsa!WritesTheBlock

LEMMA AlsaStepOnTime ==
  AlsaInv /\ [Alsa!Next]_alsaVars => [aPc = "write" /\ remaining' < remaining => ~broken]_alsaVars
BY DEF AlsaInv

\* A stop() returns when the render thread has ended, with the PCM closed.
LEMMA AlsaStepStopIsSilence ==
  AlsaInv /\ [Alsa!Next]_alsaVars =>
    [aCaller = "joining" /\ aCaller' = "idle" => aPc = "ended" /\ pcm = "none"]_alsaVars
<1> SUFFICES ASSUME AlsaInv, Alsa!Next, aCaller = "joining", aCaller' = "idle"
             PROVE  aPc = "ended" /\ pcm = "none"
  BY DEF alsaVars
<1>1. Alsa!StopJoins
  BY DEF Alsa!Next, Alsa!Start, Alsa!StopRequests, Alsa!RenderStep, Alsa!OpenPcm,
         Alsa!OpenNegotiates, Alsa!OpenPrepares, Alsa!RenderLoop, Alsa!RunRenders,
         Alsa!RunWrites, Alsa!RunRecovers, Alsa!BlockEnds, Alsa!closeStream, Alsa!RenderRebuilds
<1> QED
  BY <1>1 DEF Alsa!StopJoins, AlsaInv

\* What a step of the render thread is to the contract: it ends the stream,
\* winds it, or is none of its business; and a period is rendered when running_
\* is set.
LEMMA AlsaRenderImplements ==
  ASSUME AlsaInv, aRunning \in BOOLEAN, Alsa!RenderStep
  PROVE  /\ [Alsa!Contract!Next]_(Alsa!Contract!vars)
         /\ aPc # "write" /\ aPc' = "write" => Alsa!Stream = "on"
         /\ aRunning' \in BOOLEAN
<1> USE DEF Alsa!Stream, Alsa!Goto, Alsa!Contract!Next, Alsa!Contract!vars, Alsa!Contract!Wind,
            Alsa!Contract!SwitchOff
<1>1. CASE Alsa!RunRenders
  BY <1>1 DEF Alsa!RunRenders
<1>2. CASE Alsa!closeStream
  BY <1>2 DEF Alsa!closeStream
<1>3. CASE ~Alsa!RunRenders /\ ~Alsa!closeStream
  <2>1. UNCHANGED aRunning /\ aPc # "ended" /\ aPc' # "ended"
        /\ (aPc # "write" => aPc' # "write")
    BY <1>3 DEF Alsa!RenderStep, Alsa!OpenPcm, Alsa!OpenNegotiates, Alsa!OpenPrepares,
       Alsa!RenderLoop, Alsa!RunWrites, Alsa!RunRecovers, Alsa!DropsRest, Alsa!BlockEnds,
       Alsa!RenderRebuilds, Alsa!OpenFails
  <2> QED
    BY <2>1
<1> QED
  BY <1>1, <1>2, <1>3

LEMMA AlsaStepContract ==
  AlsaInv /\ aRunning \in BOOLEAN /\ [Alsa!Next]_alsaVars =>
    /\ [Alsa!Contract!Next]_(Alsa!Contract!vars)
    /\ [aPc # "write" /\ aPc' = "write" => Alsa!Stream = "on"]_alsaVars
    /\ aRunning' \in BOOLEAN
<1> SUFFICES ASSUME AlsaInv, aRunning \in BOOLEAN, [Alsa!Next]_alsaVars
             PROVE  /\ [Alsa!Contract!Next]_(Alsa!Contract!vars)
                    /\ aPc # "write" /\ aPc' = "write" => Alsa!Stream = "on"
                    /\ aRunning' \in BOOLEAN
  OBVIOUS
<1>1. CASE Alsa!Start \/ Alsa!StopRequests \/ Alsa!StopJoins \/ UNCHANGED alsaVars
  <2>1. \/ UNCHANGED <<aPc, aRunning>>
        \/ aPc = "ended" /\ aPc' = "open" /\ aRunning' = TRUE
        \/ UNCHANGED aPc /\ aRunning' = FALSE
    BY <1>1 DEF Alsa!Start, Alsa!StopRequests, Alsa!StopJoins, alsaVars, Alsa!Goto
  <2>2. \/ Alsa!Stream' = Alsa!Stream
        \/ Alsa!Stream = "off" /\ Alsa!Stream' = "on"
        \/ Alsa!Stream = "on" /\ Alsa!Stream' = "unwinding"
    BY <2>1 DEF Alsa!Stream
  <2> QED
    BY <2>1, <2>2 DEF Alsa!Contract!Next, Alsa!Contract!vars, Alsa!Contract!Wind,
       Alsa!Contract!SwitchOn
<1>2. CASE Alsa!RenderStep
  BY <1>2, AlsaRenderImplements
<1> QED
  BY <1>1, <1>2 DEF Alsa!Next
-----------------------------------------------------------------------------
(* WASAPI.                                                                 *)

\* What a stream may hold of Windows: nothing is ever lost track of, nothing
\* outlives the apartment, and a watcher not its enumerator.
HoldsInOrder ==
  /\ held \subseteq {"com", "task", "enumerator", "client", "render", "event", "watcher"}
  /\ held \cap {"enumerator", "client", "render", "watcher"} # {} => "com" \in held
  /\ "watcher" \in held => "enumerator" \in held

\* And what it holds where: no object of a stream outside openStream() and
\* runStream(), and all of them once it has been opened.
HoldsWhere ==
  /\ wPc \in {"configure", "ended"} => held = {}
  /\ wPc \in {"com", "ask", "reset", "find", "again", "release"} => held \subseteq {"com", "task"}
  /\ wPc \in {"ask", "reset", "find"} => "com" \in held
  /\ wPc \in {"retune", "plain", "register", "clear"} => {"com", "enumerator"} \subseteq held
  /\ wPc \in {"retune", "plain"} => "watcher" \notin held
  /\ wPc \in {"register", "clear", "turn", "wait"} => Wasapi!Whole

\* A stream that is there in full runs at the rate the device reports.
ReportsItsRate ==
  Wasapi!Whole /\ wPc \in {"register", "clear", "loop", "enter", "turn", "wait"} =>
    wRate = streamRate /\ streamRate \in {WantedRate, mix.rate}

WasapiInv == mix \in Mixes /\ HoldsInOrder /\ HoldsWhere /\ ReportsItsRate

LEMMA WasapiInitInv == Wasapi!Init => WasapiInv
BY DEF Wasapi!Init, WasapiInv, HoldsInOrder, HoldsWhere, ReportsItsRate, Wasapi!Whole

\* Whatever call into Windows fails, startClient() leaves the client and the
\* event of its own attempt or none, and all of them when it succeeds.
LEMMA StartClientHolds ==
  ASSUME NEW holding, NEW format, NEW outcome \in Wasapi!startClient(holding, format)
  PROVE  /\ outcome.held \subseteq holding \cup {"client", "event", "render"}
         /\ holding \ {"client", "event", "render"} \subseteq outcome.held
         /\ outcome.ok => {"client", "event", "render"} \subseteq outcome.held
<1> DEFINE fresh == holding \ {"render", "client", "event"}
<1>1. Wasapi!createEvent(fresh \cup {"client"}) = fresh \cup {"client", "event"}
  BY DEF Wasapi!createEvent
<1>2. \/ outcome \in {[held |-> h, ok |-> FALSE] :
                        h \in {fresh, fresh \cup {"client"}, fresh \cup {"client", "event"}}}
      \/ outcome = [held |-> fresh \cup {"client", "event"} \cup {"render"}, ok |-> TRUE]
  <2>1. CASE Wasapi!classifyFormat(format) = "refused"
    BY <2>1 DEF Wasapi!startClient
  <2>2. CASE Wasapi!classifyFormat(format) # "refused"
    BY <1>1, <2>2 DEF Wasapi!startClient
  <2> QED
    BY <2>1, <2>2
<1> QED
  BY <1>2

\* A stream that cannot be opened is closed.
LEMMA WasapiOpenFails ==
  ASSUME Wasapi!OpenFails
  PROVE  wPc' \in {"failedClose", "finalClose"}
BY DEF Wasapi!OpenFails, Wasapi!Goto

\* Another attempt at a client, at either format.
LEMMA WasapiClientKeeps ==
  ASSUME WasapiInv, Wasapi!OpenRetuned \/ Wasapi!OpenPlain
  PROVE  WasapiInv'
<1>1. UNCHANGED mix /\ wPc \in {"retune", "plain"}
  BY DEF Wasapi!OpenRetuned, Wasapi!OpenPlain, Wasapi!found
<1>2. PICK format : \E outcome \in Wasapi!startClient(held, format) :
        /\ held' = outcome.held
        /\ format.rate \in {WantedRate, mix.rate}
        /\ \/ outcome.ok /\ Wasapi!Opened(format)
           \/ wPc' \in {"plain", "failedClose", "finalClose"}
  <2>1. CASE Wasapi!OpenRetuned
    <3>1. Wasapi!copyFormatAtRate(mix, WantedRate).rate = WantedRate
      BY MixesAssumption DEF WasapiInv, Wasapi!copyFormatAtRate
    <3> QED
      BY <2>1, <3>1 DEF Wasapi!OpenRetuned, Wasapi!Goto
  <2>2. CASE Wasapi!OpenPlain
    BY <2>2, WasapiOpenFails DEF Wasapi!OpenPlain
  <2> QED
    BY <2>1, <2>2
<1>3. PICK outcome \in Wasapi!startClient(held, format) :
        /\ held' = outcome.held
        /\ \/ outcome.ok /\ Wasapi!Opened(format)
           \/ wPc' \in {"plain", "failedClose", "finalClose"}
  BY <1>2
<1>4. /\ held' \subseteq held \cup {"client", "event", "render"}
      /\ held \ {"client", "event", "render"} \subseteq held'
      /\ outcome.ok => {"client", "event", "render"} \subseteq held'
  BY <1>3, StartClientHolds
<1>5. HoldsInOrder' /\ {"com", "enumerator"} \subseteq held' /\ "watcher" \notin held'
  BY <1>1, <1>4 DEF WasapiInv, HoldsInOrder, HoldsWhere
<1>6. CASE wPc' \in {"plain", "failedClose", "finalClose"}
  BY <1>1, <1>5, <1>6 DEF WasapiInv, HoldsWhere, ReportsItsRate
<1>7. CASE outcome.ok /\ Wasapi!Opened(format)
  <2>1. wPc' = "register" /\ wRate' = format.rate /\ streamRate' = format.rate
    BY <1>7 DEF Wasapi!Opened, Wasapi!Goto
  <2>2. Wasapi!Whole'
    BY <1>4, <1>7 DEF Wasapi!Whole
  <2> QED
    BY <1>1, <1>2, <1>5, <2>1, <2>2 DEF WasapiInv, HoldsWhere, ReportsItsRate
<1> QED
  BY <1>3, <1>6, <1>7

LEMMA WasapiStepInv == WasapiInv /\ [Wasapi!Next]_wasapiVars => WasapiInv'
<1> SUFFICES ASSUME WasapiInv, [Wasapi!Next]_wasapiVars PROVE WasapiInv'
  OBVIOUS
<1> USE DEF WasapiInv, HoldsInOrder, HoldsWhere, ReportsItsRate, Wasapi!Whole, Wasapi!Goto,
            Wasapi!windows, Wasapi!found, Wasapi!rates, Wasapi!signals
<1>1. CASE UNCHANGED wasapiVars
  BY <1>1 DEF wasapiVars
<1>2. CASE \/ Wasapi!DefaultMoves \/ Wasapi!open \/ Wasapi!Start \/ Wasapi!StopRequests
           \/ Wasapi!wakeStream \/ Wasapi!StopJoins
  BY <1>2 DEF Wasapi!DefaultMoves, Wasapi!open, Wasapi!Start, Wasapi!StopRequests,
              Wasapi!wakeStream, Wasapi!StopJoins
<1>3. CASE Wasapi!configureRenderThread \/ Wasapi!OpenInitialisesCom
  BY <1>3, WasapiOpenFails DEF Wasapi!configureRenderThread, Wasapi!OpenInitialisesCom
<1>4. CASE Wasapi!OpenAsks \/ Wasapi!OpenResets
  BY <1>4 DEF Wasapi!OpenAsks, Wasapi!OpenResets
<1>5. CASE Wasapi!OpenFinds
  BY <1>5, WasapiOpenFails DEF Wasapi!OpenFinds
<1>6. CASE Wasapi!OpenRetuned \/ Wasapi!OpenPlain
  BY <1>6, WasapiClientKeeps
<1>7. CASE Wasapi!OpenRegisters \/ Wasapi!OpenClears
  BY <1>7 DEF Wasapi!OpenRegisters, Wasapi!OpenClears
<1>8. CASE Wasapi!RenderLoop \/ Wasapi!RunEnters \/ Wasapi!RunTurns \/ Wasapi!WaitIsStopped
  BY <1>8 DEF Wasapi!RenderLoop, Wasapi!RunEnters, Wasapi!RunTurns, Wasapi!WaitIsStopped
<1>9. CASE Wasapi!renderAvailable \/ Wasapi!WaitTimesOut
  BY <1>9 DEF Wasapi!renderAvailable, Wasapi!WaitTimesOut
<1>10. CASE Wasapi!closeStream
  BY <1>10 DEF Wasapi!closeStream, Wasapi!closed
<1>11. CASE Wasapi!RenderRebuilds \/ Wasapi!releaseRenderThread
  BY <1>11 DEF Wasapi!RenderRebuilds, Wasapi!releaseRenderThread
<1> QED
  BY <1>1, <1>2, <1>3, <1>4, <1>5, <1>6, <1>7, <1>8, <1>9, <1>10, <1>11
  DEF Wasapi!Next, Wasapi!RenderStep

LEMMA WasapiInvHolds == WasapiInv => Wasapi!ClosedHoldsNothing /\ Wasapi!RendersWhatItReports
BY DEF WasapiInv, HoldsInOrder, HoldsWhere, ReportsItsRate, Wasapi!Whole,
       Wasapi!ClosedHoldsNothing, Wasapi!RendersWhatItReports

\* A stop() returns when the render thread has ended, with nothing held.
LEMMA WasapiStepStopIsSilence ==
  WasapiInv /\ [Wasapi!Next]_wasapiVars =>
    [wCaller = "joining" /\ wCaller' = "idle" => wPc = "ended" /\ held = {}]_wasapiVars
<1> SUFFICES ASSUME WasapiInv, Wasapi!Next, wCaller = "joining", wCaller' = "idle"
             PROVE  wPc = "ended" /\ held = {}
  BY DEF wasapiVars
<1>1. Wasapi!StopJoins
  BY DEF Wasapi!Next, Wasapi!DefaultMoves, Wasapi!open, Wasapi!Start, Wasapi!StopRequests,
         Wasapi!wakeStream, Wasapi!RenderStep, Wasapi!configureRenderThread,
         Wasapi!OpenInitialisesCom, Wasapi!OpenAsks, Wasapi!OpenResets, Wasapi!OpenFinds,
         Wasapi!OpenRetuned, Wasapi!OpenPlain, Wasapi!OpenRegisters, Wasapi!OpenClears,
         Wasapi!RenderLoop, Wasapi!RunEnters, Wasapi!RunTurns, Wasapi!WaitIsStopped,
         Wasapi!renderAvailable, Wasapi!WaitTimesOut, Wasapi!closeStream, Wasapi!RenderRebuilds,
         Wasapi!releaseRenderThread, Wasapi!signals
<1> QED
  BY <1>1 DEF Wasapi!StopJoins, WasapiInv, HoldsWhere

\* What a step of the render thread is to the contract; it waits for a buffer
\* only while running_ is set.
LEMMA WasapiRenderImplements ==
  ASSUME WasapiInv, wRunning \in BOOLEAN,
         Wasapi!RenderStep \/ Wasapi!renderAvailable \/ Wasapi!WaitTimesOut
  PROVE  /\ [Wasapi!Contract!Next]_(Wasapi!Contract!vars)
         /\ wPc # "wait" /\ wPc' = "wait" => Wasapi!Stream = "on"
         /\ wRunning' \in BOOLEAN
<1> USE DEF Wasapi!Stream, Wasapi!Goto, Wasapi!signals, Wasapi!Contract!Next,
            Wasapi!Contract!vars, Wasapi!Contract!Wind, Wasapi!Contract!SwitchOff
<1>1. CASE Wasapi!RunTurns
  BY <1>1 DEF Wasapi!RunTurns
<1>2. CASE Wasapi!renderAvailable
  <2>1. /\ wPc = "wait" /\ wPc' \in {"turn", "close"}
        /\ wRunning' = wRunning \/ (wRunning = TRUE /\ wRunning' = FALSE)
    BY <1>2 DEF Wasapi!renderAvailable
  <2>2. Wasapi!Stream' = Wasapi!Stream \/ (Wasapi!Stream = "on" /\ Wasapi!Stream' = "unwinding")
    BY <2>1
  <2> QED
    BY <2>1, <2>2
<1>3. CASE Wasapi!releaseRenderThread
  BY <1>3 DEF Wasapi!releaseRenderThread
<1>4. CASE ~Wasapi!RunTurns /\ ~Wasapi!renderAvailable /\ ~Wasapi!releaseRenderThread
  <2>1. UNCHANGED wRunning /\ wPc # "ended" /\ wPc' # "ended" /\ wPc' # "wait"
    <3>1. CASE Wasapi!configureRenderThread \/ Wasapi!OpenInitialisesCom \/ Wasapi!OpenAsks
               \/ Wasapi!OpenResets
      BY <3>1 DEF Wasapi!configureRenderThread, Wasapi!OpenInitialisesCom, Wasapi!OpenAsks,
                  Wasapi!OpenResets, Wasapi!OpenFails
    <3>2. CASE Wasapi!OpenFinds
      BY <3>2 DEF Wasapi!OpenFinds, Wasapi!OpenFails
    <3>3. CASE Wasapi!OpenRetuned \/ Wasapi!OpenPlain
      BY <3>3 DEF Wasapi!OpenRetuned, Wasapi!OpenPlain, Wasapi!OpenFails, Wasapi!Opened
    <3>4. CASE Wasapi!OpenRegisters \/ Wasapi!OpenClears \/ Wasapi!RenderLoop \/ Wasapi!RunEnters
               \/ Wasapi!WaitIsStopped \/ Wasapi!WaitTimesOut
      BY <3>4 DEF Wasapi!OpenRegisters, Wasapi!OpenClears, Wasapi!RenderLoop, Wasapi!RunEnters,
                  Wasapi!WaitIsStopped, Wasapi!WaitTimesOut
    <3>5. CASE Wasapi!closeStream \/ Wasapi!RenderRebuilds
      BY <3>5 DEF Wasapi!closeStream, Wasapi!RenderRebuilds
    <3> QED
      BY <1>4, <3>1, <3>2, <3>3, <3>4, <3>5 DEF Wasapi!RenderStep
  <2> QED
    BY <2>1
<1> QED
  BY <1>1, <1>2, <1>3, <1>4

LEMMA WasapiStepContract ==
  WasapiInv /\ wRunning \in BOOLEAN /\ [Wasapi!Next]_wasapiVars =>
    /\ [Wasapi!Contract!Next]_(Wasapi!Contract!vars)
    /\ [wPc # "wait" /\ wPc' = "wait" => Wasapi!Stream = "on"]_wasapiVars
    /\ wRunning' \in BOOLEAN
<1> SUFFICES ASSUME WasapiInv, wRunning \in BOOLEAN, [Wasapi!Next]_wasapiVars
             PROVE  /\ [Wasapi!Contract!Next]_(Wasapi!Contract!vars)
                    /\ wPc # "wait" /\ wPc' = "wait" => Wasapi!Stream = "on"
                    /\ wRunning' \in BOOLEAN
  OBVIOUS
<1>1. CASE \/ Wasapi!DefaultMoves \/ Wasapi!open \/ Wasapi!Start \/ Wasapi!StopRequests
           \/ Wasapi!wakeStream \/ Wasapi!StopJoins \/ UNCHANGED wasapiVars
  <2>1. \/ UNCHANGED <<wPc, wRunning>>
        \/ wPc = "ended" /\ wPc' = "configure" /\ wRunning' = TRUE
        \/ UNCHANGED wPc /\ wRunning' = FALSE
    BY <1>1 DEF Wasapi!DefaultMoves, Wasapi!open, Wasapi!Start, Wasapi!StopRequests,
       Wasapi!wakeStream, Wasapi!StopJoins, wasapiVars, Wasapi!signals, Wasapi!Goto
  <2>2. \/ Wasapi!Stream' = Wasapi!Stream
        \/ Wasapi!Stream = "off" /\ Wasapi!Stream' = "on"
        \/ Wasapi!Stream = "on" /\ Wasapi!Stream' = "unwinding"
    BY <2>1 DEF Wasapi!Stream
  <2> QED
    BY <2>1, <2>2 DEF Wasapi!Contract!Next, Wasapi!Contract!vars, Wasapi!Contract!Wind,
       Wasapi!Contract!SwitchOn
<1>2. CASE Wasapi!RenderStep \/ Wasapi!renderAvailable \/ Wasapi!WaitTimesOut
  BY <1>2, WasapiRenderImplements
<1> QED
  BY <1>1, <1>2 DEF Wasapi!Next
-----------------------------------------------------------------------------
(* All of them.                                                            *)

\* running_ of the platforms is a Boolean.
RunningType == aRunning \in BOOLEAN /\ wRunning \in BOOLEAN

DevicesInv == DeviceInv /\ StoppedUnwinds /\ NullInv /\ AlsaInv /\ WasapiInv /\ RunningType

devicesVars == <<device, vars, nullVars, wasapiVars, alsaVars>>

LEMMA DevicesInitInv == DevicesInit => DevicesInv
BY InitDeviceInv, InitStoppedUnwinds, NullInitInv, AlsaInitInv, WasapiInitInv
DEF DevicesInit, DevicesInv, RunningType, Alsa!Init, Wasapi!Init

\* A step of the model is a step or a stutter of each device.
LEMMA DevicesStep ==
  [DevicesNext]_devicesVars =>
    /\ [Next]_vars /\ [Null!Next]_nullVars
    /\ [Wasapi!Next]_wasapiVars /\ [Alsa!Next]_alsaVars
BY DEF DevicesNext, devicesVars

LEMMA DevicesStepInv == DevicesInv /\ [DevicesNext]_devicesVars => DevicesInv'
BY DevicesStep, StepDeviceInv, StepStoppedUnwinds, NullStepInv, AlsaStepInv, WasapiStepInv,
   AlsaStepContract, WasapiStepContract
DEF DevicesInv, RunningType

\* The inductive invariants of all the devices hold in every state.
THEOREM DevicesInvAlways == DevicesSpec => []DevicesInv
BY DevicesInitInv, DevicesStepInv, PTL DEF DevicesSpec, devicesVars

LEMMA DevicesInvHolds == DevicesInv => NoDeviceLeavesAnything
BY InvLeavesNothingBehind, WasapiInvHolds, AlsaInvHolds DEF DevicesInv, NoDeviceLeavesAnything

\* Whatever call into the platform fails and wherever a stop lands: one render
\* thread that can be joined, no stream leaked, a block of its own for a stream
\* that is rebuilt, audio only for a stream that is there in full, written from
\* within the staging buffer at the rate the device reports, and nothing held of
\* Windows or ALSA once it is closed.
THEOREM NothingIsLeaked == DevicesSpec => []NoDeviceLeavesAnything
BY DevicesInvAlways, DevicesInvHolds, PTL

\* The variables of each device, as the composition lists them.
LEMMA SameVars ==
  /\ nullVars = Null!vars /\ alsaVars = Alsa!vars /\ wasapiVars = Wasapi!vars
  /\ nullVars' = Null!vars' /\ alsaVars' = Alsa!vars' /\ wasapiVars' = Wasapi!vars'
BY DEF nullVars, Null!vars, alsaVars, Alsa!vars, wasapiVars, Wasapi!vars

\* Whichever kind of device it is, stop() returns to silence: no render thread is
\* left, and no client or PCM that could still play.
THEOREM DevicesStopSilently == DevicesSpec => DevicesFallSilent
<1>1. DevicesInv /\ [DevicesNext]_devicesVars =>
        /\ [\A c \in Control :
              cpc[c] = "stopJoin" /\ cpc'[c] = "idle" => \A t \in Thread : ~Live(t)']_vars
        /\ [\A c \in NullControl : nullCpc[c] = "stopJoin" /\ nullCpc'[c] = "idle"
                                     => \A t \in Thread : ~Null!Live(t)']_(Null!vars)
        /\ [wCaller = "joining" /\ wCaller' = "idle" => wPc = "ended" /\ held = {}]_(Wasapi!vars)
        /\ [aCaller = "joining" /\ aCaller' = "idle" => aPc = "ended" /\ pcm = "none"]_(Alsa!vars)
  BY DevicesStep, SameVars, StepStopIsSilence, NullStepStopIsSilence, WasapiStepStopIsSilence,
     AlsaStepStopIsSilence
  DEF DevicesInv
<1> QED
  BY <1>1, DevicesInvAlways, PTL
  DEF DevicesSpec, devicesVars, DevicesFallSilent, StopIsSilence, Null!StopIsSilence,
      Wasapi!StopIsSilence, Alsa!StopIsSilence

\* Every kind of device keeps the contract of AudioDevice: a callback only between
\* a start() and the end of its stream, never replaced under it; once a callback
\* has stopped its own device, no other block of the null device and no other
\* chunk, buffer or period of a hardware device; and nothing of a period whose
\* write failed.
THEOREM DevicesAreAudioDevices == DevicesSpec => DevicesKeepContract
<1>1. DevicesInit => /\ Contract!Init /\ Null!Contract!Init
                     /\ Wasapi!Contract!Init /\ Alsa!Contract!Init
  BY ContractInit, NullContractInit
  DEF DevicesInit, Wasapi!Init, Wasapi!Contract!Init, Wasapi!Stream, Alsa!Init,
      Alsa!Contract!Init, Alsa!Stream
<1>2. DevicesInv /\ [DevicesNext]_devicesVars =>
        /\ [Contract!Next]_Contract!vars
        /\ [callback' # callback => \A t \in Thread : ~Live(t)]_vars
        /\ [\A t \in Thread : rpc[t] = "stream" /\ rpc'[t] = "chunk" => ~stoppedItself]_vars
  BY DevicesStep, StepContract, StepCallbackIsStable, StepUnwinds DEF DevicesInv
<1>3. DevicesInv /\ [DevicesNext]_devicesVars =>
        /\ [Null!Contract!Next]_(Null!Contract!vars)
        /\ [nullCallback' # nullCallback => \A t \in Thread : ~Null!Live(t)]_(Null!vars)
        /\ [\A t \in Thread :
              nullRpc[t] # "callback" /\ nullRpc'[t] = "callback" => ~nullStoppedItself]_(Null!vars)
  BY DevicesStep, SameVars, NullStepContract, NullStepStable, NullStepUnwinds DEF DevicesInv
<1>4. DevicesInv /\ [DevicesNext]_devicesVars =>
        /\ [Wasapi!Contract!Next]_(Wasapi!Contract!vars)
        /\ [wPc # "wait" /\ wPc' = "wait" => Wasapi!Stream = "on"]_(Wasapi!vars)
  BY DevicesStep, SameVars, WasapiStepContract DEF DevicesInv, RunningType
<1>5. DevicesInv /\ [DevicesNext]_devicesVars =>
        /\ [Alsa!Contract!Next]_(Alsa!Contract!vars)
        /\ [aPc # "write" /\ aPc' = "write" => Alsa!Stream = "on"]_(Alsa!vars)
        /\ [aPc = "write" /\ remaining' < remaining => ~broken]_(Alsa!vars)
  BY DevicesStep, SameVars, AlsaStepContract, AlsaStepOnTime DEF DevicesInv, RunningType
<1>6. DevicesSpec => KeepsContract
  BY <1>1, <1>2, DevicesInvAlways, PTL
  DEF DevicesSpec, devicesVars, KeepsContract, Contract!Spec, CallbackIsStable, UnwindsWithTheChunk
<1>7. DevicesSpec => Null!KeepsContract
  BY <1>1, <1>3, DevicesInvAlways, PTL
  DEF DevicesSpec, devicesVars, Null!KeepsContract, Null!Contract!Spec, Null!CallbackIsStable,
      Null!UnwindsAfterCurrentBlock
<1>8. DevicesSpec => Wasapi!KeepsContract
  BY <1>1, <1>4, DevicesInvAlways, PTL
  DEF DevicesSpec, devicesVars, Wasapi!KeepsContract, Wasapi!Contract!Spec
<1>9. DevicesSpec => Alsa!KeepsContract /\ Alsa!NothingIsLate
  BY <1>1, <1>5, DevicesInvAlways, PTL
  DEF DevicesSpec, devicesVars, Alsa!KeepsContract, Alsa!Contract!Spec, Alsa!NothingIsLate
<1> QED
  BY <1>6, <1>7, <1>8, <1>9, PTL DEF DevicesKeepContract
=============================================================================
