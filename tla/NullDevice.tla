----------------------------- MODULE NullDevice -----------------------------
(***************************************************************************)
(* The device without hardware (src/sa-device/src/NullAudioDevice.cpp):    *)
(* start() creates a thread that calls the callback once per pass of its   *)
(* loop, stop() ends it.  There is no handshake and no stream to rebuild.  *)
(* Pacing is a bounded sleep inside the pass and is left out.              *)
(***************************************************************************)

CONSTANTS
  Control,   \* the threads that may call start() and stop()
  Thread,    \* names for render threads; a joined one is used again
  None       \* no thread, no lock holder, no callback: neither of the above

VARIABLES
  running,       \* running_
  lifecycle,     \* the control thread that holds lifecycle_, or None
  handle,        \* the thread thread_ would join, or None
  callback,      \* callback_: the control thread whose start() installed it
  cpc,           \* where each control thread is in start() or stop()
  rpc,           \* where each render thread is in renderLoop()
  stoppedItself  \* history: the callback has called stop() in this run

vars == <<running, lifecycle, handle, callback, cpc, rpc, stoppedItself>>

Init ==
  /\ running = FALSE
  /\ lifecycle = None
  /\ handle = None
  /\ callback = None
  /\ cpc = [c \in Control |-> "idle"]
  /\ rpc = [t \in Thread |-> "none"]
  /\ stoppedItself = FALSE

Live(t) == rpc[t] \notin {"none", "done"}

Goto(c, pc) == cpc' = [cpc EXCEPT ![c] = pc]
Step(t, pc) == rpc' = [rpc EXCEPT ![t] = pc]
Lock(c) == lifecycle = None /\ lifecycle' = c
Return(c) == lifecycle' = None /\ Goto(c, "idle")

Joins ==
  /\ handle # None => rpc[handle] = "done"
  /\ handle' = None
  /\ rpc' = IF handle = None THEN rpc ELSE [rpc EXCEPT ![handle] = "none"]
-----------------------------------------------------------------------------
(* start(callback); a call that finds the device running is refused.       *)

StartLock(c) ==
  /\ cpc[c] = "idle"
  /\ ~running
  /\ Lock(c)
  /\ Goto(c, "startJoin")
  /\ UNCHANGED <<running, handle, callback, rpc, stoppedItself>>

\* A bug: the thread of a callback that stopped its own device is not waited for.
StartJoin_NoWait(c) ==
  /\ cpc[c] = "startJoin"
  /\ handle' = None
  /\ Goto(c, "launch")
  /\ UNCHANGED <<running, lifecycle, callback, rpc, stoppedItself>>

StartJoin(c) ==
  /\ cpc[c] = "startJoin"
  /\ Joins
  /\ Goto(c, "launch")
  /\ UNCHANGED <<running, lifecycle, callback, stoppedItself>>

StartLaunch(c) ==
  /\ cpc[c] = "launch"
  /\ callback' = c
  /\ running' = TRUE
  /\ stoppedItself' = FALSE
  /\ Goto(c, "spawn")
  /\ UNCHANGED <<lifecycle, handle, rpc>>

StartSpawn(c) ==
  /\ cpc[c] = "spawn"
  /\ \E t \in Thread : rpc[t] = "none" /\ Step(t, "loop") /\ handle' = t
  /\ Return(c)
  /\ UNCHANGED <<running, callback, stoppedItself>>

StartSpawnFails(c) ==
  /\ cpc[c] = "spawn"
  /\ running' = FALSE
  /\ callback' = None
  /\ Return(c)
  /\ UNCHANGED <<handle, rpc, stoppedItself>>
-----------------------------------------------------------------------------
(* stop(), from a control thread.                                          *)

StopRequest(c) ==
  /\ cpc[c] = "idle"
  /\ running' = FALSE
  /\ Goto(c, "stopLock")
  /\ UNCHANGED <<lifecycle, handle, callback, rpc, stoppedItself>>

StopLock(c) ==
  /\ cpc[c] = "stopLock"
  /\ Lock(c)
  /\ Goto(c, "stopJoin")
  /\ UNCHANGED <<running, handle, callback, rpc, stoppedItself>>

StopJoin(c) ==
  /\ cpc[c] = "stopJoin"
  /\ Joins
  /\ Return(c)
  /\ UNCHANGED <<running, callback, stoppedItself>>
-----------------------------------------------------------------------------
(* renderLoop().                                                           *)

\* A bug: the flag is looked at once and not again.
RenderLoop_Forever(t) ==
  /\ rpc[t] = "loop"
  /\ Step(t, "wait")
  /\ UNCHANGED <<running, lifecycle, handle, callback, cpc, stoppedItself>>

RenderLoop(t) ==
  /\ rpc[t] = "loop"
  /\ Step(t, IF running THEN "wait" ELSE "done")
  /\ UNCHANGED <<running, lifecycle, handle, callback, cpc, stoppedItself>>

\* The sleep until the deadline is over.
CallbackBegins(t) ==
  /\ rpc[t] = "wait"
  /\ Step(t, "callback")
  /\ UNCHANGED <<running, lifecycle, handle, callback, cpc, stoppedItself>>

CallbackStops(t) ==
  /\ rpc[t] = "callback"
  /\ running' = FALSE
  /\ stoppedItself' = TRUE
  /\ UNCHANGED <<lifecycle, handle, callback, cpc, rpc>>

CallbackEnds(t) ==
  /\ rpc[t] = "callback"
  /\ Step(t, "loop")
  /\ UNCHANGED <<running, lifecycle, handle, callback, cpc, stoppedItself>>
-----------------------------------------------------------------------------
ControlStep(c) ==
  \/ StartJoin(c) \/ StartLaunch(c) \/ StartSpawn(c) \/ StartSpawnFails(c)
  \/ StopLock(c) \/ StopJoin(c)

RenderStep(t) == RenderLoop(t) \/ CallbackBegins(t) \/ CallbackEnds(t)

Next ==
  \/ \E c \in Control : StartLock(c) \/ StopRequest(c) \/ ControlStep(c)
  \/ \E t \in Thread : RenderStep(t) \/ CallbackStops(t)

Spec == Init /\ [][Next]_vars

\* Calls go on once begun, and so does the loop: the sleep and the callback
\* come to an end.
Fairness ==
  /\ \A c \in Control : WF_vars(ControlStep(c))
  /\ \A t \in Thread : WF_vars(RenderStep(t))

FairSpec == Spec /\ Fairness
-----------------------------------------------------------------------------
(* Properties.                                                             *)

\* Every variable keeps its type, and a thread exists exactly while thread_
\* can join it.
TypeOK ==
  /\ running \in BOOLEAN /\ stoppedItself \in BOOLEAN
  /\ lifecycle \in Control \cup {None}
  /\ handle \in Thread \cup {None}
  /\ callback \in Control \cup {None}
  /\ cpc \in [Control -> {"idle", "startJoin", "launch", "spawn", "stopLock", "stopJoin"}]
  /\ rpc \in [Thread -> {"none", "loop", "wait", "callback", "done"}]
  /\ \A t \in Thread : (rpc[t] # "none") = (handle = t)

\* The callback is never replaced or cleared while a thread lives that calls it.
CallbackIsStable == [][callback' # callback => \A t \in Thread : ~Live(t)]_vars

\* When stop() returns, no thread is left that could run the callback.
StopIsSilence ==
  [][\A c \in Control :
       cpc[c] = "stopJoin" /\ cpc'[c] = "idle" => \A t \in Thread : ~Live(t)']_vars

\* A callback that stops its own device is not called for another block
\* ("The thread unwinds after the current block", AudioDevice.h).
UnwindsAfterCurrentBlock ==
  [][\A t \in Thread : rpc[t] # "callback" /\ rpc'[t] = "callback" => ~stoppedItself]_vars

Stream ==
  IF \A t \in Thread : ~Live(t) THEN "off" ELSE IF running THEN "on" ELSE "unwinding"
InCallback == \E t \in Thread : rpc[t] = "callback"

Contract == INSTANCE AudioDevice WITH stream <- Stream, inCallback <- InCallback

\* The device keeps the contract of AudioDevice, under any number of callers.
KeepsContract == Contract!Spec /\ CallbackIsStable /\ UnwindsAfterCurrentBlock

\* A start() returns even when another thread is asking for a stop at the same
\* time: the thread it has to join is always one that unwinds.
StartReturns == \A c \in Control : cpc[c] = "startJoin" ~> cpc[c] = "idle"
=============================================================================
