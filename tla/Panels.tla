-------------------------------- MODULE Panels --------------------------------
(* The two panels that analyse in the background (sa-ui): LoudnessPanel and  *)
(* AnalysisPanel.                                                            *)
EXTENDS Naturals, Sequences

CONSTANT None   \* the value of a pointer or an optional that holds nothing

\* It is told from every number that takes its place.
ASSUME AbsenceAssumption == None \notin Nat
-------------------------------------------------------------------------------
(* The meters' panel: one worker that streams a range through the meters,    *)
(* and a window thread that stops the worker and waits for it before it      *)
(* starts another. A result crosses three checks of the generation: when the *)
(* worker has it, under the mutex of the session, and when the window takes  *)
(* it up.                                                                    *)

CONSTANTS MeterBlocks,      \* blocks in a measured range
          MaxMeterCalls     \* bound on measure() and clear() calls

ASSUME MetersAssumption == MeterBlocks \in Nat /\ MaxMeterCalls \in Nat

VARIABLES meterGeneration,  \* Session::generation
          meterPanel,       \* Session::panel is not null
          meterMutex,       \* Session::mutex is held
          meterThread,      \* worker_, or None when it is not joinable
          meterCancelled,   \* cancellation_
          meterQueue,       \* results posted to the window's event loop
          meterBusy, meterLatest,
          meterCall         \* the call the window is inside of, or None

meterVars == <<meterGeneration, meterPanel, meterMutex, meterThread, meterCancelled,
               meterQueue, meterBusy, meterLatest, meterCall>>

MetersInit == /\ meterGeneration = 0 /\ meterPanel = TRUE /\ meterMutex = FALSE
              /\ meterThread = None /\ meterCancelled = FALSE /\ meterQueue = <<>>
              /\ meterBusy = FALSE /\ meterLatest = None /\ meterCall = None
-------------------------------------------------------------------------------
(* The window's thread. Each call begins by raising the generation and         *)
(* cancelling, waits for the worker, and then does what it was called for.     *)

Calls == {"measure", "measureNothing", "clear", "destroy"}

\* generation.fetch_add(1) and the cancel() of stopWorker.
beginCall(call) ==
  /\ meterCall = None /\ meterPanel
  /\ meterGeneration < MaxMeterCalls
  /\ meterGeneration' = meterGeneration + 1
  /\ meterCancelled' = TRUE
  /\ meterCall' = [name |-> call, stopped |-> FALSE]
  /\ UNCHANGED <<meterPanel, meterMutex, meterThread, meterQueue, meterBusy, meterLatest>>

\* The join of stopWorker, which blocks the window, and the token's reset.
stopWorker ==
  /\ meterCall # None /\ ~meterCall.stopped
  /\ meterThread # None => meterThread.stage = "exited"
  /\ meterThread' = None /\ meterCancelled' = FALSE
  /\ meterCall' = [meterCall EXCEPT !.stopped = TRUE]
  /\ UNCHANGED <<meterGeneration, meterPanel, meterMutex, meterQueue, meterBusy, meterLatest>>

Inside(names) == meterCall # None /\ meterCall.stopped /\ meterCall.name \in names

measure ==
  /\ Inside({"measure"})
  /\ meterThread' = [mine |-> meterGeneration, stage |-> "stream", done |-> 0, ok |-> FALSE]
  /\ meterBusy' = TRUE /\ meterCall' = None
  /\ UNCHANGED <<meterGeneration, meterPanel, meterMutex, meterCancelled, meterQueue, meterLatest>>

\* resetLabels: for a cleared panel, and for a range with nothing in it.
resetLabels ==
  /\ Inside({"measureNothing", "clear"})
  /\ meterBusy' = FALSE /\ meterLatest' = None /\ meterCall' = None
  /\ UNCHANGED <<meterGeneration, meterPanel, meterMutex, meterThread, meterCancelled, meterQueue>>

\* The destructor's last act; what is still queued for a dead object is dropped.
destroyMeters ==
  /\ Inside({"destroy"}) /\ ~meterMutex
  /\ meterPanel' = FALSE /\ meterQueue' = <<>> /\ meterCall' = None
  /\ UNCHANGED <<meterGeneration, meterMutex, meterThread, meterCancelled, meterBusy, meterLatest>>

Accepts(mine) == meterGeneration = mine

deliverMeasurement ==
  /\ meterCall = None /\ meterQueue # <<>>
  /\ meterQueue' = Tail(meterQueue)
  /\ IF Accepts(Head(meterQueue).mine)
     THEN /\ meterBusy' = FALSE
          /\ meterLatest' = IF Head(meterQueue).ok THEN Head(meterQueue) ELSE None
     ELSE UNCHANGED <<meterBusy, meterLatest>>
  /\ UNCHANGED <<meterGeneration, meterPanel, meterMutex, meterThread, meterCancelled, meterCall>>
-------------------------------------------------------------------------------
(* The worker. *)

WorkerAt(stage) == meterThread # None /\ meterThread.stage = stage

\* A block through the meters, or the end: of the range, of what can be read,
\* or of the patience of whoever asked. Only a cancelled run reports failure
\* with blocks behind it.
measureStreaming ==
  /\ WorkerAt("stream")
  /\ \/ /\ meterThread.done < MeterBlocks /\ ~meterCancelled
        /\ meterThread' = [meterThread EXCEPT !.done = @ + 1]
     \/ /\ meterThread.done < MeterBlocks /\ meterCancelled
        /\ meterThread' = [meterThread EXCEPT !.stage = "check"]
     \/ /\ meterThread.done = MeterBlocks \/ ~meterCancelled
        /\ meterThread' = [meterThread EXCEPT !.stage = "check", !.ok = meterThread.done > 0]
  /\ UNCHANGED <<meterGeneration, meterPanel, meterMutex, meterCancelled, meterQueue, meterBusy,
                 meterLatest, meterCall>>

checkMeasured ==
  /\ WorkerAt("check")
  /\ meterThread' = [meterThread EXCEPT !.stage =
                       IF meterGeneration = meterThread.mine THEN "lock" ELSE "exited"]
  /\ UNCHANGED <<meterGeneration, meterPanel, meterMutex, meterCancelled, meterQueue, meterBusy,
                 meterLatest, meterCall>>

lockSession ==
  /\ WorkerAt("lock") /\ ~meterMutex
  /\ meterMutex' = TRUE
  /\ meterThread' = [meterThread EXCEPT !.stage = "locked"]
  /\ UNCHANGED <<meterGeneration, meterPanel, meterCancelled, meterQueue, meterBusy, meterLatest,
                 meterCall>>

postMeasurement ==
  /\ WorkerAt("locked")
  /\ meterQueue' = IF meterPanel /\ meterGeneration = meterThread.mine
                   THEN Append(meterQueue, [mine |-> meterThread.mine, ok |-> meterThread.ok,
                                            done |-> meterThread.done])
                   ELSE meterQueue
  /\ meterMutex' = FALSE
  /\ meterThread' = [meterThread EXCEPT !.stage = "exited"]
  /\ UNCHANGED <<meterGeneration, meterPanel, meterCancelled, meterBusy, meterLatest, meterCall>>

MeterWorker == measureStreaming \/ checkMeasured \/ lockSession \/ postMeasurement
MeterWindow == stopWorker \/ measure \/ resetLabels \/ destroyMeters \/ deliverMeasurement

MetersNext == (\E call \in Calls : beginCall(call)) \/ MeterWindow \/ MeterWorker

\* The worker runs, a call the window has begun goes on, and the event loop
\* delivers what is posted. Nobody has to call.
MetersFairness == WF_meterVars(MeterWorker) /\ WF_meterVars(MeterWindow)
-------------------------------------------------------------------------------
\* The panel's state read as a question and an answer: see LatestAnswer.
Meters == INSTANCE LatestAnswer WITH
            Requests <- 1..MaxMeterCalls,
            asked <- IF meterBusy THEN meterGeneration ELSE None,
            shown <- IF meterLatest = None THEN None ELSE meterLatest.mine

\* A result that reached the panel is of a run nobody cancelled half way.
MetersShowWholeRuns == meterLatest # None => meterLatest.ok
-------------------------------------------------------------------------------
(* The panel of the musical analysis. Its analyses run to completion once    *)
(* started, so the window never waits for a worker: a superseded one is      *)
(* cancelled and set aside, joined by a later call once it has raised its    *)
(* flag, or by the destructor. Several runs are therefore alive at once.     *)

CONSTANTS MaxAnalysisCalls, \* bound on analyse() and clear() calls
          Wants             \* the requests: sets of optional stages

Order == <<"key", "tempo", "bands", "pitch", "room">>

AnalysisRun == [stage : {"read", "analyse", "check", "lock", "locked", "exited"},
                cancelled : BOOLEAN, wants : Wants, read : BOOLEAN,
                ran : SUBSET {Order[i] : i \in DOMAIN Order}]

ASSUME AnalysisAssumption ==
  /\ MaxAnalysisCalls \in Nat /\ Wants \subseteq SUBSET {"pitch", "room"}
  /\ None \notin AnalysisRun \cup {"join", "lock", "gone"}

VARIABLES generation, panel,     \* Session: generation, panel is not null
          mutex,                 \* Session::mutex is held
          handle,                \* worker_: the run it belongs to, or None
          retired,               \* the runs set aside
          run,                   \* each run, by the generation it was started at
          queue, busy, latest,
          closing                \* how far the destructor is, or None

musicalVars == <<generation, panel, mutex, handle, retired, run, queue, busy, latest, closing>>

Runs == 1..MaxAnalysisCalls

MusicalInit == /\ generation = 0 /\ panel = TRUE /\ mutex = FALSE
               /\ handle = None /\ retired = {} /\ run = [r \in Runs |-> None]
               /\ queue = <<>> /\ busy = FALSE /\ latest = None /\ closing = None
-------------------------------------------------------------------------------
Stages(wants) == {"key", "tempo", "bands"} \cup wants

At(r, stage) == run[r] # None /\ run[r].stage = stage
Finished(r) == At(r, "exited")

\* retireWorker cancels the current run's token.
CancelledRuns == [r \in Runs |-> IF r = handle THEN [run[r] EXCEPT !.cancelled = TRUE] ELSE run[r]]

\* retireWorker and sweepRetired: every run set aside that has raised its flag
\* is joined, and the current one joins them unless it has too.
SetAside == {r \in retired \cup ({handle} \ {None}) : ~Finished(r)}

Idle == panel /\ closing = None

clearMusical ==
  /\ Idle /\ generation < MaxAnalysisCalls
  /\ generation' = generation + 1
  /\ run' = CancelledRuns /\ retired' = SetAside /\ handle' = None
  /\ busy' = FALSE /\ latest' = None
  /\ UNCHANGED <<panel, mutex, queue, closing>>

analyse(wants) ==
  /\ Idle /\ generation < MaxAnalysisCalls
  /\ generation' = generation + 1
  /\ retired' = SetAside /\ handle' = generation'
  /\ run' = [CancelledRuns EXCEPT ![generation'] =
               [stage |-> "read", cancelled |-> FALSE, wants |-> wants, read |-> FALSE, ran |-> {}]]
  /\ busy' = TRUE
  /\ UNCHANGED <<panel, mutex, queue, latest, closing>>

\* Mutant: the event is not checked again on the window's thread.
AcceptsRun_Always(r) == r \in Runs

AcceptsRun(r) == generation = r

deliverAnalysis ==
  /\ Idle /\ queue # <<>>
  /\ queue' = Tail(queue)
  /\ IF AcceptsRun(Head(queue).mine)
     THEN busy' = FALSE /\ latest' = Head(queue)
     ELSE UNCHANGED <<busy, latest>>
  /\ UNCHANGED <<generation, panel, mutex, handle, retired, run, closing>>

\* The destructor: discard and cancel, wait for every run, then take the
\* pointer away under the mutex.
beginDestroy ==
  /\ Idle /\ generation < MaxAnalysisCalls
  /\ generation' = generation + 1
  /\ run' = CancelledRuns /\ handle' = None
  /\ retired' = {r \in retired \cup ({handle} \ {None}) : r # handle \/ ~Finished(r)}
  /\ closing' = "join"
  /\ UNCHANGED <<panel, mutex, queue, busy, latest>>

joinAll ==
  /\ closing = "join" /\ \A r \in retired : Finished(r)
  /\ retired' = {} /\ closing' = "lock"
  /\ UNCHANGED <<generation, panel, mutex, handle, run, queue, busy, latest>>

destroyPanel ==
  /\ closing = "lock" /\ ~mutex
  /\ panel' = FALSE /\ queue' = <<>> /\ closing' = "gone"
  /\ UNCHANGED <<generation, mutex, handle, retired, run, busy, latest>>
-------------------------------------------------------------------------------
(* A run. *)

readBlocks(r) ==
  /\ At(r, "read")
  /\ \/ ~run[r].cancelled /\ run' = [run EXCEPT ![r].stage = "analyse", ![r].read = TRUE]
     \/ ~run[r].cancelled /\ run' = [run EXCEPT ![r].stage = "check"]      \* nothing to read
     \/ /\ run[r].cancelled
        /\ \E some \in BOOLEAN : run' = [run EXCEPT ![r].stage = "check", ![r].read = some]
  /\ UNCHANGED <<generation, panel, mutex, handle, retired, queue, busy, latest, closing>>

\* One analysis, run to its end; whether to go on is asked after each.
analyseBuffer(r) ==
  /\ At(r, "analyse")
  /\ LET wanted == Stages(run[r].wants) \ run[r].ran IN
     \E i \in DOMAIN Order :
       /\ Order[i] \in wanted /\ \A j \in 1..(i - 1) : Order[j] \notin wanted
       /\ run' = [run EXCEPT ![r].ran = @ \cup {Order[i]},
                             ![r].stage = IF run[r].cancelled \/ wanted = {Order[i]}
                                          THEN "check" ELSE @]
  /\ UNCHANGED <<generation, panel, mutex, handle, retired, queue, busy, latest, closing>>

checkRun(r) ==
  /\ At(r, "check")
  /\ run' = [run EXCEPT ![r].stage = IF generation = r THEN "lock" ELSE "exited"]
  /\ UNCHANGED <<generation, panel, mutex, handle, retired, queue, busy, latest, closing>>

lockPanel(r) ==
  /\ At(r, "lock") /\ ~mutex
  /\ mutex' = TRUE /\ run' = [run EXCEPT ![r].stage = "locked"]
  /\ UNCHANGED <<generation, panel, handle, retired, queue, busy, latest, closing>>

\* The flag that lets the window join without waiting is raised on every way out.
postAnalysis(r) ==
  /\ At(r, "locked")
  /\ queue' = IF panel /\ generation = r
              THEN Append(queue, [mine |-> r, read |-> run[r].read, ran |-> run[r].ran,
                                  wants |-> run[r].wants])
              ELSE queue
  /\ mutex' = FALSE /\ run' = [run EXCEPT ![r].stage = "exited"]
  /\ UNCHANGED <<generation, panel, handle, retired, busy, latest, closing>>

Works(r) == readBlocks(r) \/ analyseBuffer(r) \/ checkRun(r) \/ lockPanel(r) \/ postAnalysis(r)
PanelWindow == deliverAnalysis \/ joinAll \/ destroyPanel

MusicalNext == \/ clearMusical \/ beginDestroy \/ (\E w \in Wants : analyse(w))
               \/ PanelWindow
               \/ \E r \in Runs : Works(r)

MusicalFairness == /\ \A r \in Runs : WF_musicalVars(Works(r))
                   /\ WF_musicalVars(PanelWindow)
-------------------------------------------------------------------------------
\* The panel's state read as a question and an answer: see LatestAnswer.
Musical == INSTANCE LatestAnswer WITH
             Requests <- 1..MaxAnalysisCalls,
             asked <- IF busy THEN generation ELSE None,
             shown <- IF latest = None THEN None ELSE latest.mine

\* An analysis on screen ran every stage that was asked for, or had nothing to
\* read: the partial result of a cancelled run never gets there.
AnalysesAreWhole == latest # None => latest.ran = IF latest.read THEN Stages(latest.wants) ELSE {}

\* Once the panel is gone no worker of it is left, set aside or not.
NoRunOutlivesThePanel == ~panel => \A r \in Runs : run[r] = None \/ Finished(r)
===============================================================================
