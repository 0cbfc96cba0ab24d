---------------------------- MODULE WorkersProofs ----------------------------
(***************************************************************************)
(* For any number of calls, requests, documents and gestures: the meters,  *)
(* the musical analysis and the spectrogram show the latest answer, whole; *)
(* their workers end before whoever owns them; and the window tells the    *)
(* truth about playing and normalises what it measured.                    *)
(*                                                                         *)
(* The three workers rest on the same argument.  A run is named by the     *)
(* generation it was started at.  It posts at most one result, so the      *)
(* results on their way are distinct; none is of a generation that has not *)
(* begun; and one of the generation that counts is on its way, or will be, *)
(* only while the owner is waiting for it.  Raising the generation         *)
(* therefore disowns every result at once, and delivering one of the       *)
(* current generation leaves none that could be delivered after it.        *)
(***************************************************************************)
EXTENDS MCWorkers, SequenceTheorems, TLAPS

\* The results in a queue, and the generations they are of.
Items(q) == {q[i] : i \in 1..Len(q)}
Mines(q) == {e.mine : e \in Items(q)}
Distinct(q) == \A i, j \in 1..Len(q) : q[i].mine = q[j].mine => i = j

LEMMA PostItem ==
  ASSUME NEW S, NEW q \in Seq(S), NEW e \in S, Distinct(q), e.mine \notin Mines(q)
  PROVE  /\ Append(q, e) \in Seq(S)
         /\ Items(Append(q, e)) = Items(q) \cup {e}
         /\ Mines(Append(q, e)) = Mines(q) \cup {e.mine}
         /\ Distinct(Append(q, e))
<1> DEFINE r == Append(q, e)
<1>1. r \in Seq(S) /\ Len(r) = Len(q) + 1 /\ Len(q) \in Nat
      /\ (\A i \in 1..Len(q) : r[i] = q[i]) /\ r[Len(q) + 1] = e
  OBVIOUS
<1>2. \A i \in 1..Len(q) : q[i].mine # e.mine
  BY DEF Mines, Items
<1> HIDE DEF r
<1>3. 1..Len(r) = 1..Len(q) \cup {Len(q) + 1}
  BY <1>1
<1>4. Items(r) = Items(q) \cup {e}
  BY <1>1, <1>3 DEF Items
<1>5. Mines(r) = Mines(q) \cup {e.mine}
  BY <1>4 DEF Mines
<1>6. Distinct(r)
  BY <1>1, <1>2, <1>3 DEF Distinct
<1> QED
  BY <1>1, <1>4, <1>5, <1>6 DEF r

LEMMA TakeItem ==
  ASSUME NEW S, NEW q \in Seq(S), q # <<>>, Distinct(q)
  PROVE  /\ Tail(q) \in Seq(S) /\ Head(q) \in S
         /\ Head(q) \in Items(q) /\ Head(q).mine \in Mines(q)
         /\ Items(Tail(q)) \subseteq Items(q)
         /\ Mines(Tail(q)) \subseteq Mines(q) \ {Head(q).mine}
         /\ Distinct(Tail(q))
<1> DEFINE r == Tail(q)
<1>1. r \in Seq(S) /\ Len(r) = Len(q) - 1 /\ Len(q) \in Nat \ {0}
      /\ (\A i \in 1..Len(r) : r[i] = q[i + 1]) /\ Head(q) = q[1] /\ q[1] \in S
  OBVIOUS
<1> HIDE DEF r
<1>2. \A i \in 1..Len(r) : i + 1 \in 1..Len(q) /\ r[i] = q[i + 1] /\ i + 1 # 1
  BY <1>1
<1>3. 1 \in 1..Len(q)
  BY <1>1
<1>4. Items(r) \subseteq Items(q) /\ Head(q) \in Items(q)
  BY <1>1, <1>2, <1>3 DEF Items
<1>5. Mines(r) \subseteq Mines(q) /\ Head(q).mine \in Mines(q)
  BY <1>4 DEF Mines
<1>6. Head(q).mine \notin Mines(r)
  <2>1. \A i \in 1..Len(r) : r[i].mine # q[1].mine
    BY <1>2, <1>3 DEF Distinct
  <2> QED
    BY <1>1, <2>1 DEF Mines, Items
<1>7. Distinct(r)
  <2> SUFFICES ASSUME NEW i \in 1..Len(r), NEW j \in 1..Len(r), r[i].mine = r[j].mine PROVE i = j
    BY DEF Distinct
  <2>1. i + 1 = j + 1
    BY <1>2 DEF Distinct
  <2> QED
    BY <2>1
<1> QED
  BY <1>1, <1>4, <1>5, <1>6, <1>7 DEF r

LEMMA NoItems ==
  ASSUME NEW S PROVE <<>> \in Seq(S) /\ Items(<<>>) = {} /\ Mines(<<>>) = {} /\ Distinct(<<>>)
BY DEF Items, Mines, Distinct
-----------------------------------------------------------------------------
(* The meters.                                                             *)

MeterRun == [mine : 1..MaxMeterCalls, stage : {"stream", "check", "lock", "locked", "exited"},
             done : Nat, ok : BOOLEAN]
MeterResult == [mine : 1..MaxMeterCalls, ok : BOOLEAN, done : Nat]

MeterRuns == meterThread # None /\ meterThread.stage # "exited"

\* A result of the generation that counts is on its way, or will be.
MeterAwaited ==
  \/ meterGeneration \in Mines(meterQueue)
  \/ MeterRuns /\ meterThread.mine = meterGeneration

MetersInv ==
  /\ meterGeneration \in 0..MaxMeterCalls /\ meterBusy \in BOOLEAN
  /\ meterThread # None => meterThread \in MeterRun
  /\ meterQueue \in Seq(MeterResult) /\ Distinct(meterQueue)
  /\ Mines(meterQueue) \subseteq 1..meterGeneration
  /\ MeterRuns => meterThread.mine <= meterGeneration /\ meterThread.mine \notin Mines(meterQueue)
  /\ meterCall # None => meterGeneration >= 1
  /\ MeterAwaited => meterCall = None /\ meterBusy
  /\ MetersShowWholeRuns

LEMMA MetersInitInv == MetersInit => MetersInv
<1> SUFFICES ASSUME MetersInit PROVE MetersInv
  OBVIOUS
<1>1. /\ meterQueue \in Seq(MeterResult) /\ Distinct(meterQueue) /\ Mines(meterQueue) = {}
  BY NoItems DEF MetersInit
<1>2. ~MeterRuns /\ ~MeterAwaited
  BY <1>1 DEF MetersInit, MeterRuns, MeterAwaited
<1>3. 0 \in 0..MaxMeterCalls
  BY MetersAssumption
<1> QED
  BY <1>1, <1>2, <1>3 DEF MetersInit, MetersInv, MetersShowWholeRuns, MeterRuns

LEMMA MetersStepInv == MetersInv /\ [MetersNext]_meterVars => MetersInv'
<1> SUFFICES ASSUME MetersInv, [MetersNext]_meterVars PROVE MetersInv'
  OBVIOUS
<1> USE MetersAssumption DEF MetersInv, MeterRuns, MeterAwaited
<1>1. CASE UNCHANGED meterVars
  BY <1>1 DEF meterVars, MetersShowWholeRuns
<1>2. ASSUME NEW call \in Calls, beginCall(call) PROVE MetersInv'
  <2>1. /\ meterGeneration' = meterGeneration + 1 /\ meterGeneration < MaxMeterCalls
        /\ UNCHANGED <<meterThread, meterQueue, meterBusy, meterLatest>>
    BY <1>2 DEF beginCall
  <2>2. /\ meterGeneration' \in 0..MaxMeterCalls /\ meterGeneration' >= 1
        /\ meterGeneration' \notin Mines(meterQueue) /\ Mines(meterQueue) \subseteq 1..meterGeneration'
    BY <2>1
  <2>3. MeterRuns => meterThread.mine \in Nat /\ meterThread.mine < meterGeneration'
    BY <2>1 DEF MeterRun
  <2> QED
    BY <2>1, <2>2, <2>3 DEF MetersShowWholeRuns
<1>3. CASE stopWorker
  BY <1>3 DEF stopWorker, MetersShowWholeRuns
<1>4. CASE measure
  <2>1. meterThread' \in MeterRun
    BY <1>4 DEF measure, Inside, MeterRun
  <2> QED
    BY <1>4, <2>1 DEF measure, Inside, MetersShowWholeRuns
<1>5. CASE resetLabels
  BY <1>5 DEF resetLabels, Inside, MetersShowWholeRuns
<1>6. CASE destroyMeters
  BY <1>6, NoItems DEF destroyMeters, Inside, MetersShowWholeRuns
<1>7. CASE deliverMeasurement
  <2>1. /\ meterQueue' = Tail(meterQueue) /\ meterQueue # <<>>
        /\ UNCHANGED <<meterGeneration, meterThread, meterCall>>
    BY <1>7 DEF deliverMeasurement
  <2>2. /\ meterQueue' \in Seq(MeterResult) /\ Distinct(meterQueue')
        /\ Mines(meterQueue') \subseteq Mines(meterQueue) \ {Head(meterQueue).mine}
        /\ Head(meterQueue) \in MeterResult /\ Head(meterQueue).mine \in Mines(meterQueue)
    BY <2>1, TakeItem
  <2>3. CASE Accepts(Head(meterQueue).mine)
    <3>1. /\ meterBusy' = FALSE
          /\ meterLatest' = IF Head(meterQueue).ok THEN Head(meterQueue) ELSE None
      BY <1>7, <2>3 DEF deliverMeasurement
    <3>2. ~MeterAwaited'
      BY <2>1, <2>2, <2>3 DEF Accepts
    <3>3. MetersShowWholeRuns'
      BY <3>1 DEF MetersShowWholeRuns
    <3> QED
      BY <2>1, <2>2, <3>1, <3>2, <3>3
  <2>4. CASE ~Accepts(Head(meterQueue).mine)
    <3>1. UNCHANGED <<meterBusy, meterLatest>>
      BY <1>7, <2>4 DEF deliverMeasurement
    <3> QED
      BY <2>1, <2>2, <3>1 DEF MetersShowWholeRuns
  <2> QED
    BY <2>3, <2>4
<1>8. CASE measureStreaming \/ checkMeasured \/ lockSession
  <2>1. /\ MeterRuns /\ meterThread \in MeterRun
        /\ UNCHANGED <<meterGeneration, meterQueue, meterBusy, meterLatest, meterCall>>
    BY <1>8 DEF measureStreaming, checkMeasured, lockSession, WorkerAt
  <2>2. meterThread' \in MeterRun /\ meterThread'.mine = meterThread.mine
    <3>1. CASE measureStreaming
      <4>1. \/ meterThread' = [meterThread EXCEPT !.done = @ + 1]
            \/ meterThread' = [meterThread EXCEPT !.stage = "check"]
            \/ meterThread' = [meterThread EXCEPT !.stage = "check", !.ok = (meterThread.done > 0)]
        BY <3>1 DEF measureStreaming
      <4>2. meterThread.done + 1 \in Nat /\ (meterThread.done > 0) \in BOOLEAN
        BY <2>1 DEF MeterRun
      <4>3. CASE meterThread' = [meterThread EXCEPT !.done = @ + 1]
        BY <2>1, <4>2, <4>3 DEF MeterRun
      <4>4. CASE meterThread' = [meterThread EXCEPT !.stage = "check"]
        BY <2>1, <4>4 DEF MeterRun
      <4>5. CASE meterThread' = [meterThread EXCEPT !.stage = "check", !.ok = (meterThread.done > 0)]
        BY <2>1, <4>2, <4>5, Zenon DEF MeterRun
      <4> QED
        BY <4>1, <4>3, <4>4, <4>5
    <3>2. CASE checkMeasured \/ lockSession
      <4>1. \E stage \in {"lock", "exited", "locked"} :
              meterThread' = [meterThread EXCEPT !.stage = stage]
        BY <3>2 DEF checkMeasured, lockSession
      <4> QED
        BY <2>1, <4>1 DEF MeterRun
    <3> QED
      BY <1>8, <3>1, <3>2
  <2> QED
    BY <2>1, <2>2 DEF MetersShowWholeRuns
<1>9. CASE postMeasurement
  <2>1. /\ MeterRuns /\ meterThread \in MeterRun /\ meterThread.mine \notin Mines(meterQueue)
        /\ meterThread' = [meterThread EXCEPT !.stage = "exited"]
        /\ UNCHANGED <<meterGeneration, meterBusy, meterLatest, meterCall>>
    BY <1>9 DEF postMeasurement, WorkerAt
  <2>2. meterThread' \in MeterRun /\ meterThread'.stage = "exited"
    BY <2>1 DEF MeterRun
  <2> DEFINE result == [mine |-> meterThread.mine, ok |-> meterThread.ok, done |-> meterThread.done]
  <2>3. result \in MeterResult /\ result.mine = meterThread.mine
    BY <2>1 DEF MeterRun, MeterResult
  <2>4. \/ UNCHANGED meterQueue
        \/ /\ meterGeneration = meterThread.mine
           /\ meterQueue' = Append(meterQueue, result)
    BY <1>9 DEF postMeasurement
  <2>5. /\ meterQueue' \in Seq(MeterResult) /\ Distinct(meterQueue')
        /\ \/ UNCHANGED meterQueue
           \/ /\ meterGeneration = meterThread.mine
              /\ Mines(meterQueue') = Mines(meterQueue) \cup {meterGeneration}
    <3>1. CASE UNCHANGED meterQueue
      BY <3>1
    <3>2. CASE meterGeneration = meterThread.mine /\ meterQueue' = Append(meterQueue, result)
      <4> HIDE DEF result
      <4> QED
        BY <2>1, <2>3, <3>2, PostItem
    <3> QED
      BY <2>4, <3>1, <3>2
  <2>6. meterGeneration >= 1
    BY <2>1 DEF MeterRun
  <2> QED
    BY <2>1, <2>2, <2>5, <2>6 DEF MetersShowWholeRuns
<1> QED
  BY <1>1, <1>2, <1>3, <1>4, <1>5, <1>6, <1>7, <1>8, <1>9
  DEF MetersNext, MeterWindow, MeterWorker

\* The meters implement LatestAnswer.
MetersAsked == IF meterBusy THEN meterGeneration ELSE None
MetersShown == IF meterLatest = None THEN None ELSE meterLatest.mine

LEMMA MetersAnswerInit == MetersInit => Meters!Init
BY DEF MetersInit, Meters!Init

LEMMA MetersAnswerStep ==
  MetersInv /\ [MetersNext]_meterVars => [Meters!Next]_<<MetersAsked, MetersShown>>
<1> SUFFICES ASSUME MetersInv, [MetersNext]_meterVars
             PROVE  [Meters!Next]_<<MetersAsked, MetersShown>>
  OBVIOUS
<1>1. CASE UNCHANGED <<meterBusy, meterGeneration, meterLatest>>
  BY <1>1 DEF MetersAsked, MetersShown
<1>2. CASE \/ UNCHANGED meterVars \/ stopWorker \/ destroyMeters
           \/ measureStreaming \/ checkMeasured \/ lockSession \/ postMeasurement
  BY <1>1, <1>2 DEF meterVars, stopWorker, destroyMeters, measureStreaming, checkMeasured,
                    lockSession, postMeasurement
<1>3. ASSUME NEW call \in Calls, beginCall(call) PROVE [Meters!Next]_<<MetersAsked, MetersShown>>
  <2>1. /\ meterGeneration' \in 1..MaxMeterCalls /\ UNCHANGED <<meterBusy, meterLatest>>
    BY <1>3, MetersAssumption DEF beginCall, MetersInv
  <2>2. CASE meterBusy
    <3>1. MetersAsked' = meterGeneration' /\ MetersShown' = MetersShown
      BY <2>1, <2>2 DEF MetersAsked, MetersShown
    <3> QED
      BY <2>1, <3>1 DEF Meters!Next, Meters!Ask, MetersAsked, MetersShown
  <2>3. CASE ~meterBusy
    BY <2>1, <2>3 DEF MetersAsked, MetersShown
  <2> QED
    BY <2>2, <2>3
<1>4. CASE measure
  <2>1. /\ meterBusy' = TRUE /\ UNCHANGED <<meterGeneration, meterLatest>>
        /\ meterGeneration \in 1..MaxMeterCalls
    BY <1>4, MetersAssumption DEF measure, Inside, MetersInv
  <2>2. MetersAsked' = meterGeneration /\ MetersShown' = MetersShown
    BY <2>1 DEF MetersAsked, MetersShown
  <2> QED
    BY <2>1, <2>2 DEF Meters!Next, Meters!Ask, MetersAsked, MetersShown
<1>5. CASE resetLabels
  <2>1. MetersAsked' = None /\ MetersShown' = None
    BY <1>5 DEF resetLabels, MetersAsked, MetersShown
  <2> QED
    BY <2>1 DEF Meters!Next, Meters!Withdraw, MetersAsked, MetersShown
<1>6. CASE deliverMeasurement
  <2>1. CASE Accepts(Head(meterQueue).mine)
    <3>1. /\ Head(meterQueue).mine \in Mines(meterQueue)
          /\ meterBusy' = FALSE
          /\ meterLatest' = IF Head(meterQueue).ok THEN Head(meterQueue) ELSE None
      BY <1>6, <2>1, TakeItem DEF deliverMeasurement, MetersInv
    <3>2. meterBusy /\ meterGeneration # None /\ Head(meterQueue).mine = meterGeneration
      BY <2>1, <3>1, AbsenceAssumption DEF Accepts, MetersInv, MeterAwaited
    <3>3. MetersAsked # None /\ MetersAsked' = None /\ MetersShown' \in {MetersAsked, None}
      BY <3>1, <3>2 DEF MetersAsked, MetersShown
    <3> QED
      BY <3>3 DEF Meters!Next, Meters!Answer, MetersAsked, MetersShown
  <2>2. CASE ~Accepts(Head(meterQueue).mine)
    BY <1>1, <1>6, <2>2 DEF deliverMeasurement
  <2> QED
    BY <2>1, <2>2
<1> QED
  BY <1>2, <1>3, <1>4, <1>5, <1>6 DEF MetersNext, MeterWindow, MeterWorker
-----------------------------------------------------------------------------
(* The musical analysis.                                                   *)

AnalysisResult == [mine : Runs, read : BOOLEAN, ran : SUBSET {Order[i] : i \in DOMAIN Order},
                   wants : Wants]

AtWork(r) == run[r] # None /\ run[r].stage # "exited"

\* An analysis ran all that was asked for, or found nothing to read.
Complete(a) == a.ran = IF a.read THEN Stages(a.wants) ELSE {}

\* How far a run has got: nothing before it has read, and all of it once it goes
\* on to its checks, unless it was cancelled.
Progress(a) ==
  /\ a.stage = "read" => a.ran = {} /\ ~a.read
  /\ a.stage = "analyse" => a.read /\ a.ran \subseteq Stages(a.wants)
  /\ a.stage \notin {"read", "analyse"} /\ ~a.cancelled => Complete(a)

\* The generation's result is on its way, or will be.
Awaited == generation \in Mines(queue) \/ (generation \in Runs /\ AtWork(generation))

RunsInv ==
  /\ run \in [Runs -> AnalysisRun \cup {None}]
  /\ \A r \in Runs : run[r] # None => r <= generation /\ Progress(run[r])
  /\ generation \in Runs /\ run[generation] # None => ~run[generation].cancelled
  /\ \A r \in Runs : AtWork(r) => r \notin Mines(queue) /\ (r = handle \/ r \in retired)

QueueInv ==
  /\ queue \in Seq(AnalysisResult) /\ Distinct(queue)
  /\ Mines(queue) \subseteq 1..generation
  /\ \A e \in Items(queue) : e.mine = generation => Complete(e)

MusicalInv ==
  /\ generation \in 0..MaxAnalysisCalls /\ busy \in BOOLEAN /\ panel \in BOOLEAN
  /\ handle # None => handle \in Runs /\ run[handle] # None
  /\ retired \subseteq Runs
  /\ RunsInv
  /\ QueueInv
  /\ Awaited => busy
  /\ AnalysesAreWhole
  /\ closing # None => handle = None
  /\ closing \in {"lock", "gone"} => \A r \in Runs : ~AtWork(r)
  /\ ~panel => closing = "gone"

LEMMA MusicalInitInv == MusicalInit => MusicalInv
<1> SUFFICES ASSUME MusicalInit PROVE MusicalInv
  OBVIOUS
<1>1. \A r \in Runs : run[r] = None /\ ~AtWork(r)
  BY DEF MusicalInit, AtWork
<1>2. QueueInv
  BY NoItems DEF MusicalInit, QueueInv
<1>3. RunsInv
  BY <1>1 DEF MusicalInit, RunsInv
<1>4. 0 \in 0..MaxAnalysisCalls /\ 0 \notin Runs
  BY AnalysisAssumption DEF Runs
<1>5. ~Awaited
  BY <1>4, NoItems DEF MusicalInit, Awaited
<1> QED
  BY <1>1, <1>2, <1>3, <1>4, <1>5, AnalysisAssumption DEF MusicalInit, MusicalInv, AnalysesAreWhole

\* Cancelling the current run, and only that.
LEMMA Cancelling ==
  ASSUME MusicalInv
  PROVE  /\ CancelledRuns \in [Runs -> AnalysisRun \cup {None}]
         /\ \A r \in Runs : /\ CancelledRuns[r] = None <=> run[r] = None
                            /\ run[r] # None =>
                                 /\ CancelledRuns[r].stage = run[r].stage
                                 /\ r <= generation /\ Progress(CancelledRuns[r])
<1> SUFFICES ASSUME NEW r \in Runs
             PROVE  /\ CancelledRuns[r] \in AnalysisRun \cup {None}
                    /\ CancelledRuns[r] = None <=> run[r] = None
                    /\ run[r] # None => /\ CancelledRuns[r].stage = run[r].stage
                                        /\ r <= generation /\ Progress(CancelledRuns[r])
  BY DEF CancelledRuns
<1>1. /\ run[r] \in AnalysisRun \cup {None}
      /\ run[r] # None => r <= generation /\ Progress(run[r])
  BY DEF MusicalInv, RunsInv
<1>2. CASE r # handle
  BY <1>1, <1>2 DEF CancelledRuns
<1>3. CASE r = handle
  <2> DEFINE c == [run[r] EXCEPT !.cancelled = TRUE]
  <2>1. CancelledRuns[r] = c
    BY <1>3 DEF CancelledRuns
  <2>2. handle # None
    BY <1>3, AbsenceAssumption DEF Runs
  <2>3. run[r] \in AnalysisRun /\ run[r] # None
    BY <1>1, <1>3, <2>2 DEF MusicalInv
  <2>4. /\ c \in AnalysisRun /\ c.stage = run[r].stage /\ c.cancelled = TRUE
        /\ c.ran = run[r].ran /\ c.read = run[r].read /\ c.wants = run[r].wants
    BY <2>3 DEF AnalysisRun
  <2> HIDE DEF c
  <2>5. c # None
    BY <2>4, AnalysisAssumption
  <2>6. Progress(c)
    BY <1>1, <2>3, <2>4 DEF Progress
  <2> QED
    BY <1>1, <2>1, <2>3, <2>4, <2>5, <2>6
<1> QED
  BY <1>2, <1>3

\* A call raises the generation, cancels the current run and sets every run that
\* works aside; nothing of what is on its way counts any more.
LEMMA Disowning ==
  ASSUME MusicalInv, generation < MaxAnalysisCalls, generation' = generation + 1,
         UNCHANGED queue
  PROVE  /\ generation' \in Runs /\ generation' \in 0..MaxAnalysisCalls
         /\ run[generation'] = None
         /\ generation' \notin Mines(queue)
         /\ QueueInv'
<1>1. generation \in Nat /\ generation' \in Runs /\ generation' \in 0..MaxAnalysisCalls
  BY AnalysisAssumption DEF MusicalInv, Runs
<1>2. run[generation'] = None
  BY <1>1 DEF MusicalInv, RunsInv
<1>3. generation' \notin Mines(queue) /\ Mines(queue) \subseteq 1..generation'
  BY <1>1 DEF MusicalInv, QueueInv
<1>4. \A e \in Items(queue) : e.mine # generation'
  BY <1>3 DEF Mines
<1> QED
  BY <1>1, <1>2, <1>3, <1>4 DEF MusicalInv, QueueInv

\* A call that leaves no run to wait for, or starts a new one.
LEMMA CallKeeps ==
  ASSUME MusicalInv, Idle, clearMusical \/ beginDestroy
  PROVE  MusicalInv'
<1>1. /\ generation < MaxAnalysisCalls /\ generation' = generation + 1
      /\ run' = CancelledRuns /\ handle' = None /\ UNCHANGED <<panel, queue>>
      /\ busy' = FALSE \/ UNCHANGED busy
      /\ latest' = None \/ UNCHANGED latest
      /\ closing' \in {closing, "join"} /\ closing = None /\ panel
      /\ SetAside \subseteq retired' /\ retired' \subseteq retired \cup ({handle} \ {None})
  BY DEF clearMusical, beginDestroy, SetAside, Idle
<1>2. /\ generation' \in Runs /\ generation' \in 0..MaxAnalysisCalls
      /\ run[generation'] = None
      /\ generation' \notin Mines(queue)
      /\ QueueInv'
  BY <1>1, Disowning
<1>3. /\ run' \in [Runs -> AnalysisRun \cup {None}]
      /\ \A r \in Runs : /\ run'[r] = None <=> run[r] = None
                         /\ run[r] # None =>
                              /\ run'[r].stage = run[r].stage
                              /\ r <= generation /\ Progress(run'[r])
  BY <1>1, Cancelling
<1>4. \A r \in Runs : AtWork(r)' => AtWork(r)
  BY <1>3 DEF AtWork
<1>5. RunsInv'
  <2>1. \A r \in Runs : run'[r] # None => r <= generation' /\ Progress(run'[r])
    <3>1. generation \in Nat /\ Runs \subseteq Nat
      BY DEF MusicalInv, Runs
    <3> QED
      BY <1>1, <1>3, <3>1
  <2>2. run'[generation'] = None
    BY <1>2, <1>3
  <2>3. \A r \in Runs : AtWork(r)' => r \notin Mines(queue') /\ r \in retired'
    <3> SUFFICES ASSUME NEW r \in Runs, AtWork(r) PROVE r \notin Mines(queue') /\ r \in retired'
      BY <1>4
    <3>1. r \notin Mines(queue) /\ (r = handle \/ r \in retired) /\ ~Finished(r)
      BY DEF MusicalInv, RunsInv, AtWork, Finished, At
    <3>2. r # None
      BY AbsenceAssumption DEF Runs
    <3>3. r \in SetAside
      BY <3>1, <3>2 DEF SetAside
    <3> QED
      BY <1>1, <3>1, <3>3
  <2> QED
    BY <1>3, <2>1, <2>2, <2>3 DEF RunsInv
<1>6. ~Awaited'
  BY <1>1, <1>2, <1>3 DEF Awaited, AtWork
<1>7. closing' \notin {"lock", "gone"} /\ retired' \subseteq Runs
  BY <1>1, AnalysisAssumption DEF MusicalInv
<1>8. AnalysesAreWhole' /\ busy' \in BOOLEAN
  BY <1>1 DEF MusicalInv, AnalysesAreWhole
<1> QED
  BY <1>1, <1>2, <1>5, <1>6, <1>7, <1>8 DEF MusicalInv

LEMMA AnalyseKeeps ==
  ASSUME MusicalInv, NEW w \in Wants, analyse(w)
  PROVE  MusicalInv'
<1> DEFINE new == [stage |-> "read", cancelled |-> FALSE, wants |-> w, read |-> FALSE, ran |-> {}]
<1>1. /\ generation < MaxAnalysisCalls /\ generation' = generation + 1
      /\ run' = [CancelledRuns EXCEPT ![generation'] = new]
      /\ handle' = generation' /\ retired' = SetAside
      /\ UNCHANGED <<panel, queue, latest, closing>> /\ busy' = TRUE
      /\ closing = None /\ panel
  BY DEF analyse, Idle
<1>2. /\ generation' \in Runs /\ generation' \in 0..MaxAnalysisCalls
      /\ run[generation'] = None
      /\ generation' \notin Mines(queue)
      /\ QueueInv'
  BY <1>1, Disowning
<1>3. new \in AnalysisRun /\ new # None /\ Progress(new) /\ ~new.cancelled
  <2>1. new \in AnalysisRun
    BY DEF AnalysisRun
  <2>2. new # None
    BY <2>1, AnalysisAssumption
  <2> QED
    BY <2>1, <2>2 DEF Progress
<1> HIDE DEF new
<1>4. /\ CancelledRuns \in [Runs -> AnalysisRun \cup {None}]
      /\ \A r \in Runs : /\ CancelledRuns[r] = None <=> run[r] = None
                         /\ run[r] # None =>
                              /\ CancelledRuns[r].stage = run[r].stage
                              /\ r <= generation /\ Progress(CancelledRuns[r])
  BY Cancelling
<1>5. /\ run' \in [Runs -> AnalysisRun \cup {None}] /\ run'[generation'] = new
      /\ \A r \in Runs : r # generation' => run'[r] = CancelledRuns[r]
  BY <1>1, <1>2, <1>3, <1>4
<1>6. \A r \in Runs : r # generation' /\ AtWork(r)' => AtWork(r)
  BY <1>4, <1>5 DEF AtWork
<1>7. RunsInv'
  <2>1. \A r \in Runs : run'[r] # None => r <= generation' /\ Progress(run'[r])
    <3>1. generation \in Nat /\ Runs \subseteq Nat
      BY DEF MusicalInv, Runs
    <3> QED
      BY <1>1, <1>2, <1>3, <1>4, <1>5, <3>1
  <2>2. \A r \in Runs : AtWork(r)' => r \notin Mines(queue') /\ (r = handle' \/ r \in retired')
    <3> SUFFICES ASSUME NEW r \in Runs, AtWork(r)', r # generation'
                 PROVE  r \notin Mines(queue') /\ r \in retired'
      BY <1>1, <1>2
    <3>1. AtWork(r)
      BY <1>6
    <3>2. r \notin Mines(queue) /\ (r = handle \/ r \in retired) /\ ~Finished(r)
      BY <3>1 DEF MusicalInv, RunsInv, AtWork, Finished, At
    <3>3. r # None
      BY AbsenceAssumption DEF Runs
    <3>4. r \in SetAside
      BY <3>2, <3>3 DEF SetAside
    <3> QED
      BY <1>1, <3>2, <3>4
  <2> QED
    BY <1>3, <1>5, <2>1, <2>2 DEF RunsInv
<1>8. SetAside \subseteq Runs
  BY DEF SetAside, MusicalInv
<1>9. closing' \notin {"lock", "gone"}
  BY <1>1, AnalysisAssumption
<1> QED
  BY <1>1, <1>2, <1>3, <1>5, <1>7, <1>8, <1>9 DEF MusicalInv, AnalysesAreWhole

\* One step of one run.
LEMMA AdvanceKeeps ==
  ASSUME MusicalInv, NEW r \in Runs, AtWork(r), NEW a \in AnalysisRun, Progress(a),
         a.cancelled = run[r].cancelled, run' = [run EXCEPT ![r] = a],
         UNCHANGED <<generation, panel, handle, retired, queue, busy, latest, closing>>
  PROVE  MusicalInv'
<1>1. /\ run' \in [Runs -> AnalysisRun \cup {None}] /\ run'[r] = a /\ a # None
      /\ \A s \in Runs : s # r => run'[s] = run[s]
  BY AnalysisAssumption DEF MusicalInv, RunsInv
<1>2. \A s \in Runs : (AtWork(s)' => AtWork(s)) /\ (run'[s] # None => run[s] # None)
  BY <1>1 DEF AtWork
<1>3. RunsInv'
  BY <1>1, <1>2 DEF MusicalInv, RunsInv
<1>4. Awaited' => Awaited
  BY <1>2 DEF Awaited
<1> QED
  BY <1>1, <1>2, <1>3, <1>4 DEF MusicalInv, QueueInv, AnalysesAreWhole

LEMMA WorkKeeps ==
  ASSUME MusicalInv, NEW r \in Runs,
         readBlocks(r) \/ analyseBuffer(r) \/ checkRun(r) \/ lockPanel(r)
  PROVE  MusicalInv'
<1>1. /\ run[r] \in AnalysisRun /\ run[r] # None /\ AtWork(r) /\ Progress(run[r])
      /\ UNCHANGED <<generation, panel, handle, retired, queue, busy, latest, closing>>
  BY DEF readBlocks, analyseBuffer, checkRun, lockPanel, At, AtWork, MusicalInv, RunsInv
<1>2. CASE readBlocks(r)
  <2>1. run[r].stage = "read" /\ run[r].ran = {} /\ ~run[r].read
    BY <1>1, <1>2 DEF readBlocks, At, Progress
  <2>2. CASE run' = [run EXCEPT ![r].stage = "analyse", ![r].read = TRUE]
    <3> DEFINE a == [run[r] EXCEPT !.stage = "analyse", !.read = TRUE]
    <3>1. a \in AnalysisRun /\ Progress(a) /\ a.cancelled = run[r].cancelled
      BY <1>1, <2>1 DEF AnalysisRun, Progress
    <3>2. run' = [run EXCEPT ![r] = a]
      BY <2>2
    <3> HIDE DEF a
    <3> QED
      BY <1>1, <3>1, <3>2, AdvanceKeeps
  <2>3. CASE ~run[r].cancelled /\ run' = [run EXCEPT ![r].stage = "check"]
    <3> DEFINE a == [run[r] EXCEPT !.stage = "check"]
    <3>1. a \in AnalysisRun /\ Progress(a) /\ a.cancelled = run[r].cancelled
      BY <1>1, <2>1 DEF AnalysisRun, Progress, Complete
    <3>2. run' = [run EXCEPT ![r] = a]
      BY <2>3
    <3> HIDE DEF a
    <3> QED
      BY <1>1, <3>1, <3>2, AdvanceKeeps
  <2>4. ASSUME NEW some \in BOOLEAN, run[r].cancelled,
               run' = [run EXCEPT ![r].stage = "check", ![r].read = some]
        PROVE  MusicalInv'
    <3> DEFINE a == [run[r] EXCEPT !.stage = "check", !.read = some]
    <3>1. a \in AnalysisRun /\ Progress(a) /\ a.cancelled = run[r].cancelled
      BY <1>1, <2>1, <2>4 DEF AnalysisRun, Progress
    <3>2. run' = [run EXCEPT ![r] = a]
      BY <2>4
    <3> HIDE DEF a
    <3> QED
      BY <1>1, <3>1, <3>2, AdvanceKeeps
  <2> QED
    BY <1>2, <2>2, <2>3, <2>4 DEF readBlocks
<1>3. CASE analyseBuffer(r)
  <2> DEFINE wanted == Stages(run[r].wants) \ run[r].ran
  <2>1. PICK i \in DOMAIN Order :
          /\ Order[i] \in wanted
          /\ run' = [run EXCEPT ![r].ran = @ \cup {Order[i]},
                                ![r].stage = IF run[r].cancelled \/ wanted = {Order[i]}
                                             THEN "check" ELSE @]
    BY <1>3 DEF analyseBuffer
  <2>2. run[r].stage = "analyse" /\ run[r].read /\ run[r].ran \subseteq Stages(run[r].wants)
    BY <1>1, <1>3 DEF analyseBuffer, At, Progress
  <2> DEFINE done == run[r].ran \cup {Order[i]}
             next == IF run[r].cancelled \/ wanted = {Order[i]} THEN "check" ELSE run[r].stage
             a == [run[r] EXCEPT !.ran = done, !.stage = next]
  <2>3. done \in SUBSET {Order[j] : j \in DOMAIN Order} /\ next \in {"check", "analyse"}
    BY <1>1, <2>2 DEF AnalysisRun
  <2>4. done \subseteq Stages(run[r].wants) /\ (wanted = {Order[i]} => done = Stages(run[r].wants))
    BY <2>1, <2>2
  <2>5. run' = [run EXCEPT ![r] = a]
    BY <2>1
  <2>6. ~run[r].cancelled /\ next = "check" => done = Stages(run[r].wants)
    BY <2>2, <2>4
  <2> HIDE DEF done, next
  <2>7. /\ a \in AnalysisRun /\ a.cancelled = run[r].cancelled /\ a.read
        /\ a.ran = done /\ a.stage = next /\ a.wants = run[r].wants
    BY <1>1, <2>2, <2>3 DEF AnalysisRun
  <2> HIDE DEF a
  <2>8. Progress(a)
    BY <2>3, <2>4, <2>6, <2>7 DEF Progress, Complete
  <2> QED
    BY <1>1, <2>5, <2>7, <2>8, AdvanceKeeps
<1>4. CASE checkRun(r) \/ lockPanel(r)
  <2>1. PICK next \in {"lock", "locked", "exited"} : run' = [run EXCEPT ![r].stage = next]
    BY <1>4 DEF checkRun, lockPanel
  <2>2. run[r].stage \in {"check", "lock"}
    BY <1>4 DEF checkRun, lockPanel, At
  <2> DEFINE a == [run[r] EXCEPT !.stage = next]
  <2>3. /\ a \in AnalysisRun /\ a.cancelled = run[r].cancelled /\ a.stage = next
        /\ a.ran = run[r].ran /\ a.read = run[r].read /\ a.wants = run[r].wants
    BY <1>1 DEF AnalysisRun
  <2>4. run' = [run EXCEPT ![r] = a]
    BY <2>1
  <2> HIDE DEF a
  <2>5. Progress(a)
    BY <1>1, <2>2, <2>3 DEF Progress, Complete
  <2> QED
    BY <1>1, <2>3, <2>4, <2>5, AdvanceKeeps
<1> QED
  BY <1>2, <1>3, <1>4

LEMMA PostKeeps ==
  ASSUME MusicalInv, NEW r \in Runs, postAnalysis(r)
  PROVE  MusicalInv'
<1> DEFINE a == [run[r] EXCEPT !.stage = "exited"]
           result == [mine |-> r, read |-> run[r].read, ran |-> run[r].ran, wants |-> run[r].wants]
<1>1. /\ run[r] \in AnalysisRun /\ run[r] # None /\ run[r].stage = "locked"
      /\ AtWork(r) /\ Progress(run[r]) /\ r <= generation
      /\ UNCHANGED <<generation, panel, handle, retired, busy, latest, closing>>
      /\ run' = [run EXCEPT ![r] = a]
  BY DEF postAnalysis, At, AtWork, MusicalInv, RunsInv
<1>2. /\ a \in AnalysisRun /\ a.cancelled = run[r].cancelled /\ a.stage = "exited"
      /\ a.ran = run[r].ran /\ a.read = run[r].read /\ a.wants = run[r].wants
  BY <1>1 DEF AnalysisRun
<1>3. result \in AnalysisResult /\ result.mine = r
  BY <1>1 DEF AnalysisRun, AnalysisResult
<1>4. \/ UNCHANGED queue
      \/ generation = r /\ queue' = Append(queue, result)
  BY DEF postAnalysis
<1>5. generation = r => Complete(result)
  BY <1>1 DEF MusicalInv, RunsInv, Progress, Complete
<1> HIDE DEF a, result
<1>6. Progress(a) /\ a # None
  BY <1>1, <1>2, AnalysisAssumption DEF Progress, Complete
<1>7. /\ run' \in [Runs -> AnalysisRun \cup {None}] /\ run'[r] = a
      /\ \A s \in Runs : s # r => run'[s] = run[s]
  BY <1>1, <1>2 DEF MusicalInv, RunsInv
<1>8. \A s \in Runs : (AtWork(s)' => AtWork(s) /\ s # r) /\ (run'[s] # None => run[s] # None)
  BY <1>1, <1>2, <1>7 DEF AtWork
<1>9. QueueInv' /\ Mines(queue') \subseteq Mines(queue) \cup {r}
  <2>1. CASE UNCHANGED queue
    BY <1>1, <2>1 DEF MusicalInv, QueueInv
  <2>2. CASE generation = r /\ queue' = Append(queue, result)
    <3>1. r \notin Mines(queue)
      BY <1>1 DEF MusicalInv, RunsInv
    <3>2. /\ queue' \in Seq(AnalysisResult) /\ Distinct(queue')
          /\ Items(queue') = Items(queue) \cup {result}
          /\ Mines(queue') = Mines(queue) \cup {r}
      BY <1>3, <2>2, <3>1, PostItem DEF MusicalInv, QueueInv
    <3>3. Mines(queue') \subseteq 1..generation'
      BY <1>1, <2>2, <3>2 DEF MusicalInv, QueueInv, Runs
    <3> QED
      BY <1>1, <1>5, <2>2, <3>2, <3>3 DEF MusicalInv, QueueInv
  <2> QED
    BY <1>4, <2>1, <2>2
<1>10. RunsInv'
  BY <1>1, <1>2, <1>6, <1>7, <1>8, <1>9 DEF MusicalInv, RunsInv
<1>11. Awaited' => Awaited
  BY <1>1, <1>8, <1>9 DEF Awaited
<1> QED
  BY <1>1, <1>2, <1>6, <1>7, <1>8, <1>9, <1>10, <1>11 DEF MusicalInv, AnalysesAreWhole

LEMMA DeliveryKeeps ==
  ASSUME MusicalInv, deliverAnalysis
  PROVE  MusicalInv'
<1>1. /\ queue # <<>> /\ queue' = Tail(queue)
      /\ UNCHANGED <<generation, panel, handle, retired, run, closing>>
  BY DEF deliverAnalysis
<1>2. /\ queue' \in Seq(AnalysisResult) /\ Distinct(queue')
      /\ Items(queue') \subseteq Items(queue) /\ Head(queue) \in Items(queue)
      /\ Mines(queue') \subseteq Mines(queue) \ {Head(queue).mine}
      /\ Head(queue).mine \in Mines(queue)
  BY <1>1, TakeItem DEF MusicalInv, QueueInv
<1>3. RunsInv' /\ QueueInv'
  BY <1>1, <1>2 DEF MusicalInv, RunsInv, QueueInv, AtWork
<1>4. CASE AcceptsRun(Head(queue).mine)
  <2>1. busy' = FALSE /\ latest' = Head(queue)
    BY <1>4 DEF deliverAnalysis
  <2>2. Complete(Head(queue))
    BY <1>2, <1>4 DEF AcceptsRun, MusicalInv, QueueInv
  <2>3. ~Awaited'
    <3>1. generation' \notin Mines(queue')
      BY <1>1, <1>2, <1>4 DEF AcceptsRun
    <3>2. generation \in Runs => ~AtWork(generation)
      BY <1>2, <1>4 DEF AcceptsRun, MusicalInv, RunsInv
    <3> QED
      BY <1>1, <3>1, <3>2 DEF Awaited, AtWork
  <2>4. AnalysesAreWhole'
    BY <2>1, <2>2 DEF AnalysesAreWhole, Complete
  <2> QED
    BY <1>1, <1>3, <2>1, <2>3, <2>4 DEF MusicalInv, AtWork
<1>5. CASE ~AcceptsRun(Head(queue).mine)
  <2>1. UNCHANGED <<busy, latest>>
    BY <1>5 DEF deliverAnalysis
  <2>2. Awaited' => Awaited
    BY <1>1, <1>2 DEF Awaited, AtWork
  <2> QED
    BY <1>1, <1>3, <2>1, <2>2 DEF MusicalInv, AnalysesAreWhole, AtWork
<1> QED
  BY <1>4, <1>5

\* The destructor waits for every run, and takes the panel away after that.
LEMMA DestroyKeeps ==
  ASSUME MusicalInv, joinAll \/ destroyPanel
  PROVE  MusicalInv'
<1>1. CASE joinAll
  <2>1. /\ closing = "join" /\ (\A r \in retired : Finished(r)) /\ retired' = {} /\ closing' = "lock"
        /\ UNCHANGED <<generation, panel, handle, run, queue, busy, latest>>
    BY <1>1 DEF joinAll
  <2>2. handle = None
    BY <2>1, AnalysisAssumption DEF MusicalInv
  <2>3. \A r \in Runs : ~AtWork(r) /\ ~AtWork(r)'
    BY <2>1, <2>2, AbsenceAssumption DEF MusicalInv, RunsInv, AtWork, Finished, At, Runs
  <2>4. RunsInv' /\ QueueInv'
    BY <2>1, <2>3 DEF MusicalInv, RunsInv, QueueInv
  <2>5. Awaited' => Awaited
    BY <2>1, <2>3 DEF Awaited
  <2>6. panel = TRUE
    BY <2>1 DEF MusicalInv
  <2> QED
    BY <2>1, <2>2, <2>3, <2>4, <2>5, <2>6 DEF MusicalInv, AnalysesAreWhole
<1>2. CASE destroyPanel
  <2>1. /\ closing = "lock" /\ panel' = FALSE /\ queue' = <<>> /\ closing' = "gone"
        /\ UNCHANGED <<generation, handle, retired, run, busy, latest>>
    BY <1>2 DEF destroyPanel
  <2>2. handle = None /\ \A r \in Runs : ~AtWork(r) /\ ~AtWork(r)'
    BY <2>1, AnalysisAssumption DEF MusicalInv, AtWork
  <2>3. QueueInv' /\ Mines(queue') = {}
    BY <2>1, NoItems DEF MusicalInv, QueueInv
  <2>4. RunsInv'
    BY <2>1, <2>2 DEF MusicalInv, RunsInv
  <2>5. ~Awaited'
    BY <2>1, <2>2, <2>3 DEF Awaited
  <2> QED
    BY <2>1, <2>2, <2>3, <2>4, <2>5 DEF MusicalInv, AnalysesAreWhole
<1> QED
  BY <1>1, <1>2

LEMMA MusicalStepInv == MusicalInv /\ [MusicalNext]_musicalVars => MusicalInv'
<1> SUFFICES ASSUME MusicalInv, [MusicalNext]_musicalVars PROVE MusicalInv'
  OBVIOUS
<1>1. CASE UNCHANGED musicalVars
  BY <1>1 DEF musicalVars, MusicalInv, RunsInv, QueueInv, Awaited, AtWork, AnalysesAreWhole
<1>2. CASE clearMusical \/ beginDestroy
  BY <1>2, CallKeeps DEF clearMusical, beginDestroy
<1>3. ASSUME NEW w \in Wants, analyse(w) PROVE MusicalInv'
  BY <1>3, AnalyseKeeps
<1>4. CASE PanelWindow
  BY <1>4, DeliveryKeeps, DestroyKeeps DEF PanelWindow
<1>5. ASSUME NEW r \in Runs, Works(r) PROVE MusicalInv'
  BY <1>5, WorkKeeps, PostKeeps DEF Works
<1> QED
  BY <1>1, <1>2, <1>3, <1>4, <1>5 DEF MusicalNext

\* The panel of the musical analysis implements LatestAnswer.
MusicalAsked == IF busy THEN generation ELSE None
MusicalShown == IF latest = None THEN None ELSE latest.mine

LEMMA MusicalAnswerInit == MusicalInit => Musical!Init
BY DEF MusicalInit, Musical!Init

LEMMA MusicalAnswerStep ==
  MusicalInv /\ [MusicalNext]_musicalVars => [Musical!Next]_<<MusicalAsked, MusicalShown>>
<1> SUFFICES ASSUME MusicalInv, [MusicalNext]_musicalVars
             PROVE  [Musical!Next]_<<MusicalAsked, MusicalShown>>
  OBVIOUS
<1>1. CASE UNCHANGED <<busy, generation, latest>>
  BY <1>1 DEF MusicalAsked, MusicalShown
<1>2. CASE UNCHANGED musicalVars \/ joinAll \/ destroyPanel \/ \E r \in Runs : Works(r)
  BY <1>1, <1>2 DEF musicalVars, joinAll, destroyPanel, Works, readBlocks, analyseBuffer,
                    checkRun, lockPanel, postAnalysis
<1>3. CASE clearMusical
  <2>1. MusicalAsked' = None /\ MusicalShown' = None
    BY <1>3 DEF clearMusical, MusicalAsked, MusicalShown
  <2> QED
    BY <2>1 DEF Musical!Next, Musical!Withdraw, MusicalAsked, MusicalShown
<1>4. CASE beginDestroy \/ \E w \in Wants : analyse(w)
  <2>1. /\ generation < MaxAnalysisCalls /\ generation' = generation + 1 /\ UNCHANGED latest
        /\ UNCHANGED busy \/ busy' = TRUE
    BY <1>4 DEF beginDestroy, analyse
  <2>2. generation' \in 1..MaxAnalysisCalls /\ MusicalShown' = MusicalShown
    BY <2>1, AnalysisAssumption DEF MusicalInv, MusicalShown
  <2>3. CASE busy'
    <3>1. MusicalAsked' = generation'
      BY <2>3 DEF MusicalAsked
    <3> QED
      BY <2>2, <3>1 DEF Musical!Next, Musical!Ask, MusicalAsked, MusicalShown
  <2>4. CASE ~busy'
    BY <2>1, <2>2, <2>4 DEF MusicalAsked
  <2> QED
    BY <2>3, <2>4
<1>5. CASE deliverAnalysis
  <2>1. CASE AcceptsRun(Head(queue).mine)
    <3>1. /\ Head(queue).mine \in Mines(queue)
          /\ busy' = FALSE /\ latest' = Head(queue)
      BY <1>5, <2>1, TakeItem DEF deliverAnalysis, MusicalInv, QueueInv
    <3>2. busy /\ generation # None /\ Head(queue).mine = generation
      BY <2>1, <3>1, AbsenceAssumption DEF AcceptsRun, MusicalInv, Awaited
    <3>3. MusicalAsked # None /\ MusicalAsked' = None /\ MusicalShown' \in {MusicalAsked, None}
      BY <3>1, <3>2 DEF MusicalAsked, MusicalShown
    <3> QED
      BY <3>3 DEF Musical!Next, Musical!Answer, MusicalAsked, MusicalShown
  <2>2. CASE ~AcceptsRun(Head(queue).mine)
    BY <1>1, <1>5, <2>2 DEF deliverAnalysis
  <2> QED
    BY <2>1, <2>2
<1> QED
  BY <1>2, <1>3, <1>4, <1>5 DEF MusicalNext, PanelWindow

LEMMA MusicalInvHolds == MusicalInv => AnalysesAreWhole /\ NoRunOutlivesThePanel
BY DEF MusicalInv, NoRunOutlivesThePanel, AtWork, Finished, At
-----------------------------------------------------------------------------
(* The spectrogram.  The handlers, as what they have still to do.          *)

CallNames == {"cancelBuild", "joinBuild", "haveSource", "cancelDetail", "joinDetail",
              "startBuild", "startDetail", "rebuildCaches", "gone"}

\* The calls that lead to another generation.
Raises(q) == {i \in 1..Len(q) : q[i] \in {"cancelBuild", "rebuildCaches"}}

\* A build is joined straight after it has been cancelled and never otherwise,
\* a handler raises the generation twice at most, and what it starts it starts
\* last.
Handler(q) ==
  /\ q \in Seq(CallNames)
  /\ \A i \in 1..Len(q) : q[i] = "cancelBuild" => i + 1 \in 1..Len(q) /\ q[i + 1] = "joinBuild"
  /\ \A i \in 1..Len(q) : i > 1 /\ q[i] = "joinBuild" => q[i - 1] = "cancelBuild"
  /\ \A i, j, k \in Raises(q) : i = j \/ j = k \/ i = k
  /\ \A i \in 1..Len(q) : q[i] \in {"rebuildCaches", "startBuild", "startDetail"} => i = Len(q)

\* What is left of it relies on a build, or a fetch, having been joined already.
Relies(q, names, join) ==
  \E i \in 1..Len(q) : q[i] \in names /\ \A j \in 1..(i - 1) : q[j] # join
PastBuild(q) == Relies(q, {"rebuildCaches", "startBuild", "gone"}, "joinBuild")
PastDetail(q) == Relies(q, {"startDetail", "gone"}, "joinDetail")

\* A handler of its own, from its first call.
FromStart(q) == Handler(q) /\ ~PastBuild(q) /\ ~PastDetail(q)
             /\ (q # <<>> => q[1] # "joinBuild")

LEMMA NothingToDo == FromStart(<<>>) /\ Raises(<<>>) = {}
BY DEF FromStart, Handler, PastBuild, PastDetail, Relies, Raises, CallNames

LEMMA StartBuildCalls ==
  ASSUME NEW q, q = StartBuild
  PROVE  FromStart(q) /\ Raises(q) = {1}
<1>1. /\ q \in Seq(CallNames) /\ Len(q) = 6 /\ q[1] = "cancelBuild" /\ q[2] = "joinBuild"
      /\ q[3] = "haveSource" /\ q[4] = "cancelDetail" /\ q[5] = "joinDetail" /\ q[6] = "startBuild"
  BY DEF StartBuild, CancelBuild, CancelDetail, CallNames
<1>2. Raises(q) = {1}
  BY <1>1 DEF Raises
<1>3. Handler(q)
  BY <1>1, <1>2 DEF Handler
<1>4. ~PastBuild(q) /\ ~PastDetail(q)
  BY <1>1 DEF PastBuild, PastDetail, Relies
<1> QED
  BY <1>1, <1>2, <1>3, <1>4 DEF FromStart

\* Lemmas of their own, so that the provers see the calls and not the
\* concatenation that makes them.
LEMMA FailedEditCallsAre ==
  ASSUME NEW q \in Seq(CallNames), Len(q) = 8, q[1] = "cancelBuild", q[2] = "joinBuild",
         q[3] = "cancelBuild", q[4] = "joinBuild", q[5] = "haveSource",
         q[6] = "cancelDetail", q[7] = "joinDetail", q[8] = "startBuild"
  PROVE  FromStart(q) /\ Raises(q) = {1, 3}
<1>1. 1..Len(q) = {1, 2, 3, 4, 5, 6, 7, 8}
  OBVIOUS
<1>2. Raises(q) = {1, 3}
  BY <1>1 DEF Raises
<1>3. Handler(q)
  BY <1>1, <1>2 DEF Handler
<1>4. ~PastBuild(q) /\ ~PastDetail(q)
  BY <1>1 DEF PastBuild, PastDetail, Relies
<1> QED
  BY <1>1, <1>2, <1>3, <1>4 DEF FromStart

LEMMA FailedEditCalls ==
  ASSUME NEW q, q = CancelBuild \o StartBuild
  PROVE  FromStart(q) /\ Raises(q) = {1, 3}
<1>1. /\ q \in Seq(CallNames) /\ Len(q) = 8 /\ q[1] = "cancelBuild" /\ q[2] = "joinBuild"
      /\ q[3] = "cancelBuild" /\ q[4] = "joinBuild" /\ q[5] = "haveSource"
      /\ q[6] = "cancelDetail" /\ q[7] = "joinDetail" /\ q[8] = "startBuild"
  BY DEF StartBuild, CancelBuild, CancelDetail, CallNames
<1> QED
  BY <1>1, FailedEditCallsAre

LEMMA ChangeCallsAre ==
  ASSUME NEW q \in Seq(CallNames), Len(q) = 3,
         q[1] = "cancelBuild", q[2] = "joinBuild", q[3] = "rebuildCaches"
  PROVE  FromStart(q) /\ Raises(q) = {1, 3}
<1>1. 1..Len(q) = {1, 2, 3}
  OBVIOUS
<1>2. Raises(q) = {1, 3}
  BY <1>1 DEF Raises
<1>3. Handler(q)
  BY <1>1, <1>2 DEF Handler
<1>4. ~PastBuild(q) /\ ~PastDetail(q)
  BY <1>1 DEF PastBuild, PastDetail, Relies
<1> QED
  BY <1>1, <1>2, <1>3, <1>4 DEF FromStart

LEMMA ChangeCalls ==
  ASSUME NEW q, q = CancelBuild \o <<"rebuildCaches">>
  PROVE  FromStart(q) /\ Raises(q) = {1, 3}
<1>1. /\ q \in Seq(CallNames) /\ Len(q) = 3
      /\ q[1] = "cancelBuild" /\ q[2] = "joinBuild" /\ q[3] = "rebuildCaches"
  BY DEF CancelBuild, CallNames
<1> QED
  BY <1>1, ChangeCallsAre

LEMMA CloseCallsAre ==
  ASSUME NEW q \in Seq(CallNames), Len(q) = 5, q[1] = "cancelBuild", q[2] = "joinBuild",
         q[3] = "cancelDetail", q[4] = "joinDetail", q[5] = "gone"
  PROVE  FromStart(q) /\ Raises(q) = {1}
<1>1. 1..Len(q) = {1, 2, 3, 4, 5}
  OBVIOUS
<1>2. Raises(q) = {1}
  BY <1>1 DEF Raises
<1>3. Handler(q)
  BY <1>1, <1>2 DEF Handler
<1>4. ~PastBuild(q) /\ ~PastDetail(q)
  BY <1>1 DEF PastBuild, PastDetail, Relies
<1> QED
  BY <1>1, <1>2, <1>3, <1>4 DEF FromStart

LEMMA CloseCalls ==
  ASSUME NEW q, q = CancelBuild \o CancelDetail \o <<"gone">>
  PROVE  FromStart(q) /\ Raises(q) = {1}
<1>1. /\ q \in Seq(CallNames) /\ Len(q) = 5 /\ q[1] = "cancelBuild" /\ q[2] = "joinBuild"
      /\ q[3] = "cancelDetail" /\ q[4] = "joinDetail" /\ q[5] = "gone"
  BY DEF CancelBuild, CancelDetail, CallNames
<1> QED
  BY <1>1, CloseCallsAre

LEMMA DetailCalls ==
  ASSUME NEW q, q = RequestDetail
  PROVE  FromStart(q) /\ Raises(q) = {}
<1>1. /\ q \in Seq(CallNames) /\ Len(q) = 3
      /\ q[1] = "cancelDetail" /\ q[2] = "joinDetail" /\ q[3] = "startDetail"
  BY DEF RequestDetail, CancelDetail, CallNames
<1>2. Raises(q) = {}
  BY <1>1 DEF Raises
<1>3. Handler(q)
  BY <1>1, <1>2 DEF Handler
<1>4. ~PastBuild(q) /\ ~PastDetail(q)
  BY <1>1 DEF PastBuild, PastDetail, Relies
<1> QED
  BY <1>1, <1>2, <1>3, <1>4 DEF FromStart

\* What is left after the first call of what is left.
LEMMA TailCalls ==
  ASSUME NEW q, Handler(q), q # <<>>
  PROVE  /\ Handler(Tail(q)) /\ Head(q) = q[1] /\ 1 \in 1..Len(q)
         /\ \A i \in Raises(Tail(q)) : i + 1 \in Raises(q) /\ i + 1 # 1
         /\ q[1] # "joinBuild" /\ PastBuild(Tail(q)) => PastBuild(q)
         /\ q[1] # "joinDetail" /\ PastDetail(Tail(q)) => PastDetail(q)
         /\ q[1] = "cancelBuild" => ~PastBuild(Tail(q))
         /\ q[1] = "joinBuild" => Tail(q) = <<>> \/ Tail(q)[1] # "joinBuild"
         /\ q[1] # "cancelBuild" => Tail(q) = <<>> \/ Tail(q)[1] # "joinBuild"
         /\ q[1] \in {"rebuildCaches", "startBuild", "startDetail"} => Tail(q) = <<>>
<1> DEFINE r == Tail(q)
<1>1. /\ q \in Seq(CallNames) /\ r \in Seq(CallNames) /\ Len(r) = Len(q) - 1 /\ Len(q) \in Nat \ {0}
      /\ (\A i \in 1..Len(r) : r[i] = q[i + 1]) /\ Head(q) = q[1]
      /\ r # <<>> => Len(r) >= 1
  BY DEF Handler
<1> HIDE DEF r
<1>2. \A i \in 1..Len(r) : i + 1 \in 1..Len(q) /\ r[i] = q[i + 1]
  BY <1>1
<1>3. \A i \in Raises(r) : i \in 1..Len(r) /\ i + 1 \in Raises(q) /\ i + 1 # 1
  BY <1>2 DEF Raises
<1>4. Handler(r)
  <2>1. \A i \in 1..Len(r) : r[i] = "cancelBuild" => i + 1 \in 1..Len(r) /\ r[i + 1] = "joinBuild"
    <3> SUFFICES ASSUME NEW i \in 1..Len(r), r[i] = "cancelBuild"
                 PROVE  i + 1 \in 1..Len(r) /\ r[i + 1] = "joinBuild"
      OBVIOUS
    <3>1. i + 1 \in 1..Len(q) /\ q[i + 1] = "cancelBuild"
      BY <1>2
    <3>2. (i + 1) + 1 \in 1..Len(q) /\ q[(i + 1) + 1] = "joinBuild"
      BY <3>1 DEF Handler
    <3>3. i + 1 \in 1..Len(r)
      BY <1>1, <3>2
    <3> QED
      BY <1>2, <3>2, <3>3
  <2>2. \A i \in 1..Len(r) : i > 1 /\ r[i] = "joinBuild" => r[i - 1] = "cancelBuild"
    <3> SUFFICES ASSUME NEW i \in 1..Len(r), i > 1, r[i] = "joinBuild" PROVE r[i - 1] = "cancelBuild"
      OBVIOUS
    <3>1. i + 1 \in 1..Len(q) /\ q[i + 1] = "joinBuild" /\ i + 1 > 1 /\ (i + 1) - 1 = i
      BY <1>2
    <3>2. q[i] = "cancelBuild"
      BY <3>1 DEF Handler
    <3>3. i - 1 \in 1..Len(r) /\ (i - 1) + 1 = i
      BY <1>1
    <3> QED
      BY <1>2, <3>2, <3>3
  <2>3. \A i, j, k \in Raises(r) : i = j \/ j = k \/ i = k
    <3> SUFFICES ASSUME NEW i \in Raises(r), NEW j \in Raises(r), NEW k \in Raises(r)
                 PROVE  i = j \/ j = k \/ i = k
      OBVIOUS
    <3>1. i + 1 = j + 1 \/ j + 1 = k + 1 \/ i + 1 = k + 1
      BY <1>3 DEF Handler
    <3> QED
      BY <1>3, <3>1
  <2>4. \A i \in 1..Len(r) : r[i] \in {"rebuildCaches", "startBuild", "startDetail"} => i = Len(r)
    <3> SUFFICES ASSUME NEW i \in 1..Len(r), r[i] \in {"rebuildCaches", "startBuild", "startDetail"}
                 PROVE  i = Len(r)
      OBVIOUS
    <3>1. i + 1 = Len(q)
      BY <1>2 DEF Handler
    <3> QED
      BY <1>1, <3>1
  <2> QED
    BY <1>1, <2>1, <2>2, <2>3, <2>4 DEF Handler
<1>5. ASSUME NEW names, NEW join, q[1] # join, Relies(r, names, join) PROVE Relies(q, names, join)
  <2>1. PICK i \in 1..Len(r) : r[i] \in names /\ \A j \in 1..(i - 1) : r[j] # join
    BY <1>5 DEF Relies
  <2>2. i + 1 \in 1..Len(q) /\ q[i + 1] \in names
    BY <1>2, <2>1
  <2>3. \A j \in 1..((i + 1) - 1) : q[j] # join
    <3> SUFFICES ASSUME NEW j \in 1..((i + 1) - 1), j # 1 PROVE q[j] # join
      BY <1>5
    <3>1. j - 1 \in 1..(i - 1) /\ j - 1 \in 1..Len(r) /\ (j - 1) + 1 = j
      BY <1>1
    <3> QED
      BY <1>2, <2>1, <3>1
  <2> QED
    BY <2>2, <2>3 DEF Relies
<1>6. q[1] = "cancelBuild" => ~PastBuild(r)
  <2> SUFFICES ASSUME q[1] = "cancelBuild", PastBuild(r) PROVE FALSE
    OBVIOUS
  <2>1. 1 + 1 \in 1..Len(q) /\ q[1 + 1] = "joinBuild"
    BY <1>1 DEF Handler
  <2>2. r[1] = "joinBuild" /\ 1 \in 1..Len(r)
    BY <1>1, <2>1
  <2> QED
    BY <2>2 DEF PastBuild, Relies
<1>7. q[1] # "cancelBuild" => r = <<>> \/ r[1] # "joinBuild"
  <2> SUFFICES ASSUME q[1] # "cancelBuild", r # <<>>, r[1] = "joinBuild" PROVE FALSE
    OBVIOUS
  <2>1. 2 \in 1..Len(q) /\ q[2] = "joinBuild" /\ 2 - 1 = 1 /\ 2 > 1
    BY <1>1
  <2> QED
    BY <2>1 DEF Handler
<1>8. 1 \in 1..Len(q)
  BY <1>1
<1>9. q[1] \in {"rebuildCaches", "startBuild", "startDetail"} => r = <<>>
  <2> SUFFICES ASSUME q[1] \in {"rebuildCaches", "startBuild", "startDetail"} PROVE r = <<>>
    OBVIOUS
  <2>1. 1 = Len(q)
    BY <1>8 DEF Handler
  <2> QED
    BY <1>1, <2>1
<1> QED
  BY <1>1, <1>3, <1>4, <1>5, <1>6, <1>7, <1>8, <1>9 DEF PastBuild, PastDetail, r

BuildRun == [mine : 1..MaxBuilds, source : Nat, stage : {"overview", "check", "post", "exited"},
             ok : BOOLEAN]
Tiles == [mine : 1..MaxBuilds, source : Nat, ok : BOOLEAN]

BuildRuns == buildWorker # None /\ buildWorker.stage # "exited"

\* Tiles of the build that counts are on their way, or will be.
PictureAwaited == built \in Mines(posted) \/ (BuildRuns /\ buildWorker.mine = built)

\* Nothing of the build that counts is under way.
Disowned == /\ built >= 1 /\ built \notin Mines(posted)
            /\ buildWorker # None => buildWorker.mine < built
Joined == Disowned /\ buildWorker = None /\ ~buildCancelled

\* The generations left are enough for what the handler still raises.
Budget == /\ \A i \in Raises(todo) : built + 1 <= MaxBuilds
          /\ \A i, j \in Raises(todo) : i # j => built + 2 <= MaxBuilds

CallsInv == /\ Handler(todo) /\ Budget
            /\ todo # <<>> /\ todo[1] = "joinBuild" => Disowned
            /\ PastBuild(todo) => Joined
            /\ PastDetail(todo) => detailWorker = None

RunInv == buildWorker # None =>
            /\ buildWorker \in BuildRun /\ buildWorker.mine <= built
            /\ buildCancelled => buildWorker.mine # built
            /\ buildWorker.stage # "exited" =>
                 /\ buildWorker.mine \notin Mines(posted)
                 /\ buildWorker.mine = built => buildWorker.source = source

PostedInv == /\ posted \in Seq(Tiles) /\ Distinct(posted) /\ Mines(posted) \subseteq 1..built
             /\ \A tiles \in Items(posted) : tiles.mine = built => tiles.source = source

BuildInv == /\ built \in 0..MaxBuilds /\ source \in Nat /\ building \in BOOLEAN
            /\ terminated = FALSE
            /\ CallsInv /\ RunInv /\ PostedInv
            /\ PictureAwaited => building
            /\ PictureIsOfTheSource

LEMMA BuildInitInv == BuildInit => BuildInv
<1> SUFFICES ASSUME BuildInit PROVE BuildInv
  OBVIOUS
<1>1. posted \in Seq(Tiles) /\ Distinct(posted) /\ Mines(posted) = {} /\ Items(posted) = {}
  BY NoItems DEF BuildInit
<1>2. CallsInv
  BY NothingToDo DEF BuildInit, CallsInv, FromStart, Budget
<1>3. 0 \in 0..MaxBuilds
  BY BuildAssumption
<1> QED
  BY <1>1, <1>2, <1>3 DEF BuildInit, BuildInv, RunInv, PostedInv, PictureAwaited, BuildRuns,
                         PictureIsOfTheSource

\* A handler begins, and takes nothing as done.
LEMMA CallsBegin ==
  ASSUME FromStart(todo'), UNCHANGED built,
         \A i \in Raises(todo') : built + 1 <= MaxBuilds,
         \A i, j \in Raises(todo') : i # j => built + 2 <= MaxBuilds
  PROVE  CallsInv'
BY DEF FromStart, CallsInv, Budget

\* A handler goes on: what its next call needs is known from the one before.
LEMMA CallsGo ==
  ASSUME BuildInv, todo # <<>>, todo' = Tail(todo),
         built' = built \/ (built' = built + 1 /\ todo[1] = "cancelBuild")
  PROVE  /\ Handler(todo') /\ Budget' /\ Head(todo) = todo[1]
         /\ todo[1] = "cancelBuild" => ~PastBuild(todo') /\ built + 1 <= MaxBuilds
         /\ todo[1] = "joinBuild" => todo' = <<>> \/ todo'[1] # "joinBuild"
         /\ todo[1] # "cancelBuild" => todo' = <<>> \/ todo'[1] # "joinBuild"
         /\ todo[1] # "joinBuild" /\ PastBuild(todo') => Joined
         /\ todo[1] # "joinDetail" /\ PastDetail(todo') => detailWorker = None
         /\ todo[1] \in {"rebuildCaches", "startBuild", "startDetail"} => todo' = <<>>
<1>1. /\ Handler(todo) /\ Budget /\ built \in Nat /\ MaxBuilds \in Nat
      /\ PastBuild(todo) => Joined
      /\ PastDetail(todo) => detailWorker = None
  BY BuildAssumption DEF BuildInv, CallsInv
<1>2. /\ Handler(todo') /\ Head(todo) = todo[1] /\ 1 \in 1..Len(todo)
      /\ \A i \in Raises(todo') : i + 1 \in Raises(todo) /\ i + 1 # 1
  BY <1>1, TailCalls
<1>3. todo[1] = "cancelBuild" => 1 \in Raises(todo)
  BY <1>2 DEF Raises
<1>4. \A i \in Raises(todo') : built' + 1 <= MaxBuilds
  BY <1>1, <1>2, <1>3 DEF Budget
<1>5. \A i, j \in Raises(todo') : i # j => built' + 2 <= MaxBuilds
  <2> SUFFICES ASSUME NEW i \in Raises(todo'), NEW j \in Raises(todo'), i # j
               PROVE  built' + 2 <= MaxBuilds
    OBVIOUS
  <2>1. i \in Nat /\ j \in Nat /\ i + 1 \in Raises(todo) /\ j + 1 \in Raises(todo)
        /\ i + 1 # 1 /\ j + 1 # 1
    BY <1>2 DEF Raises, Handler
  <2>2. i + 1 # j + 1
    BY <2>1
  <2>3. todo[1] # "cancelBuild"
    BY <1>1, <1>3, <2>1, <2>2 DEF Handler
  <2> QED
    BY <1>1, <2>1, <2>2, <2>3 DEF Budget
<1>6. Budget'
  BY <1>4, <1>5 DEF Budget
<1> QED
  BY <1>1, <1>2, <1>3, <1>6, TailCalls DEF Budget

\* A step that touches neither the tiles nor their worker.
LEMMA TilesUntouched ==
  ASSUME BuildInv, CallsInv',
         UNCHANGED <<source, built, building, spectra, posted, buildCancelled, buildWorker, terminated>>
  PROVE  BuildInv'
BY DEF BuildInv, RunInv, PostedInv, PictureAwaited, BuildRuns, PictureIsOfTheSource

LEMMA HandlersKeep ==
  ASSUME BuildInv,
         changeDocument \/ failEdit \/ changeSettings \/ requestSpectrogramDetail \/ closeWindow
  PROVE  BuildInv'
<1>1. /\ UNCHANGED <<source, built, building, spectra, posted, buildCancelled, buildWorker,
                     terminated, detailWorker>>
      /\ \/ MoreBuilds /\ todo' = CancelBuild \o <<"rebuildCaches">>
         \/ MoreBuilds /\ todo' = CancelBuild \o StartBuild
         \/ MoreBuilds /\ todo' = StartBuild
         \/ todo' = RequestDetail
         \/ MoreBuilds /\ todo' = CancelBuild \o CancelDetail \o <<"gone">>
  BY DEF changeDocument, failEdit, changeSettings, requestSpectrogramDetail, closeWindow, Handle,
         workerVars
<1>2. FromStart(todo') /\ (Raises(todo') = {} \/ MoreBuilds)
  BY <1>1, ChangeCalls, FailedEditCalls, StartBuildCalls, DetailCalls, CloseCalls
<1>3. built \in Nat /\ MaxBuilds \in Nat
  BY BuildAssumption DEF BuildInv
<1>4. CallsInv'
  BY <1>1, <1>2, <1>3, CallsBegin DEF MoreBuilds
<1> QED
  BY <1>1, <1>4, TilesUntouched

LEMMA TilesDelivered ==
  ASSUME BuildInv, deliverTiles
  PROVE  BuildInv'
<1>1. /\ posted # <<>> /\ posted' = Tail(posted)
      /\ UNCHANGED <<source, built, buildCancelled, buildWorker, detailWorker, terminated>>
      /\ todo = <<>> /\ todo' \in {<<>>, RequestDetail}
  BY DEF deliverTiles, workerVars, Awake
<1>2. /\ posted' \in Seq(Tiles) /\ Distinct(posted') /\ Head(posted) \in Tiles
      /\ Items(posted') \subseteq Items(posted) /\ Head(posted) \in Items(posted)
      /\ Mines(posted') \subseteq Mines(posted) \ {Head(posted).mine}
      /\ Head(posted).mine \in Mines(posted)
  BY <1>1, TakeItem DEF BuildInv, PostedInv
<1>3. FromStart(todo') /\ Raises(todo') = {}
  BY <1>1, NothingToDo, DetailCalls
<1>4. CallsInv'
  BY <1>1, <1>3, CallsBegin
<1>5. RunInv' /\ PostedInv'
  BY <1>1, <1>2 DEF BuildInv, RunInv, PostedInv
<1>6. CASE Wanted(Head(posted))
  <2>1. building' = FALSE /\ spectra' = IF Head(posted).ok THEN Head(posted) ELSE None
    BY <1>6 DEF deliverTiles
  <2>2. ~PictureAwaited'
    <3>1. built' \notin Mines(posted')
      BY <1>1, <1>2, <1>6 DEF Wanted
    <3>2. ~(BuildRuns /\ buildWorker.mine = built)
      BY <1>2, <1>6 DEF Wanted, BuildInv, RunInv, BuildRuns
    <3> QED
      BY <1>1, <3>1, <3>2 DEF PictureAwaited, BuildRuns
  <2>3. PictureIsOfTheSource'
    BY <1>1, <1>2, <1>6, <2>1 DEF Wanted, BuildInv, PostedInv, PictureIsOfTheSource, Tiles
  <2> QED
    BY <1>1, <1>4, <1>5, <2>1, <2>2, <2>3 DEF BuildInv
<1>7. CASE ~Wanted(Head(posted))
  <2>1. UNCHANGED <<spectra, building>>
    BY <1>7 DEF deliverTiles
  <2>2. PictureAwaited' => PictureAwaited
    BY <1>1, <1>2 DEF PictureAwaited, BuildRuns
  <2> QED
    BY <1>1, <1>4, <1>5, <2>1, <2>2 DEF BuildInv, PictureIsOfTheSource
<1> QED
  BY <1>6, <1>7

\* The next generation disowns whatever is under way.
LEMMA CancelKeeps ==
  ASSUME BuildInv, cancelBuild
  PROVE  BuildInv'
<1>1. /\ todo # <<>> /\ Head(todo) = "cancelBuild" /\ todo' = Tail(todo)
      /\ built' = built + 1 /\ buildCancelled' = TRUE
      /\ UNCHANGED <<source, building, spectra, posted, buildWorker, detailWorker, terminated>>
  BY DEF cancelBuild, NextIs
<1>2. todo[1] = "cancelBuild"
  BY <1>1 DEF BuildInv, CallsInv, Handler
<1>3. /\ Handler(todo') /\ Budget' /\ ~PastBuild(todo') /\ built + 1 <= MaxBuilds
      /\ PastDetail(todo') => detailWorker = None
  BY <1>1, <1>2, CallsGo
<1>4. built \in Nat /\ MaxBuilds \in Nat /\ built' \in 0..MaxBuilds /\ built' >= 1
  BY <1>1, <1>3, BuildAssumption DEF BuildInv
<1>5. built' \notin Mines(posted') /\ Mines(posted') \subseteq 1..built'
  BY <1>1, <1>4 DEF BuildInv, PostedInv
<1>6. buildWorker # None => buildWorker.mine \in Nat /\ buildWorker.mine < built'
  BY <1>1, <1>4 DEF BuildInv, RunInv, BuildRun
<1>7. Disowned' /\ ~PictureAwaited'
  BY <1>1, <1>4, <1>5, <1>6 DEF Disowned, PictureAwaited, BuildRuns
<1>8. CallsInv'
  BY <1>1, <1>3, <1>7 DEF CallsInv
<1>9. RunInv'
  BY <1>1, <1>4, <1>6 DEF BuildInv, RunInv
<1>10. PostedInv'
  BY <1>1, <1>5 DEF BuildInv, PostedInv, Mines
<1> QED
  BY <1>1, <1>4, <1>7, <1>8, <1>9, <1>10 DEF BuildInv, PictureIsOfTheSource

LEMMA JoinKeeps ==
  ASSUME BuildInv, joinBuild
  PROVE  BuildInv'
<1>1. /\ todo # <<>> /\ Head(todo) = "joinBuild" /\ todo' = Tail(todo) /\ Over(buildWorker)
      /\ buildWorker' = None /\ buildCancelled' = FALSE /\ building' = FALSE
      /\ UNCHANGED <<source, built, spectra, posted, detailWorker, terminated>>
  BY DEF joinBuild, NextIs
<1>2. todo[1] = "joinBuild" /\ Disowned
  BY <1>1 DEF BuildInv, CallsInv, Handler
<1>3. /\ Handler(todo') /\ Budget' /\ (todo' = <<>> \/ todo'[1] # "joinBuild")
      /\ PastDetail(todo') => detailWorker = None
  BY <1>1, <1>2, CallsGo
<1>4. Joined' /\ ~PictureAwaited'
  BY <1>1, <1>2 DEF Joined, Disowned, PictureAwaited, BuildRuns
<1>5. CallsInv'
  BY <1>1, <1>3, <1>4 DEF CallsInv
<1> QED
  BY <1>1, <1>4, <1>5 DEF BuildInv, RunInv, PostedInv, PictureIsOfTheSource

LEMMA RebuildKeeps ==
  ASSUME BuildInv, rebuildCaches \/ haveSource \/ cancelDetail \/ joinDetail \/ startDetail \/ gone
  PROVE  BuildInv'
<1>1. todo # <<>> /\ Head(todo) = todo[1] /\ Handler(todo) /\ 1 \in 1..Len(todo)
  BY TailCalls DEF rebuildCaches, haveSource, cancelDetail, joinDetail, startDetail, gone, NextIs,
                   Awake, BuildInv, CallsInv
<1>2. CASE rebuildCaches
  <2>1. /\ todo[1] = "rebuildCaches" /\ source' = source + 1 /\ spectra' = None
        /\ todo' \in {StartBuild, <<>>}
        /\ UNCHANGED <<built, building, posted, buildCancelled, buildWorker, detailWorker, terminated>>
    BY <1>1, <1>2 DEF rebuildCaches, workerVars
  <2>2. Joined
    <3>1. PastBuild(todo)
      BY <1>1, <2>1 DEF PastBuild, Relies
    <3> QED
      BY <3>1 DEF BuildInv, CallsInv
  <2>3. 1 \in Raises(todo)
    BY <1>1, <2>1 DEF Raises
  <2>4. FromStart(todo') /\ Raises(todo') \subseteq {1}
    BY <2>1, StartBuildCalls, NothingToDo
  <2>5. CallsInv'
    BY <2>1, <2>3, <2>4, CallsBegin DEF BuildInv, CallsInv, Budget
  <2>6. RunInv' /\ PictureIsOfTheSource'
    BY <2>1, <2>2 DEF Joined, RunInv, PictureIsOfTheSource
  <2>7. PostedInv'
    <3>1. \A tiles \in Items(posted) : tiles.mine # built
      BY <2>2 DEF Joined, Disowned, Mines
    <3> QED
      BY <2>1, <3>1 DEF BuildInv, PostedInv
  <2>8. PictureAwaited' => PictureAwaited
    BY <2>1 DEF PictureAwaited, BuildRuns
  <2> QED
    BY <2>1, <2>5, <2>6, <2>7, <2>8 DEF BuildInv
<1>3. CASE haveSource \/ cancelDetail \/ joinDetail \/ startDetail
  <2>1. UNCHANGED <<source, built, building, spectra, posted, buildCancelled, buildWorker>>
    BY <1>3 DEF haveSource, cancelDetail, joinDetail, startDetail, workerVars
  <2>2. CASE todo' = <<>> /\ haveSource
    <3>1. CallsInv'
      BY <2>1, <2>2, NothingToDo, CallsBegin
    <3> QED
      BY <2>1, <2>2, <3>1, TilesUntouched DEF haveSource, workerVars
  <2>3. CASE todo' = Tail(todo)
    <3>1. /\ Handler(todo') /\ Budget'
          /\ PastBuild(todo') /\ todo[1] # "joinBuild" => Joined
          /\ PastDetail(todo') /\ todo[1] # "joinDetail" => detailWorker = None
          /\ todo[1] # "cancelBuild" => todo' = <<>> \/ todo'[1] # "joinBuild"
          /\ todo[1] = "startDetail" => todo' = <<>>
      BY <1>1, <2>1, <2>3, CallsGo
    <3>2. todo[1] \in {"haveSource", "cancelDetail", "joinDetail", "startDetail"}
      BY <1>1, <1>3 DEF haveSource, cancelDetail, joinDetail, startDetail, NextIs
    <3>3. PastDetail(todo') => detailWorker' = None
      <4>1. CASE haveSource \/ cancelDetail
        BY <1>1, <3>1, <4>1 DEF haveSource, cancelDetail, NextIs, workerVars
      <4>2. CASE joinDetail
        BY <4>2 DEF joinDetail
      <4>3. CASE startDetail
        <5>1. todo' = <<>>
          BY <1>1, <3>1, <4>3 DEF startDetail, NextIs
        <5> QED
          BY <5>1, NothingToDo DEF FromStart
      <4> QED
        BY <1>3, <4>1, <4>2, <4>3
    <3>4. CallsInv'
      BY <2>1, <3>1, <3>2, <3>3 DEF CallsInv, Joined, Disowned
    <3>5. UNCHANGED terminated
      <4>1. CASE startDetail
        <5>1. PastDetail(todo)
          BY <1>1, <4>1 DEF startDetail, NextIs, PastDetail, Relies
        <5>2. detailWorker = None
          BY <5>1 DEF BuildInv, CallsInv
        <5> QED
          BY <4>1, <5>2 DEF startDetail, BuildInv
      <4> QED
        BY <1>3, <4>1 DEF haveSource, cancelDetail, joinDetail, workerVars
    <3> QED
      BY <2>1, <3>4, <3>5, TilesUntouched
  <2> QED
    BY <1>3, <2>2, <2>3 DEF haveSource, cancelDetail, joinDetail, startDetail, NextIs
<1>4. CASE gone
  <2>1. /\ posted' = <<>>
        /\ UNCHANGED <<source, built, building, spectra, todo, buildCancelled, buildWorker,
                       detailWorker, terminated>>
    BY <1>4 DEF gone, workerVars
  <2>2. posted' \in Seq(Tiles) /\ Distinct(posted') /\ Mines(posted') = {} /\ Items(posted') = {}
    BY <2>1, NoItems
  <2>3. CallsInv'
    BY <2>1, <2>2 DEF BuildInv, CallsInv, Budget, Joined, Disowned
  <2>4. PictureAwaited' => PictureAwaited
    BY <2>1, <2>2 DEF PictureAwaited, BuildRuns
  <2>5. RunInv' /\ PostedInv'
    BY <2>1, <2>2 DEF BuildInv, RunInv, PostedInv
  <2> QED
    BY <2>1, <2>3, <2>4, <2>5 DEF BuildInv, PictureIsOfTheSource
<1> QED
  BY <1>2, <1>3, <1>4

LEMMA StartKeeps ==
  ASSUME BuildInv, startBuild
  PROVE  BuildInv'
<1>1. /\ todo # <<>> /\ Head(todo) = "startBuild" /\ todo' = Tail(todo)
      /\ terminated' = (terminated \/ buildWorker # None)
      /\ buildWorker' = [mine |-> built, source |-> source, stage |-> "overview", ok |-> TRUE]
      /\ building' = TRUE
      /\ UNCHANGED <<source, built, spectra, posted, buildCancelled, detailWorker>>
  BY DEF startBuild, NextIs
<1>2. Handler(todo) /\ 1 \in 1..Len(todo) /\ todo[1] = "startBuild"
  BY <1>1, TailCalls DEF BuildInv, CallsInv
<1>3. Joined
  <2>1. PastBuild(todo)
    BY <1>2 DEF PastBuild, Relies
  <2> QED
    BY <2>1 DEF BuildInv, CallsInv
<1>4. todo' = <<>>
  BY <1>1, <1>2, CallsGo
<1>5. CallsInv'
  BY <1>1, <1>4, NothingToDo, CallsBegin
<1>6. terminated' = FALSE
  BY <1>1, <1>3 DEF Joined, BuildInv
<1>7. buildWorker' \in BuildRun /\ built \in 1..MaxBuilds
  BY <1>1, <1>3 DEF Joined, Disowned, BuildInv, BuildRun
<1>8. RunInv'
  BY <1>1, <1>3, <1>7 DEF RunInv, Joined, Disowned
<1> QED
  BY <1>1, <1>5, <1>6, <1>8 DEF BuildInv, PostedInv, PictureIsOfTheSource

\* A worker that runs does not disturb a handler that counts on it being gone.
LEMMA WorkerKeepsCalls ==
  ASSUME BuildInv, buildWorker # None, buildWorker'.mine = buildWorker.mine,
         UNCHANGED <<built, todo, detailWorker, buildCancelled>>,
         \/ UNCHANGED posted
         \/ Mines(posted') = Mines(posted) \cup {buildWorker.mine}
  PROVE  CallsInv'
<1>1. ~PastBuild(todo)
  BY DEF BuildInv, CallsInv, Joined
<1>2. buildWorker.mine \in Nat /\ built \in Nat
  BY DEF BuildInv, RunInv, BuildRun
<1>3. Disowned => Disowned'
  BY <1>2 DEF Disowned
<1> QED
  BY <1>1, <1>3 DEF BuildInv, CallsInv, Budget

LEMMA BuildingKeeps ==
  ASSUME BuildInv, buildOverview \/ checkBuild
  PROVE  BuildInv'
<1>1. /\ buildWorker # None /\ buildWorker.stage \in {"overview", "check"}
      /\ UNCHANGED <<source, built, building, spectra, posted, todo, buildCancelled, detailWorker,
                     terminated>>
  BY DEF buildOverview, checkBuild
<1>2. buildWorker \in BuildRun
  BY <1>1 DEF BuildInv, RunInv
<1>3. /\ buildWorker' \in BuildRun /\ buildWorker'.mine = buildWorker.mine
      /\ buildWorker'.source = buildWorker.source
  <2>1. CASE buildOverview
    <3>1. PICK ok \in BOOLEAN : buildWorker' = [buildWorker EXCEPT !.stage = "check", !.ok = ok]
      BY <2>1 DEF buildOverview
    <3> QED
      BY <1>2, <3>1 DEF BuildRun
  <2>2. CASE checkBuild
    <3>1. PICK next \in {"post", "exited"} : buildWorker' = [buildWorker EXCEPT !.stage = next]
      BY <2>2 DEF checkBuild
    <3> QED
      BY <1>2, <3>1 DEF BuildRun
  <2> QED
    BY <2>1, <2>2
<1>4. CallsInv'
  BY <1>1, <1>3, WorkerKeepsCalls
<1>5. RunInv'
  BY <1>1, <1>3 DEF BuildInv, RunInv
<1>6. PictureAwaited' => PictureAwaited
  BY <1>1, <1>3 DEF PictureAwaited, BuildRuns
<1> QED
  BY <1>1, <1>4, <1>5, <1>6 DEF BuildInv, PostedInv, PictureIsOfTheSource

LEMMA PostTilesKeeps ==
  ASSUME BuildInv, postTiles
  PROVE  BuildInv'
<1> DEFINE tiles == [mine |-> buildWorker.mine, source |-> buildWorker.source, ok |-> buildWorker.ok]
<1>1. /\ buildWorker # None /\ buildWorker.stage = "post" /\ buildWorker \in BuildRun
      /\ buildWorker.mine <= built /\ buildWorker.mine \notin Mines(posted)
      /\ posted' = Append(posted, tiles)
      /\ buildWorker' = [buildWorker EXCEPT !.stage = "exited"]
      /\ UNCHANGED <<source, built, building, spectra, todo, buildCancelled, detailWorker, terminated>>
  BY DEF postTiles, BuildInv, RunInv
<1>2. /\ tiles \in Tiles /\ tiles.mine = buildWorker.mine /\ tiles.source = buildWorker.source
      /\ buildWorker' \in BuildRun /\ buildWorker'.stage = "exited"
      /\ buildWorker'.mine = buildWorker.mine
  BY <1>1 DEF BuildRun, Tiles
<1> HIDE DEF tiles
<1>3. /\ posted' \in Seq(Tiles) /\ Distinct(posted')
      /\ Items(posted') = Items(posted) \cup {tiles}
      /\ Mines(posted') = Mines(posted) \cup {buildWorker.mine}
  BY <1>1, <1>2, PostItem DEF BuildInv, PostedInv
<1>4. buildWorker.mine = built => buildWorker.source = source /\ PictureAwaited
  BY <1>1 DEF BuildInv, RunInv, PictureAwaited, BuildRuns
<1>5. PostedInv'
  <2>1. Mines(posted') \subseteq 1..built'
    BY <1>1, <1>3 DEF BuildInv, PostedInv, BuildRun
  <2> QED
    BY <1>1, <1>2, <1>3, <1>4, <2>1 DEF BuildInv, PostedInv
<1>6. CallsInv'
  BY <1>1, <1>2, <1>3, WorkerKeepsCalls
<1>7. RunInv'
  BY <1>1, <1>2 DEF BuildInv, RunInv
<1>8. PictureAwaited' => PictureAwaited
  BY <1>1, <1>2, <1>3, <1>4 DEF PictureAwaited, BuildRuns
<1> QED
  BY <1>1, <1>5, <1>6, <1>7, <1>8 DEF BuildInv, PictureIsOfTheSource

LEMMA FetchKeeps ==
  ASSUME BuildInv, fetchDetail
  PROVE  BuildInv'
<1>1. ~PastDetail(todo)
  BY DEF fetchDetail, BuildInv, CallsInv
<1>2. CallsInv'
  BY <1>1 DEF fetchDetail, BuildInv, CallsInv, Budget, Joined, Disowned
<1> QED
  BY <1>2, TilesUntouched DEF fetchDetail

LEMMA BuildStepInv == BuildInv /\ [BuildNext]_buildVars => BuildInv'
<1> SUFFICES ASSUME BuildInv, [BuildNext]_buildVars PROVE BuildInv'
  OBVIOUS
<1>1. CASE UNCHANGED buildVars
  <2>1. CallsInv'
    BY <1>1 DEF buildVars, BuildInv, CallsInv, Budget, Joined, Disowned
  <2> QED
    BY <1>1, <2>1, TilesUntouched DEF buildVars
<1>2. CASE BuildNext
  BY <1>2, HandlersKeep, TilesDelivered, CancelKeeps, JoinKeeps, RebuildKeeps, StartKeeps,
     BuildingKeeps, PostTilesKeeps, FetchKeeps DEF BuildNext, WindowStep, BuildStep
<1> QED
  BY <1>1, <1>2

LEMMA BuildInvHolds == BuildInv => PictureIsOfTheSource /\ WorkersAreJoined
<1> SUFFICES ASSUME BuildInv PROVE PictureIsOfTheSource /\ WorkersAreJoined
  OBVIOUS
<1>1. Gone => PastBuild(todo) /\ PastDetail(todo)
  BY DEF Gone, PastBuild, PastDetail, Relies
<1>2. Gone => buildWorker = None /\ detailWorker = None
  BY <1>1 DEF BuildInv, CallsInv, Joined
<1> QED
  BY <1>2 DEF BuildInv, RunInv, WorkersAreJoined

\* The window's picture of the document implements LatestAnswer.
PictureAsked == IF building THEN built ELSE None
PictureShown == IF spectra = None THEN None ELSE spectra.mine

LEMMA PictureAnswerInit == BuildInit => Picture!Init
BY DEF BuildInit, Picture!Init

LEMMA PictureAnswerStep ==
  BuildInv /\ [BuildNext]_buildVars => [Picture!Next]_<<PictureAsked, PictureShown>>
<1> SUFFICES ASSUME BuildInv, [BuildNext]_buildVars
             PROVE  [Picture!Next]_<<PictureAsked, PictureShown>>
  OBVIOUS
<1>1. CASE UNCHANGED <<building, built, spectra>>
  BY <1>1 DEF PictureAsked, PictureShown
<1>2. CASE deliverTiles
  <2>1. CASE Wanted(Head(posted))
    <3>1. /\ building' = FALSE /\ spectra' = IF Head(posted).ok THEN Head(posted) ELSE None
          /\ Head(posted).mine = built /\ Head(posted).mine \in Mines(posted)
      BY <1>2, <2>1, TakeItem DEF deliverTiles, Wanted, BuildInv, PostedInv
    <3>2. building /\ built # None
      BY <3>1, AbsenceAssumption DEF BuildInv, PictureAwaited
    <3>3. PictureAsked # None /\ PictureAsked' = None /\ PictureShown' \in {PictureAsked, None}
      BY <3>1, <3>2 DEF PictureAsked, PictureShown
    <3> QED
      BY <3>3 DEF Picture!Next, Picture!Answer, PictureAsked, PictureShown
  <2>2. CASE ~Wanted(Head(posted))
    BY <1>1, <1>2, <2>2 DEF deliverTiles
  <2> QED
    BY <2>1, <2>2
<1>3. CASE cancelBuild
  <2>1. built' = built + 1 /\ UNCHANGED <<building, spectra>>
    BY <1>3 DEF cancelBuild
  <2>2. CASE building
    <3>1. built' \in 1..MaxBuilds
      <4>1. BuildInv'
        BY <1>3, CancelKeeps
      <4>2. built' \in 0..MaxBuilds /\ built \in 0..MaxBuilds
        BY <4>1 DEF BuildInv
      <4> QED
        BY <2>1, <4>2, BuildAssumption
    <3>2. PictureAsked' = built' /\ PictureShown' = PictureShown
      BY <2>1, <2>2 DEF PictureAsked, PictureShown
    <3> QED
      BY <3>1, <3>2 DEF Picture!Next, Picture!Ask, PictureAsked, PictureShown
  <2>3. CASE ~building
    BY <2>1, <2>3 DEF PictureAsked, PictureShown
  <2> QED
    BY <2>2, <2>3
<1>4. CASE joinBuild
  <2>1. PictureAsked' = None /\ PictureShown' = PictureShown
    BY <1>4 DEF joinBuild, PictureAsked, PictureShown
  <2> QED
    BY <2>1 DEF Picture!Next, Picture!Withdraw, PictureAsked, PictureShown
<1>5. CASE startBuild
  <2>1. building' = TRUE /\ UNCHANGED <<built, spectra>> /\ todo # <<>> /\ Head(todo) = "startBuild"
    BY <1>5 DEF startBuild, NextIs
  <2>2. Joined
    <3>1. Handler(todo) /\ 1 \in 1..Len(todo) /\ todo[1] = "startBuild"
      BY <2>1, TailCalls DEF BuildInv, CallsInv
    <3>2. PastBuild(todo)
      BY <3>1 DEF PastBuild, Relies
    <3> QED
      BY <3>2 DEF BuildInv, CallsInv
  <2>3. built' \in 1..MaxBuilds /\ PictureAsked' = built' /\ PictureShown' = PictureShown
    BY <2>1, <2>2 DEF Joined, Disowned, BuildInv, PictureAsked, PictureShown
  <2> QED
    BY <2>3 DEF Picture!Next, Picture!Ask, PictureAsked, PictureShown
<1>6. CASE rebuildCaches
  <2>1. PictureShown' = None /\ PictureAsked' = PictureAsked
    BY <1>6 DEF rebuildCaches, PictureAsked, PictureShown
  <2> QED
    BY <2>1 DEF Picture!Next, Picture!TakeDown, PictureAsked, PictureShown
<1>7. CASE UNCHANGED buildVars \/ changeDocument \/ failEdit \/ changeSettings
           \/ requestSpectrogramDetail \/ closeWindow \/ haveSource \/ cancelDetail \/ joinDetail
           \/ startDetail \/ gone \/ BuildStep \/ fetchDetail
  BY <1>1, <1>7 DEF buildVars, changeDocument, failEdit, changeSettings, requestSpectrogramDetail,
                    closeWindow, Handle, haveSource, cancelDetail, joinDetail, startDetail, gone,
                    BuildStep, buildOverview, checkBuild, postTiles, fetchDetail
<1> QED
  BY <1>2, <1>3, <1>4, <1>5, <1>6, <1>7 DEF BuildNext, WindowStep
-----------------------------------------------------------------------------
(* The window.  A command that waits for the meters is disturbed by any    *)
(* gesture; until then it is the only one that waits, and what the meters  *)
(* measure, or show, is what is on screen.                                 *)

DocumentRecord == [version : Nat, format : Formats]
PlayerRecord == [device : Formats, playing : BOOLEAN, to : Nat, position : Nat, short : BOOLEAN]

WindowTypes ==
  /\ hasDocument => document \in DocumentRecord
  /\ selection \in Nat \X Nat
  /\ player # None => player \in PlayerRecord
  /\ waits \in Seq({"loop", "events"})
  /\ waits # <<>> => hasDocument
  /\ disturbed \in BOOLEAN

\* With no measurement behind the timer, the figures are those of the screen.
MeasuresTheScreen ==
  hasDocument /\ ~analysisTimer => \/ asked = Current
                                   \/ asked = None /\ shown \in {None, Current}

Undisturbed == ~disturbed /\ waits # <<>> =>
                 /\ Len(waits) = 1 /\ hasDocument /\ ~analysisTimer
                 /\ waits[1] = "events" => asked = None

WindowInv == /\ WindowTypes /\ ButtonTellsTheTruth
             /\ MeasuresTheScreen /\ Undisturbed /\ UndisturbedConform

LEMMA WindowInitInv == WindowInit => WindowInv
<1> SUFFICES ASSUME WindowInit PROVE WindowInv
  OBVIOUS
<1>1. WindowTypes
  <2>1. <<0, 0>> \in Nat \X Nat /\ <<>> \in Seq({"loop", "events"})
    OBVIOUS
  <2> QED
    BY <2>1 DEF WindowInit, WindowTypes, hasDocument
<1>2. ButtonTellsTheTruth
  BY DEF WindowInit, ButtonTellsTheTruth, Playing
<1> QED
  BY <1>1, <1>2 DEF WindowInit, WindowInv, MeasuresTheScreen, Undisturbed, UndisturbedConform,
                    hasDocument

\* What is on screen is a question, and no absence of one.
LEMMA CurrentIsAQuestion ==
  ASSUME WindowTypes, hasDocument
  PROVE  Current # None
<1>1. targetRange \in Nat \X Nat /\ document.version \in Nat
  BY WindowAssumption DEF WindowTypes, targetRange, DocumentRecord
<1>2. Current \in [version : Nat, range : Nat \X Nat]
  BY <1>1 DEF Current
<1> QED
  BY <1>2, WindowAssumption

\* Stopping leaves button, playhead and device in agreement.
LEMMA StoppingIsTold ==
  ASSUME WindowTypes, stopPlayback
  PROVE  ButtonTellsTheTruth' /\ (player' # None => player' \in PlayerRecord)
<1>1. player' # None => player' \in PlayerRecord /\ player'.playing = FALSE
  BY DEF stopPlayback, WindowTypes, PlayerRecord
<1>2. Playing' = FALSE
  BY <1>1 DEF Playing
<1> QED
  BY <1>1, <1>2 DEF stopPlayback, ButtonTellsTheTruth

\* Another document: it has been measured in no way.
LEMMA ChangedKeeps ==
  ASSUME WindowInv, NEW format \in Formats, Changed(format),
         waits' \in Seq({"loop", "events"}), disturbed' \in BOOLEAN,
         waits' = <<>> \/ disturbed', UndisturbedConform'
  PROVE  WindowInv'
<1>1. /\ document' = [version |-> IF hasDocument THEN document.version + 1 ELSE 1,
                      format |-> format]
      /\ analysisTimer' = TRUE /\ stopPlayback /\ UNCHANGED selection
  BY DEF Changed
<1>2. document' \in DocumentRecord
  BY <1>1 DEF WindowInv, WindowTypes, DocumentRecord
<1>3. ButtonTellsTheTruth' /\ (player' # None => player' \in PlayerRecord)
  BY <1>1, StoppingIsTold DEF WindowInv
<1>4. WindowTypes'
  <2>1. document' # None
    BY <1>2, WindowAssumption DEF DocumentRecord
  <2> QED
    BY <1>1, <1>2, <1>3, <2>1 DEF WindowInv, WindowTypes, hasDocument
<1> QED
  BY <1>1, <1>3, <1>4 DEF WindowInv, MeasuresTheScreen, Undisturbed

\* A step that leaves the question, the figures and the commands alone.
LEMMA PlaybackKeeps ==
  ASSUME WindowInv, UNCHANGED <<document, selection, analysisTimer, asked, shown, waits, conformed>>,
         UNCHANGED disturbed \/ disturbed' = (waits # <<>>),
         ButtonTellsTheTruth', player' # None => player' \in PlayerRecord
  PROVE  WindowInv'
<1>1. disturbed' \in BOOLEAN
  BY DEF WindowInv, WindowTypes
<1>2. WindowTypes'
  BY <1>1 DEF WindowInv, WindowTypes, hasDocument
<1>3. MeasuresTheScreen' /\ UndisturbedConform'
  BY DEF WindowInv, MeasuresTheScreen, UndisturbedConform, hasDocument, Current, targetRange
<1>4. Undisturbed'
  BY DEF WindowInv, Undisturbed, hasDocument
<1> QED
  BY <1>2, <1>3, <1>4 DEF WindowInv

LEMMA EditKeeps ==
  ASSUME WindowInv, edit \/ \E format \in Formats : open(format)
  PROVE  WindowInv'
<1>1. disturbed' = (waits # <<>>) /\ UNCHANGED <<waits, conformed>>
  BY DEF edit, open, Gesture
<1>2. /\ waits' \in Seq({"loop", "events"}) /\ disturbed' \in BOOLEAN
      /\ waits' = <<>> \/ disturbed'
  BY <1>1 DEF WindowInv, WindowTypes
<1>3. UndisturbedConform'
  BY <1>1 DEF WindowInv, UndisturbedConform
<1>4. ASSUME NEW format \in Formats, Changed(format) PROVE WindowInv'
  BY <1>2, <1>3, <1>4, ChangedKeeps
<1>5. hasDocument => document.format \in Formats
  BY DEF WindowInv, WindowTypes, DocumentRecord
<1>6. CASE stopPlayback /\ UNCHANGED <<document, selection, analysisTimer, asked, shown, reselected>>
  <2>1. ButtonTellsTheTruth' /\ (player' # None => player' \in PlayerRecord)
    BY <1>6, StoppingIsTold DEF WindowInv
  <2> QED
    BY <1>1, <1>6, <2>1, PlaybackKeeps
<1> QED
  BY <1>4, <1>5, <1>6 DEF edit, open

LEMMA SelectionKeeps ==
  ASSUME WindowInv, NEW s \in Selections, selectionChanged(s)
  PROVE  WindowInv'
<1>1. /\ selection' = s /\ analysisTimer' = TRUE /\ disturbed' = (waits # <<>>)
      /\ UNCHANGED <<document, asked, shown, player, playheadTimer, playAction, waits, conformed>>
  BY DEF selectionChanged, Gesture
<1>2. disturbed' \in BOOLEAN /\ s \in Nat \X Nat
  BY <1>1, WindowAssumption
<1>3. WindowTypes'
  BY <1>1, <1>2 DEF WindowInv, WindowTypes, hasDocument
<1>4. ButtonTellsTheTruth' /\ UndisturbedConform'
  BY <1>1 DEF WindowInv, ButtonTellsTheTruth, Playing, UndisturbedConform
<1> QED
  BY <1>1, <1>3, <1>4 DEF WindowInv, MeasuresTheScreen, Undisturbed

LEMMA MeasuringKeeps ==
  ASSUME WindowInv, analysisTimerFires \/ metersAnswer
  PROVE  WindowInv'
<1>1. UNCHANGED <<document, selection, player, playheadTimer, playAction, waits, disturbed, conformed>>
  BY DEF analysisTimerFires, metersAnswer
<1>2. WindowTypes' /\ ButtonTellsTheTruth' /\ UndisturbedConform' /\ Current' = Current
      /\ hasDocument' = hasDocument
  BY <1>1 DEF WindowInv, WindowTypes, hasDocument, ButtonTellsTheTruth, Playing, UndisturbedConform,
              Current, targetRange
<1>3. CASE analysisTimerFires
  <2>1. analysisTimer /\ analysisTimer' = FALSE /\ asked' = Current /\ UNCHANGED shown
    BY <1>3 DEF analysisTimerFires, reanalyseNow
  <2> QED
    BY <1>1, <1>2, <2>1 DEF WindowInv, MeasuresTheScreen, Undisturbed
<1>4. CASE metersAnswer
  <2>1. asked # None /\ shown' \in {asked, None} /\ asked' = None /\ UNCHANGED analysisTimer
    BY <1>4 DEF metersAnswer, MetersAbstract!Answer
  <2> QED
    BY <1>1, <1>2, <2>1 DEF WindowInv, MeasuresTheScreen, Undisturbed
<1> QED
  BY <1>3, <1>4

LEMMA PlayKeeps ==
  ASSUME WindowInv, play(document.format)
  PROVE  WindowInv'
<1>1. /\ UNCHANGED <<document, selection, analysisTimer, asked, shown, waits, conformed>>
      /\ disturbed' = (waits # <<>>) /\ ~Playing /\ document \in DocumentRecord
  BY DEF play, Gesture, WindowInv, WindowTypes
<1>2. CASE UNCHANGED <<player, playheadTimer, playAction>>
  <2>1. ButtonTellsTheTruth' /\ (player' # None => player' \in PlayerRecord)
    BY <1>2 DEF WindowInv, WindowTypes, ButtonTellsTheTruth, Playing
  <2> QED
    BY <1>1, <2>1, PlaybackKeeps
<1>3. CASE ~UNCHANGED <<player, playheadTimer, playAction>>
  <2> DEFINE opened == IF player = None THEN [device |-> document.format, playing |-> FALSE,
                                              to |-> 0, position |-> 0, short |-> FALSE]
                                        ELSE player
             runs == PlayRange[1] < PlayRange[2] /\ document.format = opened.device
  <2>1. /\ player' = IF runs THEN [opened EXCEPT !.playing = TRUE, !.to = PlayRange[2],
                                                 !.position = PlayRange[1], !.short = FALSE]
                             ELSE opened
        /\ playheadTimer' = runs /\ playAction' = IF runs THEN "Stop" ELSE "Play"
    BY <1>3 DEF play
  <2>2. opened \in PlayerRecord /\ opened.playing = FALSE
    BY <1>1 DEF WindowInv, WindowTypes, PlayerRecord, DocumentRecord, Playing
  <2>3. PlayRange[1] \in Nat /\ PlayRange[2] \in Nat
    BY WindowAssumption DEF WindowInv, WindowTypes, PlayRange
  <2> HIDE DEF opened
  <2>4. player' \in PlayerRecord /\ player'.playing = runs
    <3>1. CASE runs
      BY <2>1, <2>2, <2>3, <3>1 DEF PlayerRecord
    <3>2. CASE ~runs
      BY <2>1, <2>2, <3>2
    <3> QED
      BY <3>1, <3>2
  <2>5. player' # None
    BY <2>4, WindowAssumption DEF PlayerRecord
  <2>6. Playing' = runs
    BY <2>4, <2>5 DEF Playing
  <2> HIDE DEF runs
  <2>7. ButtonTellsTheTruth'
    BY <2>1, <2>6 DEF ButtonTellsTheTruth
  <2> QED
    BY <1>1, <2>4, <2>7, PlaybackKeeps
<1> QED
  BY <1>2, <1>3

LEMMA StopAndFollowKeep ==
  ASSUME WindowInv, pressStop \/ sourceFails \/ callback \/ followPlayhead
  PROVE  WindowInv'
<1>1. /\ UNCHANGED <<document, selection, analysisTimer, asked, shown, waits, conformed>>
      /\ UNCHANGED disturbed \/ disturbed' = (waits # <<>>)
  BY DEF pressStop, sourceFails, callback, followPlayhead, Gesture
<1>2. ButtonTellsTheTruth' /\ (player' # None => player' \in PlayerRecord)
  <2>1. CASE stopPlayback
    BY <2>1, StoppingIsTold DEF WindowInv
  <2>2. CASE callback \/ sourceFails
    <3>1. Playing /\ UNCHANGED <<playheadTimer, playAction>>
      BY <2>2 DEF callback, sourceFails
    <3>2. player \in PlayerRecord /\ player # None /\ player.playing
      BY <3>1 DEF Playing, WindowInv, WindowTypes
    <3>3. player' \in PlayerRecord /\ player'.playing = player.playing
      <4>1. CASE callback
        <5>1. PICK next \in Nat : player' = [player EXCEPT !.position = next]
          BY <3>2, <4>1 DEF callback, PlayerRecord
        <5> QED
          BY <3>2, <5>1 DEF PlayerRecord
      <4>2. CASE sourceFails
        <5>1. PICK end \in player.position .. player.to - 1 :
                player' = [player EXCEPT !.to = end, !.short = TRUE]
          BY <4>2 DEF sourceFails
        <5>2. player.position \in Nat /\ player.to \in Nat
          BY <3>2 DEF PlayerRecord
        <5>3. end \in Nat
          BY <5>1, <5>2
        <5> QED
          BY <3>2, <5>1, <5>3 DEF PlayerRecord
      <4> QED
        BY <2>2, <4>1, <4>2
    <3>4. player' # None
      BY <3>3, WindowAssumption DEF PlayerRecord
    <3>5. Playing' = Playing
      BY <3>2, <3>3, <3>4 DEF Playing
    <3> QED
      BY <3>1, <3>3, <3>5 DEF WindowInv, ButtonTellsTheTruth
  <2> QED
    BY <2>1, <2>2 DEF pressStop, followPlayhead
<1> QED
  BY <1>1, <1>2, PlaybackKeeps

LEMMA NormaliseKeeps ==
  ASSUME WindowInv, normaliseToTarget
  PROVE  WindowInv'
<1>1. /\ hasDocument /\ disturbed' = (waits # <<>>) /\ waits' = Append(waits, "loop")
      /\ UNCHANGED <<document, selection, player, playheadTimer, playAction, conformed, shown>>
      /\ analysisTimer' = FALSE \/ ~analysisTimer'
  BY DEF normaliseToTarget, Gesture, reanalyseNow
<1>2. waits \in Seq({"loop", "events"}) /\ waits' \in Seq({"loop", "events"}) /\ disturbed' \in BOOLEAN
  BY <1>1 DEF WindowInv, WindowTypes
<1>3. waits = <<>> => Len(waits') = 1 /\ waits'[1] = "loop"
  BY <1>1, <1>2
<1>4. WindowTypes' /\ ButtonTellsTheTruth' /\ UndisturbedConform' /\ Current' = Current /\ hasDocument'
  BY <1>1, <1>2 DEF WindowInv, WindowTypes, hasDocument, ButtonTellsTheTruth, Playing,
                    UndisturbedConform, Current, targetRange
<1>5. ~analysisTimer' /\ MeasuresTheScreen'
  BY <1>1, <1>4 DEF normaliseToTarget, reanalyseNow, WindowInv, MeasuresTheScreen
<1>6. Undisturbed'
  BY <1>1, <1>3, <1>4, <1>5 DEF Undisturbed
<1> QED
  BY <1>4, <1>5, <1>6 DEF WindowInv

LEMMA FewerWaits ==
  ASSUME NEW S, NEW q \in Seq(S), q # <<>>
  PROVE  SubSeq(q, 1, Len(q) - 1) \in Seq(S) /\ Len(SubSeq(q, 1, Len(q) - 1)) = Len(q) - 1
<1>1. Len(q) \in Nat \ {0} /\ \A i \in 1..(Len(q) - 1) : q[i] \in S
  OBVIOUS
<1> DEFINE n == Len(q) - 1
<1>2. n \in Int /\ n >= 0 /\ 1 \in Int /\ \A i \in 1..n : q[i] \in S
  BY <1>1
<1> HIDE DEF n
<1>3. SubSeq(q, 1, n) \in Seq(S) /\ Len(SubSeq(q, 1, n)) = IF 1 <= n THEN n - 1 + 1 ELSE 0
  BY <1>2, SubSeqProperties
<1>4. SubSeq(q, 1, n) \in Seq(S) /\ Len(SubSeq(q, 1, n)) = n
  BY <1>2, <1>3
<1> QED
  BY <1>4 DEF n

LEMMA WaitsKeep ==
  ASSUME WindowInv, waitEnds \/ nothingToConform
  PROVE  WindowInv'
<1>1. UNCHANGED <<document, selection, analysisTimer, asked, shown, player, playheadTimer,
                  playAction, disturbed, conformed>>
  BY DEF waitEnds, nothingToConform
<1>2. waits \in Seq({"loop", "events"}) /\ waits # <<>> /\ Len(waits) \in Nat \ {0}
  BY DEF waitEnds, nothingToConform, Innermost, WindowInv, WindowTypes
<1>3. /\ waits' \in Seq({"loop", "events"})
      /\ \/ Len(waits') = Len(waits) /\ asked = None
         \/ Len(waits') = Len(waits) - 1
  <2>1. CASE waitEnds
    BY <1>2, <2>1 DEF waitEnds
  <2>2. CASE nothingToConform
    BY <1>2, <2>2, FewerWaits DEF nothingToConform, Return
  <2> QED
    BY <2>1, <2>2
<1>4. WindowTypes' /\ ButtonTellsTheTruth' /\ MeasuresTheScreen' /\ UndisturbedConform'
      /\ hasDocument' = hasDocument
  BY <1>1, <1>3 DEF WindowInv, WindowTypes, hasDocument, ButtonTellsTheTruth, Playing,
                    MeasuresTheScreen, Current, targetRange, UndisturbedConform
<1>5. Undisturbed'
  <2> SUFFICES ASSUME ~disturbed', waits' # <<>>
               PROVE  Len(waits') = 1 /\ hasDocument' /\ ~analysisTimer' /\ asked' = None
    BY DEF Undisturbed
  <2>1. Len(waits) = 1 /\ hasDocument /\ ~analysisTimer
    BY <1>1, <1>2 DEF WindowInv, Undisturbed
  <2>2. Len(waits') # 0
    BY <1>3
  <2> QED
    BY <1>1, <1>3, <1>4, <2>1, <2>2
<1> QED
  BY <1>4, <1>5 DEF WindowInv

LEMMA ConformKeeps ==
  ASSUME WindowInv, conform
  PROVE  WindowInv'
<1>1. /\ waits # <<>> /\ waits[Len(waits)] = "events" /\ shown # None
      /\ waits' = SubSeq(waits, 1, Len(waits) - 1)
      /\ conformed' = [measured |-> shown, changed |-> Current, disturbed |-> disturbed]
      /\ Changed(document.format) /\ UNCHANGED disturbed
  BY DEF conform, Innermost, Return
<1>2. waits \in Seq({"loop", "events"}) /\ Len(waits) \in Nat \ {0} /\ disturbed \in BOOLEAN
  BY <1>1 DEF WindowInv, WindowTypes
<1>3. ~disturbed => /\ Len(waits) = 1 /\ hasDocument /\ ~analysisTimer /\ asked = None
  BY <1>1 DEF WindowInv, Undisturbed
<1>4. waits' \in Seq({"loop", "events"}) /\ (waits' = <<>> \/ disturbed')
  BY <1>1, <1>2, <1>3
<1>5. ~disturbed => shown = Current
  BY <1>1, <1>3, CurrentIsAQuestion DEF WindowInv, MeasuresTheScreen
<1>6. UndisturbedConform'
  BY <1>1, <1>5 DEF UndisturbedConform
<1>7. hasDocument
  BY <1>1 DEF WindowInv, WindowTypes
<1> QED
  BY <1>1, <1>2, <1>4, <1>6, <1>7, ChangedKeeps DEF WindowInv, WindowTypes, DocumentRecord

LEMMA WindowStepInv == WindowInv /\ [WindowNext]_windowVars => WindowInv'
<1> SUFFICES ASSUME WindowInv, [WindowNext]_windowVars PROVE WindowInv'
  OBVIOUS
<1>1. CASE UNCHANGED windowVars
  <2>1. ButtonTellsTheTruth' /\ (player' # None => player' \in PlayerRecord)
    BY <1>1 DEF windowVars, WindowInv, WindowTypes, ButtonTellsTheTruth, Playing
  <2> QED
    BY <1>1, <2>1, PlaybackKeeps DEF windowVars
<1>2. CASE WindowNext
  BY <1>2, EditKeeps, SelectionKeeps, MeasuringKeeps, PlayKeeps, StopAndFollowKeep, NormaliseKeeps,
     WaitsKeep, ConformKeeps DEF WindowNext
<1> QED
  BY <1>1, <1>2
-----------------------------------------------------------------------------
(* All of them.                                                            *)

WorkersInv == MetersInv /\ MusicalInv /\ BuildInv /\ WindowInv

workersVars == <<actor, meterVars, musicalVars, buildVars, windowVars>>

LEMMA WorkersInitInv == WorkersInit => WorkersInv
BY MetersInitInv, MusicalInitInv, BuildInitInv, WindowInitInv DEF WorkersInit, WorkersInv

\* A step of the model is a step or a stutter of each.
LEMMA WorkersStep ==
  [WorkersNext]_workersVars =>
    /\ [MetersNext]_meterVars /\ [MusicalNext]_musicalVars
    /\ [BuildNext]_buildVars /\ [WindowNext]_windowVars
BY DEF WorkersNext, workersVars

LEMMA WorkersStepInv == WorkersInv /\ [WorkersNext]_workersVars => WorkersInv'
BY WorkersStep, MetersStepInv, MusicalStepInv, BuildStepInv, WindowStepInv DEF WorkersInv

\* The inductive invariants of the panels, the spectrogram and the window hold
\* in every state.
THEOREM WorkersInvAlways == WorkersSpec => []WorkersInv
BY WorkersInitInv, WorkersStepInv, PTL DEF WorkersSpec, workersVars

\* However the user's calls, the workers and the event loop interleave, a figure
\* on screen is of a run that read everything and was not cancelled half way,
\* and the picture is of the copy of the document the window holds.
THEOREM AnswersAreWhole == WorkersSpec => []OnlyWholeAnswers
<1>1. WorkersInv => OnlyWholeAnswers
  BY MusicalInvHolds, BuildInvHolds DEF WorkersInv, MetersInv, OnlyWholeAnswers
<1> QED
  BY <1>1, WorkersInvAlways, PTL

\* A worker is joined before the panel or the window whose members it uses is
\* destroyed, before its thread object is assigned, and before the token that
\* cancelled it is cleared for the next one.
THEOREM WorkersAlwaysEndFirst == WorkersSpec => []WorkersEndFirst
<1>1. WorkersInv => WorkersEndFirst
  BY MusicalInvHolds, BuildInvHolds DEF WorkersInv, WorkersEndFirst
<1> QED
  BY <1>1, WorkersInvAlways, PTL

\* The play button, the playhead's timer and the device agree, and a
\* normalisation during whose wait the user did nothing changes what was
\* measured, though the wait runs the event loop.
THEOREM WindowAlwaysKeepsItsWord == WorkersSpec => []WindowKeepsItsWord
<1>1. WorkersInv => WindowKeepsItsWord
  BY DEF WorkersInv, WindowInv, WindowKeepsItsWord
<1> QED
  BY <1>1, WorkersInvAlways, PTL

\* The meters, the musical analysis and the spectrogram implement LatestAnswer:
\* whatever results of earlier questions are still on their way, what is on
\* screen only ever changes to the answer of the question asked last.
THEOREM LatestIsAnswered == WorkersSpec => AnswersTheLatest
<1>1. WorkersInit => Meters!Init /\ Musical!Init /\ Picture!Init
  BY MetersAnswerInit, MusicalAnswerInit, PictureAnswerInit DEF WorkersInit
<1>2. WorkersInv /\ [WorkersNext]_workersVars =>
        /\ [Meters!Next]_<<MetersAsked, MetersShown>>
        /\ [Musical!Next]_<<MusicalAsked, MusicalShown>>
        /\ [Picture!Next]_<<PictureAsked, PictureShown>>
  BY WorkersStep, MetersAnswerStep, MusicalAnswerStep, PictureAnswerStep DEF WorkersInv
<1> QED
  BY <1>1, <1>2, WorkersInvAlways, PTL
  DEF WorkersSpec, workersVars, AnswersTheLatest, Meters!Spec, Musical!Spec, Picture!Spec,
      MetersAsked, MetersShown, MusicalAsked, MusicalShown, PictureAsked, PictureShown
=============================================================================
