------------------------------- MODULE Window --------------------------------
(* What the window does about an open document between its edits. It draws it: *)
(* a worker builds an overview of the spectrogram's tiles, and a worker        *)
(* fetches the detail under the view. Each has one cancellation token in the   *)
(* window that outlives it, so the window waits for a worker before it resets  *)
(* the token or starts another.                                                *)
(*                                                                             *)
(* And it measures the selection a quarter of a second after the last change,  *)
(* plays from it, and normalises it to a target by the figures of the meters.  *)
(* Waiting for those figures runs the event loop, so the user may act inside a *)
(* command that has not finished. The meters are taken at their word           *)
(* (LatestAnswer).                                                             *)
EXTENDS Integers, Sequences, Panels
-----------------------------------------------------------------------------
(* The spectrogram.                                                            *)

CONSTANTS MaxVersions,     \* bound on the documents an edit or an open makes
          MaxBuilds        \* bound on the generations of the build

ASSUME BuildAssumption == MaxVersions \in Nat /\ MaxBuilds \in Nat

VARIABLES source,          \* the document documentSource_ is a copy of, counted; 0 before one is open
          built,           \* spectrogramGeneration_
          buildCancelled, buildWorker,    \* spectrogramCancellation_, spectrogramWorker_
          building,                       \* spectrogramBusy_
          spectra,                        \* the build and source of spectra_, or None
          detailCancelled, detailWorker,  \* detailCancellation_, detailWorker_
          posted,                         \* built tiles on their way to the event loop
          todo,            \* the calls the window is in the middle of
          terminated       \* std::terminate: a thread object lost its running thread

buildVars == <<source, built, buildCancelled, buildWorker, building, spectra,
               detailCancelled, detailWorker, posted, todo, terminated>>

workerVars == <<buildCancelled, buildWorker, detailCancelled, detailWorker, terminated>>

BuildInit == /\ source = 0 /\ built = 0
             /\ buildCancelled = FALSE /\ buildWorker = None /\ building = FALSE
             /\ spectra = None /\ detailCancelled = FALSE /\ detailWorker = None
             /\ posted = <<>> /\ todo = <<>> /\ terminated = FALSE
-----------------------------------------------------------------------------
(* The window's thread. A handler is the list of the calls it makes; a call    *)
(* that joins a worker blocks the list.                                        *)

CancelBuild == <<"cancelBuild", "joinBuild">>
\* Mutant: the worker is cancelled and not waited for.
CancelDetail_NoJoin == <<"cancelDetail">>

CancelDetail == <<"cancelDetail", "joinDetail">>
StartBuild == CancelBuild \o <<"haveSource">> \o CancelDetail \o <<"startBuild">>
RequestDetail == CancelDetail \o <<"startDetail">>

Awake == todo = <<>>

\* An open, an edit or an undo that succeeds, one that fails and puts the
\* analysis back, and a change of the analysis' settings.
Handle(calls) ==
  /\ Awake /\ todo' = calls
  /\ UNCHANGED <<source, built, building, spectra, posted, workerVars>>

\* The bound leaves room for a handler to finish.
MoreBuilds == built + 2 <= MaxBuilds

changeDocument == /\ source < MaxVersions /\ MoreBuilds
                  /\ Handle(CancelBuild \o <<"rebuildCaches">>)
failEdit == MoreBuilds /\ source # 0 /\ Handle(CancelBuild \o StartBuild)
changeSettings == MoreBuilds /\ Handle(StartBuild)

\* The view moved, or its timer fired: detail is fetched when there are tiles
\* to fetch it for and it would be seen.
requestSpectrogramDetail == spectra # None /\ Handle(RequestDetail)

closeWindow == MoreBuilds /\ Handle(CancelBuild \o CancelDetail \o <<"gone">>)

\* Mutant: the posted call is not checked again on the window's thread.
Wanted_Always(tiles) == tiles # None

Wanted(tiles) == built = tiles.mine

deliverTiles ==
  /\ Awake /\ posted # <<>> /\ posted' = Tail(posted)
  /\ LET tiles == Head(posted) IN
     IF Wanted(tiles)
     THEN /\ spectra' = IF tiles.ok THEN tiles ELSE None
          /\ building' = FALSE
          /\ \E worthwhile \in BOOLEAN :
               todo' = IF tiles.ok /\ worthwhile THEN RequestDetail ELSE <<>>
     ELSE UNCHANGED <<spectra, building, todo>>
  /\ UNCHANGED <<source, built, workerVars>>

NextIs(name) == todo # <<>> /\ Head(todo) = name /\ todo' = Tail(todo)

cancelBuild == /\ NextIs("cancelBuild")
               /\ built' = built + 1 /\ buildCancelled' = TRUE
               /\ UNCHANGED <<source, building, spectra, posted, buildWorker,
                              detailCancelled, detailWorker, terminated>>

Over(worker) == worker # None => worker.stage = "exited"

\* Mutant: a build that is given up for an empty document leaves the window busy.
joinBuild_StaysBusy == /\ NextIs("joinBuild") /\ Over(buildWorker)
                       /\ buildWorker' = None /\ buildCancelled' = FALSE
                       /\ UNCHANGED <<source, built, building, spectra, posted, detailCancelled,
                                      detailWorker, terminated>>

joinBuild == /\ NextIs("joinBuild") /\ Over(buildWorker)
             /\ buildWorker' = None /\ buildCancelled' = FALSE /\ building' = FALSE
             /\ UNCHANGED <<source, built, spectra, posted, detailCancelled,
                            detailWorker, terminated>>

\* A new copy of the document and nothing drawn of it yet. An empty document,
\* or one whose peaks cannot be computed, has no picture.
rebuildCaches ==
  /\ ~Awake /\ Head(todo) = "rebuildCaches"
  /\ source' = source + 1 /\ spectra' = None
  /\ \E drawn \in BOOLEAN : todo' = IF drawn THEN StartBuild ELSE <<>>
  /\ UNCHANGED <<built, building, posted, workerVars>>

\* The early return of startSpectrogramBuild.
haveSource ==
  /\ ~Awake /\ Head(todo) = "haveSource"
  /\ todo' = IF source = 0 THEN <<>> ELSE Tail(todo)
  /\ UNCHANGED <<source, built, building, spectra, posted, workerVars>>

cancelDetail == /\ NextIs("cancelDetail") /\ detailCancelled' = TRUE
                /\ UNCHANGED <<source, built, building, spectra, posted, buildCancelled,
                               buildWorker, detailWorker, terminated>>

joinDetail == /\ NextIs("joinDetail") /\ Over(detailWorker)
              /\ detailWorker' = None /\ detailCancelled' = FALSE
              /\ UNCHANGED <<source, built, building, spectra, posted, buildCancelled,
                             buildWorker, terminated>>

\* Assigning to a thread object that still has a thread ends the program.
startBuild == /\ NextIs("startBuild")
              /\ terminated' = (terminated \/ buildWorker # None)
              /\ buildWorker' = [mine |-> built, source |-> source, stage |-> "overview", ok |-> TRUE]
              /\ building' = TRUE
              /\ UNCHANGED <<source, built, spectra, posted, buildCancelled,
                             detailCancelled, detailWorker>>

startDetail == /\ NextIs("startDetail")
               /\ terminated' = (terminated \/ detailWorker # None)
               /\ detailWorker' = [source |-> spectra.source, stage |-> "fetch"]
               /\ UNCHANGED <<source, built, building, spectra, posted, buildCancelled,
                              buildWorker, detailCancelled>>

\* What is queued for a window that is gone is dropped.
gone == /\ ~Awake /\ Head(todo) = "gone" /\ posted # <<>>
        /\ posted' = <<>>
        /\ UNCHANGED <<source, built, building, spectra, todo, workerVars>>

WindowStep == \/ deliverTiles \/ cancelBuild \/ joinBuild \/ rebuildCaches \/ haveSource
              \/ cancelDetail \/ joinDetail \/ startBuild \/ startDetail \/ gone
-----------------------------------------------------------------------------
(* The workers. *)

\* create() and buildOverview(), which gives up when its token is cancelled.
buildOverview ==
  /\ buildWorker # None /\ buildWorker.stage = "overview"
  /\ \E ok \in BOOLEAN :
       /\ buildCancelled => ~ok
       /\ buildWorker' = [buildWorker EXCEPT !.stage = "check", !.ok = ok]
  /\ UNCHANGED <<source, built, building, spectra, posted, todo, buildCancelled,
                 detailCancelled, detailWorker, terminated>>

checkBuild ==
  /\ buildWorker # None /\ buildWorker.stage = "check"
  /\ buildWorker' = [buildWorker EXCEPT !.stage =
                       IF built = buildWorker.mine THEN "post" ELSE "exited"]
  /\ UNCHANGED <<source, built, building, spectra, posted, todo, buildCancelled,
                 detailCancelled, detailWorker, terminated>>

postTiles ==
  /\ buildWorker # None /\ buildWorker.stage = "post"
  /\ posted' = Append(posted, [mine |-> buildWorker.mine, source |-> buildWorker.source,
                               ok |-> buildWorker.ok])
  /\ buildWorker' = [buildWorker EXCEPT !.stage = "exited"]
  /\ UNCHANGED <<source, built, building, spectra, todo, buildCancelled,
                 detailCancelled, detailWorker, terminated>>

\* ensureDetail to its end or to the cancellation; then a repaint is posted.
fetchDetail ==
  /\ detailWorker # None /\ detailWorker.stage = "fetch"
  /\ detailWorker' = [detailWorker EXCEPT !.stage = "exited"]
  /\ UNCHANGED <<source, built, building, spectra, posted, todo, buildCancelled,
                 buildWorker, detailCancelled, terminated>>

BuildStep == buildOverview \/ checkBuild \/ postTiles

BuildNext == \/ changeDocument \/ failEdit \/ changeSettings \/ requestSpectrogramDetail
             \/ closeWindow
             \/ WindowStep \/ BuildStep \/ fetchDetail

\* Workers run and handlers go on; the event loop takes posted calls in turn
\* with the user's, so that however often the view moves they are delivered.
BuildFairness == /\ WF_buildVars(WindowStep) /\ SF_buildVars(deliverTiles)
                 /\ WF_buildVars(BuildStep) /\ WF_buildVars(fetchDetail)
-----------------------------------------------------------------------------
\* The state read as a question and an answer: see LatestAnswer.
Picture == INSTANCE LatestAnswer WITH
             Requests <- 1..MaxBuilds,
             asked <- IF building THEN built ELSE None,
             shown <- IF spectra = None THEN None ELSE spectra.mine

Gone == todo = <<"gone">>

\* What is on screen is of the copy of the document the window holds: nothing
\* an earlier build queued, and nothing a cancelled one half made, gets there.
PictureIsOfTheSource == spectra # None => spectra.source = source /\ spectra.ok

\* The window never starts a thread in the place of one that still runs, a new
\* worker never finds the cancellation that was meant for the one before it,
\* and no worker outlives the window whose tokens it reads.
WorkersAreJoined ==
  /\ ~terminated
  /\ buildCancelled /\ buildWorker # None => buildWorker.mine # built
  /\ Gone => buildWorker = None /\ detailWorker = None

\* The last request of the window is answered: the note that a spectrogram is
\* being built does not stay for ever.
PictureArrives == building ~> ~building
-----------------------------------------------------------------------------
(* The selection: measured, played and normalised.                             *)

CONSTANTS Duration,        \* of every document
          Formats,         \* rates and channel layouts
          Selections,      \* <<start, end>>; a caret when they are equal
          MaxGestures,     \* bound on what the user does
          MaxWaits         \* bound on commands waiting inside one another

ASSUME WindowAssumption ==
  /\ Duration \in Nat /\ Selections \subseteq Nat \X Nat
  /\ None \notin [device : Formats, playing : BOOLEAN, to : Nat,
                  position : Nat, short : BOOLEAN]
  /\ None \notin [version : Nat, range : Nat \X Nat] \cup [version : Nat, format : Formats]

VARIABLES document,        \* [version, format]; None before one is open
          selection,
          analysisTimer,   \* the single-shot timer is running
          asked, shown,    \* what the meters measure, and what they show
          player,          \* None before the first use of a device
          playheadTimer, playAction,
          waits,           \* waitForAnalysis calls, the innermost last
          gestures,
          disturbed,       \* the user acted since the first of them began
          reselected,      \* ... or selected since the playback began
          conformed        \* the last normalisation: what it measured and changed

windowVars == <<document, selection, analysisTimer, asked, shown, player, playheadTimer,
                playAction, waits, gestures, disturbed, reselected, conformed>>

WindowInit == /\ document = None /\ selection = <<0, 0>> /\ analysisTimer = FALSE
              /\ asked = None /\ shown = None /\ player = None
              /\ playheadTimer = FALSE /\ playAction = "Play" /\ waits = <<>>
              /\ gestures = 0 /\ disturbed = FALSE /\ reselected = FALSE /\ conformed = None
-----------------------------------------------------------------------------
hasDocument == document # None
Empty(s) == s[1] >= s[2]
targetRange == IF Empty(selection) THEN <<0, Duration>> ELSE selection
\* The question remeasure() puts to the meters.
Current == [version |-> document.version, range |-> targetRange]
Playing == player # None /\ player.playing

\* The user's hand: counted, and remembered by the commands it interrupts.
Gesture == /\ gestures < MaxGestures /\ gestures' = gestures + 1
           /\ disturbed' = (waits # <<>>)

stopPlayback == /\ player' = IF player = None THEN None ELSE [player EXCEPT !.playing = FALSE]
                /\ playheadTimer' = FALSE /\ playAction' = "Play"

reanalyseNow == /\ analysisTimer' = FALSE
                /\ asked' = Current
                /\ UNCHANGED shown

\* A document in the place of the one before, drawn and to be measured: the end
\* of an open, an edit and an undo.
Changed(format) ==
  /\ document' = [version |-> IF hasDocument THEN document.version + 1 ELSE 1, format |-> format]
  /\ analysisTimer' = TRUE
  /\ stopPlayback
  /\ UNCHANGED <<selection, asked, shown, reselected>>

open(format) == /\ Gesture /\ Changed(format)
                /\ UNCHANGED <<waits, conformed>>

edit == /\ hasDocument /\ Gesture
        /\ \/ Changed(document.format)
           \/ stopPlayback /\ UNCHANGED <<document, selection, analysisTimer, asked, shown,
                                           reselected>>       \* it did not apply
        /\ UNCHANGED <<waits, conformed>>

\* Mutant: a selection does not start the timer.
selectionChanged_NoTimer(s) ==
  /\ hasDocument /\ s # selection /\ Gesture
  /\ selection' = s /\ reselected' = TRUE
  /\ UNCHANGED <<document, analysisTimer, asked, shown, player, playheadTimer, playAction, waits,
                 conformed>>

selectionChanged(s) ==
  /\ hasDocument /\ s # selection /\ Gesture
  /\ selection' = s /\ analysisTimer' = TRUE /\ reselected' = TRUE
  /\ UNCHANGED <<document, asked, shown, player, playheadTimer, playAction, waits, conformed>>

analysisTimerFires == /\ analysisTimer /\ reanalyseNow
                      /\ UNCHANGED <<document, selection, player, playheadTimer, playAction, waits,
                                     gestures, disturbed, reselected, conformed>>

MetersAbstract == INSTANCE LatestAnswer WITH Requests <- {}

metersAnswer == /\ MetersAbstract!Answer
                /\ UNCHANGED <<document, selection, analysisTimer, player, playheadTimer,
                               playAction, waits, gestures, disturbed, reselected, conformed>>
-----------------------------------------------------------------------------
(* Playback. *)

PlayRange == <<selection[1], IF Empty(selection) THEN Duration ELSE selection[2]>>

\* The device is opened for the document it is first used for and kept; a
\* player refuses a document of another layout.
play(device) ==
  /\ ~Playing /\ hasDocument /\ Gesture
  /\ \/ player = None /\ UNCHANGED <<player, playheadTimer, playAction>>    \* no device opened
     \/ LET opened == IF player = None THEN [device |-> document.format, playing |-> FALSE,
                                             to |-> 0, position |-> 0, short |-> FALSE]
                                       ELSE player
            runs == PlayRange[1] < PlayRange[2] /\ device = opened.device IN
        /\ player' = IF runs THEN [opened EXCEPT !.playing = TRUE, !.to = PlayRange[2],
                                                 !.position = PlayRange[1], !.short = FALSE]
                             ELSE opened
        /\ playheadTimer' = runs /\ playAction' = IF runs THEN "Stop" ELSE "Play"
  /\ reselected' = FALSE
  /\ UNCHANGED <<document, selection, analysisTimer, asked, shown, waits, conformed>>

pressStop == /\ Playing /\ Gesture /\ stopPlayback
             /\ UNCHANGED <<document, selection, analysisTimer, asked, shown, waits, reselected,
                            conformed>>

\* A read of the source fails, or gives nothing, somewhere ahead of the position:
\* the worker ends, nothing is queued from there on, and nobody is told.
sourceFails == /\ Playing /\ ~player.short
               /\ \E end \in player.position..player.to - 1 :
                    player' = [player EXCEPT !.to = end, !.short = TRUE]
               /\ UNCHANGED <<document, selection, analysisTimer, asked, shown, playheadTimer,
                              playAction, waits, gestures, disturbed, reselected, conformed>>

\* The callback plays what is queued; past the end of that it plays silence, and
\* the position stays.
callback == /\ Playing /\ player.position < player.to
            /\ player' = [player EXCEPT !.position = @ + 1]
            /\ UNCHANGED <<document, selection, analysisTimer, asked, shown, playheadTimer,
                           playAction, waits, gestures, disturbed, reselected, conformed>>

\* Mutant: only a playhead past the end has reached it.
followPlayhead_Past ==
  /\ playheadTimer /\ player.position > PlayRange[2]
  /\ stopPlayback
  /\ UNCHANGED <<document, selection, analysisTimer, asked, shown, waits, gestures, disturbed,
                 reselected, conformed>>

\* A tick of the playhead's timer, when it finds the end behind it: the end of
\* what is selected now.
followPlayhead ==
  /\ playheadTimer /\ player.position >= PlayRange[2]
  /\ stopPlayback
  /\ UNCHANGED <<document, selection, analysisTimer, asked, shown, waits, gestures, disturbed,
                 reselected, conformed>>
-----------------------------------------------------------------------------
(* normaliseToTarget. *)

\* Mutant: a measurement that is still behind its timer is not started.
normaliseToTarget_NoFlush ==
  /\ hasDocument /\ Len(waits) < MaxWaits /\ Gesture
  /\ waits' = Append(waits, "loop")
  /\ UNCHANGED <<document, selection, analysisTimer, asked, shown, player, playheadTimer,
                 playAction, reselected, conformed>>

normaliseToTarget ==
  /\ hasDocument /\ Len(waits) < MaxWaits /\ Gesture
  /\ IF analysisTimer THEN reanalyseNow ELSE UNCHANGED <<analysisTimer, asked, shown>>
  /\ waits' = Append(waits, "loop")
  /\ UNCHANGED <<document, selection, player, playheadTimer, playAction, reselected, conformed>>

Innermost(at) == waits # <<>> /\ waits[Len(waits)] = at
Return == waits' = SubSeq(waits, 1, Len(waits) - 1)

\* The loop ends when nothing is being measured; the events that are there are
\* processed once more.
waitEnds == /\ Innermost("loop") /\ asked = None
            /\ waits' = [waits EXCEPT ![Len(waits)] = "events"]
            /\ UNCHANGED <<document, selection, analysisTimer, asked, shown, player,
                           playheadTimer, playAction, gestures, disturbed, reselected, conformed>>

\* Too long, nothing measurable, or on target already.
nothingToConform == /\ (asked # None /\ Innermost("loop")) \/ Innermost("events")
                    /\ Return
                    /\ UNCHANGED <<document, selection, analysisTimer, asked, shown, player,
                                   playheadTimer, playAction, gestures, disturbed, reselected,
                                   conformed>>

conform == /\ Innermost("events") /\ shown # None
           /\ Return
           /\ conformed' = [measured |-> shown, changed |-> Current, disturbed |-> disturbed]
           /\ Changed(document.format)
           /\ UNCHANGED <<gestures, disturbed>>

WindowNext == \/ \E format \in Formats : open(format) \/ (play(format) /\ format = document.format)
              \/ edit \/ pressStop \/ normaliseToTarget
              \/ \E s \in Selections : selectionChanged(s)
              \/ analysisTimerFires \/ metersAnswer \/ sourceFails \/ callback \/ followPlayhead
              \/ waitEnds \/ nothingToConform \/ conform

\* Timers fire, the worker answers (Panels) and the device calls back. A source
\* may fail or not.
WindowFairness == /\ WF_windowVars(analysisTimerFires) /\ WF_windowVars(metersAnswer)
                  /\ WF_windowVars(callback) /\ WF_windowVars(followPlayhead)
                  /\ WF_windowVars(waitEnds) /\ WF_windowVars(nothingToConform)
-----------------------------------------------------------------------------
\* The button, the playhead and the device agree about whether it plays.
ButtonTellsTheTruth == /\ playheadTimer = Playing
                       /\ playAction = IF Playing THEN "Stop" ELSE "Play"

\* What the window has begun comes to rest when the user lets it: a playback
\* whose source can be read reaches its end and gives the button back unless
\* something else is selected meanwhile, and the figures end up those of the
\* document and the selection on screen, unless the meters say that they could not
\* measure them. (After a failed read the position stays short of the end for ever,
\* and the button says Stop until it is pressed: README, "Seen while modelling".)
WindowSettles == /\ Playing ~> (~Playing \/ reselected \/ player.short)
                 /\ <>[](hasDocument => shown \in {None, Current})

\* A normalisation the user waits for without touching anything changes the
\* range and the document it measured.
UndisturbedConform == conformed # None /\ ~conformed.disturbed =>
                        conformed.measured = conformed.changed

\* MainWindow.cpp, of the gain it applies: "The measurement covers whatever the
\* panel last measured, which is the same range this will change -- targetRange
\* decides both." (It does not hold: README, "Seen while modelling".)
ConformsWhatItMeasured == conformed # None => conformed.measured = conformed.changed
=============================================================================
