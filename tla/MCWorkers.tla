------------------------------ MODULE MCWorkers ------------------------------
(* The window's workers and the window around them, in one model for TLC. A    *)
(* behaviour belongs to one of them, `actor`, and the others stay as they were *)
(* constructed.                                                                *)
EXTENDS Window

VARIABLE actor

\* A caret, and two selections that share no sample.
ACaretAndTwoHalves == {<<0, 0>>, <<0, 1>>, <<1, 2>>}
WithAndWithoutRoom == {{}, {"room"}}

WorkersInit == /\ actor \in {"meters", "musical", "spectrogram", "window"}
               /\ MetersInit /\ MusicalInit /\ BuildInit /\ WindowInit

WorkersNext ==
  /\ UNCHANGED actor
  /\ \/ actor = "meters" /\ MetersNext /\ UNCHANGED <<musicalVars, buildVars, windowVars>>
     \/ actor = "musical" /\ MusicalNext /\ UNCHANGED <<meterVars, buildVars, windowVars>>
     \/ actor = "spectrogram" /\ BuildNext /\ UNCHANGED <<meterVars, musicalVars, windowVars>>
     \/ actor = "window" /\ WindowNext /\ UNCHANGED <<meterVars, musicalVars, buildVars>>

\* Those that stay as they were constructed have nothing their fairness asks for.
WorkersSpec == /\ WorkersInit
               /\ [][WorkersNext]_<<actor, meterVars, musicalVars, buildVars, windowVars>>
               /\ MetersFairness /\ MusicalFairness /\ BuildFairness /\ WindowFairness
-----------------------------------------------------------------------------
\* Whatever is asked of a panel or of the spectrogram while its workers run,
\* and whenever it is cleared, what is on screen only ever changes to the
\* answer to the latest question.
AnswersTheLatest == Meters!Spec /\ Musical!Spec /\ Picture!Spec

\* No figure and no picture is of a run that was cancelled half way, or of a
\* document other than the one the window holds.
OnlyWholeAnswers == MetersShowWholeRuns /\ AnalysesAreWhole /\ PictureIsOfTheSource

\* No worker outlives the panel or the window whose state it reads, none is
\* started over one that runs, none inherits another's cancellation.
WorkersEndFirst == NoRunOutlivesThePanel /\ WorkersAreJoined

\* The button tells whether it plays, and a normalisation nobody interferes with
\* changes what it measured.
WindowKeepsItsWord == ButtonTellsTheTruth /\ UndisturbedConform

\* A panel that says it is working gets its answer, its refusal or its next
\* question: none stays busy for ever.
NobodyStaysBusy == /\ meterBusy ~> (~meterBusy \/ ~meterPanel)
                   /\ busy ~> (~busy \/ ~panel)
                   /\ PictureArrives
=============================================================================
