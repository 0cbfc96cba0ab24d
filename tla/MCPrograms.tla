------------------------------ MODULE MCPrograms ------------------------------
(* The programs around the libraries, in one model for TLC: the command line   *)
(* tool and the files it leaves, what the window remembers between its runs,   *)
(* the device it is given to play through, its views of the time axis, its     *)
(* commands and its equaliser. A behaviour belongs to one `part`, and the      *)
(* others stay as they began.                                                  *)
EXTENDS CommandLine, Settings, DeviceManager, WindowCommands

CONSTANTS
  recordingA, recordingB, session,   \* two recordings and a session
  Durations, Widths, MostGestures,
  Nyquists, PlotColumns, PlotRows, kHandleRadius, kGainLimit, kMaximumQ, kDefaultQ, kMaxBands, MostStrokes

VARIABLES
  part,
  waveform, spectrogram, ruler, drag, width, building, lately, gestures,
  panel, told, strokes

Views == INSTANCE TimeViews
Equaliser == INSTANCE EqCurve

ASSUME ViewsAssumption == Durations \subseteq Nat /\ Widths \subseteq Nat
ASSUME EqualiserAssumption ==
  /\ Nyquists \subseteq Nat \ {0} /\ \E n \in Nyquists : \A m \in Nyquists : n >= m
  /\ PlotColumns \in Nat \ {0} /\ {PlotRows, kGainLimit, kMaximumQ, kDefaultQ, kMaxBands} \subseteq Nat
-------------------------------------------------------------------------------
(* The command line: files that say what they hold, that were cut, that grew,  *)
(* that cannot be read, that are empty, and that are no audio.                 *)

Names == recordingA :> ".wav" @@ recordingB :> ".flac" @@ session :> ".sa"
Audio(says, there, decodes, lanes, form, hz) ==
  [kind |-> "audio", claims |-> says, holds |-> there, sounds |-> Lesser(says, there), readable |-> decodes,
   channels |-> lanes, rate |-> hz, format |-> form, dithered |-> FALSE]
Beginnings ==
  {(recordingA :> first @@ recordingB :> second
    @@ session :> [kind |-> "session", plays |-> recordingA, length |-> 3]) :
     first \in {Absent, Audio(3, 3, TRUE, 2, "16", "same"), Audio(4, 2, TRUE, 2, "float", "same"), Audio(2, 4, TRUE, 1, "8", "same"),
                Audio(3, 3, FALSE, 2, "24", "same"), Audio(0, 0, TRUE, 2, "16", "same"), [kind |-> "noise"]},
     second \in {Absent, Audio(3, 3, TRUE, 2, "16", "other")}}

Files(command) == CASE command = "render" -> {[inputs |-> <<session>>, out |-> o] : o \in {recordingA, recordingB}}
                    [] command = "null" -> {[inputs |-> <<recordingA, recordingB>>, out |-> recordingB]}
                    [] command \in {"analyse", "provenance"} -> {[inputs |-> i, out |-> recordingB] :
                          i \in {<<recordingA>>, <<recordingA, recordingB>>, <<recordingB, recordingA>>}}
                    [] OTHER -> {[inputs |-> <<recordingA>>, out |-> o] : o \in {recordingA, recordingB}}
Right == [wrong |-> "nothing", format |-> "none", dither |-> "none", rate |-> "same", csv |-> FALSE]
Options(command) ==
  {[Right EXCEPT !.wrong = w] : w \in {"count", "option", "numbers", "mono"}}
  \cup IF Writes(command)
       THEN {[Right EXCEPT !.format = f, !.dither = d, !.rate = r] :
               f \in {"none", "16", "float"}, d \in {"none", "tpdf", "unknown"},
               r \in IF command = "convert" THEN {"same", "other", "invalid"} ELSE {"same"}}
       ELSE {[Right EXCEPT !.csv = c] : c \in BOOLEAN}
Requests == UNION {{[command |-> c] @@ f @@ o : f \in Files(c), o \in Options(c)} : c \in DOMAIN main}
-------------------------------------------------------------------------------
(* Settings: numbers in place of pixels, with ints that end at 127. Windows    *)
(* on, across and off two screens, larger than either, smaller than any; files *)
(* of a newer build, of an older one, and ones somebody edited.                *)

DefaultWindow == [width |-> 12, height |-> 7]
MinimumWindow == [width |-> 5, height |-> 4]
Grabbable == [width |-> 2, height |-> 1]
Rectangle(x, y, w, h) == [x |-> x, y |-> y, width |-> w, height |-> h]
Screens == {<<>>, <<Rectangle(0, 0, 14, 9)>>, <<Rectangle(0, 0, 14, 9), Rectangle(14, 0, 20, 12)>>,
            <<Rectangle(0, 1, 10, 8), Rectangle(-9, -6, 9, 8)>>}
Dragged == {Rectangle(15, 1, 12, 7), Rectangle(-3, 2, 12, 7)}
Placing(r) == "window/x" :> <<r.x>> @@ "window/y" :> <<r.y>> @@ "window/width" :> <<r.width>> @@ "window/height" :> <<r.height>>
Layout == Placing(Rectangle(15, 2, 12, 7)) @@ ("window/maximised" :> <<1>>) @@ ("window/mainsplit" :> <<5, 2>>)
SettingsFound ==
  {Placing(Rectangle(x, y, w, h)) : x \in {-11, 8, 127}, y \in {-1, 8}, w \in {1, 25}, h \in {7, 30}}
  \cup {<<>>, "version" :> <<2>>, "version" :> <<1>> @@ "window/x" :> <<3>>, Layout, Layout @@ ("version" :> <<2>>),
        "version" :> <<>> @@ "window/mainsplit" :> <<420>> @@ "recent/file1" :> <<5>> @@ "recent/file3" :> <<105>> @@ "recent/file2" :> <<>>,
        "fft" :> <<1000>> @@ "hop" :> <<8192>> @@ "analysis" :> <<40>> @@ "key" :> <<50>> @@ "floor" :> <<-73>> @@ "format" :> <<9>>,
        "fft" :> <<512>> @@ "hop" :> <<16>> @@ "recent/file1" :> <<1>> @@ "recent/file2" :> <<2>> @@ "recent/file3" :> <<3>>}
RecentFiles == <<"recent/file1", "recent/file2", "recent/file3">>
PreferencesSet == {validated(Defaults), validated([Defaults EXCEPT !.fft = 8192, !.target = 3, !.analysis = 30])}
-------------------------------------------------------------------------------
(* Devices: a microphone, a card, the default one with more channels and any   *)
(* rate, and the null device; rates and block sizes inside and outside what    *)
(* they have.                                                                  *)

Listed(id, inputs, outputs, rates, block, isDefault) ==
  [id |-> id, inputs |-> inputs, outputs |-> outputs, rates |-> rates, block |-> block, isDefault |-> isDefault]
Machine == <<Listed("mic", 2, 0, <<48>>, 64, FALSE), Listed("card", 2, 2, <<44, 48, 96>>, 0, FALSE),
             Listed("dock", 0, 8, <<>>, 9, TRUE), Listed("null", 2, 2, <<44, 48, 96>>, 64, FALSE)>>
Machines == {SelectSeq(Machine, LAMBDA d : d \in there) : there \in SUBSET Range(Machine)}
Wishes == {[rate |-> 0, inputs |-> 0, outputs |-> 8, block |-> 0], [rate |-> 60, inputs |-> 0, outputs |-> 2, block |-> 8],
           [rate |-> 192, inputs |-> 0, outputs |-> 2, block |-> 100], [rate |-> 48, inputs |-> 1, outputs |-> 0, block |-> 64]}
-------------------------------------------------------------------------------
(* The composition.                                                            *)

Beginning == CHOOSE disk \in Beginnings : disk[recordingA] = Absent
Anything == CHOOSE wish \in Requests : TRUE

\* One way for each part to begin, for the behaviours of the others.
CommandLineIdle == files = Beginning /\ began = files /\ request = Anything /\ job = NoSource
                   /\ printed = FALSE /\ exitCode = "running"
SettingsIdle == settingsFile = <<>> /\ screens = <<>> /\ window = NoWindow /\ changes = 0 /\ chosen = <<>>
                /\ lastSaved = <<>>
ManagerIdle == ManagerInit /\ connected = Machine
ViewsIdle == Views!ViewsInit /\ width = CHOOSE w \in Widths : TRUE
CommandsIdle == /\ CommandsInit /\ stereo /\ document.markers = <<>>
                /\ \A n \in Lengths : Len(document.audio) <= n
                /\ \A p \in Points : selection.end <= p

ProgramsInit ==
  /\ Equaliser!EqInit
  /\ \/ part = "cli" /\ CommandLineInit /\ SettingsIdle /\ ManagerIdle /\ ViewsIdle /\ CommandsIdle
     \/ part = "settings" /\ CommandLineIdle /\ SettingsInit /\ ManagerIdle /\ ViewsIdle /\ CommandsIdle
     \/ part = "devices" /\ CommandLineIdle /\ SettingsIdle /\ ManagerInit /\ ViewsIdle /\ CommandsIdle
     \/ part = "views" /\ CommandLineIdle /\ SettingsIdle /\ ManagerIdle /\ Views!ViewsInit /\ CommandsIdle
     \/ part = "commands" /\ CommandLineIdle /\ SettingsIdle /\ ManagerIdle /\ ViewsIdle /\ CommandsInit
     \/ part = "equaliser" /\ CommandLineIdle /\ SettingsIdle /\ ManagerIdle /\ ViewsIdle /\ CommandsIdle

viewVars == <<waveform, spectrogram, ruler, drag, width, building, lately, gestures>>
equaliserVars == <<panel, told, strokes>>
windowVars == <<viewVars, commandVars, equaliserVars>>

ProgramsNext ==
  /\ UNCHANGED part
  /\ \/ part = "cli" /\ CommandLineNext /\ UNCHANGED <<settingsVars, managerVars, windowVars>>
     \/ part = "settings" /\ SettingsNext /\ UNCHANGED <<cliVars, managerVars, windowVars>>
     \/ part = "devices" /\ ManagerNext /\ UNCHANGED <<cliVars, settingsVars, windowVars>>
     \/ part = "views" /\ Views!ViewsNext /\ UNCHANGED <<cliVars, settingsVars, managerVars, commandVars, equaliserVars>>
     \/ part = "commands" /\ CommandsNext /\ UNCHANGED <<cliVars, settingsVars, managerVars, viewVars, equaliserVars>>
     \/ part = "equaliser" /\ Equaliser!EqNext /\ UNCHANGED <<cliVars, settingsVars, managerVars, viewVars, commandVars>>

ProgramsSpec == ProgramsInit /\ [][ProgramsNext]_<<part, cliVars, settingsVars, managerVars, windowVars>>
-------------------------------------------------------------------------------
\* A command that says it succeeded has left what was asked for, and one that
\* says it failed has left nothing that could be taken for it.
CommandsTellTheTruth == part = "cli" => SuccessIsAFile /\ FailureLeavesNothing

\* Whatever the file says, the window opens where it can be reached, and nothing
\* that was saved is lost, whichever runs follow, end, fail to save or are killed.
SettingsSurvive == part = "settings" => ReadsBackWhatItWrites /\ RestoresWithinReach /\ NothingKeptIsLost

\* Playback comes up on the best device that opens, whatever refuses meanwhile.
SomethingPlays == part = "devices" => FallsBackOnSomething

\* The views and the ruler show one range and one selection, zooming keeps the
\* sample under the cursor, and the equaliser's handles stay those of its bands.
ViewsKeepTogether ==
  /\ [](part = "views" => Views!OneTimeline /\ Views!RulerFollows) /\ Views!ZoomKeepsTheSample
  /\ [](part = "equaliser" => Equaliser!EqHolds) /\ Equaliser!DragsWhatItTook

\* A command changes what it was given to change, where its audio and its markers
\* are, and a script hears of its failure.
CommandsKeepToTheirTarget ==
  part = "commands" =>
    /\ OnlyTheTargetChanges /\ EdgesAreBlended
    /\ CutsCanBePasted /\ MarkersStay /\ MenusAreCurrent
    /\ NothingPlaysWhatWas /\ ExportsAreWhole /\ ScriptsStopAtARefusal
===============================================================================
