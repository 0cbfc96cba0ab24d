------------------------------- MODULE Settings --------------------------------
(* What one run remembers from the last (sa-ui: Settings, SettingsStore, and     *)
(* MainWindow's loadSettings, applySavedLayout and saveSettings): the file that  *)
(* may be anything, that a run may not have and that it may fail to write; the   *)
(* window that has to be on a screen that is there; the recent list; and the     *)
(* runs that read the file once and write all of it whenever something is worth  *)
(* keeping.                                                                      *)
(*                                                                               *)
(* A value in the file is text; it is given as the whole numbers it holds        *)
(* between commas, and as <<>> where it holds anything else. A name in a table   *)
(* is its place there. Two spellings of a path differ by Respelled.              *)
EXTENDS Integers, Sequences, FiniteSets, FiniteSetsExt, SequencesExt, TLC

CONSTANTS
  kDefaultWindow,   \* [width, height] of a window nobody has placed
  kMinimumWindow,   \* no window opens below
  kGrabbable,       \* that much of it has to be on a screen
  kLargestPane,
  RecentKeys,       \* the keys the recent list is kept under, the newest file's first
  IntLimit,         \* numbers wrap here
  Respelled,
  StoredFiles,      \* what the file may be when the first run starts
  Desktops,         \* the lists of screens that may be attached
  Frames,           \* where a window may be dragged
  Chosen,           \* the preferences that may be set in the dialog
  Recordings,       \* the files that may be opened
  MostChanges       \* bound: changes made in all runs together

VARIABLES
  settingsFile,     \* the map in the file
  screens,          \* the screens attached now, the primary first
  window,           \* the window of the run, or NoWindow
  chosen,           \* history: what the user of this run has last chosen and opened
  lastSaved,        \* history: what was chosen when the file was last written, and
                    \* the file that the first run found
  changes           \* history: changes made so far

settingsVars == <<settingsFile, screens, window, chosen, lastSaved, changes>>
NoWindow == [running |-> FALSE]
kSettingsVersion == 1
kMost == Len(RecentKeys)
-----------------------------------------------------------------------------
(* Reading values.                                                         *)

text(stored, key) == IF key \in DOMAIN stored THEN stored[key] ELSE <<>>
intOr(stored, key, fallback) == IF Len(text(stored, key)) = 1 THEN stored[key][1] ELSE fallback
boolOr(stored, key, fallback) == CASE text(stored, key) = <<1>> -> TRUE
                                   [] text(stored, key) = <<0>> -> FALSE
                                   [] OTHER -> fallback
\* A name that is not in the table is the fallback.
readName(stored, key, names, fallback) ==
  IF intOr(stored, key, 0) \in 1..names THEN stored[key][1] ELSE fallback

Clamp(low, value, high) == Max({low, Min({value, high})})
splitterSizesUsable(sizes, panes) ==
  /\ Len(sizes) = panes /\ panes > 0
  /\ \A i \in 1..panes : sizes[i] \in 0..kLargestPane
  /\ \E i \in 1..panes : sizes[i] > 0
-----------------------------------------------------------------------------
(* The recent list.                                                        *)

tidied(path) == path % Respelled
forgotten(paths, path) ==
  LET held[n \in 0..Len(paths)] == IF n = 0 THEN <<>>
                                   ELSE IF tidied(paths[n]) = tidied(path) THEN held[n - 1]
                                   ELSE Append(held[n - 1], paths[n])
  IN held[Len(paths)]
remember(paths, path) == LET most == <<tidied(path)>> \o forgotten(paths, path)
                         IN SubSeq(most, 1, Min({kMost, Len(most)}))
\* Mutant: the stored list is remembered in the order it is in.
assign_Forwards(paths) == FoldLeft(remember, <<>>, paths)
assign(paths) ==
  LET kept[n \in 0..Len(paths)] == IF n = 0 THEN <<>> ELSE remember(kept[n - 1], paths[Len(paths) + 1 - n])
  IN kept[Len(paths)]
-----------------------------------------------------------------------------
(* The preferences.                                                        *)

\* What the code had before there was a file: 24 bits, EBU R128.
Defaults == [format |-> 2, target |-> 7, fft |-> 4096, hop |-> 1024, floor |-> -96, analysis |-> 120, key |-> 60]
\* The powers of two an int of the sizes asked about can be: both are refused above 16384.
isPowerOfTwo(n) == n \in {1, 2, 4, 8, 16, 32, 64, 128, 256, 512, 1024, 2048, 4096, 8192, 16384, 32768, 65536}
\* Mutant: the key's part of the analysis is bounded by itself.
keyPart_Alone(key, analysis) == Clamp(5, key, 3600)
keyPart(key, analysis) == Clamp(5, key, analysis)
validated(p) ==
  LET fft == IF isPowerOfTwo(p.fft) /\ p.fft \in 512..16384 THEN p.fft ELSE Defaults.fft
      analysis == Clamp(5, p.analysis, 3600)
  IN [format |-> IF p.format \in 1..3 THEN p.format ELSE Defaults.format,
      target |-> IF p.target \in 1..8 THEN p.target ELSE Defaults.target,
      fft |-> fft,
      hop |-> IF isPowerOfTwo(p.hop) /\ p.hop \in (fft \div 16)..fft THEN p.hop ELSE fft \div 4,
      floor |-> IF p.floor \in {-60, -80, -96, -120} THEN p.floor ELSE Defaults.floor,
      analysis |-> analysis, key |-> keyPart(p.key, analysis)]
-----------------------------------------------------------------------------
(* The whole map.                                                          *)

WindowKeys == {"window/x", "window/y", "window/width", "window/height"}

\* Half a rectangle is none; a gap in the recent list is only a gap.
readSettings(stored) ==
  LET listed[n \in 0..kMost] == IF n = 0 THEN <<>>
                                ELSE IF Len(text(stored, RecentKeys[n])) # 1 THEN listed[n - 1]
                                ELSE Append(listed[n - 1], stored[RecentKeys[n]][1])
  IN [writeBack |-> intOr(stored, "version", kSettingsVersion) <= kSettingsVersion,
      frame |-> IF ~(WindowKeys \subseteq DOMAIN stored) THEN <<>>
                ELSE <<[x |-> intOr(stored, "window/x", 0), y |-> intOr(stored, "window/y", 0),
                        width |-> intOr(stored, "window/width", kDefaultWindow.width), height |-> intOr(stored, "window/height", kDefaultWindow.height)]>>,
      maximised |-> WindowKeys \subseteq DOMAIN stored /\ boolOr(stored, "window/maximised", FALSE),
      mainSplit |-> text(stored, "window/mainsplit"),
      recent |-> assign(listed[kMost]),
      preferences |-> validated([format |-> readName(stored, "format", 3, Defaults.format),
                                 target |-> readName(stored, "target", 8, Defaults.target),
                                 fft |-> intOr(stored, "fft", Defaults.fft), hop |-> intOr(stored, "hop", Defaults.hop),
                                 floor |-> intOr(stored, "floor", Defaults.floor),
                                 analysis |-> intOr(stored, "analysis", Defaults.analysis),
                                 key |-> intOr(stored, "key", Defaults.key)])]

writeSettings(s) ==
  LET p == validated(s.preferences)
      frameKeys == IF s.frame = <<>> THEN {} ELSE WindowKeys \cup {"window/maximised"}
      splitKeys == IF s.mainSplit = <<>> THEN {} ELSE {"window/mainsplit"}
      recentKeys == {RecentKeys[i] : i \in DOMAIN s.recent}
  IN [key \in {"version"} \cup frameKeys \cup splitKeys \cup recentKeys \cup DOMAIN p |->
        CASE key = "version" -> <<kSettingsVersion>>
          [] key = "window/x" -> <<s.frame[1].x>>
          [] key = "window/y" -> <<s.frame[1].y>>
          [] key = "window/width" -> <<s.frame[1].width>>
          [] key = "window/height" -> <<s.frame[1].height>>
          [] key = "window/maximised" -> <<IF s.maximised THEN 1 ELSE 0>>
          [] key = "window/mainsplit" -> s.mainSplit
          [] key \in DOMAIN p -> <<p[key]>>
          [] OTHER -> <<s.recent[CHOOSE i \in DOMAIN s.recent : RecentKeys[i] = key]>>]
-----------------------------------------------------------------------------
(* Where a window goes.                                                    *)

\* Edges are ints, and those of a file somebody edited may not fit one.
Wrapped(n) == ((n + IntLimit) % (2 * IntLimit)) - IntLimit
intersection(a, b) ==
  LET left == Max({a.x, b.x})  right == Min({Wrapped(a.x + a.width), Wrapped(b.x + b.width)})
      top == Max({a.y, b.y})   bottom == Min({Wrapped(a.y + a.height), Wrapped(b.y + b.height)})
  IN IF right <= left \/ bottom <= top THEN [x |-> left, y |-> top, width |-> 0, height |-> 0]
     ELSE [x |-> left, y |-> top, width |-> right - left, height |-> bottom - top]
area(rect) == rect.width * rect.height

\* Enough of it to grab, and its title bar not above the top of the screen.
isReachable(frame, screen) ==
  LET shown == intersection(frame, screen)
  IN shown.width >= kGrabbable.width /\ shown.height >= kGrabbable.height /\ frame.y >= screen.y

Half(n) == IF n < 0 THEN -((-n) \div 2) ELSE n \div 2
\* The first of the screens that hold most of the window.
BestScreen(saved, attached) ==
  attached[CHOOSE i \in DOMAIN attached : \A j \in DOMAIN attached :
             LET mine == area(intersection(saved, attached[i]))  its == area(intersection(saved, attached[j]))
             IN its < mine \/ (its = mine /\ i <= j)]
Resized(saved, screen) ==
  [saved EXCEPT !.width = Clamp(kMinimumWindow.width, @, Max({screen.width, kMinimumWindow.width})),
                !.height = Clamp(kMinimumWindow.height, @, Max({screen.height, kMinimumWindow.height}))]
Centred(placed, screen) == [placed EXCEPT !.x = screen.x + Half(screen.width - placed.width),
                                          !.y = screen.y + Half(screen.height - placed.height)]
\* Mutant: the title bar may be above the screen.
Placed_AnyOverlap(placed, screen) ==
  IF area(intersection(placed, screen)) > 0 THEN placed ELSE Centred(placed, screen)
Placed(placed, screen) == IF isReachable(placed, screen) THEN placed ELSE Centred(placed, screen)
confineToScreens(saved, attached) ==
  IF attached = <<>> THEN saved
  ELSE LET best == BestScreen(saved, attached) IN Placed(Resized(saved, best), best)
-----------------------------------------------------------------------------
(* Runs of the window.                                                     *)

\* The panel's combo owns the target. A window that was never shown has no
\* layout of its own.
Saved(w) ==
  [preferences |-> [w.preferences EXCEPT !.target = w.target], recent |-> w.recent,
   frame |-> IF w.shown /\ w.normal # <<>> THEN w.normal ELSE w.restored,
   maximised |-> w.maximised,
   mainSplit |-> IF w.shown /\ splitterSizesUsable(w.split, 2) THEN w.split ELSE w.loadedSplit]

Write(w, choice) == /\ settingsFile' = writeSettings(Saved(w))
                    /\ lastSaved' = [lastSaved EXCEPT !.preferences = choice.preferences, !.recent = choice.recent]
NoWrite == UNCHANGED <<settingsFile, lastSaved>>

\* Mutant: a file of a newer build is written like any other.
saveSettings_Anyway(w, choice) == (w.named /\ Write(w, choice)) \/ NoWrite

\* Nothing is written by a run without a file, nor over a newer build's, nor where
\* the folder or the file refuses, of which stderr alone is told.
saveSettings(w, choice) == (w.mayWrite /\ w.named /\ Write(w, choice)) \/ NoWrite

\* A run that works through a script has no file unless it was given one. A
\* splitter takes a list it can use, and has laid nothing out before it is shown.
NoFile == [key \in {} |-> <<>>]
launch(named) ==
  /\ ~window.running
  /\ LET saved == readSettings(IF named THEN settingsFile ELSE NoFile)
         placed == [i \in DOMAIN saved.frame |-> confineToScreens(saved.frame[i], screens)]
     IN /\ window' = [running |-> TRUE, named |-> named, shown |-> FALSE, preferences |-> saved.preferences,
                      target |-> saved.preferences.target, recent |-> saved.recent, mayWrite |-> saved.writeBack,
                      restored |-> placed, loadedSplit |-> saved.mainSplit, split |-> <<1, 1>>,
                      normal |-> <<>>, maximised |-> saved.maximised]
        /\ chosen' = [preferences |-> saved.preferences, recent |-> saved.recent]
  /\ UNCHANGED <<settingsFile, screens, lastSaved, changes>>

Change == window.running /\ changes < MostChanges /\ changes' = changes + 1 /\ UNCHANGED screens

show ==
  /\ window.running /\ ~window.shown
  /\ window' = [window EXCEPT !.shown = TRUE,
                  !.split = IF splitterSizesUsable(window.loadedSplit, 2) THEN window.loadedSplit ELSE <<3, 2>>,
                  !.normal = IF window.maximised THEN <<>> ELSE IF window.restored # <<>> THEN window.restored
                             ELSE <<[x |-> 0, y |-> 0, width |-> kDefaultWindow.width, height |-> kDefaultWindow.height]>>]
  /\ UNCHANGED <<settingsFile, screens, chosen, lastSaved, changes>>

arrange ==
  /\ Change /\ window.shown
  /\ \/ \E frame \in Frames : window' = [window EXCEPT !.normal = <<frame>>, !.maximised = FALSE]
     \/ window' = [window EXCEPT !.maximised = TRUE]
     \/ \E sizes \in {<<4, 1>>, <<0, 0>>} : window' = [window EXCEPT !.split = sizes]
  /\ UNCHANGED <<settingsFile, chosen, lastSaved>>

\* What the dialog, the panel and the File menu save at once, and all else with it.
Keep(w, choice) == window' = w /\ chosen' = choice /\ saveSettings(w, choice)
choosePreferences ==
  /\ Change /\ window.shown
  /\ \E p \in Chosen : Keep([window EXCEPT !.preferences = p, !.target = p.target], [chosen EXCEPT !.preferences = p])
targetChanged ==
  /\ Change /\ window.shown
  /\ \E t \in {1, 7} : Keep([window EXCEPT !.preferences.target = t, !.target = t], [chosen EXCEPT !.preferences.target = t])
rememberRecent ==
  /\ Change
  /\ \E path \in Recordings : LET kept == remember(window.recent, path)
                              IN Keep([window EXCEPT !.recent = kept], [chosen EXCEPT !.recent = kept])
openFromMenu ==
  /\ Change /\ window.shown
  /\ \/ \E i \in DOMAIN window.recent : LET kept == forgotten(window.recent, window.recent[i])
                                        IN Keep([window EXCEPT !.recent = kept], [chosen EXCEPT !.recent = kept])
     \/ Keep([window EXCEPT !.recent = <<>>], [chosen EXCEPT !.recent = <<>>])
\* The menus, of which the floor stands for the format, the dither, the fade and
\* the colours too: written with the next thing that is saved at once, or when the
\* run ends, if it is not killed.
chooseFloor ==
  /\ Change /\ window.shown
  /\ window' = [window EXCEPT !.preferences.floor = -60]
  /\ chosen' = [chosen EXCEPT !.preferences.floor = -60]
  /\ UNCHANGED <<settingsFile, lastSaved>>

\* Closed, or destroyed without having been; and killed.
finishRun ==
  /\ window.running
  /\ window' = NoWindow /\ saveSettings(window, chosen)
  /\ UNCHANGED <<screens, chosen, changes>>
killed == window.running /\ window' = NoWindow /\ UNCHANGED <<settingsFile, screens, chosen, lastSaved, changes>>

\* No edge of a screen wraps.
EndsWithin(screen) == {screen.x, screen.y, screen.x + screen.width, screen.y + screen.height} \subseteq -IntLimit..IntLimit - 1

\* The screens are looked at when the layout is applied, as a run begins.
attach == ~window.running /\ screens' \in Desktops /\ UNCHANGED <<settingsFile, window, chosen, lastSaved, changes>>

SettingsInit ==
  /\ settingsFile \in StoredFiles /\ screens \in Desktops
  /\ window = NoWindow /\ changes = 0
  /\ LET saved == readSettings(settingsFile)
     IN /\ chosen = [preferences |-> saved.preferences, recent |-> saved.recent]
        /\ lastSaved = [preferences |-> saved.preferences, recent |-> saved.recent, found |-> settingsFile]

\* Sizes are no smaller than they may be; the dialog offers what is valid, files
\* hold numbers, and screens end within them.
ASSUME SettingsAssumption ==
  /\ IntLimit \in Nat \ {0} /\ Respelled \in Nat \ {0} /\ Recordings \subseteq Int
  /\ kDefaultWindow \in [width : Int, height : Int] /\ {kMinimumWindow, kGrabbable} \subseteq [width : Nat \ {0}, height : Nat \ {0}]
  /\ kGrabbable.width <= kMinimumWindow.width /\ kGrabbable.height <= kMinimumWindow.height
  /\ RecentKeys \in Seq(STRING) /\ \A i, j \in DOMAIN RecentKeys : RecentKeys[i] = RecentKeys[j] => i = j
  /\ \A i \in DOMAIN RecentKeys : RecentKeys[i] \notin WindowKeys \cup {"version", "window/maximised", "window/mainsplit"} \cup DOMAIN Defaults
  /\ \A file \in StoredFiles : \A key \in DOMAIN file : file[key] \in Seq(Int)
  /\ Frames \subseteq [x : Int, y : Int, width : Int, height : Int]
  /\ \A attached \in Desktops : /\ attached \in Seq([x : Int, y : Int, width : Nat, height : Nat])
                                /\ \A i \in DOMAIN attached : EndsWithin(attached[i])
  /\ \A p \in Chosen : p \in [DOMAIN Defaults -> Int] /\ validated(p) = p

SettingsNext == \/ \E named \in BOOLEAN : launch(named)
                \/ show \/ arrange \/ choosePreferences \/ targetChanged \/ rememberRecent
                \/ openFromMenu \/ chooseFloor \/ finishRun \/ killed \/ attach
-----------------------------------------------------------------------------
(* What is kept.                                                           *)

\* Whatever is in the file, what is read from it can be written and read again,
\* and says the same (readSettings, writeSettings, RecentFiles::assign).
ReadsBackWhatItWrites ==
  LET s == readSettings(settingsFile)
  IN readSettings(writeSettings(s)) = [s EXCEPT !.writeBack = TRUE] /\ s.preferences.key <= s.preferences.analysis

\* A window comes back where it can be seen and dragged, at a size that fits that
\* screen, and one that was wholly on a screen comes back as it was
\* (confineToScreens), on screens no smaller than the smallest window.
RestoresWithinReach ==
  LET s == readSettings(settingsFile)
      Fits(size) == size.width >= kMinimumWindow.width /\ size.height >= kMinimumWindow.height
  IN s.frame # <<>> /\ screens # <<>> /\ (\A i \in DOMAIN screens : Fits(screens[i])) =>
       LET saved == s.frame[1]  placed == confineToScreens(saved, screens)
       IN /\ \E i \in DOMAIN screens : /\ isReachable(placed, screens[i])
                                       /\ placed.width <= screens[i].width /\ placed.height <= screens[i].height
          /\ Fits(placed)
          /\ Fits(saved) /\ (\E i \in DOMAIN screens : intersection(saved, screens[i]) = saved) => placed = saved

\* Each time the file is written it holds everything that has been chosen and
\* opened, what earlier runs chose and what could not be written before among it;
\* it holds that until it is written again, whatever fails and whatever way runs
\* end; and a file of a newer build is left as it is (saveSettings,
\* SavedSettings::writeBack).
NothingKeptIsLost ==
  LET s == readSettings(settingsFile)
  IN IF readSettings(lastSaved.found).writeBack THEN s.preferences = lastSaved.preferences /\ s.recent = lastSaved.recent
     ELSE settingsFile = lastSaved.found

\* "So a run that has not shown the window writes back what it read"
\* (saveSettings): the layout of every launch before it.
UnshownRunsKeepTheLayout ==
  [][window.running /\ ~window.shown =>
       LET before == readSettings(settingsFile)  after == readSettings(settingsFile')
       IN after.frame = before.frame /\ after.maximised = before.maximised /\ after.mainSplit = before.mainSplit]_settingsVars
=============================================================================
