---------------------------- MODULE WindowCommands -----------------------------
(* The commands of the window (sa-ui, MainWindow): each reads a stretch of the  *)
(* document around its target, has it processed, and puts back what it was      *)
(* asked for; a script gives them as verbs, one after another. A sample is      *)
(* known by where it came from; what processing did to it is "wet", or          *)
(* "blended" with what was there, or "dry". The engine's verbs are given by     *)
(* what they do to the audio a document plays (their clips are in Edits).       *)
EXTENDS Integers, Sequences, FiniteSets, SequencesExt, TLC

CONSTANTS
  Lengths,       \* documents there are to begin with
  Points,        \* where selections begin and end
  Window,        \* of a spectral edit
  kRunUp,        \* that a filter or an envelope settles in
  Order,         \* of the declicker's model
  LimiterContext,
  SpanBlend,     \* the blend of a filter or a compressor
  Short,         \* positions that come back one sample early from seconds
  Silence, Lost, \* what is no sample of a recording
  ExportBlock,        \* frames an export reads at a time
  MostCommands, MostFrames, MostMarkers   \* bounds of a behaviour

\* A sample is <<command it was new in, place>>; in seconds the first one is 0.
ASSUME CommandsAssumption ==
  /\ Lengths \subseteq Nat \ {0} /\ Points \subseteq Nat /\ Short \subseteq Nat \ {0}
  /\ {Window, kRunUp, Order, LimiterContext, MostFrames} \subseteq Nat /\ {SpanBlend, ExportBlock} \subseteq Nat \ {0}
  /\ Silence \notin Nat \X Nat /\ Lost \notin Nat \X Nat /\ Lost # Silence

VARIABLES
  document,      \* [audio, markers]; a marker is [position, length, at], and
                 \* `at` is history: the sample it was put on
  stereo, selection, clipboard, learned,
  past, future,  \* UndoHistory's levels
  halfChanged,   \* an edit that failed left clips of the document otherwise than
                 \* in the level the history takes for the current one
  playing,       \* "no", "current", or "stale" after an edit it should not outlive
  exporting,     \* [format, dither] of the preferences
  batch,         \* driven by a script
  scriptExit,
  enabled,       \* what the menus offer, as it was last worked out
  done,          \* history: the last command and what it did
  commands       \* counts them

commandVars == <<document, stereo, selection, clipboard, learned, past, future, halfChanged, playing, exporting, batch,
                 scriptExit, enabled, done, commands>>

Duration(doc) == Len(doc.audio)
Least(a, b) == IF a < b THEN a ELSE b
Most(a, b) == IF a < b THEN b ELSE a
IsEmpty(range) == range.end <= range.start
hasDocument == Duration(document) > 0
Part(audio, from, to) == SubSeq(audio, from + 1, to)

targetRange == IF IsEmpty(selection) THEN [start |-> 0, end |-> Duration(document)] ELSE selection
-------------------------------------------------------------------------------
(* The engine's verbs, on what the document plays.                             *)

replaceRange(doc, at, audio) ==
  [audio |-> Part(doc.audio, 0, at) \o audio \o Part(doc.audio, at + Len(audio), Duration(doc)), markers |-> doc.markers]

deleteRange(doc, start, end) ==
  [audio |-> Part(doc.audio, 0, start) \o Part(doc.audio, end, Duration(doc)),
   markers |-> [i \in DOMAIN doc.markers |->
     LET p == doc.markers[i].position
     IN [doc.markers[i] EXCEPT !.position = IF p >= end THEN p - (end - start) ELSE Least(p, start)]]]

silenceRange(doc, start, end) == replaceRange(doc, start, [i \in 1..(end - start) |-> Silence])

\* Mutant: what is at the gap itself stays before it.
insertAudio_After(doc, at, audio) ==
  [audio |-> Part(doc.audio, 0, at) \o audio \o Part(doc.audio, at, Duration(doc)),
   markers |-> [i \in DOMAIN doc.markers |->
     IF doc.markers[i].position > at THEN [doc.markers[i] EXCEPT !.position = @ + Len(audio)] ELSE doc.markers[i]]]
\* insertSilence, and the audio appended over the silence.
insertAudio(doc, at, audio) ==
  [audio |-> Part(doc.audio, 0, at) \o audio \o Part(doc.audio, at, Duration(doc)),
   markers |-> [i \in DOMAIN doc.markers |->
     IF doc.markers[i].position >= at THEN [doc.markers[i] EXCEPT !.position = @ + Len(audio)] ELSE doc.markers[i]]]
-------------------------------------------------------------------------------
(* The effects that keep the length. Each asks for some context `before` and    *)
(* `after` its target, reaches no further than `reach` beyond it, puts back the *)
(* whole span or the target's range, and blends its edges "nowhere", at "seams" *)
(* (the ends with audio beyond them) or at "both" ends. It `tells` a script     *)
(* whether it worked, or answers TRUE whatever happened; and it `mayFail` once  *)
(* its edit has begun.                                                         *)

InPlace == [reads |-> TRUE, before |-> 0, after |-> 0, reach |-> 0, writes |-> "range", edges |-> "nowhere",
            reverses |-> FALSE, needsStereo |-> FALSE, mayRefuse |-> TRUE, searches |-> FALSE, tells |-> TRUE,
            mayFail |-> FALSE]

\* Two windows either side: one that the edit spreads into, one for it to settle.
applySpectralEdit == [InPlace EXCEPT !.before = 2 * Window, !.after = 2 * Window, !.reach = Window,
                                     !.writes = "span", !.tells = FALSE]
chooseDenoise == applySpectralEdit
chooseAttenuate == applySpectralEdit
healSelection == applySpectralEdit
reverse == [InPlace EXCEPT !.reverses = TRUE]
invert == InPlace
sumToMono == [InPlace EXCEPT !.needsStereo = TRUE]
applyEqBands == [InPlace EXCEPT !.before = kRunUp, !.edges = "seams"]
\* highpass: and lowpass: are one band, and its answer is thrown away.
applyFilter == [applyEqBands EXCEPT !.tells = FALSE]
applyOverRange == [InPlace EXCEPT !.before = kRunUp]
chooseCompressor == [applyOverRange EXCEPT !.edges = "both"]
chooseGate == chooseCompressor
\* It takes no notice of the blend it is given.
chooseDeess == applyOverRange
applyDeclick == [InPlace EXCEPT !.before = Order, !.after = Order, !.searches = TRUE]
removeHum == [InPlace EXCEPT !.searches = TRUE]
restoreClipping == [InPlace EXCEPT !.searches = TRUE, !.tells = FALSE]
applyPitchShift == InPlace
\* What it was given to run up in and out is limited and put back too.
limitTo == [InPlace EXCEPT !.before = LimiterContext, !.after = LimiterContext, !.reach = LimiterContext,
                           !.writes = "span", !.tells = FALSE]
\* On the clips, and as far as they let it: nothing is read, or refused before.
applyGainDecibels == [InPlace EXCEPT !.reads = FALSE, !.mayRefuse = FALSE, !.tells = FALSE, !.mayFail = TRUE]
applyFade == applyGainDecibels
flattenRange == applyGainDecibels

Effects == [name \in {"denoise", "attenuate", "heal", "reverse", "invert", "mono", "filter", "equalise", "compress", "gate", "deess",
                      "declick", "dehum", "declip", "pitch", "limit", "gain", "fade", "flatten"} |->
  CASE name = "denoise" -> chooseDenoise [] name = "attenuate" -> chooseAttenuate [] name = "heal" -> healSelection
    [] name = "reverse" -> reverse [] name = "invert" -> invert [] name = "mono" -> sumToMono
    [] name = "filter" -> applyFilter [] name = "equalise" -> applyEqBands
    [] name = "compress" -> chooseCompressor [] name = "gate" -> chooseGate
    [] name = "deess" -> chooseDeess [] name = "declick" -> applyDeclick [] name = "dehum" -> removeHum
    [] name = "declip" -> restoreClipping [] name = "pitch" -> applyPitchShift [] name = "limit" -> limitTo
    [] name = "gain" -> applyGainDecibels [] name = "fade" -> applyFade [] name = "flatten" -> flattenRange]

\* The span that is read: where it starts and what is in it.
SpanOf(effect, range, doc) ==
  LET start == Most(0, range.start - effect.before)
  IN [start |-> start, end |-> Least(Duration(doc), range.end + effect.after)]

Blend(range) == Least(SpanBlend, (range.end - range.start) \div 4)

Backwards(effect, range, p) == IF effect.reverses THEN range.start + range.end - 1 - p ELSE p

\* What becomes of the sample at `p`. Processing touches the whole of its span,
\* except that a spectral edit stays within a window of the target.
\* Mutant: the end of the range is not blended.
Touch_Head(effect, range, duration, p) ==
  LET blend == Blend(range)
      atHead == effect.edges = "both" \/ (effect.edges = "seams" /\ range.start > 0)
  IN IF p < range.start - effect.reach \/ p >= range.end + effect.reach THEN "dry"
     ELSE IF atHead /\ p \in range.start..(range.start + blend - 1) THEN "blended" ELSE "wet"
Touch(effect, range, duration, p) ==
  LET blend == Blend(range)
      atHead == effect.edges = "both" \/ (effect.edges = "seams" /\ range.start > 0)
      atTail == effect.edges = "both" \/ (effect.edges = "seams" /\ range.end < duration)
  IN IF p < range.start - effect.reach \/ p >= range.end + effect.reach THEN "dry"
     ELSE IF \/ atHead /\ p \in range.start..(range.start + blend - 1)
             \/ atTail /\ p \in (range.end - blend)..(range.end - 1) THEN "blended" ELSE "wet"

\* The processed span: samples and what was done to them, first to last.
Work(effect, range, doc) ==
  LET span == SpanOf(effect, range, doc)
  IN [i \in 1..(span.end - span.start) |->
        LET p == span.start + i - 1
        IN [of |-> doc.audio[Backwards(effect, range, p) + 1], how |-> Touch(effect, range, Duration(doc), p)]]

\* What is put back, and where.
\* Mutant: a range at the very start has a whole context before it as any other.
PutBack_Whole(effect, range, doc) ==
  LET span == SpanOf(effect, range, doc)
      work == Work(effect, range, doc)
  IN IF effect.writes = "span" THEN [at |-> span.start, work |-> work]
     ELSE [at |-> range.start, work |-> Part(work, Least(effect.before, Len(work)),
                                             Least(Len(work), effect.before + (range.end - range.start)))]
PutBack(effect, range, doc) ==
  LET span == SpanOf(effect, range, doc)
      work == Work(effect, range, doc)
      offset == range.start - span.start
  IN IF effect.writes = "span" THEN [at |-> span.start, work |-> work]
     ELSE [at |-> range.start, work |-> Part(work, offset, offset + (range.end - range.start))]

\* A marker on audio that is turned around is on no sample any more.
Unlabelled(effect, range, markers) ==
  [i \in DOMAIN markers |-> IF effect.reverses /\ markers[i].position \in range.start..(range.end - 1)
                            THEN [markers[i] EXCEPT !.at = Lost] ELSE markers[i]]

Processed(effect, range, doc) ==
  LET put == PutBack(effect, range, doc)
  IN [audio |-> replaceRange(doc, put.at, [i \in DOMAIN put.work |-> put.work[i].of]).audio,
      markers |-> Unlabelled(effect, range, doc.markers)]

\* What was done to each position of the document.
Touched(effect, range, doc) ==
  LET put == PutBack(effect, range, doc)
  IN [p \in 0..(Duration(doc) - 1) |->
        IF p \in put.at..(put.at + Len(put.work) - 1) THEN put.work[p - put.at + 1].how ELSE "dry"]
-------------------------------------------------------------------------------
(* What a command leaves behind: `says` is what a script is told of it, `what` *)
(* depends on the command.                                                     *)

Command == /\ commands < MostCommands /\ commands' = commands + 1
           /\ scriptExit = "running" /\ (batch => done.name # "export")

Told(name, says, what) == [name |-> name, says |-> says, was |-> document, range |-> targetRange, what |-> what,
                           levels |-> Len(past), half |-> halfChanged]
Note(name, says) == Told(name, says, "no more")

\* A verb that answers FALSE ends the script, an export that does so with another
\* code.
Report(note) == /\ done' = note
                /\ scriptExit' = IF batch /\ ~note.says THEN (IF note.name = "export" THEN "1" ELSE "2") ELSE scriptExit

Clamped(range, doc) == [start |-> Least(range.start, Duration(doc)), end |-> Least(range.end, Duration(doc))]

\* Mutant: what plays goes on playing.
applyEdit_Playing(after, selected) ==
  /\ playing' = IF playing = "current" THEN "stale" ELSE playing
  /\ document' = after /\ past' = Append(past, document) /\ future' = <<>> /\ halfChanged' = FALSE
  /\ selection' = Clamped(selected, after)
\* Playback and the spectrogram's build end before the document changes; then it
\* is committed and shown with the selection as it can be kept. Of the engine's
\* verbs those over whole ranges refuse arguments that no command gives them (an
\* empty range or buffer, another layout), so that of their edits none fails.
applyEdit(after, selected) ==
  /\ playing' = "no"
  /\ document' = after /\ past' = Append(past, document) /\ future' = <<>> /\ halfChanged' = FALSE
  /\ selection' = Clamped(selected, after)

\* Mutant: committed as if it had been applied.
failEdit_Committed(changed) ==
  /\ playing' = "no" /\ halfChanged' = (halfChanged \/ changed) /\ past' = Append(past, document) /\ enabled' = enabled \cup {"undo"}
  /\ UNCHANGED <<document, future, selection>>
\* An edit that did not apply: playback has ended all the same; the clips may be
\* changed, which is neither committed nor shown.
failEdit(changed) ==
  /\ playing' = "no" /\ halfChanged' = (halfChanged \/ changed)
  /\ UNCHANGED <<document, past, future, selection, enabled>>

Unedited == UNCHANGED <<document, past, future, halfChanged, selection, playing, enabled>>
Settled == UNCHANGED <<stereo, batch>>
Kept == Settled /\ UNCHANGED <<clipboard, learned, exporting>>

\* Groups of menu entries that are grey together.
Offered ==
  (IF past # <<>> THEN {"undo"} ELSE {}) \cup (IF future # <<>> THEN {"redo"} ELSE {})
  \cup (IF hasDocument THEN {"document"} ELSE {})
  \cup (IF hasDocument /\ ~IsEmpty(selection) THEN {"cut, copy, delete, trim, export selection"} ELSE {})
  \cup (IF hasDocument /\ clipboard.audio # <<>> THEN {"paste"} ELSE {})
  \cup (IF hasDocument /\ learned THEN {"denoise"} ELSE {})
refreshActions == enabled' = Offered'
-------------------------------------------------------------------------------
(* The commands that change the target in place.                               *)

\* Channels are counted, settings checked and the span read before anything is
\* touched; a repair that finds nothing has done what it was asked to.
process(name, readable, usable, found) ==
  LET effect == Effects[name]
      range == targetRange
      refused == \/ ~readable /\ effect.reads
                 \/ effect.needsStereo /\ ~stereo
                 \/ ~usable
      answer == ~refused \/ ~effect.tells
  IN /\ Command /\ (name = "denoise" => learned) /\ (~usable => effect.mayRefuse) /\ (~found => effect.searches)
     /\ Kept
     /\ IF IsEmpty(range) \/ refused \/ ~found
          THEN /\ Unedited /\ Report(Note("nothing", answer /\ ~(effect.tells /\ IsEmpty(range))))
          ELSE /\ applyEdit(Processed(effect, range, document), selection)
               /\ Report(Told(name, TRUE, Touched(effect, range, document))) /\ refreshActions

\* The clips inside the range are found, split, flattened and changed one after
\* another, and one cannot be: a gain beyond its limit (or that is no number), no
\* clip to fade or fades that meet, a source that cannot be read, which is before
\* a flattening changes anything. The samples stay where they are; how loud they
\* are is in Edits. The three verbs tell a script nothing of it.
doesNotApply(name, changed) ==
  /\ Command /\ Kept /\ Effects[name].mayFail /\ ~IsEmpty(targetRange) /\ (changed => name # "flatten")
  /\ failEdit(changed) /\ Report(Note("failed", ~Effects[name].tells))

\* Samples there have not been before: new ones, or copies.
Fresh(count) == [i \in 1..count |-> <<commands + 1, i>>]

\* Longer or shorter, in place of the range.
applyTimeStretch(readable, count) ==
  LET range == targetRange
      after == insertAudio(deleteRange(document, range.start, range.end), range.start, Fresh(count))
  IN /\ Command /\ Kept
     /\ IF readable /\ ~IsEmpty(range)
          THEN /\ Duration(after) <= MostFrames /\ applyEdit(after, selection)
               /\ Report(Note("stretch", TRUE)) /\ refreshActions
          ELSE Unedited /\ Report(Note("nothing", FALSE))
-------------------------------------------------------------------------------
(* The clipboard.                                                              *)

Copied(readable) == IF readable /\ ~IsEmpty(selection)
                    THEN [audio |-> Part(document.audio, selection.start, selection.end), stereo |-> stereo] ELSE clipboard

\* Mutant: the menu is not told that there is something to paste.
copySelection_Grey(readable) ==
  /\ Command /\ clipboard' = Copied(readable) /\ Unedited /\ Report(Note("copy", TRUE))
  /\ Settled /\ UNCHANGED <<learned, exporting>>
copySelection(readable) ==
  /\ Command /\ clipboard' = Copied(readable) /\ Report(Note("copy", TRUE))
  /\ UNCHANGED <<document, past, future, halfChanged, selection, playing>>
  /\ Settled /\ UNCHANGED <<learned, exporting>> /\ refreshActions

Caret(range) == [start |-> range.start, end |-> range.start]

\* A cut is a copy, and a deletion whether or not it could copy.
\* Mutant: deleted first, and copied from what is left.
cutSelection_Late(readable) ==
  LET after == deleteRange(document, selection.start, selection.end) IN
  /\ Command /\ ~IsEmpty(selection)
  /\ clipboard' = [audio |-> Part(after.audio, selection.start, Least(selection.end, Duration(after))), stereo |-> stereo]
  /\ applyEdit(after, Caret(selection)) /\ Report(Told("cut", TRUE, readable))
  /\ Settled /\ UNCHANGED <<learned, exporting>> /\ refreshActions
cutSelection(readable) ==
  /\ Command /\ ~IsEmpty(selection)
  /\ clipboard' = Copied(readable)
  /\ applyEdit(deleteRange(document, selection.start, selection.end), Caret(selection))
  /\ Report(Told("cut", TRUE, readable))
  /\ Settled /\ UNCHANGED <<learned, exporting>> /\ refreshActions

deleteSelection(ripple) ==
  /\ Command /\ ~IsEmpty(selection)
  /\ IF ripple THEN applyEdit(deleteRange(document, selection.start, selection.end), Caret(selection))
               ELSE applyEdit(silenceRange(document, selection.start, selection.end), selection)
  /\ Report(Note("delete", TRUE)) /\ Kept /\ refreshActions

\* Back to front, so that the second deletion means what it says.
\* Mutant: front to back.
Trimmed_Forwards(doc, range) ==
  LET behead == IF range.start > 0 THEN deleteRange(doc, 0, range.start) ELSE doc
  IN IF range.end < Duration(behead) THEN deleteRange(behead, range.end, Duration(behead)) ELSE behead
Trimmed(doc, range) ==
  LET curtailed == IF range.end < Duration(doc) THEN deleteRange(doc, range.end, Duration(doc)) ELSE doc
  IN IF range.start > 0 THEN deleteRange(curtailed, 0, range.start) ELSE curtailed
trimToSelection ==
  LET after == Trimmed(document, selection) IN
  /\ Command /\ ~IsEmpty(selection)
  /\ applyEdit(after, [start |-> 0, end |-> Duration(after)]) /\ Report(Note("trim", TRUE))
  /\ Kept /\ refreshActions

\* Not into a document that has nothing in it.
pasteClipboard ==
  /\ Command /\ Kept /\ Report(Note("paste", TRUE))
  /\ IF hasDocument /\ clipboard.audio # <<>> /\ clipboard.stereo = stereo
       THEN LET after == insertAudio(document, selection.start, Fresh(Len(clipboard.audio)))
            IN Duration(after) <= MostFrames /\ applyEdit(after, selection) /\ refreshActions
       ELSE Unedited
-------------------------------------------------------------------------------
(* Undo and redo.                                                              *)

\* They owe the readers the same courtesy as an edit. What a failed edit left
\* behind is in no level, so it is gone with either.
Rewrite(after) == document' = after /\ halfChanged' = FALSE /\ playing' = "no" /\ selection' = Clamped(selection, after)

undo == /\ Command /\ past # <<>>
        /\ Rewrite(Last(past)) /\ past' = Front(past) /\ future' = <<document>> \o future
        /\ Report(Note("undo", TRUE)) /\ Kept /\ refreshActions
redo == /\ Command /\ future # <<>>
        /\ Rewrite(Head(future)) /\ future' = Tail(future) /\ past' = Append(past, document)
        /\ Report(Note("redo", TRUE)) /\ Kept /\ refreshActions
-------------------------------------------------------------------------------
(* Markers.                                                                    *)

Apart(a, b) == IF a < b THEN b - a ELSE a - b

\* The first of those that are as near to the caret as any.
nearestMarker ==
  SelectInSeq(document.markers, LAMBDA m :
    \A i \in DOMAIN document.markers :
      Apart(m.position, selection.start) <= Apart(document.markers[i].position, selection.start))

SampleAt(doc, p) == IF p < Duration(doc) THEN doc.audio[p + 1] ELSE Lost

\* In a document, or not at all: which a script is told.
EditMarkers(name, possible, markers) ==
  /\ Command /\ Kept
  /\ IF hasDocument /\ possible
       THEN /\ applyEdit([audio |-> document.audio, markers |-> markers], selection)
            /\ Report(Note(name, TRUE)) /\ refreshActions
       ELSE Unedited /\ Report(Note("nothing", FALSE))

\* Mutant: as they come.
Arranged_Appended(markers) == {markers}
\* In order of time; those at one position as the sort leaves them.
Arranged(markers) ==
  {sorted \in {[i \in DOMAIN markers |-> markers[p[i]]] : p \in Bijection(DOMAIN markers, DOMAIN markers)} :
     \A i, j \in DOMAIN markers : i < j => sorted[i].position <= sorted[j].position}

addMarker ==
  LET position == Least(selection.start, Duration(document))
      marker == [position |-> position, length |-> IF IsEmpty(selection) THEN 0 ELSE selection.end - selection.start,
                 at |-> SampleAt(document, position)]
  IN /\ Len(document.markers) < MostMarkers
     /\ \E markers \in Arranged(Append(document.markers, marker)) : EditMarkers("mark", TRUE, markers)

\* A label is no business of the model: to rename is to commit what there was.
renameMarker == nearestMarker # 0 /\ EditMarkers("rename", TRUE, document.markers)

deleteNearestMarker ==
  EditMarkers("unmark", nearestMarker # 0, [i \in 1..(Len(document.markers) - 1) |->
                                             document.markers[IF i < nearestMarker THEN i ELSE i + 1]])
clearMarkers == EditMarkers("clear", document.markers # <<>>, <<>>)

\* To seconds and back: a quotient of doubles, multiplied and cut.
ThroughSeconds(p) == IF p \in Short THEN p - 1 ELSE p

Select(range, note) == /\ selection' = Clamped(range, document) /\ Report(note)
                       /\ UNCHANGED <<document, past, future, halfChanged, playing>> /\ Kept /\ refreshActions

Ahead == SelectInSeq(document.markers, LAMBDA m : m.position > selection.start)
Behind == SelectLastInSeq(document.markers, LAMBDA m : m.position < selection.start)

goToMarker(forwards) ==
  LET found == IF forwards THEN Ahead ELSE Behind
      marker == document.markers[found]
      note == Told("walk", TRUE, [from |-> selection.start, forwards |-> forwards, found |-> found # 0])
  IN /\ Command
     /\ IF found = 0 THEN Select(selection, note)
        ELSE LET start == ThroughSeconds(marker.position)
             IN Select([start |-> start,
                        end |-> IF marker.length > 0 THEN ThroughSeconds(marker.position + marker.length) ELSE start], note)
-------------------------------------------------------------------------------
(* Selections, settings and what is learned.                                   *)

\* selectall, deselect and select: are ranges too.
select(range) == Command /\ Select(range, Note("select", TRUE))

learnNoiseProfile(readable, clean) ==
  /\ Command /\ learned' = (learned \/ (~IsEmpty(selection) /\ readable /\ clean))
  /\ UNCHANGED <<document, past, future, halfChanged, selection, playing>> /\ Report(Note("learn", TRUE))
  /\ Settled /\ UNCHANGED <<clipboard, exporting>> /\ refreshActions

\* format: and dither:, or what the menus set.
choose(settings) ==
  /\ Command /\ exporting' = settings
  /\ Unedited /\ Report(Note("settings", TRUE)) /\ Settled /\ UNCHANGED <<clipboard, learned>>

\* A verb nobody knows, with numbers that are none, or that wants noise learned first.
unknown == /\ Command /\ Unedited /\ Report(Note("nothing", FALSE)) /\ Kept

\* From what is selected, or from the caret to the end, unless that is nowhere.
togglePlayback(opens) ==
  LET to == IF IsEmpty(selection) THEN Duration(document) ELSE selection.end IN
  /\ Command
  /\ playing' = IF playing # "no" \/ ~opens \/ to <= selection.start THEN "no" ELSE "current"
  /\ UNCHANGED <<document, past, future, halfChanged, selection, enabled>> /\ Report(Note("play", TRUE)) /\ Kept

\* The timer finds the playhead at the end of what is selected by now.
followPlayhead == /\ playing # "no" /\ playing' = "no"
                  /\ UNCHANGED <<document, past, future, halfChanged, selection, enabled, scriptExit, done, commands>> /\ Kept
-------------------------------------------------------------------------------
(* The export.                                                                 *)

Containers == {"wav", "aiff", "flac"}
Narrowed(container, format) ==
  CASE container = "flac" -> IF format = "16" THEN "16" ELSE "24"
    [] container = "aiff" -> IF format \in {"16", "32"} THEN format ELSE "24"
    [] OTHER -> format

\* Blocks of `length` frames from `start`, up to the one that cannot be read.
\* Mutant: every block is read from where the export began.
Exported_Stuck(doc, start, length, readable) ==
  FlattenSeq([b \in 1..((Least(length, readable) + ExportBlock - 1) \div ExportBlock) |->
                Part(doc.audio, start, start + Least(ExportBlock, Least(length, readable) - (b - 1) * ExportBlock))])
Exported(doc, start, length, readable) ==
  FlattenSeq([b \in 1..((Least(length, readable) + ExportBlock - 1) \div ExportBlock) |->
                Part(doc.audio, start + (b - 1) * ExportBlock,
                     start + Least(b * ExportBlock, Least(length, readable)))])

\* The file is emptied as it is opened; the answer does not depend on how much
\* of the document could be read.
exportTo(container, selectionOnly, readable, writes) ==
  LET range == IF selectionOnly /\ ~IsEmpty(selection) THEN selection
               ELSE [start |-> 0, end |-> Duration(document)]
      format == Narrowed(container, exporting.format)
  IN /\ Command /\ Unedited /\ Kept /\ ~(batch /\ selectionOnly)
     /\ (writes => hasDocument)
     /\ Report(Told("export", writes,
               [range |-> range, file |-> Exported(document, range.start, range.end - range.start, readable),
                format |-> format, container |-> container, dithered |-> format = "16" /\ exporting.dither # "none",
                readable |-> readable]))

\* The end of a script: measurement, playback to its end, printing and saving were
\* asked for, and one of them may not have been possible.
endBatch(complete) ==
  /\ batch /\ scriptExit = "running" /\ scriptExit' = IF complete THEN "0" ELSE "1"
  /\ playing' = "no"
  /\ UNCHANGED <<document, past, future, halfChanged, selection, enabled, done, commands>> /\ Kept
-------------------------------------------------------------------------------
FirstMarkers(n) == {<<>>, <<[position |-> n \div 2, length |-> 1, at |-> <<0, n \div 2 + 1>>]>>}

CommandsInit ==
  /\ \E n \in Lengths : \E markers \in FirstMarkers(n) :
       document = [audio |-> [i \in 1..n |-> <<0, i>>], markers |-> markers]
  /\ \E p, q \in Points : p <= q /\ selection = Clamped([start |-> p, end |-> q], document)
  /\ stereo \in BOOLEAN
  /\ clipboard = [audio |-> IF document.markers = <<>> THEN <<>> ELSE <<Silence>>, stereo |-> TRUE]
  /\ learned = FALSE /\ past = <<>> /\ future = <<>> /\ halfChanged = FALSE /\ playing = "no"
  /\ exporting = [format |-> "24", dither |-> "tpdf"] /\ batch = stereo /\ scriptExit = "running"
  /\ enabled = Offered /\ done = Note("none", TRUE) /\ commands = 0

Repair ==
  \/ \E name \in DOMAIN Effects, readable, usable, found \in BOOLEAN : process(name, readable, usable, found)
  \/ \E name \in DOMAIN Effects, changed \in BOOLEAN : doesNotApply(name, changed)
  \/ \E readable \in BOOLEAN, count \in {1, 3} : applyTimeStretch(readable, count)
Edit ==
  \/ \E readable \in BOOLEAN : copySelection(readable) \/ cutSelection(readable)
  \/ \E ripple \in BOOLEAN : deleteSelection(ripple)
  \/ trimToSelection \/ pasteClipboard \/ undo \/ redo
Mark == \/ addMarker \/ renameMarker \/ deleteNearestMarker \/ clearMarkers
        \/ \E forwards \in BOOLEAN : goToMarker(forwards)
Other ==
  \/ \E p, q \in Points : p <= q /\ select([start |-> p, end |-> q])
  \/ \E readable, clean \in BOOLEAN : learnNoiseProfile(readable, clean)
  \/ \E format \in {"16", "float"}, dither \in {"none", "tpdf"} : choose([format |-> format, dither |-> dither])
  \/ unknown \/ followPlayhead
  \/ \E opens \in BOOLEAN : togglePlayback(opens)
  \/ \E container \in Containers, selectionOnly, writes \in BOOLEAN, readable \in {2, MostFrames} :
       exportTo(container, selectionOnly, readable, writes)
  \/ \E complete \in BOOLEAN : endBatch(complete)

CommandsNext == Repair \/ Edit \/ Mark \/ Other
CommandsSpec == CommandsInit /\ [][CommandsNext]_commandVars
-------------------------------------------------------------------------------
\* A repair, a filter or a fade changes its target and at most its own reach
\* beside it; every sample stays where it was, also where the document ends
\* before the context the command would have liked to read.
OnlyTheTargetChanges ==
  done.name \in DOMAIN Effects =>
    LET effect == Effects[done.name]
        range == done.range
        was == done.was.audio
    IN /\ Duration(document) = Len(was)
       /\ \A p \in 0..(Len(was) - 1) :
            /\ document.audio[p + 1] =
                 was[1 + IF p \in range.start..(range.end - 1) THEN Backwards(effect, range, p) ELSE p]
            /\ p < range.start - effect.reach \/ p >= range.end + effect.reach => done.what[p] = "dry"
            /\ p \in range.start..(range.end - 1) => done.what[p] # "dry"

\* Filtered and compressed audio meets untouched audio in a blend, never in a
\* step (a range of less than four samples has no room for one).
EdgesAreBlended ==
  done.name \in DOMAIN Effects =>
    LET range == done.range IN
    Effects[done.name].edges # "nowhere" /\ range.end - range.start >= 4 =>
      /\ range.start > 0 => done.what[range.start] = "blended"
      /\ range.end < Duration(done.was) => done.what[range.end - 1] = "blended"

\* What was cut is what a paste at the caret would bring back, and a trim leaves
\* what was selected.
CutsCanBePasted ==
  /\ done.name = "cut" /\ done.what =>
       insertAudio(document, selection.start, clipboard.audio).audio = done.was.audio
  /\ done.name = "trim" =>
       document.audio = Part(done.was.audio, done.range.start, done.range.end)

\* MANUAL.md 574: "Markers are kept in time order", whatever moves them; and a
\* marker stays on the sample it was put on as long as there is that sample.
MarkersStay ==
  /\ \A i, j \in DOMAIN document.markers : i < j => document.markers[i].position <= document.markers[j].position
  /\ \A i \in DOMAIN document.markers :
       LET m == document.markers[i]
       IN /\ m.position \in 0..Duration(document)
          /\ m.at \in ToSet(document.audio) \ {Silence} => SampleAt(document, m.position) = m.at

\* MainWindow.cpp 1719: "a player that goes on playing the old version through an
\* edit is wrong even where it is safe".
NothingPlaysWhatWas == playing # "stale"

\* An export that was written holds the range it was asked for, once and in
\* order, in a format its container has; dither is for 16 bits alone.
ExportsAreWhole ==
  done.name = "export" /\ done.says =>
    LET export == done.what
        asked == Part(document.audio, export.range.start, export.range.end)
    IN /\ export.readable >= export.range.end - export.range.start => export.file = asked
       /\ IsPrefix(export.file, asked)
       /\ export.container = "flac" => export.format \in {"16", "24"}
       /\ export.dithered => export.format = "16"

\* A script ends where a verb answers that it failed (which not all of them do). A
\* verb that refuses has changed nothing. One whose edit does not apply has added
\* nothing to the history and moved no sample and no marker; the clips it may have
\* changed ("Nothing changed", says MainWindow.cpp 1726) are put right by the next
\* undo or redo, and committed by the next edit.
ScriptsStopAtARefusal ==
  /\ batch /\ ~done.says => scriptExit \in {"1", "2"}
  /\ done.name \in {"nothing", "failed"} => document = done.was /\ Len(past) = done.levels
  /\ done.name = "nothing" => halfChanged = done.half
  /\ done.name \in {"undo", "redo"} => ~halfChanged

\* What the menus offer is what can be done now.
MenusAreCurrent == enabled = Offered

\* docs/08-for-review.md 49: "Alt+Left and Alt+Right walk between them, and landing
\* on a region selects it". Each step of the walk goes past where it began.
WalkMovesOn ==
  done.name = "walk" /\ done.what.found =>
    IF done.what.forwards THEN selection.start > done.what.from ELSE selection.start < done.what.from
===============================================================================
