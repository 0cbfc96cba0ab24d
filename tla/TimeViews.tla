------------------------------ MODULE TimeViews -------------------------------
(* The waveform, the spectrogram and the ruler over one time axis (sa-ui): each *)
(* view keeps a range, a selection and a length of its own, and tells the       *)
(* others what it has done by signals that are delivered at once. The document  *)
(* underneath changes length, and its spectrogram arrives when it is built.     *)
(* Positions are samples, columns are pixels of the plot right of the gutter;   *)
(* both views are as wide, being one above the other.                           *)
EXTENDS Integers, Sequences

CONSTANTS
  Durations,     \* lengths a document may have; 0 is none
  Widths,        \* widths the plots may have
  MostGestures   \* gestures, edits and builds of a behaviour, to bound it

VARIABLES
  waveform, spectrogram,   \* [total, start, length, selection]; the second one also has a band
  ruler,                   \* [start, length, selection]
  drag,                    \* what a button of the mouse holds on to
  width,                   \* columns of the plots
  building,                \* a spectrogram is being built for the document
  lately,                  \* history: what moved a range last, "told", "resized" or "edited"
  gestures

viewVars == <<waveform, spectrogram, ruler, drag, width, building, lately, gestures>>

NoDrag == [kind |-> "none"]
AllBands == "all"
AtMost(x, limit) == IF x > limit THEN limit ELSE x
AtLeast(x, limit) == IF x < limit THEN limit ELSE x
Empty(selection) == selection.end <= selection.start
Length(selection) == IF Empty(selection) THEN 0 ELSE selection.end - selection.start
\* Division of the code's doubles, cut towards zero.
Truncated(x, y) == IF x >= 0 THEN x \div y ELSE -((-x) \div y)
Rounded(x, y) == IF x >= 0 THEN (2 * x + y) \div (2 * y) ELSE -((2 * (-x) + y) \div (2 * y))
\* std::clamp as the standard libraries have it, also where its bounds cross:
\* there it answers the lower one to what is below it.
StdClamp(x, low, high) == IF x < low THEN low ELSE IF high < x THEN high ELSE x
-------------------------------------------------------------------------------
(* One view.                                                                   *)

clampedTo(v, columns) ==
  LET length == StdClamp(v.length, AtLeast(columns, 1), v.total)
  IN IF v.total <= 0
       THEN [v EXCEPT !.start = 0, !.length = 0]
       ELSE [v EXCEPT !.length = length, !.start = StdClamp(@, 0, AtLeast(v.total - length, 0))]

clampView(v) == clampedTo(v, width)
setViewRange(v, start, length) == clampView([v EXCEPT !.start = start, !.length = length])

\* Mutant: whoever drags to the left selects backwards.
setSelection_AsDragged(v, start, end) ==
  [v EXCEPT !.selection = [start |-> StdClamp(start, 0, v.total), end |-> StdClamp(end, 0, v.total)]]
setSelection(v, start, end) ==
  LET low == IF end < start THEN end ELSE start
      high == IF end < start THEN start ELSE end
  IN [v EXCEPT !.selection = [start |-> StdClamp(low, 0, v.total), end |-> StdClamp(high, 0, v.total)]]

showAll(v) == setViewRange(v, 0, v.total)
zoomToSelection(v) == setViewRange(v, v.selection.start, Length(v.selection))
scrollBySamples(v, delta) == setViewRange(v, v.start + delta, v.length)

\* The sample under the cursor stays: `column` of the plot is the anchor.
\* Mutant: the start is worked out from the length before it was clamped.
zoom_Unclamped(v, num, den, column) ==
  LET anchor == v.start + (v.length * column) \div width
      wanted == (v.length * num) \div den
  IN setViewRange(v, anchor - (wanted * column) \div width, wanted)
zoom(v, num, den, column) ==
  LET anchor == v.start + (v.length * column) \div width
      zoomed == clampView([v EXCEPT !.length = (@ * num) \div den])
  IN setViewRange(zoomed, anchor - (zoomed.length * column) \div width, zoomed.length)

setTimeline(v, total) == showAll([v EXCEPT !.total = total, !.selection = [start |-> 0, end |-> 0]])

sampleAtX(v, column) == IF width <= 0 \/ v.length <= 0 THEN v.start
                        ELSE v.start + (v.length * StdClamp(column, 0, width)) \div width
xAtSample(v, sample) == IF width <= 0 \/ v.length <= 0 THEN 0
                        ELSE Rounded((sample - v.start) * width, v.length)
-------------------------------------------------------------------------------
(* The three of them, [wave, spec, ruler], as their signals leave them. A view  *)
(* that is told does not tell again; the ruler takes what it is given.          *)

Shown == [wave |-> waveform, spec |-> spectrogram, ruler |-> ruler, lately |-> lately]
Show(s) == waveform' = s.wave /\ spectrogram' = s.spec /\ ruler' = s.ruler /\ lately' = s.lately

RulerRange(s, v) == [s EXCEPT !.ruler.start = v.start, !.ruler.length = v.length, !.lately = "told"]

\* Mutant: the other view is not connected.
waveformRanges_Alone(s, v) == RulerRange([s EXCEPT !.wave = v], v)
waveformRanges(s, v) ==
  RulerRange([s EXCEPT !.wave = v, !.spec = setViewRange(@, v.start, v.length)], v)
spectrogramRanges(s, v) ==
  RulerRange([s EXCEPT !.spec = v, !.wave = setViewRange(@, v.start, v.length)], v)

\* Whoever moved the range says so.
Ranges(s, who, v) == IF who = "waveform" THEN waveformRanges(s, v) ELSE spectrogramRanges(s, v)
Of(s, who) == IF who = "waveform" THEN s.wave ELSE s.spec

\* MainWindow's: to both views and, as it is, to the ruler.
selectionChanged(s, start, end) ==
  [s EXCEPT !.wave = setSelection(@, start, end), !.spec = setSelection(@, start, end),
            !.ruler.selection = [start |-> start, end |-> end]]

\* A drag in one view selects there and tells the window.
selects(s, who, start, end) ==
  LET chosen == setSelection(Of(s, who), start, end).selection
  IN selectionChanged(s, chosen.start, chosen.end)

setPyramid(s, total) == waveformRanges(s, setTimeline(s.wave, total))
\* The band goes back to all there is.
setTiles(s, total) == spectrogramRanges(s, setTimeline([s.spec EXCEPT !.band = AllBands], total))

\* `peaks` is the length of the waveform's analysis, 0 when that failed.
\* Mutant: the selection is put back as it was, however long the document is now.
refreshViews_AsItWas(s, total, peaks) ==
  LET previous == s.wave.selection
      loaded == setTiles(setPyramid(s, peaks), total)
      chosen == [loaded EXCEPT !.wave.selection = previous, !.spec.selection = previous, !.ruler.selection = previous]
  IN [RulerRange(chosen, chosen.wave) EXCEPT !.spec = setViewRange(@, chosen.wave.start, chosen.wave.length)]
refreshViews(s, total, peaks) ==
  LET previous == s.wave.selection
      loaded == setTiles(setPyramid(s, peaks), total)
      chosen == selectionChanged(loaded, AtMost(previous.start, total), AtMost(previous.end, total))
  IN [RulerRange(chosen, chosen.wave) EXCEPT !.spec = setViewRange(@, chosen.wave.start, chosen.wave.length)]
-------------------------------------------------------------------------------
(* The mouse.                                                                  *)

Views == {"waveform", "spectrogram"}
Columns == 0..width
Gesture == gestures < MostGestures /\ gestures' = gestures + 1
Document == spectrogram.total

\* A notch is a fifth, in or out.
wheel(who, column, factor) ==
  /\ Gesture /\ width > 0 /\ Of(Shown, who).length > 0
  /\ Show(Ranges(Shown, who, zoom(Of(Shown, who), factor[1], factor[2], column)))
  /\ UNCHANGED <<drag, width, building>>

\* With Shift it is a scroll.
wheelScrolls(who, notches) ==
  LET v == Of(Shown, who) IN
  /\ Gesture /\ width > 0 /\ v.length > 0
  /\ Show(Ranges(Shown, who, scrollBySamples(v, Truncated(-notches * v.length, 10))))
  /\ UNCHANGED <<drag, width, building>>

pressToPan(who, column) ==
  /\ Gesture /\ Of(Shown, who).total > 0 /\ drag = NoDrag
  /\ drag' = [kind |-> "panning", who |-> who, x |-> column, start |-> Of(Shown, who).start]
  /\ UNCHANGED <<waveform, spectrogram, ruler, width, building, lately>>

\* A press in the spectrogram chooses all bands until it has been dragged far
\* enough up or down.
Bands(s, who, band) == IF who = "spectrogram" THEN [s EXCEPT !.spec.band = band] ELSE s

Further(selection, here) ==
  LET Away(x) == IF here < x THEN x - here ELSE here - x
  IN IF Away(selection.start) > Away(selection.end) THEN selection.start ELSE selection.end

\* With Shift it extends what is selected from the end that is further away.
pressToSelect(who, column, shift) ==
  LET v == Of(Shown, who)
      here == sampleAtX(v, column)
      anchor == IF shift THEN Further(v.selection, here) ELSE here
  IN /\ Gesture /\ v.total > 0 /\ drag = NoDrag /\ (shift => ~Empty(v.selection))
     /\ drag' = [kind |-> "selecting", who |-> who, anchor |-> anchor]
     /\ Show(selects(Bands(Shown, who, AllBands), who, anchor, here))
     /\ UNCHANGED <<width, building>>

\* The pointer may leave the plot on either side.
dragTo(column, band) ==
  LET v == Of(Shown, drag.who) IN
  /\ Gesture
  /\ \/ /\ drag.kind = "panning" /\ width > 0 /\ band = AllBands
        /\ Show(Ranges(Shown, drag.who,
                       setViewRange(v, drag.start - Truncated((column - drag.x) * v.length, width), v.length)))
     \/ /\ drag.kind = "selecting"
        /\ Show(selects(Bands(Shown, drag.who, band), drag.who, drag.anchor, sampleAtX(v, column)))
  /\ UNCHANGED <<drag, width, building>>

release == /\ drag # NoDrag /\ drag' = NoDrag
           /\ UNCHANGED <<waveform, spectrogram, ruler, width, building, lately, gestures>>

doubleClick(who) ==
  /\ Gesture /\ Of(Shown, who).total > 0 /\ drag = NoDrag
  /\ Show(selects(Bands(Shown, who, AllBands), who, 0, Of(Shown, who).total))
  /\ UNCHANGED <<drag, width, building>>

\* From the menu, on the waveform.
zoomOut == /\ Gesture /\ Show(waveformRanges(Shown, showAll(waveform)))
           /\ UNCHANGED <<drag, width, building>>
zoomIn == /\ Gesture /\ ~Empty(waveform.selection)
          /\ Show(waveformRanges(Shown, zoomToSelection(waveform)))
          /\ UNCHANGED <<drag, width, building>>

\* Walking to a marker selects there, and brings it into the middle unless it
\* is on screen already.
goTo(position) ==
  LET s == selectionChanged(Shown, position, position)
      off == position < waveform.start \/ position >= waveform.start + waveform.length
  IN /\ Gesture /\ position \in 0..waveform.total /\ waveform.total > 0
     /\ Show(IF off THEN waveformRanges(s, scrollBySamples(s.wave, position - waveform.length \div 2 - waveform.start)) ELSE s)
     /\ UNCHANGED <<drag, width, building>>

\* A resized view clamps its range and tells nobody.
resize(columns) ==
  /\ Gesture /\ columns # width /\ width' = columns
  /\ Show([Shown EXCEPT !.wave = clampedTo(@, columns), !.spec = clampedTo(@, columns), !.lately = "resized"])
  /\ UNCHANGED <<drag, building>>

\* A batch verb may select from the later end to the earlier.
selectSeconds(start, end) ==
  /\ Gesture /\ {start, end} \subseteq 0..Document
  /\ Show(selectionChanged(Shown, start, end))
  /\ UNCHANGED <<drag, width, building>>
-------------------------------------------------------------------------------
(* The document.                                                               *)

\* An edit, an undo or a redo: the views are loaded anew with what there is now,
\* and its spectrogram is begun unless the waveform could not be analysed.
edit(total, peaks) ==
  /\ Gesture /\ Document > 0
  /\ Show([refreshViews(Shown, total, peaks) EXCEPT !.lately = "edited"]) /\ building' = (peaks > 0)
  /\ UNCHANGED <<drag, width>>

\* It did not apply: nothing is loaded, but the build that was cancelled for it
\* begins again.
editFails == /\ Gesture /\ Document > 0 /\ building' = TRUE
             /\ UNCHANGED <<waveform, spectrogram, ruler, drag, width, lately>>

\* A deletion leaves the caret where the selection began, a trim selects and
\* shows all that is left.
delete ==
  LET at == waveform.selection.start
      left == Document - Length(waveform.selection)
  IN /\ Gesture /\ ~Empty(waveform.selection)
     /\ Show([selectionChanged(refreshViews(Shown, left, left), at, at) EXCEPT !.lately = "edited"])
     /\ building' = (left > 0)
     /\ UNCHANGED <<drag, width>>
trim ==
  LET left == Length(waveform.selection)
      s == selectionChanged(refreshViews(Shown, left, left), 0, left)
  IN /\ Gesture /\ left > 0
     /\ Show(waveformRanges(s, showAll(s.wave))) /\ building' = TRUE
     /\ UNCHANGED <<drag, width>>

\* What was selected in the document before stays selected in this one.
open(total) ==
  LET s == refreshViews(Shown, total, total) IN
  /\ Gesture
  /\ Show(waveformRanges(s, showAll(s.wave))) /\ building' = (total > 0)
  /\ UNCHANGED <<drag, width>>

\* The overview, or the news that there is none, arrives at an idle moment.
\* Mutant: the selection is not given back.
overviewArrives_Unselected ==
  LET s == setTiles(Shown, Document) IN
  /\ building /\ building' = FALSE
  /\ Show([s EXCEPT !.spec = setViewRange(@, s.wave.start, s.wave.length)])
  /\ UNCHANGED <<drag, width, gestures>>
overviewArrives ==
  LET s == setTiles(Shown, Document)
      spec == setViewRange(s.spec, s.wave.start, s.wave.length)
  IN /\ building /\ building' = FALSE
     /\ Show([s EXCEPT !.spec = setSelection(spec, s.wave.selection.start, s.wave.selection.end)])
     /\ UNCHANGED <<drag, width, gestures>>
-------------------------------------------------------------------------------
NothingSelected == [start |-> 0, end |-> 0]
NewView == [total |-> 0, start |-> 0, length |-> 0, selection |-> NothingSelected]

ViewsInit == /\ waveform = NewView
             /\ spectrogram = [total |-> 0, start |-> 0, length |-> 0, selection |-> NothingSelected, band |-> AllBands]
             /\ ruler = [start |-> 0, length |-> 0, selection |-> NothingSelected]
             /\ drag = NoDrag /\ width \in Widths /\ building = FALSE /\ lately = "told" /\ gestures = 0

Hand ==
  \/ \E who \in Views, column \in Columns :
       \/ \E factor \in {<<4, 5>>, <<5, 4>>} : wheel(who, column, factor)
       \/ pressToPan(who, column)
       \/ \E shift \in BOOLEAN : pressToSelect(who, column, shift)
  \/ \E who \in Views : doubleClick(who) \/ \E notches \in {-4, 4} : wheelScrolls(who, notches)
  \/ \E column \in -1..width + 1, band \in {AllBands, "some"} : dragTo(column, band)
  \/ release \/ zoomOut \/ zoomIn
  \/ \E columns \in Widths : resize(columns)

ViewsNext ==
  \/ Hand
  \/ \E start, end \in 0..Document : selectSeconds(start, end)
  \/ \E position \in 0..Document : goTo(position)
  \/ \E total \in Durations : open(total) \/ \E peaks \in {0, total} : edit(total, peaks)
  \/ editFails \/ delete \/ trim \/ overviewArrives

ViewsSpec == ViewsInit /\ [][ViewsNext]_viewVars
-------------------------------------------------------------------------------
\* TimeAxisView.h: the two views are "two renderings of one timeline, and a user
\* who selects in one and finds a different selection in the other has been lied
\* to". Whatever is dragged, edited, lately or delivered in whatever order, they
\* show one range and one selection, inside the document. (Where a document has
\* fewer samples than the plot has columns, std::clamp is asked the impossible
\* and the two may answer differently; where the waveform could not be analysed it
\* has no length at all: README, "Seen while modelling".)
OneTimeline ==
  Document >= width /\ waveform.total > 0 =>
    /\ <<waveform.total, waveform.start, waveform.length, waveform.selection>>
         = <<spectrogram.total, spectrogram.start, spectrogram.length, spectrogram.selection>>
    /\ 0 <= waveform.start /\ waveform.start + waveform.length <= Document
    /\ 0 <= waveform.selection.start /\ waveform.selection.start <= waveform.selection.end
    /\ waveform.selection.end <= Document

\* What the ruler shades is what the views have selected, and where it has its
\* ticks is where they have their samples, until they are resized.
RulerFollows ==
  Document >= width /\ waveform.total > 0 =>
    /\ ~Empty(ruler.selection) => ruler.selection = waveform.selection
    /\ lately # "resized" => ruler.start = waveform.start /\ ruler.length = waveform.length

\* Zooming in or out leaves the sample under the cursor under the cursor, unless
\* that would show what is beyond an end of the document.
ZoomsAboutTheSample ==
  0 < waveform'.start /\ waveform'.start + waveform'.length < Document /\ drag' = drag =>
    \A who \in Views, column \in Columns, factor \in {<<4, 5>>, <<5, 4>>} :
      sampleAtX(Of(Shown, who), column)' # sampleAtX(Of(Shown, who), column) => ~wheel(who, column, factor)
ZoomKeepsTheSample == [][ZoomsAboutTheSample]_viewVars

\* MainWindow.cpp, of refreshViews: "setTiles resets the view to the whole
\* document, which is right on open and wrong after an edit. Put the range and the
\* selection back." An edit that leaves the document as long shows what was shown.
\* (It does not hold: README, "Seen while modelling".)
EditsKeepTheView ==
  [][lately' = "edited" /\ Document' = Document /\ waveform'.total = Document =>
       waveform'.start = waveform.start /\ waveform'.length = waveform.length]_viewVars
===============================================================================
