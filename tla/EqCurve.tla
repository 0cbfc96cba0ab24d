------------------------------ MODULE EqCurve ------------------------------
(* The equaliser over the spectrum (sa-ui: EqCurve, EqCurveView): bands that    *)
(* are handles to be pressed, dragged, double-clicked, turned and removed by    *)
(* one pointer, and the verbs that give a script the same gestures. Frequency   *)
(* is linear here and as many units as the Nyquist frequency, gain is rows up   *)
(* from the middle, Q its power of two. What a band sounds like is left out.    *)
EXTENDS Integers, Sequences, FiniteSets, SequencesExt

CONSTANTS
  Nyquists,            \* of the documents that come by
  PlotColumns, PlotRows,       \* of the plot: 0..PlotColumns, -PlotRows..PlotRows
  kHandleRadius,
  kGainLimit, kMaximumQ, kDefaultQ,    \* gain within -..+, Q within 0..kMaximumQ
  kMaxBands,
  MostStrokes          \* bound of a behaviour

VARIABLES
  panel,    \* [bands, nyquist, visible, selected, dragging, draggingQ, startY, startQ, apply, reset]
  told,     \* what the last verb told its script, or NoVerb
  strokes   \* history

eqVars == <<panel, told, strokes>>
NoVerb == [verb |-> "none"]
-----------------------------------------------------------------------------
\* Pixels.
Clamped(n, low, high) == IF n < low THEN low ELSE IF n > high THEN high ELSE n
frequencyAtX(p, x) == (Clamped(x, 0, PlotColumns) * p.nyquist) \div PlotColumns
xAtFrequency(p, f) == (2 * f * PlotColumns + p.nyquist) \div (2 * p.nyquist)
gainAtY(y) == Clamped(y, -PlotRows, PlotRows)
Plot == (0..PlotColumns) \X (-PlotRows..PlotRows)

\* Bands. Short of Nyquist a band would be a wire.
ceilingFor(nyquist) == nyquist - 1
clampedBand(p, f, gain, q) ==
  [f |-> Clamped(f, 0, ceilingFor(p.nyquist)), gain |-> Clamped(gain, -kGainLimit, kGainLimit), q |-> Clamped(q, 0, kMaximumQ)]
Handle(p, i) == <<xAtFrequency(p, p.bands[i].f), p.bands[i].gain>>
isFlat(p) == \A i \in DOMAIN p.bands : p.bands[i].gain = 0

\* The nearest handle within reach, of several the last, or 0.
Distance(p, i, at) == LET h == Handle(p, i) IN (h[1] - at[1]) * (h[1] - at[1]) + (h[2] - at[2]) * (h[2] - at[2])
handleAt(p, at) ==
  LET reached == {i \in DOMAIN p.bands : Distance(p, i, at) <= kHandleRadius * kHandleRadius}
      nearest == {i \in reached : \A j \in reached : Distance(p, i, at) <= Distance(p, j, at)}
  IN Max(nearest \cup {0})

\* A band keeps its name, which is for the properties, whatever is done to it.
Named(b, name) == [f |-> b.f, gain |-> b.gain, q |-> b.q, name |-> name]
Unused(p) == CHOOSE n \in 1..(kMaxBands + 1) : \A i \in DOMAIN p.bands : p.bands[i].name # n
setBand(p, i, f, gain, q) == [p EXCEPT !.bands[i] = Named(clampedBand(p, f, gain, q), @.name)]
addBand(p, f, gain) == [p EXCEPT !.bands = Append(@, Named(clampedBand(p, f, gain, kDefaultQ), Unused(p)))]

\* Everything that changes a band tells the window, which enables its actions.
bandsEdited(p) == [p EXCEPT !.apply = ~isFlat(p), !.reset = p.bands # <<>>]
Removed(p, i) == bandsEdited([p EXCEPT !.bands = RemoveAt(@, i), !.selected = 0, !.dragging = 0])
-----------------------------------------------------------------------------
\* The pointer and the keyboard, by what each leaves of the panel.
mousePress(p, button, at, shift) ==
  LET i == handleAt(p, at)
  IN IF ~p.visible THEN p
     ELSE IF button = "right" THEN IF i = 0 THEN p ELSE Removed(p, i)
     ELSE [p EXCEPT !.selected = i, !.dragging = i, !.draggingQ = i # 0 /\ shift,
                    !.startY = IF i # 0 /\ shift THEN at[2] ELSE @,
                    !.startQ = IF i # 0 /\ shift THEN p.bands[i].q ELSE @]

\* Up narrows; the displacement counts from where the drag began.
mouseMove(p, at) ==
  IF ~p.visible \/ p.dragging = 0 THEN p
  ELSE LET held == p.bands[p.dragging]
       IN bandsEdited(IF p.draggingQ
                      THEN setBand(p, p.dragging, frequencyAtX(p, at[1]), held.gain, p.startQ + at[2] - p.startY)
                      ELSE setBand(p, p.dragging, frequencyAtX(p, at[1]), gainAtY(at[2]), held.q))

mouseRelease(p) == IF p.visible THEN [p EXCEPT !.dragging = 0, !.draggingQ = IF p.dragging = 0 THEN @ ELSE FALSE] ELSE p

mouseDoubleClick(p, at) ==
  LET i == handleAt(p, at)
      Put(q, chosen) == bandsEdited([q EXCEPT !.selected = chosen, !.dragging = 0, !.draggingQ = FALSE])
  IN CASE ~p.visible -> p
       [] p.visible /\ i # 0 -> Put(setBand(p, i, p.bands[i].f, 0, p.bands[i].q), i)
       [] p.visible /\ i = 0 /\ Len(p.bands) = kMaxBands -> p
       [] OTHER -> Put(addBand(p, frequencyAtX(p, at[1]), gainAtY(at[2])), Len(p.bands) + 1)

wheel(p, at, notches) ==
  LET i == IF handleAt(p, at) = 0 THEN p.selected ELSE handleAt(p, at)
  IN IF ~p.visible \/ i = 0 \/ notches = 0 THEN p
     ELSE bandsEdited([setBand(p, i, p.bands[i].f, p.bands[i].gain, p.bands[i].q + notches) EXCEPT !.selected = i])

\* Mutant: the drag goes on after its band, or one before it, has gone.
keyPress_DragGoesOn(p) ==
  IF p.visible /\ p.selected # 0 THEN bandsEdited([p EXCEPT !.bands = RemoveAt(@, p.selected), !.selected = 0]) ELSE p
keyPress(p) == IF p.visible /\ p.selected # 0 THEN Removed(p, p.selected) ELSE p

setEqVisible(p, shown) ==
  IF shown = p.visible THEN p
  ELSE [p EXCEPT !.visible = shown, !.dragging = IF shown THEN @ ELSE 0, !.draggingQ = shown /\ @]

clearBands(p) == bandsEdited([p EXCEPT !.bands = <<>>, !.selected = 0, !.dragging = 0, !.draggingQ = FALSE])

\* Bands above the new ceiling are pulled down to it.
setEqSampleRate(p, nyquist) ==
  LET Pulled(b) == [b EXCEPT !.f = IF @ > ceilingFor(nyquist) THEN ceilingFor(nyquist) ELSE @]
  IN [p EXCEPT !.nyquist = nyquist, !.bands = [i \in DOMAIN p.bands |-> Pulled(p.bands[i])]]
-----------------------------------------------------------------------------
\* The verbs: the gesture, and what it says it did.
addBandAt(p, f, gain) ==
  LET at == <<xAtFrequency(p, f), gain>>
      after == mouseRelease(mouseDoubleClick(mousePress(p, "left", at, FALSE), at))
  IN [panel |-> after, yes |-> Len(after.bands) = Len(p.bands) + 1]

\* Mutant: whatever band the press took is the one that was asked for.
Dragged_AnyBand(p, i, to, shift) ==
  LET pressed == mousePress(p, "left", Handle(p, i), shift)
  IN [panel |-> mouseRelease(mouseMove(pressed, to)), yes |-> pressed.dragging # 0 /\ (shift => pressed.draggingQ)]
Dragged(p, i, to, shift) ==
  LET pressed == mousePress(p, "left", Handle(p, i), shift)
  IN [panel |-> mouseRelease(mouseMove(pressed, to)), yes |-> pressed.dragging = i /\ (shift => pressed.draggingQ)]
dragBandTo(p, i, f, gain) == Dragged(p, i, <<xAtFrequency(p, f), gain>>, FALSE)
shiftDragBandBy(p, i, up) == Dragged(p, i, <<Handle(p, i)[1], Handle(p, i)[2] + up>>, TRUE)

turnWheelOverBand(p, i, notches) ==
  LET after == wheel(p, Handle(p, i), notches) IN [panel |-> after, yes |-> after.selected = i]

clickAwayBand(p, i) ==
  LET after == mouseRelease(mousePress(p, "right", Handle(p, i), FALSE))
  IN [panel |-> after, yes |-> Len(after.bands) = Len(p.bands) - 1]
-----------------------------------------------------------------------------
EqInit ==
  /\ panel = [bands |-> <<>>, nyquist |-> CHOOSE n \in Nyquists : \A m \in Nyquists : n >= m, visible |-> FALSE,
              selected |-> 0, dragging |-> 0, draggingQ |-> FALSE, startY |-> 0, startQ |-> kDefaultQ,
              apply |-> FALSE, reset |-> FALSE]
  /\ told = NoVerb /\ strokes = 0

\* A verb names a band by its place, but for "add".
NameAt(p, i) == IF i \in DOMAIN p.bands THEN p.bands[i].name ELSE 0
Gesture(after) == panel' = after /\ told' = NoVerb
Verb(verb, i, did) == panel' = did.panel /\ told' = [verb |-> verb, band |-> NameAt(panel, i), yes |-> did.yes, before |-> panel]

EqNext ==
  /\ strokes < MostStrokes /\ strokes' = strokes + 1
  /\ \/ \E at \in Plot, button \in {"left", "right"}, shift \in BOOLEAN : Gesture(mousePress(panel, button, at, shift))
     \/ \E at \in Plot : Gesture(mouseMove(panel, at)) \/ Gesture(mouseDoubleClick(panel, at))
     \/ \E at \in Plot, notches \in {-1, 1} : Gesture(wheel(panel, at, notches))
     \/ Gesture(mouseRelease(panel)) \/ Gesture(keyPress(panel)) \/ Gesture(clearBands(panel))
     \/ Gesture(setEqVisible(panel, ~panel.visible))
     \/ \E n \in Nyquists : Gesture(setEqSampleRate(panel, n))
     \/ \E f \in 0..panel.nyquist, gain \in -PlotRows..PlotRows : Verb("add", 0, addBandAt(panel, f, gain))
     \/ \E i \in DOMAIN panel.bands :
          \/ \E f \in 0..panel.nyquist, gain \in -PlotRows..PlotRows : Verb("drag", i, dragBandTo(panel, i, f, gain))
          \/ \E up \in {-1, 1} : Verb("narrow", i, shiftDragBandBy(panel, i, up))
          \/ \E notches \in {-1, 1} : Verb("turn", i, turnWheelOverBand(panel, i, notches))
          \/ Verb("remove", i, clickAwayBand(panel, i))
-----------------------------------------------------------------------------
\* What is held and what is selected is there, whatever was removed, hidden or
\* replaced meanwhile: a drag reads the band it holds without looking
\* (EqCurveView::mouseMoveEvent).
HeldBandsExist == {panel.selected, panel.dragging} \subseteq 0..Len(panel.bands)

\* Until it is let go, a drag moves the band it took, and only that one.
DragsOn ==
  panel.dragging # 0 /\ panel'.dragging = panel.dragging /\ told' = NoVerb =>
    NameAt(panel', panel'.dragging) = NameAt(panel, panel.dragging)
DragsWhatItTook == [][DragsOn]_eqVars

\* Every band can be realised at the rate the document has now, and the window
\* offers to apply and to reset what there is.
BandsAreCurrent ==
  /\ \A i \in DOMAIN panel.bands : panel.bands[i].f <= ceilingFor(panel.nyquist)
  /\ panel.apply = ~isFlat(panel) /\ panel.reset = (panel.bands # <<>>)

\* A script that is told yes has got one band more or less, or the one it named
\* dragged and no other, and nothing is held. (Told yes by "turn" over a curve that
\* is hidden, it has got nothing; by "remove", it may have lost another band than it
\* named: README, "Seen while modelling".)
ChangedNames(s, t) == {n \in 1..(kMaxBands + 1) : {b \in Range(s) : b.name = n} # {b \in Range(t) : b.name = n}}
VerbsTellTheTruth ==
  told.verb \notin {"none", "turn"} /\ told.yes =>
    /\ Cardinality(ChangedNames(told.before.bands, panel.bands)) <= 1 /\ panel.dragging = 0
    /\ told.verb \in {"drag", "narrow"} => ChangedNames(told.before.bands, panel.bands) \subseteq {told.band}

EqHolds == HeldBandsExist /\ BandsAreCurrent /\ VerbsTellTheTruth

\* These do not hold.
RefusedVerbsChangeNothing == told.verb # "none" /\ ~told.yes => panel.bands = told.before.bands
RemovesWhatItSays ==
  told.verb = "remove" /\ told.yes => ChangedNames(told.before.bands, panel.bands) = {told.band}
TurnsWhatItSays == told.verb = "turn" /\ told.yes => panel.visible
=============================================================================
