-------------------------------- MODULE Editor --------------------------------
(* The window's editing of a document (sa-ui/MainWindow: applyEdit and the     *)
(* commands that go through it, cut, copy, paste, undo and redo) over the      *)
(* verbs of Edits and the snapshots of UndoHistory. All of it runs on the      *)
(* window's thread, one command at a time.                                     *)
EXTENDS Edits, UndoHistory

CONSTANTS
  OpenedFrames,   \* length of the file the document is opened on
  Factors,        \* gain factors the user asks for
  MarkerPositions, \* where the marker may be that a document is opened with
  MaxNextId,      \* bound: no edit starts once this many ids are used
  MaxFrames,      \* bound: nor on a document longer than this
  MaxFaded,       \* bound: nor a fade with this many clips fading already
  MaxCopied       \* bound: the longest copy

Selections == {r \in (0..MaxFrames) \X (0..MaxFrames) :
            r[1] < r[2] /\ r[2] <= duration(document.clips)}

MayEdit == document.nextId < MaxNextId /\ duration(document.clips) <= MaxFrames

Constant(length) == [k \in 1..length |-> Processed]

-------------------------------------------------------------------------------
\* A file opened: one source, one clip over all of it.
Opened(markers) ==
  LET empty == [clips |-> <<>>, sources |-> <<>>, markers |-> markers, nextId |-> 1]
  IN Place(empty, [k \in 1..OpenedFrames |-> k], 0).document

Init == /\ \E marker \in MarkerPositions : document = Opened(<<marker>>)
        /\ states = <<document>> /\ labels = <<"Open">> /\ cursor = 1

\* applyEdit: an edit that succeeds is committed, one that fails is not, and
\* either way the document stays as the verbs left it.
applyEdit(label, outcome) ==
  /\ MayEdit
  /\ document' = outcome.document
  /\ IF outcome.ok THEN commit(label) ELSE abandoned

applyGain == \E r \in Selections, f \in Factors :
               applyEdit("edit", applyRangeGain(document, r[1], r[2], f))
applyFade == /\ Cardinality({i \in DOMAIN document.clips :
                     document.clips[i].fadeIn + document.clips[i].fadeOut > 0}) < MaxFaded
             /\ \E r \in Selections, fadingIn \in BOOLEAN :
                  applyEdit("edit", applyRangeFade(document, r[1], r[2], fadingIn))
flatten   == \E r \in Selections : applyEdit("edit", flattenRange(document, r[1], r[2]))

\* Every effect renders its range, processes it and puts it back.
process == \E r \in Selections :
             applyEdit("edit", replaceRange(document, r[1], Constant(r[2] - r[1])))

deleteSelection == \E r \in Selections, ripple \in BOOLEAN :
                     applyEdit("edit", deleteRange(document, r[1], r[2], ripple))
trimToSelection == \E r \in Selections : applyEdit("edit", trimTo(document, r[1], r[2]))

\* timeStretch to a length of its own
stretchSelection == \E r \in Selections : \E length \in {1, r[2] - r[1] + 1} :
                      applyEdit("edit", stretch(document, r[1], r[2], Constant(length)))

\* The clipboard holds samples of its own, whatever became of the clips they
\* were copied from; cut is copy and then deleteSelection.
pasteClipboard == \E at \in 0..duration(document.clips), length \in 1..MaxCopied :
                    applyEdit("edit", paste(document, at, Constant(length)))

-------------------------------------------------------------------------------
(* What the library offers beyond the window: dragging a clip's gain, one      *)
(* entry for the whole gesture, and jumping to an entry of the history.        *)

dragGain == \E i \in DOMAIN document.clips, gain \in Factors :
              /\ MayEdit
              /\ document' = setClipGain(document, document.clips[i].id, gain).document
              /\ commitCoalescing("drag")

jump == \E index \in 1..Len(states) : restore(index)

Next == \/ applyGain \/ applyFade \/ flatten \/ process
        \/ deleteSelection \/ trimToSelection \/ stretchSelection
        \/ pasteClipboard \/ undo \/ redo
        \/ dragGain \/ jump

Spec == Init /\ [][Next]_undoVars

-------------------------------------------------------------------------------
TypeOK == HistoryTypeOK

(* ---- the timeline ---- *)

Sorted(doc) == IsSorted(doc.clips, LAMBDA a, b : a = b \/ earlier(a, b))

IdsFresh(doc) ==
  LET ids == IdsOf(doc.clips) \o IdsOf(doc.sources)
  IN /\ \A i, j \in DOMAIN ids : ids[i] = ids[j] => i = j
     /\ \A i \in DOMAIN ids : ids[i] < doc.nextId

InSources(doc) ==
  \A i \in DOMAIN doc.clips :
    LET c == doc.clips[i] IN
      /\ 0 <= c.sourceStart /\ 0 < c.length /\ 0 <= c.timelineStart
      /\ c.sourceStart + c.length <= SourceFrames(doc, c.source)

NoOverlap(doc) ==
  \A i, j \in DOMAIN doc.clips :
    i < j => timelineEnd(doc.clips[i]) <= doc.clips[j].timelineStart

WellFormed(doc) == Sorted(doc) /\ IdsFresh(doc) /\ InSources(doc)

(* Rendering a range finds its clips by a binary search and a scan that stops  *)
(* early; it gives what each position sounds like by itself.                   *)
RenderMissesNothing ==
  \A start \in 0..MaxFrames, frames \in 1..2 :
    render(document, start, frames) = [k \in 1..frames |-> Sound(document, start + k - 1)]

(* ---- what an edit may change: on every document an edit may start from, what *)
(* each edit there could be would do to it ---- *)

\* No fade of any clip reaches the position, so a cut there is inaudible.
OutsideFades(position) ==
  \A i \in DOMAIN document.clips :
    LET c == document.clips[i] IN
      Spans(c, position) => /\ position - c.timelineStart >= c.fadeIn
                            /\ timelineEnd(c) - position >= c.fadeOut

CleanSelections == {r \in Selections : OutsideFades(r[1]) /\ OutsideFades(r[2])}
Positions == 0..MaxFrames + 2

\* Outside [start, end) the new document sounds as the old one did.
KeepsOutside(doc, r) ==
  \A p \in Positions \ (r[1]..r[2] - 1) : Sound(doc, p) = Sound(document, p)

(* An edit in place changes its range and nothing else: gain multiplies        *)
(* exactly what is inside, processing replaces it, silencing silences it,      *)
(* flattening is inaudible. (Where an edge falls inside a fade the cut itself  *)
(* is audible, so those selections are left out.)                              *)
EditsStayInTheirRange == MayEdit =>
  \A r \in CleanSelections :
    LET inside   == r[1]..r[2] - 1
        gained(f) == applyRangeGain(document, r[1], r[2], f)
        replaced == replaceRange(document, r[1], Constant(r[2] - r[1]))
        silenced == deleteRange(document, r[1], r[2], FALSE)
        flat     == flattenRange(document, r[1], r[2])
    IN /\ \A f \in Factors : gained(f).ok =>
            /\ KeepsOutside(gained(f).document, r)
            /\ \A p \in inside : Sound(gained(f).document, p) = (f * Sound(document, p)) % Prime
       /\ replaced.ok /\ KeepsOutside(replaced.document, r)
       /\ \A p \in inside : Sound(replaced.document, p) = Processed
       /\ silenced.ok /\ KeepsOutside(silenced.document, r)
       /\ \A p \in inside : Sound(silenced.document, p) = 0
       /\ flat.ok /\ \A p \in Positions : Sound(flat.document, p) = Sound(document, p)

\* Clips cover the range and no fade reaches into it. (A lone clip takes the
\* fade from its own edge, not the range's, and a fade it already had in that
\* direction is replaced.)
Plain(r) ==
  /\ \A p \in r[1]..r[2] - 1 : \E i \in DOMAIN document.clips : overlaps(document.clips[i], p, p + 1)
  /\ \A i \in DOMAIN document.clips :
       LET c == document.clips[i] IN
         overlaps(c, r[1], r[2]) => /\ c.fadeIn = 0 \/ c.timelineStart + c.fadeIn <= r[1]
                                    /\ c.fadeOut = 0 \/ timelineEnd(c) - c.fadeOut >= r[2]

(* A fade over a range runs once over the whole of it, whatever clips the      *)
(* range is made of, and nothing outside is touched.                           *)
FadesRunOnce == MayEdit =>
  \A r \in CleanSelections, fadingIn \in BOOLEAN :
    LET faded == applyRangeFade(document, r[1], r[2], fadingIn)
    IN Plain(r) =>
         /\ faded.ok
         /\ KeepsOutside(faded.document, r)
         /\ \A p \in r[1]..r[2] - 1 :
              Sound(faded.document, p) =
                (Sound(document, p) *
                 fadeGain(p - r[1], r[2] - r[1], fadingIn)) % Prime

\* `length` positions that sound like `value` have taken the place of [start, end):
\* what was after it, audio and markers, has moved along, and a marker that was
\* inside is where the new ones end.
Exchanged(outcome, start, end, length, value) ==
  LET moved == length - (end - start) IN
    /\ outcome.ok
    /\ \A p \in 0..MaxFrames + length + 1 :
         Sound(outcome.document, p) =
           IF p < start THEN Sound(document, p)
           ELSE IF p < start + length THEN value ELSE Sound(document, p - moved)
    /\ \A m \in DOMAIN document.markers :
         LET at == document.markers[m]
         IN outcome.document.markers[m] =
              IF at < start THEN at ELSE IF at >= end THEN at + moved ELSE start + length

(* Removing a range with ripple, opening a gap and pasting, anywhere and at the *)
(* end of the document as well, and stretching a range to a shorter and to a    *)
(* longer one move everything after by what has gone or come, audio and markers *)
(* alike; what a paste or a stretch brings in is heard where it was put, whole, *)
(* and nothing before it changes.                                               *)
RippleMovesEverything == MayEdit =>
  /\ \A r \in CleanSelections :
       /\ Exchanged(deleteRange(document, r[1], r[2], TRUE), r[1], r[2], 0, 0)
       /\ \A length \in {1, r[2] - r[1] + 1} :
            Exchanged(stretch(document, r[1], r[2], Constant(length)), r[1], r[2], length, Processed)
  /\ \A at \in 0..duration(document.clips), length \in 1..2 :
       OutsideFades(at) =>
         /\ Exchanged(insertSilence(document, at, length), at, at, length, 0)
         /\ Exchanged(paste(document, at, Constant(length)), at, at, length, Processed)

(* Each verb on one clip that succeeds keeps the timeline well formed, and     *)
(* trimming a clip leaves the audio under it where it was.                     *)
VerbsKeepTheTimeline == MayEdit =>
  \A i \in DOMAIN document.clips :
    LET c == document.clips[i]
        Keeps(outcome) == outcome.ok => WellFormed(outcome.document)
        trimmed(at, n) == trimClip(document, c.id, at, n)
    IN \A at \in 0..duration(document.clips), n \in 1..OpenedFrames :
         /\ Keeps(splitClip(document, c.id, at))
         /\ Keeps(moveClip(document, c.id, at))
         /\ Keeps(duplicateClip(document, c.id, at))
         /\ Keeps(setClipFades(document, c.id, at, n))
         /\ Keeps(trimmed(at, n))
         /\ \A j \in DOMAIN document.clips \ {i} :
              Keeps(crossfade(document, c.id, document.clips[j].id, n))
         /\ (trimmed(at, n).ok /\ c.fadeIn = 0 /\ c.fadeOut = 0) =>
              LET alone(d) == [d EXCEPT !.clips = SelectSeq(@, LAMBDA e : e.id = c.id)]
              IN \A p \in at..at + n - 1 :
                   (p >= c.timelineStart /\ p < timelineEnd(c)) =>
                     Sound(alone(trimmed(at, n).document), p) = Sound(alone(document), p)

(* However edits, failed edits, undo and redo follow one another, the timeline *)
(* stays in order, ids name one clip or source each, and every clip lies       *)
(* within the audio it refers to; and the window's edits never lay one clip    *)
(* over another, so that nothing is heard twice. No verb on one clip could     *)
(* break that either.                                                          *)
TimelineHolds == /\ WellFormed(document) /\ NoOverlap(document)
                 /\ RenderMissesNothing
                 /\ VerbsKeepTheTimeline

-------------------------------------------------------------------------------
(* ---- what the header says and the code does not do ---- *)

(* Edits.h on every verb: it "leaves the document untouched on failure, so a   *)
(* caller can commit to the undo history only when an edit actually happened". *)
FailureLeavesNoTrace ==
  LET Untouched(outcome) == ~outcome.ok => outcome.document = document
  IN \A r \in Selections :
       /\ \A f \in Factors : Untouched(applyRangeGain(document, r[1], r[2], f))
       /\ \A fadingIn \in BOOLEAN : Untouched(applyRangeFade(document, r[1], r[2], fadingIn))
===============================================================================
