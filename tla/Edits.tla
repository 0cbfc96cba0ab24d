-------------------------------- MODULE Edits ---------------------------------
(* The document and its editing verbs (sa-engine).                           *)
EXTENDS Integers, Sequences, FiniteSets, SequencesExt
-------------------------------------------------------------------------------
(* The timeline of a document (sa-engine: Clip, Timeline, and the mixing half  *)
(* of Document): a sequence of clips kept in order of their starts, and what   *)
(* rendering a position of it sounds like.                                     *)
(*                                                                             *)
(* Audio is one channel of samples. A sample is an amplitude in exact          *)
(* arithmetic, kept as a residue modulo a prime, so that gains, fades and sums *)
(* of clips compare exactly and two different mixes do not look alike. All     *)
(* fade shapes are functions of the same progress, so one shape stands for     *)
(* them; a fade is its length.                                                 *)

CONSTANTS
  MaxGain,   \* the largest gain a clip accepts (1000 in the code)
  MaxFade    \* bound on the fade lengths whose curve is tabulated

Prime == 997
Amplitude == 0..Prime - 1

Clip == [id : Nat, source : Nat, sourceStart : Int, length : Int, timelineStart : Int,
         gain : 0..MaxGain, fadeIn : Nat, fadeOut : Nat]

\* A registered source: its id and the audio behind it.
SourceEntry == [id : Nat, audio : Seq(Amplitude)]

DocumentState == [clips : Seq(Clip), sources : Seq(SourceEntry), markers : Seq(Int), nextId : Nat]

timelineEnd(clip) == clip.timelineStart + clip.length

overlaps(clip, start, end) == clip.timelineStart < end /\ start < timelineEnd(clip)

\* position strictly inside the clip: the only place a split is possible
Spans(clip, position) == clip.timelineStart < position /\ position < timelineEnd(clip)

Within(clip, start, end) == start <= clip.timelineStart /\ timelineEnd(clip) <= end

-------------------------------------------------------------------------------
(* The ordered list of clips. *)

earlier(a, b) == \/ a.timelineStart < b.timelineStart
                 \/ a.timelineStart = b.timelineStart /\ a.id < b.id

insert(clips, clip) ==
  InsertAt(clips, 1 + Cardinality({i \in DOMAIN clips : earlier(clips[i], clip)}), clip)

reorder(clips) == SortSeq(clips, earlier)

\* 0 when no clip has the id
find(clips, id) == SelectInSeq(clips, LAMBDA clip : clip.id = id)

\* remove() finds each id among clips whose ids are unique
removeAll(clips, ids) == SelectSeq(clips, LAMBDA clip : clip.id \notin ids)

Each(clips, Op(_)) == [i \in DOMAIN clips |-> Op(clips[i])]

\* Bug variant: a clip starting exactly at the position stays.
shiftClipsFrom_Strictly(clips, position, delta) ==
  reorder(Each(clips, LAMBDA clip : IF clip.timelineStart > position
                                    THEN [clip EXCEPT !.timelineStart = @ + delta]
                                    ELSE clip))

shiftClipsFrom(clips, position, delta) ==
  reorder(Each(clips, LAMBDA clip : IF clip.timelineStart >= position
                                    THEN [clip EXCEPT !.timelineStart = @ + delta]
                                    ELSE clip))

duration(clips) == Max({0} \cup {timelineEnd(clips[i]) : i \in DOMAIN clips})

\* The indices found by the binary search for the range's start and the scan
\* from there to the first clip starting at or after its end.
collectOverlapping(clips, start, end) ==
  LET first == Cardinality({i \in DOMAIN clips : clips[i].timelineStart < start})
  IN {i \in DOMAIN clips :
        IF i <= first THEN timelineEnd(clips[i]) > start
                      ELSE \A j \in first + 1..i : clips[j].timelineStart < end}

-------------------------------------------------------------------------------
(* What a clip contributes, and what the timeline sounds like. *)

\* 1 / n in the field of residues
Reciprocal == [n \in 1..MaxFade |-> CHOOSE r \in Amplitude : (n * r) % Prime = 1]

fadeGain(position, length, fadingIn) ==
  LET progress == IF fadingIn THEN position ELSE length - position
  IN CASE length <= 0        -> 1
       [] position <= 0      -> IF fadingIn THEN 0 ELSE 1
       [] position >= length -> IF fadingIn THEN 1 ELSE 0
       [] OTHER              -> (progress * Reciprocal[length]) % Prime

gainAt(clip, offset) ==
  LET fromEnd == clip.length - offset
      in  == IF offset < clip.fadeIn THEN fadeGain(offset, clip.fadeIn, TRUE) ELSE 1
      out == IF clip.fadeOut > 0 /\ fromEnd <= clip.fadeOut
             THEN fadeGain(clip.fadeOut - fromEnd, clip.fadeOut, FALSE) ELSE 1
  IN IF offset < 0 \/ offset >= clip.length THEN 0
     ELSE (((clip.gain * in) % Prime) * out) % Prime

\* A read past the end of a source is short; the rest stays silent.
SampleOf(sources, clip, offset) ==
  LET entry == SelectInSeq(sources, LAMBDA s : s.id = clip.source)
      at    == clip.sourceStart + offset + 1
  IN IF entry = 0 \/ at \notin DOMAIN sources[entry].audio THEN 0
     ELSE sources[entry].audio[at]

Mixed(doc, indices, position) ==
  LET Contribution(i) ==
        LET clip == doc.clips[i]
            offset == position - clip.timelineStart
        IN SampleOf(doc.sources, clip, offset) * gainAt(clip, offset)
  IN MapThenSumSet(Contribution, indices) % Prime

\* Document::render of frames samples from start
render(doc, start, frames) ==
  LET indices == collectOverlapping(doc.clips, start, start + frames)
  IN [k \in 1..frames |->
        Mixed(doc, {i \in indices : overlaps(doc.clips[i], start, start + frames)}, start + k - 1)]

\* A source read before its first sample is refused, and the render with it.
Renders(doc, start, end) ==
  \A i \in collectOverlapping(doc.clips, start, end) :
    LET clip == doc.clips[i] IN
      overlaps(clip, start, end) =>
        clip.sourceStart + Max({start, clip.timelineStart}) - clip.timelineStart >= 0

\* What is heard at one position: every clip over it, summed.
Sound(doc, position) ==
  Mixed(doc, {i \in DOMAIN doc.clips : overlaps(doc.clips[i], position, position + 1)}, position)
-------------------------------------------------------------------------------
(* The editing verbs of sa-engine (Edits.cpp, and the registering half of      *)
(* Document): free functions from a document to a document and a verdict.      *)
(* A verb that fails part of the way hands back the document as it left it.    *)

CONSTANT Processed   \* the amplitude processed audio is made of

Done(doc)   == [ok |-> TRUE,  document |-> doc]
Failed(doc) == [ok |-> FALSE, document |-> doc]

\* The next verb runs only when the one before it succeeded.
Then(outcome, Next(_)) == IF outcome.ok THEN Next(outcome.document) ELSE outcome

\* The verb applied to each element in turn, until one fails.
InTurn(doc, elements, Verb(_, _)) ==
  FoldLeft(LAMBDA outcome, e : IF outcome.ok THEN Verb(outcome.document, e) ELSE outcome,
           Done(doc), elements)

Amend(doc, i, clip) == [doc EXCEPT !.clips[i] = clip]
Reordered(doc)      == [doc EXCEPT !.clips = reorder(@)]
IdsOf(clips)        == [i \in DOMAIN clips |-> clips[i].id]

SourceFrames(doc, id) ==
  LET entry == SelectInSeq(doc.sources, LAMBDA s : s.id = id)
  IN IF entry = 0 THEN -1 ELSE Len(doc.sources[entry].audio)

-------------------------------------------------------------------------------
(* Document: registering audio and placing it. *)

addSource(doc, audio) ==
  [doc EXCEPT !.sources = Append(@, [id |-> doc.nextId, audio |-> audio]), !.nextId = @ + 1]

\* appendSource of the source just registered
appendLatest(doc, position) ==
  LET entry == Last(doc.sources)
      clip  == [id |-> doc.nextId, source |-> entry.id, sourceStart |-> 0,
                length |-> Len(entry.audio), timelineStart |-> position,
                gain |-> 1, fadeIn |-> 0, fadeOut |-> 0]
  IN IF position < 0 THEN Failed(doc)
     ELSE Done([doc EXCEPT !.clips = insert(@, clip), !.nextId = @ + 1])

Place(doc, audio, position) == appendLatest(addSource(doc, audio), position)

-------------------------------------------------------------------------------
(* Verbs on one clip. *)

\* Bug variant: the second half plays the first half's audio again.
splitClip_SameAudio(doc, id, position) ==
  LET i      == find(doc.clips, id)
      clip   == doc.clips[i]
      first  == [clip EXCEPT !.length = position - clip.timelineStart, !.fadeOut = 0]
      second == [clip EXCEPT !.id = doc.nextId, !.timelineStart = position,
                             !.length = @ - first.length, !.fadeIn = 0]
  IN IF i = 0 \/ ~Spans(clip, position) THEN Failed(doc)
     ELSE Done([doc EXCEPT !.clips = insert([@ EXCEPT ![i] = first], second), !.nextId = @ + 1])

splitClip(doc, id, position) ==
  LET i      == find(doc.clips, id)
      clip   == doc.clips[i]
      first  == [clip EXCEPT !.length = position - clip.timelineStart, !.fadeOut = 0]
      second == [clip EXCEPT !.id = doc.nextId, !.timelineStart = position,
                             !.sourceStart = @ + first.length, !.length = @ - first.length,
                             !.fadeIn = 0]
  IN IF i = 0 \/ ~Spans(clip, position) THEN Failed(doc)
     ELSE Done([doc EXCEPT !.clips = insert([@ EXCEPT ![i] = first], second), !.nextId = @ + 1])

trimClip(doc, id, newStart, newLength) ==
  LET i     == find(doc.clips, id)
      clip  == doc.clips[i]
      from  == clip.sourceStart + newStart - clip.timelineStart
      limit == SourceFrames(doc, clip.source)
  IN IF i = 0 \/ newLength <= 0 \/ newStart < 0 \/ from < 0 \/ (limit >= 0 /\ from + newLength > limit)
     THEN Failed(doc)
     ELSE Done(Reordered(Amend(doc, i,
            [clip EXCEPT !.timelineStart = newStart, !.sourceStart = from, !.length = newLength,
                         !.fadeIn = Min({@, newLength}), !.fadeOut = Min({@, newLength})])))

\* Bug variant: moved through findMutable, without reorder.
moveClip_InPlace(doc, id, newStart) ==
  LET i == find(doc.clips, id)
  IN IF i = 0 \/ newStart < 0 THEN Failed(doc)
     ELSE Done(Amend(doc, i, [doc.clips[i] EXCEPT !.timelineStart = newStart]))

moveClip(doc, id, newStart) ==
  LET i == find(doc.clips, id)
  IN IF i = 0 \/ newStart < 0 THEN Failed(doc)
     ELSE Done(Reordered(Amend(doc, i, [doc.clips[i] EXCEPT !.timelineStart = newStart])))

setClipGain(doc, id, gain) ==
  LET i == find(doc.clips, id)
  IN IF i = 0 \/ gain \notin 0..MaxGain THEN Failed(doc)
     ELSE Done(Amend(doc, i, [doc.clips[i] EXCEPT !.gain = gain]))

setClipFades(doc, id, fadeIn, fadeOut) ==
  LET i == find(doc.clips, id)
  IN IF i = 0 \/ fadeIn < 0 \/ fadeOut < 0 \/ fadeIn + fadeOut > doc.clips[i].length
     THEN Failed(doc)
     ELSE Done(Amend(doc, i, [doc.clips[i] EXCEPT !.fadeIn = fadeIn, !.fadeOut = fadeOut]))

duplicateClip(doc, id, newStart) ==
  LET i    == find(doc.clips, id)
      copy == [doc.clips[i] EXCEPT !.id = doc.nextId, !.timelineStart = newStart]
  IN IF i = 0 \/ newStart < 0 THEN Failed(doc)
     ELSE Done([doc EXCEPT !.clips = insert(@, copy), !.nextId = @ + 1])

\* The later clip is changed before its new length is looked at.
crossfade(doc, one, other, length) ==
  LET i == find(doc.clips, one)
      j == find(doc.clips, other)
      swapped == doc.clips[i].timelineStart > doc.clips[j].timelineStart
      ai == IF swapped THEN j ELSE i
      bi == IF swapped THEN i ELSE j
      a  == doc.clips[ai]
      shift  == doc.clips[bi].timelineStart - (timelineEnd(a) - length)
      pulled == Amend(doc, bi, [doc.clips[bi] EXCEPT !.timelineStart = @ - shift,
                                                     !.sourceStart = @ + shift, !.length = @ - shift])
  IN IF length <= 0 \/ i = 0 \/ j = 0 THEN Failed(doc)
     ELSE IF length > a.length \/ length > doc.clips[bi].length THEN Failed(doc)
     ELSE IF pulled.clips[bi].length <= 0 THEN Failed(pulled)
     ELSE Done(Reordered([pulled EXCEPT !.clips[ai].fadeOut = length, !.clips[bi].fadeIn = length]))

-------------------------------------------------------------------------------
(* Verbs on a range. *)

\* A clip cut by [start, end) keeps what is outside it; tail is the second
\* piece of a clip the range lies inside, which takes an id of its own.
Remaining(clip, start, end, ripple) ==
  CASE ripple /\ clip.timelineStart >= end ->
         [clip EXCEPT !.timelineStart = @ - (end - start)]
    [] ~overlaps(clip, start, end) -> clip
    [] clip.timelineStart < start /\ timelineEnd(clip) > end ->
         [clip EXCEPT !.length = start - clip.timelineStart, !.fadeOut = 0]
    [] clip.timelineStart < start ->
         [clip EXCEPT !.length = start - clip.timelineStart,
                      !.fadeOut = Min({@, start - clip.timelineStart})]
    [] OTHER ->
         LET cut == end - clip.timelineStart
         IN [clip EXCEPT !.sourceStart = @ + cut, !.length = @ - cut,
                         !.timelineStart = IF ripple THEN start ELSE end,
                         !.fadeIn = Min({@, clip.length - cut})]

TailPiece(clip, start, end, ripple, id) ==
  [clip EXCEPT !.id = id, !.sourceStart = @ + end - clip.timelineStart,
               !.length = timelineEnd(clip) - end,
               !.timelineStart = IF ripple THEN start ELSE end, !.fadeIn = 0]

MarkersAfterDelete(markers, start, end) ==
  [m \in DOMAIN markers |-> CASE markers[m] >= end  -> markers[m] - (end - start)
                              [] markers[m] \in start..end - 1 -> start
                              [] OTHER -> markers[m]]

deleteRange(doc, start, end, ripple) ==
  LET split   == SelectSeq(doc.clips, LAMBDA c : c.timelineStart < start /\ timelineEnd(c) > end)
      inside  == {doc.clips[i].id : i \in {j \in DOMAIN doc.clips :
                     overlaps(doc.clips[j], start, end) /\ Within(doc.clips[j], start, end)}}
      kept    == Each(removeAll(doc.clips, inside), LAMBDA c : Remaining(c, start, end, ripple))
      tails   == [k \in DOMAIN split |-> TailPiece(split[k], start, end, ripple, doc.nextId + k - 1)]
  IN IF end <= start THEN Failed(doc)
     ELSE Done([doc EXCEPT !.clips = reorder(kept \o tails), !.nextId = @ + Len(split),
                           !.markers = IF ripple THEN MarkersAfterDelete(@, start, end) ELSE @])

\* Bug variant: a clip spanning the position is not split.
insertSilence_Whole(doc, position, length) ==
  IF length <= 0 \/ position < 0 THEN Failed(doc)
  ELSE Done([doc EXCEPT
               !.clips   = shiftClipsFrom(@, position, length),
               !.markers = [m \in DOMAIN @ |-> IF @[m] >= position THEN @[m] + length ELSE @[m]]])

insertSilence(doc, position, length) ==
  LET spanning == IdsOf(SelectSeq(doc.clips, LAMBDA c : Spans(c, position)))
      Open(d)  == Done([d EXCEPT
                    !.clips   = shiftClipsFrom(@, position, length),
                    !.markers = [m \in DOMAIN @ |-> IF @[m] >= position THEN @[m] + length ELSE @[m]]])
  IN IF length <= 0 \/ position < 0 THEN Failed(doc)
     ELSE Then(InTurn(doc, spanning, LAMBDA d, id : splitClip(d, id, position)), Open)

\* Only the first clip that spans the position is split.
splitAt(doc, position) ==
  LET i == SelectInSeq(doc.clips, LAMBDA c : Spans(c, position))
  IN IF position < 0 THEN Failed(doc)
     ELSE IF i = 0 THEN Done(doc) ELSE splitClip(doc, doc.clips[i].id, position)

Isolate(doc, start, end) == Then(splitAt(doc, start), LAMBDA d : splitAt(d, end))

ClipsInside(doc, start, end) == IdsOf(SelectSeq(doc.clips, LAMBDA c : Within(c, start, end)))

applyRangeGain(doc, start, end, factor) ==
  LET Scale(d, id)  == setClipGain(d, id, d.clips[find(d.clips, id)].gain * factor)
      ScaleAll(d)   == InTurn(d, ClipsInside(d, start, end), Scale)
  IN IF end <= start \/ factor < 0 THEN Failed(doc)
     ELSE Then(Isolate(doc, start, end), ScaleAll)

replaceRange(doc, start, audio) ==
  IF start < 0 \/ audio = <<>> THEN Failed(doc)
  ELSE Then(deleteRange(doc, start, start + Len(audio), FALSE), LAMBDA d : Place(d, audio, start))

flattenRange(doc, start, end) ==
  IF end <= start \/ ~Renders(doc, start, end) THEN Failed(doc)
  ELSE replaceRange(doc, start, render(doc, start, end - start))

\* Bug variant: the fade goes on the first clip of the range.
applyRangeFade_FirstClip(doc, start, end, fadingIn) ==
  LET Fade(d) ==
        LET inside == ClipsInside(d, start, end)
            clip   == d.clips[find(d.clips, inside[1])]
        IN IF inside = <<>> THEN Failed(d)
           ELSE setClipFades(d, clip.id, IF fadingIn THEN clip.length ELSE clip.fadeIn,
                                         IF fadingIn THEN clip.fadeOut ELSE clip.length)
  IN IF end <= start THEN Failed(doc) ELSE Then(Isolate(doc, start, end), Fade)

applyRangeFade(doc, start, end, fadingIn) ==
  LET FadeWhole(d) ==
        LET clip == d.clips[find(d.clips, ClipsInside(d, start, end)[1])]
        IN setClipFades(d, clip.id, IF fadingIn THEN clip.length ELSE clip.fadeIn,
                                    IF fadingIn THEN clip.fadeOut ELSE clip.length)
      Fade(d) ==
        LET inside == ClipsInside(d, start, end)
        IN CASE Len(inside) = 0 -> Failed(d)
             [] Len(inside) = 1 -> FadeWhole(d)
             [] OTHER -> Then(flattenRange(d, start, end),
                              LAMBDA f : IF Len(ClipsInside(f, start, end)) = 1 THEN FadeWhole(f)
                                         ELSE Failed(f))
  IN IF end <= start THEN Failed(doc) ELSE Then(Isolate(doc, start, end), Fade)

-------------------------------------------------------------------------------
(* The window's edits made of several verbs. *)

trimTo(doc, start, end) ==
  LET total == duration(doc.clips)
      tail  == IF end < total THEN deleteRange(doc, end, total, TRUE) ELSE Done(doc)
  IN Then(tail, LAMBDA d : IF start > 0 THEN deleteRange(d, 0, start, TRUE) ELSE Done(d))

paste(doc, at, audio) ==
  Then(insertSilence(doc, at, Len(audio)), LAMBDA d : Place(d, audio, at))

\* Bug variant: room is made for as much as was there before.
stretch_SameRoom(doc, start, end, audio) ==
  Then(deleteRange(doc, start, end, TRUE),
       LAMBDA d : Then(insertSilence(d, start, end - start), LAMBDA e : Place(e, audio, start)))

stretch(doc, start, end, audio) ==
  Then(deleteRange(doc, start, end, TRUE), LAMBDA d : paste(d, start, audio))
===============================================================================
