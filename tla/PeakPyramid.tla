---------------------------- MODULE PeakPyramid ----------------------------
(***************************************************************************)
(* The waveform's summary (PeakPyramid.cpp): bins of the source's frames   *)
(* at level 0, pairs of bins above it, built over a buffer or by streaming *)
(* from a source that may return less than it is asked for and end before  *)
(* its header said.  The bins of a level are channel-major in one vector,  *)
(* as in the code; a bin's RMS is kept as the sum of squares under it.     *)
(***************************************************************************)
EXTENDS Integers, Sequences, SequencesExt, FiniteSetsExt

CONSTANTS PeakSources,        \* [declared, channels]: the frames the header claims and each channel's samples
          BaseBinSize,        \* frames in a bin of level 0
          PeakBlockFrames,    \* frames in a block of the streaming build, a multiple of BaseBinSize
          TopLevelFrames      \* kMinimumTopLevelFrames

VARIABLES peakSource,   \* the source being summarised
          build         \* the streaming build: position, the block, level 0 so far

PeakFrame == [minimum |-> 0, maximum |-> 0, squares |-> 0]
Span(a, b) == [k \in 1..(b - a) |-> a + k - 1]

\* A bin of some values, and of some bins.
Summary(values) == [minimum |-> Min(Range(values)), maximum |-> Max(Range(values)),
                    squares |-> FoldLeft(LAMBDA s, v : s + v * v, 0, values)]
Folded(bins) == [minimum |-> Min({bins[k].minimum : k \in DOMAIN bins}),
                 maximum |-> Max({bins[k].maximum : k \in DOMAIN bins}),
                 squares |-> FoldLeft(LAMBDA s, c : s + c.squares, 0, bins)]

binsToCover(total, binSize) == (total + binSize - 1) \div binSize
Channels == Len(peakSource.channels)
Frames == Len(peakSource.channels[1])
Sampled(channel, a, b) == SubSeq(peakSource.channels[channel], a + 1, b)

\* Mutant: the last of an odd number of bins has no parent.
Above_DropsTheOddOne(level) ==
  LET count == level.frameCount \div 2
      Parent(channel, frame) ==
        Folded(SubSeq(level.frames, channel * level.frameCount + 2 * frame + 1,
                      channel * level.frameCount + 2 * frame + 2))
  IN [binSize |-> 2 * level.binSize, frameCount |-> count,
      frames |-> [k \in 1..(count * Channels) |-> Parent((k - 1) \div count, (k - 1) % count)]]

\* The level above: each bin folds two, or the one that is left.
Above(level) ==
  LET count == binsToCover(level.frameCount, 2)
      Parent(channel, frame) ==
        Folded(SubSeq(level.frames, channel * level.frameCount + 2 * frame + 1,
                      channel * level.frameCount + Min({2 * frame + 2, level.frameCount})))
  IN [binSize |-> 2 * level.binSize, frameCount |-> count,
      frames |-> [k \in 1..(count * Channels) |-> Parent((k - 1) \div count, (k - 1) % count)]]

\* buildUpperLevels: levels until one has few enough bins.
buildUpperLevels(base) ==
  FoldLeft(LAMBDA levels, k : IF Last(levels).frameCount > TopLevelFrames THEN Append(levels, Above(Last(levels))) ELSE levels,
           <<base>>, Span(0, base.frameCount))

\* build: the whole buffer at once.
buildInMemory ==
  LET count == binsToCover(Frames, BaseBinSize)
      Bin(channel, bin) == Summary(Sampled(channel, bin * BaseBinSize, Min({(bin + 1) * BaseBinSize, Frames})))
  IN buildUpperLevels([binSize |-> BaseBinSize, frameCount |-> count,
                       frames |-> [k \in 1..(count * Channels) |-> Bin(((k - 1) \div count) + 1, (k - 1) % count)]])
-----------------------------------------------------------------------------
(* buildStreaming.                                                         *)

PeakInit ==
  /\ peakSource \in PeakSources
  /\ build = [position |-> 0, read |-> 0, frameIndex |-> 0, sourceFrames |-> peakSource.declared, phase |-> "filling",
              base |-> [binSize |-> BaseBinSize, frameCount |-> binsToCover(peakSource.declared, BaseBinSize),
                        frames |-> [k \in 1..(binsToCover(peakSource.declared, BaseBinSize) * Channels) |-> PeakFrame]]]

BlockIsFull == build.read = PeakBlockFrames \/ build.position + build.read >= peakSource.declared
Unread == Frames - build.position - build.read

\* Any part of what is asked for; nothing only at the end of the source.
readIntoBlock ==
  /\ build.phase = "filling" /\ ~BlockIsFull
  /\ IF Unread = 0 THEN build' = [build EXCEPT !.phase = "summarising"]
     ELSE \E got \in 1..Min({Unread, PeakBlockFrames - build.read}) : build' = [build EXCEPT !.read = @ + got]
  /\ UNCHANGED peakSource

Summarised(s) == s.frameIndex + binsToCover(s.read, BaseBinSize)

summariseBlock ==
  /\ build.phase = "summarising" \/ (build.phase = "filling" /\ BlockIsFull)
  /\ IF build.read = 0 THEN build' = [build EXCEPT !.phase = "ended"]
     ELSE LET base == build.base
              Bin(channel, bin) == Summary(Sampled(channel, build.position + bin * BaseBinSize,
                                                   build.position + Min({(bin + 1) * BaseBinSize, build.read})))
              Replaced(k) == LET bin == ((k - 1) % base.frameCount) - build.frameIndex
                             IN IF bin \in 0..(binsToCover(build.read, BaseBinSize) - 1)
                                THEN Bin(((k - 1) \div base.frameCount) + 1, bin) ELSE base.frames[k]
          IN build' = [build EXCEPT !.base.frames = [k \in DOMAIN base.frames |-> Replaced(k)],
                                    !.frameIndex = Summarised(build), !.position = @ + build.read, !.read = 0,
                                    !.phase = IF build.position + build.read < peakSource.declared THEN "filling" ELSE "ended"]
  /\ UNCHANGED peakSource

\* A source that ended early: the vector is cut to the bins there are, at the
\* stride it was filled with.
finishPyramid ==
  /\ build.phase = "ended"
  /\ LET count == binsToCover(build.position, BaseBinSize)
     IN build' = IF build.position < peakSource.declared
                 THEN [build EXCEPT !.sourceFrames = build.position, !.phase = "built", !.base.frameCount = count,
                                    !.base.frames = SubSeq(@, 1, count * Channels)]
                 ELSE [build EXCEPT !.phase = "built"]
  /\ UNCHANGED peakSource

\* shouldCancel between blocks; nothing comes of the build.
cancelPyramid == /\ build.phase = "filling" /\ build.read = 0
                 /\ build' = [build EXCEPT !.phase = "cancelled"] /\ UNCHANGED peakSource

PeakNext == readIntoBlock \/ summariseBlock \/ finishPyramid \/ cancelPyramid
-----------------------------------------------------------------------------
(* query().                                                                *)

levelForSamplesPerPixel(levels, perPixel) == Max({1} \cup {l \in DOMAIN levels : levels[l].binSize <= perPixel})

\* Mutant: the bin under the last sample of a column is left to the next one.
lastBin_Short(level, b) == Min({level.frameCount - 1, (b \div level.binSize) - 1})
lastBin(level, b) == Min({level.frameCount - 1, (b - 1) \div level.binSize})

aggregate(level, channel, a, b) ==
  LET first == a \div level.binSize
      last == lastBin(level, b)
  IN IF b <= a \/ first > last THEN PeakFrame
     ELSE Folded(SubSeq(level.frames, (channel - 1) * level.frameCount + first + 1,
                        (channel - 1) * level.frameCount + last + 1))

columnEdge(a, b, columns, i) == a + ((b - a) * i) \div columns
query(levels, channel, a, b, columns) ==
  LET level == levels[levelForSamplesPerPixel(levels, Max({1, (b - a) \div columns}))]
  IN [i \in 1..columns |-> aggregate(level, channel, columnEdge(a, b, columns, i - 1), columnEdge(a, b, columns, i))]
-----------------------------------------------------------------------------
(* Properties.                                                             *)

\* Streaming, however the source cuts its reads, gives what the whole buffer
\* gives, and the frames the source really had.
PyramidIsTheAudio ==
  build.phase = "built" =>
    /\ build.sourceFrames = Min({Frames, peakSource.declared})
    /\ buildUpperLevels(build.base) = buildInMemory

\* "a transient present at level 0 is present at every level": no column of any
\* zoom hides a sample under it, and none shows more than the bins it touches.
NoPeakIsHidden ==
  build.phase = "built" =>
    LET levels == buildUpperLevels(build.base)
    IN \A channel \in 1..Channels, a \in 0..(Frames - 1), columns \in 1..3 : \A b \in (a + 1)..(Frames + 2) :
         LET drawn == query(levels, channel, a, b, columns)
         IN \A i \in 1..columns : \A k \in columnEdge(a, b, columns, i - 1)..(Min({Frames, columnEdge(a, b, columns, i)}) - 1) :
              LET sample == peakSource.channels[channel][k + 1]
              IN drawn[i].minimum <= sample /\ sample <= drawn[i].maximum
=============================================================================
