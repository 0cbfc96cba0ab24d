---------------------------- MODULE LoudnessMeter ----------------------------
(* Programme loudness (sa-analysis, LoudnessMeter) and its course over time     *)
(* (LoudnessContour). A sample is the energy the K-weighting leaves of it, an   *)
(* integer per channel; a loudness is the mean energy it is the logarithm of,   *)
(* so a gate some LU down is a fraction and a histogram bin an octave. Energies *)
(* are kept as sums over a window, thresholds are multiplied out.               *)
EXTENDS Integers, Sequences, FiniteSets, SequencesExt

CONSTANTS
  Speakers,                   \* the speaker of each channel
  FullWeight, kSurroundWeight,
  SubBlockFrames,           \* samplesPerSubBlock_
  kSubBlocksPerBlock, kSubBlocksPerShortTerm, kShortTermHopSubBlocks,
  kAbsoluteGate,            \* mean energy of a sub-block
  kRelativeGate, kRangeGate,   \* fractions of the mean: 1/kRelativeGate
  kHistogramBinCount,
  Levels,                   \* energies of a frame, one per channel
  ChunkLengths, MostHeard, \* frames of one call, and of a programme
  PointSteps                \* frames between a contour's points

VARIABLES
  meter,
  programme    \* history: the frames heard since the last reset

meterVars == <<meter, programme>>
Floor == 0     \* kDecibelFloor: the loudness of no energy
------------------------------------------------------------------------------
(* The histogram of gated windows.                                          *)

Octaves == 0..(kHistogramBinCount - 1)
\* Twice the mean energy in the middle of a bin.
binCentre(i) == 3 * 2 ^ i
binIndexFor(mean) == Max({i \in Octaves : i = 0 \/ 2 ^ i <= mean})
Empty == [bins |-> [i \in Octaves |-> [count |-> 0, energy |-> 0]], energy |-> 0, count |-> 0]

add(h, energy, subBlocks) ==
  [h EXCEPT !.bins[binIndexFor(energy \div subBlocks)] = [count |-> @.count + 1, energy |-> @.energy + energy],
            !.energy = @ + energy, !.count = @ + 1]

\* The bins above 1/gate of the mean of everything added.
BinsAbove(h, gate, subBlocks) == {i \in Octaves : binCentre(i) * gate * h.count * subBlocks > 2 * h.energy}
countAbove(h, bins) == MapThenSumSet(LAMBDA i : h.bins[i].count, bins)
meanEnergyAbove(h, bins) == <<MapThenSumSet(LAMBDA i : h.bins[i].energy, bins), countAbove(h, bins)>>

\* In twentieths: 2 is the 10th percentile, 19 the 95th.
Rank(total, twentieths) == (2 * (total - 1) * twentieths + 20) \div 40
percentileAbove(h, bins, twentieths) ==
  CHOOSE i \in bins : /\ countAbove(h, {j \in bins : j <= i}) > Rank(countAbove(h, bins), twentieths)
                      /\ countAbove(h, {j \in bins : j < i}) <= Rank(countAbove(h, bins), twentieths)
------------------------------------------------------------------------------
(* The meter.                                                               *)

Channels == DOMAIN Speakers
weightFor(speaker) ==
  CASE speaker = "Lfe" -> 0
    [] speaker \in {"LeftSurround", "RightSurround", "LeftSurroundRear", "RightSurroundRear"} -> kSurroundWeight
    [] OTHER -> FullWeight

NewMeter ==
  [sums |-> [c \in Channels |-> 0], fill |-> 0, completed |-> 0, frames |-> 0,
   history |-> [slot \in 0..(kSubBlocksPerShortTerm - 1) |-> [c \in Channels |-> 0]],
   momentary |-> Floor, shortTerm |-> Floor, maxMomentary |-> Floor, maxShortTerm |-> Floor,
   blocks |-> Empty, shortTermBlocks |-> Empty]

\* Mutant: the slot that is to be written next is the newest.
windowEnergy_FromNext(m, count) ==
  MapThenSumSet(LAMBDA c : weightFor(Speakers[c]) * MapThenSumSet(
    LAMBDA back : m.history[(m.completed + kSubBlocksPerShortTerm - back) % kSubBlocksPerShortTerm][c], 0..(count - 1)), Channels)
windowEnergy(m, count) ==
  MapThenSumSet(LAMBDA c : weightFor(Speakers[c]) * MapThenSumSet(
    LAMBDA back : m.history[(m.completed - 1 - back) % kSubBlocksPerShortTerm][c], 0..(count - 1)), Channels)

Audible(energy, subBlocks) == energy > kAbsoluteGate * subBlocks
momentaryAvailable(m) == m.completed >= kSubBlocksPerBlock
shortTermAvailable(m) == m.completed >= kSubBlocksPerShortTerm

ReadMomentary(m) ==
  IF ~momentaryAvailable(m) THEN m
  ELSE LET energy == windowEnergy(m, kSubBlocksPerBlock)
       IN [m EXCEPT !.momentary = energy, !.maxMomentary = Max({@, energy}),
                    !.blocks = IF Audible(energy, kSubBlocksPerBlock) THEN add(@, energy, kSubBlocksPerBlock) ELSE @]

ReadShortTerm(m) ==
  IF ~shortTermAvailable(m) THEN m
  ELSE LET energy == windowEnergy(m, kSubBlocksPerShortTerm)
           due == (m.completed - kSubBlocksPerShortTerm) % kShortTermHopSubBlocks = 0
       IN [m EXCEPT !.shortTerm = energy, !.maxShortTerm = Max({@, energy}),
                    !.shortTermBlocks = IF due /\ Audible(energy, kSubBlocksPerShortTerm)
                                        THEN add(@, energy, kSubBlocksPerShortTerm) ELSE @]

completeSubBlock(m) ==
  ReadShortTerm(ReadMomentary(
    [m EXCEPT !.history[m.completed % kSubBlocksPerShortTerm] = m.sums,
              !.sums = [c \in Channels |-> 0], !.completed = @ + 1, !.fill = 0]))

\* An excluded channel is not summed.
Summed(m, frames) ==
  [m EXCEPT !.sums = [c \in Channels |-> IF weightFor(Speakers[c]) = 0 THEN @[c]
                                         ELSE FoldLeft(LAMBDA sum, frame : sum + frame[c], @[c], frames)],
            !.fill = @ + Len(frames), !.frames = @ + Len(frames)]

\* A call's frames, up to the end of a sub-block at a time.
process(m, block) ==
  LET End(k) == Max({0, Min({k * SubBlockFrames - m.fill, Len(block)})})
      pieces == [k \in 1..(m.fill + Len(block) + SubBlockFrames - 1) \div SubBlockFrames |-> SubSeq(block, End(k - 1) + 1, End(k))]
  IN FoldLeft(LAMBDA fed, piece : LET next == Summed(fed, piece)
                                  IN IF next.fill >= SubBlockFrames THEN completeSubBlock(next) ELSE next, m, pieces)

\* Energy and number of the blocks the relative gate lets through, or the floor.
integratedLufs(m) ==
  LET gated == meanEnergyAbove(m.blocks, BinsAbove(m.blocks, kRelativeGate, kSubBlocksPerBlock))
  IN IF m.blocks.count = 0 \/ gated[2] = 0 THEN Floor ELSE gated

\* In bins.
loudnessRangeLu(m) ==
  LET h == m.shortTermBlocks
      bins == BinsAbove(h, kRangeGate, kSubBlocksPerShortTerm)
  IN IF h.count = 0 \/ countAbove(h, bins) = 0 THEN 0
     ELSE Max({0, percentileAbove(h, bins, 19) - percentileAbove(h, bins, 2)})

measure(audio) == process(NewMeter, audio)
------------------------------------------------------------------------------
(* The contour. What is not loudness, peaks and plain energies, is kept beside  *)
(* the meter, in a ring of as many sub-blocks.                                  *)

PlainEnergy(frame) == MapThenSumSet(LAMBDA c : frame[c], Channels)
Statistics(frames) ==
  [peak |-> Max({frames[i][c] : i \in DOMAIN frames, c \in Channels}),
   energy |-> FoldLeft(LAMBDA sum, frame : sum + PlainEnergy(frame), 0, frames)]
RingSlots(completed, count) == {(completed - 1 - back) % kSubBlocksPerShortTerm : back \in 0..(count - 1)}
PeakOf(ring, slots) == Max({ring[s].peak : s \in slots})

Absent == "no reading"
Point(c) ==
  LET block == RingSlots(c.meter.completed, kSubBlocksPerBlock)
      shortTerm == RingSlots(c.meter.completed, kSubBlocksPerShortTerm)
  IN [time |-> c.next,
      momentary |-> IF momentaryAvailable(c.meter) THEN c.meter.momentary ELSE Absent,
      crest |-> IF momentaryAvailable(c.meter)
                THEN <<PeakOf(c.ring, block), MapThenSumSet(LAMBDA s : c.ring[s].energy, block)>> ELSE Absent,
      shortTerm |-> IF shortTermAvailable(c.meter) THEN c.meter.shortTerm ELSE Absent,
      peak |-> IF shortTermAvailable(c.meter) THEN PeakOf(c.ring, shortTerm) ELSE Absent]

\* Mutant: a point waits for the sub-block after its own.
Due_Late(c, frames) == c.next <= frames /\ c.next \div SubBlockFrames < c.meter.completed
Due(c, frames) == c.next <= frames /\ c.next \div SubBlockFrames <= c.meter.completed

emitted(c, step) ==
  [c EXCEPT !.points = Append(@, Point(c)), !.next = @ + step,
            !.gated = IF shortTermAvailable(c.meter) /\ Audible(c.meter.shortTerm, kSubBlocksPerShortTerm)
                      THEN Append(@, c.meter.shortTerm) ELSE @]
\* All that are due: at once no more than one sub-block has room for.
emitPoints(c, frames, step) ==
  LET most == SubBlockFrames \div step + 1
      turn[k \in 0..most] ==
        IF k = 0 THEN c
        ELSE LET last == turn[k - 1] IN IF Due(last, frames) THEN emitted(last, step) ELSE last
  IN turn[most]

SubBlock(audio, index) == SubSeq(audio, index * SubBlockFrames + 1, (index + 1) * SubBlockFrames)
measureLoudnessContour(audio, step) ==
  LET frames == Len(audio)
      whole == frames \div SubBlockFrames
      Began == [meter |-> NewMeter, ring |-> [s \in 0..(kSubBlocksPerShortTerm - 1) |-> [peak |-> 0, energy |-> 0]],
                points |-> <<>>, gated |-> <<>>, next |-> 0]
      Fed(c, index) ==
        emitPoints([c EXCEPT !.meter = process(@, SubBlock(audio, index)),
                             !.ring[index % kSubBlocksPerShortTerm] = Statistics(SubBlock(audio, index))], frames, step)
      all == FoldLeft(Fed, emitPoints(Began, frames, step), [i \in 1..whole |-> i - 1])
  IN [all EXCEPT !.meter = process(@, SubSeq(audio, whole * SubBlockFrames + 1, frames)),
                 !.gated = SortSeq(@, <)]
------------------------------------------------------------------------------
MeterInit == meter = NewMeter /\ programme = <<>>

feedMeter ==
  \E n \in ChunkLengths, level \in Levels :
    /\ Len(programme) + n <= MostHeard
    /\ LET block == [i \in 1..n |-> level]
       IN meter' = process(meter, block) /\ programme' = programme \o block

resetMeter == programme # <<>> /\ meter' = NewMeter /\ programme' = <<>>

MeterNext == feedMeter \/ resetMeter
------------------------------------------------------------------------------
(* Loudness as BS.1770 defines it, over the whole programme.                *)

Weighted(frame) == MapThenSumSet(LAMBDA c : weightFor(Speakers[c]) * frame[c], Channels)
\* The `count` sub-blocks of the programme before the end of the `last`th.
Window(last, count) ==
  MapThenSumSet(LAMBDA i : Weighted(programme[i]), ((last - count) * SubBlockFrames + 1)..(last * SubBlockFrames))
WholeSubBlocks == Len(programme) \div SubBlockFrames

BlockEnds == kSubBlocksPerBlock..WholeSubBlocks
AudibleBlocks == {k \in BlockEnds : Audible(Window(k, kSubBlocksPerBlock), kSubBlocksPerBlock)}
RangeEnds == {k \in kSubBlocksPerShortTerm..WholeSubBlocks :
                /\ (k - kSubBlocksPerShortTerm) % kShortTermHopSubBlocks = 0
                /\ Audible(Window(k, kSubBlocksPerShortTerm), kSubBlocksPerShortTerm)}
SumOver(ends, count) == MapThenSumSet(LAMBDA k : Window(k, count), ends)

\* The live readings are those of the last whole windows of everything heard
\* since the last reset, however it was cut into calls (LoudnessMeter.h: the two
\* ways to use it "produce bit-identical results"; completeSubBlock, process).
ReadingsAreTheProgramme ==
  /\ meter.completed = WholeSubBlocks /\ meter.frames = Len(programme)
  /\ meter.momentary = IF BlockEnds = {} THEN Floor ELSE Window(WholeSubBlocks, kSubBlocksPerBlock)
  /\ meter.maxMomentary = Max({Floor} \cup {Window(k, kSubBlocksPerBlock) : k \in BlockEnds})
  /\ meter.shortTerm = IF WholeSubBlocks < kSubBlocksPerShortTerm THEN Floor ELSE Window(WholeSubBlocks, kSubBlocksPerShortTerm)

\* Gating by a histogram is gating: between the gate taken at the lower and at
\* the upper edge of the one bin the threshold falls in (LoudnessMeter.h: "the
\* only thing quantised is which side of the relative threshold the one
\* straddling bin falls on"; Histogram, integratedLufs).
GatingMissesOneBinAtMost ==
  LET mean == SumOver(AudibleBlocks, kSubBlocksPerBlock)
      count == Cardinality(AudibleBlocks)
      Kept(factor) == {k \in AudibleBlocks : factor * Window(k, kSubBlocksPerBlock) * kRelativeGate * count > mean}
      kept == integratedLufs(meter)
  IN IF AudibleBlocks = {} THEN kept = Floor
     ELSE \E ends \in SUBSET AudibleBlocks :
            /\ {k \in AudibleBlocks : Window(k, kSubBlocksPerBlock) * kRelativeGate * count >= 2 * mean} \subseteq ends
            /\ ends \subseteq Kept(2)
            /\ kept = <<SumOver(ends, kSubBlocksPerBlock), Cardinality(ends)>>

\* The range is the spread between two of the windows above its own gate, by
\* nearest rank (loudnessRangeLu).
RangeIsARankApart ==
  LET h == meter.shortTermBlocks
      means == {<<binIndexFor(Window(k, kSubBlocksPerShortTerm) \div kSubBlocksPerShortTerm), k>> : k \in RangeEnds}
      kept == {b \in means : b[1] \in BinsAbove(h, kRangeGate, kSubBlocksPerShortTerm)}
      sorted == SetToSortSeq(kept, LAMBDA a, b : a[1] < b[1] \/ (a[1] = b[1] /\ a[2] < b[2]))
      n == Cardinality(kept)
  IN loudnessRangeLu(meter) = IF n = 0 THEN 0 ELSE sorted[Rank(n, 19) + 1][1] - sorted[Rank(n, 2) + 1][1]

\* Each point of a contour describes the windows that end at the last whole
\* sub-block at or before it, its figures for the whole are those of a meter fed
\* in any other way, and no point is missing (LoudnessContour.cpp: "the first
\* `completed` to reach a point's own sub-block index is the one that emits it").
ContourFollowsTheMeter ==
  Len(programme) >= SubBlockFrames * kSubBlocksPerBlock =>
    \A step \in PointSteps :
      LET c == measureLoudnessContour(programme, step)
          At(p, count, reading) == IF p.time \div SubBlockFrames < count THEN Absent ELSE reading
          Frames(last, count) == SubSeq(programme, (last - count) * SubBlockFrames + 1, last * SubBlockFrames)
      IN /\ Len(c.points) = Len(programme) \div step + 1
         /\ \A i \in DOMAIN c.points :
              LET p == c.points[i]
                  last == p.time \div SubBlockFrames
              IN /\ p.time = (i - 1) * step
                 /\ IF last < kSubBlocksPerBlock THEN p.momentary = Absent /\ p.crest = Absent
                    ELSE LET heard == Statistics(Frames(last, kSubBlocksPerBlock))
                         IN p.momentary = Window(last, kSubBlocksPerBlock) /\ p.crest = <<heard.peak, heard.energy>>
                 /\ IF last < kSubBlocksPerShortTerm THEN p.shortTerm = Absent /\ p.peak = Absent
                    ELSE /\ p.shortTerm = Window(last, kSubBlocksPerShortTerm)
                         /\ p.peak = Statistics(Frames(last, kSubBlocksPerShortTerm)).peak
         /\ c.meter = meter

MetersTellTheTruth == ReadingsAreTheProgramme /\ GatingMissesOneBinAtMost /\ RangeIsARankApart /\ ContourFollowsTheMeter
=============================================================================
