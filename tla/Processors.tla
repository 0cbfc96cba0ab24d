------------------------------ MODULE Processors ------------------------------
(* The dynamics processors (sa-dsp): the limiter with its delay line, its        *)
(* sliding maximum and its inter-sample detector, two of them linked across a    *)
(* stereo pair; the gate's decision; the static curves; and the edges of an      *)
(* offline pass. A level is what it is over the limiter's ceiling, 0 for all     *)
(* that is not over it; a gain is the reduction that it is.                      *)
(*                                                                               *)
(* Taking out clicks and putting back clipped peaks (sa-dsp: Declick, Declip).   *)
(* Both find a stretch that cannot be right and ask a model of its surroundings  *)
(* what should be there. What the model finds surprising, and what it answers,   *)
(* is any set of samples and any values; which stretches it is asked about, and  *)
(* what is done with its answers and told of them, is the code's. Samples are    *)
(* counted from 0, a run is [start, end), and one channel stands for each.       *)
EXTENDS Integers, Sequences, FiniteSets, FiniteSetsExt, TLC

CONSTANTS
  InputPairs,         \* of levels, left and right; even, so that two have an average
  kMaxLookAhead,      \* kMaxLookAheadSeconds, in samples
  kDetectorLatency,   \* samples until the inter-sample detector can tell
  HoldTimes,          \* of the gate
  MostSamplesIn, MostChanges   \* bounds of a behaviour

VARIABLE dynamics     \* one processor of one `kind`, and what has become of it

NoSample == -1
-------------------------------------------------------------------------------
(* The limiter.                                                                  *)

delayCapacity == kMaxLookAhead + kDetectorLatency + 1
windowCapacity == kMaxLookAhead + 2
SilentLevel == [level |-> 0, of |-> NoSample]

\* The ring of the detector holds the samples it has been fed, first to last.
NewLimiter(settings) ==
  [settings |-> settings, line |-> [i \in 1..(kDetectorLatency + 1) |-> NoSample],
   delay |-> [i \in 0..(delayCapacity - 1) |-> NoSample], detected |-> [i \in 0..(delayCapacity - 1) |-> SilentLevel],
   writeIndex |-> 0, values |-> [i \in 0..(windowCapacity - 1) |-> 0], positions |-> [i \in 0..(windowCapacity - 1) |-> 0],
   windowHead |-> 0, windowCount |-> 0, position |-> 0, smoothed |-> 0]

detectorLatency(settings) == IF settings.truePeak THEN kDetectorLatency ELSE 0
audioDelaySamples(settings) == settings.lookAhead + detectorLatency(settings)

\* A detector that is switched on forgets what passed it before.
applySettings(l, settings) ==
  [l EXCEPT !.settings = settings,
            !.line = IF settings.truePeak /\ ~l.settings.truePeak THEN [i \in DOMAIN @ |-> NoSample] ELSE @]

LevelOf(inputs, n) == IF n = NoSample THEN 0 ELSE inputs[n + 1]

\* The level of the sample `n` just fed, or of the one the detector has come to.
Line(l, n) == IF l.settings.truePeak THEN Append(Tail(l.line), n) ELSE l.line
detect(l, inputs, n) == LET of == IF l.settings.truePeak THEN Line(l, n)[1] ELSE n
                        IN [level |-> LevelOf(inputs, of), of |-> of]

\* What the arriving level dominates is dropped from the end of the wedge, then
\* what has left the window from its front.
Slot(l, k) == (l.windowHead + k) % windowCapacity
Popped(l, required) ==
  LET kept == {k \in 1..l.windowCount : l.values[Slot(l, k - 1)] > required}
  IN [l EXCEPT !.windowCount = IF kept = {} THEN 0 ELSE Max(kept)]
Pushed(l, required) ==
  [l EXCEPT !.values[Slot(l, l.windowCount)] = required, !.positions[Slot(l, l.windowCount)] = l.position,
            !.windowCount = @ + 1]
\* Mutant: the oldest sample of the window is let go one early.
Expired_Early(l) ==
  LET gone == Cardinality({k \in 0..(l.windowCount - 1) :
                            \A j \in 0..k : l.positions[Slot(l, j)] <= l.position - l.settings.lookAhead /\ j < l.windowCount - 1})
  IN [l EXCEPT !.windowHead = (@ + gone) % windowCapacity, !.windowCount = @ - gone]
Expired(l) ==
  LET gone == Cardinality({k \in 0..(l.windowCount - 1) :
                            \A j \in 0..k : l.positions[Slot(l, j)] < l.position - l.settings.lookAhead})
  IN [l EXCEPT !.windowHead = (@ + gone) % windowCapacity, !.windowCount = @ - gone]
slideWindow(l, required) == Expired(Pushed(Popped(l, required), required))

\* Towards what the window wants: at once where there is no look-ahead, and half
\* of the way where there is.
Half(x) == IF x < 0 THEN -((-x) \div 2) ELSE x \div 2
Smoothed(l, target) == target + (IF target > l.smoothed /\ l.settings.lookAhead = 0 THEN 0 ELSE Half(l.smoothed - target))

\* One sample, for the level it was given: what comes out, and by how much it is
\* turned down. What the smoothing has not done, the clamp does.
\* Mutant: the level is read where the sample is.
applyDetected_OneOffset(l, inputs, n, given) ==
  LET window == slideWindow(l, given.level)
      maximum == window.values[window.windowHead]
      w == window.writeIndex
      written == [window EXCEPT !.delay[w] = n, !.detected[w] = given, !.writeIndex = (w + 1) % delayCapacity,
                                !.position = @ + 1, !.smoothed = Smoothed(window, maximum)]
      at == (w + delayCapacity - audioDelaySamples(l.settings)) % delayCapacity
      level == written.detected[at]
  IN [limiter |-> written,
      out |-> [of |-> written.delay[at], level |-> level, maximum |-> maximum,
               reduction |-> Max({written.smoothed, level.level, LevelOf(inputs, written.delay[at])})]]
applyDetected(l, inputs, n, given) ==
  LET window == slideWindow(l, given.level)
      maximum == window.values[window.windowHead]
      w == window.writeIndex
      written == [window EXCEPT !.delay[w] = n, !.detected[w] = given, !.writeIndex = (w + 1) % delayCapacity,
                                !.position = @ + 1, !.smoothed = Smoothed(window, maximum)]
      delayed == written.delay[(w + delayCapacity - audioDelaySamples(l.settings)) % delayCapacity]
      level == written.detected[(w + delayCapacity - l.settings.lookAhead) % delayCapacity]
  IN [limiter |-> written,
      out |-> [of |-> delayed, level |-> level, maximum |-> maximum,
               reduction |-> Max({written.smoothed, level.level, LevelOf(inputs, delayed)})]]
-------------------------------------------------------------------------------
(* StereoLink: a limiter to each channel, and one level for both.                *)

Channel == 1..2
Combined(mode, a, b) == IF mode = "maximum" THEN Max({a, b}) ELSE (a + b) \div 2
\* By how much a channel's level is pulled to the combined one: not, half, whole.
Pulled(link, own, combined) == [own EXCEPT !.level = @ + (link.amount * (combined - @)) \div 2]

NoOutput == [of |-> NoSample, level |-> SilentLevel, maximum |-> 0, reduction |-> 0]
NewPair(settings, link) ==
  [kind |-> "limiter", pair |-> [c \in Channel |-> NewLimiter(settings)], link |-> link,
   inputs |-> [c \in Channel |-> <<>>], given |-> [c \in Channel |-> <<>>], outs |-> [c \in Channel |-> NoOutput],
   oldest |-> 0,     \* history: nothing from here on has been too old for the window
   settled |-> 0,    \* history: samples since the settings were changed
   linked |-> 0,     \* and since the link was
   changes |-> 0]

\* Both detectors run before either gain is worked out.
processSample(a, b) ==
  LET d == dynamics
      n == Len(d.inputs[1])
      inputs == [c \in Channel |-> Append(d.inputs[c], IF c = 1 THEN a ELSE b)]
      own == [c \in Channel |-> detect(d.pair[c], inputs[c], n)]
      combined == Combined(d.link.mode, own[1].level, own[2].level)
      given == [c \in Channel |-> Pulled(d.link, own[c], combined)]
      done == [c \in Channel |-> applyDetected([d.pair[c] EXCEPT !.line = Line(d.pair[c], n)], inputs[c], n, given[c])]
  IN /\ d.kind = "limiter" /\ n < MostSamplesIn
     /\ dynamics' = [d EXCEPT !.inputs = inputs, !.pair = [c \in Channel |-> done[c].limiter],
                              !.outs = [c \in Channel |-> done[c].out],
                              !.given = [c \in Channel |-> Append(d.given[c], given[c].level)],
                              !.oldest = Max({@, n - d.pair[1].settings.lookAhead}),
                              !.settled = @ + 1, !.linked = @ + 1]

Change == dynamics.kind = "limiter" /\ dynamics.changes < MostChanges
Passed(d) == [d EXCEPT !.outs = [c \in Channel |-> NoOutput], !.changes = @ + 1]
setSettings(settings) ==
  /\ Change
  /\ dynamics' = [Passed(dynamics) EXCEPT !.settled = 0, !.pair = [c \in Channel |-> applySettings(dynamics.pair[c], settings)]]
setLink(link) == Change /\ dynamics' = [Passed(dynamics) EXCEPT !.link = link, !.linked = 0]
resetPair == Change /\ dynamics' = [NewPair(dynamics.pair[1].settings, dynamics.link) EXCEPT !.changes = dynamics.changes + 1]
-------------------------------------------------------------------------------
(* The gate: open above one threshold, and shut some time below another.        *)

NewGate(hold) == [kind |-> "gate", open |-> FALSE, holdSamples |-> hold, holdRemaining |-> 0, was |-> FALSE,
                  lows |-> 0,                      \* history: samples below since the last one above
                  holds |-> {hold},                \* and the hold times in force since then
                  passed |-> 0, changes |-> 0]

\* Mutant: in between the two thresholds the gate's time runs out too.
passGate_Band(level) ==
  LET d == dynamics
      waits == d.holdRemaining > 0
  IN /\ d.kind = "gate" /\ d.passed < MostSamplesIn
     /\ dynamics' = [d EXCEPT !.passed = @ + 1, !.was = d.open,
                              !.open = IF level = "above" THEN TRUE ELSE @ /\ waits,
                              !.holdRemaining = IF level = "above" THEN d.holdSamples ELSE IF waits THEN @ - 1 ELSE @,
                              !.lows = IF level = "above" THEN 0 ELSE IF level = "below" THEN @ + 1 ELSE @,
                              !.holds = IF level = "above" THEN {d.holdSamples} ELSE @]
passGate(level) ==
  LET d == dynamics
      waits == d.holdRemaining > 0
  IN /\ d.kind = "gate" /\ d.passed < MostSamplesIn
     /\ dynamics' = [d EXCEPT !.passed = @ + 1, !.was = d.open,
                              !.open = IF level = "above" THEN TRUE ELSE IF level = "below" THEN @ /\ waits ELSE @,
                              !.holdRemaining = IF level = "above" THEN d.holdSamples
                                                ELSE IF level = "below" /\ waits THEN @ - 1 ELSE @,
                              !.lows = IF level = "above" THEN 0 ELSE IF level = "below" THEN @ + 1 ELSE @,
                              !.holds = IF level = "above" THEN {d.holdSamples} ELSE @]

setGate(hold) ==
  /\ dynamics.kind = "gate" /\ dynamics.changes < MostChanges
  /\ dynamics' = [dynamics EXCEPT !.holdSamples = hold, !.holdRemaining = Min({@, hold}), !.was = dynamics.open,
                                  !.holds = @ \cup {hold}, !.changes = @ + 1]
resetGate == /\ dynamics.kind = "gate" /\ dynamics.changes < MostChanges
             /\ dynamics' = [NewGate(dynamics.holdSamples) EXCEPT !.changes = dynamics.changes + 1, !.passed = dynamics.passed]
-------------------------------------------------------------------------------
(* The static curves, for a level `over` the threshold; a gain is a multiple of  *)
(* Scale(s)-ths of a decibel.                                                    *)

Scale(s) == 8 * s.ratio * (IF s.knee = 0 THEN 1 ELSE s.knee)
InKnee(s, over) == s.knee > 0 /\ 2 * (IF over < 0 THEN -over ELSE over) <= s.knee

compressorGainDb(s, over) ==
  IF InKnee(s, over) THEN (1 - s.ratio) * (2 * over + s.knee) * (2 * over + s.knee)
  ELSE IF over > 0 THEN ((1 - s.ratio) * over * Scale(s)) \div s.ratio ELSE 0
\* Mutant: the knee bends from the compressor's side.
expanderGainDb_Mirrored(s, over) ==
  IF InKnee(s, over) THEN -(s.ratio - 1) * s.ratio * (2 * over + s.knee) * (2 * over + s.knee)
  ELSE IF over < 0 THEN (s.ratio - 1) * over * Scale(s) ELSE 0
expanderGainDb(s, over) ==
  IF InKnee(s, over) THEN -(s.ratio - 1) * s.ratio * (2 * over - s.knee) * (2 * over - s.knee)
  ELSE IF over < 0 THEN (s.ratio - 1) * over * Scale(s) ELSE 0
-------------------------------------------------------------------------------
(* Offline: runOffline blends what it processed into what was there, and         *)
(* limitOffline undoes the delay.                                                *)

\* How much of each processed sample is heard, in (blend + 1)-ths squared.
\* Mutant: the blends may meet and cross.
blendFor_Any(wanted, processed) == wanted
blendFor(wanted, processed) == Min({wanted, processed \div 2})
Heard(blend, processed, i) ==
  (IF i < blend THEN i + 1 ELSE blend + 1) * (IF processed - 1 - i < blend THEN processed - i ELSE blend + 1)

\* What is where after a limiter of this latency has been over `frames` samples.
\* Mutant: the delay stays.
alignForLatency_Not(frames, latency) == [i \in 0..(frames - 1) |-> IF i < latency THEN NoSample ELSE i - latency]
alignForLatency(frames, latency) ==
  LET limited == [i \in 0..(frames - 1) |-> IF i < latency THEN NoSample ELSE i - latency]
  IN [i \in 0..(frames - 1) |-> IF latency < frames /\ i + latency < frames THEN limited[i + latency]
                                ELSE IF latency < frames THEN NoSample ELSE limited[i]]
-------------------------------------------------------------------------------
LimiterSettings == [lookAhead : 0..kMaxLookAhead, truePeak : BOOLEAN]
StereoLinks == {[mode |-> "maximum", amount |-> a] : a \in {0, 2}} \cup {[mode |-> "average", amount |-> a] : a \in {1, 2}}
Curves == [kind : {"curve"}, ratio : 1..4, knee : {0, 2, 4}]
Passes == [kind : {"offline"}, processed : 1..6, blend : 0..6, latency : 0..4]

DynamicsInit ==
  \/ \E settings \in LimiterSettings, link \in StereoLinks : dynamics = NewPair(settings, link)
  \/ \E hold \in HoldTimes : dynamics = NewGate(hold)
  \/ dynamics \in Curves \cup Passes

DynamicsNext ==
  \/ \E p \in InputPairs : processSample(p[1], p[2])
  \/ \E settings \in LimiterSettings : setSettings(settings)
  \/ \E link \in StereoLinks : setLink(link)
  \/ resetPair
  \/ \E level \in {"above", "between", "below"} : passGate(level)
  \/ \E hold \in HoldTimes : setGate(hold)
  \/ resetGate
DynamicsSpec == DynamicsInit /\ [][DynamicsNext]_dynamics
-------------------------------------------------------------------------------
Sounding == dynamics.kind = "limiter" /\ dynamics.outs[1] # NoOutput
Now == dynamics.pair[1].settings

\* What the limiter gets down to is the largest level of its window, whatever has
\* been changed while the window was full; and the wedge never outgrows its ring.
WedgeIsTheMaximum ==
  dynamics.kind = "limiter" =>
    \A c \in Channel :
      /\ dynamics.pair[c].windowCount <= windowCapacity
      /\ Sounding =>
           LET n == Len(dynamics.given[c]) - 1
           IN dynamics.outs[c].maximum =
                Max({dynamics.given[c][q + 1] : q \in Max({n - Now.lookAhead, dynamics.oldest, 0})..n})

\* Dynamics.cpp: "the two offsets differ by exactly the lag the detector
\* introduces, so the level and the sample it describes meet again at the output";
\* and the sample is as old as latencySamples() says.
LevelMeetsItsSample ==
  Sounding /\ dynamics.settled > audioDelaySamples(Now) =>
    \A c \in Channel :
      /\ dynamics.outs[c].of = Len(dynamics.inputs[c]) - 1 - audioDelaySamples(Now)
      /\ dynamics.outs[c].level.of = dynamics.outs[c].of

\* "The ceiling is guaranteed, not approximated": at every sample, under every
\* change of settings.
CeilingHolds ==
  Sounding => \A c \in Channel : LevelOf(dynamics.inputs[c], dynamics.outs[c].of) <= dynamics.outs[c].reduction

\* StereoLink.h: "at full link the gain applied to the two channels is identical
\* sample for sample and the image cannot move at all": by the louder one of them,
\* once what was in flight at a change has passed. (By their average, the louder
\* one may be clamped alone: README, "Seen while modelling".)
ImageStays ==
  /\ Sounding /\ dynamics.link = [mode |-> "maximum", amount |-> 2]
  /\ dynamics.linked = Len(dynamics.inputs[1]) /\ dynamics.settled > audioDelaySamples(Now)
  => dynamics.outs[1].reduction = dynamics.outs[2].reduction

\* The gate shuts only after as many samples below as it should hold for, and then
\* it does; in between the two thresholds it decides nothing.
GateHoldsItsTime ==
  dynamics.kind = "gate" =>
    /\ dynamics.was /\ ~dynamics.open => dynamics.lows > Min(dynamics.holds)
    /\ dynamics.open => dynamics.lows <= Max(dynamics.holds)

\* No curve boosts, turns its signal around, or bends more sharply than its knee.
CurvesBend ==
  dynamics.kind = "curve" =>
    \A o \in -6..6, gain \in {[x \in -7..7 |-> compressorGainDb(dynamics, x)], [x \in -7..7 |-> expanderGainDb(dynamics, x)]} :
      /\ gain[o] <= 0
      /\ o * Scale(dynamics) + gain[o] <= (o + 1) * Scale(dynamics) + gain[o + 1]
      /\ dynamics.knee > 0 =>
           LET bend == gain[o + 1] - 2 * gain[o] + gain[o - 1]
           IN Max({bend, -bend}) <= 8 * (dynamics.ratio - 1) * dynamics.ratio

\* A processed stretch is faded in and out of what was there, in even steps; and
\* an offline limiter leaves every sample where it was.
EdgesAndDelays ==
  dynamics.kind = "offline" =>
    LET blend == blendFor(dynamics.blend, dynamics.processed)
        h(i) == Heard(blend, dynamics.processed, i)
        aligned == alignForLatency(dynamics.processed, dynamics.latency)
    IN /\ \A i \in 0..(dynamics.processed - 2) :
            Max({h(i + 1) - h(i), h(i) - h(i + 1)}) <= blend + 1
       /\ {h(0), h(dynamics.processed - 1)} \subseteq {blend + 1} \cup (IF blend = 0 THEN {1} ELSE {})
       /\ \A i \in DOMAIN aligned : aligned[i] \in {i, NoSample}
       /\ \A i \in DOMAIN aligned : i + dynamics.latency < dynamics.processed => aligned[i] = i

ProcessorsKeepTheirWord ==
  WedgeIsTheMaximum /\ LevelMeetsItsSample /\ CeilingHolds /\ ImageStays /\ GateHoldsItsTime /\ CurvesBend /\ EdgesAndDelays
-------------------------------------------------------------------------------

CONSTANTS
  RepairFrames,                                \* of the channel
  kOrder, kBlockSize,                          \* of the model, and how often it is fitted
  kMaximumGap, kGuard, kMergeDistance,         \* of a click
  ClippedWaves, kTolerance, kMinimumRun, kMaximumRun, kRecovery, Guesses, kFitCeiling

VARIABLE repair   \* [tool |-> ..., and what that tool has got to]

Greatest(S, least) == Max(S \cup {least})
Samples(run) == run.start..(run.end - 1)
Length(run) == run.end - run.start
Magnitude(v) == IF v < 0 THEN -v ELSE v
-----------------------------------------------------------------------------
(* Clicks.                                                                     *)

\* Runs no more than `distance` apart become one.
Coalesced(runs, distance) ==
  LET starts == {r.start : r \in {q \in runs : \A p \in runs : p.end <= q.start => q.start - p.end > distance}}
  IN {[start |-> s, end |-> Max({r.end : r \in {q \in runs : q.start >= s /\ ~\E t \in starts : s < t /\ t <= q.start}})] : s \in starts}

collect(hot, closeUp) == Coalesced({[start |-> i, end |-> i + 1] : i \in hot}, closeUp)

\* A click rings on in one direction and back in the other: the damage is where
\* a run of each overlaps.
Both(ahead, behind) ==
  {r \in {[start |-> Max({f.start, b.start}), end |-> Min({f.end, b.end})] : f \in ahead, b \in behind} : r.end > r.start}

\* Mutant: one direction is taken for the other's word.
Damage_Forwards(ahead, behind) == Coalesced(collect(ahead, kOrder), kMergeDistance)
Damage(ahead, behind) == Coalesced(Both(collect(ahead, kOrder), collect(behind, kOrder)), kMergeDistance)

Guarded(run) == [start |-> Max({0, run.start - kGuard}), end |-> Min({RepairFrames, run.end + kGuard})]
\* Mutant: the guard is forgotten when the length is judged.
TooLong_Bare(run) == Length(run) > kMaximumGap
TooLong(run) == Length(Guarded(run)) > kMaximumGap

\* The model, of an order it reached, needs as much on either side.
Solvable(run, order) == order > 0 /\ run.start >= order /\ run.end + order <= RepairFrames

\* The first and the last samples have no history on one side.
Judged(start) == Max({start, kOrder})..(Min({start + kBlockSize, RepairFrames, RepairFrames - kOrder}) - 1)

NewDeclick == [tool |-> "declick", next |-> 0, ahead |-> {}, behind |-> {}, now |-> {}, mended |-> {}, both |-> {},
               report |-> [clicks |-> 0, samples |-> 0, longest |-> 0, tooLong |-> 0, unsolved |-> 0]]

\* One block, with the repairs of the blocks before it already made.
mendBlock ==
  /\ repair.tool = "declick" /\ repair.next < RepairFrames
  /\ \E ahead, behind \in SUBSET Judged(repair.next), order \in 0..kOrder :
       LET found == Damage(ahead, behind)
           tried == {Guarded(r) : r \in {q \in found : ~TooLong(q)}}
       IN \E solved \in SUBSET {g \in tried : Solvable(g, order)} :
            LET now == UNION {Samples(g) : g \in solved}
            IN repair' = [repair EXCEPT
                 !.next = @ + kBlockSize, !.ahead = ahead, !.behind = behind, !.now = now,
                 !.mended = @ \cup now, !.both = @ \cup (ahead \cap behind),
                 !.report = [clicks |-> @.clicks + Cardinality(solved),
                             samples |-> @.samples + MapThenSumSet(Length, solved),
                             longest |-> Greatest({Length(g) : g \in solved}, @.longest),
                             tooLong |-> @.tooLong + Cardinality(found) - Cardinality(tried),
                             unsolved |-> @.unsolved + Cardinality(tried) - Cardinality(solved)]]
-----------------------------------------------------------------------------
(* Flat tops.                                                                  *)

Peak(wave) == Max({Magnitude(wave[i]) : i \in DOMAIN wave})
CeilingOf(wave) == Peak(wave) - kTolerance

\* Runs at the ceiling on one side of zero; silence has none.
FlatTops(wave) ==
  LET Pinned(i) == i \in DOMAIN wave /\ Peak(wave) > 0 /\ Magnitude(wave[i]) >= CeilingOf(wave)
      Alike(i, j) == Pinned(i) /\ Pinned(j) /\ (wave[i] >= 0) = (wave[j] >= 0)
      runs == {[start |-> p, end |-> q + 1] : p \in DOMAIN wave, q \in DOMAIN wave}
  IN {r \in runs : /\ Length(r) >= kMinimumRun
                   /\ \A i, j \in Samples(r) : Alike(i, j)
                   /\ ~Alike(r.start - 1, r.start) /\ ~Alike(r.end - 1, r.end)}

NewDeclip(wave) == [tool |-> "declip", was |-> wave, wave |-> wave, left |-> FlatTops(wave), fitted |-> FALSE,
                    level |-> <<1, 1>>, report |-> [runs |-> 0, samples |-> 0, tooLong |-> 0, unsolved |-> 0, peak |-> 0]]

NextTop == CHOOSE r \in repair.left : \A q \in repair.left : r.start <= q.start

\* A sample was at least as large as the ceiling it hit.
\* Mutant: whatever side it hit.
PushedOut_Upwards(was, guess) == Max({was, guess})
PushedOut(was, guess) == IF was >= 0 THEN Max({was, guess}) ELSE Min({was, guess})

\* A crest that is flat by nature is put back.
restoreTop ==
  /\ repair.tool = "declip" /\ repair.left # {}
  /\ LET top == NextTop
         Told(report, wave) == repair' = [repair EXCEPT !.left = @ \ {top}, !.report = report, !.wave = wave]
         report == repair.report
     IN IF Length(top) > kMaximumRun THEN Told([report EXCEPT !.tooLong = @ + 1], repair.wave)
        ELSE \/ Told([report EXCEPT !.unsolved = @ + 1], repair.wave)
             \/ /\ \E order \in 1..kOrder : Solvable(top, order)
                /\ \E guess \in [Samples(top) -> Guesses] :
                     LET Restored(i) == IF i \in Samples(top) THEN PushedOut(repair.wave[i], guess[i]) ELSE repair.wave[i]
                         reached == Max({Magnitude(Restored(i)) : i \in Samples(top)})
                     IN IF reached < CeilingOf(repair.was) + kRecovery THEN Told(report, repair.wave)
                        ELSE Told([report EXCEPT !.runs = @ + 1, !.samples = @ + Length(top)], [i \in DOMAIN repair.wave |-> Restored(i)])

\* What was put back is brought down to fit.
fitToCeiling ==
  /\ repair.tool = "declip" /\ repair.left = {} /\ ~repair.fitted
  /\ \E wanted \in BOOLEAN :
       LET peak == Peak(repair.wave)
       IN repair' = [repair EXCEPT !.fitted = TRUE, !.report.peak = peak,
                       !.level = IF wanted /\ repair.report.runs > 0 /\ peak > kFitCeiling THEN <<kFitCeiling, peak>> ELSE @]
-----------------------------------------------------------------------------
RepairsInit == repair = NewDeclick \/ \E wave \in ClippedWaves : repair = NewDeclip(wave)
RepairsNext == mendBlock \/ restoreTop \/ fitToCeiling
-----------------------------------------------------------------------------
\* A repair is near samples that surprise the model in both directions, leaves
\* the ends alone, and leaves alone what it found too long within a block.
MendsOnlyDamage ==
  /\ \A i \in repair.now : \A hot \in {repair.ahead, repair.behind} :
       \E h \in hot : Magnitude(h - i) <= kGuard + kOrder + kMergeDistance
  /\ repair.mended \subseteq 1..(RepairFrames - 2)
  /\ \A r \in Damage(repair.ahead, repair.behind) :
       Length(Guarded(r)) > kMaximumGap => Samples(r) \cap repair.now = {}

\* Whatever surprises in both directions is mended or told of, no repair is
\* longer than was allowed, and what is told of a repair is no less than it was.
MendsAreReported ==
  LET told == repair.report
  IN /\ told.tooLong + told.unsolved = 0 => repair.both \subseteq repair.mended
     /\ told.longest <= kMaximumGap /\ told.samples >= Cardinality(repair.mended)
     /\ (told.clicks = 0) = (repair.mended = {})

\* A restored peak is nowhere lower than it was clipped and on the side it was,
\* all else is as it was, and a top that was touched goes over the ceiling it hit.
PeaksOnlyGrow ==
  LET tops == FlatTops(repair.was)
      Changed(r) == \E i \in Samples(r) : repair.wave[i] # repair.was[i]
  IN /\ \A i \in DOMAIN repair.was :
          /\ Magnitude(repair.wave[i]) >= Magnitude(repair.was[i])
          /\ repair.wave[i] * repair.was[i] >= 0
          /\ repair.wave[i] # repair.was[i] => \E r \in tops : i \in Samples(r)
     /\ \A r \in tops : Changed(r) => \E i \in Samples(r) : Magnitude(repair.wave[i]) >= CeilingOf(repair.was) + kRecovery

\* A file nothing was restored in keeps its level; what was restored fits. A
\* level is <<ceiling, peak>>.
FitsAfterwards ==
  LET level == repair.level
  IN /\ repair.report.runs = 0 => repair.wave = repair.was /\ level = <<1, 1>>
     /\ level # <<1, 1>> => level[1] < level[2] /\ level[2] = Peak(repair.wave)

RepairsHold == IF repair.tool = "declick" THEN MendsOnlyDamage /\ MendsAreReported ELSE PeaksOnlyGrow /\ FitsAfterwards

\* This does not hold: damage over the border of two blocks is judged by halves.
LongDamageIsLeftAlone ==
  repair.tool = "declick" =>
    \A i \in 0..(RepairFrames - kMaximumGap - 1) :
      i..(i + kMaximumGap) \subseteq repair.both => i..(i + kMaximumGap) \cap repair.mended = {}
===============================================================================
