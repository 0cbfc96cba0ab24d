---------------------------- MODULE RateConversion ----------------------------
(* Sample rate conversion (sa-dsp, Resampler) and the conversion of a source    *)
(* through it (sa-engine, StreamingConvert). A sample is its index in the       *)
(* stream: which samples an output is made of, and where between them it sits,  *)
(* is kept; what the filter makes of them is not. Positions are in parts of a   *)
(* sample, kPhaseGrid to each; what a phase held in a double loses is left out. *)
EXTENDS Integers, Sequences, FiniteSets, TLC

CONSTANTS
  kHalfWidth,       \* of the filter, in samples of the lower rate
  RatePairs,        \* [in, out] in lowest terms, to be converted between
  kPhaseGrid,       \* a multiple of every `out`
  SourceLengths,    \* frames a source has, or says that it has
  kConvertFrames,   \* frames a conversion reads at once
  MostFed, MostCalls   \* bounds of a behaviour

VARIABLES
  resampler,   \* [rates, whole, phase, written, fed, history, taps]
  heard,       \* history: the last call and its outputs
  produced,    \* history: outputs of the stream up to now
  steady,      \* history: the stream has had one pair of rates
  job,         \* a conversion, or NoJob
  calls

resamplerVars == <<resampler, heard, produced, steady, job, calls>>

Fewer(a, b) == IF a < b THEN a ELSE b
Greater(a, b) == IF a < b THEN b ELSE a
UpTo(x, y) == (x + y - 1) \div y
Nearest(x, y) == (2 * x + y) \div (2 * y)
roundUpToPowerOfTwo(n) == CHOOSE p \in {2 ^ i : i \in 0..12} : p >= n /\ (p = 1 \/ p \div 2 < n)

\* How far the filter reaches: reach(r) is what it is in parts of r.out.
Stretched(r) == kHalfWidth * Greater(r.in, r.out)
reachFor(r) == Stretched(r) \div r.out + 1
\* Mutant: room for one side of the filter.
historyFor_OneSide(r) == roundUpToPowerOfTwo(reachFor(r) + 1)
historyFor(r) == roundUpToPowerOfTwo(2 * reachFor(r) + 4)
-------------------------------------------------------------------------------
Silent == -1
SilentHistory(capacity) == [i \in 0..(capacity - 1) |-> Silent]

\* Built for `r`, with what `lowest` needs in reserve.
Create(r, lowest) ==
  [rates |-> r, whole |-> 0, phase |-> 0, written |-> 0, fed |-> 0,
   history |-> SilentHistory(historyFor(lowest)), taps |-> reachFor(lowest)]

Capacity(c) == Cardinality(DOMAIN c.history)
Identity(c) == c.rates.in = c.rates.out /\ c.phase = 0
Position(c) == c.whole * kPhaseGrid + c.phase

\* What must be written before the next output.
Needed(c) == IF Identity(c) THEN c.whole + 1 ELSE c.whole + reachFor(c.rates) + 1
canEmit(c) == c.written >= Needed(c)

push(c, count) == [c EXCEPT !.written = @ + count,
                            !.history = [i \in DOMAIN @ |->
                               LET at == {t \in c.written..(c.written + count - 1) : t % Capacity(c) = i}
                               IN IF at = {} THEN @[i] ELSE CHOOSE t \in at : \A u \in at : u <= t]]

\* The samples an output is made of, with what is found in their places.
leftTaps(c) == Fewer((Stretched(c.rates) * kPhaseGrid - c.phase * c.rates.out) \div (c.rates.out * kPhaseGrid) + 1, c.taps)
rightTaps(c) == Fewer((Stretched(c.rates) * kPhaseGrid + c.phase * c.rates.out) \div (c.rates.out * kPhaseGrid), c.taps)
Taps(c) == IF Identity(c) THEN {c.whole} ELSE (c.whole - leftTaps(c) + 1)..(c.whole + rightTaps(c))
emit(c) == [at |-> Position(c), rates |-> c.rates, plain |-> Identity(c),
            taps |-> [t \in Taps(c) |-> c.history[t % Capacity(c)]]]

advance(c) == LET on == Position(c) + (c.rates.in * kPhaseGrid) \div c.rates.out
              IN [c EXCEPT !.whole = on \div kPhaseGrid, !.phase = on % kPhaseGrid]
Emitted(s, c) == [s EXCEPT !.c = advance(c), !.outs = Append(@, emit(c))]

\* As much of `count` samples as `room` for outputs allows; the k-th step makes
\* the k-th output, as long as there is one to make.
process(c, count, room) ==
  LET step[k \in 0..room] ==
        IF k = 0 THEN [c |-> c, used |-> 0, outs |-> <<>>]
        ELSE LET s == step[k - 1]
                 take == Fewer(count - s.used, Greater(Needed(s.c) - s.c.written, 0))
                 pushed == [push(s.c, take) EXCEPT !.fed = @ + take]
                 on == [s EXCEPT !.c = pushed, !.used = @ + take]
             IN IF canEmit(pushed) THEN Emitted(on, pushed) ELSE on
  IN step[room]

\* What is owed once the input has ended, over zeros.
\* Mutant: owed up to the last zero.
flush_Zeros(c, room) ==
  LET step[k \in 0..room] ==
        IF k = 0 THEN [c |-> c, used |-> 0, outs |-> <<>>]
        ELSE LET s == step[k - 1]
                 pushed == push(s.c, Greater(Needed(s.c) - s.c.written, 0))
             IN IF s.c.whole < s.c.fed + 1 THEN Emitted(s, pushed) ELSE s
  IN step[room]
flush(c, room) ==
  LET step[k \in 0..room] ==
        IF k = 0 THEN [c |-> c, used |-> 0, outs |-> <<>>]
        ELSE LET s == step[k - 1]
                 pushed == push(s.c, Greater(Needed(s.c) - s.c.written, 0))
             IN IF s.c.whole < s.c.fed THEN Emitted(s, pushed) ELSE s
  IN step[room]

maximumOutputFor(c, count) == UpTo((count + 1) * c.rates.out, c.rates.in) + 1

\* Two reserves: of history, which has been rounded up, and of taps.
\* Mutant: the one that is rounded up.
fitsHistory_Rounded(c, r) == historyFor(r) <= Capacity(c)
fitsHistory(c, r) == reachFor(r) <= c.taps /\ historyFor(r) <= Capacity(c)

\* To the nearest instant that the new rates have, but no further than the last
\* of this sample.
configureRates(c, r) ==
  [c EXCEPT !.rates = r, !.phase = Fewer(Nearest(@ * r.out, kPhaseGrid), r.out - 1) * (kPhaseGrid \div r.out)]

\* Mutant: what was heard last is heard again in front of the next stream.
reset_Echoes(c) == [c EXCEPT !.whole = 0, !.phase = 0, !.written = 0, !.fed = 0]
reset(c) == [c EXCEPT !.whole = 0, !.phase = 0, !.written = 0, !.fed = 0, !.history = SilentHistory(Capacity(c))]
-------------------------------------------------------------------------------
(* A stream that is fed, drained and retuned by whoever has it.                 *)

NoJob == [state |-> "none", total |-> 0, there |-> 0, read |-> 0, written |-> 0]
Calls == calls < MostCalls /\ calls' = calls + 1
Stream == Calls /\ job.state = "none" /\ UNCHANGED job

After(call, s, offered) ==
  /\ resampler' = s.c /\ produced' = produced + Len(s.outs)
  /\ heard' = [call |-> call, outs |-> s.outs, from |-> produced, offered |-> offered, used |-> s.used, owed |-> canEmit(resampler)]

feed(count, room) == /\ Stream /\ resampler.fed + count <= MostFed
                     /\ After("process", process(resampler, count, room), count) /\ UNCHANGED steady
drain(room) == Stream /\ After("flush", flush(resampler, room), 0) /\ UNCHANGED steady

Quiet == heard' = [heard EXCEPT !.call = "none", !.outs = <<>>, !.offered = 0, !.used = 0]
\* A pair of rates that needs more history than there is changes nothing.
setRates(r) == /\ Stream /\ fitsHistory(resampler, r) /\ resampler' = configureRates(resampler, r)
               /\ steady' = (steady /\ r = resampler.rates) /\ Quiet /\ UNCHANGED produced
\* A ratio keeps the position it finds.
setRatio(r) == /\ Stream /\ fitsHistory(resampler, r) /\ resampler' = [resampler EXCEPT !.rates = r]
               /\ steady' = (steady /\ r = resampler.rates) /\ Quiet /\ UNCHANGED produced
restart == /\ Stream /\ resampler' = reset(resampler) /\ produced' = 0 /\ steady' = TRUE /\ Quiet
-------------------------------------------------------------------------------
(* convertStreaming: a source of `there` frames that says it has `total`.       *)

\* In as many passes as it takes to consume what was read.
Converted(c, count) ==
  LET room == maximumOutputFor(c, kConvertFrames)
      pass[k \in 0..count] ==
        IF k = 0 THEN [c |-> c, used |-> 0, outs |-> <<>>]
        ELSE LET s == pass[k - 1]
                 next == process(s.c, count - s.used, room)
             IN IF s.used = count THEN s
                ELSE [c |-> next.c, used |-> s.used + next.used, outs |-> s.outs \o next.outs]
  IN pass[count]

\* Short reads are followed by others; only a read of nothing ends the source.
convertBlock(sinkTakes) ==
  LET wanted == Fewer(kConvertFrames, job.total - job.read)
      filled == Fewer(wanted, job.there - job.read)
      plain == resampler.rates.in = resampler.rates.out
      s == Converted(resampler, filled)
      count == IF plain THEN filled ELSE Len(s.outs)
  IN /\ job.state = "reading" /\ UNCHANGED <<steady, calls>>
     /\ IF wanted = 0 \/ filled = 0
          THEN /\ job' = [job EXCEPT !.state = IF plain THEN "done" ELSE "draining"]
               /\ UNCHANGED <<resampler, heard, produced>>
          ELSE /\ IF plain THEN UNCHANGED <<resampler, heard, produced>> ELSE After("process", s, filled)
               /\ job' = IF sinkTakes \/ count = 0
                           THEN [job EXCEPT !.read = @ + filled, !.written = @ + count]
                           ELSE [job EXCEPT !.state = "failed"]

convertTail(sinkTakes) ==
  LET s == flush(resampler, maximumOutputFor(resampler, kConvertFrames)) IN
  /\ job.state = "draining" /\ UNCHANGED <<steady, calls>> /\ After("flush", s, 0)
  /\ job' = IF s.outs = <<>> THEN [job EXCEPT !.state = "done"]
            ELSE IF sinkTakes THEN [job EXCEPT !.written = @ + Len(s.outs)] ELSE [job EXCEPT !.state = "failed"]

\* The user cancels, or the source cannot be read any further.
giveUp(state) ==
  /\ job.state = "reading" \/ (job.state = "draining" /\ state = "cancelled")
  /\ job' = [job EXCEPT !.state = state] /\ UNCHANGED <<resampler, heard, produced, steady, calls>>
-------------------------------------------------------------------------------
NothingHeard == [call |-> "none", outs |-> <<>>, from |-> 0, offered |-> 0, used |-> 0, owed |-> FALSE]

ConversionInit ==
  /\ \/ \E r, lowest \in RatePairs : /\ lowest.out * r.in <= r.out * lowest.in
                                     /\ resampler = Create(r, lowest) /\ job = NoJob
     \/ \E r \in RatePairs, total, there \in SourceLengths :
          /\ there <= total /\ resampler = Create(r, r)
          /\ job = [NoJob EXCEPT !.state = "reading", !.total = total, !.there = there]
  /\ heard = NothingHeard /\ produced = 0 /\ steady = TRUE /\ calls = 0

ConversionNext ==
  \/ \E count \in {0, 1, 4}, room \in {1, 4} : feed(count, room)
  \/ \E room \in {1, 4} : drain(room)
  \/ \E r \in RatePairs : setRates(r) \/ setRatio(r)
  \/ restart
  \/ \E state \in {"cancelled", "failed"} : giveUp(state)
  \/ \E sinkTakes \in BOOLEAN : convertBlock(sinkTakes) \/ convertTail(sinkTakes)
ConversionSpec == ConversionInit /\ [][ConversionNext]_resamplerVars
-------------------------------------------------------------------------------
\* Resampler.h: "output sample k carries input time k / ratio, counting from the
\* first sample ever fed", however the stream was cut into calls.
StreamIsAligned ==
  steady => \A i \in DOMAIN heard.outs :
    heard.outs[i].at * heard.outs[i].rates.out = (heard.from + i - 1) * heard.outs[i].rates.in * kPhaseGrid

\* Every output is made of all samples within the filter's reach of it, each of
\* them the one that was fed there, and of silence before the first; also while
\* rates are changed under the stream and old samples are overwritten.
TapsAreHeld ==
  \A i \in DOMAIN heard.outs :
    LET o == heard.outs[i]
        Away(t) == IF t * kPhaseGrid < o.at THEN o.at - t * kPhaseGrid ELSE t * kPhaseGrid - o.at
        reached == IF o.plain THEN {o.at \div kPhaseGrid}
                   ELSE {t \in (o.at \div kPhaseGrid - 50)..(o.at \div kPhaseGrid + 50) :
                           Away(t) * o.rates.out <= Stretched(o.rates) * kPhaseGrid}
    IN /\ DOMAIN o.taps = reached
       /\ \A t \in reached : o.taps[t] = IF t < 0 THEN Silent ELSE t

\* "together with process() it produces exactly ceil(inputCount * ratio) samples".
LengthIsExact ==
  steady /\ heard.call = "flush" /\ heard.outs = <<>> =>
    produced = UpTo(resampler.fed * resampler.rates.out, resampler.rates.in)

\* "An upper bound on the outputs that feeding inputCount more samples can
\* produce", of a stream that has one pair of rates and owes nothing.
RoomIsEnough ==
  steady /\ heard.call = "process" /\ ~heard.owed /\ heard.offered > 0 =>
    Len(heard.outs) <= maximumOutputFor(resampler, heard.offered)

\* A conversion that ends well has read all there was, and its length is what the
\* rates make of that.
ConversionIsWhole ==
  job.state = "done" =>
    /\ job.read = job.there
    /\ job.written = UpTo(job.read * resampler.rates.out, resampler.rates.in)

ConversionKeepsTime == StreamIsAligned /\ TapsAreHeld /\ LengthIsExact /\ RoomIsEnough /\ ConversionIsWhole
===============================================================================
