---------------------------- MODULE MCRecordings ----------------------------
(* What stands between a recording and what is made of it, in one model for  *)
(* TLC: the files it is written to and read from, the summary its waveform   *)
(* is drawn from, its spectrogram with the store of analysed tiles that      *)
(* processes share, and the processors. A behaviour belongs to one `layer`,  *)
(* the others stay as they were constructed; `subject` is what the layers    *)
(* without state of their own are asked about.                               *)
EXTENDS TileStore, Spectrogram, FlacWriter, AudioFiles, PeakPyramid

CONSTANTS overviewEntry, tileEntry,
          kHalfWidth, RatePairs, kPhaseGrid, SourceLengths, kConvertFrames, MostFed, MostCalls,
          InputPairs, kMaxLookAhead, kDetectorLatency, HoldTimes, MostSamplesIn, MostChanges,
          Speakers, FullWeight, kSurroundWeight, SubBlockFrames, kSubBlocksPerBlock, kSubBlocksPerShortTerm,
          kShortTermHopSubBlocks, kAbsoluteGate, kRelativeGate, kRangeGate, kHistogramBinCount, Levels,
          ChunkLengths, MostHeard, PointSteps,
          RepairFrames, kOrder, kBlockSize, kMaximumGap, kGuard, kMergeDistance, ClippedWaves, kTolerance,
          kMinimumRun, kMaximumRun, kRecovery, Guesses, kFitCeiling

VARIABLES layer, resampler, heard, produced, steady, job, calls, dynamics, meter, programme, repair, subject

Conversion == INSTANCE RateConversion
Processing == INSTANCE Processors
Metering == INSTANCE LoudnessMeter

containerVars == <<disk, writer>>
flacFileVars == <<encoder, stream>>
readerVars == <<media, reader, at, returned>>
peakVars == <<peakSource, build>>
conversionVars == <<resampler, heard, produced, steady, job, calls>>
-----------------------------------------------------------------------------
(* Values.                                                                 *)

\* A detail tile and an overview, of which only the overview is over half the budget.
Sizes == (tileEntry :> 2) @@ (overviewEntry :> 3)
\* One click, at any frame.
Clicks == {[f \in 0..FineFrames - 1 |-> IF f = click THEN 1 ELSE 0] : click \in 0..FineFrames - 1}
\* Both ends, the middle, the whole and a view past the end.
Ranges == {<<0, 2>>, <<3, 9>>, <<8, 14>>, <<0, 14>>, <<11, 16>>}
ProcessSymmetry == Permutations(Process)

\* Other programs' files: the usual, the markers before and after the audio,
\* the audio before its own description, more than 4 GB.
Orders == {<<"fmt", "data">>, <<"junk", "fmt", "data", "cue", "adtl">>, <<"fmt", "adtl", "cue", "data">>,
           <<"data", "junk", "adtl", "fmt", "cue">>, <<"ds64", "fmt", "cue", "data">>}
Cues == {<<>>, <<2>>, <<2, 1>>}
Labels == {<<>>, <<"a">>, <<"a", "b">>}

\* Lengths told truly, too long (the file was cut), too short, and beyond belief.
Media == {[kind |-> k, holds |-> h, claims |-> c, plausible |-> 9] : k \in {"flac", "mp3"}, h \in {3, 5}, c \in {3, 5, 6, 12}}
\* What an encoder writes that could not go back to its header.
Piped == {[kind |-> "flac", holds |-> 5, claims |-> 0, plausible |-> 9]}

Click(n) == {[k \in 1..n |-> IF k = p THEN v ELSE 0] : p \in 1..n, v \in {2, -2}}
Waves == UNION {{[declared |-> n + more, channels |-> <<a>>] : a \in Click(n), more \in {0, 1, 5}} : n \in {1, 2, 5, 7}}
         \cup UNION {{[declared |-> n, channels |-> <<a, [k \in 1..n |-> k]>>] : a \in Click(n)} : n \in {5, 7, 9}}
\* Two channels, and less of them than the header says.
CutWaves == {[declared |-> 9, channels |-> <<[k \in 1..5 |-> k], [k \in 1..5 |-> -k]>>]}

\* Blocks of three bits: every short one, clicks, ramps and even values.
Block(s) == [k \in 0..(Len(s) - 1) |-> s[k + 1]]
Signals == {Block(s) : s \in [1..3 -> {-4, -1, 0, 3}]}
           \cup {Block([i \in 1..n |-> IF i = p THEN v ELSE w]) : n \in {1, 2, 5, 8}, p \in {1, 4, 8}, v \in {3, -4}, w \in {0, 1}}
           \cup {Block([i \in 1..8 |-> ((i * m) % 4) - 2]) : m \in 1..3}
           \cup {Block([i \in 1..8 |-> i - 5]), Block([i \in 1..8 |-> 2 * (i % 2)])}
Partners(s) == {s, [k \in DOMAIN s |-> Min({3, -s[k]})], [k \in DOMAIN s |-> 0], [k \in DOMAIN s |-> IF k = 0 THEN 3 ELSE s[k]]}
Predictors == {NoFit, [order |-> 1, precision |-> 2, shift |-> 0, coefficients |-> <<1>>],
               [order |-> 2, precision |-> 3, shift |-> 1, coefficients |-> <<3, -2>>]}

\* Either side of every code's limit.
BlockSizes == {1, 16, 192, 255, 256, 257, 258, 4095, 4096, 65535}
FrameRates == {8000, 11025, 44100, 22255, 176400, 352800, 655350, 655361, 255000, 256000}
FrameNumbers == {0, 127, 128, 2047, 2048, 65535, 65536, 2097151, 2097152, 67108863, 67108864}

Amplitudes == {0, 1, 2, 3, 128, 129, 255, 256, 257, 32767, 65535, 65536, 65537, One - 65536, One - 32768,
               One - 32767, One - 129, One - 128, One - 3, One - 2, One - 1, One, One + 5, 2 * One}

MpegHeaders == [version : 0..3, layer : 0..3, rate : {0, 2, 3}, bits : {0, 1, 5, 9, 14, 15}, padding : {0, 1}]
Streams(g) == {<<g, g, g>>, <<g, g, Junk>>, <<g, [g EXCEPT !.rate = 1], g>>, <<g, [g EXCEPT !.padding = 1], g>>,
               <<g, [g EXCEPT !.bits = 4], g>>}
Rates == {[in |-> 1, out |-> 1], [in |-> 2, out |-> 3], [in |-> 3, out |-> 2], [in |-> 2, out |-> 1], [in |-> 3, out |-> 1]}
SpeakerLayout == <<"Left", "Lfe", "LeftSurround">>
\* Silence but for what is not counted, quiet, loud behind, loud.
ProgrammeLevels == {<<0, 3, 0>>, <<1, 0, 0>>, <<0, 9, 1>>, <<16, 0, 0>>}
\* Peaks cut off above and below zero, over runs of any length, and what a model
\* may make of a sample: a dent, nothing new, more, and the wrong side.
CutPeaks == [0..4 -> {-3, 0, 2, 3}]
Answers == {-5, -1, 3, 4}
LevelPairs == {<<4, 0>>, <<2, 4>>, <<0, 2>>}
Windows == {2, 4, 7, 8, 9, 11, 12, 14, 17, 18, 100, 300, 700, 1000, 4096}
-----------------------------------------------------------------------------
(* The subjects, in two steps so that both workers have some.               *)

Idle == [kind |-> "idle"]
beginSubject ==
  /\ subject = Idle
  /\ \/ \E s \in Signals : subject' = [kind |-> "signal", samples |-> s]
     \/ \E n \in BlockSizes, hz \in FrameRates : subject' = [kind |-> "rate", count |-> n, hz |-> hz]
     \/ \E o \in 0..2, large \in {0, 5, 100000} : subject' = [kind |-> "order", order |-> o, large |-> large]
     \/ \E g \in MpegHeaders : subject' = [kind |-> "mpeg", header |-> g]
     \/ \E n \in Amplitudes : subject' = [kind |-> "sample", value |-> n]

Count(channel) == Cardinality(DOMAIN channel)
completeSubject ==
  \/ /\ subject.kind = "signal"
     /\ \E other \in Partners(subject.samples), stereo \in BOOLEAN, lpc \in Fitted(Count(subject.samples), Predictors) :
          subject' = [kind |-> "block", lpc |-> lpc,
                      channels |-> IF stereo THEN <<subject.samples, other>> ELSE <<subject.samples>>]
  \/ /\ subject.kind = "rate"
     /\ \E number \in FrameNumbers : subject' = [kind |-> "header", count |-> subject.count, hz |-> subject.hz, number |-> number]
  \/ /\ subject.kind = "order"
     /\ \E f \in [subject.order..3 -> {0, 1, -2, subject.large, -subject.large}] :
          subject' = [kind |-> "residual", order |-> subject.order, values |-> f]
  \/ /\ subject.kind = "mpeg"
     /\ \/ \E frames \in Streams(subject.header), tag \in {0, 20} :
             subject' = [kind |-> "file", file |-> [lead |-> "mpeg", tag |-> tag, frames |-> frames]]
        \/ \E lead \in {"riff", "rf64", "aiff", "aifc", "flac", "marked", "none"} :
             subject' = [kind |-> "file", file |-> [lead |-> lead, tag |-> 0, frames |-> <<>>]]
        \/ \E lead \in {"flac", "marked", "none"}, tag \in {10, 5000} :
             subject' = [kind |-> "file", file |-> [lead |-> lead, tag |-> tag, frames |-> <<>>]]
-----------------------------------------------------------------------------
Layers == {"store", "tiles", "analyser", "containers", "flac", "reader", "waveform", "conversion", "dynamics", "meter", "repairs", "subject"}

\* Where a behaviour is about something else.
Untouched == LET r == CHOOSE r \in RatePairs : r.in = r.out
             IN <<Conversion!Create(r, r), Conversion!NothingHeard, 0, TRUE, Conversion!NoJob, 0>>
Plain == [kind |-> "curve", ratio |-> 1, knee |-> 0]

RecordingsInit ==
  /\ layer \in Layers
  /\ StoreInit /\ (layer # "store" => \A n \in Name : files[n] = None)
  /\ TilesInit /\ (layer # "tiles" => fine = [f \in 0..FineFrames - 1 |-> IF f = 0 THEN 1 ELSE 0])
  /\ AnalyserInit /\ ContainersInit /\ FlacFileInit /\ subject = Idle
  /\ DecoderInit /\ (layer # "reader" => media = CHOOSE f \in MediaFiles : TRUE)
  /\ PeakInit /\ (layer # "waveform" => peakSource = CHOOSE s \in PeakSources : TRUE)
  /\ Conversion!ConversionInit /\ (layer # "conversion" => conversionVars = Untouched)
  /\ Processing!DynamicsInit /\ (layer # "dynamics" => dynamics = Plain)
  /\ Metering!MeterInit
  /\ IF layer = "repairs" THEN Processing!RepairsInit ELSE repair = Processing!NewDeclick

cacheVars == <<storeVars, tileVars, analyserVars>>
meterVars == <<meter, programme>>
soundVars == <<conversionVars, dynamics, meterVars, repair>>
fileVars == <<containerVars, flacFileVars, readerVars, peakVars, soundVars>>

CacheNext ==
  \/ layer = "store" /\ StoreNext /\ UNCHANGED <<tileVars, analyserVars>>
  \/ layer = "tiles" /\ TilesNext /\ UNCHANGED <<storeVars, analyserVars>>
  \/ layer = "analyser" /\ AnalyserNext /\ UNCHANGED <<storeVars, tileVars>>

FilesNext ==
  \/ layer = "containers" /\ ContainersNext /\ UNCHANGED <<flacFileVars, readerVars, peakVars, soundVars, subject>>
  \/ layer = "flac" /\ FlacFileNext /\ UNCHANGED <<containerVars, readerVars, peakVars, soundVars, subject>>
  \/ layer = "reader" /\ DecoderNext /\ UNCHANGED <<containerVars, flacFileVars, peakVars, soundVars, subject>>
  \/ layer = "waveform" /\ PeakNext /\ UNCHANGED <<containerVars, flacFileVars, readerVars, soundVars, subject>>
  \/ layer = "conversion" /\ Conversion!ConversionNext /\ UNCHANGED <<containerVars, flacFileVars, readerVars, peakVars, dynamics, meterVars, repair, subject>>
  \/ layer = "dynamics" /\ Processing!DynamicsNext /\ UNCHANGED <<containerVars, flacFileVars, readerVars, peakVars, conversionVars, meterVars, repair, subject>>
  \/ layer = "meter" /\ Metering!MeterNext /\ UNCHANGED <<containerVars, flacFileVars, readerVars, peakVars, conversionVars, dynamics, repair, subject>>
  \/ layer = "repairs" /\ Processing!RepairsNext /\ UNCHANGED <<containerVars, flacFileVars, readerVars, peakVars, conversionVars, dynamics, meterVars, subject>>
  \/ layer = "subject" /\ (beginSubject \/ completeSubject) /\ UNCHANGED fileVars

RecordingsNext == /\ UNCHANGED layer
                  /\ \/ CacheNext /\ UNCHANGED <<fileVars, subject>>
                     \/ FilesNext /\ UNCHANGED cacheVars

RecordingsSpec == RecordingsInit /\ [][RecordingsNext]_<<layer, cacheVars, fileVars, subject>>
-----------------------------------------------------------------------------
\* What is written can be read, all of it and nothing else, in every container.
FilesSayWhatTheyHold == WritersAndReadersAgree /\ FlacHoldsWhatItWasGiven

\* No block, no residual, no header and no sample is changed by being coded.
CodingLosesNothing ==
  /\ subject.kind = "block" => BlockIsLossless(subject.channels, Count(subject.channels[1]), 3, subject.lpc)
  /\ subject.kind = "residual" => ResidualIsLossless(subject.values, 4, subject.order)
  /\ subject.kind = "header" => HeaderIsRead(subject.count, subject.hz, subject.number)
  /\ subject.kind = "sample" => SampleSurvives(subject.value) /\ SampleSurvives(-subject.value)

\* A file is given to the reader for what it is, and a reader gives the frames
\* it is asked for.
ReadersTellTheTruth ==
  /\ ReadsStartWhereAsked
  /\ subject.kind = "file" => \A n \in Windows : RecognisedForWhatItIs(subject.file, n)

\* Neither the directory nor the detail in memory outgrows its budget, and each
\* knows what it holds.
BudgetsHold == KeepsItsBudget /\ DetailAddsUp

\* What is drawn is what was recorded: frames are analysed from the audio under
\* them, no click is lost at any zoom, what was fetched is drawn sharp, and so
\* are the waveform's bins.
PicturesShowTheRecording == /\ WindowIsTheAudio /\ EveryClickIsSeen /\ FetchedViewIsSharp
                            /\ PyramidIsTheAudio /\ NoPeakIsHidden

\* A converted stream is the stream, at another rate: aligned, whole, and as long
\* as the rates make it.
ConversionKeepsTime == Conversion!ConversionKeepsTime

\* The limiter, the gate, the curves and the offline passes do what they say, the
\* loudness meter reads what it was fed, and repairs stay within the damage.
ProcessorsKeepTheirWord == /\ Processing!ProcessorsKeepTheirWord
                           /\ layer = "meter" => Metering!MetersTellTheTruth
                           /\ layer = "repairs" => Processing!RepairsHold

\* A file that is recognised opens. (Not one behind a tag: README, "Seen while
\* modelling"; it is read there with which Media and Waves, Piped and CutWaves in
\* their place, the other two readings of this model fail.)
WhatIsRecognisedOpens == subject.kind = "file" => RecognisedFilesOpen(subject.file)

\* AudioFile.h, of input shorter than the usual window. (It is, behind a tag and by
\* the mark alone: README, "Seen while modelling".)
ShortInputIsNotMisidentified ==
  subject.kind = "file" => \A n \in Windows : NeverMisidentified(subject.file, n)
=============================================================================
