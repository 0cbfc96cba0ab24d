----------------------------- MODULE Spectrogram ------------------------------
(* A spectrogram (sa-spectral): the levels it is kept in, the tiles that are *)
(* cached, and the buffer its frames are analysed through.                   *)
EXTENDS TileStore
-------------------------------------------------------------------------------
(* The levels: level 0 holds the loudest of every 2^decimation analysed      *)
(* frames, each level above the louder of every two below it. One bin, so a  *)
(* frame is its quantised magnitude; frames are numbered from 0.             *)

\* Above this many frames another level is worth having.
kMinimumTopLevelFrames == 2

\* A function on 0..n-1, the way the arrays of the code are indexed.
Array(n, Op(_)) == [i \in 0..n - 1 |-> Op(i)]
Size(a) == IF DOMAIN a = {} THEN 0 ELSE Max(DOMAIN a) + 1

Loudest(magnitudes, frames) == Max({0} \cup {magnitudes[f] : f \in frames \cap DOMAIN magnitudes})

\* Frames of `group` frames each, the last perhaps of fewer.
Combined(magnitudes, group) ==
  Array((Size(magnitudes) + group - 1) \div group,
        LAMBDA f : Loudest(magnitudes, f * group .. (f + 1) * group - 1))

NextLevel(level) == [hop |-> level.hop * 2, magnitudes |-> Combined(level.magnitudes, 2)]

UpperLevels(base) ==
  LET built[n \in Nat] ==
        IF n = 0 THEN <<base>>
        ELSE LET below == built[n - 1] IN
             IF Size(Last(below).magnitudes) > kMinimumTopLevelFrames
             THEN Append(below, NextLevel(Last(below))) ELSE below
  IN built[Size(base.magnitudes)]

\* From the analysis, in one pass that drops the fine frames ...
buildDecimated(fine, hop, decimation) ==
  IF DOMAIN fine = {} THEN <<>>
  ELSE UpperLevels([hop |-> hop * 2^decimation, magnitudes |-> Combined(fine, 2^decimation)])

\* ... and from a level 0 that was kept.
fromLevelZero(hop, magnitudes) ==
  IF DOMAIN magnitudes = {} THEN <<>> ELSE UpperLevels([hop |-> hop, magnitudes |-> magnitudes])

\* The coarsest level that is not coarser than a column.
levelForSamplesPerColumn(levels, samplesPerColumn) ==
  Max({1} \cup {l \in DOMAIN levels : levels[l].hop <= samplesPerColumn})

ColumnStart(start, end, columns, column) == start + ((end - start) * column) \div columns

\* The frames whose hop begins in [from, to) or is under way there; silence
\* where there are none.
Column(level, from, to) ==
  Loudest(level.magnitudes, Max({0, from \div level.hop})..(to - 1) \div level.hop)

render(levels, start, end, columns) ==
  IF levels = <<>> \/ end <= start THEN Array(columns, LAMBDA c : 0)
  ELSE LET samplesPerColumn == Max({1, (end - start) \div columns})
           level == levels[levelForSamplesPerColumn(levels, samplesPerColumn)]
       IN Array(columns, LAMBDA c : Column(level, ColumnStart(start, end, columns, c),
                                                  ColumnStart(start, end, columns, c + 1)))
-------------------------------------------------------------------------------
(* The tiles of one channel: an overview that is always there, and tiles of  *)
(* full detail for what is looked at, under a budget. A worker fetches       *)
(* detail while the window draws. What TileStore hands back is whole or      *)
(* nothing, so a tile is the same read or analysed.                          *)

CONSTANTS HopSize,
          FineFrames,     \* frames of the whole source
          TileFrames,
          CoarseLevel,
          DetailBudget,   \* in bytes; one per frame
          Magnitudes,     \* the spectra a source may have
          Views           \* ranges of samples that are fetched and drawn

\* What create() insists on.
ASSUME TilesAssumption == /\ HopSize \in Nat \ {0} /\ FineFrames \in Nat
                          /\ CoarseLevel \in 0..24 /\ TileFrames \in Nat \ {0}
                          /\ TileFrames % 2^CoarseLevel = 0 /\ DetailBudget \in Nat
\* A frame is a byte for each bin; nobody looks before the start or at nothing.
ASSUME PicturesAssumption == /\ Magnitudes \subseteq [0..FineFrames - 1 -> 0..255]
                             /\ Views \subseteq {v \in Nat \X Nat : v[1] < v[2]}

VARIABLES fine,       \* what analysing the source gives
          overview,   \* levels, <<>> before they are built
          tiles,      \* the resident tiles
          order,      \* their recency, most recent first
          residentBytes,
          fetch,      \* the worker's ensureDetail, None when it has none
          fetched,    \* the view whose fetch ended well and still holds
          picture     \* what was just drawn, and for which view

tileVars == <<fine, overview, tiles, order, residentBytes, fetch, fetched, picture>>

TilesInit == /\ fine \in Magnitudes /\ overview = <<>>
             /\ tiles = {} /\ order = <<>> /\ residentBytes = 0
             /\ fetch = None /\ fetched = None /\ picture = None

Smaller(a, b) == IF a < b THEN a ELSE b
FramesOf == [t \in Nat |-> Smaller(TileFrames, FineFrames - t * TileFrames)]   \* tileBytes, too
-------------------------------------------------------------------------------
\* Until it is drawn again, what is on the screen does not matter.
Unseen(same) == picture' = None /\ UNCHANGED same

\* Read from the store, analysed and saved, or given up for a cancellation or a
\* source that fails.
buildOverview ==
  /\ overview' \in {buildDecimated(fine, HopSize, CoarseLevel),
                    fromLevelZero(HopSize * 2^CoarseLevel, Combined(fine, 2^CoarseLevel)), <<>>}
  /\ overview = <<>> /\ fetch = None
  /\ Unseen(<<fine, tiles, order, residentBytes, fetch, fetched>>)

\* The tiles a range asks for; a frame more at either end, because the windows
\* that touch the range begin before it.
FirstFrame(view) == Max({0, view[1] \div HopSize - 1})
LastFrame(view) == Smaller(FineFrames - 1, view[2] \div HopSize + 1)
Wanted(view) == IF FineFrames = 0 \/ view[2] <= view[1] \/ LastFrame(view) < FirstFrame(view) THEN {}
                ELSE FirstFrame(view) \div TileFrames .. LastFrame(view) \div TileFrames
WantedBytes(view) == Cardinality(Wanted(view)) * TileFrames

\* Least recently used first, until no more than `limit` is left; a resident
\* set as [tiles, order, bytes].
EvictTo(set, limit) ==
  LET MostRecent(n) == {set.order[i] : i \in 1..n}
      Bytes(n) == set.bytes - SumFunctionOnSet(FramesOf, set.tiles \ MostRecent(n))
      kept == Max({0} \cup {n \in 0..Len(set.order) : Bytes(n) <= limit})
  IN [tiles |-> MostRecent(kept), order |-> SubSeq(set.order, 1, kept), bytes |-> Bytes(kept)]

Resident == [tiles |-> tiles, order |-> order, bytes |-> residentBytes]
Keep(set) == tiles' = set.tiles /\ order' = set.order /\ residentBytes' = set.bytes

\* Room is made before a tile is put in, unless the request fills the budget by
\* itself, and once more after.
Inserted(t, view) ==
  LET reserve == Smaller(WantedBytes(view), DetailBudget)
      room == EvictTo(Resident, IF DetailBudget > reserve THEN DetailBudget - FramesOf[t]
                                                         ELSE DetailBudget)
  IN EvictTo([tiles |-> room.tiles \cup {t}, order |-> <<t>> \o room.order,
              bytes |-> room.bytes + FramesOf[t]], DetailBudget)

ensureDetail(view) ==
  /\ overview # <<>> /\ fetch = None
  /\ fetch' = [view |-> view, next |-> Min(Wanted(view) \cup {FineFrames}), analysed |-> None, kept |-> TRUE]
  /\ fetched' = None
  /\ Unseen(<<fine, overview, tiles, order, residentBytes>>)

\* A tile that is there counts as used.
touch == /\ fetch # None /\ fetch.next \in Wanted(fetch.view) /\ fetch.analysed = None
         /\ fetch.next \in tiles
         /\ order' = <<fetch.next>> \o Without(order, {fetch.next})
         /\ fetch' = [fetch EXCEPT !.next = @ + 1]
         /\ Unseen(<<fine, overview, tiles, residentBytes, fetched>>)

\* One that is not is read or analysed without the lock ...
analyseTile == /\ fetch # None /\ fetch.next \in Wanted(fetch.view) /\ fetch.analysed = None
               /\ fetch.next \notin tiles
               /\ fetch' = [fetch EXCEPT !.analysed = fetch.next]
               /\ Unseen(<<fine, overview, tiles, order, residentBytes, fetched>>)

\* ... and put in under it.
insertTile == /\ fetch # None /\ fetch.analysed # None
              /\ Keep(Inserted(fetch.analysed, fetch.view))
              /\ fetch' = [fetch EXCEPT !.next = @ + 1, !.analysed = None]
              /\ Unseen(<<fine, overview, fetched>>)

detailFetched == /\ fetch # None /\ fetch.next \notin Wanted(fetch.view) /\ fetch.analysed = None
                 /\ fetch' = None /\ fetched' = IF fetch.kept THEN fetch.view ELSE None
                 /\ Unseen(<<fine, overview, tiles, order, residentBytes>>)

\* Cancelled, between tiles or inside one, or the source fails.
detailGivenUp == /\ fetch # None /\ fetch' = None
                 /\ Unseen(<<fine, overview, tiles, order, residentBytes, fetched>>)

clearDetail == /\ tiles # {} /\ Keep([tiles |-> {}, order |-> <<>>, bytes |-> 0])
               /\ fetched' = None /\ fetch' = IF fetch = None THEN None ELSE [fetch EXCEPT !.kept = FALSE]
               /\ Unseen(<<fine, overview>>)
-------------------------------------------------------------------------------
(* render, all of it under the lock. *)

detailWorthwhile(samplesPerColumn) == samplesPerColumn < HopSize * 2^CoarseLevel

ColumnFrames(from, to) ==
  LET first == Max({0, from \div HopSize})
  IN first..Smaller(FineFrames - 1, Max({first, (to - 1) \div HopSize}))

\* Mutant: a column is drawn from the detail there is of it.
Complete_Enough(from, to) == FineFrames > 0 /\ \E f \in ColumnFrames(from, to) : f \div TileFrames \in tiles

Complete(from, to) == FineFrames > 0 /\ \A f \in ColumnFrames(from, to) : f \div TileFrames \in tiles

Sharp(view, columns, c) ==
  /\ detailWorthwhile(Max({1, (view[2] - view[1]) \div columns}))
  /\ Complete(ColumnStart(view[1], view[2], columns, c), ColumnStart(view[1], view[2], columns, c + 1))

Drawn(view, columns) ==
  Array(columns, LAMBDA c :
    LET from == ColumnStart(view[1], view[2], columns, c)
        to == ColumnStart(view[1], view[2], columns, c + 1)
    IN IF Sharp(view, columns, c)
       THEN Loudest(fine, {f \in ColumnFrames(from, to) : f \div TileFrames \in tiles})
       ELSE render(overview, from, to, 1)[0])

draw(view, columns) ==
  /\ overview # <<>> /\ picture = None
  /\ picture' = [view |-> view, columns |-> Drawn(view, columns),
                 sharp |-> {c \in 0..columns - 1 : Sharp(view, columns, c)}]
  /\ UNCHANGED <<fine, overview, tiles, order, residentBytes, fetch, fetched>>

TilesNext == \/ buildOverview \/ touch \/ analyseTile \/ insertTile \/ detailFetched
             \/ detailGivenUp \/ clearDetail
             \/ \E view \in Views : ensureDetail(view) \/ \E columns \in 1..view[2] - view[1] : draw(view, columns)

TilesSpec == TilesInit /\ [][TilesNext]_tileVars
-------------------------------------------------------------------------------
\* The list of recency is the set of tiles, the bytes are theirs and within the
\* budget, whatever was touched, evicted and cleared while a tile was analysed.
DetailAddsUp == /\ tiles = {order[i] : i \in DOMAIN order} /\ Len(order) = Cardinality(tiles)
                /\ residentBytes = SumFunctionOnSet(FramesOf, tiles)
                /\ residentBytes <= DetailBudget

\* A click one frame wide is in the picture at every zoom, sharp or coarse, and
\* in no column drawn sharp where it is not.
EveryClickIsSeen ==
  picture # None =>
    \A c \in DOMAIN picture.columns :
      LET columns == Size(picture.columns)
          from == ColumnStart(picture.view[1], picture.view[2], columns, c)
          to == ColumnStart(picture.view[1], picture.view[2], columns, c + 1)
          within == {f \in 0..FineFrames - 1 : f * HopSize >= from /\ f * HopSize < to}
      IN /\ picture.columns[c] >= Loudest(fine, within)
         /\ c \in picture.sharp => picture.columns[c] = Loudest(fine, ColumnFrames(from, to))

\* When a fetch that the budget can hold has ended, nothing of its view is left
\* to be drawn from the overview, although making room for one of its tiles may
\* have evicted another of them that it had not come to.
FetchedViewIsSharp ==
  fetched # None /\ WantedBytes(fetched) <= DetailBudget =>
    Complete(fetched[1], fetched[2])
-------------------------------------------------------------------------------
(* The window under a frame, read through a buffer that sweeps forward over  *)
(* the source. A sample stands for its position; positions before and after  *)
(* the source are silence.                                                   *)

CONSTANTS SourceLength,
          fftSize, hopSize,
          kReadBlock

ASSUME AnalyserAssumption == /\ SourceLength \in Nat /\ kReadBlock \in Nat \ {0}
                             /\ hopSize \in Nat \ {0} /\ fftSize \in Nat /\ hopSize <= fftSize

VARIABLES bufferStart,
          buffer,      \* the filled part of it, bufferFill long
          want,        \* the frame being analysed; None between two of them
          window       \* what the last one was analysed from

analyserVars == <<bufferStart, buffer, want, window>>

padding == fftSize - hopSize
capacity == kReadBlock + fftSize
frameCount == IF SourceLength = 0 THEN 0 ELSE (padding + SourceLength - 1) \div hopSize + 1

AnalyserInit == /\ bufferStart = 0 /\ buffer = <<>>
                /\ want = None /\ window = None
-------------------------------------------------------------------------------
windowStart(frame) == frame * hopSize - padding
wantFrom(frame) == Max({0, windowStart(frame)})
wantTo(frame) == Min({SourceLength, windowStart(frame) + fftSize})
bufferEnd == bufferStart + Len(buffer)

\* A jump back starts over; the buffer only ever refills forward.
analyse(frame) ==
  /\ want = None /\ want' = frame
  /\ IF wantFrom(frame) < bufferStart THEN bufferStart' = wantFrom(frame) /\ buffer' = <<>>
                                      ELSE UNCHANGED <<bufferStart, buffer>>
  /\ window' = None

\* One turn of the loop: what the window still needs moves to the front, and up
\* to a block is read behind it. A source may give less than it is asked for.
fill ==
  /\ want # None /\ wantTo(want) > bufferEnd /\ bufferEnd < SourceLength
  /\ LET keepFrom == Max({bufferStart, wantFrom(want)})
         keep == Max({0, bufferEnd - keepFrom})
         readCursor == IF keep > 0 THEN keepFrom + keep ELSE wantFrom(want)
         room == Min({capacity - keep, kReadBlock, SourceLength - readCursor})
         kept == SubSeq(buffer, keepFrom - bufferStart + 1, keepFrom - bufferStart + keep)
     IN \E got \in 1..room :
          /\ buffer' = kept \o [i \in 1..got |-> readCursor + i - 1]
          /\ bufferStart' = IF keep > 0 THEN keepFrom ELSE readCursor
  /\ UNCHANGED <<want, window>>

analysed ==
  /\ want # None /\ (wantTo(want) <= bufferEnd \/ bufferEnd >= SourceLength)
  /\ window' = [frame |-> want,
                samples |-> [i \in 0..fftSize - 1 |->
                  LET index == windowStart(want) + i
                  IN IF index \in 0..SourceLength - 1 /\ index \in bufferStart..bufferEnd - 1
                     THEN buffer[index - bufferStart + 1] ELSE None]]
  /\ want' = None
  /\ UNCHANGED <<bufferStart, buffer>>

\* The read fails, and the analysis with it.
analysisFails == /\ want # None /\ want' = None
                 /\ UNCHANGED <<bufferStart, buffer, window>>

AnalyserNext == fill \/ analysed \/ analysisFails \/ \E frame \in 0..frameCount - 1 : analyse(frame)
AnalyserSpec == AnalyserInit /\ [][AnalyserNext]_analyserVars
-------------------------------------------------------------------------------
\* Whatever was analysed before it, forward or back, and however short the reads
\* were, a frame is analysed from the audio under its window and silence around.
WindowIsTheAudio ==
  window # None => \A i \in 0..fftSize - 1 :
    LET index == windowStart(window.frame) + i
    IN window.samples[i] = IF index \in 0..SourceLength - 1 THEN index ELSE None
===============================================================================
