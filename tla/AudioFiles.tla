------------------------------ MODULE AudioFiles ------------------------------
(* Recordings as files (sa-io): WAV and AIFF files, the samples in them and   *)
(* the chunks around them; which reader a file is given to; and the readers   *)
(* that stand on a decoder of their own.                                      *)
EXTENDS Integers, Sequences, SequencesExt, FiniteSetsExt, TLC
-------------------------------------------------------------------------------
(* One sample on its way into a file and out of it: encodeSample of the WAV  *)
(* and AIFF writers, quantise of the FLAC writer, and decodeSample of the    *)
(* readers. A float sample is an integer in units of half the smallest step  *)
(* of 24 bits, full scale being One; every value the integer formats hold is *)
(* such a number. Bytes are written as 0..255.                               *)

One == 2^24
IntegerFormats == {8, 16, 24}

Clamped(n, low, high) == Max({low, Min({n, high})})

\* std::lround of a sample scaled to `bits`: half steps go away from zero.
Rounded(sample, bits) ==
  LET step == 2^(25 - bits)
      Magnitude(n) == (2 * n + step) \div (2 * step)
  IN IF sample < 0 THEN -Magnitude(-sample) ELSE Magnitude(sample)

\* Mutant: scaled as it is and cut to the format's width afterwards.
Scaled_Wraps(sample, bits) ==
  LET n == Rounded(sample, bits) IN ((n + 2^(bits - 1)) % 2^bits) - 2^(bits - 1)

\* Clamped to full scale, scaled, and the one step above the largest integer
\* taken down to it.
Scaled(sample, bits) ==
  Clamped(Rounded(Clamped(sample, -One, One), bits), -(2^(bits - 1)), 2^(bits - 1) - 1)

LittleEndian(value, bits) == [i \in 1..(bits \div 8) |-> (value \div 2^(8 * (i - 1))) % 256]
FromLittleEndian(bytes) == FoldRight(LAMBDA byte, value : value * 256 + byte, bytes, 0)
SignExtended(raw, bits) == IF raw >= 2^(bits - 1) THEN raw - 2^bits ELSE raw

\* WavWriter: little-endian, 8 bits unsigned about 128.
encodeWav(sample, bits) ==
  IF bits = 8 THEN <<Clamped(Rounded(Clamped(sample, -One, One), 8) + 128, 0, 255)>>
  ELSE LittleEndian(Scaled(sample, bits), bits)
decodeWav(bytes, bits) ==
  2^(25 - bits) * (IF bits = 8 THEN bytes[1] - 128 ELSE SignExtended(FromLittleEndian(bytes), bits))

\* AiffWriter: the same integers, the other way round.
encodeAiff(sample, bits) == Reverse(LittleEndian(Scaled(sample, bits), bits))
decodeAiff(bytes, bits) == 2^(25 - bits) * SignExtended(FromLittleEndian(Reverse(bytes)), bits)

\* FlacWriter: the integers themselves, which the frames then carry.
quantise(sample, bits) == Scaled(sample, bits)
dequantise(value, bits) == 2^(25 - bits) * value

Written(container, sample, bits) ==
  CASE container = "WAV" -> decodeWav(encodeWav(sample, bits), bits)
    [] container = "AIFF" -> decodeAiff(encodeAiff(sample, bits), bits)
    [] container = "FLAC" -> dequantise(quantise(sample, bits), bits)
-------------------------------------------------------------------------------
(* Properties.                                                             *)

\* WavWriter.cpp: "encode and decode are exact inverses up to half a least-
\* significant bit"; AiffWriter.cpp and FlacWriter.cpp: a buffer written as one
\* or the other holds the same integers.  What came out of a file goes through
\* every container as wide or wider unchanged, and a sample beyond full scale
\* keeps its sign.
SampleSurvives(sample) ==
  LET Off(a, b) == IF a < b THEN b - a ELSE a - b
      Containers(bits) == IF bits = 8 THEN {"WAV"} ELSE {"WAV", "AIFF", "FLAC"}
  IN \A bits \in IntegerFormats : \A c \in Containers(bits) :
       LET once == Written(c, sample, bits)
       IN /\ 2 * Off(once, Clamped(sample, -One, One - 2^(25 - bits))) <= 2^(25 - bits)
          /\ sample > One => once > 0
          /\ sample < -One => once < 0
          /\ \A wider \in {w \in IntegerFormats : w >= bits} : \A d \in Containers(wider) :
               Written(d, once, wider) = once
-------------------------------------------------------------------------------
(* The writers that stream frames behind a header whose sizes are patched at *)
(* the end (WavWriter.cpp, AiffWriter.cpp), and the readers that walk the    *)
(* chunks of a file (WavReader.cpp, AiffReader.cpp). A file is its chunks,   *)
(* each at an offset with the size its header declares, and the bytes there  *)
(* are; the samples are not looked at.                                       *)

CONSTANTS SizeLimits,      \* limits tried for the code's 2^32 - 1
          BytesPerFrame,   \* the frame sizes tried
          Titles,          \* title lengths tried; 0 is none
          ChunkOrders,     \* the chunks of other programs' WAV files, in their orders
          CueSets, LabelSets, \* their marker positions and labels
          MostFrames       \* bound: frames written to a file

VARIABLES disk,    \* the file, None before it is created
          writer   \* the writer's state, with what its last call answered

NoFile == [kind |-> "none"]
Closed == [kind |-> "none", status |-> "closed"]
Padded(n) == n + (n % 2)
Least(a, b) == IF a < b THEN a ELSE b

Chunk(id, at, declared, body) == [id |-> id, at |-> at, declared |-> declared, body |-> body]

\* The chunks one after the other, each with its pad byte where it needs one.
Layout(parts) ==
  FoldLeft(LAMBDA f, p : [chunks |-> Append(f.chunks, Chunk(p.id, f.size, p.declared, p.body)),
                          size |-> f.size + 8 + Padded(p.size)],
           [chunks |-> <<>>, size |-> 12], parts)
Part(id, size, body) == [id |-> id, size |-> size, declared |-> size, body |-> body]
-------------------------------------------------------------------------------
(* The writers.                                                            *)

\* The chunks before the audio; the last one's size is patched by finish().
HeaderParts(kind, b, title) ==
  IF kind = "WAV"
  THEN <<Part("fmt", 16, b)>> \o (IF title > 0 THEN <<Part("bext", 602, title)>> ELSE <<>>)
       \o <<Part("data", 0, 0)>>
  ELSE <<Part("COMM", 18, [frames |-> 0, b |-> b])>>
       \o (IF title > 0 THEN <<Part("NAME", title, title)>> ELSE <<>>)
       \o <<[Part("SSND", 8, 0) EXCEPT !.declared = 0]>>

create(kind, b, title, limit) ==
  /\ disk = NoFile
  /\ LET file == Layout(HeaderParts(kind, b, title))
     IN \/ /\ disk' = [kind |-> kind, outer |-> 0, chunks |-> file.chunks, size |-> file.size]
           /\ writer' = [kind |-> kind, b |-> b, title |-> title, written |-> 0, header |-> file.size, limit |-> limit,
                         finished |-> FALSE, status |-> "ok"]
        \/ \E n \in {0, 12} : /\ disk' = [kind |-> kind, outer |-> 0, chunks |-> <<>>, size |-> n]
                              /\ writer' = [Closed EXCEPT !.status = "failed"]

\* All of the frames, or some of their bytes and an error.
write(n) ==
  /\ writer.kind # "none" /\ ~writer.finished /\ writer.status = "ok" /\ writer.written + n <= MostFrames
  /\ \/ /\ disk' = [disk EXCEPT !.size = @ + n * writer.b]
        /\ writer' = [writer EXCEPT !.written = @ + n]
     \/ \E some \in 0..(n * writer.b - 1) : /\ disk' = [disk EXCEPT !.size = @ + some]
                                            /\ writer' = [writer EXCEPT !.status = "failed"]

DataBytes == writer.written * writer.b
NeedsPad == writer.kind = "AIFF" /\ DataBytes % 2 = 1
Overall == writer.header + DataBytes + (IF NeedsPad THEN 1 ELSE 0)
TooLong == IF writer.kind = "WAV" THEN Overall > writer.limit ELSE Overall - 8 > writer.limit

\* Mutant: the frame count in COMM is left at what it was created with.
Patched_SizeOnly(chunks) ==
  [k \in DOMAIN chunks |->
     IF k = Len(chunks) THEN [chunks[k] EXCEPT !.declared = DataBytes + (IF writer.kind = "AIFF" THEN 8 ELSE 0)]
     ELSE chunks[k]]

\* The fields written over: the sound's size, and AIFF's count of frames.
Patched(chunks) ==
  [k \in DOMAIN chunks |->
     IF k = Len(chunks) THEN [chunks[k] EXCEPT !.declared = DataBytes + (IF writer.kind = "AIFF" THEN 8 ELSE 0)]
     ELSE IF chunks[k].id = "COMM" THEN [chunks[k] EXCEPT !.body.frames = writer.written]
     ELSE chunks[k]]

\* finish(): AIFF's pad goes out before the limit is looked at, and nothing is
\* patched in a file beyond it.
finish ==
  /\ writer.kind # "none" /\ ~writer.finished /\ writer.status = "ok"
  /\ LET size == disk.size + (IF NeedsPad THEN 1 ELSE 0)
     IN \/ /\ ~TooLong
           /\ disk' = [disk EXCEPT !.size = size, !.outer = Overall - 8, !.chunks = Patched(@)]
           /\ writer' = [writer EXCEPT !.finished = TRUE, !.status = "finished"]
        \/ /\ TooLong
           /\ disk' = [disk EXCEPT !.size = size]
           /\ writer' = [writer EXCEPT !.finished = TRUE, !.status = "too long"]

\* The disk fills up, or the process ends, with any part of what was written
\* behind the header lost.
cutShort ==
  /\ writer.status \notin {"closed", "failed", "cut"}
  /\ \E size \in 12..(disk.size - 1) : disk' = [disk EXCEPT !.size = size]
  /\ writer' = [writer EXCEPT !.status = "cut", !.finished = TRUE]

\* A WAV from elsewhere: its chunks in any order, padded, with an odd chunk
\* nobody reads, and the audio's size told in ds64 where the order says so (the
\* data is then the last chunk, and declares all there can be).
ForeignPart(id, b, bytes, cues, labels, rf64) ==
  CASE id = "fmt" -> Part(id, 16, b)
    [] id = "junk" -> Part(id, 5, 0)
    [] id = "ds64" -> Part(id, 28, bytes)
    [] id = "cue" -> Part(id, 4 + 24 * Len(cues), cues)
    [] id = "adtl" -> Part(id, 4 + 14 * Len(labels), labels)
    [] id = "data" -> [Part(id, bytes, 0) EXCEPT !.declared = IF rf64 THEN Max(SizeLimits) ELSE bytes]

foreign(order, b, frames, cues, labels) ==
  /\ disk = NoFile
  /\ LET rf64 == "ds64" \in Range(order)
         file == Layout([k \in DOMAIN order |-> ForeignPart(order[k], b, frames * b, cues, labels, rf64)])
     IN /\ disk' = [kind |-> "WAV", outer |-> file.size - 8, chunks |-> file.chunks, size |-> file.size]
        /\ writer' = [Closed EXCEPT !.status = "foreign"]
                     @@ [b |-> b, written |-> frames, finished |-> TRUE, title |-> 0,
                         cues |-> IF "cue" \in Range(order) THEN cues ELSE <<>>,
                         labels |-> IF "adtl" \in Range(order) THEN labels ELSE <<>>]

ContainersInit == disk = NoFile /\ writer = Closed
ContainersNext ==
  \/ \E kind \in {"WAV", "AIFF"}, b \in BytesPerFrame, title \in Titles, limit \in SizeLimits :
       create(kind, b, title, limit)
  \/ \E order \in ChunkOrders, b \in BytesPerFrame \ {1}, frames \in 0..3, cues \in CueSets, labels \in LabelSets :
       foreign(order, b, frames, cues, labels)
  \/ \E n \in 1..MostFrames : write(n)
  \/ finish \/ cutShort
-------------------------------------------------------------------------------
(* The readers: parse() of either.                                         *)

At(file, offset) == SelectSeq(file.chunks, LAMBDA c : c.at = offset)

\* What the walk over the chunks has seen; anything may stand where no chunk
\* begins, and what does is of no kind the readers know.
Nothing == [b |-> 0, dataAt |-> -1, bytes |-> 0, declared |-> 0, rf64 |-> -1, title |-> 0,
            cues |-> <<>>, labels |-> <<>>]

WavChunk(s, c, bodyAt, bodySize) ==
  CASE c.id = "fmt" /\ bodySize >= 16 -> [s EXCEPT !.b = c.body]
    [] c.id = "data" -> [s EXCEPT !.dataAt = bodyAt, !.bytes = bodySize]
    [] c.id = "ds64" /\ bodySize >= 16 -> [s EXCEPT !.rf64 = c.body]
    [] c.id = "bext" /\ bodySize >= 346 -> [s EXCEPT !.title = c.body]
    [] c.id = "cue" /\ bodySize >= 4 -> [s EXCEPT !.cues = @ \o SubSeq(c.body, 1, (bodySize - 4) \div 24)]
    [] c.id = "adtl" /\ bodySize >= 4 -> [s EXCEPT !.labels = @ \o SubSeq(c.body, 1, (bodySize - 4) \div 14)]
    [] OTHER -> s

AiffChunk(s, c, bodyAt, bodySize, size) ==
  CASE c.id = "COMM" /\ bodySize >= 18 -> [s EXCEPT !.b = c.body.b, !.declared = c.body.frames]
    [] c.id = "SSND" /\ bodySize >= 8 /\ bodyAt + 8 + c.body <= size -> [s EXCEPT !.dataAt = bodyAt + 8 + c.body]
    [] c.id = "NAME" /\ bodySize > 0 -> [s EXCEPT !.title = Least(c.body, bodySize)]
    [] OTHER -> s

\* Mutant: the pad byte behind a chunk of odd size is not stepped over.
NextChunk_NoPad(bodyAt, bodySize) == bodyAt + bodySize

NextChunk(bodyAt, bodySize) == bodyAt + Padded(bodySize)

Walked(file) ==
  LET Next(step, k) ==
        IF step.offset + 8 > file.size \/ At(file, step.offset) = <<>> THEN step
        ELSE LET c == Head(At(file, step.offset))
                 bodyAt == step.offset + 8
                 bodySize == Least(c.declared, file.size - bodyAt)
             IN [offset |-> NextChunk(bodyAt, bodySize),
                 seen |-> IF file.kind = "AIFF" THEN AiffChunk(step.seen, c, bodyAt, bodySize, file.size)
                          ELSE WavChunk(step.seen, c, bodyAt, bodySize)]
  IN FoldLeft(Next, [offset |-> 12, seen |-> Nothing], file.chunks).seen

\* A label takes the position of the cue in its place; cues beyond the labels
\* stay, labels beyond the cues are at the start.
Markers(s) ==
  [i \in 1..Max({Len(s.cues), Len(s.labels)}) |->
     [position |-> IF i <= Len(s.cues) THEN s.cues[i] ELSE 0,
      label |-> IF i <= Len(s.labels) THEN s.labels[i] ELSE ""]]

Refused == [ok |-> FALSE]
parse(file) ==
  LET s == Walked(file)
      bytes == IF s.rf64 > s.bytes THEN Least(s.rf64, file.size - s.dataAt) ELSE s.bytes
      present == (file.size - s.dataAt) \div s.b
  IN IF file.size < 12 \/ s.b = 0 \/ s.dataAt < 0 THEN Refused
     ELSE [ok |-> TRUE, dataAt |-> s.dataAt, b |-> s.b, title |-> s.title, markers |-> Markers(s),
           frames |-> IF file.kind = "AIFF" THEN Least(s.declared, present) ELSE bytes \div s.b]

\* read(): the frames from `start`, as many as fit the destination, the count
\* and what the source still holds.
framesRead(info, start, capacity, sizeNow) ==
  IF start >= info.frames THEN 0
  ELSE Min({capacity, info.frames - start,
            Max({0, sizeNow - (info.dataAt + start * info.b)}) \div info.b})
-------------------------------------------------------------------------------
(* Properties.                                                             *)

\* A file whose writer finished opens with every frame, its layout and its
\* title; one that was never finished, or is beyond what its sizes can say,
\* opens empty or not at all; another program's opens with all its frames and
\* markers in whatever order its chunks are; and no reader counts a frame the
\* file does not hold, wherever it was cut.
WritersAndReadersAgree ==
  disk # NoFile =>
    LET info == parse(disk)
    IN /\ info.ok => info.dataAt + info.frames * info.b <= disk.size
       /\ writer.status = "finished" =>
            info.ok /\ info.frames = writer.written /\ info.b = writer.b /\ info.title = writer.title
       /\ writer.status \in {"ok", "failed", "too long"} /\ info.ok => info.frames = 0
       /\ writer.status = "cut" /\ info.ok => info.frames <= writer.written
       /\ writer.status = "foreign" =>
            /\ info.ok /\ info.frames = writer.written /\ info.b = writer.b
            /\ SubSeq([i \in DOMAIN info.markers |-> info.markers[i].position], 1, Len(writer.cues)) = writer.cues
            /\ SubSeq([i \in DOMAIN info.markers |-> info.markers[i].label], 1, Len(writer.labels)) = writer.labels
       /\ info.ok => \A start \in 0..MostFrames :
            framesRead(info, start, 2, disk.size) = Min({2, Max({0, info.frames - start})})
-------------------------------------------------------------------------------
(* Which reader a file is given to (AudioFile.cpp): its first bytes are      *)
(* looked at, as many as fit a window, and never its name. A file is what    *)
(* its bytes spell: a magic and a form, a FLAC stream, an ID3v2 tag in front *)
(* of something, MPEG frames one after another.                              *)

\* [lead, tag, frames]: lead is what stands behind the tag, "mpeg" meaning the
\* frames, "flac" the fLaC mark and a STREAMINFO of its 34 bytes, "marked" the mark
\* and another block; tag is the tag's length, 0 for none, which without a lead ends the
\* file.  An MPEG frame is [version, layer, rate, bits, padding], the fields of
\* its header, or Junk.
Junk == [version |-> 1, layer |-> 0, rate |-> 0, bits |-> 0, padding |-> 0]

SampleRates == [v \in 0..3 |-> CASE v = 0 -> <<11025, 12000, 8000, 0>> [] v = 1 -> <<0, 0, 0, 0>>
                                 [] v = 2 -> <<22050, 24000, 16000, 0>> [] v = 3 -> <<44100, 48000, 32000, 0>>]
BitRates ==
  <<<<0, 32, 64, 96, 128, 160, 192, 224, 256, 288, 320, 352, 384, 416, 448, 0>>,
    <<0, 32, 48, 56, 64, 80, 96, 112, 128, 160, 192, 224, 256, 320, 384, 0>>,
    <<0, 32, 40, 48, 56, 64, 80, 96, 112, 128, 160, 192, 224, 256, 320, 0>>,
    <<0, 32, 48, 56, 64, 80, 96, 112, 128, 144, 160, 176, 192, 224, 256, 0>>,
    <<0, 8, 16, 24, 32, 40, 48, 56, 64, 80, 96, 112, 128, 144, 160, 0>>>>
mpegBitRateRow(version, layer) ==
  IF version = 3 THEN (CASE layer = 3 -> 1 [] layer = 2 -> 2 [] OTHER -> 3) ELSE IF layer = 3 THEN 4 ELSE 5

SampleRate(f) == SampleRates[f.version][f.rate + 1]
BitRate(f) == 1000 * BitRates[mpegBitRateRow(f.version, f.layer)][f.bits + 1]

\* Mutant: MPEG 2's layer III is as long as MPEG 1's.
Length_OneSize(f) == IF f.layer = 3 THEN ((12 * BitRate(f)) \div SampleRate(f) + f.padding) * 4
                     ELSE (144 * BitRate(f)) \div SampleRate(f) + f.padding

\* Layer I counts slots of four bytes; layer III of MPEG 2 and 2.5 halves its frames.
Length(f) ==
  IF f.layer = 3 THEN ((12 * BitRate(f)) \div SampleRate(f) + f.padding) * 4
  ELSE ((IF f.layer = 1 /\ f.version # 3 THEN 72 ELSE 144) * BitRate(f)) \div SampleRate(f) + f.padding

\* parseMpegFrame: nothing reserved in it, and room for its own header.
IsFrame(f) == f.version # 1 /\ f.layer # 0 /\ SampleRate(f) # 0 /\ BitRate(f) # 0 /\ Length(f) >= 4

\* Where the frames of a stream really begin: the length of a frame is the time
\* it lasts at its bit rate.
SamplesIn(f) == IF f.layer = 3 THEN 384 ELSE IF f.layer = 1 /\ f.version # 3 THEN 576 ELSE 1152
SpaceOf(f) == IF ~IsFrame(f) THEN 100
              ELSE IF f.layer = 3 THEN 4 * ((SamplesIn(f) * (BitRate(f) \div 32)) \div SampleRate(f) + f.padding)
              ELSE (SamplesIn(f) * (BitRate(f) \div 8)) \div SampleRate(f) + f.padding
Starts(frames) == LET space == [k \in DOMAIN frames |-> SpaceOf(frames[k])]
                  IN [k \in DOMAIN frames |-> SumFunctionOnSet(space, 1..(k - 1))]
FrameAt(frames, offset) == IF \E k \in DOMAIN frames : Starts(frames)[k] = offset
                           THEN frames[CHOOSE k \in DOMAIN frames : Starts(frames)[k] = offset] ELSE Junk

\* hasMpegFrameChain: three frames of one kind, each where the one before it
\* says, or as many as the window reaches.
Alike(f, g) == IsFrame(g) /\ f.version = g.version /\ f.layer = g.layer /\ f.rate = g.rate
hasMpegFrameChain(frames, window) ==
  LET first == FrameAt(frames, 0)
      second == FrameAt(frames, Length(first))
      third == FrameAt(frames, Length(first) + Length(second))
  IN /\ window >= 4 /\ IsFrame(first)
     /\ \/ Length(first) + 4 > window
        \/ /\ Alike(first, second)
           /\ Length(first) + Length(second) + 4 > window \/ Alike(first, third)

\* Mutant: four letters make a FLAC.
isFlacStream_MarkAlone(file, offset, window) ==
  file.lead \in {"flac", "marked"} /\ file.tag = offset /\ window >= offset + 4

\* The mark, and the header of the first block where the window reaches it.
isFlacStream(file, offset, window) ==
  /\ file.lead \in {"flac", "marked"} /\ file.tag = offset /\ window >= offset + 4
  /\ window >= offset + 8 => file.lead = "flac"

\* detectFormat, over the first `window` bytes of the file.
detectFormat(file, window) ==
  CASE file.tag = 0 /\ file.lead \in {"riff", "rf64"} /\ window >= 12 -> "WAVE"
    [] file.tag = 0 /\ file.lead \in {"aiff", "aifc"} /\ window >= 12 -> "AIFF"
    [] isFlacStream(file, 0, window) -> "FLAC"
    [] file.tag > 0 /\ window >= 10 -> IF isFlacStream(file, Min({file.tag, window}), window) THEN "FLAC" ELSE "MP3"
    [] file.tag = 0 /\ file.lead = "mpeg" /\ hasMpegFrameChain(file.frames, window) -> "MP3"
    [] OTHER -> "unknown"

\* What the reader that openAudioFile picks makes of the file: each looks for
\* its magic at the very start, but for dr_mp3, which looks for a frame behind
\* any tag.
Opens(file, format) ==
  CASE format = "WAVE" -> file.tag = 0 /\ file.lead \in {"riff", "rf64"}
    [] format = "AIFF" -> file.tag = 0 /\ file.lead \in {"aiff", "aifc"}
    [] format = "FLAC" -> file.tag = 0 /\ file.lead = "flac"
    [] format = "MP3" -> file.lead = "mpeg" /\ \E k \in DOMAIN file.frames : IsFrame(file.frames[k])
    [] OTHER -> FALSE

OneStream(frames) == \A k \in DOMAIN frames : Alike(frames[1], frames[k])
-------------------------------------------------------------------------------
(* Properties.                                                             *)

\* What a window shows is what the file is taken for, and "more of the file simply
\* means fewer ways to be fooled" (AudioFile.h).  However little of a stream of
\* MPEG frames is in the window it is an MP3; bytes that only begin like a frame
\* are not once the window shows what follows; a FLAC is one wherever the window
\* reaches its mark, behind a tag too, and nothing else is once the window reaches
\* its first block; what a short window calls a WAVE or an AIFF the usual one does
\* too; and what that one cannot tell, a short one takes for something only where
\* it shows no more than a frame's header or a mark.
RecognisedForWhatItIs(file, window) ==
  /\ file.lead = "mpeg" /\ file.tag = 0 /\ OneStream(file.frames) /\ window >= 4 => detectFormat(file, window) = "MP3"
  /\ file.lead = "mpeg" /\ file.tag = 0 /\ Len(file.frames) > 2 /\ ~OneStream(SubSeq(file.frames, 1, 3))
       /\ window >= Starts(file.frames)[3] + 4 => detectFormat(file, window) = "unknown"
  /\ detectFormat(file, window) \in {"WAVE", "AIFF"} => detectFormat(file, 4096) = detectFormat(file, window)
  /\ file.lead = "flac" /\ window >= file.tag + 4 => detectFormat(file, window) = "FLAC"
  /\ detectFormat(file, window) = "FLAC" /\ window >= file.tag + 8 => file.lead = "flac"
  /\ detectFormat(file, window) # "unknown" /\ detectFormat(file, 4096) = "unknown" =>
       file.lead = "mpeg" \/ (file.lead = "marked" /\ window < 8)

\* AudioFile.h: "short input is never misidentified".  (It does not hold: a window
\* that shows only the tag in front of a FLAC takes it for an MP3, and one that shows
\* only a mark takes it for a FLAC; README, "Seen while modelling".)
NeverMisidentified(file, window) ==
  detectFormat(file, window) \in {"unknown", detectFormat(file, 4096)}

\* AudioFile.cpp: "An ID3v2 tag on a FLAC is out of spec, but encoders do it and
\* players accept it, so look before assuming what the tag is attached to." --
\* what is recognised as a container is opened by the reader it is given to.
RecognisedFilesOpen(file) ==
  file.lead \notin {"none", "marked"} /\ (file.lead = "mpeg" => OneStream(file.frames)) /\ detectFormat(file, 4096) # "unknown"
    => Opens(file, detectFormat(file, 4096))
-------------------------------------------------------------------------------
(* FlacReader and Mp3Reader over the decoders they own: how many frames a    *)
(* file is taken to hold, and reads that go wherever the caller asks while   *)
(* the reader remembers where its decoder stands so as not to seek. Frame n  *)
(* of a file is the number n. The two decoders are the vendored dr_flac and  *)
(* dr_mp3, of which only the position and the claimed length matter.         *)

CONSTANTS MediaFiles,       \* the files opened: [kind, holds, claims, plausible]
          MostFramesRead    \* bound: frames asked for in one read

\* No file holds more than its bytes could.
ASSUME ReaderAssumption ==
  /\ IsFiniteSet(MediaFiles) /\ MediaFiles \subseteq [kind : {"flac", "mp3"}, holds : Nat, claims : Nat, plausible : Nat]
  /\ MostFramesRead \in Nat /\ \A f \in MediaFiles : f.holds <= f.plausible

VARIABLES media,    \* the file
          reader,   \* [status, count, next]: the reader's frame count and nextFrame;
            \* `lost` is history: a seek has failed
          at,       \* where the decoder stands
          returned  \* what the last read returned

Unanswered == [start |-> 0, wanted |-> 0, frames |-> <<>>, error |-> FALSE]
Unopened == [status |-> "unopened", count |-> 0, next |-> 0, lost |-> FALSE]
DecoderInit == media \in MediaFiles /\ reader = Unopened /\ at = 0 /\ returned = Unanswered

\* A length of zero is unknown to FLAC, one beyond what the bytes could hold
\* believed by neither: then the frames are counted by decoding them.
Counted == (media.kind = "flac" /\ media.claims = 0) \/ media.claims > media.plausible
openReader ==
  /\ reader = Unopened
  /\ \/ reader' = [Unopened EXCEPT !.status = "open", !.count = IF Counted THEN media.holds ELSE media.claims]
     \/ Counted /\ reader' = [Unopened EXCEPT !.status = "refused"]
  /\ at' = 0 /\ UNCHANGED <<media, returned>>

\* Where a decoder stands after a seek, and whether it says it got there.
\* dr_flac clamps to the length its header claims, and where a failed seek
\* leaves it depends on how far it looked; dr_mp3 reads on until the end.
Sought(target) ==
  LET clamped == IF media.kind = "flac" THEN Min({target, media.claims}) ELSE target
      failed == IF media.kind = "flac" THEN {0, at, media.holds} ELSE {media.holds}
  IN CASE target = at -> [ok |-> TRUE, at |-> {at}]
       [] target # at /\ clamped < media.holds -> [ok |-> TRUE, at |-> {clamped}]
       [] OTHER -> [ok |-> FALSE, at |-> failed]

\* Mutant: the reader never seeks while its caller goes forward.
NeedsSeek_Backwards(start) == start < reader.next

NeedsSeek(start) == reader.next # start

Reading == reader.status = "open"

seekFails(start, n) ==
  /\ Reading /\ start < reader.count /\ NeedsSeek(start) /\ ~Sought(start).ok
  /\ at' \in Sought(start).at
  /\ returned' = [start |-> start, wanted |-> n, frames |-> <<>>, error |-> TRUE]
  /\ reader' = [reader EXCEPT !.lost = TRUE]
  /\ UNCHANGED media

\* read: after the seek, block by block until the request, the count or the
\* stream is at its end.
read(start, n) ==
  /\ Reading /\ start < reader.count /\ (NeedsSeek(start) => Sought(start).ok)
  /\ \E from \in IF NeedsSeek(start) THEN Sought(start).at ELSE {at} :
       LET got == Min({n, reader.count - start, Max({0, media.holds - from})})
       IN /\ at' = from + got
          /\ reader' = [reader EXCEPT !.next = start + got]
          /\ returned' = [start |-> start, wanted |-> Min({n, reader.count - start}),
                        frames |-> [k \in 1..got |-> from + k - 1], error |-> FALSE]
  /\ UNCHANGED media

readPastTheEnd(start) == /\ Reading /\ start >= reader.count
                         /\ returned' = [Unanswered EXCEPT !.start = start] /\ UNCHANGED <<media, reader, at>>

DecoderNext ==
  \/ openReader
  \/ \E start \in 0..Max({f.holds : f \in MediaFiles}), n \in 1..MostFramesRead :
       seekFails(start, n) \/ read(start, n) \/ readPastTheEnd(start)
-------------------------------------------------------------------------------
(* Properties.                                                             *)

\* AudioSource.h: "Read up to `destination.frames()` frames starting at
\* `startFrame`, returning how many were actually read. A short read means end
\* of source." -- in whatever order the frames are asked for, as long as every
\* seek could be made.
ReadsStartWhereAsked ==
  ~reader.lost =>
    /\ \A k \in DOMAIN returned.frames : returned.frames[k] = returned.start + k - 1
    /\ returned.start + Len(returned.frames) >= Min({returned.start + returned.wanted, media.holds})
===============================================================================
