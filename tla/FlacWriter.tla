------------------------------ MODULE FlacWriter ------------------------------
(* The FLAC writer (sa-io: FlacWriter.cpp): its subframes, its frames, and   *)
(* the file they end up in.                                                  *)
EXTENDS Integers, Sequences, FiniteSets, SequencesExt, FiniteSetsExt
-------------------------------------------------------------------------------
(* A subframe: how a block of one channel is planned, costed and written. A  *)
(* block is a function from 0..count-1 to integers, what is written a        *)
(* sequence of bits. Fitting a predictor is floating-point work: any         *)
(* predictor the format can carry stands for it, and none at all where the   *)
(* code gives up.                                                            *)

CONSTANT ResidualLimit \* the code's 2^30: a residual at or beyond it is refused

kMaxPartitionOrder == 8
kMaxLpcOrder == 12
NoFit == [order |-> 0, precision |-> 0, shift |-> 0, coefficients |-> <<>>]

Sum(S, f(_)) == MapThenSumSet(f, S)
Indices(n) == [k \in 1..n |-> k - 1]
-------------------------------------------------------------------------------
(* BitWriter.                                                              *)

writeBits(value, n) == [i \in 1..n |-> (value \div 2^(n - i)) % 2]
writeUnary(zeroes) == [i \in 1..(zeroes + 1) |-> IF i <= zeroes THEN 0 ELSE 1]
alignToByte(bits) == bits \o [i \in 1..((8 - (Len(bits) % 8)) % 8) |-> 0]

zigzag(value) == IF value < 0 THEN -2 * value - 1 ELSE 2 * value
-------------------------------------------------------------------------------
(* Rice coding of residuals, in partitions.                                *)

\* The smallest parameter whose power times the samples reaches their sum.
Parameter(sum, count) == Min({k \in 0..30 : k = 30 \/ sum = 0 \/ (sum - 1) \div 2^k < count})
riceFor(sum, count) ==
  IF count = 0 THEN [parameter |-> 0, bits |-> 0]
  ELSE LET k == Parameter(sum, count)
       IN [parameter |-> k, bits |-> count * (k + 1) + sum \div 2^k]

\* The positions of partition `index`: the first one starts after what the
\* predictor ate.
partitionSpan(count, partitionOrder, index, order) ==
  LET span == count \div 2^partitionOrder
  IN (index * span + (IF index = 0 THEN order ELSE 0))..((index + 1) * span - 1)

largestPartitionOrder(count, order) ==
  Max({0} \cup {c \in 1..kMaxPartitionOrder : count % 2^c = 0 /\ count \div 2^c > order})

IsWide(k) == k > 14

\* The sums of the partitions of every order up to `finest`, each folded from
\* the finer one's.
PartitionSums(residual, count, order, finest) ==
  LET sums[c \in 0..finest] ==
        [p \in 0..(2^c - 1) |->
           IF c = finest THEN Sum(partitionSpan(count, c, p, order), LAMBDA i : zigzag(residual[i]))
           ELSE sums[c + 1][2 * p] + sums[c + 1][2 * p + 1]]
  IN sums

\* What a partition order comes to, from the choices of its partitions.
OrderPlan(c, choices) ==
  LET wide == \E p \in DOMAIN choices : IsWide(choices[p].parameter)
  IN [partitionOrder |-> c, wideParameters |-> wide,
      bits |-> 6 + Sum(DOMAIN choices, LAMBDA p : choices[p].bits) + Cardinality(DOMAIN choices) * (IF wide THEN 5 ELSE 4)]

OrderPlans(sums, count, order) ==
  [c \in DOMAIN sums |->
     OrderPlan(c, [p \in DOMAIN sums[c] |-> riceFor(sums[c][p], Cardinality(partitionSpan(count, c, p, order)))])]

\* The cheapest of some plans: the first of equals, or the last.
FirstCheapest(plans) ==
  plans[Min({k \in DOMAIN plans : \A j \in DOMAIN plans : plans[k].bits <= plans[j].bits})]
LastCheapest(plans) ==
  plans[Max({k \in DOMAIN plans : \A j \in DOMAIN plans : plans[k].bits <= plans[j].bits})]

\* Every order from the finest down; the cheapest wins, the finest of equals.
planResidual(residual, count, order) ==
  LastCheapest(OrderPlans(PartitionSums(residual, count, order, largestPartitionOrder(count, order)), count, order))

ParameterWritten(k, wide) == Min({k, IF wide THEN 30 ELSE 14})

Coded(value, k) == writeUnary(value \div 2^k) \o writeBits(value, k)
writePartition(residual, span, k, width) ==
  writeBits(k, width) \o FlattenSeq([j \in 1..Cardinality(span) |-> Coded(zigzag(residual[Min(span) + j - 1]), k)])

writeResidual(residual, count, order, plan) ==
  LET Partition(span) ==
        writePartition(residual, span,
                       ParameterWritten(riceFor(Sum(span, LAMBDA i : zigzag(residual[i])), Cardinality(span)).parameter,
                                        plan.wideParameters),
                       IF plan.wideParameters THEN 5 ELSE 4)
  IN writeBits(IF plan.wideParameters THEN 1 ELSE 0, 2) \o writeBits(plan.partitionOrder, 4)
     \o FlattenSeq([p \in 1..2^plan.partitionOrder |-> Partition(partitionSpan(count, plan.partitionOrder, p - 1, order))])
-------------------------------------------------------------------------------
(* Predictors and subframes.                                               *)

Shifted(samples, wasted) == [i \in DOMAIN samples |-> samples[i] \div 2^wasted]

commonWastedBits(samples, depth) ==
  IF \A i \in DOMAIN samples : samples[i] = 0 THEN 0
  ELSE Max({w \in 0..(depth - 1) : \A i \in DOMAIN samples : samples[i] % 2^w = 0})

Binomials == <<<<1>>, <<1, -1>>, <<1, -2, 1>>, <<1, -3, 3, -1>>, <<1, -4, 6, -4, 1>>>>
fixedResiduals(samples, count, order) ==
  [i \in order..(count - 1) |-> Sum(0..order, LAMBDA j : Binomials[order + 1][j + 1] * samples[i - j])]

Prediction(samples, lpc, i) ==
  Sum(1..lpc.order, LAMBDA j : lpc.coefficients[j] * samples[i - j]) \div 2^lpc.shift
lpcResiduals(samples, count, lpc) ==
  [i \in lpc.order..(count - 1) |-> samples[i] - Prediction(samples, lpc, i)]
Fits(residual) == \A i \in DOMAIN residual : residual[i] \in -ResidualLimit..(ResidualLimit - 1)

\* The predictors a block of `count` samples may be given.
Fitted(count, predictors) ==
  {lpc \in predictors : lpc.order <= Min({kMaxLpcOrder, (count - 1) \div 2})} \cup {NoFit}

Plan(kind, order, wasted, lpc, residual, bits) ==
  [kind |-> kind, order |-> order, wastedBits |-> wasted, lpc |-> lpc, residual |-> residual, bits |-> bits + residual.bits]
NoResidual == [partitionOrder |-> 0, wideParameters |-> FALSE, bits |-> 0]

\* The candidates for samples shifted by their wasted bits: verbatim, the fixed
\* predictors in their order, and the fitted one where its residuals fit.
Candidates(shifted, count, effective, wasted, lpc) ==
  LET header == 8 + wasted
      Fixed(order) == Plan("Fixed", order, wasted, NoFit, planResidual(fixedResiduals(shifted, count, order), count, order),
                           header + order * effective)
      Fitting(residual) == IF lpc.order > 0 /\ Fits(residual)
                           THEN <<Plan("Lpc", lpc.order, wasted, lpc, planResidual(residual, count, lpc.order),
                                       header + lpc.order * effective + 9 + lpc.order * lpc.precision)>>
                           ELSE <<>>
  IN <<Plan("Verbatim", 0, wasted, NoFit, NoResidual, header + count * effective)>>
     \o [k \in 1..(Min({4, count - 1}) + 1) |-> Fixed(k - 1)] \o Fitting(lpcResiduals(shifted, count, lpc))

\* Constant, or the cheapest of the candidates, the first of equals.
planSubframe(samples, count, depth, lpc) ==
  LET Best(wasted) == FirstCheapest(Candidates(Shifted(samples, wasted), count, depth - wasted, wasted, lpc))
  IN IF \A i \in 0..(count - 1) : samples[i] = samples[0]
     THEN Plan("Constant", 0, 0, NoFit, NoResidual, 8 + depth)
     ELSE Best(commonWastedBits(samples, depth))

TypeCode(plan) == CASE plan.kind = "Constant" -> 0
                    [] plan.kind = "Verbatim" -> 1
                    [] plan.kind = "Fixed" -> 8 + plan.order
                    [] plan.kind = "Lpc" -> 32 + plan.order - 1

writeLpc(lpc) == writeBits(lpc.precision - 1, 4) \o writeBits(lpc.shift, 5)
                 \o FlattenSeq([j \in 1..lpc.order |-> writeBits(lpc.coefficients[j], lpc.precision)])
writePlain(samples, n, depth) == FlattenSeq([i \in 1..n |-> writeBits(samples[i - 1], depth)])

\* The subframe's body, over samples already shifted.
writeBody(plan, shifted, count, effective) ==
  CASE plan.kind = "Constant" -> writePlain(shifted, 1, effective)
    [] plan.kind = "Verbatim" -> writePlain(shifted, count, effective)
    [] plan.kind = "Fixed" -> writePlain(shifted, plan.order, effective)
                              \o writeResidual(fixedResiduals(shifted, count, plan.order), count, plan.order, plan.residual)
    [] plan.kind = "Lpc" -> writePlain(shifted, plan.order, effective) \o writeLpc(plan.lpc)
                            \o writeResidual(lpcResiduals(shifted, count, plan.lpc), count, plan.order, plan.residual)

writeSubframe(plan, samples, count, depth) ==
  writeBits(0, 1) \o writeBits(TypeCode(plan), 6)
  \o (IF plan.wastedBits > 0 THEN <<1>> \o writeUnary(plan.wastedBits - 1) ELSE <<0>>)
  \o writeBody(plan, Shifted(samples, plan.wastedBits), count, depth - plan.wastedBits)
-------------------------------------------------------------------------------
(* The frames: Encoder::emitBlock with its stereo decorrelation and the      *)
(* codes of the frame header, and a decoder that knows the format and        *)
(* nothing of the encoder.                                                   *)

-------------------------------------------------------------------------------
(* The header's codes.                                                     *)

SizeCodes == <<192, 576, 1152, 2304, 4608, 0, 0, 256, 512, 1024, 2048, 4096, 8192, 16384>>

\* Mutant: one block size too many is given the eight extra bits.
blockSizeCode_Long(frames) ==
  LET listed == {c \in DOMAIN SizeCodes : SizeCodes[c] = frames}
  IN IF listed # {} THEN [code |-> Min(listed), extraBits |-> 0]
     ELSE IF frames <= 257 THEN [code |-> 6, extraBits |-> 8] ELSE [code |-> 7, extraBits |-> 16]

blockSizeCode(frames) ==
  LET listed == {c \in DOMAIN SizeCodes : SizeCodes[c] = frames}
  IN IF listed # {} THEN [code |-> Min(listed), extraBits |-> 0]
     ELSE IF frames <= 256 THEN [code |-> 6, extraBits |-> 8] ELSE [code |-> 7, extraBits |-> 16]

RateCodes == <<88200, 176400, 192000, 8000, 16000, 22050, 24000, 32000, 44100, 48000, 96000>>
sampleRateCode(hz) ==
  LET listed == {c \in DOMAIN RateCodes : RateCodes[c] = hz}
  IN CASE listed # {} -> [code |-> Min(listed), extraBits |-> 0, extraValue |-> 0]
       [] listed = {} /\ hz % 1000 = 0 /\ hz \div 1000 <= 255 ->
            [code |-> 12, extraBits |-> 8, extraValue |-> hz \div 1000]
       [] OTHER -> IF hz <= 65535 THEN [code |-> 13, extraBits |-> 16, extraValue |-> hz]
                   ELSE IF hz % 10 = 0 /\ hz \div 10 <= 65535
                        THEN [code |-> 14, extraBits |-> 16, extraValue |-> hz \div 10]
                        ELSE [code |-> 0, extraBits |-> 0, extraValue |-> 0]

bitsPerSampleCode(bits) == CASE bits = 8 -> 1 [] bits = 12 -> 2 [] bits = 16 -> 4
                             [] bits = 20 -> 5 [] bits = 24 -> 6 [] OTHER -> 0

\* The number of bytes, then a lead byte of as many ones and six bits in each
\* byte after it.
appendUtf8Number(value) ==
  IF value < 128 THEN <<value>>
  ELSE LET length == Min({n \in 2..7 : n = 7 \/ value \div 2^(5 * (n - 1)) < 64})
       IN <<256 - 2^(8 - length) + value \div 2^(6 * (length - 1))>>
          \o [i \in 1..(length - 1) |-> 128 + ((value \div 2^(6 * (length - 1 - i))) % 64)]

frameHeader(count, hz, assignment, depth, number) ==
  LET size == blockSizeCode(count)
      rate == sampleRateCode(hz)
  IN writeBits(16382, 14) \o writeBits(0, 2) \o writeBits(size.code, 4) \o writeBits(rate.code, 4)
     \o writeBits(assignment, 4) \o writeBits(bitsPerSampleCode(depth), 3) \o writeBits(0, 1)
     \o FlattenSeq([i \in DOMAIN appendUtf8Number(number) |-> writeBits(appendUtf8Number(number)[i], 8)])
     \o writeBits(count - 1, size.extraBits) \o writeBits(rate.extraValue, rate.extraBits)
-------------------------------------------------------------------------------
(* emitBlock: of two channels the cheapest of four arrangements, the first *)
(* of equals; of any other number each by itself.                          *)

Mid(left, right) == [i \in DOMAIN left |-> (left[i] + right[i]) \div 2]
Side(left, right) == [i \in DOMAIN left |-> left[i] - right[i]]

Arrangements(left, right, depth) ==
  <<[code |-> 1, first |-> left, second |-> right, depths |-> <<depth, depth>>],
    [code |-> 8, first |-> left, second |-> Side(left, right), depths |-> <<depth, depth + 1>>],
    [code |-> 9, first |-> Side(left, right), second |-> right, depths |-> <<depth + 1, depth>>],
    [code |-> 10, first |-> Mid(left, right), second |-> Side(left, right), depths |-> <<depth, depth + 1>>]>>

\* An arrangement with the plans of its two subframes.
Planned(way, count, lpc) ==
  LET Both(first, second) == [way |-> way, first |-> first, second |-> second, bits |-> first.bits + second.bits]
  IN Both(planSubframe(way.first, count, way.depths[1], lpc), planSubframe(way.second, count, way.depths[2], lpc))

emitStereo(left, right, count, depth, lpc) ==
  LET Frame(chosen) ==
        [assignment |-> chosen.way.code, planned |-> chosen.bits,
         body |-> alignToByte(writeSubframe(chosen.first, chosen.way.first, count, chosen.way.depths[1])
                              \o writeSubframe(chosen.second, chosen.way.second, count, chosen.way.depths[2]))]
      ways == Arrangements(left, right, depth)
  IN Frame(FirstCheapest([a \in DOMAIN ways |-> Planned(ways[a], count, lpc)]))

emitMono(samples, count, depth, lpc) ==
  LET Frame(plan) == [assignment |-> 0, planned |-> plan.bits,
                      body |-> alignToByte(writeSubframe(plan, samples, count, depth))]
  IN Frame(planSubframe(samples, count, depth, lpc))
-------------------------------------------------------------------------------
(* What a decoder makes of the bits.                                       *)

ReadUnsigned(bits, at, n) == Sum(1..n, LAMBDA i : bits[at + i] * 2^(n - i))
ReadSigned(bits, at, n) ==
  LET value == ReadUnsigned(bits, at, n) IN IF value >= 2^(n - 1) THEN value - 2^n ELSE value
Zeroes(bits, at) == Min({i \in at..(Len(bits) - 1) : bits[i + 1] = 1}) - at
Unzigzag(value) == IF value % 2 = 1 THEN -((value + 1) \div 2) ELSE value \div 2

\* From here on a reading is [at |-> the bits taken, values |-> the samples so far].
ReadRice(bits, r, k, q) ==
  [at |-> r.at + q + 1 + k,
   values |-> Append(r.values, Unzigzag(q * 2^k + ReadUnsigned(bits, r.at + q + 1, k)))]
ReadRaw(bits, r, n) == [at |-> r.at + n, values |-> Append(r.values, ReadSigned(bits, r.at, n))]
ReadPartition(bits, r, many, width, k) ==
  IF k = 2^width - 1
  THEN FoldLeft(LAMBDA s, i : ReadRaw(bits, s, ReadUnsigned(bits, r.at + width, 5)),
                [r EXCEPT !.at = @ + width + 5], Indices(many))
  ELSE FoldLeft(LAMBDA s, i : ReadRice(bits, s, k, Zeroes(bits, s.at)), [r EXCEPT !.at = @ + width], Indices(many))
ReadPartitions(bits, start, count, order, width, partitionOrder) ==
  FoldLeft(LAMBDA r, p : ReadPartition(bits, r, (count \div 2^partitionOrder) - (IF p = 0 THEN order ELSE 0),
                                       width, ReadUnsigned(bits, r.at, width)),
           [at |-> start + 6, values |-> <<>>], Indices(2^partitionOrder))
ReadResidual(bits, start, count, order) ==
  ReadPartitions(bits, start, count, order, IF ReadUnsigned(bits, start, 2) = 1 THEN 5 ELSE 4,
                 ReadUnsigned(bits, start + 2, 4))

ReadLpc(bits, at, order, precision) ==
  [order |-> order, shift |-> ReadUnsigned(bits, at + 4, 5),
   coefficients |-> [j \in 1..order |-> ReadSigned(bits, at + 9 + (j - 1) * precision, precision)]]
FixedPrediction(s, i, order) == -Sum(1..order, LAMBDA j : Binomials[order + 1][j + 1] * s[i - j])

\* The samples from the first `order` of them and the residuals of the others.
Restored(bits, at, effective, order, coded, lpc, fixed) ==
  LET restored[i \in 0..(order + Len(coded.values) - 1) ] ==
        IF i < order THEN ReadSigned(bits, at + i * effective, effective)
        ELSE coded.values[i - order + 1]
             + (IF fixed THEN FixedPrediction(restored, i, order) ELSE Prediction(restored, lpc, i))
  IN [at |-> coded.at, samples |-> restored]
Plainly(bits, at, count, effective) ==
  [at |-> at + count * effective, samples |-> [i \in 0..(count - 1) |-> ReadSigned(bits, at + i * effective, effective)]]
Constantly(bits, at, count, effective) ==
  [at |-> at + effective, samples |-> [i \in 0..(count - 1) |-> ReadSigned(bits, at, effective)]]

ReadBody(bits, at, count, effective, type) ==
  LET Fixed(order, warm) == Restored(bits, at, effective, order, ReadResidual(bits, warm, count, order), NoFit, TRUE)
      Lpc(order, warm, precision) ==
        Restored(bits, at, effective, order, ReadResidual(bits, warm + 9 + order * precision, count, order),
                 ReadLpc(bits, warm, order, precision), FALSE)
  IN CASE type = 0 -> Constantly(bits, at, count, effective)
       [] type = 1 -> Plainly(bits, at, count, effective)
       [] type \in 8..12 -> Fixed(type - 8, at + (type - 8) * effective)
       [] type >= 32 -> Lpc(type - 31, at + (type - 31) * effective, ReadUnsigned(bits, at + (type - 31) * effective, 4) + 1)

ReadSubframe(bits, start, count, depth) ==
  LET Widened(r, wasted) == [r EXCEPT !.samples = [i \in DOMAIN r.samples |-> r.samples[i] * 2^wasted]]
      Body(wasted) == Widened(ReadBody(bits, start + 8 + wasted, count, depth - wasted, ReadUnsigned(bits, start + 1, 6)), wasted)
  IN Body(IF bits[start + 8] = 1 THEN Zeroes(bits, start + 8) + 1 ELSE 0)

\* The channels of a frame, from its assignment and its body.
Together(assignment, one, two) ==
  LET Each(op(_, _)) == [i \in DOMAIN one |-> op(one[i], two[i])]
  IN CASE assignment = 1 -> <<one, two>>
       [] assignment = 8 -> <<one, Each(LAMBDA l, s : l - s)>>
       [] assignment = 9 -> <<Each(LAMBDA s, r : s + r), two>>
       [] assignment = 10 -> <<Each(LAMBDA m, s : (2 * m + (s % 2) + s) \div 2), Each(LAMBDA m, s : (2 * m + (s % 2) - s) \div 2)>>
Decoded(frame, count, depth) ==
  LET WithSecond(one) ==
        IF frame.assignment = 0 THEN <<one.samples>>
        ELSE Together(frame.assignment, one.samples,
                      ReadSubframe(frame.body, one.at, count, depth + (IF frame.assignment \in {8, 10} THEN 1 ELSE 0)).samples)
  IN WithSecond(ReadSubframe(frame.body, 0, count, depth + (IF frame.assignment = 9 THEN 1 ELSE 0)))

DecodedSize(header) ==
  LET code == ReadUnsigned(header, 16, 4)
      extra == CASE code = 6 -> 8 [] code = 7 -> 16 [] OTHER -> 0
      rate == ReadUnsigned(header, 20, 4)
      after == CASE rate = 12 -> 8 [] rate \in {13, 14} -> 16 [] OTHER -> 0
  IN IF code \in {6, 7} THEN ReadUnsigned(header, Len(header) - after - extra, extra) + 1 ELSE SizeCodes[code]

DecodedRate(header, streamRate) ==
  LET code == ReadUnsigned(header, 20, 4)
      Tail8 == ReadUnsigned(header, Len(header) - 8, 8)
      Tail16 == ReadUnsigned(header, Len(header) - 16, 16)
  IN CASE code = 0 -> streamRate [] code = 12 -> 1000 * Tail8 [] code = 13 -> Tail16
       [] code = 14 -> 10 * Tail16 [] OTHER -> RateCodes[code]

DecodedNumber(header) ==
  LET Byte(i) == ReadUnsigned(header, 32 + 8 * i, 8)
      ones == Max({n \in 0..7 : \A i \in 1..n : header[32 + i] = 1})
      more == FoldLeft(LAMBDA v, i : v * 64 + (Byte(i + 1) % 64), Byte(0) % 2^(7 - ones), Indices(ones - 1))
  IN IF ones = 0 THEN Byte(0) ELSE more
-------------------------------------------------------------------------------
(* Properties.                                                             *)

\* FlacWriter.cpp encodes losslessly: whatever the block, its channels and the
\* predictor that was fitted, a decoder reads back exactly the samples, and the
\* frame is as long as its cheapest plan said, padded to a byte.
BlockIsLossless(channels, count, depth, lpc) ==
  LET Holds(frame) == Decoded(frame, count, depth) = channels /\ Len(frame.body) <= frame.planned + 7
  IN Holds(IF Len(channels) = 2 THEN emitStereo(channels[1], channels[2], count, depth, lpc)
           ELSE emitMono(channels[1], count, depth, lpc))

\* Residuals of any size survive their coding, whichever width their parameters need.
ResidualIsLossless(residual, count, order) ==
  ReadResidual(writeResidual(residual, count, order, planResidual(residual, count, order)), 0, count, order).values
    = [k \in 1..(count - order) |-> residual[order + k - 1]]

\* A frame's header says its size, its rate (or leaves it to the stream) and its number.
HeaderIsRead(count, hz, number) ==
  LET Holds(header) == DecodedSize(header) = count /\ DecodedRate(header, hz) = hz /\ DecodedNumber(header) = number
  IN Holds(frameHeader(count, hz, 0, 16, number))
-------------------------------------------------------------------------------
(* The file being written: frames are gathered into blocks, every full block *)
(* is emitted as it fills, and finish() emits the rest and writes STREAMINFO *)
(* over the one the file was created with. A sample stands for its place in  *)
(* what the writer was given.                                                *)

CONSTANTS BlockFrames,  \* frames in a block, the code's 4096
          MostSamples   \* bound: samples given to a writer

VARIABLES encoder, stream

NoStream == [info |-> <<>>, frames |-> <<>>, good |-> TRUE]
StreamInfo(e, signature) == [total |-> e.framesAccepted, smallest |-> e.smallest, largest |-> e.largest,
                             signature |-> signature]
Fresh == [pending |-> <<>>, framesAccepted |-> 0, frameNumber |-> 0, smallest |-> 0, largest |-> 0,
          md5 |-> <<>>, finished |-> FALSE, status |-> "ok"]

NoEncoder == [status |-> "none", finished |-> FALSE]
FlacFileInit == encoder = NoEncoder /\ stream = NoStream

createFlac ==
  /\ encoder.status = "none"
  /\ \/ encoder' = Fresh /\ stream' = [NoStream EXCEPT !.info = StreamInfo(Fresh, <<>>)]
     \/ encoder' = [Fresh EXCEPT !.status = "failed", !.finished = TRUE] /\ stream' = [NoStream EXCEPT !.good = FALSE]

\* Mutant: a block is forgotten only when the file has taken it.
emitBlock_Twice(s) ==
  IF s.e.pending = <<>> THEN s
  ELSE [s EXCEPT !.e.md5 = @ \o s.e.pending, !.f.frames = Append(@, [number |-> s.e.frameNumber, samples |-> s.e.pending]),
                 !.e.pending = IF Len(@) = BlockFrames THEN <<>> ELSE @]

\* emitBlock: what is pending is hashed, coded and written; a file that takes
\* no more leaves it pending.  The size of a frame is the samples it holds.
emitBlock(s) ==
  LET hashed == [s EXCEPT !.e.md5 = @ \o s.e.pending]
      size == Len(s.e.pending)
  IN CASE size = 0 -> s
       [] size > 0 /\ ~s.f.good -> [hashed EXCEPT !.e.status = "failed"]
       [] OTHER -> [f |-> [s.f EXCEPT !.frames = Append(@, [number |-> s.e.frameNumber, samples |-> s.e.pending])],
                    e |-> [hashed.e EXCEPT
                             !.smallest = IF @ = 0 \/ size < @ THEN size ELSE @,
                             !.largest = IF size > @ THEN size ELSE @,
                             !.frameNumber = @ + 1, !.pending = <<>>]]

\* write: batches that fill the block, each full one emitted; the first that
\* fails ends the call.
Accepted(s, n) ==
  LET One(r, k) ==
        IF r.e.status = "failed" THEN r
        ELSE LET given == [r EXCEPT !.e.pending = Append(@, r.e.framesAccepted + 1), !.e.framesAccepted = @ + 1]
             IN IF Len(given.e.pending) = BlockFrames THEN emitBlock(given) ELSE given
  IN FoldLeft(One, s, [k \in 1..n |-> k])

Becomes(s) == encoder' = s.e /\ stream' = s.f
Open == encoder.status # "none" /\ ~encoder.finished

writeFlac(n) ==
  /\ Open /\ encoder.status = "ok" /\ encoder.framesAccepted + n <= MostSamples
  /\ \E good \in {stream.good, FALSE} :
       Becomes(Accepted([e |-> encoder, f |-> [stream EXCEPT !.good = good]], n))

\* finish: the rest, then the header; finished whether or not that works.
finishFlac ==
  /\ Open
  /\ LET last == emitBlock([e |-> [encoder EXCEPT !.finished = TRUE], f |-> stream])
     IN IF last.e.status = "failed" \/ ~stream.good THEN Becomes([last EXCEPT !.e.status = "failed"])
        ELSE \/ Becomes([e |-> [last.e EXCEPT !.status = "finished"],
                         f |-> [last.f EXCEPT !.info = StreamInfo(last.e, last.e.md5)]])
             \/ Becomes([e |-> [last.e EXCEPT !.status = "failed"], f |-> [last.f EXCEPT !.good = FALSE]])

FlacFileNext == createFlac \/ (\E n \in 1..MostSamples : writeFlac(n)) \/ finishFlac
-------------------------------------------------------------------------------
(* Properties.                                                             *)

Samples == FlattenSeq([k \in DOMAIN stream.frames |-> stream.frames[k].samples])

\* A finished FLAC holds every sample it was given once and in order, in
\* numbered blocks of one size but the last, and its header tells their number
\* and their signature.  An unfinished one holds whole blocks of a beginning
\* and a header that claims nothing.
FlacHoldsWhatItWasGiven ==
  encoder.status # "none" =>
    /\ \A k \in DOMAIN stream.frames : stream.frames[k].number = k - 1
    /\ \A k \in 1..(Len(stream.frames) - 1) : Len(stream.frames[k].samples) = BlockFrames
    /\ Samples = [k \in DOMAIN Samples |-> k]
    /\ IF encoder.status = "finished"
       THEN /\ Len(Samples) = encoder.framesAccepted /\ stream.info.total = encoder.framesAccepted
            /\ stream.info.signature = Samples /\ stream.info.largest <= BlockFrames
       ELSE stream.good => stream.info.total = 0 /\ Len(Samples) + Len(encoder.pending) = encoder.framesAccepted
===============================================================================
