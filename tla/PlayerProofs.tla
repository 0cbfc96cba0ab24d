---------------------------- MODULE PlayerProofs -----------------------------
(***************************************************************************)
(* For a source, a ring and blocks of any size: what is heard of a         *)
(* playback is its range from the beginning, every frame once, and nothing *)
(* runs behind a call's back.                                              *)
(*                                                                         *)
(* The three places a frame can be in, the block being played, the ring    *)
(* and the worker's hands, are each a run of the source, and each begins   *)
(* where the one before it ends.  The block and the ring stay so whatever  *)
(* becomes of the worker, since a stream that failed to start may go on    *)
(* calling back after the worker was joined; the worker's part is only     *)
(* claimed while there is a worker.  A new range is set while no stream    *)
(* and no worker are there, which is what the order of the calls in stop() *)
(* and play() is for.                                                      *)
(***************************************************************************)
EXTENDS Player, SequenceTheorems, TLAPS

\* Frames of take t, from the n-th of the source.
Run(q, t, n) == \A i \in 1..Len(q) : q[i] = <<t, n + i - 1>>

Position == rangeStart + framesPlayed

Pipeline ==
  /\ Run(got, take, Position)
  /\ Run(queue, take, Position + Len(got))
  /\ wpc # "none" =>
       /\ Run(pending, take, Position + Len(got) + Len(queue))
       /\ cursor = Position + Len(got) + Len(queue) + Len(pending)
       /\ cursor <= rangeEnd
  /\ framesPlayed + Len(got) + Len(queue) <= rangeLength
  /\ rangeEnd <= SourceFrames
  /\ wpc = "read" => pending = <<>>

Phases ==
  /\ stream = "off" => ~inCallback
  /\ ~inCallback => got = <<>>
  /\ cpc \in {"stopJoin", "playJoin", "prepare", "launch", "startDevice"} => stream = "off"
  /\ cpc \in {"prepare", "launch"} => wpc = "none"
  /\ cpc = "launch" => /\ rangeStart = request.from /\ rangeLength = request.to - request.from
                       /\ framesPlayed = 0 /\ queue = <<>>

PlayerInv == TypeOK /\ Pipeline /\ Phases

\* A sequence cut in two.
LEMMA CutInTwo ==
  ASSUME NEW S, NEW q \in Seq(S), NEW n \in 0..Len(q)
  PROVE  /\ SubSeq(q, 1, n) \in Seq(S) /\ Len(SubSeq(q, 1, n)) = n
         /\ \A i \in 1..n : SubSeq(q, 1, n)[i] = q[i]
         /\ SubSeq(q, n + 1, Len(q)) \in Seq(S) /\ Len(SubSeq(q, n + 1, Len(q))) = Len(q) - n
         /\ \A i \in 1..(Len(q) - n) : SubSeq(q, n + 1, Len(q))[i] = q[n + i] /\ n + i \in 1..Len(q)
<1>1. n \in Int /\ 1 \in Int /\ n + 1 \in Int /\ Len(q) \in Int /\ 0 <= n /\ n <= Len(q)
      /\ \A i \in 1..Len(q) : q[i] \in S
  OBVIOUS
<1>2. /\ \A i \in 1..n : q[i] \in S
      /\ \A i \in (n + 1)..Len(q) : q[i] \in S
  BY <1>1
<1> DEFINE head == SubSeq(q, 1, n)
           tail == SubSeq(q, n + 1, Len(q))
<1>3. /\ head \in Seq(S) /\ Len(head) = IF 1 <= n THEN n - 1 + 1 ELSE 0
      /\ \A i \in 1..(n - 1 + 1) : head[i] = q[1 + i - 1]
  BY <1>1, <1>2, SubSeqProperties
<1>4. /\ tail \in Seq(S) /\ Len(tail) = IF n + 1 <= Len(q) THEN Len(q) - (n + 1) + 1 ELSE 0
      /\ \A i \in 1..(Len(q) - (n + 1) + 1) : tail[i] = q[(n + 1) + i - 1]
  BY <1>1, <1>2, SubSeqProperties
<1> HIDE DEF head, tail
<1>5. Len(head) = n /\ \A i \in 1..n : head[i] = q[i]
  <2>1. Len(head) = n
    BY <1>1, <1>3
  <2>2. ASSUME NEW i \in 1..n PROVE head[i] = q[i]
    <3>1. i \in 1..(n - 1 + 1) /\ 1 + i - 1 = i
      BY <1>1
    <3> QED
      BY <1>3, <3>1
  <2> QED
    BY <2>1, <2>2
<1>6. Len(tail) = Len(q) - n
  BY <1>1, <1>4
<1>7. ASSUME NEW i \in 1..(Len(q) - n) PROVE tail[i] = q[n + i] /\ n + i \in 1..Len(q)
  <2>1. i \in 1..(Len(q) - (n + 1) + 1) /\ (n + 1) + i - 1 = n + i /\ n + i \in 1..Len(q)
    BY <1>1
  <2> QED
    BY <1>4, <2>1
<1> QED
  BY <1>3, <1>4, <1>5, <1>6, <1>7 DEF head, tail

\* A run cut in two is two runs.
LEMMA RunCut ==
  ASSUME NEW S, NEW q \in Seq(S), NEW t, NEW m \in Nat, Run(q, t, m), NEW n \in 0..Len(q)
  PROVE  Run(SubSeq(q, 1, n), t, m) /\ Run(SubSeq(q, n + 1, Len(q)), t, m + n)
<1>1. Run(SubSeq(q, 1, n), t, m)
  BY CutInTwo DEF Run
<1>2. Run(SubSeq(q, n + 1, Len(q)), t, m + n)
  <2> DEFINE tail == SubSeq(q, n + 1, Len(q))
  <2>1. Len(tail) = Len(q) - n
        /\ \A i \in 1..(Len(q) - n) : tail[i] = q[n + i] /\ n + i \in 1..Len(q)
    BY CutInTwo
  <2> HIDE DEF tail
  <2>2. ASSUME NEW i \in 1..Len(tail) PROVE tail[i] = <<t, (m + n) + i - 1>>
    <3>1. tail[i] = <<t, m + (n + i) - 1>>
      BY <2>1 DEF Run
    <3>2. m + (n + i) - 1 = (m + n) + i - 1
      OBVIOUS
    <3> QED
      BY <3>1, <3>2
  <2>3. Run(tail, t, m + n)
    BY <2>2 DEF Run
  <2> QED
    BY <2>3 DEF tail
<1> QED
  BY <1>1, <1>2

\* Two runs that meet are one.
LEMMA RunJoin ==
  ASSUME NEW S, NEW q \in Seq(S), NEW r \in Seq(S), NEW t, NEW m \in Nat,
         Run(q, t, m), Run(r, t, m + Len(q))
  PROVE  q \o r \in Seq(S) /\ Len(q \o r) = Len(q) + Len(r) /\ Run(q \o r, t, m)
<1> DEFINE s == q \o r
<1>1. /\ s \in Seq(S) /\ Len(s) = Len(q) + Len(r) /\ Len(q) \in Nat /\ Len(r) \in Nat
      /\ \A i \in 1..(Len(q) + Len(r)) : s[i] = IF i <= Len(q) THEN q[i] ELSE r[i - Len(q)]
  BY ConcatProperties
<1> HIDE DEF s
<1>2. ASSUME NEW i \in 1..Len(s) PROVE s[i] = <<t, m + i - 1>>
  <2>1. CASE i <= Len(q)
    BY <1>1, <2>1 DEF Run
  <2>2. CASE i > Len(q)
    <3>1. i - Len(q) \in 1..Len(r) /\ s[i] = r[i - Len(q)]
      BY <1>1, <2>2
    <3>2. s[i] = <<t, (m + Len(q)) + (i - Len(q)) - 1>>
      BY <3>1 DEF Run
    <3>3. (m + Len(q)) + (i - Len(q)) - 1 = m + i - 1
      BY <1>1
    <3> QED
      BY <3>2, <3>3
  <2> QED
    BY <1>1, <2>1, <2>2
<1> QED
  BY <1>1, <1>2 DEF Run, s
-----------------------------------------------------------------------------
LEMMA PlayerInitInv == Init => PlayerInv
<1> SUFFICES ASSUME Init PROVE PlayerInv
  OBVIOUS
<1>1. <<>> \in Seq(Frame) /\ Len(<<>>) = 0 /\ 0 \in 0..SourceFrames /\ 0 <= RingFrames
      /\ 0 \in 0..MaxUnderruns
  BY SizeAssumption
<1>2. TypeOK
  <2>1. request \in Requests
    BY <1>1 DEF Init, Requests
  <2>2. framesPlayed \in 0..rangeLength /\ rangeStart \in 0..SourceFrames
        /\ rangeLength \in 0..SourceFrames /\ cursor \in 0..SourceFrames
        /\ underruns \in 0..MaxUnderruns /\ take \in {0, 1}
    BY <1>1 DEF Init
  <2> QED
    BY <1>1, <2>1, <2>2 DEF Init, TypeOK, Dev!Init
<1>3. Pipeline
  BY <1>1, SizeAssumption DEF Init, Pipeline, Run, rangeEnd
<1>4. Phases
  BY DEF Init, Phases, Dev!Init
<1> QED
  BY <1>2, <1>3, <1>4 DEF PlayerInv

LEMMA Sizes ==
  ASSUME PlayerInv
  PROVE  /\ rangeStart \in Nat /\ rangeLength \in Nat /\ framesPlayed \in Nat /\ cursor \in Nat
         /\ Len(got) \in Nat /\ Len(queue) \in Nat /\ Len(pending) \in Nat
         /\ Position \in Nat /\ SourceFrames \in Nat /\ take \in {0, 1}
         /\ got \in Seq(Frame) /\ queue \in Seq(Frame) /\ pending \in Seq(Frame)
BY SizeAssumption DEF PlayerInv, TypeOK, Position

\* A step that moves no frame.
LEMMA PipelineUntouched ==
  ASSUME PlayerInv, UNCHANGED <<take, rangeStart, rangeLength, framesPlayed, queue, cursor, pending, got>>,
         wpc' # "none" => wpc # "none",
         wpc' = "read" => pending = <<>>
  PROVE  Pipeline'
BY DEF PlayerInv, Pipeline, Run, Position, rangeEnd

LEMMA StopKeeps ==
  ASSUME PlayerInv,
         \/ StopCalled \/ (\E r \in Requests : PlayCalled(r))
         \/ DeviceStopAsks \/ DeviceStopReturns \/ StopJoins \/ PlayRefused
  PROVE  PlayerInv'
<1>1. /\ UNCHANGED <<take, rangeStart, rangeLength, framesPlayed, queue, cursor, pending, got>>
      /\ wpc' \in {wpc, "none"} /\ UNCHANGED <<inCallback, exhausted, underruns>>
  BY DEF StopCalled, PlayCalled, DeviceStopAsks, DeviceStopReturns, StopJoins, PlayRefused, device,
         settings, counters, worker, Dev!Wind
<1>2. Pipeline'
  BY <1>1, PipelineUntouched DEF PlayerInv, Pipeline
<1>3. TypeOK'
  BY <1>1 DEF PlayerInv, TypeOK, StopCalled, PlayCalled, DeviceStopAsks, DeviceStopReturns, StopJoins,
              PlayRefused, device, settings, counters, worker, Dev!Wind
<1>4. Phases'
  BY <1>1 DEF PlayerInv, Phases, StopCalled, PlayCalled, DeviceStopAsks, DeviceStopReturns, StopJoins,
              PlayRefused, device, settings, counters, worker, Dev!Wind
<1> QED
  BY <1>2, <1>3, <1>4 DEF PlayerInv

LEMMA PreparesKeeps ==
  ASSUME PlayerInv, PlayPrepares
  PROVE  PlayerInv'
<1>1. /\ cpc = "prepare" /\ request.from < request.to /\ framesPlayed' = 0 /\ underruns' = 0
      /\ exhausted' = FALSE /\ rangeStart' = request.from
      /\ rangeLength' = request.to - request.from /\ take' = 1 - take /\ queue' = <<>>
      /\ processor' = request.processor /\ cpc' = "launch"
      /\ UNCHANGED <<stream, inCallback, request, running, wpc, cursor, pending, got>>
  BY DEF PlayPrepares, device, worker
<1>2. stream = "off" /\ wpc = "none" /\ got = <<>> /\ ~inCallback
  BY <1>1 DEF PlayerInv, Phases
<1>3. request.from \in 0..SourceFrames /\ request.to \in 0..SourceFrames
      /\ request.processor \in Processors \cup {None} /\ request \in Requests
  BY DEF PlayerInv, TypeOK, Requests
<1>4. <<>> \in Seq(Frame) /\ Len(<<>>) = 0
  OBVIOUS
<1>5. rangeStart' \in 0..SourceFrames /\ rangeLength' \in 0..SourceFrames /\ 0 \in 0..rangeLength'
      /\ 0 \in 0..MaxUnderruns /\ take' \in {0, 1} /\ 0 <= RingFrames
      /\ rangeStart' + rangeLength' = request.to
  BY <1>1, <1>3, SizeAssumption DEF PlayerInv, TypeOK
<1>6. TypeOK'
  BY <1>1, <1>3, <1>4, <1>5 DEF PlayerInv, TypeOK
<1>7. Pipeline'
  BY <1>1, <1>2, <1>3, <1>4, <1>5, SizeAssumption DEF Pipeline, Run, rangeEnd
<1>8. Phases'
  BY <1>1, <1>2 DEF Phases
<1> QED
  BY <1>6, <1>7, <1>8 DEF PlayerInv

LEMMA LaunchKeeps ==
  ASSUME PlayerInv, PlayLaunches
  PROVE  PlayerInv'
<1>1. /\ cpc = "launch" /\ running' = TRUE /\ wpc' = "loop" /\ cursor' = request.from
      /\ pending' = <<>> /\ cpc' = "startDevice"
      /\ UNCHANGED <<stream, inCallback, request, take, processor, rangeStart, rangeLength,
                     framesPlayed, exhausted, underruns, queue, got>>
  BY DEF PlayLaunches, device, settings, counters
<1>2. /\ stream = "off" /\ got = <<>> /\ queue = <<>> /\ framesPlayed = 0
      /\ rangeStart = request.from /\ ~inCallback
  BY <1>1 DEF PlayerInv, Phases
<1>3. request.from \in 0..SourceFrames
  BY DEF PlayerInv, TypeOK, Requests
<1>4. <<>> \in Seq(Frame) /\ Len(<<>>) = 0
  OBVIOUS
<1>5. TypeOK'
  BY <1>1, <1>3, <1>4 DEF PlayerInv, TypeOK
<1>6. cursor' = Position' + Len(got') + Len(queue') + Len(pending') /\ cursor' <= rangeEnd'
  BY <1>1, <1>2, <1>3, <1>4, Sizes DEF Position, rangeEnd
<1>7. Run(pending, take, Position + Len(got) + Len(queue))'
  BY <1>1, <1>4 DEF Run
<1>8. Pipeline'
  BY <1>1, <1>6, <1>7 DEF PlayerInv, Pipeline, Run, Position, rangeEnd
<1>9. Phases'
  BY <1>1, <1>2 DEF Phases
<1> QED
  BY <1>5, <1>8, <1>9 DEF PlayerInv

LEMMA StartKeeps ==
  ASSUME PlayerInv,
         \/ DeviceStarts \/ DeviceStartReturns \/ DeviceStartFails \/ DeviceStartTimesOut
         \/ PlayFails \/ PlayFailedJoins \/ StreamUnwinds
  PROVE  PlayerInv'
<1>1. /\ UNCHANGED <<take, rangeStart, rangeLength, framesPlayed, queue, cursor, pending, got>>
      /\ wpc' \in {wpc, "none"} /\ UNCHANGED <<inCallback, exhausted, underruns>>
  BY DEF DeviceStarts, DeviceStartReturns, DeviceStartFails, DeviceStartTimesOut, PlayFails,
         PlayFailedJoins, StreamUnwinds, device, settings, counters, worker, Dev!Wind, Dev!SwitchOn,
         Dev!SwitchOff
<1>2. Pipeline'
  BY <1>1, PipelineUntouched DEF PlayerInv, Pipeline
<1>3. TypeOK'
  BY <1>1 DEF PlayerInv, TypeOK, DeviceStarts, DeviceStartReturns, DeviceStartFails,
              DeviceStartTimesOut, PlayFails, PlayFailedJoins, StreamUnwinds, device, settings,
              counters, worker, Dev!Wind, Dev!SwitchOn, Dev!SwitchOff
<1>4. Phases'
  BY <1>1 DEF PlayerInv, Phases, DeviceStarts, DeviceStartReturns, DeviceStartFails,
              DeviceStartTimesOut, PlayFails, PlayFailedJoins, StreamUnwinds, device, settings,
              counters, worker, Dev!Wind, Dev!SwitchOn, Dev!SwitchOff
<1> QED
  BY <1>2, <1>3, <1>4 DEF PlayerInv
-----------------------------------------------------------------------------
(* The worker and the callback, which move the frames.                     *)

LEMMA WorkerKeepsPhases ==
  ASSUME PlayerInv, wpc # "none",
         UNCHANGED <<stream, inCallback, got, cpc, request, rangeStart, rangeLength, framesPlayed>>
  PROVE  Phases'
BY DEF PlayerInv, Phases

LEMMA LoopKeeps ==
  ASSUME PlayerInv, WorkerLoops \/ WorkerReadFails \/ WorkerExhausts
  PROVE  PlayerInv'
<1>1. /\ UNCHANGED <<stream, inCallback, cpc, request, take, processor, rangeStart, rangeLength,
                     running, framesPlayed, underruns, got, queue, cursor, pending>>
      /\ wpc # "none" /\ exhausted' \in BOOLEAN
  BY DEF WorkerLoops, WorkerReadFails, WorkerExhausts, WorkerStep, device, settings, PlayerInv, TypeOK
<1>2. wpc' \in {"done", "write", "exhaust", "read"} /\ (wpc' = "read" => pending = <<>>)
  BY DEF WorkerLoops, WorkerReadFails, WorkerExhausts, WorkerStep, PlayerInv, TypeOK
<1>3. Pipeline'
  BY <1>1, <1>2, PipelineUntouched
<1>4. TypeOK'
  BY <1>1, <1>2 DEF PlayerInv, TypeOK
<1>5. Phases'
  BY <1>1, WorkerKeepsPhases
<1> QED
  BY <1>3, <1>4, <1>5 DEF PlayerInv

LEMMA ReadKeeps ==
  ASSUME PlayerInv, WorkerReads
  PROVE  PlayerInv'
<1>1. PICK frames \in 1..Min2(RenderBlock, rangeEnd - cursor) :
        /\ pending' = [i \in 1..frames |-> <<take, cursor + i - 1>>]
        /\ cursor' = cursor + frames
  BY DEF WorkerReads
<1>2. /\ UNCHANGED <<stream, inCallback, cpc, request, take, processor, rangeStart, rangeLength,
                     running, framesPlayed, underruns, got, queue, exhausted>>
      /\ wpc = "read" /\ wpc' = "write"
  BY DEF WorkerReads, WorkerStep, device, settings
<1>3. /\ cursor = Position + Len(got) + Len(queue) /\ pending = <<>> /\ cursor <= rangeEnd
      /\ rangeEnd <= SourceFrames
  BY <1>2, Sizes DEF PlayerInv, Pipeline
<1>4. frames \in Nat /\ cursor + frames <= rangeEnd /\ rangeEnd \in Nat
  BY <1>3, Sizes, SizeAssumption DEF Min2, rangeEnd
<1>5. \A i \in 1..frames : cursor + i - 1 \in 0..SourceFrames
  BY <1>3, <1>4, Sizes
<1>6. pending' \in Seq(Frame) /\ Len(pending') = frames
      /\ \A i \in 1..frames : pending'[i] = <<take, cursor + i - 1>>
  BY <1>1, <1>4, <1>5, Sizes DEF Frame
<1>7. cursor' \in 0..SourceFrames
  <2>1. cursor' = cursor + frames /\ cursor \in Nat /\ frames \in Nat /\ SourceFrames \in Nat
        /\ cursor + frames <= rangeEnd /\ rangeEnd <= SourceFrames /\ rangeEnd \in Nat
    BY <1>1, <1>3, <1>4, Sizes
  <2> QED
    BY <2>1
<1>8. TypeOK'
  BY <1>2, <1>6, <1>7 DEF PlayerInv, TypeOK
<1>9. Run(pending', take, Position + Len(got) + Len(queue))
  BY <1>3, <1>6 DEF Run
<1>10. cursor' = Position + Len(got) + Len(queue) + Len(pending') /\ cursor' <= rangeEnd
  BY <1>1, <1>3, <1>4, <1>6
<1>11. Pipeline'
  BY <1>2, <1>9, <1>10 DEF PlayerInv, Pipeline, Run, Position, rangeEnd
<1>12. Phases'
  BY <1>2, WorkerKeepsPhases
<1> QED
  BY <1>8, <1>11, <1>12 DEF PlayerInv

LEMMA WriteKeeps ==
  ASSUME PlayerInv, NEW frames \in 0..Fits, WorkerWrites(frames)
  PROVE  PlayerInv'
<1> DEFINE moved == SubSeq(pending, 1, frames)
<1>1. /\ UNCHANGED <<stream, inCallback, cpc, request, take, processor, rangeStart, rangeLength,
                     running, framesPlayed, underruns, got, exhausted, cursor>>
      /\ wpc = "write" /\ wpc' = "loop"
      /\ queue' = queue \o moved /\ pending' = SubSeq(pending, frames + 1, Len(pending))
  BY DEF WorkerWrites, WorkerStep, device, settings
<1>2. Len(queue) <= RingFrames /\ RingFrames \in Nat
  BY SizeAssumption DEF PlayerInv, TypeOK
<1>3. frames \in 0..Len(pending) /\ frames + Len(queue) <= RingFrames
  BY <1>2, Sizes DEF Fits, Min2
<1> DEFINE base == Position + Len(got) + Len(queue)
<1>4. /\ Run(queue, take, Position + Len(got)) /\ Run(pending, take, base)
      /\ cursor = base + Len(pending) /\ cursor <= rangeEnd /\ base \in Nat
      /\ Position + Len(got) \in Nat
  BY <1>1, Sizes DEF PlayerInv, Pipeline
<1> HIDE DEF base
<1>5. /\ moved \in Seq(Frame) /\ Len(moved) = frames /\ Run(moved, take, base)
      /\ pending' \in Seq(Frame) /\ Len(pending') = Len(pending) - frames
      /\ Run(pending', take, base + frames)
  BY <1>1, <1>3, <1>4, Sizes, CutInTwo, RunCut
<1> HIDE DEF moved
<1>6. base = (Position + Len(got)) + Len(queue)
  BY DEF base
<1>7. /\ queue' \in Seq(Frame) /\ Len(queue') = Len(queue) + frames
      /\ Run(queue', take, Position + Len(got))
  BY <1>1, <1>4, <1>5, <1>6, Sizes, RunJoin
<1>8. Position + Len(got) + Len(queue') = base + frames
  BY <1>3, <1>6, <1>7, Sizes
<1>9. framesPlayed + Len(got) + Len(queue') <= rangeLength
  <2>1. base + frames <= rangeEnd
    BY <1>3, <1>4, Sizes DEF rangeEnd
  <2>2. rangeStart + framesPlayed + Len(got) + Len(queue') <= rangeStart + rangeLength
    BY <1>8, <2>1 DEF Position, rangeEnd
  <2> QED
    BY <1>3, <1>7, <2>2, Sizes
<1>10. TypeOK'
  BY <1>1, <1>2, <1>3, <1>5, <1>7, Sizes DEF PlayerInv, TypeOK
<1>11. cursor = (base + frames) + Len(pending')
  BY <1>3, <1>4, <1>5, Sizes
<1>12. Run(got, take, Position) /\ rangeEnd <= SourceFrames
  BY DEF PlayerInv, Pipeline
<1>13. /\ take' = take /\ Position' = Position /\ rangeEnd' = rangeEnd /\ got' = got /\ cursor' = cursor
       /\ framesPlayed' = framesPlayed /\ rangeLength' = rangeLength
  BY <1>1 DEF Position, rangeEnd
<1>14. Pipeline'
  BY <1>1, <1>4, <1>5, <1>7, <1>8, <1>9, <1>11, <1>12, <1>13 DEF Pipeline
<1>15. Phases'
  BY <1>1, WorkerKeepsPhases
<1> QED
  BY <1>10, <1>14, <1>15 DEF PlayerInv

LEMMA CallbackReadKeeps ==
  ASSUME PlayerInv, NEW frames \in 0..Ready, CallbackReads(frames)
  PROVE  PlayerInv'
<1>1. /\ stream # "off" /\ ~inCallback /\ inCallback' = TRUE
      /\ got' = SubSeq(queue, 1, frames) /\ queue' = SubSeq(queue, frames + 1, Len(queue))
      /\ UNCHANGED <<stream, cpc, request, take, processor, rangeStart, rangeLength, running,
                     framesPlayed, exhausted, underruns, wpc, cursor, pending>>
  BY DEF CallbackReads, Dev!CallbackBegins, settings, counters, worker
<1>2. frames \in 0..Len(queue)
  BY Sizes, SizeAssumption DEF Ready, Min2
<1>3. got = <<>> /\ Len(got) = 0
  BY <1>1 DEF PlayerInv, Phases
<1>4. Run(queue, take, Position)
  BY <1>3, Sizes DEF PlayerInv, Pipeline
<1>5. /\ got' \in Seq(Frame) /\ Len(got') = frames /\ Run(got', take, Position)
      /\ queue' \in Seq(Frame) /\ Len(queue') = Len(queue) - frames
      /\ Run(queue', take, Position + frames)
  BY <1>1, <1>2, <1>4, Sizes, CutInTwo, RunCut
<1>6. TypeOK'
  <2>1. Len(queue') <= RingFrames /\ TRUE \in BOOLEAN
    BY <1>2, <1>5, Sizes, SizeAssumption DEF PlayerInv, TypeOK
  <2> QED
    BY <1>1, <1>5, <2>1 DEF PlayerInv, TypeOK
<1>7. Position + Len(got') + Len(queue') = Position + Len(got) + Len(queue)
      /\ framesPlayed + Len(got') + Len(queue') = framesPlayed + Len(got) + Len(queue)
  BY <1>2, <1>3, <1>5, Sizes
<1>8. /\ take' = take /\ Position' = Position /\ rangeEnd' = rangeEnd
  BY <1>1 DEF Position, rangeEnd
<1>9. Pipeline'
  BY <1>1, <1>5, <1>7, <1>8 DEF PlayerInv, Pipeline
<1>10. Phases'
  BY <1>1 DEF PlayerInv, Phases
<1> QED
  BY <1>6, <1>9, <1>10 DEF PlayerInv

LEMMA CallbackEndKeeps ==
  ASSUME PlayerInv, CallbackEnds
  PROVE  PlayerInv'
<1>1. /\ inCallback /\ inCallback' = FALSE /\ framesPlayed' = framesPlayed + Len(got) /\ got' = <<>>
      /\ UNCHANGED <<stream, cpc, request, take, processor, rangeStart, rangeLength, running,
                     exhausted, queue, wpc, cursor, pending>>
  BY DEF CallbackEnds, Dev!CallbackEnds, settings, worker
<1>2. underruns' \in 0..MaxUnderruns
  BY SizeAssumption DEF CallbackEnds, PlayerInv, TypeOK, Min2
<1>3. <<>> \in Seq(Frame) /\ Len(<<>>) = 0
  OBVIOUS
<1>4. framesPlayed' \in 0..rangeLength
  BY <1>1, Sizes DEF PlayerInv, Pipeline
<1>5. TypeOK'
  BY <1>1, <1>2, <1>3, <1>4 DEF PlayerInv, TypeOK
<1>6. /\ Position' = Position + Len(got) /\ Position' + Len(got') = Position + Len(got)
      /\ framesPlayed' + Len(got') = framesPlayed + Len(got) /\ rangeEnd' = rangeEnd
  BY <1>1, <1>3, Sizes DEF Position, rangeEnd
<1>7. Run(got', take', Position')
  BY <1>1, <1>3 DEF Run
<1>8. Pipeline'
  BY <1>1, <1>6, <1>7 DEF PlayerInv, Pipeline
<1>9. Phases'
  <2>1. cpc # "launch"
    BY <1>1 DEF PlayerInv, Phases
  <2> QED
    BY <1>1, <2>1 DEF PlayerInv, Phases
<1> QED
  BY <1>5, <1>8, <1>9 DEF PlayerInv

LEMMA PlayerStepInv == PlayerInv /\ [Next]_vars => PlayerInv'
<1> SUFFICES ASSUME PlayerInv, [Next]_vars PROVE PlayerInv'
  OBVIOUS
<1>1. CASE UNCHANGED vars
  <2>1. Pipeline'
    BY <1>1, PipelineUntouched DEF vars, device, settings, counters, worker, PlayerInv, Pipeline
  <2> QED
    BY <1>1, <2>1 DEF vars, device, settings, counters, worker, PlayerInv, TypeOK, Phases
<1>2. CASE Next
  BY <1>2, StopKeeps, PreparesKeeps, LaunchKeeps, StartKeeps, LoopKeeps, ReadKeeps, WriteKeeps,
     CallbackReadKeeps, CallbackEndKeeps DEF Next, Call, ControlStep, WorkerNext, CallbackNext
<1> QED
  BY <1>1, <1>2

\* What the runs say of the document follows.
LEMMA PlayerInvHolds == PlayerInv => PlaysTheDocument
<1> SUFFICES ASSUME PlayerInv PROVE PipelineIsContiguous /\ PlaysFromPosition
  BY DEF PlaysTheDocument
<1>1. PlaysFromPosition
  BY DEF PlayerInv, Pipeline, Run, Position, PlaysFromPosition
<1>2. ASSUME ~WorkerEnded
      PROVE  got \o queue \o pending =
               [i \in 1..(cursor - rangeStart - framesPlayed) |->
                  <<take, rangeStart + framesPlayed + i - 1>>]
  <2>1. /\ Run(got, take, Position) /\ Run(queue, take, Position + Len(got))
        /\ Run(pending, take, Position + Len(got) + Len(queue))
        /\ cursor = Position + Len(got) + Len(queue) + Len(pending)
    BY <1>2 DEF WorkerEnded, PlayerInv, Pipeline
  <2> DEFINE front == got \o queue
  <2>2. front \in Seq(Frame) /\ Len(front) = Len(got) + Len(queue) /\ Run(front, take, Position)
    BY <2>1, Sizes, RunJoin
  <2> HIDE DEF front
  <2>3. Position + Len(front) = Position + Len(got) + Len(queue)
    BY <2>2, Sizes
  <2> DEFINE all == front \o pending
  <2>4. all \in Seq(Frame) /\ Len(all) = Len(front) + Len(pending) /\ Run(all, take, Position)
    BY <2>1, <2>2, <2>3, Sizes, RunJoin
  <2> HIDE DEF all
  <2>5. cursor - rangeStart - framesPlayed = Len(all)
    <3>1. cursor = rangeStart + framesPlayed + Len(got) + Len(queue) + Len(pending)
      BY <2>1 DEF Position
    <3>2. Len(all) = Len(got) + Len(queue) + Len(pending)
      BY <2>2, <2>4
    <3>3. /\ rangeStart \in Nat /\ framesPlayed \in Nat /\ Len(got) \in Nat /\ Len(queue) \in Nat
          /\ Len(pending) \in Nat
      BY Sizes
    <3> QED
      BY <3>1, <3>2, <3>3
  <2>6. all = [i \in 1..Len(all) |-> all[i]]
    BY <2>4
  <2>7. \A i \in 1..Len(all) : all[i] = <<take, rangeStart + framesPlayed + i - 1>>
    BY <2>4 DEF Run, Position
  <2>8. all = [i \in 1..Len(all) |-> <<take, rangeStart + framesPlayed + i - 1>>]
    BY <2>6, <2>7
  <2> QED
    BY <2>5, <2>8 DEF all, front
<1> QED
  BY <1>1, <1>2 DEF PipelineIsContiguous

\* The inductive invariant holds in every state.
THEOREM PlayerInvAlways == Spec => []PlayerInv
BY PlayerInitInv, PlayerStepInv, PTL DEF Spec

\* Every variable keeps its type, the ring is never over-filled and no more is
\* counted as played than there is in the range.
THEOREM PlayerTypeCorrect == Spec => []TypeOK
<1>1. PlayerInv => TypeOK
  BY DEF PlayerInv
<1> QED
  BY <1>1, PlayerInvAlways, PTL

\* However worker, callback and calls interleave, and also while a playback is
\* being stopped or has failed: what is played is the range from its beginning,
\* each frame once, and the position says which frame it is.
THEOREM DocumentIsPlayed == Spec => []PlaysTheDocument
BY PlayerInvAlways, PlayerInvHolds, PTL

\* The processor and the history of plays change only while no stream is there to
\* call back and no worker runs; and a stop() returns to a device that is silent,
\* a worker that is joined and a processor that is no longer used.
THEOREM CallsAreUnobserved == Spec => NothingRunsBehindACall
<1>1. PlayerInv /\ [Next]_vars =>
        /\ [(processor' # processor \/ take' # take) => stream = "off" /\ WorkerEnded]_vars
        /\ [cpc = "stopJoin" /\ cpc' = "idle" =>
              stream' = "off" /\ ~inCallback' /\ wpc' = "none" /\ processor' = None]_vars
  <2> SUFFICES ASSUME PlayerInv, Next
               PROVE  /\ processor' # processor \/ take' # take => stream = "off" /\ WorkerEnded
                      /\ cpc = "stopJoin" /\ cpc' = "idle" =>
                           stream' = "off" /\ ~inCallback' /\ wpc' = "none" /\ processor' = None
    OBVIOUS
  <2>1. CASE StopJoins
    BY <2>1 DEF StopJoins, PlayerInv, Phases, device, worker
  <2>2. CASE PlayPrepares
    BY <2>2 DEF PlayPrepares, PlayerInv, Phases, WorkerEnded
  <2>3. CASE StopCalled \/ (\E r \in Requests : PlayCalled(r)) \/ DeviceStopAsks \/ DeviceStopReturns
             \/ PlayRefused \/ PlayLaunches \/ DeviceStarts \/ DeviceStartReturns
             \/ DeviceStartFails \/ DeviceStartTimesOut \/ PlayFails \/ PlayFailedJoins
             \/ StreamUnwinds
    BY <2>3 DEF StopCalled, PlayCalled, DeviceStopAsks, DeviceStopReturns, PlayRefused, PlayLaunches,
                DeviceStarts, DeviceStartReturns, DeviceStartFails, DeviceStartTimesOut, PlayFails,
                PlayFailedJoins, StreamUnwinds, settings
  <2>4. CASE WorkerNext \/ CallbackNext
    BY <2>4 DEF WorkerNext, WorkerLoops, WorkerReads, WorkerReadFails, WorkerExhausts, WorkerWrites,
                WorkerStep, CallbackNext, CallbackReads, CallbackEnds, settings
  <2> QED
    BY <2>1, <2>2, <2>3, <2>4 DEF Next, Call, ControlStep
<1> QED
  BY <1>1, PlayerInvAlways, PTL DEF Spec, NothingRunsBehindACall, SetupIsUnobserved, StopIsQuiet
=============================================================================
