----------------------------- MODULE AlsaStream -----------------------------
(***************************************************************************)
(* The ALSA half of a playback device                                      *)
(* (src/sa-device/src/AlsaAudioDevice.cpp): the platform functions the     *)
(* loop of ThreadedOutputDevice drives, with the state the PCM is in and   *)
(* how far a block has been written.  Every call into ALSA may fail.       *)
(***************************************************************************)
EXTENDS Naturals

CONSTANTS
  BufferFrames,  \* config().bufferFrames
  MaxPeriod,     \* bound: the longest period a PCM settles on
  ConfigRate,    \* config().sampleRate
  PcmRates       \* bound: the rates a PCM settles on

VARIABLES
  running,     \* running_
  caller,      \* the thread that starts and stops the device
  pc,          \* where the render thread is
  rebuilding,  \* openStream() is a rebuild
  pcm,         \* "none", "open" (half built) or "prepared"
  pcmRate,     \* the rate the PCM settled on
  chunkFrames, \* frames per write
  scratch,     \* frames the staging buffer has room for
  actualRate,  \* setActualSampleRate
  cursor, remaining, \* of the block being written
  broken       \* history: the timeline broke within this block

rates == <<pcmRate, actualRate>>
buffers == <<chunkFrames, scratch>>
block == <<cursor, remaining, broken>>
vars == <<running, caller, pc, rebuilding, pcm, pcmRate, chunkFrames, scratch,
          actualRate, cursor, remaining, broken>>

Init ==
  /\ running = FALSE /\ caller = "idle" /\ pc = "ended" /\ rebuilding = FALSE
  /\ pcm = "none" /\ pcmRate = 0 /\ chunkFrames = 0 /\ scratch = 0
  /\ actualRate = ConfigRate
  /\ cursor = 0 /\ remaining = 0 /\ broken = FALSE

Goto(there) == pc' = there
-----------------------------------------------------------------------------
(* start() and stop(), see OutputDevice.  Nothing wakes the loop: a write  *)
(* blocks for no longer than the buffer lasts.                             *)

\* open() has found that the PCM can be opened, which proves nothing later on.
Start ==
  /\ caller = "idle" /\ pc = "ended"
  /\ running' = TRUE /\ rebuilding' = FALSE
  /\ Goto("open")
  /\ UNCHANGED <<caller, pcm, rates, buffers, block>>

StopRequests ==
  /\ caller = "idle"
  /\ running' = FALSE
  /\ caller' = "joining"
  /\ UNCHANGED <<pc, rebuilding, pcm, rates, buffers, block>>

StopJoins ==
  /\ caller = "joining" /\ pc = "ended"
  /\ caller' = "idle"
  /\ UNCHANGED <<running, pc, rebuilding, pcm, rates, buffers, block>>
-----------------------------------------------------------------------------
(* openStream().                                                           *)

OpenFails == Goto(IF rebuilding THEN "failedClose" ELSE "finalClose")

OpenPcm ==
  /\ pc = "open"
  /\ \/ pcm' = "open" /\ Goto("negotiate")
     \/ pcm' = "none" /\ OpenFails
  /\ UNCHANGED <<running, caller, rebuilding, rates, buffers, block>>

\* Access, format and geometry: the PCM settles on what is nearest, or refuses
\* what it must have; a failure anywhere leaves it open for closeStream().
OpenNegotiates ==
  /\ pc = "negotiate"
  /\ \/ OpenFails /\ UNCHANGED pcmRate
     \/ pcmRate' \in PcmRates /\ Goto("prepare")
  /\ UNCHANGED <<running, caller, rebuilding, pcm, actualRate, buffers, block>>

\* A PCM that reports no period is written as many frames as were asked for.
chunkOf(period) == IF period > 0 THEN period ELSE BufferFrames

\* A bug: the staging buffer of the stream before is kept.
OpenPrepares_KeepsScratch ==
  /\ pc = "prepare"
  /\ \/ OpenFails /\ UNCHANGED <<pcm, actualRate, buffers>>
     \/ /\ pcm' = "prepared"
        /\ chunkFrames' \in {chunkOf(period) : period \in 0..MaxPeriod}
        /\ scratch' = IF scratch = 0 THEN chunkFrames' ELSE scratch
        /\ actualRate' = pcmRate
        /\ Goto("loop")
  /\ UNCHANGED <<running, caller, rebuilding, pcmRate, block>>

OpenPrepares ==
  /\ pc = "prepare"
  /\ \/ OpenFails /\ UNCHANGED <<pcm, actualRate, buffers>>
     \/ /\ pcm' = "prepared"
        /\ chunkFrames' \in {chunkOf(period) : period \in 0..MaxPeriod}
        /\ scratch' = chunkFrames'
        /\ actualRate' = pcmRate
        /\ Goto("loop")
  /\ UNCHANGED <<running, caller, rebuilding, pcmRate, block>>
-----------------------------------------------------------------------------
(* runStream(), in the loop of the base class.                             *)

RenderLoop ==
  /\ pc = "loop"
  /\ Goto(CASE ~running -> "finalClose"
            [] pcm = "none" \/ scratch = 0 -> "close"
            [] OTHER -> "turn")
  /\ UNCHANGED <<running, caller, rebuilding, pcm, rates, buffers, block>>

\* One block is rendered; the callback may stop its own device.
RunRenders ==
  /\ pc = "turn"
  /\ IF running
     THEN /\ running' \in BOOLEAN
          /\ cursor' = 0 /\ remaining' = chunkFrames
          /\ broken' = FALSE
          /\ Goto("write")
     ELSE Goto("close") /\ UNCHANGED <<running, block>>
  /\ UNCHANGED <<caller, rebuilding, pcm, rates, buffers>>

RunWrites ==
  /\ pc = "write" /\ remaining > 0
  /\ \E written \in 1..remaining :
       /\ remaining' = remaining - written
       /\ cursor' = cursor + written
  /\ UNCHANGED <<running, caller, pc, rebuilding, pcm, rates, buffers, broken>>

\* The rest of a block whose timeline has broken is stale.
DropsRest == Goto("turn")

\* A bug: the rest of the block is written late.
RunRecovers_WritesLate ==
  /\ pc = "write" /\ remaining > 0
  /\ broken' = TRUE
  /\ Goto("write") \/ Goto("close")
  /\ UNCHANGED <<running, caller, rebuilding, pcm, rates, buffers, cursor, remaining>>

\* recover(): an underrun, a suspend or an interrupted call is repaired; what
\* cannot be hands the stream back to the base class.
RunRecovers ==
  /\ pc = "write" /\ remaining > 0
  /\ broken' = TRUE
  /\ DropsRest \/ Goto("close")
  /\ UNCHANGED <<running, caller, rebuilding, pcm, rates, buffers, cursor, remaining>>

BlockEnds ==
  /\ pc = "write" /\ remaining = 0
  /\ Goto("turn")
  /\ UNCHANGED <<running, caller, rebuilding, pcm, rates, buffers, block>>
-----------------------------------------------------------------------------
(* closeStream(), in the three places the base class calls it: dropped,    *)
(* not drained.                                                            *)

\* A bug: only a stream that was prepared is closed.
closed_IfPrepared(handle) == IF handle = "prepared" THEN "none" ELSE handle

closed(handle) == "none"

closeStream ==
  /\ pc \in {"close", "failedClose", "finalClose"}
  /\ pcm' = closed(pcm)
  /\ Goto(CASE pc = "close" -> "again" [] pc = "failedClose" -> "loop" [] OTHER -> "ended")
  /\ UNCHANGED <<running, caller, rebuilding, rates, buffers, block>>

RenderRebuilds ==
  /\ pc = "again"
  /\ IF running THEN rebuilding' = TRUE /\ Goto("open")
                ELSE Goto("finalClose") /\ UNCHANGED rebuilding
  /\ UNCHANGED <<running, caller, pcm, rates, buffers, block>>
-----------------------------------------------------------------------------
RenderStep ==
  \/ OpenPcm \/ OpenNegotiates \/ OpenPrepares
  \/ RenderLoop \/ RunRenders \/ RunWrites \/ RunRecovers \/ BlockEnds
  \/ closeStream \/ RenderRebuilds

Next == Start \/ StopRequests \/ StopJoins \/ RenderStep

\* Calls into ALSA return: a write blocks for the length of the buffer at most.
Fairness == WF_vars(RenderStep) /\ WF_vars(StopJoins)

Spec == Init /\ [][Next]_vars /\ Fairness
-----------------------------------------------------------------------------
(* Properties.                                                             *)

\* A PCM is opened into a handle that holds none, and is closed again before
\* the thread rests or ends, half rates ones included.
ClosedHoldsNothing == pc \in {"open", "again", "ended"} => pcm = "none"

\* What is written lies in the staging buffer, each frame of a block is taken at
\* most once and in order, whatever the PCM takes at a time, and the device
\* reports the rate the PCM runs at.
WritesTheBlock ==
  pc = "write" =>
    /\ pcm = "prepared"
    /\ cursor + remaining = chunkFrames /\ chunkFrames \in 1..scratch
    /\ actualRate = pcmRate

\* "The timeline has already broken, so the rest of this block is stale":
\* nothing of a block is written once a write of it has failed.
NothingIsLate == [][pc = "write" /\ remaining' < remaining => ~broken]_vars

\* When a stop() returns, the render thread has ended and the PCM is closed.
StopIsSilence == [][caller = "joining" /\ caller' = "idle" => pc = "ended" /\ pcm = "none"]_vars

\* As a device: on from start() until somebody, or the callback itself, asks it to
\* stop. (A period is rendered in one step.)
Stream == IF pc = "ended" THEN "off" ELSE IF running THEN "on" ELSE "unwinding"
Contract == INSTANCE AudioDevice WITH stream <- Stream, inCallback <- FALSE

\* The stream keeps its half of the contract of AudioDevice: one that unwinds is
\* not picked up again, and renders no further period.
KeepsContract == Contract!Spec /\ [][pc # "write" /\ pc' = "write" => Stream = "on"]_vars

\* A stop ends the render thread, whatever fails meanwhile.
StopEnds == caller = "joining" ~> pc = "ended"
=============================================================================
