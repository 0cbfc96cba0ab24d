------------------------------ MODULE MCDevices ------------------------------
(* The kinds of output device in one model for TLC: the platform-neutral half *)
(* of a hardware device, the null device, and the Windows and ALSA halves. A   *)
(* behaviour belongs to one of them, `device`, and the others stay as they     *)
(* were constructed.                                                           *)
EXTENDS OutputDevice

CONSTANTS
  NullControl,            \* the threads that may call the null device
  WantedRate,             \* the rate the hardware devices are opened with
  Endpoint, DefaultId, Mixes,             \* of Windows
  BufferFrames, MaxPeriod, PcmRates       \* of ALSA

ASSUME NullAssumption == None \notin NullControl
ASSUME BufferAssumption == BufferFrames \in Nat \ {0} /\ MaxPeriod \in Nat
ASSUME MixesAssumption ==
  Mixes # {} /\ Mixes \subseteq [tag : {"float", "pcm"}, bits : Nat, rate : Nat, copyable : BOOLEAN]

VARIABLES device, nullRunning, nullLifecycle, nullHandle, nullCallback, nullCpc, nullRpc,
          nullStoppedItself

Null == INSTANCE NullDevice WITH
          Control <- NullControl, running <- nullRunning, lifecycle <- nullLifecycle,
          handle <- nullHandle, callback <- nullCallback, cpc <- nullCpc, rpc <- nullRpc,
          stoppedItself <- nullStoppedItself

nullVars == <<nullRunning, nullLifecycle, nullHandle, nullCallback, nullCpc, nullRpc,
              nullStoppedItself>>
-----------------------------------------------------------------------------
\* A mixer at the rate that is asked for, one at another rate, and one whose
\* format neither can be copied nor is fed.
ThreeMixes == {[tag |-> "float", bits |-> 32, rate |-> 1, copyable |-> TRUE],
               [tag |-> "pcm", bits |-> 16, rate |-> 2, copyable |-> TRUE],
               [tag |-> "pcm", bits |-> 24, rate |-> 2, copyable |-> FALSE]}

VARIABLES default, chosen, wRunning, stopEvent, wCaller, wPc, wRebuilding,
          held, endpoint, mix, streamRate, wRate, moved

Wasapi == INSTANCE WasapiStream WITH
            Absent <- None, running <- wRunning, caller <- wCaller,
            pc <- wPc, rebuilding <- wRebuilding, actualRate <- wRate

wasapiVars == <<default, chosen, wRunning, stopEvent, wCaller, wPc, wRebuilding, held,
                endpoint, mix, streamRate, wRate, moved>>

VARIABLES aRunning, aCaller, aPc, aRebuilding, pcm, pcmRate, chunkFrames, scratch, aRate,
          cursor, remaining, broken

Alsa == INSTANCE AlsaStream WITH
          ConfigRate <- WantedRate, running <- aRunning, caller <- aCaller, pc <- aPc,
          rebuilding <- aRebuilding, actualRate <- aRate

alsaVars == <<aRunning, aCaller, aPc, aRebuilding, pcm, pcmRate, chunkFrames, scratch,
              aRate, cursor, remaining, broken>>
-----------------------------------------------------------------------------
DevicesInit == /\ device \in {"output", "null", "wasapi", "alsa"}
               /\ Init /\ Null!Init /\ Wasapi!Init /\ Alsa!Init
               /\ device # "wasapi" => default = None /\ mix = CHOOSE m \in Mixes : TRUE

DevicesNext ==
  /\ UNCHANGED device
  /\ \/ device = "output" /\ Next /\ UNCHANGED <<nullVars, wasapiVars, alsaVars>>
     \/ device = "null" /\ Null!Next /\ UNCHANGED <<vars, wasapiVars, alsaVars>>
     \/ device = "wasapi" /\ Wasapi!Next /\ UNCHANGED <<vars, nullVars, alsaVars>>
     \/ device = "alsa" /\ Alsa!Next /\ UNCHANGED <<vars, nullVars, wasapiVars>>

\* A device that is not started asks for nothing, so the fairness of the ones
\* that stay as they were constructed holds of itself.
DevicesSpec == /\ DevicesInit
               /\ [][DevicesNext]_<<device, vars, nullVars, wasapiVars, alsaVars>>
               /\ Fairness /\ Null!Fairness /\ Wasapi!Fairness /\ Alsa!Fairness
-----------------------------------------------------------------------------
\* Whatever fails on the way: one render thread that can be joined, with one
\* stream, that starts on a block of its own, is there in full when audio is
\* rendered for it, and once closed holds nothing of Windows or of ALSA.
NoDeviceLeavesAnything ==
  /\ NothingIsLeftBehind
  /\ Wasapi!ClosedHoldsNothing /\ Wasapi!RendersWhatItReports
  /\ Alsa!ClosedHoldsNothing /\ Alsa!WritesTheBlock

\* Once a stop() has returned nothing is left that could run the callback or play
\* what it made: no render thread, no client, no PCM.
DevicesFallSilent ==
  StopIsSilence /\ Null!StopIsSilence /\ Wasapi!StopIsSilence /\ Alsa!StopIsSilence

\* The devices keep the contract of AudioDevice, the null device under one more
\* caller: a callback runs only between a start() and the end of a stop(), is
\* never replaced meanwhile, and a stream that unwinds asks for nothing more: the
\* null device for no other block, a hardware device for no other chunk, buffer
\* or period. What was rendered is never played late.
DevicesKeepContract ==
  /\ KeepsContract /\ Null!KeepsContract /\ Wasapi!KeepsContract /\ Alsa!KeepsContract
  /\ Alsa!NothingIsLate

\* A call returns: any call of a lone caller, on the null device a start() even
\* while another thread asks for a stop, for the thread it joins is always one
\* that unwinds (NullAudioDevice::start), and a stop() of a platform's stream
\* without waiting for its timeout.
CallsReturn ==
  LoneCallReturns /\ Null!StartReturns /\ Wasapi!StopNeedsNoTimeout /\ Alsa!StopEnds
=============================================================================
