---------------------------- MODULE WasapiStream ----------------------------
(***************************************************************************)
(* The Windows half of a playback device                                   *)
(* (src/sa-device/src/WasapiAudioDevice.cpp): what OutputDevice takes for  *)
(* granted of a platform's openStream(), runStream(), closeStream() and    *)
(* wakeStream(), with what each holds of Windows while it does.            *)
(*                                                                         *)
(* Three actors share it: the render thread (the loop of                   *)
(* ThreadedOutputDevice around the platform's functions), one thread that  *)
(* starts and stops the device, and Windows, which takes endpoints away,   *)
(* moves the default output and calls the watcher.  Every call into Windows *)
(* may fail, except the constructor's CreateEventW: without a stop event a *)
(* stop() waits the render timeout out.  A notification is delivered with  *)
(* the change it is about.                                                 *)
(***************************************************************************)
EXTENDS Naturals, FiniteSets

CONSTANTS
  Endpoint,    \* render endpoints
  Absent,      \* no endpoint
  DefaultId,   \* kDefaultDeviceId: the device that follows Windows
  Mixes,       \* bound: the formats mixers run at
  WantedRate   \* config().sampleRate


VARIABLES
  default,     \* the endpoint Windows calls the default, or Absent
  chosen,      \* the id the device was opened with, or Absent
  running,     \* running_
  stopEvent,   \* the manual-reset event is signalled
  caller,      \* where the thread that starts and stops the device is
  pc,          \* where the render thread is
  rebuilding,  \* openStream() is a rebuild
  held,        \* what the stream holds of Windows
  endpoint,    \* the endpoint the stream was last opened on
  mix,         \* and the format its mixer runs at
  streamRate,  \* the rate of the client
  actualRate,  \* setActualSampleRate
  moved        \* defaultEndpointMoved

windows == <<default, chosen>>
found == <<endpoint, mix>>
rates == <<streamRate, actualRate>>
signals == <<running, stopEvent, caller>>
vars == <<default, chosen, running, stopEvent, caller, pc, rebuilding, held, endpoint, mix,
          streamRate, actualRate, moved>>

Init ==
  /\ default \in Endpoint \cup {Absent}
  /\ chosen = Absent
  /\ running = FALSE /\ stopEvent = FALSE /\ caller = "idle"
  /\ pc = "ended" /\ rebuilding = FALSE
  /\ held = {}
  /\ endpoint = Absent /\ mix \in Mixes
  /\ streamRate = 0 /\ actualRate = WantedRate
  /\ moved = FALSE

Goto(there) == pc' = there
-----------------------------------------------------------------------------
(* Windows.  Only a registered watcher hears that the default has moved.   *)

DefaultMoves ==
  /\ default' \in (Endpoint \cup {Absent}) \ {default}
  /\ moved' = (moved \/ "watcher" \in held)
  /\ UNCHANGED <<chosen, signals, pc, rebuilding, held, found, rates>>
-----------------------------------------------------------------------------
(* The backend.  It initialises COM for the call and leaves it as it was.  *)

\* The lists enumerate() may give: the device that follows Windows is always
\* first, an endpoint that will not give its id is left out, and there is none
\* when there is no enumerator.
enumerate == {{}} \cup {{DefaultId} \cup named : named \in SUBSET Endpoint}

\* An endpoint that was named may be there or not at any time.
endpointExists(id) == id = DefaultId => default # Absent

\* A device whose endpoint has gone since it was listed is refused.
open ==
  /\ chosen = Absent
  /\ \E id \in UNION enumerate : endpointExists(id) /\ chosen' = id
  /\ UNCHANGED <<default, signals, pc, rebuilding, held, found, rates, moved>>

followsDefault == chosen = DefaultId
-----------------------------------------------------------------------------
(* start() and stop(), see OutputDevice.                                   *)

Start ==
  /\ chosen # Absent
  /\ caller = "idle" /\ pc = "ended"
  /\ running' = TRUE
  /\ rebuilding' = FALSE
  /\ Goto("configure")
  /\ UNCHANGED <<windows, stopEvent, caller, held, found, rates, moved>>

StopRequests ==
  /\ chosen # Absent
  /\ caller = "idle"
  /\ running' = FALSE
  /\ caller' = "waking"
  /\ UNCHANGED <<windows, stopEvent, pc, rebuilding, held, found, rates, moved>>

wakeStream ==
  /\ caller = "waking"
  /\ stopEvent' = TRUE
  /\ caller' = "joining"
  /\ UNCHANGED <<windows, running, pc, rebuilding, held, found, rates, moved>>

StopJoins ==
  /\ caller = "joining" /\ pc = "ended"
  /\ caller' = "idle"
  /\ UNCHANGED <<windows, running, stopEvent, pc, rebuilding, held, found, rates, moved>>
-----------------------------------------------------------------------------
(* startClient(): Initialize() may be called only once per client, so each *)
(* attempt begins by letting go of what the last one got.                  *)

\* The three formats the stream can feed; packed 24-bit is refused.
classifyFormat(format) ==
  CASE format.tag = "float" /\ format.bits = 32 -> "Float32"
    [] format.tag = "pcm" /\ format.bits = 16 -> "Int16"
    [] format.tag = "pcm" /\ format.bits = 32 -> "Int32"
    [] OTHER -> "refused"

\* The mixer's own format, its speaker arrangement included, at another rate.
copyFormatAtRate(format, rate) == [format EXCEPT !.rate = rate]

\* A handle that is overwritten is never closed.
createEvent(holding) == holding \cup {IF "event" \in holding THEN "lostEvent" ELSE "event"}

\* A bug: the event of the attempt before is forgotten.
startClient_KeepsEvent(holding, format) ==
  LET fresh == holding \ {"render", "client"}
      activated == fresh \cup {"client"}
      signalled == createEvent(activated)
  IN  IF classifyFormat(format) = "refused" THEN {[held |-> fresh, ok |-> FALSE]}
      ELSE {[held |-> h, ok |-> FALSE] : h \in {fresh, activated, signalled}}
             \cup {[held |-> signalled \cup {"render"}, ok |-> TRUE]}

\* What each way through startClient() leaves held.
startClient(holding, format) ==
  LET fresh == holding \ {"render", "client", "event"}
      activated == fresh \cup {"client"}
      signalled == createEvent(activated)
  IN  IF classifyFormat(format) = "refused" THEN {[held |-> fresh, ok |-> FALSE]}
      ELSE {[held |-> h, ok |-> FALSE] : h \in {fresh, activated, signalled}}
             \cup {[held |-> signalled \cup {"render"}, ok |-> TRUE]}
-----------------------------------------------------------------------------
(* openStream().                                                           *)

OpenFails == Goto(IF rebuilding THEN "failedClose" ELSE "finalClose")

\* MMCSS can be disabled by policy.
configureRenderThread ==
  /\ pc = "configure"
  /\ held' \in {held, held \cup {"task"}}
  /\ Goto("com")
  /\ UNCHANGED <<windows, signals, rebuilding, found, rates, moved>>

OpenInitialisesCom ==
  /\ pc = "com"
  /\ \/ held' = held \cup {"com"} /\ Goto("ask")
     \/ "com" \notin held /\ held' = held /\ OpenFails
  /\ UNCHANGED <<windows, signals, rebuilding, found, rates, moved>>

OpenAsks ==
  /\ pc = "ask"
  /\ Goto(IF running THEN "reset" ELSE "find")
  /\ UNCHANGED <<windows, signals, rebuilding, held, found, rates, moved>>

OpenResets ==
  /\ pc = "reset"
  /\ stopEvent' = FALSE
  /\ Goto("find")
  /\ UNCHANGED <<windows, running, caller, rebuilding, held, found, rates, moved>>

\* The enumerator, the endpoint, and the format its mixer runs at; a rate that
\* differs is asked for when the mixer's format can be copied.
OpenFinds ==
  /\ pc = "find"
  /\ \/ held' = held \ {"enumerator"} /\ OpenFails /\ UNCHANGED found
     \/ held' = held \cup {"enumerator"} /\ OpenFails /\ UNCHANGED found
     \/ /\ held' = held \cup {"enumerator"}
        /\ endpointExists(chosen)
        /\ endpoint' = IF followsDefault THEN default ELSE chosen
        /\ mix' \in Mixes
        /\ Goto(IF WantedRate # mix'.rate /\ mix'.copyable THEN "retune" ELSE "plain")
  /\ UNCHANGED <<windows, signals, rebuilding, rates, moved>>

\* A bug: the rate is the one that was asked for, whatever the client runs at.
Opened_AtWantedRate(format) ==
  /\ streamRate' = format.rate
  /\ actualRate' = WantedRate
  /\ Goto("register")

Opened(format) ==
  /\ streamRate' = format.rate
  /\ actualRate' = format.rate
  /\ Goto("register")

\* The endpoint may not do the conversion: then the mixer's own format is used.
OpenRetuned ==
  /\ pc = "retune"
  /\ LET tuned == copyFormatAtRate(mix, WantedRate) IN
     \E outcome \in startClient(held, tuned) :
       /\ held' = outcome.held
       /\ IF outcome.ok THEN Opened(tuned)
                        ELSE Goto("plain") /\ UNCHANGED rates
  /\ UNCHANGED <<windows, signals, rebuilding, found, moved>>

OpenPlain ==
  /\ pc = "plain"
  /\ \E outcome \in startClient(held, mix) :
       /\ held' = outcome.held
       /\ IF outcome.ok THEN Opened(mix) ELSE OpenFails /\ UNCHANGED rates
  /\ UNCHANGED <<windows, signals, rebuilding, found, moved>>

\* Only the device that follows Windows has a watcher; a registration that is
\* refused leaves it without one.
OpenRegisters ==
  /\ pc = "register"
  /\ \/ held' = held
     \/ followsDefault /\ held' = held \cup {"watcher"}
  /\ Goto("clear")
  /\ UNCHANGED <<windows, signals, rebuilding, found, rates, moved>>

OpenClears ==
  /\ pc = "clear"
  /\ moved' = FALSE
  /\ Goto("loop")
  /\ UNCHANGED <<windows, signals, rebuilding, held, found, rates>>
-----------------------------------------------------------------------------
(* runStream() and renderAvailable(), in the loop of the base class.       *)

Whole == {"client", "render", "event"} \subseteq held

RenderLoop ==
  /\ pc = "loop"
  /\ Goto(IF running THEN "enter" ELSE "finalClose")
  /\ UNCHANGED <<windows, signals, rebuilding, held, found, rates, moved>>

\* A stream that was never built, or a client that will not start, is closed.
RunEnters ==
  /\ pc = "enter"
  /\ \/ Whole /\ Goto("turn")
     \/ Goto("close")
  /\ UNCHANGED <<windows, signals, rebuilding, held, found, rates, moved>>

\* A bug: the wait is trusted to notice a stop.
RunTurns_Unasked ==
  /\ pc = "turn"
  /\ Goto(IF moved THEN "close" ELSE "wait")
  /\ UNCHANGED <<windows, signals, rebuilding, held, found, rates, moved>>

\* Ends when the device is not wanted any more and when the default has moved.
RunTurns ==
  /\ pc = "turn"
  /\ Goto(IF ~running \/ moved THEN "close" ELSE "wait")
  /\ UNCHANGED <<windows, signals, rebuilding, held, found, rates, moved>>

WaitIsStopped ==
  /\ pc = "wait" /\ stopEvent
  /\ Goto("close")
  /\ UNCHANGED <<windows, signals, rebuilding, held, found, rates, moved>>

\* The endpoint asks for audio; a buffer that is full is left alone, one that
\* is gone ends the stream.  The callback may stop its own device.
renderAvailable ==
  /\ pc = "wait"
  /\ running' \in {running, FALSE}
  /\ Goto("turn") \/ Goto("close")
  /\ UNCHANGED <<windows, stopEvent, caller, rebuilding, held, found, rates, moved>>

\* Two seconds without being asked: the stream is dead.
WaitTimesOut ==
  /\ pc = "wait"
  /\ Goto("close")
  /\ UNCHANGED <<windows, signals, rebuilding, held, found, rates, moved>>
-----------------------------------------------------------------------------
(* closeStream(), in the three places the base class calls it.             *)

\* A bug: the enumerator is let go of first, so nothing is left to take the
\* watcher off.
closed_WatcherLast(holding) ==
  LET kept == holding \ {"watcher", "render", "client", "enumerator", "event"}
  IN  IF "watcher" \in holding THEN kept \cup {"registration"} ELSE kept

\* A watcher is taken off through the enumerator it was registered with.
closed(holding) ==
  LET kept == holding \ {"watcher", "render", "client", "enumerator", "event"}
  IN  IF "watcher" \in holding /\ "enumerator" \notin holding
      THEN kept \cup {"registration"} ELSE kept

closeStream ==
  /\ pc \in {"close", "failedClose", "finalClose"}
  /\ held' = closed(held)
  /\ Goto(CASE pc = "close" -> "again" [] pc = "failedClose" -> "loop" [] OTHER -> "release")
  /\ UNCHANGED <<windows, signals, rebuilding, found, rates, moved>>

\* Back-off included.
RenderRebuilds ==
  /\ pc = "again"
  /\ IF running THEN rebuilding' = TRUE /\ Goto("com")
                ELSE Goto("finalClose") /\ UNCHANGED rebuilding
  /\ UNCHANGED <<windows, signals, held, found, rates, moved>>

releaseRenderThread ==
  /\ pc = "release"
  /\ held' = held \ {"task", "com"}
  /\ Goto("ended")
  /\ UNCHANGED <<windows, signals, rebuilding, found, rates, moved>>
-----------------------------------------------------------------------------
\* What the render thread does of itself: all but being asked for audio, and
\* the two seconds it waits for that.
RenderStep ==
  \/ configureRenderThread \/ OpenInitialisesCom \/ OpenAsks \/ OpenResets \/ OpenFinds
  \/ OpenRetuned \/ OpenPlain \/ OpenRegisters \/ OpenClears
  \/ RenderLoop \/ RunEnters \/ RunTurns \/ WaitIsStopped
  \/ closeStream \/ RenderRebuilds \/ releaseRenderThread

Next ==
  \/ DefaultMoves \/ open
  \/ Start \/ StopRequests \/ wakeStream \/ StopJoins
  \/ RenderStep \/ renderAvailable \/ WaitTimesOut

\* Calls into Windows return; nothing is assumed of the endpoint, which may
\* never ask for audio again, nor of the timeout.
Fairness == WF_vars(RenderStep) /\ WF_vars(wakeStream \/ StopJoins)

Spec == Init /\ [][Next]_vars /\ Fairness
-----------------------------------------------------------------------------
(* Properties.                                                             *)

\* What OutputDevice relies on: a stream that is closed holds nothing, however
\* far it had been built and whichever call into Windows failed; COM outlives
\* every object that lives in it; and a thread that has ended has given back
\* its apartment and its MMCSS registration.
ClosedHoldsNothing ==
  /\ pc \in {"configure", "ended"} => held = {}
  /\ pc \in {"again", "release"} => held \subseteq {"com", "task"}
  /\ held \cap {"enumerator", "client", "render", "watcher"} # {} => "com" \in held
  /\ held \cap {"lostEvent", "registration"} = {}

\* Audio is rendered for a stream that is there in full, at the rate
\* the device reports, which is the one asked for or the mixer's own.
RendersWhatItReports ==
  pc \in {"turn", "wait"} =>
    /\ Whole
    /\ actualRate = streamRate /\ streamRate \in {WantedRate, mix.rate}

\* When a stop() returns, the render thread has ended and no client is left that
\* could play.
StopIsSilence == [][caller = "joining" /\ caller' = "idle" => pc = "ended" /\ held = {}]_vars

\* As a device: on from start() until somebody, or the callback itself, asks it to
\* stop. (A buffer is rendered in one step.)
Stream == IF pc = "ended" THEN "off" ELSE IF running THEN "on" ELSE "unwinding"
Contract == INSTANCE AudioDevice WITH stream <- Stream, inCallback <- FALSE

\* The stream keeps its half of the contract of AudioDevice: one that unwinds is
\* not picked up again, and waits for no further buffer.
KeepsContract == Contract!Spec /\ [][pc # "wait" /\ pc' = "wait" => Stream = "on"]_vars

\* "Signalled by stop(), so shutting down does not wait out the render timeout":
\* a stop ends the render thread even if the endpoint never asks again, although
\* a stream being opened meanwhile may take the signal away.
StopNeedsNoTimeout == caller = "joining" ~> pc = "ended"

\* "Callers see nothing but a gap" when Windows moves the default: the stream
\* that plays is on it, or has been told. It does not hold: a move between
\* finding the endpoint and clearing the flag is forgotten (README, "Seen while
\* modelling").
PlaysOnTheDefault ==
  pc = "wait" /\ "watcher" \in held => endpoint = default \/ moved
=============================================================================
