---------------------------- MODULE AudioDevice ----------------------------
(***************************************************************************)
(* What an open audio device promises whoever hands it a callback          *)
(* (src/sa-device/include/sa/device/AudioDevice.h): a stream is off, on,   *)
(* or unwinding after somebody asked it to stop; the callback runs only in *)
(* a stream, one call at a time; a stream that began to unwind is never    *)
(* picked up again, so the next one starts from off; and a stream never    *)
(* ends under a call that is still running.                                *)
(*                                                                         *)
(* OutputDevice and NullDevice implement this specification, WasapiStream  *)
(* and AlsaStream as far as they tell its callback from its stream.        *)
(***************************************************************************)

VARIABLES
  stream,      \* "off", "on" or "unwinding"
  inCallback   \* whether the callback is executing

vars == <<stream, inCallback>>

Init == stream = "off" /\ inCallback = FALSE

SwitchOn == stream = "off" /\ stream' = "on" /\ UNCHANGED inCallback

\* A stop was asked for while the thread is being created.
SwitchOnUnwinding == stream = "off" /\ stream' = "unwinding" /\ UNCHANGED inCallback

Wind == stream = "on" /\ stream' = "unwinding" /\ UNCHANGED inCallback

CallbackBegins ==
  /\ stream # "off"
  /\ ~inCallback
  /\ inCallback' = TRUE
  /\ UNCHANGED stream

CallbackEnds == inCallback /\ inCallback' = FALSE /\ UNCHANGED stream

SwitchOff ==
  /\ stream # "off"
  /\ ~inCallback
  /\ stream' = "off"
  /\ UNCHANGED inCallback

Next ==
  \/ SwitchOn \/ SwitchOnUnwinding \/ Wind \/ SwitchOff
  \/ CallbackBegins \/ CallbackEnds

Spec == Init /\ [][Next]_vars
=============================================================================
