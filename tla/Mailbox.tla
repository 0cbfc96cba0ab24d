------------------------------- MODULE Mailbox -------------------------------
(***************************************************************************)
(* What a ParameterSlot promises: a one-place mailbox in which a new value *)
(* replaces an uncollected one, and every value is collected whole, at     *)
(* most once, and never after a newer one was published                    *)
(* (src/sa-engine/include/sa/engine/ParameterSlot.h).                      *)
(***************************************************************************)
CONSTANTS
  Value,    \* the values that can be published
  Default,  \* what the reader holds before it has collected anything
  Nothing   \* no value is waiting

VARIABLES
  waiting,  \* the value not yet collected, or Nothing
  received  \* the value the reader collected last

vars == <<waiting, received>>

Init == waiting = Nothing /\ received = Default

Publish(value) == waiting' = value /\ UNCHANGED received

Collect ==
  /\ waiting # Nothing
  /\ received' = waiting
  /\ waiting' = Nothing

Next == (\E value \in Value : Publish(value)) \/ Collect

Spec == Init /\ [][Next]_vars
=============================================================================
