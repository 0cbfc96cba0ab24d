----------------------------- MODULE MCCallback ------------------------------
(* What the audio callback shares with other threads, in one model for TLC:    *)
(* the ring its samples come through, the slot its settings come through, and  *)
(* the stage that fades over to them. A behaviour belongs to one of the three, *)
(* `structure`, and the others stay as they were constructed.                  *)
EXTENDS SpscRingBuffer, ParameterSlot, PreviewStage

VARIABLE structure

\* The default equaliser has no sections, every other curve has one.
NoneForTheDefault == [curve \in Settings |-> IF curve = DefaultSettings THEN 0 ELSE 1]

CallbackInit == /\ structure \in {"ring", "slot", "preview"}
                /\ Init /\ SlotInit /\ PreviewInit
                /\ structure # "preview" => \A frames \in CrossfadeFrames : crossfadeFrames <= frames

CallbackNext ==
  /\ UNCHANGED structure
  /\ \/ structure = "ring" /\ Next /\ UNCHANGED <<slotVars, previewVars>>
     \/ structure = "slot" /\ SlotNext /\ UNCHANGED <<vars, previewVars>>
     \/ structure = "preview" /\ PreviewNext /\ UNCHANGED <<vars, slotVars>>

\* The ring's threads promise nothing; the others, where they stay as they were
\* constructed, have nothing to do.
CallbackSpec == /\ CallbackInit
                /\ [][CallbackNext]_<<structure, vars, slotVars, previewVars>>
                /\ SlotFairness /\ PreviewFairness
-----------------------------------------------------------------------------
\* The last movement of a control reaches the callback and stays: the slot keeps
\* it fresh until it is fetched, and the stage ends up fading to it.
LastChangeArrives == LastValueArrives /\ Converges
=============================================================================
