---------------------------- MODULE LatestAnswer -----------------------------
(* What a panel that computes on a worker promises: whatever is asked again    *)
(* and again, and however many workers are still running, the only answer that *)
(* is ever shown is the one to the latest question, and it is shown once.      *)
CONSTANTS Requests, None

VARIABLES asked,    \* the question that is still unanswered, or None
          shown     \* the question whose answer is on screen, or None

Init == asked = None /\ shown = None

\* A new question replaces the one before; the old figures stay meanwhile.
Ask(r) == asked' = r /\ UNCHANGED shown

\* The question is given up, and the figures stay or are taken down.
Withdraw == asked' = None /\ shown' \in {shown, None}

\* The answer arrives, or the news that there is none.
Answer == asked # None /\ shown' \in {asked, None} /\ asked' = None

\* What was on screen belongs to a document that is no longer there.
TakeDown == shown' = None /\ UNCHANGED asked

Next == (\E r \in Requests : Ask(r)) \/ Withdraw \/ Answer \/ TakeDown

Spec == Init /\ [][Next]_<<asked, shown>>
=============================================================================
