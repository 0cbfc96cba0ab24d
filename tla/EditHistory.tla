----------------------------- MODULE EditHistory ------------------------------
(* What undo and redo promise: a line of versions with the current one in the  *)
(* middle. An edit puts a new version after the current one and the versions   *)
(* that had been undone are gone; undo and redo move along the line and show   *)
(* exactly the version they arrive at. The oldest versions may be forgotten,   *)
(* and nothing else ever is.                                                   *)
EXTENDS Naturals, Sequences

VARIABLES
  past,      \* versions before the current one, oldest first
  present,   \* the current version
  future,    \* versions that were undone, the next one first
  shown      \* the document the user works on

history == <<past, present, future>>
vars == <<history, shown>>

Init == past = <<>> /\ future = <<>> /\ shown = present

Line == past \o <<present>> \o future

Edit == /\ \E n \in 1..Len(past) + 1 : past' = SubSeq(past \o <<present>>, n, Len(past) + 1)
        /\ future' = <<>>
        /\ present' = shown'

\* A gesture still going on replaces the newest version.
Amend == /\ past # <<>> /\ future = <<>>
         /\ present' = shown'
         /\ UNCHANGED <<past, future>>

\* Moving along the line loses nothing and shows the version arrived at.
Move == Line' = Line /\ shown' = present'

Undo == past # <<>> /\ Move /\ Len(past') = Len(past) - 1
Redo == future # <<>> /\ Move /\ Len(past') = Len(past) + 1

\* An edit that fails half way leaves marks that are in no version.
Stray == UNCHANGED history

Next == Edit \/ Amend \/ Undo \/ Redo \/ Move \/ Stray
Spec == Init /\ [][Next]_vars
===============================================================================
