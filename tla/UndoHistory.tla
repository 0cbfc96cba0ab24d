----------------------------- MODULE UndoHistory ------------------------------
(* Undo and redo by snapshots (sa-engine/UndoHistory): every state of the      *)
(* document since it was opened, up to a depth, and a cursor into them. What   *)
(* a document is made of does not matter here. The code counts entries from 0, *)
(* this module from 1.                                                         *)
EXTENDS Integers, Sequences

CONSTANTS
  Documents,  \* every document there can be
  Labels,     \* the names of edits
  MaxDepth    \* entries kept; the constructor raises it to 2

ASSUME MaxDepthAssumption == MaxDepth \in Nat /\ MaxDepth >= 2

VARIABLES
  document,   \* the document edits work on
  states,     \* states_: the snapshots, oldest first
  labels,     \* labels_: the name of the edit that led to each
  cursor      \* cursor_: the snapshot that is current

historyVars == <<states, labels, cursor>>
undoVars == <<document, historyVars>>

HistoryInit == /\ document \in Documents
               /\ states = <<document>>
               /\ labels = <<"Open">>
               /\ cursor = 1

canUndo == cursor > 1
canRedo == cursor < Len(states)

-------------------------------------------------------------------------------

\* trimToDepth on the list about to be stored: the oldest entries go
Trimmed(list) == IF Len(list) > MaxDepth THEN SubSeq(list, Len(list) - MaxDepth + 1, Len(list)) ELSE list

\* Bug variant: the redo branch is not cut.
commit_KeepsRedo(label) ==
  /\ states' = Trimmed(Append(states, document'))
  /\ labels' = Trimmed(Append(labels, label))
  /\ cursor' = Len(states')

\* commit: whatever was ahead of the cursor is abandoned
commit(label) ==
  /\ states' = Trimmed(Append(SubSeq(states, 1, cursor), document'))
  /\ labels' = Trimmed(Append(SubSeq(labels, 1, cursor), label))
  /\ cursor' = Len(states')

\* commitCoalescing: only onto the newest entry, and only one of the same name
commitCoalescing(label) ==
  IF cursor > 1 /\ cursor = Len(states) /\ labels[cursor] = label
  THEN /\ states' = [states EXCEPT ![cursor] = document']
       /\ UNCHANGED <<labels, cursor>>
  ELSE commit(label)

\* apply: the document becomes the snapshot at the cursor
GoTo(index) == /\ cursor' = index
               /\ document' = states[index]
               /\ UNCHANGED <<states, labels>>

undo == canUndo /\ GoTo(cursor - 1)
redo == canRedo /\ GoTo(cursor + 1)
restore(index) == index \in 1..Len(states) /\ GoTo(index)

\* An edit that changed the document and then failed is not committed.
abandoned == document' \in Documents /\ UNCHANGED historyVars

-------------------------------------------------------------------------------
HistoryNext == \/ \E label \in Labels : /\ document' \in Documents
                                        /\ commit(label) \/ commitCoalescing(label)
               \/ undo
               \/ redo
               \/ \E index \in 1..Len(states) : restore(index)
               \/ abandoned

HistorySpec == HistoryInit /\ [][HistoryNext]_undoVars

-------------------------------------------------------------------------------
(* The snapshots and their labels stay in step and the cursor stays inside. *)
HistoryTypeOK == /\ document \in Documents
                 /\ states \in Seq(Documents)
                 /\ labels \in Seq(Labels \cup {"Open"})
                 /\ Len(labels) = Len(states)
                 /\ cursor \in 1..Len(states)
                 /\ Len(states) <= MaxDepth

\* The line of versions the snapshots and the cursor stand for.
EditLine == INSTANCE EditHistory WITH
              past    <- SubSeq(states, 1, cursor - 1),
              present <- states[cursor],
              future  <- SubSeq(states, cursor + 1, Len(states)),
              shown   <- document

(* Whatever is edited, undone and redone, in any order and past any depth, the *)
(* history behaves as the line of versions of EditHistory: undo and redo show  *)
(* exactly the neighbouring version, an edit discards exactly the versions     *)
(* undone, and only the oldest are ever forgotten.                             *)
KeepsTheLine == EditLine!Spec
===============================================================================
