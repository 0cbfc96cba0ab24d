---------------------------- MODULE SessionProofs ----------------------------
(***************************************************************************)
(* The history of UndoHistory implements the line of versions of           *)
(* EditHistory, for any documents and depth.  And around it, for any       *)
(* sessions, pieces of audio and depth: saving never changes what the open *)
(* document or a version in its history sounds like, and a session that    *)
(* was reported as saved sounds the same when it is opened again, unless a *)
(* write that failed has left one of its files broken.                     *)
(*                                                                         *)
(* A save writes files named by ids, and ids are used again: after undo,   *)
(* and in a session that has been opened and numbered anew.  What keeps a  *)
(* save from writing over what is still needed is a relation between any   *)
(* two of the versions held, the open document and its snapshots: audio    *)
(* that has no file yet in one of them never has the number of a file that *)
(* another was opened from, and two made under the same id are the same    *)
(* (Compatible).  It holds because the counter never goes back along the   *)
(* history (CounterGrows), and is behind every number that was read.       *)
(***************************************************************************)
EXTENDS Session, SequenceTheorems, TLAPS
-----------------------------------------------------------------------------
(* The history by itself, for any documents: its snapshots, labels and     *)
(* cursor stay in step, and it is the line of versions of EditHistory.     *)

\* What is stored after a commit onto the entries Q, one case each: them and the
\* new one, or, when there is no room, all but the oldest of them and the new one.
LEMMA TrimmedRoom ==
  ASSUME NEW S, NEW Q \in Seq(S), NEW x \in S, NEW c \in 1..MaxDepth, Len(Q) = c, c < MaxDepth,
         NEW kept, kept = Trimmed(Append(Q, x))
  PROVE  /\ kept \in Seq(S) /\ Len(kept) = c + 1 /\ kept[c + 1] = x
         /\ SubSeq(kept, 1, c) = SubSeq(Q, 1, c)
<1>0. MaxDepth \in Nat /\ MaxDepth >= 2 /\ c \in Nat /\ c >= 1 /\ c <= MaxDepth
  BY MaxDepthAssumption
<1>1. PICK A : A = Append(Q, x)  OBVIOUS
<1>2. A \in Seq(S) /\ Len(A) = c + 1 /\ A[c + 1] = x /\ A = Q \o <<x>> /\ <<x>> \in Seq(S)
  BY <1>1
<1>3. kept = A  BY <1>0, <1>1, <1>2 DEF Trimmed
<1>4. SubSeq(A, 1, c) = SubSeq(Q, 1, c)
  <2>1. 1 \in 1..Len(Q) /\ c \in 1..Len(Q)  BY <1>0
  <2> QED BY <1>2, <2>1, SubSeqOfConcat1
<1> QED BY <1>2, <1>3, <1>4

LEMMA TrimmedFull ==
  ASSUME NEW S, NEW Q \in Seq(S), NEW x \in S, Len(Q) = MaxDepth,
         NEW kept, kept = Trimmed(Append(Q, x))
  PROVE  /\ kept \in Seq(S) /\ Len(kept) = MaxDepth /\ kept[MaxDepth] = x
         /\ SubSeq(kept, 1, MaxDepth - 1) = SubSeq(Q, 2, MaxDepth)
<1>0. MaxDepth \in Nat /\ MaxDepth >= 2
  BY MaxDepthAssumption
<1>1. PICK A : A = Append(Q, x)  OBVIOUS
<1>2. A \in Seq(S) /\ Len(A) = MaxDepth + 1 /\ A[MaxDepth + 1] = x /\ A = Q \o <<x>> /\ <<x>> \in Seq(S)
  BY <1>1
<1>3. kept = SubSeq(A, 2, MaxDepth + 1)  BY <1>0, <1>1, <1>2 DEF Trimmed
<1>4. kept \in Seq(S) /\ Len(kept) = MaxDepth /\ \A i \in 1..MaxDepth : kept[i] = A[i + 1]
  <2>1. \A i \in 2..MaxDepth + 1 : A[i] \in S  BY <1>0, <1>2
  <2>2. 2 \in Int /\ MaxDepth + 1 \in Int /\ 2 <= MaxDepth + 1  BY <1>0
  <2>3. /\ SubSeq(A, 2, MaxDepth + 1) \in Seq(S)
        /\ Len(SubSeq(A, 2, MaxDepth + 1)) = IF 2 <= MaxDepth + 1 THEN (MaxDepth + 1) - 2 + 1 ELSE 0
        /\ \A i \in 1..(MaxDepth + 1) - 2 + 1 : SubSeq(A, 2, MaxDepth + 1)[i] = A[2 + i - 1]
    BY <2>1, <2>2, SubSeqProperties
  <2>4. \A i \in 1..MaxDepth : 2 + i - 1 = i + 1  BY <1>0
  <2>5. (MaxDepth + 1) - 2 + 1 = MaxDepth  BY <1>0
  <2> QED BY <1>3, <2>2, <2>3, <2>4, <2>5
<1>5. SubSeq(kept, 1, MaxDepth - 1) = SubSeq(A, 2, MaxDepth)
  <2>0. PICK c : c = MaxDepth  OBVIOUS
  <2>1. /\ c \in Nat /\ c >= 2 /\ Len(A) = c + 1
        /\ 2 \in 1..Len(A) /\ c + 1 \in 1..Len(A)
        /\ 1 \in 1..(c + 1) - 2 + 1 /\ c - 1 \in 1..(c + 1) - 2 + 1
    BY <1>0, <1>2, <2>0
  <2>2. SubSeq(SubSeq(A, 2, c + 1), 1, c - 1) = SubSeq(A, 2 + 1 - 1, 2 + (c - 1) - 1)
    BY <1>2, <2>1, SubSeqOfSubSeq
  <2>3. 2 + 1 - 1 = 2 /\ 2 + (c - 1) - 1 = c  BY <2>1
  <2> QED BY <1>3, <2>0, <2>2, <2>3
<1>6. SubSeq(A, 2, MaxDepth) = SubSeq(Q, 2, MaxDepth)
  <2>1. 2 \in 1..Len(Q) /\ MaxDepth \in 1..Len(Q)  BY <1>0
  <2> QED BY <1>2, <2>1, SubSeqOfConcat1
<1>7. kept[MaxDepth] = x  BY <1>0, <1>2, <1>4
<1> QED BY <1>4, <1>5, <1>6, <1>7

\* The entries up to the cursor.
LEMMA Prefix ==
  ASSUME NEW S, NEW list \in Seq(S), NEW c \in 1..Len(list)
  PROVE  SubSeq(list, 1, c) \in Seq(S) /\ Len(SubSeq(list, 1, c)) = c
<1>1. \A i \in 1..c : list[i] \in S  OBVIOUS
<1>2. 1 \in Int /\ c \in Int /\ 1 <= c /\ c - 1 + 1 = c  OBVIOUS
<1> QED BY <1>1, <1>2, SubSeqProperties

\* A list cut at one of its places is the part before, the place and the part
\* after.
LEMMA CutList ==
  ASSUME NEW S, NEW list \in Seq(S), NEW c \in 1..Len(list)
  PROVE  /\ SubSeq(list, 1, c - 1) \in Seq(S) /\ Len(SubSeq(list, 1, c - 1)) = c - 1
         /\ SubSeq(list, c + 1, Len(list)) \in Seq(S)
         /\ Len(SubSeq(list, c + 1, Len(list))) = Len(list) - c
         /\ SubSeq(list, 1, c - 1) \o <<list[c]>> = SubSeq(list, 1, c)
         /\ SubSeq(list, 1, c - 1) \o <<list[c]>> \o SubSeq(list, c + 1, Len(list)) = list
<1>1. Len(list) \in Nat /\ c \in Nat /\ c >= 1 /\ \A i \in 1..Len(list) : list[i] \in S
  OBVIOUS
<1>2. SubSeq(list, 1, c - 1) \in Seq(S) /\ Len(SubSeq(list, 1, c - 1)) = c - 1
  BY <1>1, SubSeqProperties
<1>3. /\ SubSeq(list, c + 1, Len(list)) \in Seq(S)
      /\ Len(SubSeq(list, c + 1, Len(list))) = Len(list) - c
  BY <1>1, SubSeqProperties
<1>4. SubSeq(list, 1, c) = SubSeq(list, 1, c - 1) \o <<list[c]>>
  BY <1>1, SubSeqRecursiveSecond
<1>5. SubSeq(list, 1, c) \o SubSeq(list, c + 1, Len(list)) = SubSeq(list, 1, Len(list))
  BY <1>1, ConcatAdjacentSubSeq
<1>6. SubSeq(list, 1, Len(list)) = list
  BY SubSeqFull
<1> QED BY <1>2, <1>3, <1>4, <1>5, <1>6

-----------------------------------------------------------------------------
(* What a commit leaves, and what a coalesced one does. *)

LEMMA CommitEffect ==
  ASSUME HistoryTypeOK, document' \in Documents, NEW label \in Labels, commit(label)
  PROVE  /\ HistoryTypeOK'
         /\ SubSeq(states', cursor' + 1, Len(states')) = <<>>
         /\ states'[cursor'] = document'
         /\ \E n \in 1..cursor : SubSeq(states', 1, cursor' - 1) = SubSeq(SubSeq(states, 1, cursor), n, cursor)
<1>0. MaxDepth \in Nat /\ MaxDepth >= 2  BY MaxDepthAssumption
<1>1. /\ states \in Seq(Documents) /\ labels \in Seq(Labels \cup {"Open"})
      /\ cursor \in 1..Len(states) /\ Len(labels) = Len(states) /\ Len(states) <= MaxDepth
      /\ cursor \in 1..Len(labels) /\ cursor <= MaxDepth /\ cursor \in Nat /\ cursor >= 1
  BY <1>0 DEF HistoryTypeOK
<1>2. PICK Q, L : Q = SubSeq(states, 1, cursor) /\ L = SubSeq(labels, 1, cursor)
  OBVIOUS
<1>3. /\ Q \in Seq(Documents) /\ Len(Q) = cursor /\ states' = Trimmed(Append(Q, document'))
      /\ L \in Seq(Labels \cup {"Open"}) /\ Len(L) = cursor /\ labels' = Trimmed(Append(L, label))
      /\ cursor' = Len(states')
  BY <1>1, <1>2, Prefix DEF commit
<1>4. cursor \in 1..MaxDepth  BY <1>0, <1>1
<1>s. /\ document' \in Documents
      /\ Q \in Seq(Documents) /\ Len(Q) = cursor /\ states' = Trimmed(Append(Q, document'))
  BY <1>3
<1>l. /\ label \in Labels \cup {"Open"}
      /\ L \in Seq(Labels \cup {"Open"}) /\ Len(L) = cursor /\ labels' = Trimmed(Append(L, label))
  BY <1>3
<1>5. ASSUME NEW n \in 1..cursor, cursor' = Len(states'), Len(states') \in 1..MaxDepth,
             states' \in Seq(Documents), labels' \in Seq(Labels \cup {"Open"}),
             Len(labels') = Len(states'), states'[Len(states')] = document',
             SubSeq(states', 1, Len(states') - 1) = SubSeq(Q, n, cursor)
      PROVE  /\ HistoryTypeOK'
             /\ SubSeq(states', cursor' + 1, Len(states')) = <<>>
             /\ states'[cursor'] = document'
             /\ \E m \in 1..cursor : SubSeq(states', 1, cursor' - 1) = SubSeq(Q, m, cursor)
  <2>1. HistoryTypeOK'  BY <1>0, <1>5 DEF HistoryTypeOK
  <2>2. SubSeq(states', cursor' + 1, Len(states')) = <<>>  BY <1>0, <1>5, SubSeqEmpty
  <2>3. states'[cursor'] = document'  BY <1>5
  <2>4. SubSeq(states', 1, cursor' - 1) = SubSeq(Q, n, cursor)  BY <1>5
  <2> QED BY <2>1, <2>2, <2>3, <2>4
<1>6. CASE cursor < MaxDepth
  <2>0. SubSeq(states', 1, cursor) = SubSeq(Q, 1, cursor)
    BY <1>4, <1>s, <1>6, TrimmedRoom
  <2>1. states' \in Seq(Documents) /\ Len(states') = cursor + 1 /\ states'[cursor + 1] = document'
    BY <1>4, <1>s, <1>6, TrimmedRoom
  <2>2. labels' \in Seq(Labels \cup {"Open"}) /\ Len(labels') = cursor + 1
    BY <1>4, <1>l, <1>6, TrimmedRoom
  <2>3. 1 \in 1..cursor /\ cursor + 1 \in 1..MaxDepth /\ (cursor + 1) - 1 = cursor
    BY <1>0, <1>1, <1>6
  <2> QED BY <1>2, <1>3, <1>5, <2>0, <2>1, <2>2, <2>3
<1>7. CASE ~(cursor < MaxDepth)
  <2>c. cursor = MaxDepth /\ Len(Q) = MaxDepth /\ Len(L) = MaxDepth  BY <1>0, <1>1, <1>3, <1>7
  <2>0. SubSeq(states', 1, MaxDepth - 1) = SubSeq(Q, 2, MaxDepth)
    BY <1>s, <2>c, TrimmedFull
  <2>1. states' \in Seq(Documents) /\ Len(states') = MaxDepth /\ states'[MaxDepth] = document'
    BY <1>s, <2>c, TrimmedFull
  <2>2. labels' \in Seq(Labels \cup {"Open"}) /\ Len(labels') = MaxDepth
    BY <1>l, <2>c, TrimmedFull
  <2>3. 2 \in 1..cursor /\ MaxDepth \in 1..MaxDepth
    BY <1>0, <2>c
  <2> QED BY <1>2, <1>3, <1>5, <2>c, <2>0, <2>1, <2>2, <2>3
<1> QED BY <1>6, <1>7

\* A commit puts a version after the current one.
LEMMA CommitIsEdit ==
  ASSUME HistoryTypeOK, document' \in Documents, NEW label \in Labels, commit(label)
  PROVE  EditLine!Edit
<1>1. cursor \in 1..Len(states) /\ states \in Seq(Documents)  BY DEF HistoryTypeOK
<1>2. /\ Len(SubSeq(states, 1, cursor - 1)) = cursor - 1
      /\ SubSeq(states, 1, cursor - 1) \o <<states[cursor]>> = SubSeq(states, 1, cursor)
  BY <1>1, CutList
<1>3. Len(SubSeq(states, 1, cursor - 1)) + 1 = cursor
  BY <1>1, <1>2
<1> QED BY <1>2, <1>3, CommitEffect DEF EditLine!Edit

LEMMA CoalescingEffect ==
  ASSUME HistoryTypeOK, document' \in Documents, NEW label \in Labels, commitCoalescing(label)
  PROVE  HistoryTypeOK' /\ (EditLine!Edit \/ EditLine!Amend)
<1>1. CASE cursor > 1 /\ cursor = Len(states) /\ labels[cursor] = label
  <2>1. /\ states \in Seq(Documents) /\ Len(states) \in Nat /\ cursor = Len(states) /\ cursor > 1
        /\ states' = [states EXCEPT ![cursor] = document'] /\ cursor' = cursor /\ labels' = labels
    BY <1>1 DEF HistoryTypeOK, commitCoalescing
  <2>2. /\ states' \in Seq(Documents) /\ Len(states') = Len(states)
        /\ states'[cursor] = document'
        /\ \A i \in 1..cursor - 1 : states'[i] = states[i]
    BY <2>1
  <2>3. HistoryTypeOK'
    BY <2>1, <2>2 DEF HistoryTypeOK
  <2>4. SubSeq(states, cursor + 1, Len(states)) = <<>> /\ SubSeq(states', cursor' + 1, Len(states')) = <<>>
    BY <2>1, <2>2, SubSeqEmpty
  <2>5. /\ SubSeq(states, 1, cursor - 1) \in Seq(Documents)
        /\ SubSeq(states', 1, cursor - 1) \in Seq(Documents)
        /\ Len(SubSeq(states, 1, cursor - 1)) = cursor - 1
        /\ Len(SubSeq(states', 1, cursor - 1)) = cursor - 1
        /\ \A i \in 1..cursor - 1 : SubSeq(states, 1, cursor - 1)[i] = states[i]
        /\ \A i \in 1..cursor - 1 : SubSeq(states', 1, cursor - 1)[i] = states'[i]
    <3>1. /\ \A i \in 1..cursor - 1 : states[i] \in Documents
          /\ \A i \in 1..cursor - 1 : states'[i] \in Documents
      BY <2>1, <2>2
    <3>2. 1 \in Int /\ cursor - 1 \in Int /\ cursor - 1 >= 1  BY <2>1
    <3>3. /\ SubSeq(states, 1, cursor - 1) \in Seq(Documents)
          /\ Len(SubSeq(states, 1, cursor - 1)) = cursor - 1
          /\ \A i \in 1..cursor - 1 : SubSeq(states, 1, cursor - 1)[i] = states[i]
      BY <3>1, <3>2, SubSeqProperties
    <3>4. /\ SubSeq(states', 1, cursor - 1) \in Seq(Documents)
          /\ Len(SubSeq(states', 1, cursor - 1)) = cursor - 1
          /\ \A i \in 1..cursor - 1 : SubSeq(states', 1, cursor - 1)[i] = states'[i]
      BY <3>1, <3>2, SubSeqProperties
    <3> QED BY <3>3, <3>4
  <2>6. SubSeq(states', 1, cursor' - 1) = SubSeq(states, 1, cursor - 1)
    BY <2>1, <2>2, <2>5, SeqEqual
  <2>7. SubSeq(states, 1, cursor - 1) # <<>>
    BY <2>1, <2>5
  <2>8. EditLine!Amend
    BY <2>1, <2>2, <2>4, <2>6, <2>7 DEF EditLine!Amend
  <2> QED BY <2>3, <2>8
<1>2. CASE ~(cursor > 1 /\ cursor = Len(states) /\ labels[cursor] = label)
  <2>1. commit(label)  BY <1>2 DEF commitCoalescing
  <2> QED BY <2>1, CommitEffect, CommitIsEdit
<1> QED BY <1>1, <1>2

\* Going to an entry keeps the line and shows the version there.
LEMMA GoToEffect ==
  ASSUME HistoryTypeOK, NEW index \in 1..Len(states), GoTo(index)
  PROVE  HistoryTypeOK' /\ EditLine!Move /\ Len(SubSeq(states', 1, cursor' - 1)) = index - 1
<1>1. /\ states \in Seq(Documents) /\ cursor \in 1..Len(states)
      /\ states' = states /\ labels' = labels /\ cursor' = index /\ document' = states[index]
  BY DEF HistoryTypeOK, GoTo
<1>2. HistoryTypeOK'
  BY <1>1 DEF HistoryTypeOK
<1>3. SubSeq(states, 1, cursor - 1) \o <<states[cursor]>> \o SubSeq(states, cursor + 1, Len(states)) = states
  BY <1>1, CutList
<1>4. /\ SubSeq(states, 1, index - 1) \o <<states[index]>> \o SubSeq(states, index + 1, Len(states)) = states
      /\ Len(SubSeq(states, 1, index - 1)) = index - 1
  BY <1>1, CutList
<1> QED BY <1>1, <1>2, <1>3, <1>4 DEF EditLine!Move, EditLine!Line

-----------------------------------------------------------------------------
\* Every step keeps the history's shape and is a step of the line.
LEMMA HistoryStep ==
  ASSUME HistoryTypeOK, [HistoryNext]_undoVars
  PROVE  HistoryTypeOK' /\ [EditLine!Next]_EditLine!vars
<1>1. CASE UNCHANGED undoVars
  BY <1>1 DEF HistoryTypeOK, undoVars, historyVars, EditLine!vars, EditLine!history
<1>2. CASE \E label \in Labels : document' \in Documents /\ (commit(label) \/ commitCoalescing(label))
  BY <1>2, CommitEffect, CommitIsEdit, CoalescingEffect DEF EditLine!Next
<1>3. CASE undo
  <2>1. cursor - 1 \in 1..Len(states) /\ GoTo(cursor - 1) /\ cursor > 1 /\ states \in Seq(Documents)
    BY <1>3 DEF undo, canUndo, HistoryTypeOK
  <2>2. HistoryTypeOK' /\ EditLine!Move /\ Len(SubSeq(states', 1, cursor' - 1)) = (cursor - 1) - 1
    BY <2>1, GoToEffect
  <2> QED BY <2>2 DEF EditLine!Next
<1>4. CASE redo
  <2>1. cursor + 1 \in 1..Len(states) /\ GoTo(cursor + 1)
    BY <1>4 DEF redo, canRedo, HistoryTypeOK
  <2> QED BY <2>1, GoToEffect DEF EditLine!Next
<1>5. CASE \E index \in 1..Len(states) : restore(index)
  BY <1>5, GoToEffect DEF restore, EditLine!Next
<1>6. CASE abandoned
  <2>1. HistoryTypeOK'  BY <1>6 DEF abandoned, HistoryTypeOK, historyVars
  <2>2. EditLine!Stray  BY <1>6 DEF abandoned, historyVars, EditLine!Stray, EditLine!history
  <2> QED BY <2>1, <2>2 DEF EditLine!Next
<1> QED BY <1>1, <1>2, <1>3, <1>4, <1>5, <1>6 DEF HistoryNext

\* The first entry is a line of one version.
LEMMA HistoryStart ==
  ASSUME HistoryInit
  PROVE  HistoryTypeOK /\ EditLine!Init
<1>1. HistoryTypeOK
  BY MaxDepthAssumption DEF HistoryInit, HistoryTypeOK
<1>2. /\ SubSeq(states, 1, cursor - 1) = <<>>
      /\ SubSeq(states, cursor + 1, Len(states)) = <<>>
      /\ states[cursor] = document
  <2>1. states = <<document>> /\ cursor = 1 /\ Len(states) = 1 /\ states[1] = document
    BY DEF HistoryInit
  <2> QED BY <2>1, SubSeqEmpty
<1> QED BY <1>1, <1>2 DEF EditLine!Init

\* For every depth of at least two: snapshots and labels stay in step, never
\* more than the depth, and the cursor names one of them
\* (UndoHistory::commit, trimToDepth, undo, redo, restore).
THEOREM HistoryTypeCorrect == HistorySpec => []HistoryTypeOK
<1>1. HistoryInit => HistoryTypeOK  BY HistoryStart
<1>2. HistoryTypeOK /\ [HistoryNext]_undoVars => HistoryTypeOK'  BY HistoryStep
<1> QED BY <1>1, <1>2, PTL DEF HistorySpec

\* However edits, coalesced edits, failed edits, undo, redo and jumps follow
\* one another, the history implements the line of versions: undo and redo show
\* exactly the neighbouring version and an edit discards exactly what had been
\* undone (the whole of UndoHistory.cpp).
THEOREM HistoryImplements == HistorySpec => KeepsTheLine
<1>1. HistoryInit => EditLine!Init  BY HistoryStart
<1>2. HistoryTypeOK /\ [HistoryNext]_undoVars => [EditLine!Next]_EditLine!vars  BY HistoryStep
<1> QED BY <1>1, <1>2, HistoryTypeCorrect, PTL DEF HistorySpec, KeepsTheLine, EditLine!Spec
-----------------------------------------------------------------------------
(* The files.                                                              *)

\* Audio that editing made, and not what a file was opened as.
Made(entry) == entry.file = None /\ entry.samples \in Audio

\* A source and the files as they are: what was opened streams a file that is
\* there, or stands in for one that is not; what was made is in its file once it
\* has one, unless that was broken later.
EntryHolds(entry, contents) ==
  /\ entry \in SourceEntry
  /\ entry.file # None => entry.file = entry.path /\ contents[entry.path] # None
  /\ entry.file = None /\ entry.samples = Silence =>
       entry.path # None /\ contents[entry.path] \notin Playable
  /\ Made(entry) /\ entry.path = None => entry.id \in 1..MaxNextId
  /\ Made(entry) /\ entry.path # None =>
       /\ entry.path \in Media /\ entry.path[2] = entry.id
       /\ contents[entry.path] \in {entry.samples, Broken}

\* Ids name one source each and are, like the numbers of files, behind the
\* counter; every clip has its source.
Numbered(numbered) ==
  /\ numbered.nextId \in Nat \ {0}
  /\ \A i, j \in DOMAIN numbered.sources : numbered.sources[i].id = numbered.sources[j].id => i = j
  /\ \A i \in DOMAIN numbered.sources :
       /\ numbered.sources[i].id < numbered.nextId
       /\ numbered.sources[i].path \in Media => numbered.sources[i].path[2] < numbered.nextId
  /\ \A i \in DOMAIN numbered.clips :
       /\ numbered.clips[i].id < numbered.nextId
       /\ \E j \in DOMAIN numbered.sources : numbered.sources[j].id = numbered.clips[i].source

DocHolds(doc, contents) ==
  /\ doc \in DocumentState
  /\ Numbered(doc)
  /\ \A i \in DOMAIN doc.sources : EntryHolds(doc.sources[i], contents)

\* Of two versions in one history.
Compatible(doc, other) ==
  \A i \in DOMAIN doc.sources, j \in DOMAIN other.sources :
    LET one == doc.sources[i]
        two == other.sources[j]
    IN /\ ~Made(one) /\ two.path = None /\ one.path \in Media => one.path[2] # two.id
       /\ Made(one) /\ Made(two) /\ one.id = two.id => one.samples = two.samples

Held == {document} \cup {states[i] : i \in DOMAIN states}

\* Undo goes back to an older counter, but the history after it is cut before the
\* ids are used again.
CounterGrows ==
  /\ \A i, j \in DOMAIN states : i <= j => states[i].nextId <= states[j].nextId
  /\ document.nextId = states[cursor].nextId

SessionsHold ==
  /\ sessions \in [Paths -> SessionFile \cup {None, Broken}]
  /\ \A p \in Paths : IsSession(p) => Numbered(sessions[p])

\* Right after a save, and only then, a path is reported.
SavedAsReported ==
  status # None => /\ status \in Paths
                   /\ sessions[status] = Recorded(document)
                   /\ \A i \in DOMAIN document.sources : document.sources[i].path # None

SessionInv ==
  /\ disk \in [Files -> Playable \cup {Broken, None}]
  /\ disk[Recording] = Recording
  /\ states \in Seq(DocumentState) /\ cursor \in 1..Len(states)
  /\ \A doc \in Held : DocHolds(doc, disk)
  /\ \A doc, other \in Held : Compatible(doc, other)
  /\ CounterGrows
  /\ SessionsHold
  /\ SavedAsReported

\* What the files of a save at path p may hold after it.
KeptOrWritten(contents, p) ==
  \A f \in Files :
    \/ contents[f] = disk[f]
    \/ \E b \in Pathless(document) : /\ f = Target(p, document.sources[b])
                                     /\ contents[f] \in {document.sources[b].samples, Broken}
-----------------------------------------------------------------------------
(* Names and documents.                                                    *)

LEMMA Names ==
  /\ None \notin Files /\ Recording \in Files /\ None \notin Playable /\ Broken \notin Playable
  /\ Silence \notin Playable /\ None \notin Paths /\ Broken # None
BY NamesAssumption, FilesAssumption DEF Files, Playable

LEMMA DocFields ==
  ASSUME NEW doc \in DocumentState
  PROVE  /\ doc.sources \in Seq(SourceEntry) /\ doc.clips \in Seq(Clip) /\ doc.nextId \in Nat
         /\ DOMAIN doc.sources = 1..Len(doc.sources) /\ Len(doc.sources) \in Nat
         /\ DOMAIN doc.clips = 1..Len(doc.clips) /\ Len(doc.clips) \in Nat
         /\ \A i \in DOMAIN doc.sources : doc.sources[i] \in SourceEntry
         /\ \A i \in DOMAIN doc.clips : doc.clips[i] \in Clip
BY DEF DocumentState

LEMMA FileFields ==
  ASSUME NEW f \in Media
  PROVE  f \in Files /\ f[1] \in Paths /\ f[2] \in Nat
BY BoundsAssumption DEF Media, Files

\* A source without a path was made, and so will have a file it can be given.
LEMMA PathlessIsMade ==
  ASSUME NEW entry, NEW contents, EntryHolds(entry, contents), entry.path = None
  PROVE  Made(entry) /\ entry.id \in 1..MaxNextId
<1>1. entry.file = None
  BY DEF EntryHolds
<1>2. entry.samples \in Audio
  BY <1>1 DEF EntryHolds, SourceEntry
<1> QED
  BY <1>1, <1>2 DEF EntryHolds, Made

LEMMA TargetIsMedia ==
  ASSUME NEW p \in Paths, NEW entry, entry.id \in 1..MaxNextId
  PROVE  Target(p, entry) \in Media /\ Target(p, entry)[2] = entry.id
<1>1. entry.id \in 1..MaxNextId + 1
  BY BoundsAssumption
<1> QED
  BY <1>1 DEF Target, Media

\* The place of a source is the only one of its id.
LEMMA SourcePlace ==
  ASSUME NEW doc, NEW k \in DOMAIN doc.sources,
         \A i, j \in DOMAIN doc.sources : doc.sources[i].id = doc.sources[j].id => i = j
  PROVE  source(doc, doc.sources[k].id) = k
BY DEF source
-----------------------------------------------------------------------------
(* What a save does to the files, and why nothing that is held notices.    *)

\* The files are as they were, but for those named by sources that had none.
LEMMA WrittenFiles ==
  ASSUME disk \in [Files -> Playable \cup {Broken, None}], DocHolds(document, disk),
         NEW p \in Paths, NEW failed \in SUBSET Pathless(document), NEW cut \in SUBSET failed,
         NEW W, W = Written(document, p, failed, cut)
  PROVE  /\ W \in [Files -> Playable \cup {Broken, None}]
         /\ KeptOrWritten(W, p)
         /\ \A b \in Pathless(document) \ failed :
              W[Target(p, document.sources[b])] = document.sources[b].samples
<1> DEFINE writes(f) == {i \in Pathless(document) : Target(p, document.sources[i]) = f}
           new(f) == Plays(document.sources[CHOOSE i \in writes(f) \ failed : TRUE])
           content(f) == IF writes(f) \ failed # {} THEN new(f)
                         ELSE IF writes(f) \cap cut # {} THEN Broken ELSE disk[f]
<1>1. W = [f \in Files |-> content(f)]
  BY DEF Written
<1>2. ASSUME NEW b \in Pathless(document)
      PROVE  /\ Made(document.sources[b]) /\ document.sources[b].id \in 1..MaxNextId
             /\ Plays(document.sources[b]) = document.sources[b].samples
             /\ document.sources[b].samples \in Audio
  <2>1. b \in DOMAIN document.sources /\ document.sources[b].path = None
    BY DEF Pathless
  <2>2. EntryHolds(document.sources[b], disk)
    BY <2>1 DEF DocHolds
  <2>3. Made(document.sources[b]) /\ document.sources[b].id \in 1..MaxNextId
    BY <2>1, <2>2, PathlessIsMade
  <2> QED
    BY <2>3 DEF Made, Plays
<1>3. ASSUME NEW b \in Pathless(document)
      PROVE  /\ Target(p, document.sources[b]) \in Media
             /\ Target(p, document.sources[b])[2] = document.sources[b].id
             /\ Target(p, document.sources[b]) \in Files
  BY <1>2, TargetIsMedia, FileFields
<1>4. ASSUME NEW f, NEW b \in writes(f) PROVE writes(f) = {b}
  <2>1. SUFFICES ASSUME NEW c \in writes(f) PROVE c = b
    OBVIOUS
  <2>2. document.sources[c].id = document.sources[b].id
    BY <1>3
  <2>3. b \in DOMAIN document.sources /\ c \in DOMAIN document.sources
    BY DEF Pathless
  <2> QED
    BY <2>2, <2>3 DEF DocHolds, Numbered
<1>5. ASSUME NEW f, NEW b \in writes(f) \ failed
      PROVE  content(f) = document.sources[b].samples
  <2>1. writes(f) \ failed = {b}
    BY <1>4
  <2>2. (CHOOSE i \in writes(f) \ failed : TRUE) = b
    BY <2>1
  <2>3. new(f) = document.sources[b].samples
    BY <2>2, <1>2
  <2> QED
    BY <2>1, <2>3
<1>6. ASSUME NEW f \in Files
      PROVE  \/ content(f) = disk[f] 
             \/ \E b \in Pathless(document) :
                  /\ f = Target(p, document.sources[b])
                  /\ content(f) \in {document.sources[b].samples, Broken}
                  /\ content(f) \in Playable \cup {Broken, None}
  <2>1. CASE writes(f) \ failed # {}
    <3>1. PICK b \in writes(f) \ failed : TRUE
      BY <2>1
    <3>2. content(f) = document.sources[b].samples /\ b \in Pathless(document)
      BY <3>1, <1>5
    <3> QED
      BY <3>1, <3>2, <1>2 DEF Playable
  <2>2. CASE writes(f) \ failed = {} /\ writes(f) \cap cut # {}
    <3>1. PICK b \in writes(f) : TRUE
      BY <2>2
    <3>2. content(f) = Broken
      BY <2>2
    <3> QED
      BY <3>1, <3>2
  <2>3. CASE writes(f) \ failed = {} /\ writes(f) \cap cut = {}
    BY <2>3
  <2> QED
    BY <2>1, <2>2, <2>3
<1>7. \A f \in Files : content(f) \in Playable \cup {Broken, None}
  BY <1>6
<1>8. ASSUME NEW b \in Pathless(document) \ failed
      PROVE  content(Target(p, document.sources[b])) = document.sources[b].samples
  BY <1>5
<1> HIDE DEF content
<1>9. W \in [Files -> Playable \cup {Broken, None}]
  BY <1>1, <1>7
<1>10. \A f \in Files : W[f] = content(f)
  BY <1>1
<1> QED
  BY <1>3, <1>6, <1>8, <1>9, <1>10 DEF KeptOrWritten

\* A source of any version held: it still has its audio, and streams the same.
LEMMA SourceKept ==
  ASSUME DocHolds(document, disk),
         NEW doc, NEW i \in DOMAIN doc.sources, EntryHolds(doc.sources[i], disk),
         Compatible(doc, document),
         NEW p \in Paths, NEW W, W \in [Files -> Playable \cup {Broken, None}], KeptOrWritten(W, p)
  PROVE  /\ EntryHolds(doc.sources[i], W)
         /\ doc.sources[i].file # None => W[doc.sources[i].file] = disk[doc.sources[i].file]
<1> DEFINE entry == doc.sources[i]
<1>1. entry \in SourceEntry /\ entry.path \in Files \cup {None}
  BY DEF EntryHolds, SourceEntry
<1>2. CASE entry.path = None
  BY <1>2 DEF EntryHolds, Made
<1>3. CASE entry.path # None /\ W[entry.path] = disk[entry.path]
  BY <1>3 DEF EntryHolds, Made
<1>4. CASE entry.path # None /\ W[entry.path] # disk[entry.path]
  <2>1. PICK b \in Pathless(document) :
          /\ entry.path = Target(p, document.sources[b])
          /\ W[entry.path] \in {document.sources[b].samples, Broken}
    BY <1>1, <1>4 DEF KeptOrWritten
  <2>2. b \in DOMAIN document.sources /\ document.sources[b].path = None
    BY DEF Pathless
  <2>3. Made(document.sources[b]) /\ document.sources[b].id \in 1..MaxNextId
    BY <2>2, PathlessIsMade DEF DocHolds
  <2>4. entry.path \in Media /\ entry.path[2] = document.sources[b].id
    BY <2>1, <2>3, TargetIsMedia
  <2>5. Made(entry)
    BY <2>2, <2>4 DEF Compatible
  <2>6. entry.path[2] = entry.id
    BY <1>4, <2>5 DEF EntryHolds
  <2>7. entry.samples = document.sources[b].samples
    BY <2>2, <2>3, <2>4, <2>5, <2>6 DEF Compatible
  <2>8. entry.file = None /\ entry.samples \in Audio /\ entry.samples # Silence
    BY <2>5, NamesAssumption DEF Made
  <2> HIDE DEF entry
  <2>9. EntryHolds(entry, W)
    BY <1>1, <1>4, <2>1, <2>4, <2>5, <2>6, <2>7, <2>8 DEF EntryHolds
  <2> QED
    BY <2>8, <2>9 DEF entry
<1> QED
  BY <1>1, <1>2, <1>3, <1>4

\* setSourcePath: a document with more paths and nothing else changed.
LEMMA ConsolidatedFields ==
  ASSUME NEW doc \in DocumentState, NEW p, NEW failed, NEW made, made = Consolidated(doc, p, failed)
  PROVE  /\ made.clips = doc.clips /\ made.nextId = doc.nextId
         /\ DOMAIN made.sources = DOMAIN doc.sources
         /\ \A i \in DOMAIN doc.sources :
              /\ made.sources[i].id = doc.sources[i].id
              /\ made.sources[i].file = doc.sources[i].file
              /\ made.sources[i].samples = doc.sources[i].samples
              /\ i \in Pathless(doc) \ failed => made.sources[i].path = Target(p, doc.sources[i])
              /\ i \notin Pathless(doc) \ failed => made.sources[i] = doc.sources[i]
<1> DEFINE moved(i) == [doc.sources[i] EXCEPT !.path = Target(p, doc.sources[i])]
           entries == [i \in DOMAIN doc.sources |->
                         IF i \in Pathless(doc) \ failed THEN moved(i) ELSE doc.sources[i]]
<1>1. made = [doc EXCEPT !.sources = entries]
  BY DEF Consolidated
<1>2. made.sources = entries /\ made.clips = doc.clips /\ made.nextId = doc.nextId
  BY <1>1 DEF DocumentState
<1>3. ASSUME NEW i \in DOMAIN doc.sources
      PROVE  /\ moved(i).id = doc.sources[i].id
             /\ moved(i).file = doc.sources[i].file
             /\ moved(i).samples = doc.sources[i].samples
             /\ moved(i).path = Target(p, doc.sources[i])
  <2>1. doc.sources[i] \in SourceEntry
    BY DocFields
  <2> QED
    BY <2>1 DEF SourceEntry
<1>4. \A i \in DOMAIN doc.sources : i \in Pathless(doc) \ failed => entries[i] = moved(i)
  OBVIOUS
<1>5. \A i \in DOMAIN doc.sources : i \notin Pathless(doc) \ failed => entries[i] = doc.sources[i]
  OBVIOUS
<1>6. DOMAIN entries = DOMAIN doc.sources
  OBVIOUS
<1> HIDE DEF entries, moved
<1> QED
  BY <1>2, <1>3, <1>4, <1>5, <1>6

\* The sources that have been written hold their audio in their files, and go with
\* whatever they went with before.
LEMMA ConsolidatedHolds ==
  ASSUME DocHolds(document, disk), Compatible(document, document),
         NEW p \in Paths, NEW failed \in SUBSET Pathless(document),
         NEW W, W \in [Files -> Playable \cup {Broken, None}], KeptOrWritten(W, p),
         \A b \in Pathless(document) \ failed :
           W[Target(p, document.sources[b])] = document.sources[b].samples,
         NEW made, made = Consolidated(document, p, failed)
  PROVE  /\ DocHolds(made, W)
         /\ \A i \in DOMAIN document.sources :
              made.sources[i].file # None =>
                W[made.sources[i].file] = disk[made.sources[i].file]
         /\ \A other : Compatible(document, other) => Compatible(made, other)
         /\ \A other : Compatible(other, document) => Compatible(other, made)
         /\ Compatible(made, made)
<1>0. document \in DocumentState /\ Numbered(document)
  BY DEF DocHolds
<1>1. /\ made.clips = document.clips /\ made.nextId = document.nextId
      /\ DOMAIN made.sources = DOMAIN document.sources
      /\ \A i \in DOMAIN document.sources :
           /\ made.sources[i].id = document.sources[i].id
           /\ made.sources[i].file = document.sources[i].file
           /\ made.sources[i].samples = document.sources[i].samples
           /\ i \in Pathless(document) \ failed =>
                made.sources[i].path = Target(p, document.sources[i])
           /\ i \notin Pathless(document) \ failed => made.sources[i] = document.sources[i]
  BY <1>0, ConsolidatedFields
<1>2. ASSUME NEW i \in DOMAIN document.sources
      PROVE  /\ EntryHolds(document.sources[i], W)
             /\ document.sources[i].file # None =>
                  W[document.sources[i].file] = disk[document.sources[i].file]
  <2>1. EntryHolds(document.sources[i], disk)
    BY DEF DocHolds
  <2> QED
    BY <2>1, SourceKept
<1>3. ASSUME NEW i \in Pathless(document) \ failed
      PROVE  /\ i \in DOMAIN document.sources /\ Made(document.sources[i])
             /\ document.sources[i].id \in 1..MaxNextId
             /\ Made(made.sources[i])
             /\ made.sources[i].path \in Media /\ made.sources[i].path # None
             /\ made.sources[i].path[2] = made.sources[i].id
             /\ W[made.sources[i].path] = made.sources[i].samples
  <2>1. i \in DOMAIN document.sources /\ document.sources[i].path = None
    BY DEF Pathless
  <2>2. Made(document.sources[i]) /\ document.sources[i].id \in 1..MaxNextId
    BY <1>2, <2>1, PathlessIsMade
  <2>3. made.sources[i].path = Target(p, document.sources[i])
    BY <1>1, <2>1
  <2>4. Made(made.sources[i])
    BY <1>1, <2>1, <2>2 DEF Made
  <2>5. Target(p, document.sources[i]) \in Media
        /\ Target(p, document.sources[i])[2] = document.sources[i].id
    BY <2>2, TargetIsMedia
  <2> QED
    BY <1>1, <2>1, <2>2, <2>3, <2>4, <2>5, FilesAssumption
<1>4. made \in DocumentState
  <2> DEFINE moved(i) == [document.sources[i] EXCEPT !.path = Target(p, document.sources[i])]
             entries == [i \in DOMAIN document.sources |->
                           IF i \in Pathless(document) \ failed THEN moved(i)
                           ELSE document.sources[i]]
  <2>1. made = [document EXCEPT !.sources = entries]
    BY DEF Consolidated
  <2>2. ASSUME NEW i \in DOMAIN document.sources PROVE document.sources[i] \in SourceEntry
    BY <1>0, DocFields
  <2>3. ASSUME NEW i \in Pathless(document) \ failed PROVE moved(i) \in SourceEntry
    <3>1. i \in DOMAIN document.sources /\ document.sources[i] \in SourceEntry
      BY <2>2 DEF Pathless
    <3>2. Target(p, document.sources[i]) \in Files
      BY <1>1, <1>3, FileFields
    <3> QED
      BY <3>1, <3>2 DEF SourceEntry
  <2> HIDE DEF moved
  <2>4. \A i \in DOMAIN document.sources : entries[i] \in SourceEntry
    BY <2>2, <2>3
  <2>5. DOMAIN document.sources = 1..Len(document.sources) /\ Len(document.sources) \in Nat
    BY <1>0, DocFields
  <2>6. entries \in [1..Len(document.sources) -> SourceEntry]
    BY <2>4, <2>5
  <2> HIDE DEF entries
  <2>7. entries \in Seq(SourceEntry)
    BY <2>5, <2>6, SeqDef
  <2>8. [document EXCEPT !.sources = entries] \in DocumentState
    BY <1>0, <2>7 DEF DocumentState
  <2> QED
    BY <2>1, <2>8
<1>5. Numbered(made)
  <2>1. ASSUME NEW i \in DOMAIN made.sources
        PROVE  /\ made.sources[i].id < made.nextId
               /\ made.sources[i].path \in Media => made.sources[i].path[2] < made.nextId
    <3>1. document.sources[i].id < document.nextId
      BY <1>0, <1>1 DEF Numbered
    <3>2. CASE i \in Pathless(document) \ failed
      BY <1>1, <1>3, <3>1, <3>2
    <3>3. CASE i \notin Pathless(document) \ failed
      BY <1>0, <1>1, <3>1, <3>3 DEF Numbered
    <3> QED
      BY <3>2, <3>3
  <2>2. \A i, j \in DOMAIN made.sources : made.sources[i].id = made.sources[j].id => i = j
    BY <1>0, <1>1 DEF Numbered
  <2>3. ASSUME NEW i \in DOMAIN made.clips
        PROVE  /\ made.clips[i].id < made.nextId
               /\ \E j \in DOMAIN made.sources : made.sources[j].id = made.clips[i].source
    BY <1>0, <1>1 DEF Numbered
  <2>4. made.nextId \in Nat \ {0}
    BY <1>0, <1>1 DEF Numbered
  <2> QED
    BY <2>1, <2>2, <2>3, <2>4 DEF Numbered
<1>6. ASSUME NEW i \in DOMAIN made.sources PROVE EntryHolds(made.sources[i], W)
  <2>1. CASE i \in Pathless(document) \ failed
    <3>1. made.sources[i] \in SourceEntry
      BY <1>4, DocFields
    <3>2. made.sources[i].file = None /\ made.sources[i].samples # Silence
      BY <1>3, <2>1, NamesAssumption DEF Made
    <3> QED
      BY <1>3, <2>1, <3>1, <3>2 DEF EntryHolds
  <2>2. CASE i \notin Pathless(document) \ failed
    BY <1>1, <1>2, <2>2
  <2> QED
    BY <2>1, <2>2
<1>7. ASSUME NEW i \in DOMAIN document.sources
      PROVE  /\ Made(made.sources[i]) <=> Made(document.sources[i])
             /\ ~Made(made.sources[i]) => made.sources[i].path = document.sources[i].path
             /\ made.sources[i].path = None => document.sources[i].path = None
  <2>1. CASE i \in Pathless(document) \ failed
    BY <1>3, <2>1
  <2>2. CASE i \notin Pathless(document) \ failed
    BY <1>1, <2>2
  <2> QED
    BY <2>1, <2>2
<1>8. ASSUME NEW other, Compatible(document, other) PROVE Compatible(made, other)
  BY <1>1, <1>7, <1>8 DEF Compatible
<1>9. ASSUME NEW other, Compatible(other, document) PROVE Compatible(other, made)
  BY <1>1, <1>7, <1>9 DEF Compatible
<1>10. Compatible(made, made)
  BY <1>8, <1>9
<1>11. DocHolds(made, W)
  BY <1>4, <1>5, <1>6 DEF DocHolds
<1> QED
  BY <1>1, <1>2, <1>8, <1>9, <1>10, <1>11

\* What a document sounds like with the files as given.
SoundIn(doc, contents) ==
  [i \in DOMAIN doc.clips |->
     LET entry == doc.sources[source(doc, doc.clips[i].source)]
     IN IF entry.file = None THEN entry.samples ELSE contents[entry.file]]

\* Two documents whose clips refer to sources that play the same, in the same places,
\* sound the same.
LEMMA SameSound ==
  ASSUME NEW doc, NEW made, NEW contents, NEW W,
         Numbered(doc),
         made.clips = doc.clips, DOMAIN made.sources = DOMAIN doc.sources,
         \A i \in DOMAIN doc.sources :
           /\ made.sources[i].id = doc.sources[i].id
           /\ made.sources[i].file = doc.sources[i].file
           /\ made.sources[i].samples = doc.sources[i].samples
           /\ doc.sources[i].file # None => W[doc.sources[i].file] = contents[doc.sources[i].file]
  PROVE  SoundIn(made, W) = SoundIn(doc, contents)
<1>1. ASSUME NEW i \in DOMAIN doc.clips
      PROVE  LET one == made.sources[source(made, made.clips[i].source)]
                 two == doc.sources[source(doc, doc.clips[i].source)]
             IN (IF one.file = None THEN one.samples ELSE W[one.file])
                  = (IF two.file = None THEN two.samples ELSE contents[two.file])
  <2>1. PICK k \in DOMAIN doc.sources : doc.sources[k].id = doc.clips[i].source
    BY DEF Numbered
  <2>2. source(doc, doc.clips[i].source) = k
    BY <2>1, SourcePlace DEF Numbered
  <2>3. source(made, made.clips[i].source) = k
    <3>1. made.clips[i].source = made.sources[k].id
      BY <2>1
    <3>2. \A a, b \in DOMAIN made.sources : made.sources[a].id = made.sources[b].id => a = b
      BY DEF Numbered
    <3> QED
      BY <3>1, <3>2, SourcePlace
  <2> QED
    BY <2>1, <2>2, <2>3
<1> QED
  BY <1>1 DEF SoundIn

-----------------------------------------------------------------------------
(* What a session is opened as.                                            *)

\* Every source of a document that was just opened has a path, and none was made.
Fresh(doc) == \A i \in DOMAIN doc.sources :
                doc.sources[i].path # None /\ ~Made(doc.sources[i])

LEMMA FreshIsCompatible ==
  ASSUME NEW doc, Fresh(doc)
  PROVE  Compatible(doc, doc)
BY DEF Fresh, Compatible

\* The recorded counter is behind everything but the places the sources get.
LEMMA NextIdOfLoaded ==
  ASSUME NEW session \in SessionFile, Numbered(session)
  PROVE  /\ NextIdOf(session) \in Nat \ {0}
         /\ NextIdOf(session) >= session.nextId
         /\ NextIdOf(session) >= Len(session.sources) + 1
<1> DEFINE ids == {session.nextId, Len(session.sources) + 1}
                    \cup {session.clips[i].id + 1 : i \in DOMAIN session.clips}
           n == session.nextId
           m == Len(session.sources) + 1
<1>1. n \in Nat \ {0} /\ session.clips \in Seq(Clip) /\ m \in Nat
  BY DEF SessionFile, Numbered
<1>2. ASSUME NEW i \in DOMAIN session.clips
      PROVE  session.clips[i].id \in Nat /\ session.clips[i].id + 1 <= n
  <2>1. session.clips[i] \in Clip
    BY <1>1
  <2>2. session.clips[i].id \in Nat
    BY <2>1 DEF Clip
  <2>3. session.clips[i].id < n
    BY DEF Numbered
  <2> QED
    BY <1>1, <2>2, <2>3
<1> HIDE DEF n, m
<1>3. \A x \in ids : x \in Int /\ (x <= n \/ x <= m)
  BY <1>1, <1>2 DEF n, m
<1>4. n \in ids /\ m \in ids
  BY DEF n, m
<1> HIDE DEF ids
<1>5. \E x \in ids : \A y \in ids : x >= y
  <2>1. CASE n >= m
    BY <1>1, <1>3, <1>4, <2>1
  <2>2. CASE ~(n >= m)
    BY <1>1, <1>3, <1>4, <2>2
  <2> QED
    BY <2>1, <2>2
<1>6. Max(ids) \in ids /\ \A y \in ids : Max(ids) >= y
  BY <1>5 DEF Max
<1>7. NextIdOf(session) = Max(ids)
  BY DEF NextIdOf, ids
<1>8. Max(ids) \in Int /\ Max(ids) >= n /\ Max(ids) >= m
  BY <1>3, <1>4, <1>6
<1> QED
  BY <1>1, <1>7, <1>8 DEF n, m

LEMMA OpenedHolds ==
  ASSUME disk \in [Files -> Playable \cup {Broken, None}], NEW id \in Nat, NEW path \in Files,
         NEW entry, entry = OpenedSource(id, path)
  PROVE  /\ EntryHolds(entry, disk) /\ entry.id = id
         /\ entry.path = path /\ path # None /\ ~Made(entry)
<1>1. path # None /\ None \notin Playable /\ Silence \notin Audio
  BY Names, NamesAssumption
<1>2. CASE disk[path] \in Playable
  <2>1. entry = [id |-> id, file |-> path, samples |-> Silence, path |-> path]
    BY <1>2 DEF OpenedSource
  <2> QED
    BY <1>1, <1>2, <2>1 DEF EntryHolds, Made, SourceEntry
<1>3. CASE disk[path] \notin Playable
  <2>1. entry = [id |-> id, file |-> None, samples |-> Silence, path |-> path]
    BY <1>3 DEF OpenedSource
  <2> QED
    BY <1>1, <1>3, <2>1 DEF EntryHolds, Made, SourceEntry
<1> QED
  BY <1>2, <1>3

LEMMA LoadedFields ==
  ASSUME NEW session \in SessionFile, NEW doc, doc = Loaded(session)
  PROVE  /\ session.sources \in Seq([id : Nat, path : Files])
         /\ session.clips \in Seq(Clip) /\ session.nextId \in Nat
         /\ DOMAIN session.sources = 1..Len(session.sources) /\ Len(session.sources) \in Nat
         /\ DOMAIN session.clips = 1..Len(session.clips) /\ Len(session.clips) \in Nat
         /\ DOMAIN doc.sources = DOMAIN session.sources
         /\ DOMAIN doc.clips = DOMAIN session.clips
         /\ \A i \in DOMAIN session.sources :
              /\ session.sources[i].path \in Files
              /\ doc.sources[i] = OpenedSource(i, session.sources[i].path)
         /\ \A i \in DOMAIN session.clips :
              /\ session.clips[i] \in Clip
              /\ doc.clips[i].id = session.clips[i].id
              /\ doc.clips[i].source = source(session, session.clips[i].source)
         /\ doc.nextId = NextIdOf(session)
<1> DEFINE sources == [i \in DOMAIN session.sources |-> OpenedSource(i, session.sources[i].path)]
           clip(i) == [session.clips[i] EXCEPT !.source = source(session, @)]
           clips == [i \in DOMAIN session.clips |-> clip(i)]
<1>1. /\ session.sources \in Seq([id : Nat, path : Files])
      /\ session.clips \in Seq(Clip) /\ session.nextId \in Nat
  BY DEF SessionFile
<1>2. /\ DOMAIN session.sources = 1..Len(session.sources) /\ Len(session.sources) \in Nat
      /\ DOMAIN session.clips = 1..Len(session.clips) /\ Len(session.clips) \in Nat
  BY <1>1
<1>3. ASSUME NEW i \in DOMAIN session.sources PROVE session.sources[i].path \in Files
  <2>1. session.sources[i] \in [id : Nat, path : Files]
    BY <1>1, <1>2, ElementOfSeq
  <2> QED
    BY <2>1
<1>4. \A i \in DOMAIN session.clips : session.clips[i] \in Clip
  BY <1>1
<1>5. \A i \in DOMAIN session.clips :
        /\ clip(i).id = session.clips[i].id
        /\ clip(i).source = source(session, session.clips[i].source)
  BY <1>4 DEF Clip
<1>6. doc = [sources |-> sources, clips |-> clips, nextId |-> NextIdOf(session)]
  BY DEF Loaded
<1>7. doc.sources = sources /\ doc.clips = clips /\ doc.nextId = NextIdOf(session)
  BY <1>6
<1> HIDE DEF clip
<1> QED
  BY <1>1, <1>2, <1>3, <1>4, <1>5, <1>7

LEMMA LoadedHolds ==
  ASSUME disk \in [Files -> Playable \cup {Broken, None}],
         NEW session \in SessionFile, Numbered(session), NEW doc, doc = Loaded(session)
  PROVE  DocHolds(doc, disk) /\ Fresh(doc)
<1> DEFINE S == session.sources
           C == session.clips
<1>1. /\ S \in Seq([id : Nat, path : Files]) /\ C \in Seq(Clip) /\ session.nextId \in Nat
      /\ DOMAIN S = 1..Len(S) /\ Len(S) \in Nat
      /\ DOMAIN C = 1..Len(C) /\ Len(C) \in Nat
      /\ DOMAIN doc.sources = DOMAIN S /\ DOMAIN doc.clips = DOMAIN C
      /\ \A i \in DOMAIN S : S[i].path \in Files /\ doc.sources[i] = OpenedSource(i, S[i].path)
      /\ \A i \in DOMAIN C : /\ C[i] \in Clip /\ doc.clips[i].id = C[i].id
                             /\ doc.clips[i].source = source(session, C[i].source)
      /\ doc.nextId = NextIdOf(session)
  BY LoadedFields
<1>2. /\ doc.nextId \in Nat \ {0} /\ doc.nextId >= session.nextId /\ doc.nextId >= Len(S) + 1
  BY <1>1, NextIdOfLoaded
<1>3. ASSUME NEW i \in DOMAIN S
      PROVE  /\ EntryHolds(doc.sources[i], disk) /\ doc.sources[i].id = i /\ i \in Nat
             /\ doc.sources[i].path = S[i].path /\ S[i].path # None /\ ~Made(doc.sources[i])
  <2>1. i \in Nat
    BY <1>1
  <2> QED
    BY <1>1, <2>1, OpenedHolds
<1>4. ASSUME NEW i \in DOMAIN C
      PROVE  /\ doc.clips[i].source \in DOMAIN S
             /\ doc.clips[i].id \in Nat /\ doc.clips[i].id < doc.nextId
  <2>1. PICK k \in DOMAIN S : S[k].id = C[i].source
    BY DEF Numbered
  <2>2. source(session, C[i].source) \in DOMAIN S
    BY <2>1 DEF source
  <2>3. C[i].id \in Nat /\ C[i].id < session.nextId
    BY <1>1 DEF Clip, Numbered
  <2> QED
    BY <1>1, <1>2, <2>2, <2>3
<1>5. Fresh(doc)
  BY <1>1, <1>3 DEF Fresh
<1>6. Numbered(doc)
  <2>1. ASSUME NEW i \in DOMAIN doc.sources
        PROVE  /\ doc.sources[i].id < doc.nextId
               /\ doc.sources[i].path \in Media => doc.sources[i].path[2] < doc.nextId
    <3>1. doc.sources[i].id = i /\ i \in 1..Len(S) /\ doc.sources[i].path = S[i].path
      BY <1>1, <1>3
    <3>2. i < doc.nextId
      BY <1>1, <1>2, <3>1
    <3>3. ASSUME S[i].path \in Media PROVE S[i].path[2] < doc.nextId
      <4>1. S[i].path[2] \in Nat
        BY <3>3, FileFields
      <4>2. S[i].path[2] < session.nextId
        BY <1>1, <3>3 DEF Numbered
      <4> QED
        BY <1>1, <1>2, <4>1, <4>2
    <3> QED
      BY <3>1, <3>2, <3>3
  <2>2. \A i, j \in DOMAIN doc.sources : doc.sources[i].id = doc.sources[j].id => i = j
    BY <1>1, <1>3
  <2>3. ASSUME NEW i \in DOMAIN doc.clips
        PROVE  /\ doc.clips[i].id < doc.nextId
               /\ \E j \in DOMAIN doc.sources : doc.sources[j].id = doc.clips[i].source
    BY <1>1, <1>3, <1>4
  <2> QED
    BY <1>2, <2>1, <2>2, <2>3 DEF Numbered
<1>7. doc \in DocumentState
  <2> DEFINE sources == [i \in DOMAIN S |-> OpenedSource(i, S[i].path)]
             clip(i) == [C[i] EXCEPT !.source = source(session, @)]
             clips == [i \in DOMAIN C |-> clip(i)]
  <2>1. doc = [sources |-> sources, clips |-> clips, nextId |-> NextIdOf(session)]
    BY DEF Loaded
  <2>2. \A i \in DOMAIN S : sources[i] \in SourceEntry
    BY <1>1, <1>3 DEF EntryHolds
  <2>3. ASSUME NEW i \in DOMAIN C PROVE clip(i) \in Clip
    <3>1. source(session, C[i].source) \in Nat
      BY <1>1, <1>4
    <3> QED
      BY <1>1, <3>1 DEF Clip
  <2> HIDE DEF clip
  <2>4. sources \in [1..Len(S) -> SourceEntry] /\ clips \in [1..Len(C) -> Clip]
    BY <1>1, <2>2, <2>3
  <2> HIDE DEF sources, clips
  <2>8. Len(S) \in Nat /\ Len(C) \in Nat
    BY <1>1
  <2> HIDE DEF S, C
  <2>5. sources \in Seq(SourceEntry)
    BY <2>4, <2>8, SeqDef
  <2>7. clips \in Seq(Clip)
    BY <2>4, <2>8, SeqDef
  <2>6. NextIdOf(session) \in Nat
    BY <1>1, <1>2
  <2> QED
    BY <2>1, <2>5, <2>6, <2>7 DEF DocumentState
<1>8. DocHolds(doc, disk)
  BY <1>1, <1>3, <1>6, <1>7 DEF DocHolds
<1> QED
  BY <1>5, <1>8

LEMMA RecordingHolds ==
  ASSUME disk \in [Files -> Playable \cup {Broken, None}], disk[Recording] = Recording
  PROVE  DocHolds(RecordingOpened, disk) /\ Fresh(RecordingOpened)
<1> DEFINE entry == [id |-> 1, file |-> Recording, samples |-> Silence, path |-> Recording]
           clip == [id |-> 2, source |-> 1]
<1>1. entry \in SourceEntry /\ clip \in Clip
  BY Names DEF SourceEntry, Clip
<1>2. Recording # None /\ Recording \notin Media
  BY NamesAssumption, FilesAssumption
<1>3. EntryHolds(entry, disk) /\ ~Made(entry)
  BY <1>1, <1>2 DEF EntryHolds, Made
<1>4. entry.id = 1 /\ entry.path = Recording /\ clip.id = 2 /\ clip.source = 1
  OBVIOUS
<1>5. RecordingOpened = [sources |-> <<entry>>, clips |-> <<clip>>, nextId |-> 3]
  BY DEF RecordingOpened
<1> HIDE DEF entry, clip
<1>6. /\ RecordingOpened.sources = <<entry>> /\ RecordingOpened.clips = <<clip>>
      /\ RecordingOpened.nextId = 3
  BY <1>5
<1>7. /\ DOMAIN <<entry>> = {1} /\ <<entry>>[1] = entry /\ <<entry>> \in Seq(SourceEntry)
      /\ DOMAIN <<clip>> = {1} /\ <<clip>>[1] = clip /\ <<clip>> \in Seq(Clip)
  BY <1>1
<1>8. RecordingOpened \in DocumentState
  BY <1>5, <1>7 DEF DocumentState
<1>9. Numbered(RecordingOpened)
  BY <1>2, <1>4, <1>6, <1>7 DEF Numbered
<1> QED
  BY <1>2, <1>3, <1>4, <1>6, <1>7, <1>8, <1>9 DEF DocHolds, Fresh

-----------------------------------------------------------------------------
(* What is written as a session.                                           *)

LEMMA RecordedFields ==
  ASSUME NEW doc \in DocumentState, NEW session, session = Recorded(doc)
  PROVE  /\ session.clips = doc.clips /\ session.nextId = doc.nextId
         /\ DOMAIN session.sources = DOMAIN doc.sources
         /\ \A i \in DOMAIN doc.sources : /\ session.sources[i].id = doc.sources[i].id
                                          /\ session.sources[i].path = doc.sources[i].path
<1> DEFINE sources == [i \in DOMAIN doc.sources |->
                         [id |-> doc.sources[i].id, path |-> doc.sources[i].path]]
<1>1. session = [sources |-> sources, clips |-> doc.clips, nextId |-> doc.nextId]
  BY DEF Recorded
<1>2. session.sources = sources /\ session.clips = doc.clips /\ session.nextId = doc.nextId
  BY <1>1
<1> QED
  BY <1>2

LEMMA RecordedHolds ==
  ASSUME NEW doc, NEW contents, DocHolds(doc, contents),
         \A i \in DOMAIN doc.sources : doc.sources[i].path # None,
         NEW session, session = Recorded(doc)
  PROVE  session \in SessionFile /\ Numbered(session)
<1>1. doc \in DocumentState /\ Numbered(doc)
  BY DEF DocHolds
<1>2. /\ session.clips = doc.clips /\ session.nextId = doc.nextId
      /\ DOMAIN session.sources = DOMAIN doc.sources
      /\ \A i \in DOMAIN doc.sources : /\ session.sources[i].id = doc.sources[i].id
                                       /\ session.sources[i].path = doc.sources[i].path
  BY <1>1, RecordedFields
<1>3. Numbered(session)
  BY <1>1, <1>2 DEF Numbered
<1> DEFINE Entry == [id : Nat, path : Files]
           sources == [i \in DOMAIN doc.sources |->
                         [id |-> doc.sources[i].id, path |-> doc.sources[i].path]]
<1>4. \A i \in DOMAIN doc.sources : sources[i] \in Entry
  <2>1. SUFFICES ASSUME NEW i \in DOMAIN doc.sources PROVE sources[i] \in Entry
    OBVIOUS
  <2>2. doc.sources[i] \in SourceEntry
    BY <1>1, DocFields
  <2>3. doc.sources[i].id \in Nat /\ doc.sources[i].path \in Files
    BY <2>2 DEF SourceEntry
  <2> QED
    BY <2>3
<1>5. DOMAIN doc.sources = 1..Len(doc.sources) /\ Len(doc.sources) \in Nat
  BY <1>1, DocFields
<1>6. sources \in [1..Len(doc.sources) -> Entry]
  BY <1>4, <1>5
<1> HIDE DEF sources, Entry
<1>7. sources \in Seq(Entry)
  BY <1>5, <1>6, SeqDef
<1>8. session = [sources |-> sources, clips |-> doc.clips, nextId |-> doc.nextId]
  BY DEF Recorded, sources
<1>9. doc.clips \in Seq(Clip) /\ doc.nextId \in Nat
  BY <1>1, DocFields
<1>10. session \in SessionFile
  BY <1>7, <1>8, <1>9 DEF SessionFile, Entry
<1> QED
  BY <1>3, <1>10
-----------------------------------------------------------------------------
(* The steps.                                                              *)

LEMMA HeldHolds ==
  ASSUME SessionInv
  PROVE  /\ DocHolds(document, disk) /\ Compatible(document, document)
         /\ \A i \in DOMAIN states : /\ DocHolds(states[i], disk)
                                     /\ Compatible(document, states[i])
                                     /\ Compatible(states[i], document)
         /\ \A i, j \in DOMAIN states : Compatible(states[i], states[j])
BY DEF SessionInv, Held

\* A document that was just opened has a history of its own.
LEMMA OpensStep ==
  ASSUME SessionInv, NEW doc, DocHolds(doc, disk), Fresh(doc), Opens(doc)
  PROVE  SessionInv'
<1>1. /\ document' = doc /\ states' = <<doc>> /\ cursor' = 1 /\ status' = None
      /\ disk' = disk /\ sessions' = sessions
  BY DEF Opens, files
<1>2. Compatible(doc, doc)
  BY FreshIsCompatible
<1>3. doc \in DocumentState
  BY DEF DocHolds
<1>4. DOMAIN states' = {1} /\ states'[1] = doc /\ Len(states') = 1 /\ states' \in Seq(DocumentState)
  BY <1>1, <1>3
<1>5. Held' = {doc}
  BY <1>1, <1>4 DEF Held
<1>6. /\ \A d \in Held' : DocHolds(d, disk')
      /\ \A d, other \in Held' : Compatible(d, other)
  BY <1>1, <1>2, <1>5
<1>7. CounterGrows'
  <2>1. doc.nextId <= doc.nextId
    BY <1>3 DEF DocumentState
  <2> QED
    BY <1>1, <1>4, <2>1 DEF CounterGrows
<1>8. SessionsHold'
  BY <1>1 DEF SessionInv, SessionsHold, IsSession
<1>9. SavedAsReported'
  BY <1>1 DEF SavedAsReported
<1>10. cursor' \in 1..Len(states')
  BY <1>1, <1>4
<1> QED
  BY <1>1, <1>4, <1>6, <1>7, <1>8, <1>9, <1>10 DEF SessionInv

\* Undo and redo show a version that is held.
LEMMA MovesStep ==
  ASSUME SessionInv, Moves
  PROVE  SessionInv'
<1>1. PICK index \in 1..Len(states) : GoTo(index)
  BY DEF SessionInv, Moves, undo, redo, canUndo, canRedo
<1>2. /\ document' = states[index] /\ cursor' = index /\ states' = states
      /\ disk' = disk /\ sessions' = sessions /\ status' = None
  BY <1>1 DEF GoTo, Moves, files
<1>3. DOMAIN states = 1..Len(states)
  BY DEF SessionInv
<1>4. Held' \subseteq Held
  BY <1>2, <1>3 DEF Held
<1>5. /\ \A d \in Held' : DocHolds(d, disk')
      /\ \A d, other \in Held' : Compatible(d, other)
  BY <1>2, <1>4 DEF SessionInv
<1>6. CounterGrows'
  BY <1>2 DEF SessionInv, CounterGrows
<1>7. SessionsHold'
  BY <1>2 DEF SessionInv, SessionsHold, IsSession
<1>8. SavedAsReported'
  BY <1>2 DEF SavedAsReported
<1> QED
  BY <1>2, <1>5, <1>6, <1>7, <1>8 DEF SessionInv

\* A save: what it writes changes nothing that is held, and nothing of how it sounds.
LEMMA SaveStep ==
  ASSUME SessionInv, NEW p \in Paths, saveSession(p)
  PROVE  /\ SessionInv'
         /\ SoundIn(document', disk') = SoundIn(document, disk)
         /\ \A i \in DOMAIN states : SoundIn(states[i], disk') = SoundIn(states[i], disk)
<1>0. PICK failed \in SUBSET Pathless(document) : \E cut \in SUBSET failed :
        /\ document' = Consolidated(document, p, failed)
        /\ disk' = Written(document, p, failed, cut)
        /\ IF failed = {} THEN WriteSession(p)
           ELSE status' = None /\ UNCHANGED <<sessions, heard>>
        /\ UNCHANGED historyVars
  BY DEF saveSession
<1>1. PICK cut \in SUBSET failed :
        /\ document' = Consolidated(document, p, failed)
        /\ disk' = Written(document, p, failed, cut)
        /\ IF failed = {} THEN WriteSession(p)
           ELSE status' = None /\ UNCHANGED <<sessions, heard>>
        /\ UNCHANGED historyVars
  BY <1>0
<1>2. states' = states /\ cursor' = cursor
  BY <1>1 DEF historyVars
<1>3. /\ disk \in [Files -> Playable \cup {Broken, None}] /\ disk[Recording] = Recording
      /\ states \in Seq(DocumentState) /\ DOMAIN states = 1..Len(states)
  BY DEF SessionInv
<1>4. /\ DocHolds(document, disk) /\ Compatible(document, document)
      /\ \A i \in DOMAIN states : /\ DocHolds(states[i], disk)
                                  /\ Compatible(document, states[i])
                                  /\ Compatible(states[i], document)
      /\ \A i, j \in DOMAIN states : Compatible(states[i], states[j])
  BY HeldHolds
<1>5. /\ disk' \in [Files -> Playable \cup {Broken, None}]
      /\ KeptOrWritten(disk', p)
      /\ \A b \in Pathless(document) \ failed :
           disk'[Target(p, document.sources[b])] = document.sources[b].samples
  BY <1>1, <1>3, <1>4, WrittenFiles
<1>6. /\ DocHolds(document', disk')
      /\ \A i \in DOMAIN document.sources :
           document'.sources[i].file # None =>
             disk'[document'.sources[i].file] = disk[document'.sources[i].file]
      /\ \A other : Compatible(document, other) => Compatible(document', other)
      /\ \A other : Compatible(other, document) => Compatible(other, document')
      /\ Compatible(document', document')
  BY <1>1, <1>4, <1>5, ConsolidatedHolds
<1>7. document \in DocumentState /\ Numbered(document)
  BY <1>4 DEF DocHolds
<1>8. /\ document'.clips = document.clips /\ document'.nextId = document.nextId
      /\ DOMAIN document'.sources = DOMAIN document.sources
      /\ \A i \in DOMAIN document.sources :
           /\ document'.sources[i].id = document.sources[i].id
           /\ document'.sources[i].file = document.sources[i].file
           /\ document'.sources[i].samples = document.sources[i].samples
           /\ i \in Pathless(document) \ failed =>
                document'.sources[i].path = Target(p, document.sources[i])
           /\ i \notin Pathless(document) \ failed =>
                document'.sources[i] = document.sources[i]
  BY <1>1, <1>7, ConsolidatedFields
<1>9. ASSUME NEW d \in DOMAIN states, NEW i \in DOMAIN states[d].sources
      PROVE  /\ EntryHolds(states[d].sources[i], disk')
             /\ states[d].sources[i].file # None =>
                  disk'[states[d].sources[i].file] = disk[states[d].sources[i].file]
  <2>1. EntryHolds(states[d].sources[i], disk)
    BY <1>4 DEF DocHolds
  <2> QED
    BY <1>4, <1>5, <2>1, SourceKept
<1>10. SoundIn(document', disk') = SoundIn(document, disk)
  BY <1>6, <1>7, <1>8, SameSound
<1>11. ASSUME NEW d \in DOMAIN states
       PROVE  /\ DocHolds(states[d], disk')
              /\ SoundIn(states[d], disk') = SoundIn(states[d], disk)
  <2>1. states[d] \in DocumentState /\ Numbered(states[d])
    BY <1>4 DEF DocHolds
  <2>2. DocHolds(states[d], disk')
    BY <1>9, <2>1 DEF DocHolds
  <2>3. SoundIn(states[d], disk') = SoundIn(states[d], disk)
    BY <1>9, <2>1, SameSound
  <2> QED
    BY <2>2, <2>3
<1>12. Held' = {document'} \cup {states[i] : i \in DOMAIN states}
  BY <1>2 DEF Held
<1>13. \A doc \in Held' : DocHolds(doc, disk')
  BY <1>6, <1>11, <1>12
<1>14. \A doc, other \in Held' : Compatible(doc, other)
  BY <1>4, <1>6, <1>12
<1>15. disk'[Recording] = Recording
  <2>1. SUFFICES ASSUME disk'[Recording] # disk[Recording] PROVE FALSE
    BY <1>3
  <2>2. PICK b \in Pathless(document) : Recording = Target(p, document.sources[b])
    BY <1>5, <2>1, Names DEF KeptOrWritten
  <2>3. b \in DOMAIN document.sources /\ document.sources[b].path = None
    BY DEF Pathless
  <2>4. document.sources[b].id \in 1..MaxNextId
    BY <1>4, <2>3, PathlessIsMade DEF DocHolds
  <2> QED
    BY <2>2, <2>4, TargetIsMedia, FilesAssumption
<1>16. CounterGrows'
  BY <1>2, <1>8 DEF SessionInv, CounterGrows
<1>17. ASSUME failed = {}
       PROVE  /\ \A i \in DOMAIN document'.sources : document'.sources[i].path # None
              /\ Recorded(document') \in SessionFile /\ Numbered(Recorded(document'))
  <2>1. ASSUME NEW i \in DOMAIN document'.sources PROVE document'.sources[i].path # None
    <3>1. CASE document.sources[i].path = None
      <4>1. i \in Pathless(document) \ failed
        BY <1>8, <1>17, <3>1 DEF Pathless
      <4>2. document.sources[i].id \in 1..MaxNextId
        BY <1>4, <1>8, <3>1, PathlessIsMade DEF DocHolds
      <4> QED
        BY <1>8, <4>1, <4>2, TargetIsMedia, FilesAssumption
    <3>2. CASE document.sources[i].path # None
      BY <1>8, <3>2 DEF Pathless
    <3> QED
      BY <3>1, <3>2
  <2> QED
    BY <1>6, <2>1, RecordedHolds
<1>18. SessionsHold' /\ SavedAsReported'
  <2>1. sessions \in [Paths -> SessionFile \cup {None, Broken}]
        /\ \A q \in Paths : IsSession(q) => Numbered(sessions[q])
    BY DEF SessionInv, SessionsHold
  <2>2. CASE status' = None /\ sessions' = sessions
    BY <2>1, <2>2 DEF SessionsHold, SavedAsReported, IsSession
  <2>3. CASE status' = None /\ sessions' = [sessions EXCEPT ![p] = Broken]
    BY <2>1, <2>3 DEF SessionsHold, SavedAsReported, IsSession
  <2>4. CASE /\ failed = {} /\ status' = p
             /\ sessions' = [sessions EXCEPT ![p] = Recorded(document')]
    <3>1. sessions'[p] = Recorded(document') /\ \A q \in Paths \ {p} : sessions'[q] = sessions[q]
      BY <2>1, <2>4
    <3>2. SessionsHold'
      BY <1>17, <2>1, <2>4, <3>1 DEF SessionsHold, IsSession
    <3>3. SavedAsReported'
      BY <1>17, <2>4, <3>1 DEF SavedAsReported
    <3> QED
      BY <3>2, <3>3
  <2> QED
    BY <1>1, <2>2, <2>3, <2>4 DEF WriteSession
<1>19. SessionInv'
  <2>1. cursor' \in 1..Len(states') /\ states' \in Seq(DocumentState)
    BY <1>2, <1>3 DEF SessionInv
  <2> QED
    BY <1>5, <1>13, <1>14, <1>15, <1>16, <1>18, <2>1 DEF SessionInv
<1> QED
  BY <1>10, <1>11, <1>19

\* commit: the snapshots are some that were kept, all up to the cursor, and the new
\* document behind them.
LEMMA CommitStates ==
  ASSUME states \in Seq(DocumentState), cursor \in 1..Len(states),
         document' \in DocumentState, NEW label, commit(label)
  PROVE  /\ states' \in Seq(DocumentState)
         /\ cursor' = Len(states') /\ Len(states') \in Nat \ {0}
         /\ states'[Len(states')] = document'
         /\ \E off \in Nat : \A i \in 1..Len(states') :
              i # Len(states') => i + off \in 1..cursor /\ states'[i] = states[i + off]
<1> DEFINE kept == SubSeq(states, 1, cursor)
           whole == Append(kept, document')
<1>0. Len(states) \in Nat /\ cursor \in Nat /\ cursor >= 1 /\ cursor <= Len(states)
  OBVIOUS
<1>1. /\ kept \in Seq(DocumentState) /\ Len(kept) = cursor
      /\ \A i \in 1..cursor : kept[i] = states[i]
  <2>1. /\ kept \in Seq(DocumentState)
        /\ Len(kept) = IF 1 <= cursor THEN cursor - 1 + 1 ELSE 0
        /\ \A i \in 1..cursor - 1 + 1 : kept[i] = states[1 + i - 1]
    <3>1. \A i \in 1..cursor : states[i] \in DocumentState
      BY <1>0
    <3> QED
      BY <1>0, <3>1, SubSeqProperties
  <2>2. \A i \in 1..cursor : i \in 1..cursor - 1 + 1 /\ 1 + i - 1 = i
    BY <1>0
  <2> QED
    BY <1>0, <2>1, <2>2
<1> HIDE DEF kept
<1>2. /\ whole \in Seq(DocumentState) /\ Len(whole) = cursor + 1
      /\ whole[cursor + 1] = document'
      /\ \A i \in 1..cursor : whole[i] = states[i]
  BY <1>0, <1>1, AppendProperties
<1>3. states' = Trimmed(whole) /\ cursor' = Len(states')
  BY DEF commit, kept
<1> HIDE DEF whole
<1>4. CASE Len(whole) <= MaxDepth
  <2>1. states' = whole
    BY <1>0, <1>2, <1>3, <1>4, MaxDepthAssumption DEF Trimmed
  <2>2. \A i \in 1..Len(states') :
          i # Len(states') => i + 0 \in 1..cursor /\ states'[i] = states[i + 0]
    BY <1>0, <1>2, <2>1
  <2> QED
    BY <1>0, <1>2, <1>3, <2>1, <2>2
<1>5. CASE ~(Len(whole) <= MaxDepth)
  <2> DEFINE off == cursor + 1 - MaxDepth
  <2>1. states' = SubSeq(whole, off + 1, cursor + 1)
    BY <1>0, <1>2, <1>3, <1>5, MaxDepthAssumption DEF Trimmed
  <2>2. off \in Nat /\ off >= 1 /\ off + 1 <= cursor + 1 /\ MaxDepth \in Nat /\ MaxDepth >= 2
        /\ off + MaxDepth = cursor + 1
    BY <1>0, <1>2, <1>5, MaxDepthAssumption
  <2> HIDE DEF off
  <2>3. /\ states' \in Seq(DocumentState)
        /\ Len(states') = IF off + 1 <= cursor + 1 THEN cursor + 1 - (off + 1) + 1 ELSE 0
        /\ \A i \in 1..cursor + 1 - (off + 1) + 1 : states'[i] = whole[off + 1 + i - 1]
    <3>1. \A i \in off + 1..cursor + 1 : whole[i] \in DocumentState
      BY <1>0, <1>2, <2>2
    <3> QED
      BY <1>0, <2>1, <2>2, <3>1, SubSeqProperties
  <2>4. Len(states') = MaxDepth
    BY <1>0, <2>2, <2>3
  <2>5. ASSUME NEW i \in 1..MaxDepth
        PROVE  states'[i] = whole[i + off] /\ i + off \in 1..cursor + 1
    <3>1. i \in 1..cursor + 1 - (off + 1) + 1 /\ off + 1 + i - 1 = i + off
      BY <1>0, <2>2
    <3>2. i + off \in 1..cursor + 1
      BY <1>0, <2>2
    <3> QED
      BY <2>3, <3>1, <3>2
  <2>6. states'[MaxDepth] = document'
    <3>1. MaxDepth \in 1..MaxDepth /\ MaxDepth + off = cursor + 1
      BY <1>0, <2>2
    <3> QED
      BY <1>2, <2>5, <3>1
  <2>7. ASSUME NEW i \in 1..MaxDepth, i # MaxDepth
        PROVE  i + off \in 1..cursor /\ states'[i] = states[i + off]
    <3>1. i + off \in 1..cursor
      BY <1>0, <2>2, <2>7
    <3> QED
      BY <1>2, <2>5, <3>1
  <2>8. \A i \in 1..Len(states') :
          i # Len(states') => i + off \in 1..cursor /\ states'[i] = states[i + off]
    BY <2>4, <2>7
  <2>9. Len(states') \in Nat \ {0}
    BY <2>2, <2>4
  <2> QED
    BY <1>3, <2>2, <2>3, <2>4, <2>6, <2>8, <2>9
<1> QED
  BY <1>4, <1>5

\* The new source is not what any version was opened from, and has a number of its own.
LEMMA NewSourceIsCompatible ==
  ASSUME document \in DocumentState, Numbered(document), NEW audio \in Audio,
         NEW clips, NEW doc, doc = WithNewClip(clips, audio),
         NEW other, DocHolds(other, disk), other.nextId <= document.nextId,
         Compatible(document, other), Compatible(other, document)
  PROVE  Compatible(doc, other) /\ Compatible(other, doc)
<1> DEFINE entry == [id |-> document.nextId, file |-> None, samples |-> audio, path |-> None]
           n == Len(document.sources)
<1>1. doc.sources = Append(document.sources, entry)
  BY DEF WithNewClip
<1>2. /\ DOMAIN doc.sources = 1..n + 1 /\ doc.sources[n + 1] = entry
      /\ \A i \in 1..n : doc.sources[i] = document.sources[i]
      /\ n \in Nat /\ DOMAIN document.sources = 1..n
  BY <1>1, DocFields
<1>3. entry.path = None /\ Made(entry) /\ entry.id = document.nextId
  BY DEF Made
<1>4. ASSUME NEW j \in DOMAIN other.sources
      PROVE  /\ other.sources[j].id # entry.id
             /\ other.sources[j].path \in Media => other.sources[j].path[2] # entry.id
  <2>1. other \in DocumentState /\ Numbered(other)
    BY DEF DocHolds
  <2>2. other.sources[j] \in SourceEntry
    BY <2>1, DocFields
  <2>3. other.sources[j].id \in Nat /\ other.sources[j].id < other.nextId
    BY <2>1, <2>2 DEF Numbered, SourceEntry
  <2>4. other.nextId \in Nat /\ document.nextId \in Nat
    BY <2>1, DocFields
  <2>5. ASSUME other.sources[j].path \in Media
        PROVE  other.sources[j].path[2] # entry.id
    <3>1. other.sources[j].path[2] \in Nat
      BY <2>5, FileFields
    <3>2. other.sources[j].path[2] < other.nextId
      BY <2>1, <2>5 DEF Numbered
    <3> QED
      BY <1>3, <2>4, <3>1, <3>2
  <2> QED
    BY <1>3, <2>3, <2>4, <2>5
<1> HIDE DEF entry
<1>5. ASSUME NEW i \in DOMAIN doc.sources
      PROVE  \/ i \in DOMAIN document.sources /\ doc.sources[i] = document.sources[i]
             \/ doc.sources[i] = entry
  BY <1>2
<1>6. Compatible(doc, other)
  <2>1. SUFFICES ASSUME NEW i \in DOMAIN doc.sources, NEW j \in DOMAIN other.sources
        PROVE  LET one == doc.sources[i]
                   two == other.sources[j]
               IN /\ ~Made(one) /\ two.path = None /\ one.path \in Media => one.path[2] # two.id
                  /\ Made(one) /\ Made(two) /\ one.id = two.id => one.samples = two.samples
    BY DEF Compatible
  <2>2. CASE doc.sources[i] = entry
    BY <1>3, <1>4, <2>2
  <2>3. CASE i \in DOMAIN document.sources /\ doc.sources[i] = document.sources[i]
    BY <2>3 DEF Compatible
  <2> QED
    BY <1>5, <2>2, <2>3
<1>7. Compatible(other, doc)
  <2>1. SUFFICES ASSUME NEW i \in DOMAIN doc.sources, NEW j \in DOMAIN other.sources
        PROVE  LET one == other.sources[j]
                   two == doc.sources[i]
               IN /\ ~Made(one) /\ two.path = None /\ one.path \in Media => one.path[2] # two.id
                  /\ Made(one) /\ Made(two) /\ one.id = two.id => one.samples = two.samples
    BY DEF Compatible
  <2>2. CASE doc.sources[i] = entry
    BY <1>3, <1>4, <2>2
  <2>3. CASE i \in DOMAIN document.sources /\ doc.sources[i] = document.sources[i]
    BY <2>3 DEF Compatible
  <2> QED
    BY <1>5, <2>2, <2>3
<1> QED
  BY <1>6, <1>7

\* The document with the new clip, behind the clips it had or in place of all.
LEMMA NewClipHolds ==
  ASSUME DocHolds(document, disk), Compatible(document, document),
         document.nextId < MaxNextId, NEW audio \in Audio,
         NEW clips \in {<<>>, document.clips}, NEW doc, doc = WithNewClip(clips, audio)
  PROVE  /\ DocHolds(doc, disk) /\ Compatible(doc, doc)
         /\ doc.nextId = document.nextId + 2
<1> DEFINE entry == [id |-> document.nextId, file |-> None, samples |-> audio, path |-> None]
           clip == [id |-> document.nextId + 1, source |-> document.nextId]
           n == Len(document.sources)
           m == Len(clips)
<1>1. /\ document \in DocumentState /\ Numbered(document)
      /\ \A i \in DOMAIN document.sources : EntryHolds(document.sources[i], disk)
  BY DEF DocHolds
<1>2. /\ document.sources \in Seq(SourceEntry) /\ clips \in Seq(Clip)
      /\ document.nextId \in Nat \ {0}
  <2>1. document.sources \in Seq(SourceEntry) /\ document.clips \in Seq(Clip)
    BY <1>1, DocFields
  <2>2. <<>> \in Seq(Clip)
    BY EmptySeq
  <2>3. document.nextId \in Nat \ {0}
    BY <1>1 DEF Numbered
  <2> QED
    BY <2>1, <2>2, <2>3
<1>3. entry \in SourceEntry /\ clip \in Clip
  BY <1>2 DEF SourceEntry, Clip
<1>4. /\ entry.id = document.nextId /\ entry.path = None /\ entry.file = None
      /\ entry.samples = audio /\ Made(entry)
      /\ clip.id = document.nextId + 1 /\ clip.source = document.nextId
  BY DEF Made
<1>5. doc = [sources |-> Append(document.sources, entry), clips |-> Append(clips, clip),
             nextId |-> document.nextId + 2]
  BY DEF WithNewClip
<1> HIDE DEF entry, clip
<1>6. /\ doc.sources = Append(document.sources, entry) /\ doc.clips = Append(clips, clip)
      /\ doc.nextId = document.nextId + 2
  BY <1>5
<1>7. /\ DOMAIN doc.sources = 1..n + 1 /\ doc.sources[n + 1] = entry
      /\ \A i \in 1..n : doc.sources[i] = document.sources[i]
      /\ n \in Nat /\ DOMAIN document.sources = 1..n
      /\ doc.sources \in Seq(SourceEntry)
  BY <1>2, <1>3, <1>6, AppendProperties
<1>8. /\ DOMAIN doc.clips = 1..m + 1 /\ doc.clips[m + 1] = clip
      /\ \A i \in 1..m : doc.clips[i] = clips[i]
      /\ m \in Nat /\ doc.clips \in Seq(Clip)
  BY <1>2, <1>3, <1>6, AppendProperties
<1>9. doc \in DocumentState
  BY <1>2, <1>5, <1>6, <1>7, <1>8 DEF DocumentState
<1>10. ASSUME NEW i \in DOMAIN doc.sources
       PROVE  \/ i \in DOMAIN document.sources /\ doc.sources[i] = document.sources[i]
              \/ i = n + 1 /\ doc.sources[i] = entry
  BY <1>7
<1>11. ASSUME NEW i \in DOMAIN document.sources
       PROVE  /\ document.sources[i].id \in Nat /\ document.sources[i].id < document.nextId
              /\ document.sources[i].path \in Media =>
                   /\ document.sources[i].path[2] \in Nat
                   /\ document.sources[i].path[2] < document.nextId
  <2>1. document.sources[i] \in SourceEntry
    BY <1>1, DocFields
  <2> QED
    BY <1>1, <2>1, FileFields DEF Numbered, SourceEntry
<1>12. ASSUME NEW i \in DOMAIN doc.sources PROVE EntryHolds(doc.sources[i], disk)
  <2>1. EntryHolds(entry, disk)
    <3>1. entry.id \in 1..MaxNextId
      BY <1>2, <1>4, BoundsAssumption
    <3>2. entry.samples # Silence
      BY <1>4, NamesAssumption
    <3> QED
      BY <1>3, <1>4, <3>1, <3>2 DEF EntryHolds
  <2> QED
    BY <1>1, <1>10, <2>1
<1>13. Numbered(doc)
  <2>1. ASSUME NEW i \in DOMAIN doc.sources
        PROVE  /\ doc.sources[i].id < doc.nextId
               /\ doc.sources[i].path \in Media => doc.sources[i].path[2] < doc.nextId
    <3>1. CASE i \in DOMAIN document.sources /\ doc.sources[i] = document.sources[i]
      <4>1. doc.sources[i].id < doc.nextId
        BY <1>2, <1>6, <1>11, <3>1
      <4>2. ASSUME doc.sources[i].path \in Media PROVE doc.sources[i].path[2] < doc.nextId
        BY <1>2, <1>6, <1>11, <3>1, <4>2
      <4> QED
        BY <4>1, <4>2
    <3>2. CASE doc.sources[i] = entry
      BY <1>2, <1>4, <1>6, <3>2, FilesAssumption
    <3> QED
      BY <1>10, <3>1, <3>2
  <2>2. ASSUME NEW i \in DOMAIN doc.sources, NEW j \in DOMAIN doc.sources,
               doc.sources[i].id = doc.sources[j].id
        PROVE  i = j
    <3>1. CASE i \in DOMAIN document.sources /\ doc.sources[i] = document.sources[i]
      <4>1. doc.sources[i].id \in Nat /\ doc.sources[i].id < document.nextId
        BY <1>11, <3>1
      <4>2. doc.sources[j] # entry
        BY <1>2, <1>4, <2>2, <4>1
      <4> QED
        BY <1>1, <1>10, <2>2, <3>1, <4>2 DEF Numbered
    <3>2. CASE i = n + 1 /\ doc.sources[i] = entry
      <4>1. ASSUME j \in DOMAIN document.sources, doc.sources[j] = document.sources[j]
            PROVE  FALSE
        BY <1>2, <1>4, <1>11, <2>2, <3>2, <4>1
      <4> QED
        BY <1>10, <3>2, <4>1
    <3> QED
      BY <1>10, <3>1, <3>2
  <2>3. ASSUME NEW i \in DOMAIN doc.clips
        PROVE  /\ doc.clips[i].id < doc.nextId
               /\ \E j \in DOMAIN doc.sources : doc.sources[j].id = doc.clips[i].source
    <3>1. CASE i = m + 1
      <4>1. n + 1 \in DOMAIN doc.sources /\ doc.sources[n + 1].id = doc.clips[i].source
        BY <1>4, <1>7, <1>8, <3>1
      <4>2. doc.clips[i].id < doc.nextId
        BY <1>2, <1>4, <1>6, <1>8, <3>1
      <4> QED
        BY <4>1, <4>2
    <3>2. CASE i \in 1..m
      <4>1. clips = document.clips /\ i \in DOMAIN document.clips
            /\ doc.clips[i] = document.clips[i]
        BY <1>2, <1>8, <3>2
      <4>2. document.clips[i] \in Clip
        BY <1>1, <4>1, DocFields
      <4>3. document.clips[i].id \in Nat /\ document.clips[i].id < document.nextId
        BY <1>1, <4>1, <4>2 DEF Numbered, Clip
      <4>4. doc.clips[i].id < doc.nextId
        BY <1>2, <1>6, <4>1, <4>3
      <4>5. PICK j \in DOMAIN document.sources : document.sources[j].id = document.clips[i].source
        BY <1>1, <4>1 DEF Numbered
      <4>6. j \in DOMAIN doc.sources /\ doc.sources[j].id = doc.clips[i].source
        BY <1>7, <4>1, <4>5
      <4> QED
        BY <4>4, <4>6
    <3> QED
      BY <1>8, <3>1, <3>2
  <2>4. doc.nextId \in Nat \ {0}
    BY <1>2, <1>6
  <2> QED
    BY <2>1, <2>2, <2>3, <2>4 DEF Numbered
<1>14. DocHolds(doc, disk)
  BY <1>9, <1>12, <1>13 DEF DocHolds
<1>15. Compatible(doc, document) /\ Compatible(document, doc)
  BY <1>1, <1>2, NewSourceIsCompatible
<1>16. Compatible(doc, doc)
  <2>1. SUFFICES ASSUME NEW i \in DOMAIN doc.sources, NEW j \in DOMAIN doc.sources
        PROVE  LET one == doc.sources[i]
                   two == doc.sources[j]
               IN /\ ~Made(one) /\ two.path = None /\ one.path \in Media => one.path[2] # two.id
                  /\ Made(one) /\ Made(two) /\ one.id = two.id => one.samples = two.samples
    BY DEF Compatible
  <2>2. CASE i \in DOMAIN document.sources /\ doc.sources[i] = document.sources[i]
    BY <1>15, <2>2 DEF Compatible
  <2>3. CASE j \in DOMAIN document.sources /\ doc.sources[j] = document.sources[j]
    BY <1>15, <2>3 DEF Compatible
  <2>4. CASE doc.sources[i] = entry /\ doc.sources[j] = entry
    BY <1>4, <2>4
  <2> QED
    BY <1>10, <2>2, <2>3, <2>4
<1> QED
  BY <1>6, <1>14, <1>16

LEMMA EditStep ==
  ASSUME SessionInv, NEW audio \in Audio, NEW clips \in {<<>>, document.clips},
         NEW doc, doc = WithNewClip(clips, audio), Edited(doc)
  PROVE  SessionInv'
<1>1. /\ document' = doc /\ commit("edit") /\ status' = None
      /\ disk' = disk /\ sessions' = sessions /\ document.nextId < MaxNextId
  BY DEF Edited, files
<1>2. /\ states \in Seq(DocumentState) /\ cursor \in 1..Len(states) /\ Len(states) \in Nat
      /\ DOMAIN states = 1..Len(states)
  BY DEF SessionInv
<1>3. /\ DocHolds(document, disk) /\ Compatible(document, document)
      /\ \A i \in DOMAIN states : /\ DocHolds(states[i], disk)
                                  /\ Compatible(document, states[i])
                                  /\ Compatible(states[i], document)
      /\ \A i, j \in DOMAIN states : Compatible(states[i], states[j])
  BY HeldHolds
<1>4. DocHolds(doc, disk) /\ Compatible(doc, doc) /\ doc.nextId = document.nextId + 2
  BY <1>1, <1>3, NewClipHolds
<1>5. document \in DocumentState /\ Numbered(document) /\ doc \in DocumentState
  BY <1>3, <1>4 DEF DocHolds
<1>6. /\ states' \in Seq(DocumentState)
      /\ cursor' = Len(states') /\ Len(states') \in Nat \ {0}
      /\ states'[Len(states')] = document'
      /\ \E off \in Nat : \A i \in 1..Len(states') :
           i # Len(states') => i + off \in 1..cursor /\ states'[i] = states[i + off]
  BY <1>1, <1>2, <1>5, CommitStates
<1>7. PICK off \in Nat : \A i \in 1..Len(states') :
        i # Len(states') => i + off \in 1..cursor /\ states'[i] = states[i + off]
  BY <1>6
<1>8. DOMAIN states' = 1..Len(states')
  BY <1>6
<1> DEFINE n == Len(states')
<1>9. ASSUME NEW k \in 1..cursor
      PROVE  /\ k \in DOMAIN states
             /\ states[k].nextId <= document.nextId
             /\ Compatible(doc, states[k]) /\ Compatible(states[k], doc)
  <2>1. k \in DOMAIN states /\ cursor \in DOMAIN states /\ k <= cursor
    BY <1>2
  <2>2. states[k].nextId <= document.nextId
    BY <2>1 DEF SessionInv, CounterGrows
  <2> QED
    BY <1>3, <1>5, <2>1, <2>2, NewSourceIsCompatible
<1>10. ASSUME NEW i \in 1..n
       PROVE  states'[i] = doc \/ \E k \in 1..cursor : states'[i] = states[k]
  BY <1>1, <1>6, <1>7
<1>11. ASSUME NEW d \in Held' 
       PROVE  d = doc \/ \E k \in 1..cursor : d = states[k]
  BY <1>1, <1>8, <1>10 DEF Held
<1>12. ASSUME NEW d \in Held' PROVE DocHolds(d, disk')
  BY <1>1, <1>3, <1>4, <1>9, <1>11
<1>13. ASSUME NEW d \in Held', NEW other \in Held' PROVE Compatible(d, other)
  BY <1>3, <1>4, <1>9, <1>11
<1>14. CounterGrows'
  <2>1. document'.nextId = states'[cursor'].nextId
    BY <1>6
  <2>2. ASSUME NEW i \in 1..n, NEW j \in 1..n, i <= j
        PROVE  states'[i].nextId <= states'[j].nextId
    <3>1. document.nextId \in Nat
      BY <1>5, DocFields
    <3>2. CASE i = n
      <4>1. j = n
        BY <1>6, <2>2, <3>2
      <4> QED
        BY <1>1, <1>4, <1>6, <3>1, <3>2, <4>1
    <3>3. CASE i # n /\ j = n
      <4>1. i + off \in 1..cursor /\ states'[i] = states[i + off]
        BY <1>7, <3>3
      <4>2. states[i + off].nextId <= document.nextId /\ i + off \in DOMAIN states
        BY <1>9, <4>1
      <4>3. states[i + off].nextId \in Nat
        BY <1>3, <4>2, DocFields DEF DocHolds
      <4> QED
        BY <1>1, <1>4, <1>6, <3>1, <3>3, <4>1, <4>2, <4>3
    <3>4. CASE i # n /\ j # n
      <4>1. i + off \in 1..cursor /\ states'[i] = states[i + off]
            /\ j + off \in 1..cursor /\ states'[j] = states[j + off]
        BY <1>7, <3>4
      <4>2. i + off <= j + off
        BY <1>6, <2>2
      <4>3. i + off \in DOMAIN states /\ j + off \in DOMAIN states
        BY <1>2, <4>1
      <4> QED
        BY <4>1, <4>2, <4>3 DEF SessionInv, CounterGrows
    <3> QED
      BY <3>2, <3>3, <3>4
  <2> QED
    BY <1>8, <2>1, <2>2 DEF CounterGrows
<1>15. SessionsHold'
  BY <1>1 DEF SessionInv, SessionsHold, IsSession
<1>16. SavedAsReported'
  BY <1>1 DEF SavedAsReported
<1>17. cursor' \in 1..Len(states')
  BY <1>6
<1>18. disk' \in [Files -> Playable \cup {Broken, None}] /\ disk'[Recording] = Recording
  BY <1>1 DEF SessionInv
<1> QED
  BY <1>6, <1>12, <1>13, <1>14, <1>15, <1>16, <1>17, <1>18 DEF SessionInv

LEMMA InitHolds ==
  ASSUME Init
  PROVE  SessionInv
<1>1. /\ document = RecordingOpened /\ states = <<document>> /\ cursor = 1 /\ status = None
      /\ disk = [f \in Files |-> IF f = Recording THEN Recording ELSE None]
      /\ sessions = [p \in Paths |-> None]
  BY DEF Init
<1>2. disk \in [Files -> Playable \cup {Broken, None}] /\ disk[Recording] = Recording
  BY <1>1, Names DEF Playable
<1>3. DocHolds(document, disk) /\ Fresh(document)
  BY <1>1, <1>2, RecordingHolds
<1>4. Compatible(document, document) /\ document \in DocumentState
  BY <1>3, FreshIsCompatible DEF DocHolds
<1>5. DOMAIN states = {1} /\ states[1] = document /\ Len(states) = 1 /\ states \in Seq(DocumentState)
  BY <1>1, <1>4
<1>6. Held = {document}
  BY <1>5 DEF Held
<1>7. CounterGrows
  <2>1. document.nextId <= document.nextId
    BY <1>4, DocFields
  <2> QED
    BY <1>1, <1>5, <2>1 DEF CounterGrows
<1>8. SessionsHold /\ SavedAsReported
  BY <1>1 DEF SessionsHold, SavedAsReported, IsSession
<1> QED
  BY <1>1, <1>2, <1>3, <1>4, <1>5, <1>6, <1>7, <1>8 DEF SessionInv

LEMMA NextHolds ==
  ASSUME SessionInv, [Next]_sessionVars
  PROVE  SessionInv'
<1>1. ASSUME NEW p \in Paths, saveSession(p) PROVE SessionInv'
  BY <1>1, SaveStep
<1>2. ASSUME NEW p \in Paths, openSession(p) PROVE SessionInv'
  <2>1. sessions[p] \in SessionFile /\ Numbered(sessions[p])
    BY <1>2 DEF openSession, IsSession, SessionInv, SessionsHold
  <2>2. DocHolds(Loaded(sessions[p]), disk) /\ Fresh(Loaded(sessions[p]))
    BY <2>1, LoadedHolds DEF SessionInv
  <2> QED
    BY <1>2, <2>2, OpensStep DEF openSession
<1>3. CASE openFile
  <2>1. DocHolds(RecordingOpened, disk) /\ Fresh(RecordingOpened)
    BY RecordingHolds DEF SessionInv
  <2> QED
    BY <1>3, <2>1, OpensStep DEF openFile
<1>4. ASSUME NEW audio \in Audio, process(audio) PROVE SessionInv'
  BY <1>4, EditStep DEF process
<1>5. ASSUME NEW audio \in Audio, pasteClipboard(audio) PROVE SessionInv'
  BY <1>5, EditStep DEF pasteClipboard
<1>6. CASE Moves
  BY <1>6, MovesStep
<1>7. CASE UNCHANGED sessionVars
  BY <1>7 DEF sessionVars, undoVars, historyVars, files, SessionInv, Held, CounterGrows,
              SessionsHold, SavedAsReported, IsSession
<1> QED
  BY <1>1, <1>2, <1>3, <1>4, <1>5, <1>6, <1>7 DEF Next
-----------------------------------------------------------------------------
(* What follows.                                                           *)

\* A source plays what its path would be opened as.
LEMMA PathPlaysTheSame ==
  ASSUME disk \in [Files -> Playable \cup {Broken, None}],
         NEW entry, EntryHolds(entry, disk), entry.path # None, disk[entry.path] # Broken,
         NEW id \in Nat, NEW opened, opened = OpenedSource(id, entry.path)
  PROVE  Plays(opened) = Plays(entry)
<1>1. entry.path \in Files /\ entry.samples \in Audio \cup {Silence}
  BY DEF EntryHolds, SourceEntry
<1>2. CASE disk[entry.path] \in Playable
  <2>1. opened.file = entry.path
    BY <1>2 DEF OpenedSource
  <2>2. Plays(opened) = disk[entry.path]
    BY <2>1 DEF Plays
  <2>3. CASE entry.file # None
    BY <2>2, <2>3 DEF Plays, EntryHolds
  <2>4. CASE entry.file = None
    <3>1. entry.samples # Silence
      BY <1>2, <2>4 DEF EntryHolds
    <3>2. Made(entry)
      BY <1>1, <2>4, <3>1 DEF Made
    <3> QED
      BY <2>2, <2>4, <3>2 DEF Plays, EntryHolds
  <2> QED
    BY <2>3, <2>4
<1>3. CASE disk[entry.path] \notin Playable
  <2>1. opened.file = None /\ opened.samples = Silence
    BY <1>3 DEF OpenedSource
  <2>2. disk[entry.path] = None
    BY <1>1, <1>3
  <2>3. entry.file = None
    BY <2>2 DEF EntryHolds
  <2>4. ~Made(entry)
    BY <1>3, NamesAssumption DEF EntryHolds, Made, Playable
  <2>5. entry.samples = Silence
    BY <1>1, <2>3, <2>4 DEF Made
  <2> QED
    BY <2>1, <2>3, <2>5 DEF Plays
<1> QED
  BY <1>2, <1>3

LEMMA SavedReopens ==
  ASSUME SessionInv
  PROVE  WholeFilesReopen
<1>1. SUFFICES ASSUME status # None,
                      \A i \in DOMAIN document.sources :
                        Broken \notin {disk[f] : f \in {document.sources[i].path} \ {None}}
               PROVE  Reopens(status)
  BY DEF WholeFilesReopen
<1> DEFINE session == sessions[status]
           doc == Loaded(session)
<1>2. /\ status \in Paths /\ session = Recorded(document)
      /\ \A i \in DOMAIN document.sources : document.sources[i].path # None
  BY <1>1 DEF SessionInv, SavedAsReported
<1>3. /\ DocHolds(document, disk) /\ document \in DocumentState /\ Numbered(document)
      /\ disk \in [Files -> Playable \cup {Broken, None}]
  BY HeldHolds DEF SessionInv, DocHolds
<1>4. session \in SessionFile /\ Numbered(session)
  BY <1>2, <1>3, RecordedHolds
<1>5. IsSession(status)
  BY <1>4, FilesAssumption DEF IsSession
<1>6. /\ session.clips = document.clips
      /\ DOMAIN session.sources = DOMAIN document.sources
      /\ \A i \in DOMAIN document.sources : /\ session.sources[i].id = document.sources[i].id
                                            /\ session.sources[i].path = document.sources[i].path
  BY <1>2, <1>3, RecordedFields
<1>7. /\ DOMAIN doc.sources = DOMAIN session.sources /\ DOMAIN doc.clips = DOMAIN session.clips
      /\ DOMAIN session.sources = 1..Len(session.sources)
      /\ \A i \in DOMAIN session.sources :
           doc.sources[i] = OpenedSource(i, session.sources[i].path)
      /\ \A i \in DOMAIN session.clips :
           doc.clips[i].source = source(session, session.clips[i].source)
  BY <1>4, LoadedFields
<1>8. ASSUME NEW k \in DOMAIN document.sources
      PROVE  doc.sources[k].id = k /\ Plays(doc.sources[k]) = Plays(document.sources[k])
  <2>1. doc.sources[k] = OpenedSource(k, document.sources[k].path) /\ k \in Nat
    BY <1>6, <1>7
  <2>2. document.sources[k].path # None /\ disk[document.sources[k].path] # Broken
    BY <1>1, <1>2
  <2>3. EntryHolds(document.sources[k], disk)
    BY <1>3 DEF DocHolds
  <2>4. doc.sources[k].id = k
    BY <2>1 DEF OpenedSource
  <2> QED
    BY <1>3, <2>1, <2>2, <2>3, <2>4, PathPlaysTheSame
<1> HIDE DEF session, doc
<1>9. ASSUME NEW i \in DOMAIN document.clips
      PROVE  Plays(doc.sources[source(doc, doc.clips[i].source)])
               = Plays(document.sources[source(document, document.clips[i].source)])
  <2>1. PICK k \in DOMAIN document.sources : document.sources[k].id = document.clips[i].source
    BY <1>3 DEF Numbered
  <2>2. source(document, document.clips[i].source) = k
    BY <1>3, <2>1, SourcePlace DEF Numbered
  <2>3. source(session, document.clips[i].source) = k
    <3>1. \A a, b \in DOMAIN session.sources :
            session.sources[a].id = session.sources[b].id => a = b
      BY <1>4 DEF Numbered
    <3>2. k \in DOMAIN session.sources /\ session.sources[k].id = document.clips[i].source
      BY <1>6, <2>1
    <3> QED
      BY <3>1, <3>2, SourcePlace
  <2>4. doc.clips[i].source = k
    BY <1>6, <1>7, <2>3
  <2>5. source(doc, k) = k
    <3>1. \A a, b \in DOMAIN doc.sources : doc.sources[a].id = doc.sources[b].id => a = b
      BY <1>6, <1>7, <1>8
    <3>2. k \in DOMAIN doc.sources /\ doc.sources[k].id = k
      BY <1>6, <1>7, <1>8
    <3> QED
      BY <3>1, <3>2, SourcePlace
  <2> QED
    BY <1>8, <2>2, <2>4, <2>5
<1>10. DOMAIN doc.clips = DOMAIN document.clips
  BY <1>6, <1>7
<1>11. Sound(doc) = Sound(document)
  BY <1>9, <1>10 DEF Sound
<1> QED
  BY <1>5, <1>11 DEF Reopens, doc, session

\* Only a save changes files, and nobody hears it.
LEMMA SavingHeardByNone ==
  ASSUME SessionInv, Next, disk' # disk
  PROVE  /\ Sound(document)' = Sound(document)
         /\ \A i \in DOMAIN states : Sound(states[i])' = Sound(states[i])
<1>1. PICK p \in Paths : saveSession(p)
  BY DEF Next, openSession, openFile, Opens, process, pasteClipboard, Edited, Moves, files
<1>2. /\ SoundIn(document', disk') = SoundIn(document, disk)
      /\ \A i \in DOMAIN states : SoundIn(states[i], disk') = SoundIn(states[i], disk)
  BY <1>1, SaveStep
<1>3. states' = states
  BY <1>1 DEF saveSession, historyVars
<1>4. Sound(document) = SoundIn(document, disk) /\ Sound(document)' = SoundIn(document', disk')
  BY DEF Sound, SoundIn, Plays, source
<1>5. ASSUME NEW i \in DOMAIN states
      PROVE  /\ Sound(states[i]) = SoundIn(states[i], disk)
             /\ Sound(states[i])' = SoundIn(states'[i], disk')
  BY DEF Sound, SoundIn, Plays, source
<1> QED
  BY <1>2, <1>3, <1>4, <1>5

LEMMA HeldIsWellFormed ==
  ASSUME NEW doc, DocHolds(doc, disk)
  PROVE  WellFormed(doc)
<1>1. doc \in DocumentState /\ Numbered(doc)
  BY DEF DocHolds
<1>2. ASSUME NEW i \in DOMAIN doc.sources
      PROVE  /\ doc.sources[i].id < doc.nextId
             /\ \A f \in {doc.sources[i].path, doc.sources[i].file} \cap Media : f[2] < doc.nextId
             /\ doc.sources[i].path = None => doc.sources[i].file = None
  <2>1. EntryHolds(doc.sources[i], disk)
    BY DEF DocHolds
  <2>2. doc.sources[i].file = None \/ doc.sources[i].file = doc.sources[i].path
    BY <2>1 DEF EntryHolds
  <2> QED
    BY <1>1, <2>2, FilesAssumption DEF Numbered
<1> QED
  BY <1>1, <1>2 DEF WellFormed, Numbered

\* Every file, session and version fits the others, at all times (what keeps ids, file
\* names and snapshots apart in consolidateSources, sessionFromJson and commit).
THEOREM SessionInvAlways == Spec => []SessionInv
<1>1. Init => SessionInv
  BY InitHolds
<1>2. SessionInv /\ [Next]_sessionVars => SessionInv'
  BY NextHolds
<1> QED
  BY <1>1, <1>2, PTL DEF Spec

\* What the window has reported as saved opens as what was heard, for any sessions,
\* edits and failures, as long as no file of it was left broken (saveSession, openSession).
THEOREM SavedSessionsReopen == Spec => []WholeFilesReopen
<1>1. SessionInv => WholeFilesReopen
  BY SavedReopens
<1> QED
  BY <1>1, SessionInvAlways, PTL

\* The open document and every version in its history are documents the program can
\* hold: each id names one source, none is ahead of the counter, and every clip has its
\* source (appendSource, sessionFromJson, commit).
THEOREM DocumentsStayWhole == Spec => [](WellFormed(document) /\ \A i \in DOMAIN states : WellFormed(states[i]))
<1>1. SessionInv => WellFormed(document) /\ \A i \in DOMAIN states : WellFormed(states[i])
  BY HeldHolds, HeldIsWellFormed
<1> QED
  BY <1>1, SessionInvAlways, PTL

\* Writing files changes nothing about what the document or any version in its history
\* sounds like, whatever they stream from and whichever ids are used again
\* (consolidateSources, setNextId in sessionFromJson).
THEOREM SavesAreInaudible == Spec => SavingIsInaudible
<1>1. SessionInv /\ [Next]_sessionVars =>
        [disk' # disk => /\ Sound(document)' = Sound(document)
                         /\ \A i \in DOMAIN states : Sound(states[i])' = Sound(states[i])]_sessionVars
  <2>1. SUFFICES ASSUME SessionInv, Next, disk' # disk
                 PROVE  /\ Sound(document)' = Sound(document)
                        /\ \A i \in DOMAIN states : Sound(states[i])' = Sound(states[i])
    BY DEF sessionVars, files
  <2> QED
    BY <2>1, SavingHeardByNone
<1> QED
  BY <1>1, SessionInvAlways, PTL DEF Spec, SavingIsInaudible

=============================================================================
