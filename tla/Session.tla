------------------------------- MODULE Session --------------------------------
(* Saving and opening sessions (sa-engine: SessionFile, Consolidate;           *)
(* sa-ui/MainWindow: saveSession, openSession, openFile) around the snapshots  *)
(* of UndoHistory. A session file records sources by path, so audio that       *)
(* editing made is first written to a folder named after the session, one      *)
(* file per source, named by the source's id.                                  *)
(*                                                                             *)
(* A document is its sources, its clips in timeline order and its id counter;  *)
(* it sounds like what its clips refer to. A piece of audio is one value. A    *)
(* source opened from a file streams it: it sounds like whatever the file      *)
(* holds now. Files are never deleted, and the user opens recordings and       *)
(* sessions, not the files of a media folder.                                  *)
EXTENDS UndoHistory, FiniteSets, FiniteSetsExt, TLC

CONSTANTS
  Paths,      \* where sessions are saved
  Audio,      \* the pieces of audio editing can make
  Recording,  \* the recording the user opens: the file and its audio
  Silence,    \* what stands in for a source that cannot be opened
  Broken,     \* what a file holds that was begun and not finished
  None,       \* no file, no path, no report
  Unreliable, \* the session paths at which writing can fail
  MaxNextId   \* bound: no edit starts once this many ids are used

ASSUME NamesAssumption ==
  /\ None \notin Paths
  /\ {Recording, Silence, Broken, None} \cap Audio = {}
  /\ Recording \notin {Silence, Broken, None} /\ Silence \notin {Broken, None} /\ Broken # None
ASSUME BoundsAssumption == Unreliable \subseteq Paths /\ MaxNextId \in Nat

VARIABLES
  disk,      \* what every audio file holds
  sessions,  \* what the session file at every path holds
  heard,     \* history: what the session at each path sounded like when saved
  status     \* status_: the path the window has just reported as saved, or None

files == <<disk, sessions, heard>>
sessionVars == <<undoVars, files, status>>

Media == Paths \X (1..MaxNextId + 1)     \* <session>.media/source-<id>.wav
Files == Media \cup {Recording}
Playable == Audio \cup {Recording}

\* A source streams `file`, or holds `samples` where there is no file.
SourceEntry == [id : Nat, file : Files \cup {None}, samples : Audio \cup {Silence},
                path : Files \cup {None}]
Clip == [id : Nat, source : Nat]
DocumentState == [sources : Seq(SourceEntry), clips : Seq(Clip), nextId : Nat]
SessionFile == [sources : Seq([id : Nat, path : Files]), clips : Seq(Clip), nextId : Nat]

\* What is not there is no file's name, and is no session.
ASSUME FilesAssumption == /\ None \notin Media /\ Recording \notin Media
                          /\ None \notin SessionFile /\ Broken \notin SessionFile

-------------------------------------------------------------------------------
(* What a document sounds like.                                                *)

Plays(entry) == IF entry.file = None THEN entry.samples ELSE disk[entry.file]

source(doc, id) == CHOOSE i \in DOMAIN doc.sources : doc.sources[i].id = id

Sound(doc) == [i \in DOMAIN doc.clips |-> Plays(doc.sources[source(doc, doc.clips[i].source)])]

-------------------------------------------------------------------------------
(* Saving: consolidateSources and saveSession.                                 *)

Pathless(doc) == {i \in DOMAIN doc.sources : doc.sources[i].path = None}

Target(p, entry) == <<p, entry.id>>

\* Bug variant: a source whose file could not be written is pointed at it too.
Consolidated_FailedToo(doc, p, failed) ==
  [doc EXCEPT !.sources = [i \in DOMAIN doc.sources |->
     IF i \in Pathless(doc)
     THEN [doc.sources[i] EXCEPT !.path = Target(p, doc.sources[i])]
     ELSE doc.sources[i]]]

\* setSourcePath for every source that was written
Consolidated(doc, p, failed) ==
  [doc EXCEPT !.sources = [i \in DOMAIN doc.sources |->
     IF i \in Pathless(doc) \ failed
     THEN [doc.sources[i] EXCEPT !.path = Target(p, doc.sources[i])]
     ELSE doc.sources[i]]]

\* The files after it; `cut` are the failures that had opened theirs.
Written(doc, p, failed, cut) ==
  [f \in Files |->
     LET writes == {i \in Pathless(doc) : Target(p, doc.sources[i]) = f}
     IN IF writes \ failed # {} THEN Plays(doc.sources[CHOOSE i \in writes \ failed : TRUE])
        ELSE IF writes \cap cut # {} THEN Broken
        ELSE disk[f]]

\* sessionToJson
Recorded(doc) ==
  [sources |-> [i \in DOMAIN doc.sources |->
                  [id |-> doc.sources[i].id, path |-> doc.sources[i].path]],
   clips |-> doc.clips, nextId |-> doc.nextId]

\* The session file: written, or not opened, or opened and not finished.
WriteSession(p) ==
  \/ /\ sessions' = [sessions EXCEPT ![p] = Recorded(document')]
     /\ heard' = [heard EXCEPT ![p] = Sound(document)]
     /\ status' = p
  \/ /\ p \in Unreliable
     /\ sessions' \in {sessions, [sessions EXCEPT ![p] = Broken]}
     /\ status' = None
     /\ UNCHANGED heard

\* A source that cannot be written does not keep the others from being written,
\* and stops the save once they are. The history is not told.
saveSession(p) ==
  \E failed \in SUBSET Pathless(document) : \E cut \in SUBSET failed :
    /\ failed = {} \/ p \in Unreliable
    /\ document' = Consolidated(document, p, failed)
    /\ disk' = Written(document, p, failed, cut)
    /\ IF failed = {} THEN WriteSession(p)
       ELSE status' = None /\ UNCHANGED <<sessions, heard>>
    /\ UNCHANGED historyVars

-------------------------------------------------------------------------------
(* Opening.                                                                    *)

\* A new document with a history of its own.
Opens(doc) == /\ document' = doc
              /\ states' = <<doc>> /\ labels' = <<"Open">> /\ cursor' = 1
              /\ status' = None
              /\ UNCHANGED files

RecordingOpened ==
  [sources |-> <<[id |-> 1, file |-> Recording, samples |-> Silence, path |-> Recording]>>,
   clips |-> <<[id |-> 2, source |-> 1]>>, nextId |-> 3]

openFile == Opens(RecordingOpened)

\* addSource with what the path opens as, or silence of the recorded shape
OpenedSource(id, path) ==
  [id |-> id, file |-> IF disk[path] \in Playable THEN path ELSE None,
   samples |-> Silence, path |-> path]

\* Bug variant: the recorded counter is not looked at.
NextIdOf_Counted(session) == Len(session.sources) + 1
NextIdOf(session) ==
  Max({session.nextId, Len(session.sources) + 1}
        \cup {session.clips[i].id + 1 : i \in DOMAIN session.clips})


\* sessionFromJson: sources are numbered anew in the order of the file, and the
\* clips follow; clip ids stay.
Loaded(session) ==
  [sources |-> [i \in DOMAIN session.sources |-> OpenedSource(i, session.sources[i].path)],
   clips |-> [i \in DOMAIN session.clips |->
                [session.clips[i] EXCEPT !.source = source(session, @)]],
   nextId |-> NextIdOf(session)]

IsSession(p) == sessions[p] \notin {None, Broken}

\* A session that does not load leaves the open document alone.
openSession(p) == IsSession(p) /\ Opens(Loaded(sessions[p]))

-------------------------------------------------------------------------------
(* Editing: the edits that make audio, and moving through the history.         *)

\* addSource and appendSource with a piece of audio that has no file
WithNewClip(clips, audio) ==
  [sources |-> Append(document.sources,
                      [id |-> document.nextId, file |-> None, samples |-> audio, path |-> None]),
   clips |-> Append(clips, [id |-> document.nextId + 1, source |-> document.nextId]),
   nextId |-> document.nextId + 2]

Edited(doc) == /\ document.nextId < MaxNextId
               /\ document' = doc
               /\ commit("edit")
               /\ status' = None
               /\ UNCHANGED files

\* An effect over the whole document puts one clip in the place of all.
process(audio) == Edited(WithNewClip(<<>>, audio))
\* A paste at the end.
pasteClipboard(audio) == Edited(WithNewClip(document.clips, audio))

Moves == (undo \/ redo) /\ status' = None /\ UNCHANGED files

Init == /\ document = RecordingOpened
        /\ states = <<document>> /\ labels = <<"Open">> /\ cursor = 1
        /\ disk = [f \in Files |-> IF f = Recording THEN Recording ELSE None]
        /\ sessions = [p \in Paths |-> None]
        /\ heard = [p \in Paths |-> None]
        /\ status = None

Next == \/ \E p \in Paths : saveSession(p) \/ openSession(p)
        \/ openFile
        \/ \E audio \in Audio : process(audio) \/ pasteClipboard(audio)
        \/ Moves

Spec == Init /\ [][Next]_sessionVars

-------------------------------------------------------------------------------
(* A document is one the program can hold: ids name one source or clip each,   *)
(* stay below the counter, as do the ids that name its files, and every clip   *)
(* has its source.                                                             *)
WellFormed(doc) ==
  /\ doc \in DocumentState
  /\ \A i, j \in DOMAIN doc.sources : doc.sources[i].id = doc.sources[j].id => i = j
  /\ \A i \in DOMAIN doc.sources :
       /\ doc.sources[i].id < doc.nextId
       /\ \A f \in {doc.sources[i].path, doc.sources[i].file} \cap Media : f[2] < doc.nextId
       /\ doc.sources[i].path = None => doc.sources[i].file = None
  /\ \A i \in DOMAIN doc.clips :
       /\ doc.clips[i].id < doc.nextId
       /\ \E j \in DOMAIN doc.sources : doc.sources[j].id = doc.clips[i].source

TypeOK == /\ HistoryTypeOK
          /\ WellFormed(document)
          /\ \A i \in DOMAIN states : WellFormed(states[i])
          /\ disk \in [Files -> Playable \cup {Broken, None}]
          /\ \A p \in Paths : IsSession(p) => sessions[p] \in SessionFile
          /\ status \in Paths \cup {None}

Reopens(p) == IsSession(p) /\ Sound(Loaded(sessions[p])) = Sound(document)

(* "A consolidated session reopens with its audio intact"                      *)
(* (ConsolidateTests.cpp:74): so does every session the window reports as      *)
(* saved.                                                                      *)
SavedMeansReopens == status # None => Reopens(status)

(* It does as long as none of its files was left behind by a write that        *)
(* failed: through edits, undo, saves that failed on other files and the       *)
(* renumbering of ids by opening other sessions (consolidateSources,           *)
(* sessionFromJson).                                                           *)
WholeFilesReopen ==
  status # None =>
    \/ Reopens(status)
    \/ \E i \in DOMAIN document.sources : Broken \in {disk[f] : f \in {document.sources[i].path} \ {None}}

(* Saving writes files, and an open document may be streaming from such files: *)
(* it never changes what the document or any version in its history sounds     *)
(* like (consolidateSources, setNextId in sessionFromJson).                    *)
SavingIsInaudible ==
  [][disk' # disk => /\ Sound(document)' = Sound(document)
                     /\ \A i \in DOMAIN states : Sound(states[i])' = Sound(states[i])]_sessionVars
-------------------------------------------------------------------------------
\* For TLC: pieces of audio are alike, and what sessions sounded like when saved
\* is a history that no action reads.
AudioSymmetry == Permutations(Audio)
WhatIsRead == <<undoVars, disk, sessions, status>>
===============================================================================
