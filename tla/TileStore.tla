----------------------------- MODULE TileStore -------------------------------
(* Analysed spectrogram tiles kept in a directory between runs. Every process  *)
(* has its own index of the directory, under its own mutex, and nothing orders *)
(* the file operations of two processes; a process may die between any two of  *)
(* them, and a power cut may tear what was written (nothing is flushed). An    *)
(* entry's name stands for everything that decides its bytes (ContentKey and   *)
(* the entry number), so a file is right for its name or it is damaged.        *)
EXTENDS Integers, Sequences, FiniteSets, SequencesExt, FiniteSetsExt

CONSTANTS None,          \* the value of a pointer or an optional that holds nothing
          Process,
          Name,          \* entries: a content key and the number of a tile
          SizeOf,        \* [Name -> Nat \ {0}], header included
          HeaderBytes,
          Budget

ASSUME SizesAssumption == /\ IsFiniteSet(Name)
                          /\ SizeOf \in [Name -> Nat \ {0}] /\ HeaderBytes \in Nat /\ Budget \in Nat

\* A file; what a process is doing to one; its index and what it is doing.
File == [state : {"version", "analysis", "whole", "torn"}, bytes : Nat]
Task == [op : {"read"}, name : Name, size : Nat] \cup [op : {"write", "rename"}, name : Name]
Store == [entries  : UNION {[known -> Nat] : known \in SUBSET Name},
          recency  : Seq(Name),     \* least recently used first
          resident : Nat,
          doing    : {None} \cup Task,
          alone    : BOOLEAN]       \* since it was opened: for the properties

\* Nothing is told from everything that takes its place.
ASSUME NothingAssumption == /\ None \notin Nat \cup Process \cup Name
                            /\ None \notin File /\ None \notin Task /\ None \notin Store

VARIABLES files,       \* the directory: a file or None, by name
          modified,    \* names of the files, least recently modified first
          temporaries, \* [owner, name, old]; the owner is None once it has died
          store,       \* by process: its store, or None
          answer       \* what the last successful read returned, and under which name

storeVars == <<files, modified, temporaries, store, answer>>

\* A directory may hold what another release of the program left under a name:
\* a file of another format version, or one that describes another analysis.
StoreInit == /\ files \in [Name -> {None} \cup
                             [state : {"version", "analysis"}, bytes : {HeaderBytes}]]
             /\ modified \in SetToSeqs({n \in Name : files[n] # None})
             /\ temporaries = {}
             /\ store = [p \in Process |-> None]
             /\ answer = None
-----------------------------------------------------------------------------
(* The index of one store. *)

Less(a, b) == IF b > a THEN 0 ELSE a - b
Known(s) == DOMAIN s.entries
BytesOf(s, names) == SumFunctionOnSet(s.entries, names)
Without(seq, names) == FoldLeft(LAMBDA left, n : IF n \in names THEN left ELSE Append(left, n), <<>>, seq)

Forget(s, names) == [s EXCEPT !.entries = [m \in Known(s) \ names |-> s.entries[m]],
                              !.recency = Without(s.recency, names),
                              !.resident = Less(s.resident, BytesOf(s, names))]
Drop(s, n) == Forget(s, {n} \cap Known(s))
Used(s, n) == [s EXCEPT !.recency = Append(Without(s.recency, {n}), n)]
Added(s, n, bytes) == [s EXCEPT !.entries = [m \in Known(s) \cup {n} |-> IF m = n THEN bytes ELSE s.entries[m]],
                                !.recency = Append(s.recency, n),
                                !.resident = s.resident + bytes]

\* Mutant: the entry about to be replaced may be evicted for its replacement.
Victims_AnyEntry(s, incoming, keep) ==
  LET Freed(k) == BytesOf(s, {s.recency[i] : i \in 1..k})
      Enough == {k \in 0..Len(s.recency) : Less(s.resident, Freed(k)) + incoming <= Budget}
  IN {s.recency[i] : i \in 1..(IF Enough = {} THEN Len(s.recency) ELSE Min(Enough))}

\* The least recently used entries that have to go for `incoming` more bytes to
\* fit; the entry about to be replaced is never one of them.
Victims(s, incoming, keep) ==
  LET others == Without(s.recency, {keep})
      Freed(k) == BytesOf(s, {others[i] : i \in 1..k})
      Enough == {k \in 0..Len(others) : Less(s.resident, Freed(k)) + incoming <= Budget}
      count == IF Enough = {} THEN Len(others) ELSE Min(Enough)
  IN {others[i] : i \in 1..count}

Whole(n) == [state |-> "whole", bytes |-> SizeOf[n]]
State(n) == IF files[n] = None THEN "absent" ELSE files[n].state
Unlink(names) == /\ files' = [n \in Name |-> IF n \in names THEN None ELSE files[n]]
                 /\ modified' = Without(modified, names)

Become(p, s) == store' = [store EXCEPT ![p] = s]
Ready(p) == store[p] # None /\ store[p].doing = None
Doing(p, what) == store[p] # None /\ store[p].doing # None /\ store[p].doing.op = what
Done(s) == [s EXCEPT !.doing = None]
-----------------------------------------------------------------------------
(* open: index the directory, oldest first, remove temporaries of more than an *)
(* hour, and evict down to the budget.                                         *)
Indexed == LET entries == [n \in {m \in Name : files[m] # None} |-> files[n].bytes]
           IN [entries |-> entries, recency |-> modified, resident |-> SumFunction(entries),
               doing |-> None, alone |-> \A q \in Process : store[q] = None]

\* The others have company from now on.
Opened(p, s) == store' = [q \in Process |-> IF q = p THEN s
                                           ELSE IF store[q] = None THEN None
                                           ELSE [store[q] EXCEPT !.alone = FALSE]]

open(p) ==
  /\ store[p] = None
  /\ LET gone == Victims(Indexed, 0, None)
     IN Opened(p, Forget(Indexed, gone)) /\ Unlink(gone)
  /\ temporaries' = {t \in temporaries : ~t.old}
  /\ UNCHANGED answer

(* read: the size first, then the file that has the name by then. *)

readMiss(p, n) == /\ Ready(p) /\ n \in Known(store[p]) /\ files[n] = None
                  /\ Become(p, Forget(store[p], {n}))
                  /\ UNCHANGED <<files, modified, temporaries, answer>>

readBegins(p, n) == /\ Ready(p) /\ n \in Known(store[p]) /\ files[n] # None
                    /\ Become(p, [store[p] EXCEPT !.doing = [op |-> "read", name |-> n,
                                                             size |-> files[n].bytes]])
                    /\ UNCHANGED <<files, modified, temporaries, answer>>

\* Mutant: the payload's checksum is not compared.
ReadsWell_Unchecked(n, size) == State(n) \in {"whole", "torn"} /\ size = SizeOf[n]

\* Magic, version, checksums and lengths hold, and the length is the one the
\* file had when it was sized.
ReadsWell(n, size) == State(n) = "whole" /\ size = SizeOf[n]

readSucceeds(p) ==
  /\ Doing(p, "read")
  /\ LET n == store[p].doing.name IN
     /\ ReadsWell(n, store[p].doing.size)
     /\ answer' = [name |-> n, file |-> files[n]]
     /\ Become(p, Done(Used(store[p], n)))
     /\ modified' = Append(Without(modified, {n}), n)
  /\ UNCHANGED <<files, temporaries>>

\* Another analysis under that name, or no file to open any more: a miss.
readOther(p) ==
  /\ Doing(p, "read")
  /\ LET n == store[p].doing.name IN
     store[p].doing.size >= HeaderBytes /\ State(n) \in {"absent", "analysis"}
  /\ Become(p, Done(store[p]))
  /\ UNCHANGED <<files, modified, temporaries, answer>>

\* What does not check out is removed by its name, whatever has it by then.
readDiscards(p) ==
  /\ Doing(p, "read")
  /\ LET n == store[p].doing.name
         size == store[p].doing.size IN
     /\ size >= HeaderBytes => State(n) \notin {"absent", "analysis"} /\ ~ReadsWell(n, size)
     /\ Become(p, Done(Drop(store[p], n)))
     /\ Unlink({n})
  /\ UNCHANGED <<temporaries, answer>>

(* write: make room, write a temporary file, rename it over the entry. *)

writeBegins(p, n) ==
  /\ Ready(p) /\ SizeOf[n] <= Budget
  /\ LET s == store[p]
         held == IF n \in Known(s) THEN s.entries[n] ELSE 0
         gone == Victims(s, Less(SizeOf[n], held), n)
     IN /\ Become(p, [Forget(s, gone) EXCEPT !.doing = [op |-> "write", name |-> n]])
        /\ Unlink(gone)
  /\ UNCHANGED <<temporaries, answer>>

Mine(p) == {t \in temporaries : t.owner = p}

\* The whole entry, or the directory or the disk refuses and nothing is left.
writeTemporary(p) ==
  /\ Doing(p, "write")
  /\ LET n == store[p].doing.name IN
     \/ /\ temporaries' = temporaries \cup {[owner |-> p, name |-> n, old |-> FALSE]}
        /\ Become(p, [store[p] EXCEPT !.doing.op = "rename"])
     \/ Become(p, Done(store[p])) /\ UNCHANGED temporaries
  /\ UNCHANGED <<files, modified, answer>>

rename(p) ==
  /\ Doing(p, "rename")
  /\ \E t \in Mine(p) :
       /\ files' = [files EXCEPT ![t.name] = Whole(t.name)]
       /\ modified' = Append(Without(modified, {t.name}), t.name)
       /\ temporaries' = temporaries \ {t}
       /\ Become(p, Done(Added(Drop(store[p], t.name), t.name, SizeOf[t.name])))
  /\ UNCHANGED answer

\* The rename is refused, or the temporary was taken for one left behind.
renameFails(p) ==
  /\ Doing(p, "rename")
  /\ temporaries' = temporaries \ Mine(p)
  /\ Become(p, Done(store[p]))
  /\ UNCHANGED <<files, modified, answer>>

clear(p) == /\ Ready(p)
            /\ Unlink(Known(store[p]))
            /\ Become(p, Forget(store[p], Known(store[p])))
            /\ UNCHANGED <<temporaries, answer>>
-----------------------------------------------------------------------------
(* The world around it. *)

Left(owners) == {IF t.owner \in owners THEN [t EXCEPT !.owner = None] ELSE t : t \in temporaries}

\* A process ends, between two operations or inside one: what it was writing
\* stays, whole or in part.
dies(p) ==
  /\ store[p] # None /\ store' = [store EXCEPT ![p] = None]
  /\ temporaries' = Left({p})
  /\ answer' = None
  /\ UNCHANGED <<files, modified>>

\* An hour passes: a temporary file is old, whoever writes it.
hour == /\ temporaries' = {[t EXCEPT !.old = TRUE] : t \in temporaries}
        /\ UNCHANGED <<files, modified, store, answer>>

\* The power goes, and a file may be torn.
powerCut ==
  /\ store' = [p \in Process |-> None]
  /\ \E n \in Name : /\ files[n] # None
                     /\ \E left \in {0, files[n].bytes} :
                          files' = [files EXCEPT ![n] = [state |-> "torn", bytes |-> left]]
  /\ temporaries' = Left(Process)
  /\ answer' = None
  /\ UNCHANGED modified

StoreStep(p) == \/ open(p) \/ readSucceeds(p) \/ readOther(p) \/ readDiscards(p)
                \/ writeTemporary(p) \/ rename(p) \/ renameFails(p) \/ clear(p) \/ dies(p)
                \/ \E n \in Name : readMiss(p, n) \/ readBegins(p, n) \/ writeBegins(p, n)

StoreNext == (\E p \in Process : StoreStep(p)) \/ hour \/ powerCut

StoreSpec == StoreInit /\ [][StoreNext]_storeVars
-----------------------------------------------------------------------------
\* No reader, of either process, is ever given bytes that are not the whole
\* entry it asked for, whatever crashed, was torn, evicted or replaced under it.
NeverTheWrongPicture == answer # None => answer.file = Whole(answer.name)

\* Every store's account adds up and is within the budget, whatever the other
\* process has done to its files.
AccountAddsUp(s) == /\ s.resident = BytesOf(s, Known(s))
                    /\ s.resident <= Budget
                    /\ Known(s) = {s.recency[i] : i \in DOMAIN s.recency}
                    /\ Len(s.recency) = Cardinality(Known(s))

\* ... and a store that has had the directory to itself since it opened it knows
\* all that is in it, so that the files are within the budget too.
KeepsItsBudget ==
  \A p \in Process : store[p] # None =>
    /\ AccountAddsUp(store[p])
    /\ store[p].alone => \A n \in Name : files[n] # None =>
                           n \in Known(store[p]) /\ files[n].bytes <= store[p].entries[n]
=============================================================================
