---------------------------- MODULE ProgramsProofs ----------------------------
(***************************************************************************)
(* For files of any length, in any state and of any name, for blocks of    *)
(* any size and every request: the command line tool tells the truth about *)
(* the file it leaves.                                                     *)
(*                                                                         *)
(* A command is its steps, so the first half of this module is about them: *)
(* a command that writes counts its arguments, asks, finds what it is to   *)
(* write from at step r, checks the dither, creates the file at step k,    *)
(* copies, finishes and reports, and the others never create a file.  The  *)
(* second half is the invariant that this shape makes inductive: what the  *)
(* file holds is known from the step the command is at and the frames it   *)
(* has copied, what it copies from is known once it is past step r, and it *)
(* is past a step only if what the step asks for was so.                   *)
(*                                                                         *)
(* And for any lists of devices, whichever come, go and refuse, and any    *)
(* configuration asked for: a device opens if one will, and as it can.     *)
(*                                                                         *)
(* And for documents of any length and windows of any width: the views and *)
(* the ruler stay together, as do the equaliser and its bands.             *)
(*                                                                         *)
(* And, from CommandsProofs: the window's commands keep to their target,   *)
(* and what one run of it leaves is what the next one finds.               *)
(***************************************************************************)
EXTENDS MCPrograms, CommandsProofs, SequenceTheorems, FiniteSetTheorems, WellFoundedInduction, TLAPS
-------------------------------------------------------------------------------
(* The steps of the commands that write.                                       *)

\* The names of the steps; those that write, and those that leave a source.
Step == {"count", "one report", "heading", "open", "open other", "same rate", "measure", "gate", "place", "print", "print rates",
         "next file", "read", "read other", "process", "generate", "dither", "create", "copy", "finish", "option", "numbers", "stereo",
         "session", "refuse"}
Writing == {"dither", "create", "copy", "finish", "next file"}
Sources == {"open", "read", "place", "generate", "session"}

\* A command that writes creates its file at step k and says at the end what it has
\* written; what it asks of its options comes second.
WritesAt(s, k) ==
  /\ s \in Seq(Step) /\ Len(s) = k + 3 /\ k \in Nat /\ k >= 4 /\ s[1] = "count"
  /\ s[k - 1] = "dither" /\ s[k] = "create" /\ s[k + 1] = "copy" /\ s[k + 2] = "finish"
  /\ s[k + 3] \in {"print", "print rates"}
  /\ \A i \in 1..k - 2 : s[i] \notin Writing
  /\ \A i \in 1..Len(s) : s[i] = "option" => i = 2

\* What it writes from is left by step r, and by no later one.
SourceAt(s, k, r) ==
  /\ r \in 2..k - 2
  /\ \A i \in 1..Len(s) : i > r => s[i] \notin Sources

\* The step that leaves it.
SourceOf(c) == CASE c = "sweep" -> "generate" [] c = "render" -> "session" [] c = "convert" -> "open" [] c = "normalise" -> "place"
                 [] OTHER -> "read"

\* Two runs of steps, one after the other.
LEMMA Joined ==
  ASSUME NEW a \in Seq(Step), NEW b \in Seq(Step), NEW s, s = a \o b
  PROVE  /\ s \in Seq(Step) /\ Len(s) = Len(a) + Len(b) /\ Len(a) \in Nat /\ Len(b) \in Nat
         /\ \A i \in 1..Len(a) : s[i] = a[i]
         /\ \A i \in 1..Len(b) : s[Len(a) + i] = b[i]
BY ConcatProperties

\* The steps of write(), and of saying so.
LEMMA WriteIs == writeAndSay \in Seq(Step) /\ Len(writeAndSay) = 5 /\ writeAndSay[1] = "dither" /\ writeAndSay[2] = "create"
           /\ writeAndSay[3] = "copy" /\ writeAndSay[4] = "finish" /\ writeAndSay[5] = "print"
<1>1. write \in Seq(Step) /\ <<"print">> \in Seq(Step)
  BY DEF write, Step
<1>2. Len(write) = 4 /\ write[1] = "dither" /\ write[2] = "create" /\ write[3] = "copy" /\ write[4] = "finish"
  BY DEF write
<1>3. PICK said : said = <<"print">>
  OBVIOUS
<1>4. Len(said) = 1 /\ said[1] = "print"
  BY <1>3
<1>5. writeAndSay = write \o said
  BY <1>3 DEF writeAndSay
<1>6. /\ writeAndSay \in Seq(Step) /\ Len(writeAndSay) = Len(write) + Len(said)
      /\ \A i \in 1..Len(write) : writeAndSay[i] = write[i]
      /\ \A i \in 1..Len(said) : writeAndSay[Len(write) + i] = said[i]
  BY <1>1, <1>3, <1>5, Joined
<1> QED
  BY <1>2, <1>4, <1>6

LEMMA Written ==
  ASSUME NEW a \in Seq(Step), NEW s, s = a \o writeAndSay
  PROVE  /\ s \in Seq(Step) /\ Len(s) = Len(a) + Len(writeAndSay) /\ Len(a) \in Nat
         /\ \A i \in 1..Len(a) : s[i] = a[i]
         /\ \A i \in 1..Len(writeAndSay) : s[Len(a) + i] = writeAndSay[i]
BY WriteIs, Joined

\* What a command does before it writes, n steps that begin by counting arguments.
Preparing(a, n) ==
  /\ a \in Seq(Step) /\ n = Len(a) /\ n \in Nat /\ n >= 2 /\ a[1] = "count"
  /\ \A i \in 1..n : a[i] \notin Writing /\ (a[i] = "option" => i = 2)
WritesAfter(a, n, s) ==
  /\ WritesAt(s, n + 2)
  /\ \A i \in 1..n : s[i] = a[i]
  /\ \A i \in 1..Len(s) : i > n => s[i] \notin Sources

\* Preparing and then writing is writing.
LEMMA WriteSteps ==
  ASSUME NEW a, NEW n, Preparing(a, n), NEW s, s = a \o writeAndSay
  PROVE  WritesAfter(a, n, s)
<1>0. /\ a \in Seq(Step) /\ n = Len(a) /\ n \in Nat /\ n >= 2 /\ a[1] = "count"
      /\ \A i \in 1..n : a[i] \notin Writing /\ (a[i] = "option" => i = 2)
  BY DEF Preparing
<1>1. /\ s \in Seq(Step) /\ Len(s) = Len(a) + Len(writeAndSay) /\ Len(a) \in Nat
      /\ \A i \in 1..Len(a) : s[i] = a[i]
      /\ \A i \in 1..Len(writeAndSay) : s[Len(a) + i] = writeAndSay[i]
  BY <1>0, Written
<1>2. /\ Len(s) = n + 5 /\ n \in Nat /\ \A i \in 1..n : s[i] = a[i]
      /\ s[n + 1] = "dither" /\ s[n + 2] = "create" /\ s[n + 3] = "copy"
      /\ s[n + 4] = "finish" /\ s[n + 5] = "print"
  BY <1>0, <1>1, WriteIs
<1>3. \A i \in 1..Len(s) : i <= n \/ i = n + 1 \/ i = n + 2 \/ i = n + 3 \/ i = n + 4 \/ i = n + 5
  BY <1>2
<1>4. \A i \in 1..Len(s) : i > n => s[i] \in {"dither", "create", "copy", "finish", "print"}
  <2> SUFFICES ASSUME NEW i \in 1..Len(s), i > n PROVE s[i] \in {"dither", "create", "copy", "finish", "print"}
    OBVIOUS
  <2>1. i \in Nat /\ ~(i <= n)
    BY <1>0, <1>2
  <2>2. i = n + 1 \/ i = n + 2 \/ i = n + 3 \/ i = n + 4 \/ i = n + 5
    BY <1>3, <2>1
  <2> QED
    BY <1>2, <2>2
<1>5. \A i \in 1..Len(s) : i > n => s[i] \notin Sources /\ s[i] # "option"
  BY <1>4 DEF Sources
<1>6. WritesAt(s, n + 2)
  <2>1. n + 2 - 1 = n + 1 /\ n + 2 + 1 = n + 3 /\ n + 2 + 2 = n + 4 /\ n + 2 + 3 = n + 5 /\ n + 2 - 2 = n /\ n + 2 \in Nat /\ n + 2 >= 4
        /\ 1 \in 1..n
    BY <1>0, <1>2
  <2>2. \A i \in 1..Len(s) : s[i] = "option" => i = 2
    BY <1>0, <1>2, <1>5, <1>3
  <2>3. \A i \in 1..n : s[i] \notin Writing
    BY <1>0, <1>2
  <2>4. PICK k : k = n + 2
    OBVIOUS
  <2>5. /\ s \in Seq(Step) /\ Len(s) = k + 3 /\ k \in Nat /\ k >= 4 /\ s[1] = "count"
    BY <1>0, <1>1, <1>2, <2>1, <2>4
  <2>9. k - 1 = n + 1 /\ k + 1 = n + 3 /\ k + 2 = n + 4 /\ k + 3 = n + 5
    BY <1>2, <2>4
  <2>6. /\ s[k - 1] = "dither" /\ s[k] = "create" /\ s[k + 1] = "copy" /\ s[k + 2] = "finish"
        /\ s[k + 3] = "print"
    BY <1>2, <2>9, <2>4
  <2>7. \A i \in 1..k - 2 : s[i] \notin Writing
    <3>1. k - 2 = n
      BY <1>0, <2>4
    <3> QED
      BY <2>3, <3>1
  <2> QED
    BY <2>2, <2>4, <2>5, <2>6, <2>7 DEF WritesAt
<1> QED
  BY <1>2, <1>5, <1>6 DEF WritesAfter

\* The steps that read a file whole are steps.
LEMMA ReadWholeIs == <<"open", "read", "process">> \in Seq(Step)
  BY DEF Step

\* What a command asks before it opens its file.
Asking(asked, n) ==
  /\ asked \in Seq(Step) /\ n = Len(asked) /\ n \in Nat /\ n >= 1 /\ asked[1] = "count"
  /\ \A i \in 1..n : asked[i] \notin Writing /\ (asked[i] = "option" => i = 2)
ReadsWhole(s, n) ==
  /\ n \in Nat /\ WritesAt(s, n + 5) /\ SourceAt(s, n + 5, n + 2)
  /\ s[n + 1] = "open" /\ s[n + 2] = "read"

\* A command that reads its file whole writes from what it has read.
LEMMA WholeFileSteps ==
  ASSUME NEW asked, NEW n, Asking(asked, n), NEW s, s = wholeFile(asked)
  PROVE  ReadsWhole(s, n)
<1>0. /\ asked \in Seq(Step) /\ n = Len(asked) /\ n \in Nat /\ n >= 1 /\ asked[1] = "count"
      /\ \A i \in 1..n : asked[i] \notin Writing /\ (asked[i] = "option" => i = 2)
  BY DEF Asking
<1>1. readWhole \in Seq(Step)
  BY ReadWholeIs DEF readWhole
<1>2. Len(readWhole) = 3 /\ readWhole[1] = "open" /\ readWhole[2] = "read" /\ readWhole[3] = "process"
  BY DEF readWhole
<1>3. PICK a : a = asked \o readWhole
  OBVIOUS
<1>4. /\ a \in Seq(Step) /\ Len(a) = Len(asked) + Len(readWhole) /\ Len(asked) \in Nat
      /\ \A i \in 1..Len(asked) : a[i] = asked[i]
      /\ \A i \in 1..Len(readWhole) : a[Len(asked) + i] = readWhole[i]
  BY <1>0, <1>1, <1>3, Joined
<1>5. /\ Len(a) = n + 3 /\ n \in Nat
      /\ \A i \in 1..n : a[i] = asked[i]
      /\ a[n + 1] = "open" /\ a[n + 2] = "read" /\ a[n + 3] = "process"
  BY <1>0, <1>2, <1>4
<1>6. s = a \o writeAndSay
  BY <1>3 DEF wholeFile
<1>m. PICK m : m = n + 3
  OBVIOUS
<1>7. /\ WritesAt(s, m + 2) /\ \A i \in 1..m : s[i] = a[i]
      /\ \A i \in 1..Len(s) : i > m => s[i] \notin Sources
  <2>1. m >= 2 /\ a[1] = "count" /\ m = Len(a)
    BY <1>0, <1>5, <1>m
  <2>2. \A i \in 1..m : i \in 1..n \/ i = n + 1 \/ i = n + 2 \/ i = n + 3
    BY <1>0, <1>5, <1>m
  <2>3. \A i \in 1..m : a[i] \notin Writing /\ (a[i] = "option" => i = 2)
    BY <1>0, <1>5, <2>2 DEF Writing
  <2> QED
    <3>1. Preparing(a, m)
      BY <1>4, <1>5, <1>m, <2>1, <2>3 DEF Preparing
    <3>2. WritesAfter(a, m, s)
      BY <1>6, <3>1, WriteSteps
    <3> QED
      BY <3>2 DEF WritesAfter
<1>8. m + 2 = n + 5 /\ n + 1 \in 1..m /\ n + 2 \in 1..m /\ \A i \in Int : i > n + 2 => i = n + 3 \/ i > m
  BY <1>0, <1>5, <1>m
<1>11. n + 3 \in 1..m
  BY <1>0, <1>5, <1>m
<1>9. s[n + 1] = "open" /\ s[n + 2] = "read" /\ s[n + 3] = "process"
  BY <1>5, <1>7, <1>8, <1>11
<1>10. SourceAt(s, n + 5, n + 2)
  <2>1. \A i \in 1..Len(s) : i > n + 2 => s[i] \notin Sources
    BY <1>7, <1>8, <1>9 DEF Sources
  <2>2. n + 2 \in 2..n + 5 - 2
    BY <1>5
  <2> QED
    BY <1>0, <2>1, <2>2 DEF SourceAt
<1> QED
  BY <1>5, <1>7, <1>8, <1>9, <1>10 DEF ReadsWhole

\* A command that writes: at step k, from what step r leaves.
Shape(c, k, r) ==
  LET s == main[c]
  IN /\ WritesAt(s, k) /\ SourceAt(s, k, r) /\ s[r] = SourceOf(c)
     /\ SourceOf(c) \in {"read", "place"} => \E o \in 1..r : s[o] = "open"
WholeFiles == {"deconvolve", "dereverb", "deess", "dehum", "declip", "declick", "dynamics"}
Reshapes == {"stretch", "pitch"}

\* The commands that take a file whole, by what they ask first.
LEMMA WholeShape ==
  ASSUME NEW c, NEW asked, NEW n, Asking(asked, n), main[c] = wholeFile(asked), SourceOf(c) = "read"
  PROVE  Shape(c, n + 5, n + 2)
<1> DEFINE s == main[c]
<1>1. s = wholeFile(asked)
  OBVIOUS
<1> HIDE DEF s
<1>2. ReadsWhole(s, n)
  BY <1>1, WholeFileSteps
<1>3. WritesAt(s, n + 5) /\ SourceAt(s, n + 5, n + 2) /\ s[n + 1] = "open" /\ s[n + 2] = "read" /\ n \in Nat
  BY <1>2 DEF ReadsWhole
<1>4. n + 1 \in 1..n + 2
  BY <1>3
<1> QED
  BY <1>3, <1>4 DEF Shape, s

\* Those that ask for nothing but arguments, and for an option.
LEMMA AskingCount == Asking(<<"count">>, 1)
<1>1. <<"count">> \in Seq(Step)
  BY DEF Step
<1> QED
  BY <1>1 DEF Asking, Writing

LEMMA AskingOption == Asking(<<"count", "option">>, 2)
<1>1. <<"count", "option">> \in Seq(Step)
  BY DEF Step
<1>2. \A i \in 1..2 : i = 1 \/ i = 2
  OBVIOUS
<1> QED
  BY <1>1, <1>2 DEF Asking, Writing

\* Every command that takes a file whole.
LEMMA WholeFileCommands == ASSUME NEW c \in WholeFiles PROVE Shape(c, 6, 3)
<1>1. main[c] = wholeFile(<<"count">>)
  BY DEF WholeFiles, main, deconvolve, dereverbFile, deessFile, dehumFile, declipFile, declickFile, dynamics
<1>2. SourceOf(c) = "read"
  BY DEF SourceOf, WholeFiles
<1>3. Shape(c, 1 + 5, 1 + 2)
  BY <1>1, <1>2, AskingCount, WholeShape
<1> QED
  BY <1>3

LEMMA ReshapeCommands == ASSUME NEW c \in Reshapes PROVE Shape(c, 7, 4)
<1>1. main[c] = wholeFile(<<"count", "option">>)
  BY DEF Reshapes, main, stretch, pitch, reshape
<1>2. SourceOf(c) = "read"
  BY DEF SourceOf, Reshapes
<1>3. Shape(c, 2 + 5, 2 + 2)
  BY <1>1, <1>2, AskingOption, WholeShape
<1> QED
  BY <1>3

\* The others prepare in their own ways, and step r gives what they write from.
GivenBy(a, n, r, c) ==
  /\ r \in 2..n /\ a[r] = SourceOf(c) /\ \A i \in 1..n : i > r => a[i] \notin Sources
  /\ SourceOf(c) \in {"read", "place"} => \E o \in 1..r : a[o] = "open"

\* They have the shape too.
LEMMA OwnShape ==
  ASSUME NEW c, NEW a, NEW n, Preparing(a, n), main[c] = a \o writeAndSay, NEW r, GivenBy(a, n, r, c)
  PROVE  Shape(c, n + 2, r)
<1>0. /\ r \in 2..n /\ a[r] = SourceOf(c) /\ \A i \in 1..n : i > r => a[i] \notin Sources
      /\ SourceOf(c) \in {"read", "place"} => \E o \in 1..r : a[o] = "open"
  BY DEF GivenBy
<1> DEFINE s == main[c]
<1>1. s = a \o writeAndSay
  OBVIOUS
<1> HIDE DEF s
<1>2. WritesAfter(a, n, s) /\ n \in Nat
  BY <1>1, WriteSteps DEF Preparing
<1>3. /\ WritesAt(s, n + 2) /\ \A i \in 1..n : s[i] = a[i]
      /\ \A i \in 1..Len(s) : i > n => s[i] \notin Sources
  BY <1>2 DEF WritesAfter
<1>4. Len(s) \in Nat
  <2>1. s \in Seq(Step)
    BY <1>3 DEF WritesAt
  <2> QED
    BY <2>1
<1>5. SourceAt(s, n + 2, r)
  <2>1. r \in 2..n + 2 - 2
    BY <1>0, <1>2
  <2>2. ASSUME NEW i \in 1..Len(s), i > r PROVE s[i] \notin Sources
    <3>1. i > n \/ i \in 1..n
      BY <1>2, <1>4
    <3> QED
      BY <1>0, <1>3, <2>2, <3>1
  <2> QED
    BY <1>2, <2>1, <2>2 DEF SourceAt
<1>6. s[r] = SourceOf(c)
  BY <1>0, <1>2, <1>3
<1>7. SourceOf(c) \in {"read", "place"} => \E o \in 1..r : s[o] = "open"
  <2>1. \A o \in 1..r : o \in 1..n
    BY <1>0, <1>2
  <2> QED
    BY <1>0, <1>3, <2>1
<1> QED
  BY <1>3, <1>5, <1>6, <1>7 DEF Shape, s

\* sweep, render, normalise, denoise, channels and convert, step by step.
LEMMA SweepShape == Shape("sweep", 4, 2)
<1> DEFINE a == <<"count", "generate">>
<1>1. a \in Seq(Step)
  BY DEF Step
<1>2. Len(a) = 2 /\ a[1] = "count" /\ a[2] = "generate" /\ \A i \in 1..2 : i = 1 \/ i = 2
  OBVIOUS
<1>3. main["sweep"] = a \o writeAndSay
  BY DEF main, sweep
<1> HIDE DEF a
<1>4. Preparing(a, 2)
  <2>1. a[1] \notin Writing /\ a[2] \notin Writing
    BY <1>2 DEF Writing
  <2>2. \A i \in 1..2 : a[i] \notin Writing /\ (a[i] = "option" => i = 2)
    BY <1>2, <2>1
  <2> QED
    BY <1>1, <1>2, <2>2 DEF Preparing
<1>5. SourceOf("sweep") = "generate"
  BY DEF SourceOf
<1>6. \A i \in 1..2 : i > 2 => a[i] \notin Sources
  OBVIOUS
<1>7. GivenBy(a, 2, 2, "sweep")
  BY <1>2, <1>5, <1>6 DEF GivenBy
<1>8. Shape("sweep", 2 + 2, 2)
  BY <1>3, <1>4, <1>7, OwnShape
<1> QED
  BY <1>8

LEMMA RenderShape == Shape("render", 4, 2)
<1> DEFINE a == <<"count", "session">>
<1>1. a \in Seq(Step)
  BY DEF Step
<1>2. Len(a) = 2 /\ a[1] = "count" /\ a[2] = "session" /\ \A i \in 1..2 : i = 1 \/ i = 2
  OBVIOUS
<1>3. main["render"] = a \o writeAndSay
  BY DEF main, render
<1> HIDE DEF a
<1>4. Preparing(a, 2)
  <2>1. a[1] \notin Writing /\ a[2] \notin Writing
    BY <1>2 DEF Writing
  <2>2. \A i \in 1..2 : a[i] \notin Writing /\ (a[i] = "option" => i = 2)
    BY <1>2, <2>1
  <2> QED
    BY <1>1, <1>2, <2>2 DEF Preparing
<1>5. SourceOf("render") = "session"
  BY DEF SourceOf
<1>6. \A i \in 1..2 : i > 2 => a[i] \notin Sources
  OBVIOUS
<1>7. GivenBy(a, 2, 2, "render")
  BY <1>2, <1>5, <1>6 DEF GivenBy
<1>8. Shape("render", 2 + 2, 2)
  BY <1>3, <1>4, <1>7, OwnShape
<1> QED
  BY <1>8

LEMMA NormaliseShape == Shape("normalise", 9, 6)
<1> DEFINE a == <<"count", "option", "open", "measure", "gate", "place", "process">>
<1>1. a \in Seq(Step)
  BY DEF Step
<1>2. /\ Len(a) = 7 /\ a[1] = "count" /\ a[2] = "option" /\ a[3] = "open" /\ a[4] = "measure" /\ a[5] = "gate" /\ a[6] = "place"
      /\ a[7] = "process"
      /\ \A i \in 1..7 : i = 1 \/ i = 2 \/ i = 3 \/ i = 4 \/ i = 5 \/ i = 6 \/ i = 7
  OBVIOUS
<1>3. main["normalise"] = a \o writeAndSay
  BY DEF main, normalise
<1> HIDE DEF a
<1>4. Preparing(a, 7)
  <2>1. /\ a[1] \notin Writing /\ a[2] \notin Writing /\ a[3] \notin Writing /\ a[4] \notin Writing /\ a[5] \notin Writing
        /\ a[6] \notin Writing /\ a[7] \notin Writing
    BY <1>2 DEF Writing
  <2>2. \A i \in 1..7 : a[i] \notin Writing /\ (a[i] = "option" => i = 2)
    BY <1>2, <2>1
  <2> QED
    BY <1>1, <1>2, <2>2 DEF Preparing
<1>5. SourceOf("normalise") = "place" /\ \E o \in 1..6 : a[o] = "open"
  BY <1>2 DEF SourceOf
<1>6. \A i \in 1..7 : i > 6 => a[i] \notin Sources
  BY <1>2 DEF Sources
<1>7. GivenBy(a, 7, 6, "normalise")
  BY <1>2, <1>5, <1>6 DEF GivenBy
<1>8. Shape("normalise", 7 + 2, 6)
  BY <1>3, <1>4, <1>7, OwnShape
<1> QED
  BY <1>8

LEMMA DenoiseShape == Shape("denoise", 8, 5)
<1> DEFINE a == <<"count", "option", "open", "numbers", "read", "process">>
<1>1. a \in Seq(Step)
  BY DEF Step
<1>2. /\ Len(a) = 6 /\ a[1] = "count" /\ a[2] = "option" /\ a[3] = "open" /\ a[4] = "numbers" /\ a[5] = "read" /\ a[6] = "process"
      /\ \A i \in 1..6 : i = 1 \/ i = 2 \/ i = 3 \/ i = 4 \/ i = 5 \/ i = 6
  OBVIOUS
<1>3. main["denoise"] = a \o writeAndSay
  BY DEF main, denoise
<1> HIDE DEF a
<1>4. Preparing(a, 6)
  <2>1. a[1] \notin Writing /\ a[2] \notin Writing /\ a[3] \notin Writing /\ a[4] \notin Writing /\ a[5] \notin Writing /\ a[6] \notin Writing
    BY <1>2 DEF Writing
  <2>2. \A i \in 1..6 : a[i] \notin Writing /\ (a[i] = "option" => i = 2)
    BY <1>2, <2>1
  <2> QED
    BY <1>1, <1>2, <2>2 DEF Preparing
<1>5. SourceOf("denoise") = "read" /\ \E o \in 1..5 : a[o] = "open"
  BY <1>2 DEF SourceOf
<1>6. \A i \in 1..6 : i > 5 => a[i] \notin Sources
  BY <1>2 DEF Sources
<1>7. GivenBy(a, 6, 5, "denoise")
  BY <1>2, <1>5, <1>6 DEF GivenBy
<1>8. Shape("denoise", 6 + 2, 5)
  BY <1>3, <1>4, <1>7, OwnShape
<1> QED
  BY <1>8

LEMMA ChannelsShape == Shape("channels", 7, 5)
<1> DEFINE a == <<"count", "option", "open", "stereo", "read">>
<1>1. a \in Seq(Step)
  BY DEF Step
<1>2. /\ Len(a) = 5 /\ a[1] = "count" /\ a[2] = "option" /\ a[3] = "open" /\ a[4] = "stereo" /\ a[5] = "read"
      /\ \A i \in 1..5 : i = 1 \/ i = 2 \/ i = 3 \/ i = 4 \/ i = 5
  OBVIOUS
<1>3. main["channels"] = a \o writeAndSay
  BY DEF main, channels
<1> HIDE DEF a
<1>4. Preparing(a, 5)
  <2>1. a[1] \notin Writing /\ a[2] \notin Writing /\ a[3] \notin Writing /\ a[4] \notin Writing /\ a[5] \notin Writing
    BY <1>2 DEF Writing
  <2>2. \A i \in 1..5 : a[i] \notin Writing /\ (a[i] = "option" => i = 2)
    BY <1>2, <2>1
  <2> QED
    BY <1>1, <1>2, <2>2 DEF Preparing
<1>5. SourceOf("channels") = "read" /\ \E o \in 1..5 : a[o] = "open"
  BY <1>2 DEF SourceOf
<1>6. \A i \in 1..5 : i > 5 => a[i] \notin Sources
  BY <1>2 DEF Sources
<1>7. GivenBy(a, 5, 5, "channels")
  BY <1>2, <1>5, <1>6 DEF GivenBy
<1>8. Shape("channels", 5 + 2, 5)
  BY <1>3, <1>4, <1>7, OwnShape
<1> QED
  BY <1>8

LEMMA ConvertShape == Shape("convert", 4, 2)
<1> DEFINE s == convert
<1>1. s \in Seq(Step)
  <2>1. <<"count", "open", "dither", "create", "copy", "finish", "print rates">> \in Seq(Step)
    BY DEF Step
  <2> QED
    BY <2>1 DEF convert
<1>2. /\ Len(s) = 7 /\ s[1] = "count" /\ s[2] = "open" /\ s[3] = "dither" /\ s[4] = "create" /\ s[5] = "copy"
      /\ s[6] = "finish" /\ s[7] = "print rates"
  BY DEF convert
<1>3. main["convert"] = s
  BY DEF main
<1> HIDE DEF s
<1>4. \A i \in 1..7 : i = 1 \/ i = 2 \/ i = 3 \/ i = 4 \/ i = 5 \/ i = 6 \/ i = 7
  OBVIOUS
<1>5. WritesAt(s, 4)
  <2>3. s[1] \notin Writing /\ s[2] \notin Writing
    BY <1>2 DEF Writing
  <2>1. \A i \in 1..2 : s[i] \notin Writing
    BY <2>3
  <2>2. \A i \in 1..Len(s) : s[i] = "option" => i = 2
    BY <1>2, <1>4
  <2>4. PICK k : k = 4
    OBVIOUS
  <2>5. k - 1 = 3 /\ k + 1 = 5 /\ k + 2 = 6 /\ k + 3 = 7 /\ k - 2 = 2 /\ k \in Nat /\ k >= 4
    BY <2>4
  <2>6. /\ s[k - 1] = "dither" /\ s[k] = "create" /\ s[k + 1] = "copy" /\ s[k + 2] = "finish"
        /\ s[k + 3] = "print rates" /\ Len(s) = k + 3
    BY <1>2, <2>4, <2>5
  <2>7. \A i \in 1..k - 2 : s[i] \notin Writing
    BY <2>1, <2>5
  <2> QED
    BY <1>1, <1>2, <2>2, <2>4, <2>5, <2>6, <2>7 DEF WritesAt
<1>6. SourceAt(s, 4, 2)
  <2>1. s[3] \notin Sources /\ s[4] \notin Sources /\ s[5] \notin Sources /\ s[6] \notin Sources /\ s[7] \notin Sources
    BY <1>2 DEF Sources
  <2>2. \A i \in 1..Len(s) : i > 2 => s[i] \notin Sources
    <3> SUFFICES ASSUME NEW i \in 1..7, i > 2 PROVE s[i] \notin Sources
      BY <1>2
    <3>1. i = 3 \/ i = 4 \/ i = 5 \/ i = 6 \/ i = 7
      BY <1>4
    <3> QED
      BY <2>1, <3>1
  <2>3. 2 \in 2..4 - 2
    OBVIOUS
  <2> QED
    BY <2>2, <2>3 DEF SourceAt
<1>7. SourceOf("convert") = "open"
  BY DEF SourceOf
<1> QED
  BY <1>2, <1>3, <1>5, <1>6, <1>7 DEF Shape
-------------------------------------------------------------------------------
(* The steps of the others.                                                    *)

\* A command that writes nothing, and opens a file if it goes on to another.
NoWriting(s) == \A i \in 1..Len(s) : s[i] \notin {"create", "copy", "finish", "option"}
GoesOn(s) == (\E i \in 1..Len(s) : s[i] = "next file") => \E i \in 1..Len(s) : s[i] = "open"
Quiet(s) == s \in Seq(Step) /\ Len(s) >= 2 /\ NoWriting(s) /\ GoesOn(s)

\* The commands that write nothing.
LEMMA AnalyseQuiet == Quiet(main["analyse"]) /\ main["analyse"][1] = "count"
<1> DEFINE s == main["analyse"]
<1>1. s = <<"count", "one report", "heading", "open", "measure", "print", "next file">>
  BY DEF main, analyse
<1>2. <<"count", "one report", "heading", "open", "measure", "print", "next file">> \in Seq(Step)
  BY DEF Step
<1> HIDE DEF s
<1>3. s \in Seq(Step)
  BY <1>1, <1>2
<1>9. Len(s) = 7
  BY <1>1
<1>4. s[1] = "count" /\ s[2] = "one report" /\ s[3] = "heading" /\ s[4] = "open" /\ s[5] = "measure" /\ s[6] = "print" /\ s[7] = "next file"
  BY <1>1
<1>5. \A i \in 1..7 : i = 1 \/ i = 2 \/ i = 3 \/ i = 4 \/ i = 5 \/ i = 6 \/ i = 7
  OBVIOUS
<1>6. NoWriting(s)
  BY <1>4, <1>5, <1>9 DEF NoWriting
<1>7. GoesOn(s)
  <2>1. 4 \in 1..Len(s)
    BY <1>9
  <2>2. s[4] = "open"
    BY <1>4
  <2> QED
    BY <2>1, <2>2 DEF GoesOn
<1>8. Quiet(s)
  BY <1>3, <1>9, <1>6, <1>7 DEF Quiet
<1> QED
  BY <1>4, <1>8 DEF s

LEMMA BandsQuiet == Quiet(main["bands"]) /\ main["bands"][1] = "count"
<1> DEFINE s == main["bands"]
<1>1. s = <<"count", "one report", "open", "read", "process", "print">>
  BY DEF main, bands
<1>2. <<"count", "one report", "open", "read", "process", "print">> \in Seq(Step)
  BY DEF Step
<1> HIDE DEF s
<1>3. s \in Seq(Step)
  BY <1>1, <1>2
<1>9. Len(s) = 6
  BY <1>1
<1>4. s[1] = "count" /\ s[2] = "one report" /\ s[3] = "open" /\ s[4] = "read" /\ s[5] = "process" /\ s[6] = "print"
  BY <1>1
<1>5. \A i \in 1..6 : i = 1 \/ i = 2 \/ i = 3 \/ i = 4 \/ i = 5 \/ i = 6
  OBVIOUS
<1>6. NoWriting(s)
  BY <1>4, <1>5, <1>9 DEF NoWriting
<1>7. GoesOn(s)
  <2>1. 3 \in 1..Len(s)
    BY <1>9
  <2>2. s[3] = "open"
    BY <1>4
  <2> QED
    BY <2>1, <2>2 DEF GoesOn
<1>8. Quiet(s)
  BY <1>3, <1>9, <1>6, <1>7 DEF Quiet
<1> QED
  BY <1>4, <1>8 DEF s

LEMMA ReadingQuiet ==
  ASSUME NEW c \in {"roomBands", "tempo", "pitchOf", "contour", "key"}
  PROVE  Quiet(main[c]) /\ main[c][1] = "count"
<1> DEFINE s == main[c]
<1>1. s = <<"count", "open", "read", "process", "print">>
  BY DEF main, roomBands, tempo, pitch_of, contour, key
<1>2. <<"count", "open", "read", "process", "print">> \in Seq(Step)
  BY DEF Step
<1> HIDE DEF s
<1>3. s \in Seq(Step)
  BY <1>1, <1>2
<1>9. Len(s) = 5
  BY <1>1
<1>4. s[1] = "count" /\ s[2] = "open" /\ s[3] = "read" /\ s[4] = "process" /\ s[5] = "print"
  BY <1>1
<1>5. \A i \in 1..5 : i = 1 \/ i = 2 \/ i = 3 \/ i = 4 \/ i = 5
  OBVIOUS
<1>6. NoWriting(s)
  BY <1>4, <1>5, <1>9 DEF NoWriting
<1>7. GoesOn(s)
  <2>1. 2 \in 1..Len(s)
    BY <1>9
  <2>2. s[2] = "open"
    BY <1>4
  <2> QED
    BY <2>1, <2>2 DEF GoesOn
<1>8. Quiet(s)
  BY <1>3, <1>9, <1>6, <1>7 DEF Quiet
<1> QED
  BY <1>4, <1>8 DEF s

LEMMA RoomQuiet == Quiet(main["room"]) /\ main["room"][1] = "count"
<1> DEFINE s == main["room"]
<1>1. s = <<"count", "open", "read", "print", "process">>
  BY DEF main, room
<1>2. <<"count", "open", "read", "print", "process">> \in Seq(Step)
  BY DEF Step
<1> HIDE DEF s
<1>3. s \in Seq(Step)
  BY <1>1, <1>2
<1>9. Len(s) = 5
  BY <1>1
<1>4. s[1] = "count" /\ s[2] = "open" /\ s[3] = "read" /\ s[4] = "print" /\ s[5] = "process"
  BY <1>1
<1>5. \A i \in 1..5 : i = 1 \/ i = 2 \/ i = 3 \/ i = 4 \/ i = 5
  OBVIOUS
<1>6. NoWriting(s)
  BY <1>4, <1>5, <1>9 DEF NoWriting
<1>7. GoesOn(s)
  <2>1. 2 \in 1..Len(s)
    BY <1>9
  <2>2. s[2] = "open"
    BY <1>4
  <2> QED
    BY <2>1, <2>2 DEF GoesOn
<1>8. Quiet(s)
  BY <1>3, <1>9, <1>6, <1>7 DEF Quiet
<1> QED
  BY <1>4, <1>8 DEF s

LEMMA NullQuiet == Quiet(main["null"]) /\ main["null"][1] = "count"
<1> DEFINE s == main["null"]
<1>1. s = <<"count", "open", "open other", "same rate", "read", "read other", "process", "print">>
  BY DEF main, nulltest
<1>2. <<"count", "open", "open other", "same rate", "read", "read other", "process", "print">> \in Seq(Step)
  BY DEF Step
<1> HIDE DEF s
<1>3. s \in Seq(Step)
  BY <1>1, <1>2
<1>9. Len(s) = 8
  BY <1>1
<1>4. s[1] = "count" /\ s[2] = "open" /\ s[3] = "open other" /\ s[4] = "same rate" /\ s[5] = "read" /\ s[6] = "read other" /\ s[7] = "process" /\ s[8] = "print"
  BY <1>1
<1>5. \A i \in 1..8 : i = 1 \/ i = 2 \/ i = 3 \/ i = 4 \/ i = 5 \/ i = 6 \/ i = 7 \/ i = 8
  OBVIOUS
<1>6. NoWriting(s)
  BY <1>4, <1>5, <1>9 DEF NoWriting
<1>7. GoesOn(s)
  <2>1. 2 \in 1..Len(s)
    BY <1>9
  <2>2. s[2] = "open"
    BY <1>4
  <2> QED
    BY <2>1, <2>2 DEF GoesOn
<1>8. Quiet(s)
  BY <1>3, <1>9, <1>6, <1>7 DEF Quiet
<1> QED
  BY <1>4, <1>8 DEF s

LEMMA ProvenanceQuiet == Quiet(main["provenance"]) /\ main["provenance"][1] = "count"
<1> DEFINE s == main["provenance"]
<1>1. s = <<"count", "open", "read", "process", "print", "next file">>
  BY DEF main, provenance
<1>2. <<"count", "open", "read", "process", "print", "next file">> \in Seq(Step)
  BY DEF Step
<1> HIDE DEF s
<1>3. s \in Seq(Step)
  BY <1>1, <1>2
<1>9. Len(s) = 6
  BY <1>1
<1>4. s[1] = "count" /\ s[2] = "open" /\ s[3] = "read" /\ s[4] = "process" /\ s[5] = "print" /\ s[6] = "next file"
  BY <1>1
<1>5. \A i \in 1..6 : i = 1 \/ i = 2 \/ i = 3 \/ i = 4 \/ i = 5 \/ i = 6
  OBVIOUS
<1>6. NoWriting(s)
  BY <1>4, <1>5, <1>9 DEF NoWriting
<1>7. GoesOn(s)
  <2>1. 2 \in 1..Len(s)
    BY <1>9
  <2>2. s[2] = "open"
    BY <1>4
  <2> QED
    BY <2>1, <2>2 DEF GoesOn
<1>8. Quiet(s)
  BY <1>3, <1>9, <1>6, <1>7 DEF Quiet
<1> QED
  BY <1>4, <1>8 DEF s

LEMMA UnknownQuiet == Quiet(main["unknown"]) /\ main["unknown"][1] = "print"
<1> DEFINE s == main["unknown"]
<1>1. s = <<"print", "refuse">>
  BY DEF main, usage
<1>2. <<"print", "refuse">> \in Seq(Step)
  BY DEF Step
<1> HIDE DEF s
<1>3. s \in Seq(Step)
  BY <1>1, <1>2
<1>9. Len(s) = 2
  BY <1>1
<1>4. s[1] = "print" /\ s[2] = "refuse"
  BY <1>1
<1>5. \A i \in 1..2 : i = 1 \/ i = 2
  OBVIOUS
<1>6. NoWriting(s)
  BY <1>4, <1>5, <1>9 DEF NoWriting
<1>7. GoesOn(s)
  BY <1>4, <1>5, <1>9 DEF GoesOn
<1>8. Quiet(s)
  BY <1>3, <1>9, <1>6, <1>7 DEF Quiet
<1> QED
  BY <1>4, <1>8 DEF s

\* The steps a shape speaks of are steps of its command.
LEMMA ShapeDomain == ASSUME NEW c, NEW k, NEW r, Shape(c, k, r) PROVE k \in DOMAIN main[c] /\ r \in DOMAIN main[c]
<1> DEFINE s == main[c]
<1>1. WritesAt(s, k) /\ SourceAt(s, k, r)
  BY DEF Shape
<1> HIDE DEF s
<1>2. s \in Seq(Step) /\ Len(s) = k + 3 /\ k \in Nat /\ k >= 4
  BY <1>1 DEF WritesAt
<1>3. r \in 2..k - 2
  BY <1>1 DEF SourceAt
<1> QED
  BY <1>2, <1>3 DEF s

\* Every command is one or the other.
LEMMA Commands ==
  ASSUME NEW c \in DOMAIN main
  PROVE  \/ \E k, r \in DOMAIN main[c] : Shape(c, k, r)
         \/ Quiet(main[c]) /\ c \notin {"sweep", "convert", "normalise", "render"} /\ (main[c][1] = "count" \/ c = "unknown")
<1>1. DOMAIN main = WholeFiles \cup Reshapes \cup {"sweep", "render", "normalise", "denoise", "channels", "convert"}
                    \cup {"analyse", "bands", "roomBands", "room", "tempo", "pitchOf", "null", "contour", "key", "provenance", "unknown"}
  BY DEF main, WholeFiles, Reshapes
<1>2. CASE c \in WholeFiles
  BY <1>2, WholeFileCommands, ShapeDomain
<1>3. CASE c \in Reshapes
  BY <1>3, ReshapeCommands, ShapeDomain
<1>4. CASE c \in {"sweep", "render", "normalise", "denoise", "channels", "convert"}
  BY <1>4, SweepShape, RenderShape, NormaliseShape, DenoiseShape, ChannelsShape, ConvertShape, ShapeDomain
<1>5. CASE c \in {"analyse", "bands", "roomBands", "room", "tempo"}
  BY <1>5, AnalyseQuiet, BandsQuiet, ReadingQuiet, RoomQuiet
<1>6. CASE c \in {"pitchOf", "null", "contour", "key", "provenance", "unknown"}
  BY <1>6, ReadingQuiet, NullQuiet, ProvenanceQuiet, UnknownQuiet
<1> QED
  BY <1>1, <1>2, <1>3, <1>4, <1>5, <1>6
-------------------------------------------------------------------------------
(* What holds of a command between its steps.                                  *)

\* The file a command that writes reads.
In == request.inputs[1]

\* All of a file that can be heard.
SoundsOf(path) == Lesser(began[path].claims, began[path].holds)
IsSession == began[In].kind = "session"
IsAudio(path) == began[path].kind = "audio"

\* The source a command writes from, by where it comes from; and what it gives.
RightSource ==
  CASE SourceOf(request.command) = "read" -> InMemory(began[In].claims, SoundsOf(In))
    [] SourceOf(request.command) = "open" -> OnDisk("file", In, began[In].claims)
    [] SourceOf(request.command) = "place" -> OnDisk("document", In, began[In].claims)
    [] SourceOf(request.command) = "session" ->
         OnDisk(IF IsAudio(began[In].plays) THEN "document" ELSE "silence", began[In].plays, began[In].length)
    [] OTHER -> InMemory(kBlock, kBlock)
GivenFrames ==
  CASE SourceOf(request.command) \in {"read", "place"} -> began[In].claims
    [] SourceOf(request.command) = "open" -> IF In = out THEN 0 ELSE SoundsOf(In)
    [] SourceOf(request.command) = "session" -> began[In].length
    [] OTHER -> kBlock
GivenSounds ==
  CASE SourceOf(request.command) = "read" -> SoundsOf(In)
    [] SourceOf(request.command) \in {"open", "place"} -> IF In = out THEN 0 ELSE SoundsOf(In)
    [] SourceOf(request.command) = "session" ->
         IF IsAudio(began[In].plays) /\ began[In].plays # out THEN SoundsOf(began[In].plays) ELSE 0
    [] OTHER -> kBlock

\* What is in the file while it is written, and when it is finished.
WantedFormat == formatFrom(request.format, CASE request.command \in {"sweep", "deconvolve"} -> "float"
                                             [] request.command = "render" -> "24"
                                             [] OTHER -> began[In].format)
WrittenFile(claims, frames) ==
  [kind |-> "audio", readable |-> TRUE, claims |-> claims, holds |-> frames, sounds |-> Lesser(frames, GivenSounds),
   channels |-> 2, rate |-> request.rate, format |-> Stored(out, WantedFormat).format,
   dithered |-> Stored(out, WantedFormat).dithered]

\* The steps behind a command, and the shape of its state.
Passed(step) == \E i \in 1..Len(Steps) : i < job.step /\ Steps[i] = step
JobType == job = [step |-> job.step, file |-> job.file, failures |-> job.failures, copied |-> job.copied, source |-> job.source]

\* A command is past a step only if what the step asks for is so.
RequestKeeps ==
  /\ request.wrong = "count" => ~Passed("count")
  /\ request.wrong = "option" => ~Passed("option")
  /\ request.dither = "unknown" => ~Passed("dither")
InputKeeps ==
  /\ Passed("open") => IsAudio(In)
  /\ Passed("session") => IsSession

\* What is in the file it writes, by where it stands: nothing of its own, or a file
\* that was truncated and not begun; what it has copied, which a header that gives no
\* length hides; all it was given.
FileKeeps(k) ==
  /\ job.step <= k => files = began \/ (exitCode = "failure" /\ job.step = k /\ files[out].claims = 0)
  /\ job.step > k => files[out] = WrittenFile(IF job.step <= k + 2 THEN Claims(job.copied) ELSE job.copied, job.copied)
  /\ job.step > k + 1 => job.copied = GivenFrames

\* What has to be so for the step a command is at to be passed.
MayPass(step, source) ==
  /\ step = "count" => request.wrong # "count"
  /\ step = "option" => request.wrong # "option"
  /\ step = "dither" => request.dither # "unknown"
  /\ step = "open" => IsAudio(In)
  /\ step = "session" => IsSession
  /\ step = "copy" => job.copied = GivenFrames
  /\ step = SourceOf(request.command) => source = RightSource
  /\ step \notin Sources => source = job.source

\* A command that writes, from one step to the next.
JobKeeps(k, r) ==
  /\ job.file = 1 /\ job.failures = 0 /\ job.copied \in Nat
  /\ job.step \in 1..k + 4 /\ (job.step <= k => job.copied = 0)
  /\ RequestKeeps /\ InputKeeps
  /\ job.step > r => job.source = RightSource
  /\ exitCode = "success" => job.step = k + 4
  /\ Failed => job.step <= k + 2
WritingInv(k, r) == JobKeeps(k, r) /\ FileKeeps(k)

\* A command that writes nothing.
QuietInv ==
  /\ files = began
  /\ job.step \in Nat \ {0} /\ (exitCode = "success" => job.step > Len(Steps))
  /\ Steps[1] = "count" /\ request.wrong = "count" => job.step = 1
  /\ request.command = "unknown" => job.step <= 2

\* No command touches a file but the one it is to write.
CliTypes ==
  /\ began \in Disks /\ request \in Request
  /\ files = [began EXCEPT ![out] = files[out]]
  /\ JobType /\ exitCode \in {"running", "success", "failure", "aborted"}
CliInv ==
  /\ CliTypes
  /\ \A k, r \in DOMAIN Steps : Shape(request.command, k, r) => WritingInv(k, r)
  /\ Quiet(Steps) => QuietInv
-------------------------------------------------------------------------------
(* Moving from step to step.                                                   *)

\* Which step a name stands for.
StandsFor(s, k, i) ==
  /\ (s[i] = "create") <=> (i = k)
  /\ (s[i] = "copy") <=> (i = k + 1)
  /\ (s[i] = "finish") <=> (i = k + 2)
  /\ (s[i] = "dither") <=> (i = k - 1)
  /\ i > k + 2 => s[i] \in {"print", "print rates"}
  /\ s[i] # "next file"

\* In a command that writes, a name stands for one step.
LEMMA WritingSteps ==
  ASSUME NEW s, NEW k \in Nat, WritesAt(s, k), NEW i \in 1..Len(s)
  PROVE  StandsFor(s, k, i)
<1>1. Len(s) = k + 3 /\ k \in Nat /\ k >= 4
  BY DEF WritesAt
<1>2. /\ s[k - 1] = "dither" /\ s[k] = "create" /\ s[k + 1] = "copy"
      /\ s[k + 2] = "finish" /\ s[k + 3] \in {"print", "print rates"}
  BY DEF WritesAt
<1>3. i \in Nat /\ i <= k + 3 /\ i >= 1
  BY <1>1
<1>4. CASE i <= k - 2
  <2>1. i \in 1..k - 2
    BY <1>1, <1>3, <1>4
  <2>2. s[i] \notin Writing
    BY <2>1 DEF WritesAt
  <2>3. s[i] # "dither" /\ s[i] # "create" /\ s[i] # "copy" /\ s[i] # "finish" /\ s[i] # "next file"
    BY <2>2 DEF Writing
  <2>4. i # k - 1 /\ i # k /\ i # k + 1 /\ i # k + 2 /\ ~(i > k + 2)
    BY <1>1, <1>3, <1>4
  <2> QED
    BY <2>3, <2>4 DEF StandsFor
<1>5. CASE i = k - 1
  <2>1. s[i] = "dither"
    BY <1>2, <1>5
  <2>2. i = k - 1 /\ i # k /\ i # k + 1 /\ i # k + 2 /\ ~(i > k + 2)
    BY <1>1, <1>5
  <2> QED
    BY <2>1, <2>2 DEF StandsFor
<1>6. CASE i = k
  <2>1. s[i] = "create"
    BY <1>2, <1>6
  <2>2. i = k /\ i # k - 1 /\ i # k + 1 /\ i # k + 2 /\ ~(i > k + 2)
    BY <1>1, <1>6
  <2> QED
    BY <2>1, <2>2 DEF StandsFor
<1>7. CASE i = k + 1
  <2>1. s[i] = "copy"
    BY <1>2, <1>7
  <2>2. i = k + 1 /\ i # k - 1 /\ i # k /\ i # k + 2 /\ ~(i > k + 2)
    BY <1>1, <1>7
  <2> QED
    BY <2>1, <2>2 DEF StandsFor
<1>8. CASE i = k + 2
  <2>1. s[i] = "finish"
    BY <1>2, <1>8
  <2>2. i = k + 2 /\ i # k - 1 /\ i # k /\ i # k + 1 /\ ~(i > k + 2)
    BY <1>1, <1>8
  <2> QED
    BY <2>1, <2>2 DEF StandsFor
<1>9. CASE i = k + 3
  BY <1>1, <1>2, <1>9 DEF StandsFor
<1>10. i <= k - 2 \/ i = k - 1 \/ i = k \/ i = k + 1 \/ i = k + 2 \/ i = k + 3
  BY <1>1, <1>3
<1> QED
  BY <1>4, <1>5, <1>6, <1>7, <1>8, <1>9, <1>10

\* What depends on the request and on the disk the tool found does not change.
LEMMA Rigid ==
  ASSUME request' = request, began' = began
  PROVE  /\ In' = In /\ out' = out /\ Steps' = Steps
         /\ GivenFrames' = GivenFrames /\ GivenSounds' = GivenSounds /\ WantedFormat' = WantedFormat
         /\ RightSource' = RightSource
         /\ IsAudio(In)' <=> IsAudio(In)
         /\ IsSession' <=> IsSession
         /\ \A n : Claims(n)' = Claims(n)
         /\ \A a, n : WrittenFile(a, n)' = WrittenFile(a, n)
<1>1. In' = In /\ out' = out /\ Steps' = Steps
  BY DEF In, out, Steps
<1>2. \A p : SoundsOf(p)' = SoundsOf(p) /\ (IsAudio(p)' <=> IsAudio(p))
  BY DEF SoundsOf, IsAudio
<1>3. IsAudio(In)' <=> IsAudio(In)
  BY <1>1 DEF IsAudio
<1>4. IsSession' <=> IsSession
  BY <1>1 DEF IsSession
<1>5. GivenFrames' = GivenFrames
  BY <1>1 DEF GivenFrames, SoundsOf
<1>6. GivenSounds' = GivenSounds
  BY <1>1 DEF GivenSounds, SoundsOf, IsAudio
<1>7. WantedFormat' = WantedFormat
  BY <1>1 DEF WantedFormat
<1>8. RightSource' = RightSource
  BY <1>1 DEF RightSource, SoundsOf, IsAudio
<1>9. ASSUME NEW n PROVE Claims(n)' = Claims(n)
  BY <1>1 DEF Claims
<1>10. Stored(out, WantedFormat)' = Stored(out, WantedFormat)
  BY <1>1, <1>7 DEF Stored, ditherFor
<1>11. ASSUME NEW a, NEW n PROVE WrittenFile(a, n)' = WrittenFile(a, n)
  BY <1>1, <1>6, <1>10 DEF WrittenFile
<1> QED
  BY <1>1, <1>3, <1>4, <1>5, <1>6, <1>7, <1>8, <1>9, <1>11

\* The steps behind a command when it has taken one more, or none.
LEMMA PassedOneMore ==
  ASSUME job.step \in 1..Len(Steps), Steps' = Steps, job'.step = job.step + 1, NEW step, Len(Steps) \in Nat
  PROVE  Passed(step)' <=> Passed(step) \/ Steps[job.step] = step
<1>1. \A i \in 1..Len(Steps) : i < job.step + 1 <=> i < job.step \/ i = job.step
  OBVIOUS
<1> QED
  BY <1>1 DEF Passed

LEMMA PassedNoMore ==
  ASSUME Steps' = Steps, job'.step = job.step, NEW step
  PROVE  Passed(step)' <=> Passed(step)
BY DEF Passed

\* The fields of a job that has moved.
LEMMA JobFields ==
  ASSUME JobType, NEW n, NEW source
  PROVE  LET next == [job EXCEPT !.step = n, !.source = source]
         IN /\ next.step = n /\ next.source = source /\ next.file = job.file /\ next.failures = job.failures
            /\ next.copied = job.copied
            /\ next = [step |-> next.step, file |-> next.file, failures |-> next.failures, copied |-> next.copied,
                       source |-> next.source]
<1>1. PICK a, f, u, p, q : job = [step |-> a, file |-> f, failures |-> u, copied |-> p, source |-> q]
  BY DEF JobType
<1>2. [job EXCEPT !.step = n, !.source = source]
      = [step |-> n, file |-> f, failures |-> u, copied |-> p, source |-> source]
  <2>1. PICK next : next = [job EXCEPT !.step = n]
    OBVIOUS
  <2>2. next = [step |-> n, file |-> f, failures |-> u, copied |-> p, source |-> q]
    BY <1>1, <2>1
  <2>3. [next EXCEPT !.source = source] = [step |-> n, file |-> f, failures |-> u, copied |-> p, source |-> source]
    BY <2>2
  <2>4. [job EXCEPT !.step = n, !.source = source] = [[job EXCEPT !.step = n] EXCEPT !.source = source]
    OBVIOUS
  <2> QED
    BY <2>1, <2>3, <2>4
<1>3. job.file = f /\ job.failures = u /\ job.copied = p
  BY <1>1
<1> QED
  BY <1>2, <1>3

\* A step is passed, and the command is not over.
LEMMA JobPasses ==
  ASSUME NEW k, NEW r, WritesAt(Steps, k), SourceAt(Steps, k, r), Steps[r] = SourceOf(request.command),
         JobType, JobKeeps(k, r), exitCode = "running", job.step \in 1..Len(Steps),
         NEW source, MayPass(Steps[job.step], source),
         UNCHANGED <<request, began, exitCode>>,
         job' = [job EXCEPT !.step = job.step + 1, !.source = source]
  PROVE  JobKeeps(k, r)'
<1>0. k \in Nat /\ k >= 4 /\ Len(Steps) = k + 3
  BY DEF WritesAt
<1>1. k \in Nat /\ k >= 4 /\ Len(Steps) = k + 3 /\ Len(Steps) \in Nat
  BY <1>0
<1>2. /\ job'.step = job.step + 1 /\ job'.source = source /\ job'.file = job.file
      /\ job'.failures = job.failures /\ job'.copied = job.copied
  BY JobFields
<1>3. r \in Nat /\ r >= 2 /\ r <= k - 2
  BY <1>1 DEF SourceAt
<1>4. /\ Steps' = Steps /\ In' = In
      /\ RightSource' = RightSource
      /\ IsAudio(In)' <=> IsAudio(In)
      /\ IsSession' <=> IsSession
  BY Rigid
<1>5. \A step : Passed(step)' <=> Passed(step) \/ Steps[job.step] = step
  BY <1>1, <1>2, <1>4, PassedOneMore
<1>6. RequestKeeps'
  BY <1>5 DEF RequestKeeps, JobKeeps, MayPass
<1>7. InputKeeps'
  BY <1>4, <1>5 DEF InputKeeps, JobKeeps, MayPass
<1>9. job'.step > r => job'.source = RightSource'
  <2>1. CASE job.step > r
    <3>1. Steps[job.step] \notin Sources
      BY <2>1 DEF SourceAt
    <3>2. job.source = RightSource /\ source = job.source
      BY <2>1, <3>1 DEF JobKeeps, MayPass
    <3> QED
      BY <1>2, <1>4, <3>2
  <2>2. CASE job.step = r
    BY <1>2, <1>4, <2>2 DEF MayPass
  <2> QED
    BY <1>1, <1>2, <1>3, <2>1, <2>2
<1>10. job'.file = 1 /\ job'.failures = 0 /\ job'.copied \in Nat /\ job'.step \in 1..k + 4 /\ (job'.step <= k => job'.copied = 0)
  BY <1>1, <1>2 DEF JobKeeps
<1>11. exitCode' # "success" /\ ~Failed'
  BY DEF Failed
<1> QED
  BY <1>6, <1>7, <1>9, <1>10, <1>11 DEF JobKeeps

\* The same, of a step that writes nothing.
LEMMA PassKeeps ==
  ASSUME NEW k, NEW r, WritesAt(Steps, k), SourceAt(Steps, k, r), Steps[r] = SourceOf(request.command),
         CliTypes, WritingInv(k, r), exitCode = "running", job.step \in 1..Len(Steps),
         NEW source, MayPass(Steps[job.step], source),
         UNCHANGED <<request, began, files, exitCode>>,
         job' = [job EXCEPT !.step = job.step + 1, !.source = source],
         job.step # k, job.step # k + 2
  PROVE  WritingInv(k, r)'
<1>1. k \in Nat /\ k >= 4 /\ Len(Steps) = k + 3
  BY DEF WritesAt
<1>2. /\ job'.step = job.step + 1 /\ job'.copied = job.copied
  BY JobFields DEF CliTypes
<1>4. /\ out' = out
      /\ GivenFrames' = GivenFrames
      /\ \A n : Claims(n)' = Claims(n)
      /\ \A a, n : WrittenFile(a, n)' = WrittenFile(a, n)
  BY Rigid
<1>8. FileKeeps(k)'
  <2>1. (job.step <= k => files = began)
        /\ (job.step > k => files[out] = WrittenFile(IF job.step <= k + 2 THEN Claims(job.copied) ELSE job.copied, job.copied))
        /\ (job.step > k + 1 => job.copied = GivenFrames)
    BY DEF WritingInv, FileKeeps
  <2>2. job.step = k + 1 => job.copied = GivenFrames
    <3>1. job.step = k + 1 => Steps[job.step] = "copy"
      BY DEF WritesAt
    <3> QED
      BY <3>1 DEF MayPass
  <2>3. job.step + 1 <= k => job.step <= k
    BY <1>1
  <2>4. job.step + 1 > k => job.step > k
    BY <1>1
  <2>5. job.step + 1 <= k + 2 <=> job.step <= k + 2
    BY <1>1
  <2>6. job.step + 1 > k + 1 => job.step > k + 1 \/ job.step = k + 1
    BY <1>1
  <2>7. job'.step <= k => files' = began'
    BY <1>2, <2>1, <2>3
  <2>8. (job.step > k => files[out] = WrittenFile(IF job.step <= k + 2 THEN Claims(job.copied) ELSE job.copied, job.copied))'
    BY <1>2, <1>4, <2>1, <2>4, <2>5
  <2>9. job'.step > k + 1 => job'.copied = GivenFrames'
    BY <1>2, <1>4, <2>1, <2>2, <2>6
  <2> QED
    BY <2>7, <2>8, <2>9 DEF FileKeeps
<1>9. JobKeeps(k, r)'
  BY JobPasses DEF WritingInv, CliTypes
<1> QED
  BY <1>8, <1>9 DEF WritingInv

\* A failure, or a signal, before the file is finished.
LEMMA JobFails ==
  ASSUME NEW k, NEW r, WritesAt(Steps, k), JobKeeps(k, r), exitCode = "running", job.step \in 1..k + 2,
         UNCHANGED <<request, began, job>>, exitCode' \in {"failure", "aborted"}
  PROVE  JobKeeps(k, r)'
<1>1. k \in Nat /\ k >= 4
  BY DEF WritesAt
<1>4. /\ Steps' = Steps /\ In' = In
      /\ RightSource' = RightSource
      /\ IsAudio(In)' <=> IsAudio(In)
      /\ IsSession' <=> IsSession
  BY Rigid
<1>5. \A step : Passed(step)' <=> Passed(step)
  BY <1>4, PassedNoMore
<1>6. RequestKeeps' /\ InputKeeps'
  BY <1>4, <1>5 DEF RequestKeeps, InputKeeps, JobKeeps
<1>9. job'.step > r => job'.source = RightSource'
  BY <1>4 DEF JobKeeps
<1>11. exitCode' # "success" /\ job'.step <= k + 2
  BY <1>1
<1> QED
  BY <1>6, <1>9, <1>11 DEF JobKeeps

\* The same, of a step that writes nothing.
LEMMA FailureKeeps ==
  ASSUME NEW k, NEW r, WritesAt(Steps, k), WritingInv(k, r), exitCode = "running", job.step \in 1..k + 2,
         UNCHANGED <<request, began, files, job>>, exitCode' \in {"failure", "aborted"}
  PROVE  WritingInv(k, r)'
<1>4. /\ out' = out
      /\ GivenFrames' = GivenFrames
      /\ \A n : Claims(n)' = Claims(n)
      /\ \A a, n : WrittenFile(a, n)' = WrittenFile(a, n)
  BY Rigid
<1>8. FileKeeps(k)'
  <2>1. (job.step <= k => files = began)
        /\ (job.step > k => files[out] = WrittenFile(IF job.step <= k + 2 THEN Claims(job.copied) ELSE job.copied, job.copied))
        /\ (job.step > k + 1 => job.copied = GivenFrames)
    BY DEF WritingInv, FileKeeps
  <2> QED
    BY <1>4, <2>1 DEF FileKeeps
<1>9. JobKeeps(k, r)'
  BY JobFails DEF WritingInv
<1> QED
  BY <1>8, <1>9 DEF WritingInv

\* A command that writes is over when a step fails: it takes one file.
LEMMA FailsAtOnce ==
  ASSUME NEW k, WritesAt(Steps, k), fail
  PROVE  exitCode' = "failure" /\ job' = job
<1>1. \A i \in 1..Len(Steps) : Steps[i] # "next file"
  BY WritingSteps DEF StandsFor, WritesAt
<1>2. Steps \in Seq(Step)
  BY DEF WritesAt
<1>3. DOMAIN Steps = 1..Len(Steps)
  BY <1>2
<1>4. "next file" \notin Range(Steps)
  BY <1>1, <1>3 DEF Range
<1> QED
  BY <1>4 DEF fail

\* A step that writes nothing: it is passed, with what that asks for, or it fails.
Tries(source) ==
  \/ MayPass(Steps[job.step], source) /\ exitCode' = exitCode /\ job' = [job EXCEPT !.step = job.step + 1, !.source = source]
  \/ exitCode' \in {"failure", "aborted"} /\ job' = job

\* Steps up to the last one that can fail, and up to the one that creates the file.
LEMMA UpTo ==
  ASSUME NEW k \in Nat, NEW n \in 1..k + 3, ~(n > k + 2) PROVE n \in 1..k + 2
OBVIOUS

\* A step that is tried keeps the command's place, for only reports come after the
\* file is finished and a report does not fail.
LEMMA TriesKeep ==
  ASSUME NEW k, NEW r, WritesAt(Steps, k), SourceAt(Steps, k, r), Steps[r] = SourceOf(request.command),
         CliTypes, WritingInv(k, r), exitCode = "running", job.step \in 1..Len(Steps),
         Steps[job.step] \notin {"create", "finish"},
         NEW source, UNCHANGED <<request, began, files>>, Tries(source),
         Steps[job.step] \in {"print", "print rates"} => exitCode' = exitCode
  PROVE  WritingInv(k, r)'
<1>1. k \in Nat /\ k >= 4 /\ Len(Steps) = k + 3
  BY DEF WritesAt
<1>2. job.step # k /\ job.step # k + 2
  BY DEF WritesAt
<1>3. CASE MayPass(Steps[job.step], source) /\ exitCode' = exitCode /\ job' = [job EXCEPT !.step = job.step + 1, !.source = source]
  BY <1>2, <1>3, PassKeeps
<1>4. CASE exitCode' \in {"failure", "aborted"} /\ job' = job
  <2>1. ~(Steps[job.step] \in {"print", "print rates"})
    BY <1>4
  <2>2. ~(job.step > k + 2)
    BY <1>1, <2>1, WritingSteps DEF StandsFor
  <2>3. job.step \in 1..k + 3
    BY <1>1
  <2>5. k \in Nat
    BY <1>1
  <2>4. job.step \in 1..k + 2
    BY <2>2, <2>3, <2>5, UpTo
  <2> QED
    BY <1>4, <2>4, FailureKeeps
<1> QED
  BY <1>3, <1>4 DEF Tries
-------------------------------------------------------------------------------
(* The steps that write nothing.                                               *)

\* Going on with the source there is.
LEMMA Same ==
  ASSUME JobType
  PROVE  [job EXCEPT !.step = @ + 1] = [job EXCEPT !.step = job.step + 1, !.source = job.source]
<1>1. PICK a, f, u, p, q : job = [step |-> a, file |-> f, failures |-> u, copied |-> p, source |-> q]
  BY DEF JobType
<1>2. PICK next : next = [job EXCEPT !.step = @ + 1]
  OBVIOUS
<1>3. next = [step |-> a + 1, file |-> f, failures |-> u, copied |-> p, source |-> q]
  BY <1>1, <1>2
<1>4. PICK other1 : other1 = [job EXCEPT !.step = job.step + 1]
  OBVIOUS
<1>5. other1 = [step |-> a + 1, file |-> f, failures |-> u, copied |-> p, source |-> q]
  BY <1>1, <1>4
<1>6. [other1 EXCEPT !.source = job.source] = [step |-> a + 1, file |-> f, failures |-> u, copied |-> p, source |-> q]
  BY <1>1, <1>5
<1>7. [job EXCEPT !.step = job.step + 1, !.source = job.source] = [[job EXCEPT !.step = job.step + 1] EXCEPT !.source = job.source]
  OBVIOUS
<1> QED
  BY <1>2, <1>3, <1>4, <1>6, <1>7

\* A step that asks for nothing but a condition.
LEMMA GoesOnIf ==
  ASSUME NEW k, WritesAt(Steps, k), JobType, NEW condition, goOnIf(condition),
         condition => MayPass(Steps[job.step], job.source)
  PROVE  Tries(job.source)
<1>1. CASE condition
  BY <1>1, Same DEF goOnIf, goOn, Tries
<1>2. CASE ~condition
  BY <1>2, FailsAtOnce DEF goOnIf, Tries
<1> QED
  BY <1>1, <1>2

\* What such a step has to ask.
LEMMA Asks ==
  ASSUME NEW step, step = Steps[job.step], step \notin Sources, step # "copy",
         step = "count" => request.wrong # "count",
         step = "option" => request.wrong # "option",
         step = "dither" => request.dither # "unknown"
  PROVE  MayPass(Steps[job.step], job.source)
<1>1. SourceOf(request.command) \in Sources
  BY DEF SourceOf, Sources
<1> QED
  BY <1>1 DEF MayPass, Sources

\* A command that writes, at one of its steps.
Here(k) == WritesAt(Steps, k) /\ JobType /\ exitCode = "running"

\* The steps that look at the request are tried.
LEMMA ChecksTry ==
  ASSUME NEW k, Here(k), checkRequest
  PROVE  Tries(job.source) /\ Steps[job.step] \notin {"create", "finish", "print", "print rates"} /\ UNCHANGED <<request, began, files>>
<1>0. WritesAt(Steps, k) /\ JobType
  BY DEF Here
<1> USE <1>0
<1>1. CASE at("count") /\ goOnIf(request.wrong # "count")
  <2>1. Steps[job.step] = "count" /\ "count" \notin Sources
    BY <1>1 DEF at, Sources
  <2>2. request.wrong # "count" => MayPass(Steps[job.step], job.source)
    BY <2>1, Asks
  <2> QED
    BY <1>1, <2>1, <2>2, GoesOnIf DEF checkRequest
<1>2. CASE at("option") /\ goOnIf(request.wrong # "option")
  <2>1. Steps[job.step] = "option" /\ "option" \notin Sources
    BY <1>2 DEF at, Sources
  <2>2. request.wrong # "option" => MayPass(Steps[job.step], job.source)
    BY <2>1, Asks
  <2> QED
    BY <1>2, <2>1, <2>2, GoesOnIf DEF checkRequest
<1>3. CASE at("one report") /\ goOnIf(request.wrong # "option")
  <2>1. Steps[job.step] = "one report" /\ "one report" \notin Sources
    BY <1>3 DEF at, Sources
  <2>2. request.wrong # "option" => MayPass(Steps[job.step], job.source)
    BY <2>1, Asks
  <2> QED
    BY <1>3, <2>1, <2>2, GoesOnIf DEF checkRequest
<1>4. CASE at("dither") /\ goOnIf(request.dither # "unknown")
  <2>1. Steps[job.step] = "dither" /\ "dither" \notin Sources
    BY <1>4 DEF at, Sources
  <2>2. request.dither # "unknown" => MayPass(Steps[job.step], job.source)
    BY <2>1, Asks
  <2> QED
    BY <1>4, <2>1, <2>2, GoesOnIf DEF checkRequest
<1>5. CASE at("refuse") /\ fail
  BY <1>5, FailsAtOnce DEF at, Tries, checkRequest
<1>6. CASE at("numbers") /\ IF request.wrong = "numbers" THEN exitCode' = "aborted" /\ UNCHANGED job ELSE goOn
  <2>1. Steps[job.step] = "numbers" /\ "numbers" \notin Sources
    BY <1>6 DEF at, Sources
  <2>2. MayPass(Steps[job.step], job.source)
    BY <2>1, Asks
  <2> QED
    BY <1>6, <2>1, <2>2, Same DEF checkRequest, Tries, goOn
<1> QED
  BY <1>1, <1>2, <1>3, <1>4, <1>5, <1>6 DEF checkRequest
Finds(k, r) == Here(k) /\ WritingInv(k, r) /\ job.step \in 1..Len(Steps)

LEMMA Before ==
  ASSUME NEW k \in Nat, NEW n \in 1..k + 3, n # k, n # k + 1, n # k + 2, ~(n > k + 2)
  PROVE  n <= k
OBVIOUS

\* Nothing is written before the file is created.
LEMMA AsFound ==
  ASSUME NEW k, NEW r, Finds(k, r), Steps[job.step] \notin {"create", "copy", "finish", "print", "print rates"}
  PROVE  files = began /\ input = In
<1>1. WritesAt(Steps, k) /\ WritingInv(k, r) /\ exitCode = "running" /\ job.step \in 1..Len(Steps)
  BY DEF Finds, Here
<1>2. k \in Nat /\ Len(Steps) = k + 3
  BY <1>1 DEF WritesAt
<1>3. job.step # k /\ job.step # k + 1 /\ job.step # k + 2 /\ ~(job.step > k + 2)
  <2>1. StandsFor(Steps, k, job.step)
    BY <1>1, <1>2, WritingSteps
  <2> QED
    BY <2>1 DEF StandsFor
<1>4. k \in Nat /\ job.step \in 1..k + 3
  BY <1>1, <1>2
<1>5. job.step <= k
  BY <1>3, <1>4, Before
<1>6. files = began
  BY <1>1, <1>5 DEF WritingInv, JobKeeps, FileKeeps
<1>7. job.file = 1
  BY <1>1 DEF WritingInv, JobKeeps
<1> QED
  BY <1>6, <1>7 DEF input, In

\* A command writes from one of the sources.
LEMMA SourceIs == SourceOf(request.command) \in Sources
  BY DEF SourceOf, Sources

\* A step that is given a source, or fails.
LEMMA GoesOnWith ==
  ASSUME NEW k, Here(k), NEW source, goOnWith(source), MayPass(Steps[job.step], source)
  PROVE  Tries(source)
BY DEF goOnWith, Tries

LEMMA Fails ==
  ASSUME NEW k, Here(k), fail, NEW source
  PROVE  Tries(source)
BY FailsAtOnce DEF Here, Tries

\* The steps that open the input are tried.
LEMMA OpensTry ==
  ASSUME NEW k, NEW r, Finds(k, r), openInput
  PROVE  (\E source : Tries(source)) /\ Steps[job.step] \notin {"create", "finish", "print", "print rates"} /\ UNCHANGED <<request, began, files>>
<1>0. WritesAt(Steps, k) /\ JobType /\ Here(k)
  BY DEF Finds, Here
<1> USE <1>0
<1>9. UNCHANGED <<request, began, files>>
  BY DEF openInput
<1>1. CASE at("open") /\ IF Opens(input) THEN goOnWith(OnDisk("file", input, files[input].claims)) ELSE fail
  <2>1. Steps[job.step] = "open" /\ "open" \in Sources
    BY <1>1 DEF at, Sources
  <2>2. files = began /\ input = In
    BY <2>1, AsFound
  <2>3. CASE Opens(input)
    <3>1. IsAudio(In)
      BY <2>2, <2>3 DEF Opens, IsAudio
    <3>2. SourceOf(request.command) = "open" => OnDisk("file", input, files[input].claims) = RightSource
      BY <2>2 DEF RightSource
    <3>3. MayPass(Steps[job.step], OnDisk("file", input, files[input].claims))
      BY <2>1, <3>1, <3>2 DEF MayPass
    <3>4. Tries(OnDisk("file", input, files[input].claims))
      BY <1>1, <2>3, <3>3, GoesOnWith
    <3> QED
      BY <1>9, <2>1, <3>4
  <2>4. CASE ~Opens(input)
    <3>1. Tries(job.source)
      BY <1>1, <2>4, Fails
    <3> QED
      BY <1>9, <2>1, <3>1
  <2> QED
    BY <2>3, <2>4
<1>2. CASE at("open other") /\ goOnIf(Opens(other))
  <2>1. Steps[job.step] = "open other" /\ "open other" \notin Sources
    BY <1>2 DEF at, Sources
  <2>2. MayPass(Steps[job.step], job.source)
    BY <2>1, Asks
  <2>3. Tries(job.source)
    BY <1>2, <2>2, GoesOnIf
  <2> QED
    BY <1>9, <2>1, <2>3
<1>3. CASE at("same rate") /\ goOnIf(files[input].rate = files[other].rate)
  <2>1. Steps[job.step] = "same rate" /\ "same rate" \notin Sources
    BY <1>3 DEF at, Sources
  <2>2. MayPass(Steps[job.step], job.source)
    BY <2>1, Asks
  <2>3. Tries(job.source)
    BY <1>3, <2>2, GoesOnIf
  <2> QED
    BY <1>9, <2>1, <2>3
<1>4. CASE at("stereo") /\ goOnIf(request.wrong # "mono" \/ files[input].channels = 2)
  <2>1. Steps[job.step] = "stereo" /\ "stereo" \notin Sources
    BY <1>4 DEF at, Sources
  <2>2. MayPass(Steps[job.step], job.source)
    BY <2>1, Asks
  <2>3. Tries(job.source)
    BY <1>4, <2>2, GoesOnIf
  <2> QED
    BY <1>9, <2>1, <2>3
<1>5. CASE /\ at("session")
           /\ IF files[input].kind # "session" THEN fail
              ELSE goOnWith(OnDisk(IF Opens(files[input].plays) THEN "document" ELSE "silence",
                                   files[input].plays, files[input].length))
  <2>1. Steps[job.step] = "session" /\ "session" \in Sources
    BY <1>5 DEF at, Sources
  <2>2. files = began /\ input = In
    BY <2>1, AsFound
  <2>3. CASE files[input].kind = "session"
    <3>1. IsSession
      BY <2>2, <2>3 DEF IsSession
    <3> DEFINE source == OnDisk(IF Opens(files[input].plays) THEN "document" ELSE "silence",
                                files[input].plays, files[input].length)
    <3>2. SourceOf(request.command) = "session" => source = RightSource
      BY <2>2 DEF RightSource, Opens, IsAudio
    <3>3. goOnWith(source)
      BY <1>5, <2>3
    <3> HIDE DEF source
    <3>4. MayPass(Steps[job.step], source)
      BY <2>1, <3>1, <3>2 DEF MayPass
    <3>5. Tries(source)
      BY <3>3, <3>4, GoesOnWith
    <3> QED
      BY <1>9, <2>1, <3>5
  <2>4. CASE files[input].kind # "session"
    <3>1. Tries(job.source)
      BY <1>5, <2>4, Fails
    <3> QED
      BY <1>9, <2>1, <3>1
  <2> QED
    BY <2>3, <2>4
<1> QED
  BY <1>1, <1>2, <1>3, <1>4, <1>5 DEF openInput

\* The steps that read it are tried.
LEMMA ReadsTry ==
  ASSUME NEW k, NEW r, Finds(k, r), readInput
  PROVE  (\E source : Tries(source)) /\ Steps[job.step] \notin {"create", "finish", "print", "print rates"} /\ UNCHANGED <<request, began, files>>
<1>0. WritesAt(Steps, k) /\ JobType /\ Here(k)
  BY DEF Finds, Here
<1> USE <1>0
<1>9. UNCHANGED <<request, began, files>>
  BY DEF readInput
<1>8. ASSUME Steps[job.step] \in {"read other", "measure", "gate", "process"}
      PROVE  MayPass(Steps[job.step], job.source)
  <2>1. Steps[job.step] \notin Sources
    BY <1>8 DEF Sources
  <2> QED
    BY <1>8, <2>1, Asks
<1>7. goOn /\ MayPass(Steps[job.step], job.source) => Tries(job.source)
  BY Same DEF goOn, Tries
<1>1. CASE at("read") /\ IF files[input].readable THEN goOnWith(InMemory(files[input].claims, Holds(input))) ELSE fail
  <2>1. Steps[job.step] = "read" /\ "read" \in Sources
    BY <1>1 DEF at, Sources
  <2>2. files = began /\ input = In
    BY <2>1, AsFound
  <2>3. CASE files[input].readable
    <3> DEFINE source == InMemory(files[input].claims, Holds(input))
    <3>2. SourceOf(request.command) = "read" => source = RightSource
      BY <2>2 DEF RightSource, Holds, SoundsOf
    <3>3. goOnWith(source)
      BY <1>1, <2>3
    <3> HIDE DEF source
    <3>4. MayPass(Steps[job.step], source)
      BY <2>1, <3>2 DEF MayPass
    <3>5. Tries(source)
      BY <3>3, <3>4, GoesOnWith
    <3> QED
      BY <1>9, <2>1, <3>5
  <2>4. CASE ~files[input].readable
    <3>1. Tries(job.source)
      BY <1>1, <2>4, Fails
    <3> QED
      BY <1>9, <2>1, <3>1
  <2> QED
    BY <2>3, <2>4
<1>2. CASE at("read other") /\ goOnIf(files[other].readable)
  <2>1. Steps[job.step] = "read other"
    BY <1>2 DEF at
  <2>3. Tries(job.source)
    BY <1>2, <1>8, <2>1, GoesOnIf
  <2> QED
    BY <1>9, <2>1, <2>3
<1>3. CASE at("measure") /\ goOn
  BY <1>3, <1>7, <1>8, <1>9 DEF at
<1>4. CASE at("gate") /\ (goOn \/ fail)
  <2>1. Tries(job.source)
    BY <1>4, <1>7, <1>8, Fails DEF at
  <2> QED
    BY <1>4, <1>9, <2>1 DEF at
<1>5. CASE at("place") /\ IF files[input].claims > 0 THEN goOnWith(OnDisk("document", input, files[input].claims)) ELSE fail
  <2>1. Steps[job.step] = "place" /\ "place" \in Sources
    BY <1>5 DEF at, Sources
  <2>2. files = began /\ input = In
    BY <2>1, AsFound
  <2>3. CASE files[input].claims > 0
    <3> DEFINE source == OnDisk("document", input, files[input].claims)
    <3>2. SourceOf(request.command) = "place" => source = RightSource
      BY <2>2 DEF RightSource
    <3>3. goOnWith(source)
      BY <1>5, <2>3
    <3> HIDE DEF source
    <3>4. MayPass(Steps[job.step], source)
      BY <2>1, <3>2 DEF MayPass
    <3>5. Tries(source)
      BY <3>3, <3>4, GoesOnWith
    <3> QED
      BY <1>9, <2>1, <3>5
  <2>4. CASE ~(files[input].claims > 0)
    <3>1. Tries(job.source)
      BY <1>5, <2>4, Fails
    <3> QED
      BY <1>9, <2>1, <3>1
  <2> QED
    BY <2>3, <2>4
<1>6. CASE at("process") /\ (goOn \/ fail)
  <2>1. Tries(job.source)
    BY <1>6, <1>7, <1>8, Fails DEF at
  <2> QED
    BY <1>6, <1>9, <2>1 DEF at
<1>10. CASE at("generate") /\ (fail \/ goOnWith(InMemory(kBlock, kBlock)))
  <2>1. Steps[job.step] = "generate" /\ "generate" \in Sources
    BY <1>10 DEF at, Sources
  <2>2. CASE fail
    <3>1. Tries(job.source)
      BY <2>2, Fails
    <3> QED
      BY <1>9, <2>1, <3>1
  <2>3. CASE goOnWith(InMemory(kBlock, kBlock))
    <3>1. SourceOf(request.command) = "generate" => InMemory(kBlock, kBlock) = RightSource
      BY DEF RightSource
    <3>2. MayPass(Steps[job.step], InMemory(kBlock, kBlock))
      BY <2>1, <3>1 DEF MayPass
    <3>3. Tries(InMemory(kBlock, kBlock))
      BY <2>3, <3>2, GoesOnWith
    <3> QED
      BY <1>9, <2>1, <3>3
  <2> QED
    BY <1>10, <2>2, <2>3
<1> QED
  BY <1>1, <1>2, <1>3, <1>4, <1>5, <1>6, <1>10 DEF readInput

\* The steps that print are passed.
LEMMA ReportsTry ==
  ASSUME NEW k, NEW r, Finds(k, r), report
  PROVE  /\ Tries(job.source) /\ Steps[job.step] \notin {"create", "finish"}
         /\ UNCHANGED <<request, began, files, exitCode>>
<1>0. WritesAt(Steps, k) /\ JobType /\ Here(k) /\ job.step \in 1..Len(Steps)
  BY DEF Finds, Here
<1> USE <1>0
<1>9. UNCHANGED <<request, began, files>>
  BY DEF report
<1>1. Steps[job.step] # "next file"
  BY WritingSteps DEF StandsFor, WritesAt
<1>2. Steps[job.step] \in {"print", "heading", "print rates"} /\ goOn
  BY <1>1 DEF report, at
<1>3. Steps[job.step] \notin Sources
  BY <1>2 DEF Sources
<1>4. MayPass(Steps[job.step], job.source)
  BY <1>2, <1>3, Asks
<1>5. Tries(job.source) /\ UNCHANGED exitCode
  BY <1>2, <1>4, Same DEF goOn, Tries
<1> QED
  BY <1>2, <1>5, <1>9
-------------------------------------------------------------------------------
(* What is given.                                                              *)

\* The kinds of what the tool is given.
LEMMA Given ==
  ASSUME CliTypes
  PROVE  /\ In \in Path /\ out \in Path /\ began \in [Path -> File] /\ DOMAIN files = Path
         /\ request.command \in DOMAIN main
<1>1. began \in [Path -> File]
  BY DisksAssumption DEF CliTypes
<1>2. request \in Request
  BY DEF CliTypes
<1>3. request.inputs \in Seq(Path) \ {<<>>} /\ request.out \in Path /\ request.command \in DOMAIN main
  BY <1>2, RequestAssumption
<1>4. In \in Path
  <2>1. Len(request.inputs) # 0 /\ Len(request.inputs) \in Nat
    BY <1>3
  <2>2. 1 \in 1..Len(request.inputs)
    BY <2>1
  <2> QED
    BY <1>3, <2>2 DEF In
<1>5. DOMAIN files = Path
  <2>1. files = [began EXCEPT ![out] = files[out]]
    BY DEF CliTypes
  <2>2. DOMAIN [began EXCEPT ![out] = files[out]] = DOMAIN began
    OBVIOUS
  <2> QED
    BY <1>1, <2>1, <2>2
<1> QED
  BY <1>1, <1>3, <1>4, <1>5 DEF out

\* What a file of audio and a session say, and the lesser of two lengths.
LEMMA AudioIs == ASSUME NEW file \in File, file.kind = "audio" PROVE file.claims \in Nat /\ file.holds \in Nat
BY DEF File, Absent

LEMMA SessionIs == ASSUME NEW file \in File, file.kind = "session" PROVE file.plays \in Path /\ file.length \in Nat
BY DEF File, Absent

LEMMA LesserIs == ASSUME NEW a \in Nat, NEW b \in Nat PROVE Lesser(a, b) \in Nat /\ Lesser(a, b) <= a /\ Lesser(a, b) <= b /\ Lesser(0, a) = 0 /\ Lesser(a, a) = a
                                                           /\ Lesser(a, Lesser(a, b)) = Lesser(a, b)
BY DEF Lesser

\* Once a command has its source it is known what kind of file it came from.
LEMMA KindKnown ==
  ASSUME NEW k, NEW r, Shape(request.command, k, r), WritingInv(k, r), job.step > r
  PROVE  /\ SourceOf(request.command) \in {"read", "open", "place"} => IsAudio(In)
         /\ SourceOf(request.command) = "session" => IsSession
<1>1. WritesAt(Steps, k) /\ SourceAt(Steps, k, r) /\ Steps[r] = SourceOf(request.command)
      /\ (SourceOf(request.command) \in {"read", "place"} => \E o \in 1..r : Steps[o] = "open")
  BY DEF Shape, Steps
<1>2. k \in Nat /\ k >= 4 /\ Len(Steps) = k + 3 /\ job.step \in 1..k + 4
  BY <1>1 DEF WritesAt, WritingInv, JobKeeps
<1>3. r \in 1..k
  BY <1>1, <1>2 DEF SourceAt
<1>4. \A o \in 1..r : o \in 1..Len(Steps) /\ o < job.step
  BY <1>2, <1>3
<1>5. \A o \in 1..r : Passed(Steps[o])
  BY <1>4 DEF Passed
<1>6. r \in 1..r
  BY <1>3
<1>7. SourceOf(request.command) \in {"read", "open", "place"} => Passed("open")
  BY <1>1, <1>5, <1>6
<1>8. SourceOf(request.command) = "session" => Passed("session")
  BY <1>1, <1>5, <1>6
<1> QED
  BY <1>7, <1>8 DEF WritingInv, JobKeeps, InputKeeps

\* So what it is given is a number of frames.
LEMMA GivenIs ==
  ASSUME NEW k, NEW r, Shape(request.command, k, r), WritingInv(k, r), job.step > r, CliTypes
  PROVE  GivenFrames \in Nat /\ GivenSounds \in Nat
<1>1. In \in Path /\ began \in [Path -> File] /\ kBlock \in Nat
  BY Given, BlockAssumption
<1>2. \A path \in Path : IsAudio(path) => began[path].claims \in Nat /\ SoundsOf(path) \in Nat
  <2> SUFFICES ASSUME NEW path \in Path, IsAudio(path) PROVE began[path].claims \in Nat /\ SoundsOf(path) \in Nat
    OBVIOUS
  <2>1. began[path] \in File /\ began[path].kind = "audio"
    BY <1>1 DEF IsAudio
  <2>2. began[path].claims \in Nat /\ began[path].holds \in Nat
    BY <2>1, AudioIs
  <2> QED
    BY <2>2, LesserIs DEF SoundsOf
<1>3. CASE SourceOf(request.command) \in {"read", "open", "place"}
  <2>1. IsAudio(In)
    BY <1>3, KindKnown
  <2>2. began[In].claims \in Nat /\ SoundsOf(In) \in Nat
    BY <1>1, <1>2, <2>1
  <2> QED
    BY <1>3, <2>2 DEF GivenFrames, GivenSounds
<1>4. CASE SourceOf(request.command) = "session"
  <2>1. began[In] \in File /\ began[In].kind = "session"
    BY <1>1, <1>4, KindKnown DEF IsSession
  <2>2. began[In].plays \in Path /\ began[In].length \in Nat
    BY <2>1, SessionIs
  <2>3. IsAudio(began[In].plays) => SoundsOf(began[In].plays) \in Nat
    BY <1>2, <2>2
  <2> QED
    BY <1>4, <2>2, <2>3 DEF GivenFrames, GivenSounds
<1>5. CASE SourceOf(request.command) \notin {"read", "open", "place", "session"}
  BY <1>1, <1>5 DEF GivenFrames, GivenSounds
<1> QED
  BY <1>3, <1>4, <1>5

\* A file that is not being written is as it was found.
LEMMA NotTouched == ASSUME CliTypes, NEW path \in Path, path # out PROVE files[path] = began[path]
<1>1. files = [began EXCEPT ![out] = files[out]]
  BY DEF CliTypes
<1>2. PICK x : x = files[out]
  OBVIOUS
<1>3. files = [began EXCEPT ![out] = x]
  BY <1>1, <1>2
<1>4. DOMAIN began = Path
  BY Given
<1>5. [began EXCEPT ![out] = x][path] = began[path]
  BY <1>4
<1> QED
  BY <1>3, <1>5

\* What can be had of the source while the file is written is what it is given, also
\* when the file it reads is the one it has truncated.
LEMMA SupplyIs ==
  ASSUME NEW k, NEW r, Shape(request.command, k, r), WritingInv(k, r), job.step > r, CliTypes
  PROVE  Supply.frames = GivenFrames /\ Supply.sounds = GivenSounds
<1>1. job.source = RightSource
  BY DEF WritingInv, JobKeeps
<1>2. In \in Path /\ began \in [Path -> File]
  BY Given
<1>3. SourceOf(request.command) \in {"read", "open", "place", "session", "generate"}
  BY DEF SourceOf
<1>4. CASE SourceOf(request.command) = "read"
  <2>1. job.source = InMemory(began[In].claims, SoundsOf(In))
    BY <1>1, <1>4 DEF RightSource
  <2>2. job.source.from = "memory" /\ job.source.length = began[In].claims /\ job.source.sounds = SoundsOf(In)
    BY <2>1 DEF InMemory
  <2>3. Supply = [frames |-> job.source.length, sounds |-> job.source.sounds]
    BY <2>2 DEF Supply
  <2> QED
    BY <1>4, <2>2, <2>3 DEF GivenFrames, GivenSounds
<1>5. CASE SourceOf(request.command) = "generate"
  <2>1. job.source = InMemory(kBlock, kBlock)
    BY <1>1, <1>5 DEF RightSource
  <2>2. job.source.from = "memory" /\ job.source.length = kBlock /\ job.source.sounds = kBlock
    BY <2>1 DEF InMemory
  <2>3. Supply = [frames |-> job.source.length, sounds |-> job.source.sounds]
    BY <2>2 DEF Supply
  <2> QED
    BY <1>5, <2>2, <2>3 DEF GivenFrames, GivenSounds
<1>6. CASE SourceOf(request.command) = "open"
  <2>1. job.source = OnDisk("file", In, began[In].claims)
    BY <1>1, <1>6 DEF RightSource
  <2>2. job.source.from = "file" /\ job.source.path = In
    BY <2>1 DEF OnDisk
  <2>3. PICK left : left = IF In = out THEN 0 ELSE SoundsOf(In)
    OBVIOUS
  <2>4. In # out => Holds(In) = SoundsOf(In)
    BY <1>2, NotTouched DEF Holds, SoundsOf
  <2>5. Supply = [frames |-> left, sounds |-> left]
    BY <2>2, <2>3, <2>4 DEF Supply
  <2> QED
    BY <1>6, <2>3, <2>5 DEF GivenFrames, GivenSounds
<1>7. CASE SourceOf(request.command) = "session"
  <2>0. PICK plays : plays = began[In].plays
    OBVIOUS
  <2>1. job.source = OnDisk(IF IsAudio(plays) THEN "document" ELSE "silence", plays, began[In].length)
    BY <1>1, <1>7, <2>0 DEF RightSource
  <2>2. job.source.from = (IF IsAudio(plays) THEN "document" ELSE "silence") /\ job.source.path = plays /\ job.source.length = began[In].length
    BY <2>1 DEF OnDisk
  <2>3. PICK left : left = IF IsAudio(plays) /\ plays # out THEN SoundsOf(plays) ELSE 0
    OBVIOUS
  <2>4. plays \in Path
    BY <1>2, <1>7, <2>0, KindKnown, SessionIs DEF IsSession
  <2>5. plays # out => Holds(plays) = SoundsOf(plays)
    BY <2>4, NotTouched DEF Holds, SoundsOf
  <2>6. Supply = [frames |-> job.source.length, sounds |-> left]
    <3>1. CASE IsAudio(plays)
      BY <3>1, <2>2, <2>3, <2>5 DEF Supply
    <3>2. CASE ~IsAudio(plays)
      BY <3>2, <2>2, <2>3, <2>5 DEF Supply
    <3> QED
      BY <3>1, <3>2
  <2> QED
    BY <1>7, <2>0, <2>2, <2>3, <2>6 DEF GivenFrames, GivenSounds
<1>8. CASE SourceOf(request.command) = "place"
  <2>1. job.source = OnDisk("document", In, began[In].claims)
    BY <1>1, <1>8 DEF RightSource
  <2>2. job.source.from = "document" /\ job.source.path = In /\ job.source.length = began[In].claims
    BY <2>1 DEF OnDisk
  <2>3. PICK left : left = IF In = out THEN 0 ELSE SoundsOf(In)
    OBVIOUS
  <2>4. In # out => Holds(In) = SoundsOf(In)
    BY <1>2, NotTouched DEF Holds, SoundsOf
  <2>5. Supply = [frames |-> job.source.length, sounds |-> left]
    BY <2>2, <2>3, <2>4 DEF Supply
  <2> QED
    BY <1>8, <2>2, <2>3, <2>5 DEF GivenFrames, GivenSounds
<1> QED
  BY <1>3, <1>4, <1>5, <1>6, <1>7, <1>8

\* A file as it is written, and what a block more and a finished header make of it.
Recorded(claims, frames, sounds, rate, form, dithered) ==
  [kind |-> "audio", readable |-> TRUE, claims |-> claims, holds |-> frames, sounds |-> sounds,
   channels |-> 2, rate |-> rate, format |-> form, dithered |-> dithered]
MoreOf(file, claims, frames, sounds) == [file EXCEPT !.holds = frames, !.claims = claims, !.sounds = sounds]

\* A block more, a header that says what there is, and the file this proof speaks of.
LEMMA RecordedMore ==
  ASSUME NEW a, NEW n, NEW sounds, NEW rate, NEW form, NEW dithered, NEW claims, NEW frames, NEW s1
  PROVE  MoreOf(Recorded(a, n, sounds, rate, form, dithered), claims, frames, s1)
         = Recorded(claims, frames, s1, rate, form, dithered)
<1>1. PICK old : old = Recorded(a, n, sounds, rate, form, dithered)
  OBVIOUS
<1>2. old = [kind |-> "audio", readable |-> TRUE, claims |-> a, holds |-> n, sounds |-> sounds,
             channels |-> 2, rate |-> rate, format |-> form, dithered |-> dithered]
  BY <1>1 DEF Recorded
<1>4. PICK x : x = [old EXCEPT !.holds = frames]
  OBVIOUS
<1>5. x = [kind |-> "audio", readable |-> TRUE, claims |-> a, holds |-> frames, sounds |-> sounds,
             channels |-> 2, rate |-> rate, format |-> form, dithered |-> dithered]
  BY <1>2, <1>4
<1>6. PICK y : y = [x EXCEPT !.claims = claims]
  OBVIOUS
<1>7. y = [kind |-> "audio", readable |-> TRUE, claims |-> claims, holds |-> frames, sounds |-> sounds,
             channels |-> 2, rate |-> rate, format |-> form, dithered |-> dithered]
  BY <1>5, <1>6
<1>11. PICK z : z = [y EXCEPT !.sounds = s1]
  OBVIOUS
<1>12. z = [kind |-> "audio", readable |-> TRUE, claims |-> claims, holds |-> frames, sounds |-> s1,
             channels |-> 2, rate |-> rate, format |-> form, dithered |-> dithered]
  BY <1>7, <1>11
<1>8. [y EXCEPT !.sounds = s1] = Recorded(claims, frames, s1, rate, form, dithered)
  BY <1>11, <1>12 DEF Recorded
<1>9. [old EXCEPT !.holds = frames, !.claims = claims, !.sounds = s1] = [[[old EXCEPT !.holds = frames] EXCEPT !.claims = claims] EXCEPT !.sounds = s1]
  OBVIOUS
<1>10. MoreOf(old, claims, frames, s1) = Recorded(claims, frames, s1, rate, form, dithered)
  BY <1>4, <1>6, <1>8, <1>9 DEF MoreOf
<1> QED
  BY <1>1, <1>10

LEMMA RecordedWhole ==
  ASSUME NEW a, NEW n, NEW sounds, NEW rate, NEW form, NEW dithered
  PROVE  /\ Recorded(a, n, sounds, rate, form, dithered).holds = n
         /\ [Recorded(a, n, sounds, rate, form, dithered) EXCEPT !.claims = n] = Recorded(n, n, sounds, rate, form, dithered)
<1>1. PICK old : old = Recorded(a, n, sounds, rate, form, dithered)
  OBVIOUS
<1>2. old = [kind |-> "audio", readable |-> TRUE, claims |-> a, holds |-> n, sounds |-> sounds,
             channels |-> 2, rate |-> rate, format |-> form, dithered |-> dithered]
  BY <1>1 DEF Recorded
<1>3. PICK new : new = [old EXCEPT !.claims = n]
  OBVIOUS
<1>4. new = [kind |-> "audio", readable |-> TRUE, claims |-> n, holds |-> n, sounds |-> sounds,
             channels |-> 2, rate |-> rate, format |-> form, dithered |-> dithered]
  BY <1>2, <1>3
<1> QED
  BY <1>1, <1>2, <1>3, <1>4 DEF Recorded

LEMMA WrittenIs ==
  ASSUME NEW claims, NEW frames
  PROVE  WrittenFile(claims, frames) = Recorded(claims, frames, Lesser(frames, GivenSounds), request.rate,
                                                Stored(out, WantedFormat).format, Stored(out, WantedFormat).dithered)
BY DEF WrittenFile, Recorded
-------------------------------------------------------------------------------
(* The steps that write.                                                       *)

\* A command that writes, still running.
Ready(k, r) == Shape(request.command, k, r) /\ CliTypes /\ WritingInv(k, r) /\ exitCode = "running"

\* What is known of it, and of the step it is at.
LEMMA ReadyIs ==
  ASSUME NEW k, NEW r, Ready(k, r)
  PROVE  /\ WritesAt(Steps, k) /\ SourceAt(Steps, k, r) /\ Steps[r] = SourceOf(request.command)
         /\ k \in Nat /\ k >= 4 /\ Len(Steps) = k + 3 /\ r \in 2..k - 2
         /\ CliTypes /\ JobType /\ WritingInv(k, r) /\ JobKeeps(k, r) /\ FileKeeps(k)
         /\ job.step \in 1..k + 4 /\ job.copied \in Nat
<1>1. WritesAt(Steps, k) /\ SourceAt(Steps, k, r) /\ Steps[r] = SourceOf(request.command)
  BY DEF Ready, Shape, Steps
<1>2. k \in Nat /\ k >= 4 /\ Len(Steps) = k + 3 /\ r \in 2..k - 2
  BY <1>1 DEF WritesAt, SourceAt
<1>3. CliTypes /\ JobType /\ WritingInv(k, r) /\ JobKeeps(k, r) /\ FileKeeps(k)
  BY DEF Ready, CliTypes, WritingInv
<1>4. job.step \in 1..k + 4 /\ job.copied \in Nat
  BY <1>3 DEF JobKeeps
<1> QED
  BY <1>1, <1>2, <1>3, <1>4

LEMMA AtStep ==
  ASSUME NEW k, NEW r, Ready(k, r), NEW step, at(step)
  PROVE  job.step \in 1..Len(Steps) /\ Steps[job.step] = step /\ Finds(k, r)
<1>1. job.step \in 1..k + 4 /\ k \in Nat /\ Len(Steps) = k + 3 /\ job.step <= Len(Steps) /\ Steps[job.step] = step
  BY ReadyIs DEF at
<1>2. job.step \in 1..Len(Steps)
  BY <1>1
<1> QED
  BY <1>1, <1>2, ReadyIs DEF Finds, Here, Ready

\* A file that has just been truncated.
LEMMA BeginsEmpty ==
  ASSUME NEW k, NEW r, Ready(k, r), Shape(request.command, k, r), job.step > r, job.file = 1
  PROVE  Begun = WrittenFile(Claims(0), 0) /\ Begun.claims = 0
<1>1. GivenSounds \in Nat
  BY ReadyIs, GivenIs
<1>2. Lesser(0, GivenSounds) = 0
  BY <1>1, LesserIs
<1>3. Claims(0) = 0
  BY DEF Claims
<1>4. Wanted = WantedFormat
  BY DEF Wanted, WantedFormat, input, In
<1>5. PICK form, dithered : form = Stored(out, Wanted).format /\ dithered = Stored(out, Wanted).dithered
  OBVIOUS
<1>6. Begun = [kind |-> "audio", readable |-> TRUE, claims |-> 0, holds |-> 0, sounds |-> 0, channels |-> 2,
               rate |-> request.rate, format |-> form, dithered |-> dithered]
  BY <1>5 DEF Begun
<1>7. WrittenFile(Claims(0), 0)
        = [kind |-> "audio", readable |-> TRUE, claims |-> 0, holds |-> 0, sounds |-> 0, channels |-> 2,
           rate |-> request.rate, format |-> form, dithered |-> dithered]
  BY <1>2, <1>3, <1>4, <1>5 DEF WrittenFile
<1> QED
  BY <1>6, <1>7

\* The step that creates the file: it fails, it truncates the file and fails, or there
\* is an empty file.
LEMMA CreateKeeps ==
  ASSUME NEW k, NEW r, Ready(k, r), create
  PROVE  WritingInv(k, r)'
<1>0. /\ WritesAt(Steps, k) /\ SourceAt(Steps, k, r) /\ Steps[r] = SourceOf(request.command)
      /\ k \in Nat /\ k >= 4 /\ Len(Steps) = k + 3 /\ r \in 2..k - 2
      /\ CliTypes /\ JobType /\ WritingInv(k, r) /\ JobKeeps(k, r) /\ FileKeeps(k)
      /\ job.step \in 1..k + 4 /\ job.copied \in Nat /\ exitCode = "running" /\ Shape(request.command, k, r)
  BY ReadyIs DEF Ready
<1>1. job.step \in 1..Len(Steps) /\ Steps[job.step] = "create" /\ Finds(k, r) /\ Here(k)
  BY AtStep DEF create, Finds
<1>2. job.step = k
  <2>1. StandsFor(Steps, k, job.step)
    BY <1>0, <1>1, WritingSteps
  <2> QED
    BY <1>1, <2>1 DEF StandsFor
<1>3. files = began /\ job.copied = 0 /\ job.file = 1
  BY <1>0, <1>2 DEF FileKeeps, JobKeeps
<1>4. UNCHANGED <<request, began, printed>>
  BY DEF create
<1>5. k \in 1..k + 2 /\ k > r /\ ~(k + 1 <= k) /\ k + 1 > k /\ k + 1 <= k + 2 /\ ~(k + 1 > k + 1)
  BY <1>0
<1>6. CASE fail /\ UNCHANGED files
  <2>1. exitCode' = "failure" /\ job' = job
    BY <1>0, <1>6, FailsAtOnce
  <2> QED
    BY <1>0, <1>2, <1>4, <1>5, <1>6, <2>1, FailureKeeps
<1>7. CASE /\ files' = [files EXCEPT ![out] = Begun]
           /\ goOnIf(request.rate # "invalid" \/ request.command # "convert")
  <2>1. Begun = WrittenFile(Claims(0), 0) /\ Begun.claims = 0
    BY <1>0, <1>2, <1>3, <1>5, BeginsEmpty
  <2>2. out \in DOMAIN files
    BY <1>0, Given
  <2>3. PICK begun : begun = Begun
    OBVIOUS
  <2>4. files'[out] = begun
    BY <1>7, <2>2, <2>3
  <2>5. /\ out' = out
        /\ \A n : Claims(n)' = Claims(n)
        /\ \A a, n : WrittenFile(a, n)' = WrittenFile(a, n)
    BY <1>4, Rigid
  <2>6. CASE request.rate # "invalid" \/ request.command # "convert"
    <3>1. job' = [job EXCEPT !.step = job.step + 1, !.source = job.source] /\ exitCode' = exitCode
      BY <1>0, <1>7, <2>6, Same DEF goOnIf, goOn
    <3>2. MayPass(Steps[job.step], job.source)
      BY <1>1, Asks DEF Sources
    <3>3. JobKeeps(k, r)'
      BY <1>0, <1>1, <1>4, <3>1, <3>2, JobPasses
    <3>4. job'.step = k + 1 /\ job'.copied = 0
      BY <1>0, <1>2, <1>3, <3>1, JobFields
    <3>5. FileKeeps(k)'
      BY <1>5, <2>1, <2>3, <2>4, <2>5, <3>4 DEF FileKeeps
    <3> QED
      BY <3>3, <3>5 DEF WritingInv
  <2>7. CASE ~(request.rate # "invalid" \/ request.command # "convert")
    <3>1. fail
      BY <1>7, <2>7 DEF goOnIf
    <3>2. exitCode' = "failure" /\ job' = job
      BY <1>0, <3>1, FailsAtOnce
    <3>3. JobKeeps(k, r)'
      BY <1>0, <1>2, <1>4, <1>5, <3>2, JobFails
    <3>4. files'[out'].claims = 0
      BY <2>1, <2>3, <2>4, <2>5
    <3>6. ~(k > k)
      BY <1>0
    <3>7. ~(k > k + 1)
      BY <1>0
    <3>5. FileKeeps(k)'
      BY <1>2, <3>2, <3>4, <3>6, <3>7 DEF FileKeeps
    <3> QED
      BY <3>3, <3>5 DEF WritingInv
  <2> QED
    BY <2>6, <2>7
<1> QED
  BY <1>6, <1>7 DEF create

\* The frames written when another block has been copied.
Lengthened == job.copied + Lesser(kBlock, Supply.frames - job.copied)

\* While a block is copied the command stays where it is.
LEMMA JobCopies ==
  ASSUME NEW k, NEW r, Ready(k, r), job.step = k + 1, NEW written \in Nat,
         UNCHANGED <<request, began, exitCode>>, job' = [job EXCEPT !.copied = written]
  PROVE  JobKeeps(k, r)' /\ job'.step = k + 1 /\ job'.copied = written
<1>0. k \in Nat /\ JobType /\ JobKeeps(k, r) /\ exitCode = "running"
  BY ReadyIs DEF Ready
<1>1. job'.step = job.step /\ job'.source = job.source /\ job'.file = job.file /\ job'.failures = job.failures /\ job'.copied = written
  BY <1>0 DEF JobType
<1>2. /\ Steps' = Steps /\ In' = In
      /\ RightSource' = RightSource
      /\ IsAudio(In)' <=> IsAudio(In)
      /\ IsSession' <=> IsSession
  BY Rigid
<1>3. \A step : Passed(step)' <=> Passed(step)
  BY <1>1, <1>2, PassedNoMore
<1>4. RequestKeeps' /\ InputKeeps'
  BY <1>0, <1>2, <1>3 DEF RequestKeeps, InputKeeps, JobKeeps
<1>5. job'.step > r => job'.source = RightSource'
  BY <1>0, <1>1, <1>2 DEF JobKeeps
<1>6. exitCode' # "success" /\ ~Failed'
  BY <1>0 DEF Failed
<1>7. ~(job'.step <= k)
  BY <1>0, <1>1
<1> QED
  BY <1>0, <1>1, <1>4, <1>5, <1>6, <1>7 DEF JobKeeps

\* The step that copies: it fails, it is done, or there is a block more.
LEMMA CopyKeeps ==
  ASSUME NEW k, NEW r, Ready(k, r), copy
  PROVE  WritingInv(k, r)'
<1>0. /\ WritesAt(Steps, k) /\ SourceAt(Steps, k, r) /\ Steps[r] = SourceOf(request.command)
      /\ k \in Nat /\ k >= 4 /\ Len(Steps) = k + 3 /\ r \in 2..k - 2
      /\ CliTypes /\ JobType /\ WritingInv(k, r) /\ JobKeeps(k, r) /\ FileKeeps(k)
      /\ job.step \in 1..k + 4 /\ job.copied \in Nat /\ exitCode = "running" /\ Shape(request.command, k, r)
  BY ReadyIs DEF Ready
<1>1. job.step \in 1..Len(Steps) /\ Steps[job.step] = "copy" /\ Finds(k, r) /\ Here(k)
  BY AtStep DEF copy, Finds
<1>2. job.step = k + 1
  <2>1. StandsFor(Steps, k, job.step)
    BY <1>0, <1>1, WritingSteps
  <2> QED
    BY <1>1, <2>1 DEF StandsFor
<1>4. UNCHANGED <<request, began, printed>>
  BY DEF copy
<1>5. k + 1 \in 1..k + 2 /\ k + 1 > r /\ ~(k + 1 <= k) /\ k + 1 > k /\ k + 1 <= k + 2 /\ ~(k + 1 > k + 1) /\ k + 1 # k /\ k + 1 # k + 2
  BY <1>0
<1>3. files[out] = WrittenFile(Claims(job.copied), job.copied)
  BY <1>0, <1>2, <1>5 DEF FileKeeps
<1>6. Supply.frames = GivenFrames /\ Supply.sounds = GivenSounds /\ GivenFrames \in Nat /\ GivenSounds \in Nat
  BY <1>0, <1>2, <1>5, SupplyIs, GivenIs
<1>7. CASE fail /\ UNCHANGED files
  <2>1. exitCode' = "failure" /\ job' = job
    BY <1>0, <1>7, FailsAtOnce
  <2> QED
    BY <1>0, <1>2, <1>4, <1>5, <1>7, <2>1, FailureKeeps
<1>8. CASE job.copied = Supply.frames /\ goOn /\ UNCHANGED files
  <2>1. job' = [job EXCEPT !.step = job.step + 1, !.source = job.source] /\ exitCode' = exitCode
    BY <1>0, <1>8, Same DEF goOn
  <2>2. "copy" \notin Sources /\ SourceOf(request.command) # "copy"
    BY SourceIs DEF Sources
  <2>3. job.copied = GivenFrames
    BY <1>6, <1>8
  <2>4. MayPass(Steps[job.step], job.source)
    BY <1>1, <2>2, <2>3 DEF MayPass
  <2> QED
    BY <1>0, <1>1, <1>2, <1>4, <1>5, <1>8, <2>1, <2>4, PassKeeps
<1>9. CASE \E written \in {Lengthened} :
             /\ files' = [files EXCEPT ![out] = [@ EXCEPT !.holds = written, !.claims = Claims(written),
                                                          !.sounds = Lesser(written, Supply.sounds)]]
             /\ job' = [job EXCEPT !.copied = written]
             /\ UNCHANGED exitCode
  <2>1. PICK written : /\ written = Lengthened
                       /\ files' = [files EXCEPT ![out] = [@ EXCEPT !.holds = written, !.claims = Claims(written),
                                                                    !.sounds = Lesser(written, Supply.sounds)]]
                       /\ job' = [job EXCEPT !.copied = written]
                       /\ UNCHANGED exitCode
    BY <1>9
  <2>2. written \in Nat
    <3>1. kBlock \in Nat
      BY BlockAssumption
    <3>2. PICK copied, frames : copied = job.copied /\ frames = Supply.frames
      OBVIOUS
    <3>3. copied \in Nat /\ frames \in Nat
      BY <1>0, <1>6, <3>2
    <3>4. written = copied + (IF kBlock < frames - copied THEN kBlock ELSE frames - copied)
      BY <2>1, <3>2 DEF Lengthened, Lesser
    <3> QED
      BY <3>1, <3>3, <3>4
  <2>3. out \in DOMAIN files
    BY <1>0, Given
  <2>4. files'[out] = WrittenFile(Claims(written), written)
    <3>1. PICK old, claims, sounds : old = files[out] /\ claims = Claims(written) /\ sounds = Lesser(written, GivenSounds)
      OBVIOUS
    <3>2. files' = [files EXCEPT ![out] = [@ EXCEPT !.holds = written, !.claims = claims, !.sounds = sounds]]
      BY <1>6, <2>1, <3>1
    <3>3. files'[out] = [old EXCEPT !.holds = written, !.claims = claims, !.sounds = sounds]
      BY <2>3, <3>1, <3>2
    <3>5. PICK a, n, before, rate, form, dithered :
            a = Claims(job.copied) /\ n = job.copied /\ before = Lesser(n, GivenSounds) /\ rate = request.rate
            /\ form = Stored(out, WantedFormat).format /\ dithered = Stored(out, WantedFormat).dithered
      OBVIOUS
    <3>6. old = Recorded(a, n, before, rate, form, dithered)
      BY <1>3, <3>1, <3>5, WrittenIs
    <3>7. WrittenFile(claims, written) = Recorded(claims, written, sounds, rate, form, dithered)
      BY <3>1, <3>5, WrittenIs
    <3>8. files'[out] = MoreOf(old, claims, written, sounds)
      BY <3>3 DEF MoreOf
    <3>9. files'[out] = WrittenFile(claims, written)
      BY <3>6, <3>7, <3>8, RecordedMore
    <3> QED
      BY <3>1, <3>9
  <2>5. /\ out' = out
        /\ \A n : Claims(n)' = Claims(n)
        /\ \A a, n : WrittenFile(a, n)' = WrittenFile(a, n)
    BY <1>4, Rigid
  <2>6. JobKeeps(k, r)' /\ job'.step = k + 1 /\ job'.copied = written
    BY <1>2, <1>4, <2>1, <2>2, JobCopies
  <2>7. FileKeeps(k)'
    BY <1>5, <2>4, <2>5, <2>6 DEF FileKeeps
  <2> QED
    BY <2>6, <2>7 DEF WritingInv
<1> QED
  BY <1>7, <1>8, <1>9 DEF copy, Lengthened

\* The step that finishes: it fails, or the header says what there is.
LEMMA FinishKeeps ==
  ASSUME NEW k, NEW r, Ready(k, r), finish
  PROVE  WritingInv(k, r)'
<1>0. /\ WritesAt(Steps, k) /\ SourceAt(Steps, k, r) /\ Steps[r] = SourceOf(request.command)
      /\ k \in Nat /\ k >= 4 /\ Len(Steps) = k + 3 /\ r \in 2..k - 2
      /\ CliTypes /\ JobType /\ WritingInv(k, r) /\ JobKeeps(k, r) /\ FileKeeps(k)
      /\ job.step \in 1..k + 4 /\ job.copied \in Nat /\ exitCode = "running" /\ Shape(request.command, k, r)
  BY ReadyIs DEF Ready
<1>1. job.step \in 1..Len(Steps) /\ Steps[job.step] = "finish" /\ Finds(k, r) /\ Here(k)
  BY AtStep DEF finish, Finds
<1>2. job.step = k + 2
  <2>1. StandsFor(Steps, k, job.step)
    BY <1>0, <1>1, WritingSteps
  <2> QED
    BY <1>1, <2>1 DEF StandsFor
<1>4. UNCHANGED <<request, began, printed>>
  BY DEF finish
<1>5. k + 2 \in 1..k + 2 /\ k + 2 > k /\ k + 2 > k + 1 /\ k + 2 <= k + 2 /\ ~(k + 3 <= k) /\ k + 3 > k /\ k + 3 > k + 1 /\ ~(k + 3 <= k + 2)
  BY <1>0
<1>3. files[out] = WrittenFile(Claims(job.copied), job.copied) /\ job.copied = GivenFrames
  BY <1>0, <1>2, <1>5 DEF FileKeeps
<1>7. CASE fail /\ UNCHANGED files
  <2>1. exitCode' = "failure" /\ job' = job
    BY <1>0, <1>7, FailsAtOnce
  <2> QED
    BY <1>0, <1>2, <1>4, <1>5, <1>7, <2>1, FailureKeeps
<1>8. CASE files' = [files EXCEPT ![out].claims = files[out].holds] /\ goOn
  <2>1. job' = [job EXCEPT !.step = job.step + 1, !.source = job.source] /\ exitCode' = exitCode
    BY <1>0, <1>8, Same DEF goOn
  <2>2. MayPass(Steps[job.step], job.source)
    BY <1>1, Asks DEF Sources
  <2>3. JobKeeps(k, r)'
    BY <1>0, <1>1, <1>4, <2>1, <2>2, JobPasses
  <2>4. job'.step = k + 2 + 1 /\ job'.copied = job.copied
    BY <1>0, <1>2, <2>1, JobFields
  <2>5. job'.step = k + 3
    BY <1>0, <2>4
  <2>6. files'[out] = WrittenFile(job.copied, job.copied)
    <3>1. PICK old, n : old = files[out] /\ n = job.copied
      OBVIOUS
    <3>2. PICK a, sounds, rate, form, dithered :
            a = Claims(n) /\ sounds = Lesser(n, GivenSounds) /\ rate = request.rate /\ form = Stored(out, WantedFormat).format
            /\ dithered = Stored(out, WantedFormat).dithered
      OBVIOUS
    <3>3. old = Recorded(a, n, sounds, rate, form, dithered)
      BY <1>3, <3>1, <3>2, WrittenIs
    <3>4. WrittenFile(n, n) = Recorded(n, n, sounds, rate, form, dithered)
      BY <3>2, WrittenIs
    <3>5. old.holds = n
      BY <3>3, RecordedWhole
    <3>6. files' = [files EXCEPT ![out].claims = n]
      BY <1>8, <3>1, <3>5
    <3>7. out \in DOMAIN files
      BY <1>0, Given
    <3>8. files'[out] = [old EXCEPT !.claims = n]
      BY <3>1, <3>6, <3>7
    <3> QED
      BY <3>1, <3>3, <3>4, <3>8, RecordedWhole
  <2>7. /\ out' = out /\ GivenFrames' = GivenFrames
        /\ \A a, n : WrittenFile(a, n)' = WrittenFile(a, n)
    BY <1>4, Rigid
  <2>8. FileKeeps(k)'
    BY <1>3, <1>5, <2>4, <2>5, <2>6, <2>7 DEF FileKeeps
  <2> QED
    BY <2>3, <2>8 DEF WritingInv
<1> QED
  BY <1>7, <1>8 DEF finish

\* A command that is through has succeeded.
LEMMA LeaveKeeps ==
  ASSUME NEW k, NEW r, Ready(k, r), leave
  PROVE  WritingInv(k, r)'
<1>0. /\ k \in Nat /\ k >= 4 /\ Len(Steps) = k + 3
      /\ JobKeeps(k, r) /\ FileKeeps(k) /\ job.step \in 1..k + 4
  BY ReadyIs
<1>1. job.step > Len(Steps) /\ UNCHANGED <<files, began, request, job>> /\ exitCode' = IF job.failures = 0 THEN "success" ELSE "failure"
  BY DEF leave
<1>2. job.step = k + 4 /\ ~(k + 4 <= k)
  BY <1>0, <1>1
<1>3. exitCode' = "success"
  BY <1>0, <1>1 DEF JobKeeps
<1>4. /\ Steps' = Steps /\ In' = In /\ out' = out
      /\ GivenFrames' = GivenFrames
      /\ RightSource' = RightSource
      /\ IsAudio(In)' <=> IsAudio(In)
      /\ IsSession' <=> IsSession
      /\ \A n : Claims(n)' = Claims(n)
      /\ \A a, n : WrittenFile(a, n)' = WrittenFile(a, n)
  BY <1>1, Rigid
<1>5. \A step : Passed(step)' <=> Passed(step)
  BY <1>1, <1>4, PassedNoMore
<1>6. RequestKeeps' /\ InputKeeps'
  BY <1>0, <1>1, <1>4, <1>5 DEF RequestKeeps, InputKeeps, JobKeeps
<1>7. ~Failed'
  BY <1>3 DEF Failed
<1>8. JobKeeps(k, r)'
  BY <1>0, <1>1, <1>2, <1>4, <1>6, <1>7 DEF JobKeeps
<1>9. FileKeeps(k)'
  BY <1>0, <1>1, <1>2, <1>4 DEF FileKeeps
<1> QED
  BY <1>8, <1>9 DEF WritingInv
-------------------------------------------------------------------------------
(* Every action.                                                               *)

\* How a command moves: by the steps that write nothing, and by those that write.
NextFile == /\ job' = IF job.file < Len(request.inputs)
                      THEN [job EXCEPT !.file = @ + 1, !.step = firstStep]
                      ELSE [job EXCEPT !.step = @ + 1]
            /\ UNCHANGED exitCode
Moves == \/ goOn \/ fail \/ \E source : goOnWith(source)
         \/ exitCode' = "aborted" /\ job' = job
         \/ Steps[job.step] = "next file" /\ NextFile
Plain == Moves /\ UNCHANGED <<files, began, request>> /\ exitCode = "running" /\ job.step <= Len(Steps)
Rewrites == \E x : files' = [files EXCEPT ![out] = x]
WritingMove ==
  /\ goOn \/ fail \/ \E n : job' = [job EXCEPT !.copied = n] /\ UNCHANGED exitCode
  /\ UNCHANGED files \/ Rewrites
  /\ UNCHANGED <<began, request>> /\ exitCode = "running" /\ job.step <= Len(Steps)
  /\ Steps[job.step] \in {"create", "copy", "finish"}

\* Every action of the tool but leaving moves it so.
LEMMA PlainSteps ==
  ASSUME checkRequest \/ openInput \/ readInput \/ report
  PROVE  Plain
<1>1. CASE checkRequest
  BY <1>1 DEF checkRequest, Plain, Moves, at, goOnIf
<1>2. CASE openInput
  BY <1>2 DEF openInput, Plain, Moves, at, goOnIf
<1>3. CASE readInput
  BY <1>3 DEF readInput, Plain, Moves, at, goOnIf
<1>4. CASE report
  BY <1>4 DEF report, Plain, Moves, at, NextFile
<1> QED
  BY <1>1, <1>2, <1>3, <1>4

LEMMA WritingMoves ==
  ASSUME create \/ copy \/ finish, JobType
  PROVE  WritingMove
<1>1. CASE create
  <2>1. UNCHANGED <<began, request>> /\ exitCode = "running" /\ job.step <= Len(Steps) /\ Steps[job.step] = "create"
    BY <1>1 DEF create, at
  <2>2. UNCHANGED files \/ Rewrites
    BY <1>1 DEF create, Rewrites
  <2>3. goOn \/ fail
    BY <1>1 DEF create, goOnIf
  <2> QED
    BY <2>1, <2>2, <2>3 DEF WritingMove
<1>2. CASE copy
  <2>1. UNCHANGED <<began, request>> /\ exitCode = "running" /\ job.step <= Len(Steps) /\ Steps[job.step] = "copy"
    BY <1>2 DEF copy, at
  <2>2. \/ goOn /\ UNCHANGED files
        \/ fail /\ UNCHANGED files
        \/ \E written \in {Lengthened} :
             /\ files' = [files EXCEPT ![out] = [@ EXCEPT !.holds = written, !.claims = Claims(written),
                                                          !.sounds = Lesser(written, Supply.sounds)]]
             /\ job' = [job EXCEPT !.copied = written]
             /\ UNCHANGED exitCode
    BY <1>2 DEF copy, Lengthened
  <2>3. ASSUME NEW written,
               files' = [files EXCEPT ![out] = [@ EXCEPT !.holds = written, !.claims = Claims(written),
                                                         !.sounds = Lesser(written, Supply.sounds)]]
        PROVE  Rewrites
    <3>1. PICK x : x = [files[out] EXCEPT !.holds = written, !.claims = Claims(written), !.sounds = Lesser(written, Supply.sounds)]
      OBVIOUS
    <3>2. files' = [files EXCEPT ![out] = x]
      BY <2>3, <3>1
    <3> QED
      BY <3>2 DEF Rewrites
  <2> QED
    BY <2>1, <2>2, <2>3 DEF WritingMove
<1>3. CASE finish
  <2>1. UNCHANGED <<began, request>> /\ exitCode = "running" /\ job.step <= Len(Steps) /\ Steps[job.step] = "finish"
    BY <1>3 DEF finish, at
  <2>2. UNCHANGED files \/ Rewrites
    <3>1. PICK n : n = files[out].holds
      OBVIOUS
    <3>2. UNCHANGED files \/ files' = [files EXCEPT ![out].claims = n]
      BY <1>3, <3>1 DEF finish
    <3>3. PICK x : x = [files[out] EXCEPT !.claims = n]
      OBVIOUS
    <3>4. [files EXCEPT ![out].claims = n] = [files EXCEPT ![out] = x]
      BY <3>3
    <3> QED
      BY <3>2, <3>4 DEF Rewrites
  <2>3. goOn \/ fail
    BY <1>3 DEF finish
  <2> QED
    BY <2>1, <2>2, <2>3 DEF WritingMove
<1> QED
  BY <1>1, <1>2, <1>3

\* A job that moves is a job.
LEMMA JobTyped ==
  ASSUME JobType, Moves \/ (\E n : job' = [job EXCEPT !.copied = n])
  PROVE  JobType'
<1>1. PICK a, f, u, p, q : job = [step |-> a, file |-> f, failures |-> u, copied |-> p, source |-> q]
  BY DEF JobType
<1>2. ASSUME NEW b, NEW g, NEW v, NEW n, NEW s, job' = [step |-> b, file |-> g, failures |-> v, copied |-> n, source |-> s]
      PROVE  JobType'
  BY <1>2 DEF JobType
<1>3. CASE goOn
  <2>1. job' = [step |-> a + 1, file |-> f, failures |-> u, copied |-> p, source |-> q]
    BY <1>1, <1>3 DEF goOn
  <2> QED
    BY <1>2, <2>1
<1>4. CASE fail
  <2>1. job' = job \/ job' = [job EXCEPT !.step = Len(Steps), !.failures = @ + 1]
    BY <1>4 DEF fail
  <2>2. PICK b : b = Len(Steps)
    OBVIOUS
  <2>3. PICK x : x = [job EXCEPT !.step = b]
    OBVIOUS
  <2>4. x = [step |-> b, file |-> f, failures |-> u, copied |-> p, source |-> q]
    BY <1>1, <2>3
  <2>5. [x EXCEPT !.failures = @ + 1] = [step |-> b, file |-> f, failures |-> u + 1, copied |-> p, source |-> q]
    BY <2>4
  <2>6. [job EXCEPT !.step = b, !.failures = @ + 1] = [[job EXCEPT !.step = b] EXCEPT !.failures = @ + 1]
    OBVIOUS
  <2>7. job' = job \/ job' = [step |-> b, file |-> f, failures |-> u + 1, copied |-> p, source |-> q]
    BY <2>1, <2>2, <2>3, <2>5, <2>6
  <2> QED
    BY <1>1, <1>2, <2>7
<1>5. CASE \E source : goOnWith(source)
  <2>1. PICK source : goOnWith(source)
    BY <1>5
  <2>2. PICK b : b = job.step + 1
    OBVIOUS
  <2>3. job' = [job EXCEPT !.step = b, !.source = source]
    BY <2>1, <2>2 DEF goOnWith
  <2>4. job'.step = b /\ job' = [step |-> job'.step, file |-> job'.file, failures |-> job'.failures, copied |-> job'.copied,
                                source |-> job'.source]
    BY <2>3, JobFields
  <2> QED
    BY <2>4 DEF JobType
<1>6. CASE job' = job
  BY <1>1, <1>2, <1>6
<1>7. CASE NextFile
  <2>2. PICK b : b = firstStep
    OBVIOUS
  <2>1. job' = [job EXCEPT !.file = @ + 1, !.step = b] \/ job' = [job EXCEPT !.step = @ + 1]
    BY <1>7, <2>2 DEF NextFile
  <2>3. PICK x : x = [job EXCEPT !.file = @ + 1]
    OBVIOUS
  <2>4. x = [step |-> a, file |-> f + 1, failures |-> u, copied |-> p, source |-> q]
    BY <1>1, <2>3
  <2>5. [x EXCEPT !.step = b] = [step |-> b, file |-> f + 1, failures |-> u, copied |-> p, source |-> q]
    BY <2>4
  <2>6. [job EXCEPT !.file = @ + 1, !.step = b] = [[job EXCEPT !.file = @ + 1] EXCEPT !.step = b]
    OBVIOUS
  <2>8. [job EXCEPT !.step = @ + 1] = [step |-> a + 1, file |-> f, failures |-> u, copied |-> p, source |-> q]
    BY <1>1
  <2>7. \/ job' = [step |-> b, file |-> f + 1, failures |-> u, copied |-> p, source |-> q]
        \/ job' = [step |-> a + 1, file |-> f, failures |-> u, copied |-> p, source |-> q]
    BY <2>1, <2>3, <2>5, <2>6, <2>8
  <2> QED
    BY <1>2, <2>7
<1>8. CASE \E n : job' = [job EXCEPT !.copied = n]
  <2>1. PICK n : job' = [job EXCEPT !.copied = n]
    BY <1>8
  <2>2. job' = [step |-> a, file |-> f, failures |-> u, copied |-> n, source |-> q]
    BY <1>1, <2>1
  <2> QED
    BY <1>2, <2>2
<1> QED
  BY <1>3, <1>4, <1>5, <1>6, <1>7, <1>8 DEF Moves

\* Only the file that is to be written changes.
LEMMA TypesKeep ==
  ASSUME CliTypes, CommandLineNext
  PROVE  CliTypes'
<1>0. JobType /\ began \in Disks /\ request \in Request /\ files = [began EXCEPT ![out] = files[out]]
      /\ began \in [Path -> File] /\ DOMAIN files = Path /\ out \in Path
  BY Given DEF CliTypes
<1>1. \/ Plain \/ WritingMove \/ leave
  BY <1>0, PlainSteps, WritingMoves DEF CommandLineNext
<1>2. UNCHANGED <<began, request>>
  BY <1>1 DEF Plain, WritingMove, leave
<1>3. out' = out
  BY <1>2 DEF out
<1>4. files' = [began' EXCEPT ![out'] = files'[out']]
  <2>1. CASE UNCHANGED files
    BY <1>0, <1>2, <1>3, <2>1
  <2>2. CASE Rewrites
    <3>1. PICK x : files' = [files EXCEPT ![out] = x]
      BY <2>2 DEF Rewrites
    <3>2. PICK y : y = files[out]
      OBVIOUS
    <3>3. files = [began EXCEPT ![out] = y] /\ DOMAIN began = Path
      BY <1>0, <3>2
    <3>4. files' = [began EXCEPT ![out] = x]
      BY <1>0, <3>1, <3>3
    <3>5. files'[out] = x
      BY <1>0, <3>1
    <3> QED
      BY <1>2, <1>3, <3>4, <3>5
  <2> QED
    BY <1>1, <2>1, <2>2 DEF Plain, WritingMove, leave
<1>5. JobType'
  <2>1. CASE Plain
    BY <1>0, <2>1, JobTyped DEF Plain
  <2>2. CASE WritingMove
    <3>1. Moves \/ \E n : job' = [job EXCEPT !.copied = n]
      BY <2>2 DEF WritingMove, Moves
    <3> QED
      BY <1>0, <3>1, JobTyped
  <2>3. CASE leave
    <3>1. job' = job
      BY <2>3 DEF leave
    <3> QED
      BY <1>0, <3>1 DEF JobType
  <2> QED
    BY <1>1, <2>1, <2>2, <2>3
<1>6. exitCode' \in {"running", "success", "failure", "aborted"}
  <2>1. exitCode \in {"running", "success", "failure", "aborted"}
    BY DEF CliTypes
  <2>2. goOn \/ fail \/ (\E source : goOnWith(source)) => exitCode' \in {exitCode, "failure"}
    BY DEF goOn, fail, goOnWith
  <2>3. CASE Plain
    BY <2>1, <2>2, <2>3 DEF Plain, Moves, NextFile
  <2>4. CASE WritingMove
    BY <2>1, <2>2, <2>4 DEF WritingMove
  <2>5. CASE leave
    BY <2>5 DEF leave
  <2> QED
    BY <1>1, <2>3, <2>4, <2>5
<1> QED
  BY <1>0, <1>2, <1>4, <1>5, <1>6 DEF CliTypes

\* Every action keeps the place of a command that writes.
LEMMA StepKeeps ==
  ASSUME NEW k, NEW r, Ready(k, r), CommandLineNext
  PROVE  WritingInv(k, r)'
<1>0. /\ WritesAt(Steps, k) /\ SourceAt(Steps, k, r) /\ Steps[r] = SourceOf(request.command)
      /\ k \in Nat /\ k >= 4 /\ Len(Steps) = k + 3
      /\ CliTypes /\ JobType /\ WritingInv(k, r) /\ job.step \in 1..k + 4 /\ exitCode = "running"
  BY ReadyIs DEF Ready
<1>1. CASE checkRequest \/ openInput \/ readInput \/ report
  <2>1. job.step <= Len(Steps)
    BY <1>1, PlainSteps DEF Plain
  <2>2. job.step \in 1..Len(Steps)
    BY <1>0, <2>1
  <2>3. Finds(k, r) /\ Here(k)
    BY <1>0, <2>2 DEF Finds, Here
  <2>4. PICK source : /\ Tries(source) /\ Steps[job.step] \notin {"create", "finish"}
                      /\ UNCHANGED <<request, began, files>>
                      /\ Steps[job.step] \in {"print", "print rates"} => exitCode' = exitCode
    BY <1>1, <2>3, ChecksTry, OpensTry, ReadsTry, ReportsTry
  <2> QED
    BY <1>0, <2>2, <2>4, TriesKeep
<1>2. CASE create
  BY <1>2, CreateKeeps
<1>3. CASE copy
  BY <1>3, CopyKeeps
<1>4. CASE finish
  BY <1>4, FinishKeeps
<1>5. CASE leave
  BY <1>5, LeaveKeeps
<1> QED
  BY <1>1, <1>2, <1>3, <1>4, <1>5 DEF CommandLineNext

\* Steps that can be counted, and one that is not the first.
LEMMA SeqDomain == ASSUME NEW s \in Seq(Step) PROVE DOMAIN s = 1..Len(s)
OBVIOUS

LEMMA Later == ASSUME NEW m, NEW n \in 1..m, n # 1 PROVE ~(1 >= n)
OBVIOUS

\* Where a command that goes from file to file begins with each.
LEMMA FirstStep ==
  ASSUME Quiet(Steps), \E i \in 1..Len(Steps) : Steps[i] = "next file"
  PROVE  firstStep \in 1..Len(Steps) /\ Steps[firstStep] = "open"
<1>0. Steps \in Seq(Step)
  BY DEF Quiet
<1>1. \E i \in 1..Len(Steps) : Steps[i] = "open"
  BY DEF Quiet, GoesOn
<1>2. DOMAIN Steps = 1..Len(Steps)
  BY <1>0, SeqDomain
<1>3. \E i \in DOMAIN Steps : Steps[i] = "open"
  BY <1>1, <1>2
<1>4. firstStep \in DOMAIN Steps /\ Steps[firstStep] = "open"
  BY <1>3 DEF firstStep
<1> QED
  BY <1>2, <1>4

\* A command that writes nothing succeeds only when it is through.
LEMMA QuietMoves ==
  ASSUME Quiet(Steps), JobType, job.step \in Nat \ {0}, CommandLineNext
  PROVE  /\ UNCHANGED <<files, began, request>> /\ exitCode = "running"
         /\ job'.step \in Nat \ {0} /\ (exitCode' = "success" => job'.step > Len(Steps))
<1>0. Steps \in Seq(Step) /\ Len(Steps) \in Nat /\ Len(Steps) >= 2 /\ DOMAIN Steps = 1..Len(Steps)
  BY DEF Quiet
<1>1. ~WritingMove
  <2> SUFFICES ASSUME WritingMove PROVE FALSE
    OBVIOUS
  <2>1. job.step \in 1..Len(Steps) /\ Steps[job.step] \in {"create", "copy", "finish"}
    BY <1>0 DEF WritingMove
  <2> QED
    BY <2>1 DEF Quiet, NoWriting
<1>2. Plain \/ leave
  BY <1>1, PlainSteps, WritingMoves DEF CommandLineNext
<1>3. CASE leave
  BY <1>3 DEF leave
<1>4. CASE Plain
  <2>0. UNCHANGED <<files, began, request>> /\ exitCode = "running" /\ Moves /\ job.step \in 1..Len(Steps)
    BY <1>0, <1>4 DEF Plain
  <2>1. CASE goOn
    <3>1. job'.step = job.step + 1 /\ exitCode' = exitCode
      BY <2>1 DEF goOn, JobType
    <3> QED
      BY <2>0, <3>1
  <2>2. CASE fail
    <3>1. exitCode' \in {"running", "failure"}
      BY <2>0, <2>2 DEF fail
    <3>2. PICK a, f, u, p, q : job = [step |-> a, file |-> f, failures |-> u, copied |-> p, source |-> q]
      BY DEF JobType
    <3>3. job' = job \/ job' = [job EXCEPT !.step = Len(Steps), !.failures = @ + 1]
      BY <2>2 DEF fail
    <3>4. job'.step = job.step \/ job'.step = Len(Steps)
      BY <3>2, <3>3
    <3> QED
      BY <1>0, <2>0, <3>1, <3>4
  <2>3. CASE \E source : goOnWith(source)
    <3>1. PICK source : goOnWith(source)
      BY <2>3
    <3>2. PICK b : b = job.step + 1
      OBVIOUS
    <3>3. job' = [job EXCEPT !.step = b, !.source = source] /\ exitCode' = exitCode
      BY <3>1, <3>2 DEF goOnWith
    <3>4. job'.step = b
      BY <3>3, JobFields
    <3> QED
      BY <2>0, <3>2, <3>3, <3>4
  <2>4. CASE exitCode' = "aborted" /\ job' = job
    BY <2>0, <2>4
  <2>5. CASE Steps[job.step] = "next file" /\ NextFile
    <3>1. firstStep \in 1..Len(Steps)
      BY <2>0, <2>5, FirstStep
    <3>2. PICK a, f, u, p, q : job = [step |-> a, file |-> f, failures |-> u, copied |-> p, source |-> q]
      BY DEF JobType
    <3>3. job' = [job EXCEPT !.file = @ + 1, !.step = firstStep] \/ job' = [job EXCEPT !.step = @ + 1]
      BY <2>5 DEF NextFile
    <3>4. job'.step = firstStep \/ job'.step = job.step + 1
      BY <3>2, <3>3
    <3>5. exitCode' = exitCode
      BY <2>5 DEF NextFile
    <3>6. job'.step \in Nat \ {0}
      BY <1>0, <2>0, <3>1, <3>4
    <3> QED
      BY <2>0, <3>5, <3>6
  <2> QED
    BY <2>0, <2>1, <2>2, <2>3, <2>4, <2>5 DEF Moves
<1> QED
  BY <1>2, <1>3, <1>4

\* With the wrong arguments it stays at its first step, and a command nobody knows at
\* its second.
LEMMA CountHolds ==
  ASSUME Quiet(Steps), Steps[1] = "count", request.wrong = "count", job.step = 1, CommandLineNext
  PROVE  job' = job
<1>0. Steps \in Seq(Step) /\ Len(Steps) \in Nat /\ Len(Steps) >= 2 /\ DOMAIN Steps = 1..Len(Steps)
  BY DEF Quiet
<1>1. \A step : at(step) => step = "count"
  BY DEF at
<1>2. ~(job.step > Len(Steps))
  BY <1>0
<1>3. fail
  <2>1. ~leave
    BY <1>2 DEF leave
  <2>2. ~openInput /\ ~readInput /\ ~report
    BY <1>1 DEF openInput, readInput, report
  <2>3. ~create /\ ~copy /\ ~finish
    BY <1>1 DEF create, copy, finish
  <2>4. checkRequest
    BY <2>1, <2>2, <2>3 DEF CommandLineNext
  <2>5. goOnIf(request.wrong # "count")
    BY <1>1, <2>4 DEF checkRequest
  <2> QED
    BY <2>5 DEF goOnIf
<1>4. "next file" \in Range(Steps) => firstStep \in 1..Len(Steps) /\ firstStep # 1
  <2> SUFFICES ASSUME "next file" \in Range(Steps) PROVE firstStep \in 1..Len(Steps) /\ firstStep # 1
    OBVIOUS
  <2>1. \E i \in 1..Len(Steps) : Steps[i] = "next file"
    BY <1>0 DEF Range
  <2>2. firstStep \in 1..Len(Steps) /\ Steps[firstStep] = "open"
    BY <2>1, FirstStep
  <2> QED
    BY <2>2
<1>5. "next file" \in Range(Steps) => ~(job.step >= firstStep)
  <2> SUFFICES ASSUME "next file" \in Range(Steps) PROVE ~(job.step >= firstStep)
    OBVIOUS
  <2>1. PICK n : n = firstStep
    OBVIOUS
  <2>2. n \in 1..Len(Steps) /\ n # 1
    BY <1>4, <2>1
  <2>3. ~(1 >= n)
    BY <2>2, Later
  <2> QED
    BY <2>1, <2>3
<1> QED
  BY <1>3, <1>5 DEF fail

LEMMA UnknownHolds ==
  ASSUME request.command = "unknown", JobType, job.step \in Nat \ {0}, job.step <= 2, CommandLineNext
  PROVE  job'.step <= 2
<1>1. Steps = <<"print", "refuse">>
  BY DEF Steps, main, usage
<1>2. Len(Steps) = 2 /\ Steps[1] = "print" /\ Steps[2] = "refuse" /\ job.step \in 1..2 /\ Range(Steps) = {"print", "refuse"}
  BY <1>1 DEF Range
<1>3. \A step : at(step) => step = Steps[job.step] /\ (step = "print" \/ step = "refuse")
  BY <1>2 DEF at
<1>8. /\ ~at("open") /\ ~at("open other") /\ ~at("same rate") /\ ~at("stereo") /\ ~at("session")
      /\ ~at("read") /\ ~at("read other") /\ ~at("measure") /\ ~at("gate") /\ ~at("place") /\ ~at("process") /\ ~at("generate")
      /\ ~at("count") /\ ~at("option") /\ ~at("one report") /\ ~at("dither") /\ ~at("numbers")
      /\ ~at("heading") /\ ~at("print rates") /\ ~at("next file") /\ ~at("create") /\ ~at("copy") /\ ~at("finish")
  BY <1>3
<1>4. ~leave
  BY <1>2 DEF leave
<1>5. checkRequest \/ report
  <2>2. ~openInput /\ ~readInput
    BY <1>8 DEF openInput, readInput
  <2>3. ~create /\ ~copy /\ ~finish
    BY <1>8 DEF create, copy, finish
  <2> QED
    BY <1>4, <2>2, <2>3 DEF CommandLineNext
<1>6. CASE checkRequest
  <2>1. fail
    BY <1>6, <1>8 DEF checkRequest
  <2>2. job' = job
    BY <1>2, <2>1 DEF fail
  <2> QED
    BY <2>2
<1>7. CASE report
  <2>0. at("print") /\ goOn
    BY <1>7, <1>8 DEF report
  <2>1. Steps[job.step] = "print" /\ goOn
    BY <2>0 DEF at
  <2>2. job.step = 1
    BY <1>2, <2>1
  <2>3. job'.step = job.step + 1
    BY <2>1 DEF goOn, JobType
  <2> QED
    BY <2>2, <2>3
<1> QED
  BY <1>5, <1>6, <1>7

\* So every action keeps what is said of it.
LEMMA QuietKeeps ==
  ASSUME Quiet(Steps), QuietInv, CliTypes, CommandLineNext
  PROVE  QuietInv'
<1>1. /\ UNCHANGED <<files, began, request>> /\ exitCode = "running"
      /\ job'.step \in Nat \ {0} /\ (exitCode' = "success" => job'.step > Len(Steps))
  BY QuietMoves DEF QuietInv, CliTypes
<1>2. Steps' = Steps
  BY <1>1, Rigid
<1>3. Steps[1] = "count" /\ request.wrong = "count" => job'.step = 1
  BY CountHolds DEF QuietInv
<1>4. request.command = "unknown" => job'.step <= 2
  BY UnknownHolds DEF QuietInv, CliTypes
<1> QED
  BY <1>1, <1>2, <1>3, <1>4 DEF QuietInv
-------------------------------------------------------------------------------
(* The invariant, and what follows from it.                                    *)

\* The numbers of a shape.
LEMMA ShapeSteps ==
  ASSUME NEW k, NEW r, Shape(request.command, k, r)
  PROVE  /\ WritesAt(Steps, k) /\ SourceAt(Steps, k, r) /\ k \in Nat /\ k >= 4 /\ Len(Steps) = k + 3
         /\ r \in Nat /\ r >= 2 /\ r <= k - 2 /\ k \in DOMAIN Steps /\ r \in DOMAIN Steps
<1>1. WritesAt(Steps, k) /\ SourceAt(Steps, k, r)
  BY DEF Shape, Steps
<1>2. k \in Nat /\ k >= 4 /\ Len(Steps) = k + 3 /\ r \in 2..k - 2
  BY <1>1 DEF WritesAt, SourceAt
<1>3. k \in DOMAIN Steps /\ r \in DOMAIN Steps
  BY ShapeDomain DEF Steps
<1>4. r \in Nat /\ r >= 2 /\ r <= k - 2
  BY <1>2
<1> QED
  BY <1>1, <1>2, <1>3, <1>4

\* The invariant holds when the tool starts, at every action and while others act.
LEMMA InitKeeps ==
  ASSUME CommandLineInit
  PROVE  CliInv
<1>1. /\ files \in Disks /\ began = files /\ request \in Request /\ exitCode = "running"
      /\ job = [step |-> 1, file |-> 1, failures |-> 0, copied |-> 0, source |-> NoSource]
  BY DEF CommandLineInit
<1>2. job.step = 1 /\ job.file = 1 /\ job.failures = 0 /\ job.copied = 0 /\ job.source = NoSource
  BY <1>1
<1>3. CliTypes
  <2>1. JobType
    BY <1>1, <1>2 DEF JobType
  <2>2. files = [began EXCEPT ![out] = files[out]]
    <3>1. files \in [Path -> File]
      BY <1>1, DisksAssumption
    <3>2. PICK x : x = files[out]
      OBVIOUS
    <3>3. files = [files EXCEPT ![out] = x]
      BY <3>1, <3>2
    <3> QED
      BY <1>1, <3>2, <3>3
  <2> QED
    BY <1>1, <2>1, <2>2 DEF CliTypes
<1>4. \A step : ~Passed(step)
  BY <1>2 DEF Passed
<1>5. ASSUME NEW k, NEW r, Shape(request.command, k, r) PROVE WritingInv(k, r)
  <2>1. k \in Nat /\ k >= 4 /\ r \in Nat /\ r >= 2
    BY <1>5, ShapeSteps
  <2>2. 1 \in 1..k + 4 /\ ~(1 > r) /\ 1 <= k /\ ~(1 > k) /\ ~(1 > k + 1)
    BY <2>1
  <2>3. RequestKeeps /\ InputKeeps
    BY <1>4 DEF RequestKeeps, InputKeeps
  <2>4. JobKeeps(k, r)
    BY <1>1, <1>2, <2>2, <2>3 DEF JobKeeps, Failed
  <2>5. FileKeeps(k)
    BY <1>1, <1>2, <2>2 DEF FileKeeps
  <2> QED
    BY <2>4, <2>5 DEF WritingInv
<1>6. QuietInv
  BY <1>1, <1>2 DEF QuietInv
<1> QED
  BY <1>3, <1>5, <1>6 DEF CliInv

LEMMA NextKeeps ==
  ASSUME CliInv, CommandLineNext
  PROVE  CliInv'
<1>1. CliTypes /\ CliTypes'
  BY TypesKeep DEF CliInv
<1>2. exitCode = "running" /\ UNCHANGED <<began, request>>
  <2>1. JobType
    BY <1>1 DEF CliTypes
  <2>2. Plain \/ WritingMove \/ leave
    BY <2>1, PlainSteps, WritingMoves DEF CommandLineNext
  <2> QED
    BY <2>2 DEF Plain, WritingMove, leave
<1>3. Steps' = Steps /\ request'.command = request.command
  BY <1>2, Rigid
<1>4. ASSUME NEW k \in DOMAIN Steps, NEW r \in DOMAIN Steps, Shape(request.command, k, r) PROVE WritingInv(k, r)'
  <2>1. Ready(k, r)
    BY <1>1, <1>2, <1>4 DEF Ready, CliInv
  <2> QED
    BY <2>1, StepKeeps
<1>5. Quiet(Steps) => QuietInv'
  BY <1>1, QuietKeeps DEF CliInv
<1>6. (\A k, r \in DOMAIN Steps : Shape(request.command, k, r) => WritingInv(k, r))'
  BY <1>3, <1>4
<1>7. (Quiet(Steps) => QuietInv)'
  BY <1>3, <1>5
<1> QED
  BY <1>1, <1>6, <1>7 DEF CliInv

LEMMA StillKeeps ==
  ASSUME CliInv, UNCHANGED cliVars
  PROVE  CliInv'
<1>1. UNCHANGED <<files, began, request, job, exitCode>>
  BY DEF cliVars
<1>2. /\ In' = In /\ out' = out /\ Steps' = Steps
      /\ GivenFrames' = GivenFrames
      /\ RightSource' = RightSource
      /\ IsAudio(In)' <=> IsAudio(In)
      /\ IsSession' <=> IsSession
      /\ \A n : Claims(n)' = Claims(n)
      /\ \A a, n : WrittenFile(a, n)' = WrittenFile(a, n)
  BY <1>1, Rigid
<1>3. \A step : Passed(step)' <=> Passed(step)
  BY <1>1, <1>2, PassedNoMore
<1>4. CliTypes'
  BY <1>1, <1>2 DEF CliInv, CliTypes, JobType
<1>5. ASSUME NEW k \in DOMAIN Steps, NEW r \in DOMAIN Steps, WritingInv(k, r) PROVE WritingInv(k, r)'
  <2>1. RequestKeeps' /\ InputKeeps'
    BY <1>1, <1>2, <1>3, <1>5 DEF RequestKeeps, InputKeeps, WritingInv, JobKeeps
  <2>2. Failed' <=> Failed
    BY <1>1 DEF Failed
  <2>3. JobKeeps(k, r)'
    BY <1>1, <1>2, <1>5, <2>1, <2>2 DEF WritingInv, JobKeeps
  <2>4. FileKeeps(k)'
    BY <1>1, <1>2, <1>5 DEF WritingInv, FileKeeps
  <2> QED
    BY <2>3, <2>4 DEF WritingInv
<1>6. Quiet(Steps) => QuietInv'
  BY <1>1, <1>2 DEF CliInv, QuietInv
<1>7. \A k, r \in DOMAIN Steps : Shape(request.command, k, r) => WritingInv(k, r)
  BY DEF CliInv
<1>8. (\A k, r \in DOMAIN Steps : Shape(request.command, k, r) => WritingInv(k, r))'
  BY <1>1, <1>2, <1>5, <1>7
<1>9. (Quiet(Steps) => QuietInv)'
  BY <1>2, <1>6
<1> QED
  BY <1>4, <1>8, <1>9 DEF CliInv

\* A command writes as one of the shapes says, or writes nothing.
LEMMA Either ==
  ASSUME CliInv
  PROVE  \/ \E k, r : Shape(request.command, k, r) /\ WritingInv(k, r)
         \/ /\ Quiet(Steps) /\ QuietInv /\ request.command \notin {"sweep", "convert", "normalise", "render"}
            /\ Steps[1] = "count" \/ request.command = "unknown"
<1>1. request.command \in DOMAIN main
  BY Given DEF CliInv
<1>2. CASE \E k, r \in DOMAIN Steps : Shape(request.command, k, r)
  BY <1>2 DEF CliInv
<1>3. CASE ~\E k, r \in DOMAIN Steps : Shape(request.command, k, r)
  BY <1>1, <1>3, Commands DEF CliInv, Steps
<1> QED
  BY <1>2, <1>3

\* One that writes nothing neither creates a file nor takes the option.
LEMMA WritesNothing ==
  ASSUME Quiet(Steps)
  PROVE  ~Writes(request.command) /\ "option" \notin Range(Steps)
<1>1. Steps \in Seq(Step)
  BY DEF Quiet
<1>2. DOMAIN Steps = 1..Len(Steps)
  BY <1>1, SeqDomain
<1>3. "create" \notin Range(Steps) /\ "option" \notin Range(Steps)
  BY <1>2 DEF Quiet, NoWriting, Range
<1> QED
  BY <1>3 DEF Writes, Steps

\* A command that has succeeded has left the file.
LEMMA SuccessHolds == ASSUME CliInv PROVE SuccessIsAFile
<1> SUFFICES ASSUME exitCode = "success", Writes(request.command)
             PROVE  /\ files[out].claims = files[out].holds
                    /\ files[out].dithered = (request.dither \in {"tpdf", "shaped"} /\ files[out].format \in {"16", "24"})
                    /\ containerFor(out) = "Flac" => files[out].format \in {"16", "24"}
                    /\ request.command = "sweep" \/ (IsLazy /\ Heard = out) \/ files[out].sounds = Audible
  BY DEF SuccessIsAFile
<1>1. PICK k, r : Shape(request.command, k, r) /\ WritingInv(k, r)
  BY Either, WritesNothing
<1>2. k \in Nat /\ r \in Nat /\ r <= k - 2
  BY <1>1, ShapeSteps
<1>3. job.step = k + 4 /\ job.file = 1
  BY <1>1 DEF WritingInv, JobKeeps
<1>4. k + 4 > r /\ k + 4 > k /\ k + 4 > k + 1 /\ ~(k + 4 <= k + 2)
  BY <1>2
<1>5. files[out] = WrittenFile(job.copied, job.copied) /\ job.copied = GivenFrames
  BY <1>1, <1>3, <1>4 DEF WritingInv, FileKeeps
<1>6. PICK n, sounds, rate, form, dithered :
        n = job.copied /\ sounds = Lesser(n, GivenSounds) /\ rate = request.rate
        /\ form = Stored(out, WantedFormat).format /\ dithered = Stored(out, WantedFormat).dithered
  OBVIOUS
<1>7. files[out] = Recorded(n, n, sounds, rate, form, dithered)
  BY <1>5, <1>6, WrittenIs
<1>8. /\ files[out].claims = n /\ files[out].holds = n /\ files[out].sounds = sounds /\ files[out].format = form
      /\ files[out].dithered = dithered
  BY <1>7 DEF Recorded
<1>9. form = storableFormat(containerFor(out), WantedFormat) /\ dithered = ditherFor(request.dither, form)
  BY <1>6 DEF Stored
<1>10. containerFor(out) = "Flac" => form \in {"16", "24"}
  BY <1>9 DEF storableFormat
<1>11. dithered = (request.dither \in {"tpdf", "shaped"} /\ form \in {"16", "24"})
  BY <1>9 DEF ditherFor
<1>12. In \in Path /\ began \in [Path -> File] /\ CliTypes
  BY Given DEF CliInv
<1>13. GivenFrames \in Nat /\ GivenSounds \in Nat
  BY <1>1, <1>3, <1>4, <1>12, GivenIs
<1>14. input = In
  BY <1>3 DEF input, In
<1>15. SourceOf(request.command) \in {"read", "open", "place"} => IsAudio(In)
  BY <1>1, <1>3, <1>4, KindKnown
<1>16. \A path \in Path : Sounding(path) = IF IsAudio(path) THEN SoundsOf(path) ELSE 0
  BY DEF Sounding, IsAudio, SoundsOf
<1>17. \A path \in Path : IsAudio(path) => began[path].claims \in Nat /\ began[path].holds \in Nat
  BY <1>12, AudioIs DEF IsAudio
<1>18. request.command = "sweep" \/ (IsLazy /\ Heard = out) \/ sounds = Audible
  <2>0. sounds = Lesser(GivenFrames, GivenSounds)
    BY <1>5, <1>6
  <2>1. CASE SourceOf(request.command) = "generate"
    BY <2>1 DEF SourceOf
  <2>2. CASE SourceOf(request.command) = "read"
    <3>1. request.command # "render"
      BY <2>2 DEF SourceOf
    <3>2. Audible = SoundsOf(In)
      BY <1>12, <1>14, <1>15, <1>16, <2>2, <3>1 DEF Audible, Heard
    <3>3. GivenFrames = began[In].claims /\ GivenSounds = SoundsOf(In)
      BY <2>2 DEF GivenFrames, GivenSounds
    <3>4. Lesser(began[In].claims, SoundsOf(In)) = SoundsOf(In)
      BY <1>12, <1>15, <1>17, <2>2, LesserIs DEF SoundsOf
    <3> QED
      BY <2>0, <3>2, <3>3, <3>4
  <2>3. CASE SourceOf(request.command) = "open"
    <3>1. request.command = "convert"
      BY <2>3 DEF SourceOf
    <3>2. Heard = In /\ IsLazy /\ Audible = SoundsOf(In)
      BY <1>12, <1>14, <1>15, <1>16, <2>3, <3>1 DEF Audible, Heard, IsLazy
    <3>3. In # out => GivenFrames = SoundsOf(In) /\ GivenSounds = SoundsOf(In)
      BY <2>3 DEF GivenFrames, GivenSounds
    <3>4. In # out => sounds = SoundsOf(In)
      BY <1>13, <2>0, <3>3, LesserIs
    <3> QED
      BY <3>2, <3>4
  <2>4. CASE SourceOf(request.command) = "session"
    <3>1. request.command = "render"
      BY <2>4 DEF SourceOf
    <3>2. PICK plays : plays = began[In].plays
      OBVIOUS
    <3>3. Heard = plays /\ IsLazy /\ Audible = Lesser(began[In].length, Sounding(plays))
      BY <1>14, <3>1, <3>2 DEF Audible, Heard, IsLazy
    <3>4. plays \in Path
      BY <1>1, <1>3, <1>4, <1>12, <2>4, <3>2, KindKnown, SessionIs DEF IsSession
    <3>5. GivenFrames = began[In].length /\ (plays # out => GivenSounds = Sounding(plays))
      BY <1>16, <2>4, <3>2, <3>4 DEF GivenFrames, GivenSounds
    <3> QED
      BY <2>0, <3>3, <3>5
  <2>5. CASE SourceOf(request.command) = "place"
    <3>1. request.command = "normalise"
      BY <2>5 DEF SourceOf
    <3>2. Heard = In /\ IsLazy /\ Audible = SoundsOf(In)
      BY <1>12, <1>14, <1>15, <1>16, <2>5, <3>1 DEF Audible, Heard, IsLazy
    <3>3. GivenFrames = began[In].claims /\ (In # out => GivenSounds = SoundsOf(In))
      BY <2>5 DEF GivenFrames, GivenSounds
    <3>4. Lesser(began[In].claims, SoundsOf(In)) = SoundsOf(In)
      BY <1>12, <1>15, <1>17, <2>5, LesserIs DEF SoundsOf
    <3>5. In # out => sounds = SoundsOf(In)
      BY <2>0, <3>3, <3>4
    <3> QED
      BY <3>2, <3>5
  <2> QED
    BY <2>1, <2>2, <2>3, <2>4, <2>5 DEF SourceOf
<1> QED
  BY <1>8, <1>10, <1>11, <1>18

\* A command that has failed has left nothing that reads as a recording.
LEMMA FailureHolds == ASSUME CliInv PROVE FailureLeavesNothing
<1>0. CliTypes
  BY DEF CliInv
<1>1. \A path \in Path \ {out} : Untouched(path)
  BY <1>0, NotTouched DEF Untouched
<1>2. CASE \E k, r : Shape(request.command, k, r) /\ WritingInv(k, r)
  <2>1. PICK k, r : Shape(request.command, k, r) /\ WritingInv(k, r)
    BY <1>2
  <2>2. /\ WritesAt(Steps, k) /\ k \in Nat /\ k >= 4 /\ Len(Steps) = k + 3 /\ JobKeeps(k, r) /\ FileKeeps(k) /\ job.step \in 1..k + 4
    BY <2>1, ShapeSteps DEF WritingInv, JobKeeps
  <2>3. ASSUME Failed, containerFor(out) # "Flac" PROVE Untouched(out) \/ files[out].claims = 0
    <3>1. job.step <= k + 2
      BY <2>2, <2>3 DEF JobKeeps
    <3>2. CASE job.step <= k
      BY <2>2, <3>2 DEF FileKeeps, Untouched
    <3>3. CASE ~(job.step <= k)
      <4>1. job.step > k
        BY <2>2, <3>3
      <4>2. files[out] = WrittenFile(Claims(job.copied), job.copied)
        BY <2>2, <3>1, <4>1 DEF FileKeeps
      <4>3. Claims(job.copied) = 0
        BY <2>3 DEF Claims
      <4> QED
        BY <4>2, <4>3 DEF WrittenFile
    <3> QED
      BY <3>2, <3>3
  <2>4. ASSUME IsWrong PROVE Untouched(out) /\ exitCode # "success"
    <3>1. \A i \in 1..Len(Steps) : i < job.step => Passed(Steps[i])
      BY DEF Passed
    <3>2. 1 \in 1..Len(Steps) /\ Steps[1] = "count"
      <4>1. 1 \in 1..Len(Steps)
        BY <2>2
      <4>2. Steps[1] = "count"
        BY <2>2 DEF WritesAt
      <4> QED
        BY <4>1, <4>2
    <3>3. k - 1 \in 1..Len(Steps) /\ Steps[k - 1] = "dither"
      <4>1. k - 1 \in 1..Len(Steps)
        BY <2>2
      <4>2. Steps[k - 1] = "dither"
        BY <2>2 DEF WritesAt
      <4> QED
        BY <4>1, <4>2
    <3>4. request.wrong = "count" => ~(1 < job.step)
      BY <2>2, <3>1, <3>2 DEF JobKeeps, RequestKeeps
    <3>5. request.wrong = "option" /\ "option" \in Range(Steps) => ~(2 < job.step)
      <4> SUFFICES ASSUME request.wrong = "option", "option" \in Range(Steps) PROVE ~(2 < job.step)
        OBVIOUS
      <4>1. Steps \in Seq(Step)
        BY <2>2 DEF WritesAt
      <4>2. DOMAIN Steps = 1..Len(Steps)
        BY <4>1, SeqDomain
      <4>3. PICK i \in 1..Len(Steps) : Steps[i] = "option"
        BY <4>2 DEF Range
      <4>4. i = 2
        BY <2>2, <4>3 DEF WritesAt
      <4>5. 2 \in 1..Len(Steps) /\ Steps[2] = "option"
        BY <4>3, <4>4
      <4>6. ~Passed("option")
        BY <2>2 DEF JobKeeps, RequestKeeps
      <4> QED
        BY <3>1, <4>5, <4>6
    <3>6. request.dither = "unknown" => ~(k - 1 < job.step)
      BY <2>2, <3>1, <3>3 DEF JobKeeps, RequestKeeps
    <3>7. ~(1 < job.step) \/ ~(2 < job.step) \/ ~(k - 1 < job.step)
      BY <2>4, <3>4, <3>5, <3>6 DEF IsWrong
    <3>8. job.step <= k /\ job.step # k /\ job.step # k + 4
      BY <2>2, <3>7
    <3>9. files = began
      BY <2>2, <3>8 DEF FileKeeps
    <3>10. exitCode # "success"
      BY <2>2, <3>8 DEF JobKeeps
    <3> QED
      BY <3>9, <3>10 DEF Untouched
  <2> QED
    BY <1>1, <2>3, <2>4 DEF FailureLeavesNothing
<1>3. CASE /\ Quiet(Steps) /\ QuietInv
           /\ Steps[1] = "count" \/ request.command = "unknown"
  <2>1. files = began
    BY <1>3 DEF QuietInv
  <2>2. IsWrong => request.wrong = "count"
    BY <1>3, WritesNothing DEF IsWrong
  <2>3. Len(Steps) \in Nat /\ Len(Steps) >= 2
    <3>1. Steps \in Seq(Step) /\ Len(Steps) >= 2
      BY <1>3 DEF Quiet
    <3> QED
      BY <3>1
  <2>4. ASSUME Steps[1] = "count", request.wrong = "count" PROVE exitCode # "success"
    <3>1. job.step = 1 /\ (exitCode = "success" => job.step > Len(Steps))
      BY <1>3, <2>4 DEF QuietInv
    <3> QED
      BY <2>3, <3>1
  <2>5. ASSUME request.command = "unknown" PROVE exitCode # "success"
    <3>1. Steps = <<"print", "refuse">>
      BY <2>5 DEF Steps, main, usage
    <3>2. Len(Steps) = 2
      BY <3>1
    <3>3. job.step \in Nat /\ job.step <= 2 /\ (exitCode = "success" => job.step > Len(Steps))
      BY <1>3, <2>5 DEF QuietInv
    <3> QED
      BY <3>2, <3>3
  <2>6. Untouched(out)
    BY <2>1 DEF Untouched
  <2> QED
    BY <1>1, <1>3, <2>2, <2>4, <2>5, <2>6 DEF FailureLeavesNothing
<1> QED
  BY <1>2, <1>3, Either

\* The command line's part of the composition.
CliHolds == part = "cli" => CliInv

\* Whatever the files, their lengths, what can be read of them, the blocks, the request
\* and the step that fails: a command that succeeds has left a complete file in a format
\* its container has, in which everything there was sounds, and one that fails has left
\* nothing that reads as a recording, a FLAC excepted; no command touches another file (main.cpp: write, convert,
\* OutputFile).
THEOREM CommandsAreTruthful == ProgramsSpec => []CommandsTellTheTruth
<1>1. ProgramsInit => CliHolds
  BY InitKeeps DEF ProgramsInit, CliHolds
<1>2. CliHolds /\ [ProgramsNext]_<<part, cliVars, settingsVars, managerVars, windowVars>> => CliHolds'
  <2> SUFFICES ASSUME CliHolds, [ProgramsNext]_<<part, cliVars, settingsVars, managerVars, windowVars>>, part' = "cli" PROVE CliInv'
    BY DEF CliHolds
  <2>1. UNCHANGED part
    BY DEF ProgramsNext
  <2>2. CommandLineNext \/ UNCHANGED cliVars
    BY <2>1 DEF ProgramsNext
  <2> QED
    BY <2>1, <2>2, NextKeeps, StillKeeps DEF CliHolds
<1>3. CliHolds => CommandsTellTheTruth
  BY SuccessHolds, FailureHolds DEF CliHolds, CommandsTellTheTruth
<1> QED
  BY <1>1, <1>2, <1>3, PTL DEF ProgramsSpec
-------------------------------------------------------------------------------
(* Opening a device: what a device grants.                                     *)



\* clampChannels() and clampBufferFrames() stay within what they are given.
LEMMA ClampedChannels == ASSUME NEW requested \in Nat, NEW available \in Nat
  PROVE  clampChannels(requested, available) = IF requested <= available THEN requested ELSE available
<1>1. Min({requested, available}) = IF requested <= available THEN requested ELSE available
  BY MinOfTwo
<1>2. PICK m : m = Min({requested, available})
  OBVIOUS
<1>3. m \in Nat
  BY <1>1, <1>2
<1>4. Max({0, m}) = m
  BY <1>3, MaxOfTwo
<1> QED
  BY <1>1, <1>2, <1>4 DEF clampChannels

\* And the block.
LEMMA ClampedFrames == ASSUME NEW requested \in Int, NEW default \in Int
  PROVE  clampBufferFrames(requested, default) \in kMinBufferFrames..kMaxBufferFrames
<1>1. PICK frames : frames = CASE requested > 0 -> requested
                               [] requested <= 0 /\ default > 0 -> default
                               [] OTHER -> kDefaultBufferFrames
  OBVIOUS
<1>2. frames \in Int
  BY <1>1, FramesAssumption
<1>3. PICK m : m = Min({frames, kMaxBufferFrames})
  OBVIOUS
<1>4. m = IF frames <= kMaxBufferFrames THEN frames ELSE kMaxBufferFrames
  BY <1>2, <1>3, FramesAssumption, MinOfTwo
<1>5. m \in Int /\ m <= kMaxBufferFrames
  BY <1>2, <1>4, FramesAssumption
<1>6. Max({kMinBufferFrames, m}) = IF kMinBufferFrames >= m THEN kMinBufferFrames ELSE m
  BY <1>5, FramesAssumption, MaxOfTwo
<1>7. Max({kMinBufferFrames, m}) \in kMinBufferFrames..kMaxBufferFrames
  BY <1>5, <1>6, FramesAssumption
<1> QED
  BY <1>1, <1>3, <1>7 DEF clampBufferFrames

\* A description of a device, and what is asked of one.
Kind == [id : STRING \ {""}, inputs : Nat, outputs : Nat, rates : Seq(Int \ {NoRate}), block : Int, isDefault : BOOLEAN]
Wish == [rate : Int, inputs : Nat, outputs : Nat, block : Int]

\* Distances can be compared.
LEMMA DistanceIsNat == ASSUME NEW a \in Int, NEW b \in Int PROVE Distance(a, b) \in Nat
BY DEF Distance

\* The closest rate is one the device lists: of those that are least far, the first.
LEMMA ClosestIsListed ==
  ASSUME NEW device, NEW preferred \in Int, device.rates \in Seq(Int \ {NoRate}), device.rates # <<>>
  PROVE  closestSampleRate(device, preferred) \in Range(device.rates)
<1>1. PICK rates : rates = device.rates
  OBVIOUS
<1>2. rates \in Seq(Int \ {NoRate}) /\ rates # <<>> /\ Len(rates) \in Nat /\ DOMAIN rates = 1..Len(rates)
  BY <1>1
<1>3. 1 \in DOMAIN rates
  <2>1. Len(rates) # 0
    BY <1>2, EmptySeq
  <2> QED
    BY <1>2, <2>1
<1>4. CASE preferred = NoRate
  <2>1. closestSampleRate(device, preferred) = rates[1]
    BY <1>1, <1>2, <1>4 DEF closestSampleRate
  <2> QED
    BY <1>1, <1>3, <2>1 DEF Range
<1>5. CASE preferred # NoRate
  <2> DEFINE Far(i) == Distance(rates[i], preferred)
             Closest(i) == \A j \in DOMAIN rates : Far(i) < Far(j) \/ (Far(i) = Far(j) /\ i <= j)
  <2>1. \A i \in DOMAIN rates : Far(i) \in Nat
    <3>1. \A i \in DOMAIN rates : rates[i] \in Int
      BY <1>2
    <3> QED
      BY <3>1, DistanceIsNat
  <2> HIDE DEF Far
  <2>2. PICK i \in DOMAIN rates : \A j \in DOMAIN rates : Far(i) <= Far(j)
    <3>1. PICK f \in {Far(j) : j \in DOMAIN rates} : \A g \in {Far(j) : j \in DOMAIN rates} : f <= g
      <4>1. {Far(j) : j \in DOMAIN rates} \subseteq Nat /\ {Far(j) : j \in DOMAIN rates} # {}
        BY <1>3, <2>1
      <4> QED
        BY <4>1, LeastOfAll
    <3> QED
      BY <3>1
  <2>3. PICK k \in {j \in DOMAIN rates : Far(j) = Far(i)} : \A j \in {l \in DOMAIN rates : Far(l) = Far(i)} : k <= j
    <3>1. {j \in DOMAIN rates : Far(j) = Far(i)} \subseteq Nat /\ {j \in DOMAIN rates : Far(j) = Far(i)} # {}
      BY <1>2, <2>2
    <3> QED
      BY <3>1, LeastOfAll
  <2>4. ASSUME NEW j \in DOMAIN rates PROVE Far(k) < Far(j) \/ (Far(k) = Far(j) /\ k <= j)
    <3>1. Far(k) = Far(i) /\ Far(i) <= Far(j) /\ Far(i) \in Nat /\ Far(j) \in Nat
      BY <2>1, <2>2, <2>3
    <3>2. CASE Far(j) = Far(i)
      BY <3>1, <3>2, <2>3
    <3>3. CASE Far(j) # Far(i)
      BY <3>1, <3>3
    <3> QED
      BY <3>2, <3>3
  <2>5. Closest(k)
    BY <2>4
  <2>6. (CHOOSE m \in DOMAIN rates : Closest(m)) \in DOMAIN rates
    <3> HIDE DEF Closest
    <3> QED
      BY <2>3, <2>5
  <2>7. closestSampleRate(device, preferred) = rates[CHOOSE m \in DOMAIN rates : Closest(m)]
    BY <1>1, <1>2, <1>5 DEF closestSampleRate, Far
  <2> QED
    BY <1>1, <2>6, <2>7 DEF Range
<1> QED
  BY <1>4, <1>5

\* What is negotiated can be granted (negotiateConfig).
LEMMA NegotiatedIsGranted ==
  ASSUME NEW device \in Kind, NEW asked \in Wish
  PROVE  Granted(device, asked, negotiateConfig(device, asked))
<1>1. device.inputs \in Nat /\ device.outputs \in Nat /\ device.block \in Int /\ device.rates \in Seq(Int \ {NoRate})
  BY DEF Kind
<1>2. asked.inputs \in Nat /\ asked.outputs \in Nat /\ asked.block \in Int /\ asked.rate \in Int
  BY DEF Wish
<1>3. PICK rate : rate = IF supportsSampleRate(device, asked.rate) THEN asked.rate ELSE closestSampleRate(device, asked.rate)
  OBVIOUS
<1>4. PICK got : got = negotiateConfig(device, asked)
  OBVIOUS
<1>5. /\ got.inputs = clampChannels(asked.inputs, device.inputs) /\ got.outputs = clampChannels(asked.outputs, device.outputs)
      /\ got.block = clampBufferFrames(asked.block, device.block)
      /\ got.rate = IF rate = NoRate THEN kSampleRate48000 ELSE rate
  BY <1>3, <1>4 DEF negotiateConfig
<1>6. /\ got.outputs <= device.outputs /\ got.inputs <= device.inputs
      /\ got.outputs = asked.outputs \/ got.outputs = device.outputs
  BY <1>1, <1>2, <1>5, ClampedChannels
<1>7. got.block \in kMinBufferFrames..kMaxBufferFrames
  BY <1>1, <1>2, <1>5, ClampedFrames
<1>8. supportsSampleRate(device, asked.rate) => got.rate = asked.rate
  BY <1>3, <1>5 DEF supportsSampleRate
<1>9. device.rates # <<>> => got.rate \in Range(device.rates)
  <2> SUFFICES ASSUME device.rates # <<>> PROVE got.rate \in Range(device.rates)
    OBVIOUS
  <2>1. rate \in Range(device.rates)
    <3>1. CASE supportsSampleRate(device, asked.rate)
      BY <1>3, <3>1 DEF supportsSampleRate
    <3>2. CASE ~supportsSampleRate(device, asked.rate)
      BY <1>1, <1>2, <1>3, <3>2, ClosestIsListed
    <3> QED
      BY <3>1, <3>2
  <2>2. rate # NoRate
    <3>1. PICK i \in DOMAIN device.rates : rate = device.rates[i]
      BY <2>1 DEF Range
    <3> QED
      BY <1>1, <3>1
  <2> QED
    BY <1>5, <2>1, <2>2
<1> QED
  BY <1>4, <1>6, <1>7, <1>8, <1>9 DEF Granted

\* A device that can play and does not open was not asked to, or would not.
LEMMA ValidIfHeard ==
  ASSUME NEW device \in Kind, NEW asked \in Wish, device.outputs > 0, ~isValid(negotiateConfig(device, asked))
  PROVE  asked.outputs = 0
<1>1. device.outputs \in Nat /\ asked.outputs \in Nat
  BY DEF Kind, Wish
<1>2. clampChannels(asked.outputs, device.outputs) <= 0
  <2>1. negotiateConfig(device, asked).outputs = clampChannels(asked.outputs, device.outputs)
    BY DEF negotiateConfig
  <2>2. clampChannels(asked.outputs, device.outputs) \in Nat
    BY <1>1, ClampedChannels
  <2> QED
    BY <2>1, <2>2 DEF isValid
<1> QED
  BY <1>1, <1>2, ClampedChannels
-------------------------------------------------------------------------------
(* The list, and the groups it is tried in.                                    *)

\* The candidates there are left, in three groups at most, the first to be tried first.
CallTypes ==
  /\ call.asked \in Asked /\ call.way \in {"open", "openDefault", "openOrFallback"}
  /\ DOMAIN call = {"stage", "asked", "id", "way", "tried", "opened", "left"}
  /\ call.tried \in Seq(Nat) /\ call.left \in Seq(SUBSET Nat) /\ Len(call.left) <= 3

\* A device is tried or is left to be tried, once.
TriedOrLeft ==
  /\ \A k \in DOMAIN call.tried : call.tried[k] \in DOMAIN devices
  /\ \A k \in DOMAIN call.left : call.left[k] \subseteq DOMAIN devices
  /\ \A j, k \in DOMAIN call.tried : call.tried[j] = call.tried[k] => j = k
  /\ \A j \in DOMAIN call.tried, k \in DOMAIN call.left : call.tried[j] \notin call.left[k]
  /\ \A j, k \in DOMAIN call.left : j # k => call.left[j] \cap call.left[k] = {}
AllOfThem ==
  call.way = "openOrFallback" =>
    /\ \A i \in DOMAIN devices : i \in Range(call.tried) \/ \E k \in DOMAIN call.left : i \in call.left[k]
    /\ call.tried = <<>> => call.left = openOrFallback(call.id)
    /\ call.tried # <<>> => TriesFirst(call.tried[1], call.id)

\* What was refused was not to be heard, or was not the null device.
Answers ==
  /\ call.opened = <<>> \/ /\ call.tried # <<>> /\ call.opened = <<call.opened[1]>>
                           /\ Granted(devices[call.tried[Len(call.tried)]], call.asked, call.opened[1])
  /\ call.opened = <<>> => \A k \in DOMAIN call.tried : devices[call.tried[k]].id = NullId => call.asked.outputs = 0
NullIsWilling == \A list \in {connected, devices} : \A i \in DOMAIN list : list[i].id = NullId => list[i] \in willing
CallInv == \/ call = NoCall
           \/ call.stage = "trying" /\ CallTypes /\ TriedOrLeft /\ AllOfThem /\ Answers
ManagerInv == connected \in Lists /\ devices \in Lists /\ NullIsWilling /\ CallInv

\* The first of some indices is one of them.
LEMMA FirstIs == ASSUME NEW S, S \subseteq Nat, S # {} PROVE FirstOf(S) \in S /\ \A y \in S : FirstOf(S) <= y
<1>1. \E x \in S : \A y \in S : x <= y
  BY LeastOfAll
<1> QED
  BY <1>1 DEF FirstOf, Min

\* What is known of a list of devices.
LEMMA ListsAre ==
  ASSUME NEW list \in Lists
  PROVE  /\ list \in Seq(Kind) /\ DOMAIN list = 1..Len(list) /\ Len(list) \in Nat
         /\ \A i, j \in DOMAIN list : list[i].id = list[j].id => i = j
         /\ \A i \in DOMAIN list : list[i] \in Kind
         /\ \A i \in DOMAIN list : list[i].id = NullId => list[i].outputs > 0
<1>1. list \in Seq(Kind)
  BY ListsAssumption DEF Kind
<1>2. DOMAIN list = 1..Len(list) /\ Len(list) \in Nat /\ \A i \in DOMAIN list : list[i] \in Kind
  BY <1>1
<1> QED
  BY <1>1, <1>2, ListsAssumption

\* Where there are devices, one is the default.
LEMMA DefaultListed == ASSUME devices \in Lists, devices # <<>> PROVE defaultIndex \in DOMAIN devices
<1>1. DOMAIN devices = 1..Len(devices) /\ Len(devices) \in Nat /\ devices \in Seq(Kind)
  BY ListsAre
<1>2. ByDefault \subseteq Nat /\ Playing \subseteq Nat /\ ByDefault \subseteq DOMAIN devices /\ Playing \subseteq DOMAIN devices
  BY <1>1 DEF ByDefault, Playing
<1>3. 1 \in DOMAIN devices
  BY <1>1, EmptySeq
<1>4. CASE ByDefault # {}
  <2>1. FirstOf(ByDefault) \in ByDefault
    BY <1>2, <1>4, FirstIs
  <2> QED
    BY <1>2, <1>4, <2>1 DEF defaultIndex
<1>5. CASE ByDefault = {} /\ Playing # {}
  <2>1. FirstOf(Playing) \in Playing
    BY <1>2, <1>5, FirstIs
  <2> QED
    BY <1>2, <1>5, <2>1 DEF defaultIndex
<1>6. CASE ByDefault = {} /\ Playing = {}
  BY <1>3, <1>6 DEF defaultIndex
<1> QED
  BY <1>4, <1>5, <1>6

\* The groups share nothing, and with all three every device has its place.
LEMMA GroupsShareNothing ==
  ASSUME devices \in Lists, NEW id
  PROVE  /\ openOrFallback(id) \in Seq(SUBSET Nat) /\ Len(openOrFallback(id)) = 3
         /\ DOMAIN openOrFallback(id) = {1, 2, 3}
         /\ openOrFallback(id)[1] = Named(id) /\ openOrFallback(id)[2] = Preferred(id) /\ openOrFallback(id)[3] = Others(id)
         /\ Named(id) \subseteq DOMAIN devices /\ Preferred(id) \subseteq DOMAIN devices /\ Others(id) \subseteq DOMAIN devices
         /\ Named(id) \cap Preferred(id) = {} /\ Named(id) \cap Others(id) = {} /\ Preferred(id) \cap Others(id) = {}
         /\ \A i \in DOMAIN devices : i \in Named(id) \/ i \in Preferred(id) \/ i \in Others(id)
<1>1. DOMAIN devices = 1..Len(devices) /\ Len(devices) \in Nat /\ \A i, j \in DOMAIN devices : devices[i].id = devices[j].id => i = j
  BY ListsAre
<1>2. Named(id) \in SUBSET Nat /\ Preferred(id) \in SUBSET Nat /\ Others(id) \in SUBSET Nat
  BY <1>1 DEF Named, Preferred, Others
<1>3. PICK a : a = Named(id)
  OBVIOUS
<1>4. PICK b : b = Preferred(id)
  OBVIOUS
<1>5. PICK c : c = Others(id)
  OBVIOUS
<1>6. openOrFallback(id) = <<a, b, c>>
  BY <1>3, <1>4, <1>5 DEF openOrFallback
<1>7. <<a, b, c>> \in Seq(SUBSET Nat) /\ Len(<<a, b, c>>) = 3 /\ DOMAIN <<a, b, c>> = {1, 2, 3}
  BY <1>2, <1>3, <1>4, <1>5
<1>8. Named(id) \cap Preferred(id) = {} /\ Named(id) \cap Others(id) = {} /\ Preferred(id) \cap Others(id) = {}
  BY DEF Named, Preferred, Others
<1>9. ASSUME NEW i \in DOMAIN devices PROVE i \in Named(id) \/ i \in Preferred(id) \/ i \in Others(id)
  <2>1. CASE devices[i].id = id
    <3>1. \A j \in 1..i - 1 : j \in DOMAIN devices /\ j # i
      BY <1>1
    <3> QED
      BY <1>1, <2>1, <3>1 DEF Named
  <2>2. CASE devices[i].id # id
    BY <2>2 DEF Preferred, Others
  <2> QED
    BY <2>1, <2>2
<1>10. Named(id) \subseteq DOMAIN devices /\ Preferred(id) \subseteq DOMAIN devices /\ Others(id) \subseteq DOMAIN devices
  BY DEF Named, Preferred, Others
<1>11. /\ openOrFallback(id)[1] = Named(id) /\ openOrFallback(id)[2] = Preferred(id) /\ openOrFallback(id)[3] = Others(id)
  BY <1>3, <1>4, <1>5, <1>6
<1> QED
  BY <1>6, <1>7, <1>8, <1>9, <1>10, <1>11
-------------------------------------------------------------------------------
(* Every action but a try.                                                     *)

\* Nothing that a call relies on moves: the list, and what is said of it.
CallsKeep == UNCHANGED <<devices, call>>

\* A call that nothing touches stays as it is.
LEMMA CallStands ==
  ASSUME CallInv, CallsKeep
  PROVE  CallInv'
<1>1. UNCHANGED defaultIndex
  BY DEF CallsKeep, defaultIndex, ByDefault, Playing
<1>2. \A id : openOrFallback(id)' = openOrFallback(id)
  BY <1>1 DEF CallsKeep, openOrFallback, Named, Preferred, Others
<1>3. AllOfThem => AllOfThem'
  BY <1>1, <1>2 DEF AllOfThem, CallsKeep, TriesFirst
<1>4. TriedOrLeft => TriedOrLeft'
  BY DEF TriedOrLeft, CallsKeep
<1>5. Answers => Answers'
  BY DEF Answers, CallsKeep
<1>6. CallTypes => CallTypes'
  BY DEF CallTypes, CallsKeep
<1> QED
  BY <1>3, <1>4, <1>5, <1>6 DEF CallInv, CallsKeep, NoCall

\* At the beginning; refreshing; devices coming and going; and the end of a call.
LEMMA InitManages == ManagerInit => ManagerInv
<1> SUFFICES ASSUME ManagerInit PROVE ManagerInv
  OBVIOUS
<1>1. \A i \in DOMAIN connected : connected[i] \in Range(connected)
  BY DEF Range
<1> QED
  BY <1>1 DEF ManagerInit, ManagerInv, NullIsWilling, CallInv

\* A list is taken between calls only.
LEMMA RefreshKeeps == ManagerInv /\ refresh => ManagerInv'
<1> SUFFICES ASSUME ManagerInv, refresh PROVE ManagerInv'
  OBVIOUS
<1>1. call = NoCall
  BY DEF ManagerInv, CallInv, refresh
<1>2. call' = NoCall
  BY <1>1 DEF refresh
<1> QED
  BY <1>2 DEF ManagerInv, refresh, NullIsWilling, CallInv, NoCall

\* Nobody takes the null device away.
LEMMA HardwareKeeps == ManagerInv /\ changeHardware => ManagerInv'
<1> SUFFICES ASSUME ManagerInv, changeHardware PROVE ManagerInv'
  OBVIOUS
<1>1. CallInv'
  BY CallStands DEF ManagerInv, changeHardware, CallsKeep
<1>2. PICK d \in Hardware :
        /\ d.id # NullId
        /\ \/ /\ connected' \in {list \in Lists : Range(list) = IF d \in Range(connected) THEN Range(connected) \ {d}
                                                                                      ELSE Range(connected) \cup {d}}
              /\ willing' = willing \ {d}
           \/ /\ d \in Range(connected) /\ UNCHANGED connected
              /\ willing' = IF d \in willing THEN willing \ {d} ELSE willing \cup {d}
  BY DEF changeHardware
<1>3. UNCHANGED devices
  BY DEF changeHardware
<1>4. connected' \in Lists
  BY <1>2 DEF ManagerInv
<1>5. \A e : e \in willing /\ e # d => e \in willing'
  BY <1>2
<1>6. ASSUME NEW i \in DOMAIN devices, devices[i].id = NullId PROVE devices[i] \in willing'
  BY <1>2, <1>5, <1>6 DEF ManagerInv, NullIsWilling
<1>7. ASSUME NEW i \in DOMAIN connected', connected'[i].id = NullId PROVE connected'[i] \in willing'
  <2>1. connected'[i] \in Range(connected')
    BY DEF Range
  <2>2. connected'[i] # d
    BY <1>2, <1>7
  <2>3. connected'[i] \in Range(connected)
    BY <1>2, <2>1, <2>2
  <2>4. connected'[i] \in willing
    BY <1>7, <2>3 DEF ManagerInv, NullIsWilling, Range
  <2> QED
    BY <1>5, <2>2, <2>4
<1>8. NullIsWilling'
  BY <1>3, <1>6, <1>7 DEF NullIsWilling
<1> QED
  BY <1>1, <1>3, <1>4, <1>8 DEF ManagerInv

\* A call that has answered.
LEMMA AnswerKeeps == ManagerInv /\ answer => ManagerInv'
BY DEF ManagerInv, answer, NullIsWilling, CallInv, NoCall

\* The groups of the two calls that try one device.
LEMMA FewerGroups ==
  ASSUME devices \in Lists, NEW id
  PROVE  /\ <<Named(id)>> \in Seq(SUBSET Nat) /\ Len(<<Named(id)>>) = 1 /\ DOMAIN <<Named(id)>> = {1} /\ Named(id) \subseteq DOMAIN devices
         /\ openDefault \in Seq(SUBSET Nat) /\ Len(openDefault) = 1 /\ DOMAIN openDefault = {1} /\ openDefault[1] \subseteq DOMAIN devices
<1>1. DOMAIN devices \subseteq Nat
  BY ListsAre
<1>2. PICK a : a = Named(id)
  OBVIOUS
<1>3. PICK b : b = {i \in DOMAIN devices : i = defaultIndex}
  OBVIOUS
<1>4. a \subseteq DOMAIN devices /\ b \subseteq DOMAIN devices
  BY <1>2, <1>3 DEF Named
<1>5. a \in SUBSET Nat /\ b \in SUBSET Nat
  BY <1>1, <1>4
<1>6. <<a>> \in Seq(SUBSET Nat) /\ Len(<<a>>) = 1 /\ DOMAIN <<a>> = {1}
  BY <1>5
<1>7. <<b>> \in Seq(SUBSET Nat) /\ Len(<<b>>) = 1 /\ DOMAIN <<b>> = {1} /\ <<b>>[1] = b
  BY <1>5
<1>8. openDefault = <<b>>
  BY <1>3 DEF openDefault
<1> QED
  BY <1>2, <1>4, <1>6, <1>7, <1>8

\* What is left to be tried, in groups that share nothing.
Grouped(left) ==
  /\ left \in Seq(SUBSET Nat) /\ Len(left) <= 3
  /\ \A k \in DOMAIN left : left[k] \subseteq DOMAIN devices
  /\ \A j, k \in DOMAIN left : j # k => left[j] \cap left[k] = {}

\* A single group is grouped.
LEMMA OneGroup ==
  ASSUME NEW left, left \in Seq(SUBSET Nat), Len(left) = 1, DOMAIN left = {1}, left[1] \subseteq DOMAIN devices
  PROVE  Grouped(left)
<1>1. Len(left) <= 3
  OBVIOUS
<1>2. \A k \in DOMAIN left : k = 1
  OBVIOUS
<1> QED
  BY <1>1, <1>2 DEF Grouped

\* The three are, and leave nobody out.
LEMMA AllGroups ==
  ASSUME devices \in Lists, NEW id
  PROVE  Grouped(openOrFallback(id)) /\ \A i \in DOMAIN devices : \E k \in DOMAIN openOrFallback(id) : i \in openOrFallback(id)[k]
<1>1. PICK left : left = openOrFallback(id)
  OBVIOUS
<1>2. /\ left \in Seq(SUBSET Nat) /\ Len(left) = 3 /\ DOMAIN left = {1, 2, 3}
      /\ left[1] = Named(id) /\ left[2] = Preferred(id) /\ left[3] = Others(id)
  BY <1>1, GroupsShareNothing
<1>3. /\ Named(id) \subseteq DOMAIN devices /\ Preferred(id) \subseteq DOMAIN devices /\ Others(id) \subseteq DOMAIN devices
      /\ Named(id) \cap Preferred(id) = {} /\ Named(id) \cap Others(id) = {} /\ Preferred(id) \cap Others(id) = {}
      /\ \A i \in DOMAIN devices : i \in Named(id) \/ i \in Preferred(id) \/ i \in Others(id)
  BY GroupsShareNothing
<1>4. \A k \in DOMAIN left : k = 1 \/ k = 2 \/ k = 3
  BY <1>2
<1>5. \A k \in DOMAIN left : left[k] \subseteq DOMAIN devices
  BY <1>2, <1>3, <1>4
<1>6. ASSUME NEW j \in DOMAIN left, NEW k \in DOMAIN left, j # k PROVE left[j] \cap left[k] = {}
  <2>1. left[1] \cap left[2] = {} /\ left[1] \cap left[3] = {} /\ left[2] \cap left[3] = {}
    BY <1>2, <1>3
  <2>2. CASE j = 1
    BY <1>4, <1>6, <2>1, <2>2
  <2>3. CASE j = 2
    BY <1>4, <1>6, <2>1, <2>3
  <2>4. CASE j = 3
    BY <1>4, <1>6, <2>1, <2>4
  <2> QED
    BY <1>4, <2>2, <2>3, <2>4
<1>7. \A i \in DOMAIN devices : \E k \in DOMAIN left : i \in left[k]
  BY <1>2, <1>3
<1>8. Len(left) <= 3
  BY <1>2
<1>9. Grouped(left)
  BY <1>2, <1>5, <1>6, <1>8 DEF Grouped
<1> QED
  BY <1>1, <1>7, <1>9

\* Nothing has been tried.
LEMMA NoneTried == ASSUME NEW none, none = <<>> PROVE none \in Seq(Nat) /\ DOMAIN none = {}
<1>1. none \in Seq(Nat) /\ Len(none) = 0
  BY EmptySeq
<1>2. DOMAIN none = 1..Len(none)
  BY <1>1
<1>3. 1..0 = {}
  OBVIOUS
<1> QED
  BY <1>1, <1>2, <1>3

\* A call begins with everything left to be tried.
LEMMA OpenKeeps == ManagerInv /\ open => ManagerInv'
<1> SUFFICES ASSUME ManagerInv, open PROVE ManagerInv'
  OBVIOUS
<1>1. PICK asked \in Asked, id \in {d.id : d \in Hardware} \cup {"", "gone"}, way \in {"open", "openDefault", "openOrFallback"} :
        call' = [stage |-> "trying", asked |-> asked, id |-> id, way |-> way, tried |-> <<>>, opened |-> <<>>,
                 left |-> CASE way = "openOrFallback" -> openOrFallback(id)
                            [] way = "openDefault" -> openDefault
                            [] OTHER -> <<Named(id)>>]
  BY DEF open
<1>2. UNCHANGED <<connected, willing, devices>> /\ devices \in Lists
  BY DEF open, ManagerInv
<1>3. PICK left : left = CASE way = "openOrFallback" -> openOrFallback(id)
                           [] way = "openDefault" -> openDefault
                           [] OTHER -> <<Named(id)>>
  OBVIOUS
<1>4. /\ call'.stage = "trying" /\ call'.asked = asked /\ call'.id = id /\ call'.way = way /\ call'.tried = <<>> /\ call'.opened = <<>>
      /\ call'.left = left /\ DOMAIN call' = {"stage", "asked", "id", "way", "tried", "opened", "left"}
  BY <1>1, <1>3
<1>5. UNCHANGED defaultIndex
  BY <1>2 DEF defaultIndex, ByDefault, Playing
<1>6. openOrFallback(id)' = openOrFallback(id)
  BY <1>2, <1>5 DEF openOrFallback, Named, Preferred, Others
<1>7. Grouped(left) /\ (way = "openOrFallback" => \A i \in DOMAIN devices : \E k \in DOMAIN left : i \in left[k])
  <2>1. CASE way = "openOrFallback"
    <3>1. left = openOrFallback(id)
      BY <1>3, <2>1
    <3> QED
      BY <1>2, <3>1, AllGroups
  <2>2. CASE way = "openDefault"
    <3>1. left = openDefault
      BY <1>3, <2>2
    <3>2. left \in Seq(SUBSET Nat) /\ Len(left) = 1 /\ DOMAIN left = {1} /\ left[1] \subseteq DOMAIN devices
      BY <1>2, <3>1, FewerGroups
    <3>3. Grouped(left)
      BY <3>2, OneGroup
    <3> QED
      BY <2>2, <3>3
  <2>3. CASE way = "open"
    <3>1. left = <<Named(id)>>
      BY <1>3, <2>3
    <3>2. left \in Seq(SUBSET Nat) /\ Len(left) = 1 /\ DOMAIN left = {1} /\ left[1] \subseteq DOMAIN devices
      BY <1>2, <3>1, FewerGroups
    <3>3. Grouped(left)
      BY <3>2, OneGroup
    <3> QED
      BY <2>3, <3>3
  <2> QED
    BY <2>1, <2>2, <2>3
<1>g. /\ left \in Seq(SUBSET Nat) /\ Len(left) <= 3
      /\ \A k \in DOMAIN left : left[k] \subseteq DOMAIN devices
      /\ \A j, k \in DOMAIN left : j # k => left[j] \cap left[k] = {}
  BY <1>7 DEF Grouped
<1>8. call'.tried \in Seq(Nat) /\ DOMAIN call'.tried = {}
  BY <1>4, NoneTried
<1>9. CallTypes'
  BY <1>4, <1>g, <1>8 DEF CallTypes
<1>10. TriedOrLeft'
  BY <1>2, <1>4, <1>g, <1>8 DEF TriedOrLeft
<1>11. AllOfThem'
  BY <1>2, <1>3, <1>4, <1>6, <1>7 DEF AllOfThem
<1>12. Answers'
  BY <1>4, <1>8 DEF Answers
<1>13. NullIsWilling'
  BY <1>2 DEF NullIsWilling, ManagerInv
<1> QED
  BY <1>2, <1>4, <1>9, <1>10, <1>11, <1>12, <1>13 DEF ManagerInv, CallInv
-------------------------------------------------------------------------------
(* A try.                                                                      *)

\* One more is tried.
Trying(x, g, opened) ==
  /\ g \in DOMAIN call.left /\ x \in call.left[g]
  /\ call'.stage = "trying" /\ call'.asked = call.asked /\ call'.id = call.id /\ call'.way = call.way
  /\ call'.tried = Append(call.tried, x) /\ call'.left = [call.left EXCEPT ![g] = @ \ {x}] /\ call'.opened = opened
  /\ DOMAIN call' = DOMAIN call
  /\ UNCHANGED <<connected, willing, devices>>

\* The first of the first group that has any left.
TheFirst(x, g) == Groups # {} /\ g = FirstOf(Groups) /\ x = FirstOf(call.left[g])
Outcome(x, opened) ==
  LET effective == negotiateConfig(devices[x], call.asked)
      opens == isValid(effective) /\ devices[x] \in willing
  IN opened = IF opens THEN <<effective>> ELSE <<>>

\* There is one to be tried next.
LEMMA GroupsAreFirst ==
  ASSUME CallTypes, Groups # {}
  PROVE  LET g == FirstOf(Groups)  x == FirstOf(call.left[g])
         IN /\ g \in DOMAIN call.left /\ x \in call.left[g]
            /\ \A k \in Groups : g <= k
<1>1. call.left \in Seq(SUBSET Nat)
  BY DEF CallTypes
<1>2. DOMAIN call.left \subseteq Nat /\ \A k \in DOMAIN call.left : call.left[k] \subseteq Nat
  BY <1>1
<1>3. PICK g : g = FirstOf(Groups)
  OBVIOUS
<1>4. Groups \subseteq Nat
  BY <1>2 DEF Groups
<1>5. g \in Groups /\ \A k \in Groups : g <= k
  BY <1>3, <1>4, FirstIs
<1>6. g \in DOMAIN call.left /\ call.left[g] # {} /\ call.left[g] \subseteq Nat
  BY <1>2, <1>5 DEF Groups
<1>7. FirstOf(call.left[g]) \in call.left[g]
  BY <1>6, FirstIs
<1> QED
  BY <1>3, <1>5, <1>6, <1>7

\* openAt() tries it.
LEMMA OpenAtTries ==
  ASSUME openAt, call.stage = "trying", CallTypes
  PROVE  \E x, g, opened : call.opened = <<>> /\ Trying(x, g, opened) /\ TheFirst(x, g) /\ Outcome(x, opened)
<1>1. PICK g : g = FirstOf(Groups)
  OBVIOUS
<1>2. PICK x : x = FirstOf(call.left[g])
  OBVIOUS
<1>3. PICK effective : effective = negotiateConfig(devices[x], call.asked)
  OBVIOUS
<1>4. PICK opened : opened = IF isValid(effective) /\ devices[x] \in willing THEN <<effective>> ELSE <<>>
  OBVIOUS
<1>5. Groups # {} /\ call.opened = <<>> /\ UNCHANGED <<connected, willing, devices>>
  BY DEF openAt
<1>6. call' = [call EXCEPT !.tried = Append(@, x), !.left[g] = @ \ {x}, !.opened = opened]
  BY <1>1, <1>2, <1>3, <1>4 DEF openAt
<1>7. g \in DOMAIN call.left /\ x \in call.left[g]
  BY <1>1, <1>2, <1>5, GroupsAreFirst
<1>8. DOMAIN call = {"stage", "asked", "id", "way", "tried", "opened", "left"}
  BY DEF CallTypes
<1>9. Trying(x, g, opened)
  BY <1>5, <1>6, <1>7, <1>8 DEF Trying
<1> QED
  BY <1>1, <1>2, <1>3, <1>4, <1>5, <1>9 DEF TheFirst, Outcome

\* One more at the end of what has been tried.
LEMMA Appended ==
  ASSUME NEW tried \in Seq(Nat), NEW x \in Nat, NEW now, now = Append(tried, x)
  PROVE  /\ now \in Seq(Nat) /\ now # <<>> /\ DOMAIN now = DOMAIN tried \cup {Len(now)} /\ now[Len(now)] = x
         /\ Len(now) \notin DOMAIN tried
         /\ \A k \in DOMAIN tried : now[k] = tried[k]
<1>1. Len(tried) \in Nat /\ DOMAIN tried = 1..Len(tried)
  OBVIOUS
<1>2. now \in Seq(Nat) /\ Len(now) = Len(tried) + 1 /\ now[Len(tried) + 1] = x /\ DOMAIN now = 1..Len(tried) + 1
      /\ \A k \in 1..Len(tried) : now[k] = tried[k]
  BY <1>1, AppendProperties
<1>3. 1..Len(tried) + 1 = 1..Len(tried) \cup {Len(tried) + 1} /\ Len(tried) + 1 \notin 1..Len(tried)
  BY <1>1
<1>4. now # <<>>
  BY <1>2, EmptySeq
<1> QED
  BY <1>1, <1>2, <1>3, <1>4
-------------------------------------------------------------------------------
(* What a try leaves.                                                          *)

\* What a try changes, apart from the order it was in.
LEMMA Tried ==
  ASSUME devices \in Lists, CallTypes, TriedOrLeft, NEW x, NEW g, NEW opened, Trying(x, g, opened)
  PROVE  /\ x \in DOMAIN devices /\ x \in Nat
         /\ call'.tried \in Seq(Nat) /\ call'.tried # <<>>
         /\ DOMAIN call'.tried = DOMAIN call.tried \cup {Len(call'.tried)} /\ call'.tried[Len(call'.tried)] = x
         /\ Len(call'.tried) \notin DOMAIN call.tried
         /\ \A k \in DOMAIN call.tried : call'.tried[k] = call.tried[k]
         /\ call'.left \in Seq(SUBSET Nat) /\ Len(call'.left) = Len(call.left) /\ DOMAIN call'.left = DOMAIN call.left
         /\ \A k \in DOMAIN call.left : call'.left[k] = IF k = g THEN call.left[g] \ {x} ELSE call.left[k]
<1>1. DOMAIN devices \subseteq Nat
  BY ListsAre
<1>2. x \in DOMAIN devices /\ x \in Nat /\ g \in DOMAIN call.left
  BY <1>1 DEF Trying, TriedOrLeft
<1>3. PICK now : now = call'.tried
  OBVIOUS
<1>4. now = Append(call.tried, x) /\ call.tried \in Seq(Nat)
  BY <1>3 DEF Trying, CallTypes
<1>5. /\ now \in Seq(Nat) /\ now # <<>> /\ DOMAIN now = DOMAIN call.tried \cup {Len(now)} /\ now[Len(now)] = x
      /\ Len(now) \notin DOMAIN call.tried /\ \A k \in DOMAIN call.tried : now[k] = call.tried[k]
  BY <1>2, <1>4, Appended
<1>6. PICK left : left = call'.left
  OBVIOUS
<1>7. left = [call.left EXCEPT ![g] = @ \ {x}] /\ call.left \in Seq(SUBSET Nat)
  BY <1>6 DEF Trying, CallTypes
<1>8. left \in Seq(SUBSET Nat) /\ Len(left) = Len(call.left) /\ DOMAIN left = DOMAIN call.left
      /\ \A k \in DOMAIN call.left : left[k] = IF k = g THEN call.left[g] \ {x} ELSE call.left[k]
  <2>1. call.left[g] \ {x} \in SUBSET Nat
    BY <1>2, <1>7
  <2>2. left \in Seq(SUBSET Nat) /\ Len(left) = Len(call.left) /\ DOMAIN left = DOMAIN call.left
    BY <1>2, <1>7, <2>1, ExceptSeq
  <2> QED
    BY <1>2, <1>7, <2>2
<1> QED
  BY <1>2, <1>3, <1>5, <1>6, <1>8

\* What is tried goes over from what is left.
LEMMA TryKeepsGroups ==
  ASSUME devices \in Lists, CallTypes, TriedOrLeft, NEW x, NEW g, NEW opened, Trying(x, g, opened)
  PROVE  CallTypes' /\ TriedOrLeft'
<1>1. /\ x \in DOMAIN devices
      /\ call'.tried \in Seq(Nat)
      /\ DOMAIN call'.tried = DOMAIN call.tried \cup {Len(call'.tried)} /\ call'.tried[Len(call'.tried)] = x
      /\ Len(call'.tried) \notin DOMAIN call.tried
      /\ \A k \in DOMAIN call.tried : call'.tried[k] = call.tried[k]
      /\ call'.left \in Seq(SUBSET Nat) /\ Len(call'.left) = Len(call.left) /\ DOMAIN call'.left = DOMAIN call.left
      /\ \A k \in DOMAIN call.left : call'.left[k] = IF k = g THEN call.left[g] \ {x} ELSE call.left[k]
  BY Tried
<1>2. UNCHANGED devices /\ g \in DOMAIN call.left /\ x \in call.left[g]
  BY DEF Trying
<1>3. CallTypes'
  <2>1. call'.asked = call.asked /\ call'.way = call.way /\ DOMAIN call' = DOMAIN call
    BY DEF Trying
  <2>2. Len(call'.left) <= 3
    BY <1>1 DEF CallTypes
  <2> QED
    BY <1>1, <2>1, <2>2 DEF CallTypes
<1>4. \A k \in DOMAIN call'.tried : call'.tried[k] \in DOMAIN devices'
  BY <1>1, <1>2 DEF TriedOrLeft
<1>5. \A k \in DOMAIN call'.left : call'.left[k] \subseteq DOMAIN devices'
  BY <1>1, <1>2 DEF TriedOrLeft
<1>6. \A k \in DOMAIN call.tried : call.tried[k] # x
  BY <1>2 DEF TriedOrLeft
<1>7. \A j, k \in DOMAIN call'.tried : call'.tried[j] = call'.tried[k] => j = k
  <2> SUFFICES ASSUME NEW j \in DOMAIN call'.tried, NEW k \in DOMAIN call'.tried, call'.tried[j] = call'.tried[k] PROVE j = k
    OBVIOUS
  <2>1. j \in DOMAIN call.tried \/ j = Len(call'.tried)
    BY <1>1
  <2>2. k \in DOMAIN call.tried \/ k = Len(call'.tried)
    BY <1>1
  <2>3. CASE j \in DOMAIN call.tried /\ k \in DOMAIN call.tried
    BY <1>1, <2>3 DEF TriedOrLeft
  <2>4. CASE j \in DOMAIN call.tried /\ k = Len(call'.tried)
    BY <1>1, <1>6, <2>4
  <2>5. CASE k \in DOMAIN call.tried /\ j = Len(call'.tried)
    BY <1>1, <1>6, <2>5
  <2> QED
    BY <2>1, <2>2, <2>3, <2>4, <2>5
<1>8. \A j \in DOMAIN call'.tried, k \in DOMAIN call'.left : call'.tried[j] \notin call'.left[k]
  <2> SUFFICES ASSUME NEW j \in DOMAIN call'.tried, NEW k \in DOMAIN call'.left PROVE call'.tried[j] \notin call'.left[k]
    OBVIOUS
  <2>1. j \in DOMAIN call.tried \/ j = Len(call'.tried)
    BY <1>1
  <2>2. k \in DOMAIN call.left
    BY <1>1
  <2>3. CASE j \in DOMAIN call.tried
    <3>1. call.tried[j] \notin call.left[k] /\ call'.tried[j] = call.tried[j]
      BY <1>1, <2>2, <2>3 DEF TriedOrLeft
    <3> QED
      BY <1>1, <2>2, <3>1
  <2>4. CASE j = Len(call'.tried)
    <3>1. call'.tried[j] = x
      BY <1>1, <2>4
    <3>2. CASE k = g
      BY <1>1, <2>2, <3>1, <3>2
    <3>3. CASE k # g
      <4>1. x \notin call.left[k]
        BY <1>2, <2>2, <3>3 DEF TriedOrLeft
      <4> QED
        BY <1>1, <2>2, <3>1, <3>3, <4>1
    <3> QED
      BY <3>2, <3>3
  <2> QED
    BY <2>1, <2>3, <2>4
<1>9. \A j, k \in DOMAIN call'.left : j # k => call'.left[j] \cap call'.left[k] = {}
  <2> SUFFICES ASSUME NEW j \in DOMAIN call.left, NEW k \in DOMAIN call.left, j # k PROVE call'.left[j] \cap call'.left[k] = {}
    BY <1>1
  <2>1. call.left[j] \cap call.left[k] = {}
    BY DEF TriedOrLeft
  <2>2. call'.left[j] \subseteq call.left[j] /\ call'.left[k] \subseteq call.left[k]
    BY <1>1
  <2> QED
    BY <2>1, <2>2
<1>10. TriedOrLeft'
  BY <1>4, <1>5, <1>7, <1>8, <1>9 DEF TriedOrLeft
<1> QED
  BY <1>3, <1>10

\* The first to be tried.
LEMMA FirstTried ==
  ASSUME devices \in Lists, CallTypes, TriedOrLeft, call.left = openOrFallback(call.id), NEW x, NEW g, TheFirst(x, g)
  PROVE  TriesFirst(x, call.id)
<1> DEFINE id == call.id
<1>1. /\ DOMAIN call.left = {1, 2, 3} /\ call.left[1] = Named(id) /\ call.left[2] = Preferred(id) /\ call.left[3] = Others(id)
  BY GroupsShareNothing
<1>2. g \in DOMAIN call.left /\ x \in call.left[g] /\ \A k \in Groups : g <= k
  BY GroupsAreFirst DEF TheFirst
<1>3. g = 1 \/ g = 2 \/ g = 3
  BY <1>1, <1>2
<1>4. x \in DOMAIN devices
  BY <1>2 DEF TriedOrLeft
<1>5. CASE \E i \in DOMAIN devices : devices[i].id = id
  <2>1. PICK i \in DOMAIN devices : devices[i].id = id
    BY <1>5
  <2>2. i \in Named(id)
    <3>1. i \notin Preferred(id) /\ i \notin Others(id)
      BY <2>1 DEF Preferred, Others
    <3> QED
      BY <3>1, GroupsShareNothing
  <2>3. 1 \in Groups
    BY <1>1, <2>2 DEF Groups
  <2>4. g = 1
    BY <1>2, <1>3, <2>3
  <2>5. x \in Named(id)
    BY <1>1, <1>2, <2>4
  <2> QED
    BY <1>5, <2>5 DEF TriesFirst, Named
<1>6. CASE ~\E i \in DOMAIN devices : devices[i].id = id
  <2>1. devices # <<>>
    <3>1. devices \in Seq(Kind) /\ DOMAIN devices = 1..Len(devices)
      BY ListsAre
    <3>2. devices = <<>> => Len(devices) = 0
      BY <3>1, EmptySeq
    <3> QED
      BY <1>4, <3>1, <3>2
  <2>2. defaultIndex \in DOMAIN devices
    BY <2>1, DefaultListed
  <2>3. Named(id) = {} /\ Preferred(id) = {defaultIndex}
    BY <1>6, <2>2 DEF Named, Preferred
  <2>4. 2 \in Groups
    BY <1>1, <2>3 DEF Groups
  <2>5. g = 2
    BY <1>1, <1>2, <1>3, <2>3, <2>4
  <2>6. x = defaultIndex
    BY <1>1, <1>2, <2>3, <2>5
  <2> QED
    BY <1>6, <2>6 DEF TriesFirst
<1> QED
  BY <1>5, <1>6

\* Nobody is left out.
LEMMA TryKeepsAll ==
  ASSUME devices \in Lists, CallTypes, TriedOrLeft, AllOfThem, NEW x, NEW g, NEW opened, Trying(x, g, opened), TheFirst(x, g)
  PROVE  AllOfThem'
<1>1. /\ x \in DOMAIN devices /\ call'.tried # <<>> /\ call'.tried \in Seq(Nat)
      /\ DOMAIN call'.tried = DOMAIN call.tried \cup {Len(call'.tried)} /\ call'.tried[Len(call'.tried)] = x
      /\ \A k \in DOMAIN call.tried : call'.tried[k] = call.tried[k]
      /\ DOMAIN call'.left = DOMAIN call.left
      /\ \A k \in DOMAIN call.left : call'.left[k] = IF k = g THEN call.left[g] \ {x} ELSE call.left[k]
  BY Tried
<1>2. UNCHANGED devices /\ call'.way = call.way /\ call'.id = call.id /\ UNCHANGED defaultIndex
  BY DEF Trying, defaultIndex, ByDefault, Playing
<1>3. \A i : TriesFirst(i, call.id)' <=> TriesFirst(i, call.id)
  BY <1>2 DEF TriesFirst
<1> SUFFICES ASSUME call.way = "openOrFallback"
             PROVE  /\ \A i \in DOMAIN devices : i \in Range(call'.tried) \/ \E k \in DOMAIN call'.left : i \in call'.left[k]
                    /\ TriesFirst(call'.tried[1], call.id)
  BY <1>1, <1>2 DEF AllOfThem, TriesFirst
<1>4. ASSUME NEW i \in DOMAIN devices PROVE i \in Range(call'.tried) \/ \E k \in DOMAIN call'.left : i \in call'.left[k]
  <2>1. CASE i = x
    BY <1>1, <2>1 DEF Range
  <2>2. CASE i \in Range(call.tried)
    BY <1>1, <2>2 DEF Range
  <2>3. CASE i # x /\ \E k \in DOMAIN call.left : i \in call.left[k]
    <3>1. PICK k \in DOMAIN call.left : i \in call.left[k]
      BY <2>3
    <3>2. k \in DOMAIN call'.left /\ i \in call'.left[k]
      BY <1>1, <2>3, <3>1
    <3> QED
      BY <3>2
  <2> QED
    BY <2>1, <2>2, <2>3 DEF AllOfThem
<1>5. TriesFirst(call'.tried[1], call.id)
  <2>1. call.tried \in Seq(Nat) /\ DOMAIN call.tried = 1..Len(call.tried) /\ Len(call.tried) \in Nat
    BY DEF CallTypes
  <2>2. CASE call.tried = <<>>
    <3>1. TriesFirst(x, call.id)
      BY <2>2, FirstTried DEF AllOfThem
    <3>2. call'.tried = Append(call.tried, x) /\ Len(call.tried) = 0
      BY <2>1, <2>2, EmptySeq DEF Trying
    <3>3. Len(call'.tried) = 1
      BY <2>1, <3>2, <1>1, AppendProperties
    <3> QED
      BY <1>1, <3>1, <3>3
  <2>3. CASE call.tried # <<>>
    <3>1. 1 \in DOMAIN call.tried
      BY <2>1, <2>3, EmptySeq
    <3> QED
      BY <1>1, <2>3, <3>1 DEF AllOfThem
  <2> QED
    BY <2>2, <2>3
<1> QED
  BY <1>4, <1>5

\* What opens is granted, and the null device opens for whoever wants to be heard.
LEMMA TryAnswers ==
  ASSUME devices \in Lists, CallTypes, TriedOrLeft, Answers, call.opened = <<>>, NullIsWilling,
         NEW x, NEW g, NEW opened, Trying(x, g, opened), Outcome(x, opened)
  PROVE  Answers'
<1>1. /\ x \in DOMAIN devices /\ call'.tried # <<>>
      /\ DOMAIN call'.tried = DOMAIN call.tried \cup {Len(call'.tried)} /\ call'.tried[Len(call'.tried)] = x
      /\ \A k \in DOMAIN call.tried : call'.tried[k] = call.tried[k]
  BY Tried
<1>2. UNCHANGED devices /\ call'.opened = opened /\ call'.asked = call.asked
  BY DEF Trying
<1>3. devices[x] \in Kind /\ (devices[x].id = NullId => devices[x].outputs > 0) /\ call.asked \in Wish
  <2>1. call.asked \in Wish
    BY AskedAssumption DEF CallTypes, Wish
  <2> QED
    BY <1>1, <2>1, ListsAre
<1>4. PICK got : got = negotiateConfig(devices[x], call.asked)
  OBVIOUS
<1>5. CASE isValid(got) /\ devices[x] \in willing
  <2>1. opened = <<got>>
    BY <1>4, <1>5 DEF Outcome
  <2>2. opened # <<>> /\ opened[1] = got
    BY <2>1
  <2>3. Granted(devices[x], call.asked, got)
    BY <1>3, <1>4, NegotiatedIsGranted
  <2>4. devices'[call'.tried[Len(call'.tried)]] = devices[x] /\ call'.opened[1] = got
    BY <1>1, <1>2, <2>2
  <2>5. Granted(devices'[call'.tried[Len(call'.tried)]], call'.asked, call'.opened[1])
    BY <1>2, <2>3, <2>4
  <2>6. call'.opened = <<call'.opened[1]>> /\ call'.opened # <<>>
    BY <1>2, <2>1, <2>2, <2>4
  <2> QED
    BY <1>1, <2>5, <2>6 DEF Answers
<1>6. CASE ~(isValid(got) /\ devices[x] \in willing)
  <2>1. opened = <<>>
    BY <1>4, <1>6 DEF Outcome
  <2>2. devices[x].id = NullId => call.asked.outputs = 0
    <3> SUFFICES ASSUME devices[x].id = NullId PROVE call.asked.outputs = 0
      OBVIOUS
    <3>1. devices[x] \in willing
      BY <1>1 DEF NullIsWilling
    <3> QED
      BY <1>3, <1>4, <1>6, <3>1, ValidIfHeard
  <2>3. \A k \in DOMAIN call'.tried : devices[call'.tried[k]].id = NullId => call.asked.outputs = 0
    BY <1>1, <2>2 DEF Answers
  <2> QED
    BY <1>2, <2>1, <2>3 DEF Answers
<1> QED
  BY <1>5, <1>6

\* A try keeps the invariant.
LEMMA OpenAtKeeps == ManagerInv /\ openAt => ManagerInv'
<1> SUFFICES ASSUME ManagerInv, openAt PROVE ManagerInv'
  OBVIOUS
<1>1. devices \in Lists /\ call.stage = "trying" /\ CallTypes /\ TriedOrLeft /\ AllOfThem /\ Answers /\ NullIsWilling
  BY DEF ManagerInv, CallInv, openAt, NoCall
<1>2. PICK x, g, opened : call.opened = <<>> /\ Trying(x, g, opened) /\ TheFirst(x, g) /\ Outcome(x, opened)
  BY <1>1, OpenAtTries
<1>3. CallTypes' /\ TriedOrLeft'
  BY <1>1, <1>2, TryKeepsGroups
<1>4. AllOfThem'
  BY <1>1, <1>2, TryKeepsAll
<1>5. Answers'
  BY <1>1, <1>2, TryAnswers
<1>6. UNCHANGED <<connected, willing, devices>> /\ call'.stage = "trying"
  BY <1>2 DEF Trying
<1>7. NullIsWilling'
  BY <1>1, <1>6 DEF NullIsWilling
<1> QED
  BY <1>3, <1>4, <1>5, <1>6, <1>7 DEF ManagerInv, CallInv
-------------------------------------------------------------------------------
(* The manager.                                                                *)

\* Nothing happens.
LEMMA ManagerStands == ManagerInv /\ UNCHANGED managerVars => ManagerInv'
<1> SUFFICES ASSUME ManagerInv, UNCHANGED managerVars PROVE ManagerInv'
  OBVIOUS
<1>1. CallInv'
  BY CallStands DEF ManagerInv, managerVars, CallsKeep
<1> QED
  BY <1>1 DEF ManagerInv, managerVars, NullIsWilling

\* Every action.
LEMMA ManagerKeeps == ManagerInv /\ ManagerNext => ManagerInv'
BY RefreshKeeps, HardwareKeeps, OpenKeeps, OpenAtKeeps, AnswerKeeps DEF ManagerNext

\* The property follows.
LEMMA ManagerFallsBack == ManagerInv => FallsBackOnSomething
<1> SUFFICES ASSUME ManagerInv, call.stage = "trying" PROVE FallsBackOnSomething
  BY DEF FallsBackOnSomething
<1>1. devices \in Lists /\ CallTypes /\ TriedOrLeft /\ AllOfThem /\ Answers
  BY DEF ManagerInv, CallInv, NoCall
<1>2. IsInjective(call.tried)
  BY <1>1 DEF TriedOrLeft, IsInjective
<1>3. ASSUME call.way = "openOrFallback", call.opened = <<>>, Groups = {}
      PROVE  /\ Range(call.tried) = DOMAIN devices
             /\ call.asked.outputs = 0 \/ \A i \in DOMAIN devices : devices[i].id # NullId
  <2>1. \A k \in DOMAIN call.left : call.left[k] = {}
    BY <1>3 DEF Groups
  <2>2. Range(call.tried) = DOMAIN devices
    <3>1. \A i \in DOMAIN devices : i \in Range(call.tried)
      BY <1>1, <1>3, <2>1 DEF AllOfThem
    <3>2. \A i \in Range(call.tried) : i \in DOMAIN devices
      BY <1>1 DEF TriedOrLeft, Range
    <3> QED
      BY <3>1, <3>2
  <2>3. \A i \in DOMAIN devices : devices[i].id = NullId => call.asked.outputs = 0
    BY <1>1, <1>3, <2>2 DEF Answers, Range
  <2> QED
    BY <2>2, <2>3
<1>4. call.way = "openOrFallback" /\ call.tried # <<>> => TriesFirst(call.tried[1], call.id)
  BY <1>1 DEF AllOfThem
<1>5. call.opened # <<>> => Granted(devices[Last(call.tried)], call.asked, call.opened[1])
  BY <1>1 DEF Answers, Last
<1> QED
  BY <1>2, <1>3, <1>4, <1>5 DEF FallsBackOnSomething

\* The manager's part of the composition.
ManagerHolds == part = "devices" => ManagerInv

\* Whatever the lists of devices, which of them come, go and refuse between two tries,
\* and whatever is asked for: a fallback tries every device once, the remembered one
\* first, then the default one, refuses only when all have, which they do not where the
\* null device is listed and sound is asked for, and what opens is what the device has
\* (openOrFallback, negotiateConfig).
THEOREM SomethingAlwaysPlays == ProgramsSpec => []SomethingPlays
<1>1. ProgramsInit => ManagerHolds
  BY InitManages DEF ProgramsInit, ManagerHolds
<1>2. ManagerHolds /\ [ProgramsNext]_<<part, cliVars, settingsVars, managerVars, windowVars>> => ManagerHolds'
  <2> SUFFICES ASSUME ManagerHolds, [ProgramsNext]_<<part, cliVars, settingsVars, managerVars, windowVars>>, part' = "devices" PROVE ManagerInv'
    BY DEF ManagerHolds
  <2>1. UNCHANGED part
    BY DEF ProgramsNext
  <2>2. ManagerNext \/ UNCHANGED managerVars
    BY <2>1 DEF ProgramsNext
  <2> QED
    BY <2>1, <2>2, ManagerKeeps, ManagerStands DEF ManagerHolds
<1>3. ManagerHolds => SomethingPlays
  BY ManagerFallsBack DEF ManagerHolds, SomethingPlays
<1> QED
  BY <1>1, <1>2, <1>3, PTL DEF ProgramsSpec
-------------------------------------------------------------------------------
(* The views and the ruler: one document, one selection, one range.            *)

\* What is selected in a view is in its document.
SelectedIn(v) == 0 <= v.selection.start /\ v.selection.start <= v.selection.end /\ v.selection.end <= v.total
\* A view has these, whatever else it has.
IsSelection(c) == c \in [start : Int, end : Int]
IsView(v) ==
  /\ {"total", "start", "length", "selection"} \subseteq DOMAIN v
  /\ v.total \in Nat /\ v.start \in Int /\ v.length \in Int /\ IsSelection(v.selection)
\* Its range is within the document where the document is as long as the plot is wide.
Fits(v, columns) ==
  /\ v.total = 0 => v.start = 0 /\ v.length = 0
  /\ 0 < v.total /\ columns <= v.total => 0 <= v.start /\ v.start + v.length <= v.total /\ columns <= v.length /\ 0 < v.length
  /\ 0 < v.total /\ v.total < columns => v.start = 0 /\ v.total <= v.length
IsRuler(r) == {"start", "length", "selection"} \subseteq DOMAIN r

\* What a view is but for its range, and but for its selection.
SameButRange(v, w) == w.total = v.total /\ w.selection = v.selection

\* What clamping leaves of a view fits its document (TimeViews: clampedTo).
LEMMA ClampedFits == ASSUME NEW v, IsView(v), NEW columns \in Nat
                     PROVE /\ IsView(Views!clampedTo(v, columns)) /\ SameButRange(v, Views!clampedTo(v, columns))
                           /\ Fits(Views!clampedTo(v, columns), columns) /\ DOMAIN Views!clampedTo(v, columns) = DOMAIN v
<1> DEFINE w == Views!clampedTo(v, columns)
           least == Views!AtLeast(columns, 1)
           length == Views!StdClamp(v.length, least, v.total)
           most == Views!AtLeast(v.total - length, 0)
           start == Views!StdClamp(v.start, 0, most)
<1>1. /\ v.total \in Nat /\ v.start \in Int /\ v.length \in Int /\ IsSelection(v.selection)
      /\ {"total", "start", "length", "selection"} \subseteq DOMAIN v
  BY DEF IsView
<1>2. least \in Nat /\ least >= 1 /\ least >= columns /\ (columns >= 1 => least = columns) /\ (columns = 0 => least = 1)
  BY DEF Views!AtLeast
<1>3. length \in Int /\ (least <= v.total => length \in least..v.total) /\ (v.total < least => length \in {least, v.total})
  BY <1>1, <1>2 DEF Views!StdClamp
<1>4. most \in Int /\ most >= 0 /\ (length <= v.total => most = v.total - length) /\ (v.total <= length => most = 0)
  BY <1>1, <1>3 DEF Views!AtLeast
<1>5. start \in Int /\ start \in 0..most
  BY <1>1, <1>4 DEF Views!StdClamp
<1> HIDE DEF least, length, most, start
<1>6. CASE v.total <= 0
  <2>1. w = [v EXCEPT !.start = 0, !.length = 0]
    BY <1>6 DEF Views!clampedTo
  <2>2. DOMAIN w = DOMAIN v /\ w.total = v.total /\ w.selection = v.selection /\ w.start = 0 /\ w.length = 0
    BY <2>1, <1>1
  <2> QED
    BY <2>2, <1>1, <1>6 DEF IsView, Fits, SameButRange
<1>7. CASE v.total > 0
  <2>1. w = [v EXCEPT !.length = length, !.start = start]
    BY <1>7, <1>1 DEF Views!clampedTo, length, start, most, least
  <2>2. DOMAIN w = DOMAIN v /\ w.total = v.total /\ w.selection = v.selection /\ w.start = start /\ w.length = length
    BY <2>1, <1>1
  <2>3. IsView(w) /\ SameButRange(v, w)
    BY <2>2, <1>1, <1>3, <1>5 DEF IsView, SameButRange
  <2>4. columns <= v.total => 0 <= start /\ start + length <= v.total /\ columns <= length /\ 0 < length
    BY <1>1, <1>2, <1>3, <1>4, <1>5, <1>7
  <2>5. v.total < columns => start = 0 /\ v.total <= length
    BY <1>1, <1>2, <1>3, <1>4, <1>5, <1>7
  <2> QED
    BY <2>2, <2>3, <2>4, <2>5, <1>7 DEF Fits
<1> QED
  BY <1>6, <1>7, <1>1

\* A range that fits stays.
LEMMA FittingStays == ASSUME NEW v, IsView(v), NEW columns \in Nat, NEW a \in Int, NEW b \in Int, 0 < v.total, columns <= v.total,
                             0 <= a, a + b <= v.total, columns <= b, 0 < b
                      PROVE /\ Views!clampedTo([v EXCEPT !.start = a, !.length = b], columns).start = a
                            /\ Views!clampedTo([v EXCEPT !.start = a, !.length = b], columns).length = b
<1> DEFINE u == [v EXCEPT !.start = a, !.length = b]
           least == Views!AtLeast(columns, 1)
           length == Views!StdClamp(u.length, least, u.total)
           most == Views!AtLeast(u.total - length, 0)
           start == Views!StdClamp(u.start, 0, most)
<1>1. u.total = v.total /\ u.start = a /\ u.length = b /\ DOMAIN u = DOMAIN v /\ v.total \in Nat /\ {"start", "length"} \subseteq DOMAIN v
  BY DEF IsView
<1> HIDE DEF u
<1>2. least \in Nat /\ least >= 1 /\ least <= b
  BY DEF Views!AtLeast
<1>3. b \in least..v.total
  BY <1>1, <1>2
<1>4. length = b
  BY <1>1, <1>2, <1>3 DEF Views!StdClamp
<1>5. most = v.total - b /\ most \in Int /\ a \in 0..most
  BY <1>1, <1>4 DEF Views!AtLeast
<1>6. start = a
  BY <1>1, <1>5 DEF Views!StdClamp
<1> HIDE DEF least, length, most, start
<1>7. Views!clampedTo(u, columns) = [u EXCEPT !.length = length, !.start = start]
  BY <1>1 DEF Views!clampedTo, length, start, most, least
<1>8. Views!clampedTo(u, columns).start = start /\ Views!clampedTo(u, columns).length = length
  BY <1>7, <1>1
<1> QED
  BY <1>4, <1>6, <1>8 DEF u

\* So does a view that is given a range (setViewRange).
LEMMA RangeFits == ASSUME NEW v, IsView(v), width \in Nat, NEW a \in Int, NEW b \in Int
                   PROVE /\ IsView(Views!setViewRange(v, a, b)) /\ Fits(Views!setViewRange(v, a, b), width)
                         /\ SameButRange(v, Views!setViewRange(v, a, b)) /\ DOMAIN Views!setViewRange(v, a, b) = DOMAIN v
<1> DEFINE u == [v EXCEPT !.start = a, !.length = b]
<1>1. IsView(u) /\ SameButRange(v, u) /\ DOMAIN u = DOMAIN v
  BY DEF IsView, SameButRange
<1>2. Views!setViewRange(v, a, b) = Views!clampedTo(u, width)
  BY DEF Views!setViewRange, Views!clampView
<1> HIDE DEF u
<1> QED
  BY <1>1, <1>2, ClampedFits DEF SameButRange

\* A view that is given another's range, of the same document, takes it.
LEMMA RangeTaken == ASSUME NEW v, NEW w, IsView(v), IsView(w), width \in Nat, Fits(v, width), 0 < v.total, w.total = v.total, width <= v.total
                    PROVE /\ Views!setViewRange(w, v.start, v.length).start = v.start
                          /\ Views!setViewRange(w, v.start, v.length).length = v.length
<1>1. v.start \in Int /\ v.length \in Int /\ v.total \in Nat
  BY DEF IsView
<1>2. 0 <= v.start /\ v.start + v.length <= v.total /\ width <= v.length /\ 0 < v.length
  BY DEF Fits
<1> QED
  BY <1>1, <1>2, FittingStays DEF Views!setViewRange, Views!clampView

\* A selection is ordered and clamped to the document, and moves no range (setSelection).
LEMMA SelectionFits == ASSUME NEW v, IsView(v), NEW a \in Int, NEW b \in Int
                       PROVE /\ IsView(Views!setSelection(v, a, b)) /\ SelectedIn(Views!setSelection(v, a, b))
                             /\ DOMAIN Views!setSelection(v, a, b) = DOMAIN v
                             /\ Views!setSelection(v, a, b).total = v.total
                             /\ Views!setSelection(v, a, b).start = v.start /\ Views!setSelection(v, a, b).length = v.length
<1> DEFINE low == IF b < a THEN b ELSE a
           high == IF b < a THEN a ELSE b
           from == Views!StdClamp(low, 0, v.total)
           to == Views!StdClamp(high, 0, v.total)
           w == Views!setSelection(v, a, b)
<1>1. v.total \in Nat /\ {"total", "start", "length", "selection"} \subseteq DOMAIN v /\ v.start \in Int /\ v.length \in Int
  BY DEF IsView
<1>2. low \in Int /\ high \in Int /\ low <= high
  OBVIOUS
<1> HIDE DEF low, high
<1>3. from \in 0..v.total /\ to \in 0..v.total
  BY <1>1, <1>2 DEF Views!StdClamp
<1>4. from <= to
  BY <1>1, <1>2 DEF Views!StdClamp
<1> HIDE DEF from, to
<1>6. w = [v EXCEPT !.selection = [start |-> from, end |-> to]]
  BY DEF Views!setSelection, from, to, low, high
<1>7. DOMAIN w = DOMAIN v /\ w.total = v.total /\ w.start = v.start /\ w.length = v.length /\ w.selection = [start |-> from, end |-> to]
  BY <1>1, <1>6
<1>8. IsView(w) /\ SelectedIn(w)
  BY <1>1, <1>3, <1>4, <1>7 DEF IsView, SelectedIn, IsSelection
<1> QED
  BY <1>7, <1>8

\* The same selection in two views of documents as long.
LEMMA SelectionTaken == ASSUME NEW v, IsView(v), NEW a \in Int, NEW b \in Int, 0 <= a, a <= b, b <= v.total
                        PROVE Views!setSelection(v, a, b).selection = [start |-> a, end |-> b]
<1>1. v.total \in Nat /\ "selection" \in DOMAIN v
  BY DEF IsView
<1>2. Views!StdClamp(a, 0, v.total) = a /\ Views!StdClamp(b, 0, v.total) = b
  BY <1>1 DEF Views!StdClamp
<1> QED
  BY <1>1, <1>2 DEF Views!setSelection

\* Two views of documents as long take one selection alike.
LEMMA SelectionsAgree == ASSUME NEW v, NEW w, IsView(v), IsView(w), v.total = w.total, NEW a, NEW b
                         PROVE Views!setSelection(v, a, b).selection = Views!setSelection(w, a, b).selection
BY DEF Views!setSelection, IsView

\* The two views and the ruler: one document, or none for the waveform; one selection,
\* and one range where the document is as long as the plot is wide.
Viewed(wave, spec, scale, columns) ==
  IsView(wave) /\ Fits(wave, columns) /\ IsView(spec) /\ Fits(spec, columns) /\ IsRuler(scale)
Paired(wave, spec, scale) ==
  /\ SelectedIn(wave) /\ SelectedIn(spec) /\ wave.total \in {0, spec.total}
  /\ wave.total > 0 => /\ wave.selection = spec.selection
                       /\ ~Views!Empty(scale.selection) => scale.selection = wave.selection
Aligned(wave, spec, scale, last, columns) ==
  wave.total > 0 /\ columns <= spec.total =>
    /\ wave.start = spec.start /\ wave.length = spec.length
    /\ last # "resized" => scale.start = wave.start /\ scale.length = wave.length
\* The same of the records that are handed on.
IsShown(s) == DOMAIN s = {"wave", "spec", "ruler", "lately"} /\ Viewed(s.wave, s.spec, s.ruler, width)
PairedIn(s) == IsShown(s) /\ Paired(s.wave, s.spec, s.ruler)
Together(s) == PairedIn(s) /\ Aligned(s.wave, s.spec, s.ruler, s.lately, width)

\* The waveform tells the spectrogram and the ruler of its range (waveformRanges).
LEMMA WaveTells == ASSUME NEW s, IsShown(s), width \in Nat, NEW v, IsView(v), Fits(v, width)
                   PROVE /\ IsShown(Views!waveformRanges(s, v)) /\ Views!waveformRanges(s, v).wave = v
                         /\ SameButRange(s.spec, Views!waveformRanges(s, v).spec)
                         /\ Views!waveformRanges(s, v).ruler.selection = s.ruler.selection
                         /\ v.total \in {0, s.spec.total} =>
                              Aligned(v, Views!waveformRanges(s, v).spec, Views!waveformRanges(s, v).ruler, "told", width)
                         /\ Views!waveformRanges(s, v).lately = "told"
<1> DEFINE t == Views!waveformRanges(s, v)
           w == Views!setViewRange(s.spec, v.start, v.length)
<1>1. DOMAIN s = {"wave", "spec", "ruler", "lately"} /\ IsView(s.spec) /\ IsRuler(s.ruler) /\ v.start \in Int /\ v.length \in Int
  BY DEF IsShown, Viewed, IsView
<1>2. IsView(w) /\ Fits(w, width) /\ SameButRange(s.spec, w)
  BY <1>1, RangeFits
<1>3. 0 < v.total /\ width <= v.total /\ s.spec.total = v.total => w.start = v.start /\ w.length = v.length
  BY <1>1, RangeTaken
<1> HIDE DEF w
<1>4. t = [[s EXCEPT !.wave = v, !.spec = w] EXCEPT !.ruler.start = v.start, !.ruler.length = v.length, !.lately = "told"]
  BY DEF Views!waveformRanges, Views!RulerRange, w
<1> HIDE DEF t
<1>5. /\ DOMAIN t = DOMAIN s /\ t.wave = v /\ t.spec = w /\ DOMAIN t.ruler = DOMAIN s.ruler /\ t.lately = "told"
      /\ t.ruler.start = v.start /\ t.ruler.length = v.length /\ t.ruler.selection = s.ruler.selection
  BY <1>1, <1>4 DEF IsRuler
<1>6. IsShown(t)
  BY <1>1, <1>2, <1>5 DEF IsShown, Viewed, IsRuler, SameButRange
<1>7. v.total \in {0, s.spec.total} => Aligned(v, w, t.ruler, "told", width)
  BY <1>2, <1>3, <1>5 DEF Aligned, SameButRange, IsView
<1> QED
  BY <1>2, <1>5, <1>6, <1>7 DEF t

\* And the spectrogram the waveform and the ruler (spectrogramRanges).
LEMMA SpecTells == ASSUME NEW s, IsShown(s), width \in Nat, NEW v, IsView(v), Fits(v, width)
                   PROVE /\ IsShown(Views!spectrogramRanges(s, v)) /\ Views!spectrogramRanges(s, v).spec = v
                         /\ SameButRange(s.wave, Views!spectrogramRanges(s, v).wave)
                         /\ Views!spectrogramRanges(s, v).ruler.selection = s.ruler.selection
                         /\ s.wave.total \in {0, v.total} =>
                              Aligned(Views!spectrogramRanges(s, v).wave, v, Views!spectrogramRanges(s, v).ruler, "told", width)
                         /\ Views!spectrogramRanges(s, v).lately = "told"
<1> DEFINE t == Views!spectrogramRanges(s, v)
           w == Views!setViewRange(s.wave, v.start, v.length)
<1>1. DOMAIN s = {"wave", "spec", "ruler", "lately"} /\ IsView(s.wave) /\ IsRuler(s.ruler) /\ v.start \in Int /\ v.length \in Int
  BY DEF IsShown, Viewed, IsView
<1>2. IsView(w) /\ Fits(w, width) /\ SameButRange(s.wave, w)
  BY <1>1, RangeFits
<1>3. 0 < v.total /\ width <= v.total /\ s.wave.total = v.total => w.start = v.start /\ w.length = v.length
  BY <1>1, RangeTaken
<1> HIDE DEF w
<1>4. t = [[s EXCEPT !.spec = v, !.wave = w] EXCEPT !.ruler.start = v.start, !.ruler.length = v.length, !.lately = "told"]
  BY DEF Views!spectrogramRanges, Views!RulerRange, w
<1> HIDE DEF t
<1>5. /\ DOMAIN t = DOMAIN s /\ t.wave = w /\ t.spec = v /\ DOMAIN t.ruler = DOMAIN s.ruler /\ t.lately = "told"
      /\ t.ruler.start = v.start /\ t.ruler.length = v.length /\ t.ruler.selection = s.ruler.selection
  BY <1>1, <1>4 DEF IsRuler
<1>6. IsShown(t)
  BY <1>1, <1>2, <1>5 DEF IsShown, Viewed, IsRuler, SameButRange
<1>7. s.wave.total \in {0, v.total} => Aligned(w, v, t.ruler, "told", width)
  BY <1>2, <1>3, <1>5 DEF Aligned, SameButRange, IsView
<1> QED
  BY <1>2, <1>5, <1>6, <1>7 DEF t

\* A range that moves leaves documents and selections as they were.
LEMMA PairedStay == ASSUME NEW wave, NEW spec, NEW scale, Paired(wave, spec, scale), NEW v, NEW w, NEW r,
                           SameButRange(wave, v), SameButRange(spec, w), r.selection = scale.selection
                    PROVE Paired(v, w, r)
BY DEF Paired, SameButRange, SelectedIn

\* Telling of a range brings the three together, from the waveform.
LEMMA WaveRanges == ASSUME NEW s, PairedIn(s), width \in Nat, NEW v, IsView(v), Fits(v, width), SameButRange(s.wave, v)
                    PROVE Together(Views!waveformRanges(s, v))
<1>1. IsShown(s) /\ Paired(s.wave, s.spec, s.ruler) /\ v.total \in {0, s.spec.total}
  BY DEF PairedIn, Paired, SameButRange
<1> DEFINE t == Views!waveformRanges(s, v)
<1>2. /\ IsShown(t) /\ t.wave = v /\ SameButRange(s.spec, t.spec) /\ t.ruler.selection = s.ruler.selection
      /\ Aligned(v, t.spec, t.ruler, "told", width) /\ t.lately = "told"
  BY <1>1, WaveTells
<1> HIDE DEF t
<1>3. Paired(t.wave, t.spec, t.ruler)
  BY <1>1, <1>2, PairedStay
<1>4. Together(t)
  BY <1>2, <1>3 DEF Together, PairedIn
<1> QED
  BY <1>4 DEF t

\* And from the spectrogram.
LEMMA SpecRanges == ASSUME NEW s, PairedIn(s), width \in Nat, NEW v, IsView(v), Fits(v, width), SameButRange(s.spec, v)
                    PROVE Together(Views!spectrogramRanges(s, v))
<1>1. IsShown(s) /\ Paired(s.wave, s.spec, s.ruler) /\ s.wave.total \in {0, v.total}
  BY DEF PairedIn, Paired, SameButRange
<1> DEFINE t == Views!spectrogramRanges(s, v)
<1>2. /\ IsShown(t) /\ t.spec = v /\ SameButRange(s.wave, t.wave) /\ t.ruler.selection = s.ruler.selection
      /\ Aligned(t.wave, v, t.ruler, "told", width) /\ t.lately = "told"
  BY <1>1, SpecTells
<1> HIDE DEF t
<1>3. Paired(t.wave, t.spec, t.ruler)
  BY <1>1, <1>2, PairedStay
<1>4. Together(t)
  BY <1>2, <1>3 DEF Together, PairedIn
<1> QED
  BY <1>4 DEF t

\* And from either.
LEMMA RangesKeep == ASSUME NEW s, PairedIn(s), width \in Nat, NEW who, NEW v, IsView(v), Fits(v, width), SameButRange(Views!Of(s, who), v)
                    PROVE Together(Views!Ranges(s, who, v))
<1>1. who = "waveform" => Together(Views!waveformRanges(s, v))
  BY WaveRanges DEF Views!Of
<1>2. who # "waveform" => Together(Views!spectrogramRanges(s, v))
  BY SpecRanges DEF Views!Of
<1> QED
  BY <1>1, <1>2 DEF Views!Ranges

\* A selection goes to both views and to the ruler (selectionChanged).
LEMMA SelectionPairs == ASSUME NEW s, IsShown(s), s.wave.total \in {0, s.spec.total}, width \in Nat, NEW a \in Int, NEW b \in Int,
                               0 <= a, a <= s.spec.total, 0 <= b, b <= s.spec.total
                        PROVE /\ PairedIn(Views!selectionChanged(s, a, b))
                              /\ Views!selectionChanged(s, a, b).wave.total = s.wave.total
                              /\ Views!selectionChanged(s, a, b).spec.total = s.spec.total
                              /\ Views!selectionChanged(s, a, b).lately = s.lately
                              /\ Aligned(s.wave, s.spec, s.ruler, s.lately, width) => Together(Views!selectionChanged(s, a, b))
<1> DEFINE t == Views!selectionChanged(s, a, b)
           v == Views!setSelection(s.wave, a, b)
           w == Views!setSelection(s.spec, a, b)
<1>2. /\ IsView(s.spec) /\ IsView(s.wave) /\ IsRuler(s.ruler) /\ s.wave.total \in {0, s.spec.total} /\ Fits(s.wave, width) /\ Fits(s.spec, width)
      /\ DOMAIN s = {"wave", "spec", "ruler", "lately"}
  BY DEF IsShown, Viewed
<1>1. IsView(s.wave)
  BY <1>2
<1>3. IsView(v) /\ SelectedIn(v) /\ v.total = s.wave.total /\ v.start = s.wave.start /\ v.length = s.wave.length
  BY <1>1, SelectionFits
<1>14. IsView(s.spec)
  BY <1>2
<1>4. IsView(w) /\ SelectedIn(w) /\ w.total = s.spec.total /\ w.start = s.spec.start /\ w.length = s.spec.length
  BY <1>14, SelectionFits
<1>5. s.wave.total = s.spec.total => v.selection = w.selection
  BY <1>2, SelectionsAgree
<1>6. s.wave.total = s.spec.total /\ a <= b => v.selection = [start |-> a, end |-> b]
  BY <1>2, SelectionTaken
<1> HIDE DEF v, w
<1>7. t = [s EXCEPT !.wave = v, !.spec = w, !.ruler.selection = [start |-> a, end |-> b]]
  BY DEF Views!selectionChanged, v, w
<1> HIDE DEF t
<1>8. /\ DOMAIN t = DOMAIN s /\ t.wave = v /\ t.spec = w /\ IsRuler(t.ruler) /\ t.ruler.start = s.ruler.start /\ t.ruler.length = s.ruler.length
      /\ t.ruler.selection = [start |-> a, end |-> b] /\ t.lately = s.lately
  BY <1>2, <1>7 DEF IsRuler
<1>9. Fits(v, width) /\ Fits(w, width)
  BY <1>2, <1>3, <1>4 DEF Fits
<1>10. IsShown(t)
  BY <1>2, <1>3, <1>4, <1>8, <1>9 DEF IsShown, Viewed
<1>11. v.total > 0 => /\ v.selection = w.selection
                      /\ ~Views!Empty(t.ruler.selection) => t.ruler.selection = v.selection
  BY <1>2, <1>3, <1>5, <1>6, <1>8 DEF Views!Empty
<1>12. PairedIn(t)
  BY <1>3, <1>4, <1>8, <1>10, <1>11 DEF PairedIn, Paired
<1>13. Aligned(s.wave, s.spec, s.ruler, s.lately, width) => Aligned(t.wave, t.spec, t.ruler, t.lately, width)
  BY <1>3, <1>4, <1>8 DEF Aligned
<1> QED
  BY <1>3, <1>4, <1>8, <1>12, <1>13 DEF t, Together

\* So does one that is made in a view, which clamps it first.
LEMMA SelectsKeeps == ASSUME NEW s, Together(s), width \in Nat, NEW who, NEW a \in Int, NEW b \in Int
                      PROVE Together(Views!selects(s, who, a, b))
<1> DEFINE v == Views!setSelection(Views!Of(s, who), a, b)
<1>1. IsView(s.spec) /\ IsView(s.wave) /\ s.wave.total \in {0, s.spec.total} /\ IsShown(s)
  BY DEF Together, PairedIn, IsShown, Viewed, Paired
<1>2. IsView(Views!Of(s, who)) /\ Views!Of(s, who).total \in {0, s.spec.total} /\ s.spec.total \in Nat
  BY <1>1 DEF Views!Of, IsView
<1>3. IsView(v) /\ SelectedIn(v) /\ v.total = Views!Of(s, who).total
  BY <1>2, SelectionFits
<1> HIDE DEF v
<1>4. /\ v.selection.start \in Int /\ v.selection.end \in Int /\ 0 <= v.selection.start /\ v.selection.start <= s.spec.total
      /\ 0 <= v.selection.end /\ v.selection.end <= s.spec.total
  BY <1>2, <1>3 DEF IsView, IsSelection, SelectedIn
<1>5. Together(Views!selectionChanged(s, v.selection.start, v.selection.end))
  BY <1>1, <1>4, SelectionPairs DEF Together
<1> QED
  BY <1>5 DEF Views!selects, v

\* A band of frequencies is of the spectrogram alone.
LEMMA BandsKeep == ASSUME NEW s, Together(s), NEW who, NEW band PROVE Together(Views!Bands(s, who, band))
<1> DEFINE t == [s EXCEPT !.spec.band = band]
<1>1. DOMAIN s = {"wave", "spec", "ruler", "lately"} /\ IsView(s.spec)
  BY DEF Together, PairedIn, IsShown, Viewed
<1>2. DOMAIN t = DOMAIN s /\ t.wave = s.wave /\ t.ruler = s.ruler /\ t.lately = s.lately /\ t.spec = [s.spec EXCEPT !.band = band]
  BY <1>1
<1>3. DOMAIN t.spec = DOMAIN s.spec /\ t.spec.total = s.spec.total /\ t.spec.start = s.spec.start /\ t.spec.length = s.spec.length
      /\ t.spec.selection = s.spec.selection
  BY <1>1, <1>2 DEF IsView
<1> HIDE DEF t
<1>4. Together(t)
  BY <1>2, <1>3 DEF Together, PairedIn, IsShown, Viewed, Paired, Aligned, IsView, Fits, SelectedIn
<1> QED
  BY <1>4 DEF Views!Bands, t

\* A view that is given a document shows all of it, with nothing selected (setTimeline).
LEMMA TimelineFits == ASSUME NEW v, IsView(v), width \in Nat, NEW total \in Nat
                      PROVE /\ IsView(Views!setTimeline(v, total)) /\ Fits(Views!setTimeline(v, total), width)
                            /\ Views!setTimeline(v, total).total = total
                            /\ Views!setTimeline(v, total).selection = [start |-> 0, end |-> 0]
<1> DEFINE u == [v EXCEPT !.total = total, !.selection = [start |-> 0, end |-> 0]]
<1>1. IsView(u) /\ u.total = total /\ u.selection = [start |-> 0, end |-> 0]
  BY DEF IsView, IsSelection
<1>2. Views!setTimeline(v, total) = Views!setViewRange(u, 0, u.total)
  BY DEF Views!setTimeline, Views!showAll
<1> HIDE DEF u
<1> DEFINE from == 0
<1>4. from \in Int /\ total \in Int
  OBVIOUS
<1> HIDE DEF from
<1> DEFINE w == Views!setViewRange(u, from, total)
<1>3. IsView(w) /\ Fits(w, width) /\ SameButRange(u, w)
  BY <1>1, <1>4, RangeFits
<1> QED
  BY <1>1, <1>2, <1>3 DEF SameButRange, from

\* A band moves no range.
LEMMA BandKept == ASSUME NEW v, IsView(v), NEW band
                  PROVE /\ IsView([v EXCEPT !.band = band]) /\ [v EXCEPT !.band = band].total = v.total
                        /\ \A c \in Nat : Fits(v, c) => Fits([v EXCEPT !.band = band], c)
<1> DEFINE w == [v EXCEPT !.band = band]
<1>1. DOMAIN w = DOMAIN v /\ w.total = v.total /\ w.start = v.start /\ w.length = v.length /\ w.selection = v.selection
  BY DEF IsView
<1> HIDE DEF w
<1>2. IsView(w) /\ \A c \in Nat : Fits(v, c) => Fits(w, c)
  BY <1>1 DEF IsView, Fits
<1> QED
  BY <1>1, <1>2 DEF w

\* What setTiles leaves.
LEMMA TilesTell == ASSUME NEW s, IsShown(s), width \in Nat, NEW total \in Nat
                   PROVE /\ IsShown(Views!setTiles(s, total)) /\ Views!setTiles(s, total).spec.total = total
                         /\ SameButRange(s.wave, Views!setTiles(s, total).wave)
                         /\ Views!setTiles(s, total).ruler.selection = s.ruler.selection
                         /\ Views!setTiles(s, total).spec.selection = [start |-> 0, end |-> 0]
                         /\ Views!setTiles(s, total).lately = "told"
                         /\ s.wave.total \in {0, total} =>
                              Aligned(Views!setTiles(s, total).wave, Views!setTiles(s, total).spec, Views!setTiles(s, total).ruler, "told", width)
<1> DEFINE u == [s.spec EXCEPT !.band = Views!AllBands]
           v == Views!setTimeline(u, total)
           t == Views!spectrogramRanges(s, v)
<1>1. IsView(s.spec)
  BY DEF IsShown, Viewed
<1>2. IsView(u)
  BY <1>1, BandKept
<1> HIDE DEF u
<1>3. IsView(v) /\ Fits(v, width) /\ v.total = total /\ v.selection = [start |-> 0, end |-> 0]
  BY <1>2, TimelineFits
<1> HIDE DEF v
<1>4. /\ IsShown(t) /\ t.spec = v /\ SameButRange(s.wave, t.wave) /\ t.ruler.selection = s.ruler.selection
      /\ (s.wave.total \in {0, v.total} => Aligned(t.wave, v, t.ruler, "told", width)) /\ t.lately = "told"
  BY <1>3, SpecTells
<1>5. t = Views!setTiles(s, total)
  BY DEF Views!setTiles, v, u
<1> HIDE DEF t
<1> QED
  BY <1>3, <1>4, <1>5

\* A document reaches both views, peaks before tiles.
LEMMA DocumentTold == ASSUME NEW s, IsShown(s), width \in Nat, NEW total \in Nat, NEW peaks \in {0, total}
                      PROVE LET t == Views!setTiles(Views!setPyramid(s, peaks), total)
                            IN IsShown(t) /\ t.wave.total = peaks /\ t.spec.total = total
<1> DEFINE v == Views!setTimeline(s.wave, peaks)
           q == Views!waveformRanges(s, v)
           t == Views!setTiles(q, total)
<1>1. IsView(s.wave) /\ peaks \in Nat
  BY DEF IsShown, Viewed
<1>2. IsView(v) /\ Fits(v, width) /\ v.total = peaks
  BY <1>1, TimelineFits
<1> HIDE DEF v
<1>3. IsShown(q) /\ q.wave = v
  BY <1>2, WaveTells
<1>4. q = Views!setPyramid(s, peaks)
  BY DEF Views!setPyramid, v
<1> HIDE DEF q
<1>5. IsShown(t) /\ t.wave.total = peaks /\ t.spec.total = total
  BY <1>2, <1>3, TilesTell DEF SameButRange
<1> QED
  BY <1>4, <1>5

\* After an edit both views are of the new document, and what was selected of the old is
\* selected in both as far as it goes (refreshViews).
LEMMA RefreshTogether == ASSUME NEW s, IsShown(s), SelectedIn(s.wave), width \in Nat, NEW total \in Nat, NEW peaks \in {0, total}
                      PROVE /\ Together(Views!refreshViews(s, total, peaks))
                            /\ Views!refreshViews(s, total, peaks).wave.total = peaks
                            /\ Views!refreshViews(s, total, peaks).spec.total = total
                            /\ Views!refreshViews(s, total, peaks).lately = "told"
<1> DEFINE loaded == Views!setTiles(Views!setPyramid(s, peaks), total)
           a == Views!AtMost(s.wave.selection.start, total)
           b == Views!AtMost(s.wave.selection.end, total)
           picked == Views!selectionChanged(loaded, a, b)
           t == Views!refreshViews(s, total, peaks)
           w == Views!setViewRange(picked.spec, picked.wave.start, picked.wave.length)
<1>1. IsShown(loaded) /\ loaded.wave.total = peaks /\ loaded.spec.total = total
  BY DocumentTold
<1>2. s.wave.selection.start \in Int /\ s.wave.selection.end \in Int
  BY DEF IsShown, Viewed, IsView, IsSelection
<1>3. a \in Int /\ b \in Int /\ 0 <= a /\ a <= total /\ 0 <= b /\ b <= total
  BY <1>2 DEF SelectedIn, Views!AtMost
<1> HIDE DEF loaded, a, b
<1>4. PairedIn(picked) /\ picked.wave.total = peaks /\ picked.spec.total = total
  BY <1>1, <1>3, SelectionPairs
<1>5. t = [Views!RulerRange(picked, picked.wave) EXCEPT !.spec = w]
  BY DEF Views!refreshViews, loaded, a, b, Views!RulerRange
<1> HIDE DEF picked, t
<1>6. IsView(picked.wave) /\ Fits(picked.wave, width) /\ SameButRange(picked.wave, picked.wave) /\ DOMAIN picked = {"wave", "spec", "ruler", "lately"}
      /\ IsRuler(picked.ruler) /\ IsView(picked.spec)
  BY <1>4 DEF PairedIn, IsShown, Viewed, SameButRange
<1> DEFINE q == Views!waveformRanges(picked, picked.wave)
<1>7. Together(q) /\ q.wave = picked.wave /\ SameButRange(picked.spec, q.spec) /\ q.lately = "told"
  <2>1. IsShown(picked)
    BY <1>4 DEF PairedIn
  <2> QED
    BY <1>4, <1>6, <2>1, WaveRanges, WaveTells
<1>8. q = t
  <2>1. q = [[picked EXCEPT !.wave = picked.wave, !.spec = w]
                   EXCEPT !.ruler.start = picked.wave.start, !.ruler.length = picked.wave.length, !.lately = "told"]
    BY DEF Views!waveformRanges, Views!RulerRange
  <2>2. t = [[picked EXCEPT !.ruler.start = picked.wave.start, !.ruler.length = picked.wave.length, !.lately = "told"] EXCEPT !.spec = w]
    BY <1>5 DEF Views!RulerRange
  <2> HIDE DEF w, q
  <2> QED
    BY <1>6, <2>1, <2>2
<1> QED
  BY <1>4, <1>7, <1>8 DEF t, SameButRange

\* What the mouse holds on to can be counted from.
DragCounts == \/ drag = Views!NoDrag
              \/ drag.kind = "panning" /\ drag.x \in Int /\ drag.start \in Int
              \/ drag.kind = "selecting" /\ drag.anchor \in Int
ViewsInv == Together(Views!Shown) /\ DragCounts /\ width \in Nat

\* What is shown is what was handed on.
LEMMA ShowsTogether == ASSUME NEW s, Together(s), Views!Show(s), width' = width PROVE Together(Views!Shown)'
<1>1. Views!Shown' = [wave |-> s.wave, spec |-> s.spec, ruler |-> s.ruler, lately |-> s.lately]
  BY DEF Views!Shown, Views!Show
<1>2. DOMAIN Views!Shown' = {"wave", "spec", "ruler", "lately"} /\ Views!Shown'.wave = s.wave /\ Views!Shown'.spec = s.spec
      /\ Views!Shown'.ruler = s.ruler /\ Views!Shown'.lately = s.lately
  BY <1>1
<1>3. Together(s) /\ width' = width
  OBVIOUS
<1> HIDE DEF Views!Shown
<1> QED
  BY <1>2, <1>3 DEF Together, PairedIn, IsShown, Viewed, Paired, Aligned

\* The parts of what is shown.
LEMMA ShownIs == /\ Views!Shown.wave = waveform /\ Views!Shown.spec = spectrogram /\ Views!Shown.ruler = ruler /\ Views!Shown.lately = lately
                 /\ DOMAIN Views!Shown = {"wave", "spec", "ruler", "lately"}
BY DEF Views!Shown

\* A column is over a sample.
LEMMA SampleTyped == ASSUME NEW v, IsView(v), width \in Nat, NEW column \in Int PROVE Views!sampleAtX(v, column) \in Int
<1> DEFINE x == Views!StdClamp(column, 0, width)
<1>1. v.start \in Int /\ v.length \in Int
  BY DEF IsView
<1>2. x \in Int
  BY DEF Views!StdClamp
<1> HIDE DEF x
<1>3. v.length * x \in Int
  BY <1>1, <1>2
<1>4. width > 0 => (v.length * x) \div width \in Int
  BY <1>3
<1>5. Views!sampleAtX(v, column) = IF width <= 0 \/ v.length <= 0 THEN v.start ELSE v.start + (v.length * x) \div width
  BY DEF Views!sampleAtX, x
<1> QED
  BY <1>1, <1>4, <1>5

\* A zoom leaves a range that fits (zoom).
LEMMA ZoomFits == ASSUME NEW v, IsView(v), width \in Nat, width > 0, NEW num \in Nat, NEW den \in Nat, den > 0, NEW column \in Int
                  PROVE /\ IsView(Views!zoom(v, num, den, column)) /\ Fits(Views!zoom(v, num, den, column), width)
                        /\ SameButRange(v, Views!zoom(v, num, den, column))
<1> DEFINE length == (v.length * num) \div den
           u == [v EXCEPT !.length = length]
           zoomed == Views!clampedTo(u, width)
           anchor == v.start + (v.length * column) \div width
           from == anchor - (zoomed.length * column) \div width
<1>1. v.start \in Int /\ v.length \in Int /\ {"total", "start", "length", "selection"} \subseteq DOMAIN v
  BY DEF IsView
<1>2. length \in Int
  <2>1. v.length * num \in Int
    BY <1>1
  <2> QED
    BY <2>1
<1>3. u = [v EXCEPT !.length = (@ * num) \div den]
  OBVIOUS
<1> HIDE DEF length
<1>4. IsView(u) /\ SameButRange(v, u)
  BY <1>1, <1>2 DEF IsView, SameButRange
<1> HIDE DEF u
<1>5. IsView(zoomed) /\ SameButRange(u, zoomed)
  BY <1>4, ClampedFits
<1>6. anchor \in Int
  <2>1. v.length * column \in Int
    BY <1>1
  <2>2. (v.length * column) \div width \in Int
    BY <2>1
  <2> QED
    BY <1>1, <2>2
<1> HIDE DEF anchor, zoomed
<1>7. zoomed.length \in Int
  BY <1>5 DEF IsView
<1>8. from \in Int
  <2>1. zoomed.length * column \in Int
    BY <1>7
  <2>2. (zoomed.length * column) \div width \in Int
    BY <2>1
  <2> QED
    BY <1>6, <2>2
<1> HIDE DEF from
<1> DEFINE w == Views!setViewRange(zoomed, from, zoomed.length)
<1>9. IsView(w) /\ Fits(w, width) /\ SameButRange(zoomed, w)
  BY <1>5, <1>7, <1>8, RangeFits
<1>10. Views!zoom(v, num, den, column) = w
  BY <1>3 DEF Views!zoom, Views!clampView, from, anchor, zoomed
<1> HIDE DEF w
<1> QED
  BY <1>4, <1>5, <1>9, <1>10 DEF SameButRange

\* What happened lately is of no account, but for a resize.
LEMMA Renamed == ASSUME NEW s, Together(s), s.lately # "resized", NEW last PROVE Together([s EXCEPT !.lately = last])
<1> DEFINE t == [s EXCEPT !.lately = last]
<1>1. DOMAIN s = {"wave", "spec", "ruler", "lately"}
  BY DEF Together, PairedIn, IsShown
<1>2. DOMAIN t = DOMAIN s /\ t.wave = s.wave /\ t.spec = s.spec /\ t.ruler = s.ruler
  BY <1>1
<1> HIDE DEF t
<1>3. Together(t)
  BY <1>1, <1>2 DEF Together, PairedIn, IsShown, Aligned
<1> QED
  BY <1>3 DEF t

\* What is known of the views.
LEMMA ViewsKnown == ASSUME ViewsInv
                    PROVE /\ IsView(waveform) /\ IsView(spectrogram) /\ Fits(waveform, width) /\ Fits(spectrogram, width)
                          /\ SelectedIn(waveform) /\ SelectedIn(spectrogram) /\ waveform.total \in {0, spectrogram.total}
                          /\ \A who : IsView(Views!Of(Views!Shown, who))
                          /\ IsShown(Views!Shown) /\ PairedIn(Views!Shown) /\ Together(Views!Shown) /\ width \in Nat
                          /\ waveform.total \in Nat /\ spectrogram.total \in Nat
<1>1. Together(Views!Shown) /\ PairedIn(Views!Shown) /\ IsShown(Views!Shown) /\ width \in Nat
  BY DEF ViewsInv, Together, PairedIn
<1>2. IsView(waveform) /\ IsView(spectrogram) /\ Fits(waveform, width) /\ Fits(spectrogram, width)
  BY <1>1, ShownIs DEF IsShown, Viewed
<1>3. SelectedIn(waveform) /\ SelectedIn(spectrogram) /\ waveform.total \in {0, spectrogram.total}
  BY <1>1, ShownIs DEF PairedIn, Paired
<1>4. \A who : IsView(Views!Of(Views!Shown, who))
  BY <1>2, ShownIs DEF Views!Of
<1> QED
  BY <1>1, <1>2, <1>3, <1>4 DEF IsView

\* Nothing shown changes where nothing is told.
LEMMA StaysTogether == ASSUME Together(Views!Shown), UNCHANGED <<waveform, spectrogram, ruler, lately, width>> PROVE Together(Views!Shown)'
BY DEF Together, PairedIn, IsShown, Views!Shown

\* A scroll leaves a range that fits (scrollBySamples).
LEMMA ScrollFits == ASSUME NEW v, IsView(v), width \in Nat, NEW delta \in Int
                    PROVE /\ IsView(Views!scrollBySamples(v, delta)) /\ Fits(Views!scrollBySamples(v, delta), width)
                          /\ SameButRange(v, Views!scrollBySamples(v, delta))
<1> DEFINE from == v.start + delta
           length == v.length
<1>1. from \in Int /\ length \in Int
  BY DEF IsView
<1>2. Views!scrollBySamples(v, delta) = Views!setViewRange(v, from, length)
  BY DEF Views!scrollBySamples
<1> HIDE DEF from, length
<1> QED
  BY <1>1, <1>2, RangeFits

\* So does showing all of it (showAll).
LEMMA AllFits == ASSUME NEW v, IsView(v), width \in Nat
                 PROVE /\ IsView(Views!showAll(v)) /\ Fits(Views!showAll(v), width) /\ SameButRange(v, Views!showAll(v))
<1> DEFINE from == 0
           length == v.total
<1>1. from \in Int /\ length \in Int
  BY DEF IsView
<1>2. Views!showAll(v) = Views!setViewRange(v, from, length)
  BY DEF Views!showAll
<1> HIDE DEF from, length
<1> QED
  BY <1>1, <1>2, RangeFits

\* Turning the wheel over a view.
LEMMA WheelKeeps == ASSUME ViewsInv, NEW who, NEW column \in Views!Columns, NEW factor \in {<<4, 5>>, <<5, 4>>}, Views!wheel(who, column, factor)
                    PROVE ViewsInv'
<1> DEFINE o == Views!Of(Views!Shown, who)
           v == Views!zoom(o, factor[1], factor[2], column)
           t == Views!Ranges(Views!Shown, who, v)
<1>1. width > 0 /\ Views!Show(t) /\ UNCHANGED <<drag, width, building>>
  BY DEF Views!wheel
<1>2. IsView(o) /\ PairedIn(Views!Shown) /\ width \in Nat
  BY ViewsKnown
<1>3. factor[1] \in Nat /\ factor[2] \in Nat /\ factor[2] > 0 /\ column \in Int
  BY <1>2 DEF Views!Columns
<1> HIDE DEF o
<1>4. IsView(v) /\ Fits(v, width) /\ SameButRange(o, v)
  BY <1>1, <1>2, <1>3, ZoomFits
<1> HIDE DEF v
<1>5. Together(t)
  BY <1>2, <1>4, RangesKeep DEF o
<1> HIDE DEF t
<1>6. Together(Views!Shown)'
  BY <1>1, <1>5, ShowsTogether
<1> QED
  BY <1>1, <1>6 DEF ViewsInv, DragCounts

\* A quotient that is cut towards zero is a number.
LEMMA TruncatedTyped == ASSUME NEW x \in Int, NEW y \in Nat, y > 0 PROVE Views!Truncated(x, y) \in Int
<1>1. -x \in Int
  OBVIOUS
<1>2. x \div y \in Int /\ (-x) \div y \in Int
  BY <1>1
<1>3. -((-x) \div y) \in Int
  BY <1>2
<1> QED
  BY <1>2, <1>3 DEF Views!Truncated

\* Turning it sideways.
LEMMA WheelScrollsKeeps == ASSUME ViewsInv, NEW who, NEW notches \in {-4, 4}, Views!wheelScrolls(who, notches) PROVE ViewsInv'
<1> DEFINE o == Views!Of(Views!Shown, who)
           delta == Views!Truncated(-notches * o.length, 10)
           v == Views!scrollBySamples(o, delta)
           t == Views!Ranges(Views!Shown, who, v)
<1>1. Views!Show(t) /\ UNCHANGED <<drag, width, building>>
  BY DEF Views!wheelScrolls
<1>2. IsView(o) /\ PairedIn(Views!Shown) /\ width \in Nat
  BY ViewsKnown
<1> HIDE DEF o
<1>3. delta \in Int
  <2>1. o.length \in Int
    BY <1>2 DEF IsView
  <2>2. -notches * o.length \in Int
    BY <2>1
  <2> QED
    BY <2>2, TruncatedTyped
<1> HIDE DEF delta
<1>4. IsView(v) /\ Fits(v, width) /\ SameButRange(o, v)
  BY <1>2, <1>3, ScrollFits
<1> HIDE DEF v
<1>5. Together(t)
  BY <1>2, <1>4, RangesKeep DEF o
<1> HIDE DEF t
<1>6. Together(Views!Shown)'
  BY <1>1, <1>5, ShowsTogether
<1> QED
  BY <1>1, <1>6 DEF ViewsInv, DragCounts

\* Pressing to pan.
LEMMA PressToPanKeeps == ASSUME ViewsInv, NEW who, NEW column \in Views!Columns, Views!pressToPan(who, column) PROVE ViewsInv'
<1>1. /\ drag' = [kind |-> "panning", who |-> who, x |-> column, start |-> Views!Of(Views!Shown, who).start]
      /\ UNCHANGED <<waveform, spectrogram, ruler, width, building, lately>>
  BY DEF Views!pressToPan
<1>2. IsView(Views!Of(Views!Shown, who)) /\ Together(Views!Shown) /\ width \in Nat
  BY ViewsKnown
<1>3. Views!Of(Views!Shown, who).start \in Int /\ column \in Int
  BY <1>2 DEF IsView, Views!Columns
<1>4. DragCounts'
  BY <1>1, <1>3 DEF DragCounts
<1>5. Together(Views!Shown)'
  BY <1>1, <1>2, StaysTogether
<1> QED
  BY <1>1, <1>2, <1>4, <1>5 DEF ViewsInv

\* Pressing to select, or to extend what is selected.
LEMMA PressToSelectKeeps == ASSUME ViewsInv, NEW who, NEW column \in Views!Columns, NEW shift, Views!pressToSelect(who, column, shift) PROVE ViewsInv'
<1> DEFINE v == Views!Of(Views!Shown, who)
           here == Views!sampleAtX(v, column)
           anchor == IF shift THEN Views!Further(v.selection, here) ELSE here
           s == Views!Bands(Views!Shown, who, Views!AllBands)
           t == Views!selects(s, who, anchor, here)
<1>1. /\ drag' = [kind |-> "selecting", who |-> who, anchor |-> anchor]
      /\ Views!Show(t) /\ UNCHANGED <<width, building>>
  BY DEF Views!pressToSelect
<1>2. IsView(v) /\ Together(Views!Shown) /\ width \in Nat
  BY ViewsKnown
<1> HIDE DEF v
<1>3. here \in Int
  <2>1. column \in Int
    BY <1>2 DEF Views!Columns
  <2> QED
    BY <1>2, <2>1, SampleTyped
<1>4. anchor \in Int
  <2>1. v.selection.start \in Int /\ v.selection.end \in Int
    BY <1>2 DEF IsView, IsSelection
  <2> QED
    BY <1>3, <2>1 DEF Views!Further
<1> HIDE DEF here, anchor
<1>5. Together(s)
  BY <1>2, BandsKeep
<1> HIDE DEF s
<1>6. Together(t)
  BY <1>2, <1>3, <1>4, <1>5, SelectsKeeps
<1> HIDE DEF t
<1>7. Together(Views!Shown)'
  BY <1>1, <1>6, ShowsTogether
<1>8. DragCounts'
  BY <1>1, <1>4 DEF DragCounts
<1> QED
  BY <1>1, <1>2, <1>7, <1>8 DEF ViewsInv

\* Dragging, to pan or to select.
LEMMA DragToKeeps == ASSUME ViewsInv, NEW column \in Int, NEW band, Views!dragTo(column, band) PROVE ViewsInv'
<1> DEFINE v == Views!Of(Views!Shown, drag.who)
<1>1. UNCHANGED <<drag, width, building>>
  BY DEF Views!dragTo
<1>2. IsView(v) /\ Together(Views!Shown) /\ PairedIn(Views!Shown) /\ width \in Nat /\ DragCounts
  BY ViewsKnown DEF ViewsInv
<1>3. v.start \in Int /\ v.length \in Int
  BY <1>2 DEF IsView
<1> HIDE DEF v
<1>4. ASSUME drag.kind = "panning", width > 0,
             Views!Show(Views!Ranges(Views!Shown, drag.who,
               Views!setViewRange(v, drag.start - Views!Truncated((column - drag.x) * v.length, width), v.length)))
      PROVE Together(Views!Shown)'
  <2> DEFINE shift == (column - drag.x) * v.length
             from == drag.start - Views!Truncated(shift, width)
             w == Views!setViewRange(v, from, v.length)
             t == Views!Ranges(Views!Shown, drag.who, w)
  <2>1. drag.x \in Int /\ drag.start \in Int
    BY <1>2, <1>4 DEF DragCounts, Views!NoDrag
  <2>2. shift \in Int
    BY <1>3, <2>1
  <2> HIDE DEF shift
  <2>3. Views!Truncated(shift, width) \in Int
    BY <1>2, <1>4, <2>2, TruncatedTyped
  <2>4. from \in Int
    BY <2>1, <2>3
  <2> HIDE DEF from
  <2>5. IsView(w) /\ Fits(w, width) /\ SameButRange(v, w)
    BY <1>2, <1>3, <2>4, RangeFits
  <2>6. Views!Show(t)
    BY <1>4 DEF from, shift
  <2> HIDE DEF w
  <2>7. Together(t)
    BY <1>2, <2>5, RangesKeep DEF v
  <2> HIDE DEF t
  <2> QED
    BY <1>1, <2>6, <2>7, ShowsTogether
<1>5. ASSUME drag.kind = "selecting",
             Views!Show(Views!selects(Views!Bands(Views!Shown, drag.who, band), drag.who, drag.anchor, Views!sampleAtX(v, column)))
      PROVE Together(Views!Shown)'
  <2> DEFINE here == Views!sampleAtX(v, column)
             s == Views!Bands(Views!Shown, drag.who, band)
             t == Views!selects(s, drag.who, drag.anchor, here)
  <2>1. drag.anchor \in Int
    BY <1>2, <1>5 DEF DragCounts, Views!NoDrag
  <2>2. here \in Int
    BY <1>2, SampleTyped
  <2>3. Together(s)
    BY <1>2, BandsKeep
  <2>4. Views!Show(t)
    BY <1>5
  <2> HIDE DEF here, s
  <2>5. Together(t)
    BY <1>2, <2>1, <2>2, <2>3, SelectsKeeps
  <2> HIDE DEF t
  <2> QED
    BY <1>1, <2>4, <2>5, ShowsTogether
<1>6. Together(Views!Shown)'
  BY <1>4, <1>5 DEF Views!dragTo, v
<1> QED
  BY <1>1, <1>2, <1>6 DEF ViewsInv, DragCounts

\* Letting go.
LEMMA ReleaseKeeps == ASSUME ViewsInv, Views!release PROVE ViewsInv'
<1>1. drag' = Views!NoDrag /\ UNCHANGED <<waveform, spectrogram, ruler, width, building, lately, gestures>>
  BY DEF Views!release
<1>2. Together(Views!Shown)'
  BY <1>1, StaysTogether DEF ViewsInv
<1>3. DragCounts'
  BY <1>1 DEF DragCounts, Views!NoDrag
<1> QED
  BY <1>1, <1>2, <1>3 DEF ViewsInv

\* Selecting all of it.
LEMMA DoubleClickKeeps == ASSUME ViewsInv, NEW who, Views!doubleClick(who) PROVE ViewsInv'
<1> DEFINE s == Views!Bands(Views!Shown, who, Views!AllBands)
           from == 0
           to == Views!Of(Views!Shown, who).total
           t == Views!selects(s, who, from, to)
<1>1. Views!Show(t) /\ UNCHANGED <<drag, width, building>>
  BY DEF Views!doubleClick
<1>2. IsView(Views!Of(Views!Shown, who)) /\ Together(Views!Shown) /\ width \in Nat
  BY ViewsKnown
<1>3. from \in Int /\ to \in Int
  BY <1>2 DEF IsView
<1>4. Together(s)
  BY <1>2, BandsKeep
<1> HIDE DEF s, from, to
<1>5. Together(t)
  BY <1>2, <1>3, <1>4, SelectsKeeps
<1> HIDE DEF t
<1>6. Together(Views!Shown)'
  BY <1>1, <1>5, ShowsTogether
<1> QED
  BY <1>1, <1>6 DEF ViewsInv, DragCounts

\* Zooming out to the document.
LEMMA ZoomOutKeeps == ASSUME ViewsInv, Views!zoomOut PROVE ViewsInv'
<1> DEFINE v == Views!showAll(waveform)
           t == Views!waveformRanges(Views!Shown, v)
<1>1. Views!Show(t) /\ UNCHANGED <<drag, width, building>>
  BY DEF Views!zoomOut
<1>2. IsView(waveform) /\ PairedIn(Views!Shown) /\ width \in Nat
  BY ViewsKnown
<1>3. IsView(v) /\ Fits(v, width) /\ SameButRange(Views!Shown.wave, v)
  BY <1>2, AllFits, ShownIs
<1> HIDE DEF v
<1>4. Together(t)
  BY <1>2, <1>3, WaveRanges
<1> HIDE DEF t
<1>5. Together(Views!Shown)'
  BY <1>1, <1>4, ShowsTogether
<1> QED
  BY <1>1, <1>5 DEF ViewsInv, DragCounts

\* Zooming in to the selection.
LEMMA ZoomInKeeps == ASSUME ViewsInv, Views!zoomIn PROVE ViewsInv'
<1> DEFINE from == waveform.selection.start
           length == Views!Length(waveform.selection)
           v == Views!setViewRange(waveform, from, length)
           t == Views!waveformRanges(Views!Shown, v)
<1>1. Views!Show(t) /\ UNCHANGED <<drag, width, building>>
  BY DEF Views!zoomIn, Views!zoomToSelection
<1>2. IsView(waveform) /\ PairedIn(Views!Shown) /\ width \in Nat
  BY ViewsKnown
<1>3. from \in Int /\ length \in Int
  BY <1>2 DEF IsView, IsSelection, Views!Length
<1> HIDE DEF from, length
<1>4. IsView(v) /\ Fits(v, width) /\ SameButRange(waveform, v)
  BY <1>2, <1>3, RangeFits
<1> HIDE DEF v
<1>5. Together(t)
  BY <1>2, <1>4, WaveRanges, ShownIs
<1> HIDE DEF t
<1>6. Together(Views!Shown)'
  BY <1>1, <1>5, ShowsTogether
<1> QED
  BY <1>1, <1>6 DEF ViewsInv, DragCounts

\* Going to a position, which is brought into view.
LEMMA GoToKeeps == ASSUME ViewsInv, NEW position, Views!goTo(position) PROVE ViewsInv'
<1> DEFINE s == Views!selectionChanged(Views!Shown, position, position)
           off == position < waveform.start \/ position >= waveform.start + waveform.length
           delta == position - waveform.length \div 2 - waveform.start
           v == Views!scrollBySamples(s.wave, delta)
           t == Views!waveformRanges(s, v)
<1>1. position \in 0..waveform.total /\ waveform.total > 0 /\ UNCHANGED <<drag, width, building>>
  BY DEF Views!goTo
<1>2. Views!Show(IF off THEN t ELSE s)
  BY DEF Views!goTo
<1>3. /\ IsView(waveform) /\ waveform.total = spectrogram.total /\ waveform.total \in Nat /\ IsShown(Views!Shown) /\ Together(Views!Shown)
      /\ width \in Nat
  BY <1>1, ViewsKnown
<1>4. position \in Int /\ 0 <= position /\ position <= Views!Shown.spec.total /\ Views!Shown.wave.total \in {0, Views!Shown.spec.total}
  BY <1>1, <1>3, ShownIs
<1>5. Together(s)
  BY <1>3, <1>4, SelectionPairs DEF Together
<1> HIDE DEF s
<1>6. delta \in Int
  BY <1>3, <1>4 DEF IsView
<1>7. IsView(s.wave) /\ PairedIn(s)
  BY <1>5 DEF Together, PairedIn, IsShown, Viewed
<1> HIDE DEF delta
<1>8. IsView(v) /\ Fits(v, width) /\ SameButRange(s.wave, v)
  BY <1>3, <1>6, <1>7, ScrollFits
<1> HIDE DEF v
<1>9. Together(t)
  BY <1>3, <1>7, <1>8, WaveRanges
<1> HIDE DEF t, off
<1>10. Together(IF off THEN t ELSE s)
  BY <1>5, <1>9
<1>11. Together(Views!Shown)'
  BY <1>1, <1>2, <1>10, ShowsTogether
<1> QED
  BY <1>1, <1>11 DEF ViewsInv, DragCounts

\* Selecting by numbers.
LEMMA SelectSecondsKeeps == ASSUME ViewsInv, NEW a, NEW b, Views!selectSeconds(a, b) PROVE ViewsInv'
<1> DEFINE t == Views!selectionChanged(Views!Shown, a, b)
<1>1. {a, b} \subseteq 0..spectrogram.total /\ Views!Show(t) /\ UNCHANGED <<drag, width, building>>
  BY DEF Views!selectSeconds, Views!Document
<1>2. /\ waveform.total \in {0, spectrogram.total} /\ spectrogram.total \in Nat /\ IsShown(Views!Shown) /\ Together(Views!Shown)
      /\ width \in Nat
  BY ViewsKnown
<1>3. /\ a \in Int /\ b \in Int /\ 0 <= a /\ a <= Views!Shown.spec.total /\ 0 <= b /\ b <= Views!Shown.spec.total
      /\ Views!Shown.wave.total \in {0, Views!Shown.spec.total}
  BY <1>1, <1>2, ShownIs
<1>4. Together(t)
  BY <1>2, <1>3, SelectionPairs DEF Together
<1> HIDE DEF t
<1>5. Together(Views!Shown)'
  BY <1>1, <1>4, ShowsTogether
<1> QED
  BY <1>1, <1>5 DEF ViewsInv, DragCounts

\* Two views that agree still do when both are resized.
LEMMA ResizedAlike == ASSUME NEW v, NEW w, IsView(v), IsView(w), NEW c \in Nat, NEW d \in Nat, Fits(v, c), Fits(w, c), 0 < v.total, v.total = w.total,
                             c <= v.total => v.start = w.start /\ v.length = w.length, d <= v.total
                      PROVE /\ Views!clampedTo(v, d).start = Views!clampedTo(w, d).start
                            /\ Views!clampedTo(v, d).length = Views!clampedTo(w, d).length
<1> DEFINE least == Views!AtLeast(d, 1)
           Length(u) == Views!StdClamp(u.length, least, u.total)
           Start(u) == Views!StdClamp(u.start, 0, Views!AtLeast(u.total - Length(u), 0))
<1>1. v.total \in Nat /\ v.start \in Int /\ v.length \in Int /\ {"start", "length"} \subseteq DOMAIN v
  BY DEF IsView
<1>2. w.total \in Nat /\ w.start \in Int /\ w.length \in Int /\ {"start", "length"} \subseteq DOMAIN w
  BY DEF IsView
<1>3. least \in Nat /\ least >= 1 /\ least <= v.total
  BY <1>1 DEF Views!AtLeast
<1>4. Length(v) = Length(w) /\ Start(v) = Start(w)
  <2>1. CASE c <= v.total
    BY <2>1
  <2>2. CASE v.total < c
    <3>1. v.start = 0 /\ w.start = 0 /\ v.total <= v.length /\ w.total <= w.length
      BY <2>2 DEF Fits
    <3> HIDE DEF least
    <3>2. Views!StdClamp(v.length, least, v.total) = v.total /\ Views!StdClamp(w.length, least, w.total) = v.total
      BY <3>1, <1>1, <1>2, <1>3 DEF Views!StdClamp
    <3> QED
      BY <3>1, <3>2
  <2> QED
    BY <2>1, <2>2, <1>1
<1> HIDE DEF least, Length, Start
<1>5. Views!clampedTo(v, d) = [v EXCEPT !.length = Length(v), !.start = Start(v)]
  BY <1>1 DEF Views!clampedTo, Length, Start, least
<1>6. Views!clampedTo(w, d) = [w EXCEPT !.length = Length(w), !.start = Start(w)]
  BY <1>2 DEF Views!clampedTo, Length, Start, least
<1> QED
  BY <1>1, <1>2, <1>4, <1>5, <1>6

\* Resizing the window.
LEMMA ResizeKeeps == ASSUME ViewsInv, NEW columns \in Nat, Views!resize(columns) PROVE ViewsInv'
<1> DEFINE v == Views!clampedTo(waveform, columns)
           w == Views!clampedTo(spectrogram, columns)
<1>1. width' = columns /\ UNCHANGED <<drag, building>>
  BY DEF Views!resize
<1>2. waveform' = v /\ spectrogram' = w /\ ruler' = ruler /\ lately' = "resized"
  <2> DEFINE s == [Views!Shown EXCEPT !.wave = Views!clampedTo(@, columns), !.spec = Views!clampedTo(@, columns), !.lately = "resized"]
  <2>1. Views!Show(s)
    BY DEF Views!resize
  <2>2. s = [Views!Shown EXCEPT !.wave = v, !.spec = w, !.lately = "resized"]
    BY ShownIs
  <2> HIDE DEF s, v, w
  <2>3. s.wave = v /\ s.spec = w /\ s.ruler = ruler /\ s.lately = "resized"
    BY <2>2, ShownIs
  <2> QED
    BY <2>1, <2>3 DEF Views!Show, v, w
<1>3. /\ IsView(waveform) /\ IsView(spectrogram) /\ waveform.total \in Nat /\ Fits(waveform, width) /\ Fits(spectrogram, width)
      /\ Together(Views!Shown) /\ width \in Nat
  BY ViewsKnown
<1>4. IsView(v) /\ SameButRange(waveform, v) /\ Fits(v, columns)
  BY <1>3, ClampedFits
<1>5. IsView(w) /\ SameButRange(spectrogram, w) /\ Fits(w, columns)
  BY <1>3, ClampedFits
<1>6. Paired(waveform, spectrogram, ruler) /\ Aligned(waveform, spectrogram, ruler, lately, width) /\ IsRuler(ruler)
  BY <1>3, ShownIs DEF Together, PairedIn, IsShown, Viewed
<1>7. Paired(v, w, ruler)
  BY <1>4, <1>5, <1>6, PairedStay
<1>8. 0 < waveform.total /\ columns <= spectrogram.total => v.start = w.start /\ v.length = w.length
  <2> SUFFICES ASSUME 0 < waveform.total, columns <= spectrogram.total PROVE v.start = w.start /\ v.length = w.length
    OBVIOUS
  <2>1. waveform.total = spectrogram.total
    BY <1>6, <1>3 DEF Paired
  <2>2. width <= waveform.total => waveform.start = spectrogram.start /\ waveform.length = spectrogram.length
    BY <1>6, <2>1 DEF Aligned
  <2> QED
    BY <1>3, <2>1, <2>2, ResizedAlike
<1> HIDE DEF v, w
<1>9. Aligned(v, w, ruler, "resized", columns)
  BY <1>4, <1>5, <1>8 DEF Aligned, SameButRange
<1> DEFINE t == [wave |-> waveform', spec |-> spectrogram', ruler |-> ruler', lately |-> lately']
<1>10. Views!Shown' = t
  BY DEF Views!Shown
<1>11. DOMAIN t = {"wave", "spec", "ruler", "lately"} /\ t.wave = v /\ t.spec = w /\ t.ruler = ruler /\ t.lately = "resized"
  BY <1>2
<1> HIDE DEF t
<1>12. Together(Views!Shown)'
  BY <1>1, <1>4, <1>5, <1>6, <1>7, <1>9, <1>10, <1>11 DEF Together, PairedIn, IsShown, Viewed
<1> QED
  BY <1>1, <1>12 DEF ViewsInv, DragCounts

\* An edit that changes the length of the document.
LEMMA EditKeeps == ASSUME ViewsInv, NEW total \in Nat, NEW peaks \in {0, total}, Views!edit(total, peaks) PROVE ViewsInv'
<1> DEFINE s == Views!refreshViews(Views!Shown, total, peaks)
           t == [s EXCEPT !.lately = "edited"]
<1>1. Views!Show(t) /\ UNCHANGED <<drag, width>>
  BY DEF Views!edit
<1>2. IsShown(Views!Shown) /\ SelectedIn(Views!Shown.wave) /\ width \in Nat
  BY ViewsKnown, ShownIs
<1>3. Together(s) /\ s.lately = "told"
  BY <1>2, RefreshTogether
<1> HIDE DEF s
<1>4. Together(t)
  BY <1>3, Renamed
<1> HIDE DEF t
<1>5. Together(Views!Shown)'
  BY <1>1, <1>4, ShowsTogether
<1> QED
  BY <1>1, <1>5 DEF ViewsInv, DragCounts

\* One that fails.
LEMMA EditFailsKeeps == ASSUME ViewsInv, Views!editFails PROVE ViewsInv'
<1>1. UNCHANGED <<waveform, spectrogram, ruler, drag, width, lately>>
  BY DEF Views!editFails
<1>2. Together(Views!Shown)'
  BY <1>1, StaysTogether DEF ViewsInv
<1> QED
  BY <1>1, <1>2 DEF ViewsInv, DragCounts

\* What is selected in the waveform is in the document.
LEMMA LengthOfSelection == ASSUME ViewsInv
                           PROVE /\ Views!Length(waveform.selection) \in Nat
                                 /\ ~Views!Empty(waveform.selection) =>
                                      /\ waveform.selection.start \in Nat
                                      /\ spectrogram.total - Views!Length(waveform.selection) \in Nat
                                      /\ waveform.selection.start <= spectrogram.total - Views!Length(waveform.selection)
<1>1. IsView(waveform) /\ SelectedIn(waveform) /\ waveform.total \in {0, spectrogram.total} /\ spectrogram.total \in Nat
  BY ViewsKnown
<1>2. waveform.selection.start \in Int /\ waveform.selection.end \in Int
  BY <1>1 DEF IsView, IsSelection
<1> QED
  BY <1>1, <1>2 DEF Views!Length, Views!Empty, SelectedIn

\* Deleting what is selected.
LEMMA DeleteKeeps == ASSUME ViewsInv, Views!delete PROVE ViewsInv'
<1> DEFINE spot == waveform.selection.start
           left == spectrogram.total - Views!Length(waveform.selection)
           s == Views!refreshViews(Views!Shown, left, left)
           u == Views!selectionChanged(s, spot, spot)
           t == [u EXCEPT !.lately = "edited"]
<1>1. Views!Show(t) /\ ~Views!Empty(waveform.selection) /\ UNCHANGED <<drag, width>>
  BY DEF Views!delete, Views!Document
<1>2. IsShown(Views!Shown) /\ SelectedIn(Views!Shown.wave) /\ width \in Nat
  BY ViewsKnown, ShownIs
<1>3. left \in Nat /\ spot \in Nat /\ spot <= left
  BY <1>1, LengthOfSelection
<1> HIDE DEF left, spot
<1>4. Together(s) /\ s.lately = "told" /\ s.wave.total = left /\ s.spec.total = left
  BY <1>2, <1>3, RefreshTogether
<1> HIDE DEF s
<1>5. Together(u) /\ u.lately = "told"
  BY <1>2, <1>3, <1>4, SelectionPairs DEF Together, PairedIn
<1> HIDE DEF u
<1>6. Together(t)
  BY <1>5, Renamed
<1> HIDE DEF t
<1>7. Together(Views!Shown)'
  BY <1>1, <1>6, ShowsTogether
<1> QED
  BY <1>1, <1>7 DEF ViewsInv, DragCounts

\* Keeping only that.
LEMMA TrimKeeps == ASSUME ViewsInv, Views!trim PROVE ViewsInv'
<1> DEFINE from == 0
           left == Views!Length(waveform.selection)
           s == Views!refreshViews(Views!Shown, left, left)
           u == Views!selectionChanged(s, from, left)
           v == Views!showAll(u.wave)
           t == Views!waveformRanges(u, v)
<1>1. Views!Show(t) /\ UNCHANGED <<drag, width>>
  BY DEF Views!trim
<1>2. IsShown(Views!Shown) /\ SelectedIn(Views!Shown.wave) /\ width \in Nat
  BY ViewsKnown, ShownIs
<1>3. left \in Nat /\ from \in Nat /\ from <= left
  BY LengthOfSelection
<1> HIDE DEF left, from
<1>4. Together(s) /\ s.wave.total = left /\ s.spec.total = left
  BY <1>2, <1>3, RefreshTogether
<1> HIDE DEF s
<1>5. PairedIn(u)
  BY <1>2, <1>3, <1>4, SelectionPairs DEF Together, PairedIn
<1> HIDE DEF u
<1>6. IsView(u.wave)
  BY <1>5 DEF PairedIn, IsShown, Viewed
<1>7. IsView(v) /\ Fits(v, width) /\ SameButRange(u.wave, v)
  BY <1>2, <1>6, AllFits
<1> HIDE DEF v
<1>8. Together(t)
  BY <1>2, <1>5, <1>7, WaveRanges
<1> HIDE DEF t
<1>9. Together(Views!Shown)'
  BY <1>1, <1>8, ShowsTogether
<1> QED
  BY <1>1, <1>9 DEF ViewsInv, DragCounts

\* Opening a document.
LEMMA OpensTogether == ASSUME ViewsInv, NEW total \in Nat, Views!open(total) PROVE ViewsInv'
<1> DEFINE s == Views!refreshViews(Views!Shown, total, total)
           v == Views!showAll(s.wave)
           t == Views!waveformRanges(s, v)
<1>1. Views!Show(t) /\ UNCHANGED <<drag, width>>
  BY DEF Views!open
<1>2. IsShown(Views!Shown) /\ SelectedIn(Views!Shown.wave) /\ width \in Nat
  BY ViewsKnown, ShownIs
<1>3. Together(s)
  BY <1>2, RefreshTogether
<1> HIDE DEF s
<1>4. IsView(s.wave) /\ PairedIn(s)
  BY <1>3 DEF Together, PairedIn, IsShown, Viewed
<1>5. IsView(v) /\ Fits(v, width) /\ SameButRange(s.wave, v)
  BY <1>2, <1>4, AllFits
<1> HIDE DEF v
<1>6. Together(t)
  BY <1>2, <1>4, <1>5, WaveRanges
<1> HIDE DEF t
<1>7. Together(Views!Shown)'
  BY <1>1, <1>6, ShowsTogether
<1> QED
  BY <1>1, <1>7 DEF ViewsInv, DragCounts

\* The spectrogram that was being built arrives, with the waveform where it was left.
LEMMA OverviewKeeps == ASSUME ViewsInv, Views!overviewArrives PROVE ViewsInv'
<1> DEFINE total == spectrogram.total
           s == Views!setTiles(Views!Shown, total)
           v == Views!setViewRange(s.spec, s.wave.start, s.wave.length)
           a == s.wave.selection.start
           b == s.wave.selection.end
           w == Views!setSelection(v, a, b)
           t == [s EXCEPT !.spec = w]
<1>1. Views!Show(t) /\ UNCHANGED <<drag, width, gestures>>
  BY DEF Views!overviewArrives, Views!Document
<1>2. /\ IsShown(Views!Shown) /\ width \in Nat /\ total \in Nat /\ waveform.total \in {0, total} /\ SelectedIn(waveform)
      /\ Together(Views!Shown)
  BY ViewsKnown
<1>3. /\ IsShown(s) /\ s.spec.total = total /\ SameButRange(waveform, s.wave) /\ s.ruler.selection = ruler.selection
      /\ Aligned(s.wave, s.spec, s.ruler, "told", width) /\ s.lately = "told"
  BY <1>2, TilesTell, ShownIs
<1> HIDE DEF s, total
<1>4. /\ DOMAIN s = {"wave", "spec", "ruler", "lately"} /\ IsView(s.wave) /\ IsView(s.spec) /\ IsRuler(s.ruler) /\ Fits(s.wave, width)
      /\ SelectedIn(s.wave) /\ s.wave.total \in {0, total}
  BY <1>2, <1>3 DEF IsShown, Viewed, SameButRange, SelectedIn
<1>5. s.wave.start \in Int /\ s.wave.length \in Int /\ a \in Int /\ b \in Int /\ s.wave.total \in Nat
  BY <1>4 DEF IsView, IsSelection
<1>6. IsView(v) /\ Fits(v, width) /\ v.total = total
  BY <1>2, <1>3, <1>4, <1>5, RangeFits DEF SameButRange
<1>7. 0 < s.wave.total /\ width <= total => v.start = s.wave.start /\ v.length = s.wave.length
  BY <1>2, <1>3, <1>4, <1>5, RangeTaken
<1> HIDE DEF v
<1>8. IsView(w) /\ SelectedIn(w) /\ w.total = total /\ w.start = v.start /\ w.length = v.length
  BY <1>5, <1>6, SelectionFits
<1>9. s.wave.total > 0 => w.selection = s.wave.selection
  <2> SUFFICES ASSUME s.wave.total > 0 PROVE w.selection = s.wave.selection
    OBVIOUS
  <2>1. 0 <= a /\ a <= b /\ b <= v.total
    BY <1>4, <1>6 DEF SelectedIn
  <2>2. w.selection = [start |-> a, end |-> b]
    BY <1>5, <1>6, <2>1, SelectionTaken
  <2>3. s.wave.selection \in [start : Int, end : Int]
    BY <1>4 DEF IsView, IsSelection
  <2> QED
    BY <2>2, <2>3
<1> HIDE DEF w
<1>10. DOMAIN t = DOMAIN s /\ t.wave = s.wave /\ t.spec = w /\ t.ruler = s.ruler /\ t.lately = "told"
  BY <1>3, <1>4
<1> HIDE DEF t
<1>11. Fits(w, width)
  BY <1>6, <1>8 DEF Fits
<1>12. IsShown(t)
  BY <1>4, <1>8, <1>10, <1>11 DEF IsShown, Viewed
<1>13. Paired(waveform, spectrogram, ruler)
  BY <1>2, ShownIs DEF Together, PairedIn
<1>14. s.wave.total > 0 /\ ~Views!Empty(s.ruler.selection) => s.ruler.selection = s.wave.selection
  BY <1>3, <1>13 DEF Paired, SameButRange
<1>15. Paired(t.wave, t.spec, t.ruler)
  BY <1>4, <1>8, <1>9, <1>10, <1>14 DEF Paired
<1>16. Aligned(t.wave, t.spec, t.ruler, t.lately, width)
  BY <1>3, <1>4, <1>7, <1>8, <1>10 DEF Aligned
<1>17. Together(t)
  BY <1>12, <1>15, <1>16 DEF Together, PairedIn
<1>18. Together(Views!Shown)'
  BY <1>1, <1>17, ShowsTogether
<1> QED
  BY <1>1, <1>18 DEF ViewsInv, DragCounts

\* The views begin together, of no document.
LEMMA InitViews == Views!ViewsInit => ViewsInv
<1> SUFFICES ASSUME Views!ViewsInit PROVE ViewsInv
  OBVIOUS
<1>1. /\ waveform = [total |-> 0, start |-> 0, length |-> 0, selection |-> [start |-> 0, end |-> 0]]
      /\ spectrogram = [total |-> 0, start |-> 0, length |-> 0, selection |-> [start |-> 0, end |-> 0], band |-> Views!AllBands]
      /\ ruler = [start |-> 0, length |-> 0, selection |-> [start |-> 0, end |-> 0]]
      /\ drag = Views!NoDrag /\ width \in Widths
  BY DEF Views!ViewsInit, Views!NewView, Views!NothingSelected
<1>2. IsView(waveform) /\ SelectedIn(waveform) /\ Fits(waveform, width)
  BY <1>1 DEF IsView, IsSelection, SelectedIn, Fits
<1>3. IsView(spectrogram) /\ SelectedIn(spectrogram) /\ Fits(spectrogram, width)
  BY <1>1 DEF IsView, IsSelection, SelectedIn, Fits
<1>4. IsRuler(ruler) /\ waveform.total = 0
  BY <1>1 DEF IsRuler
<1>5. width \in Nat
  BY <1>1, ViewsAssumption
<1>6. Together(Views!Shown)
  BY <1>2, <1>3, <1>4, ShownIs DEF Together, PairedIn, IsShown, Viewed, Paired, Aligned
<1> QED
  BY <1>1, <1>5, <1>6 DEF ViewsInv, DragCounts

\* Everything a hand does keeps them together.
LEMMA HandKeeps == ASSUME ViewsInv, Views!Hand PROVE ViewsInv'
<1>1. width \in Nat
  BY DEF ViewsInv
<1>2. ASSUME NEW who \in Views!Views, NEW column \in Views!Columns,
             \/ \E factor \in {<<4, 5>>, <<5, 4>>} : Views!wheel(who, column, factor)
             \/ Views!pressToPan(who, column)
             \/ \E shift \in BOOLEAN : Views!pressToSelect(who, column, shift)
      PROVE ViewsInv'
  BY <1>2, WheelKeeps, PressToPanKeeps, PressToSelectKeeps
<1>3. ASSUME NEW who \in Views!Views, Views!doubleClick(who) \/ \E notches \in {-4, 4} : Views!wheelScrolls(who, notches) PROVE ViewsInv'
  BY <1>3, DoubleClickKeeps, WheelScrollsKeeps
<1>4. ASSUME NEW column \in -1..width + 1, NEW band, Views!dragTo(column, band) PROVE ViewsInv'
  BY <1>1, <1>4, DragToKeeps
<1>5. ASSUME NEW columns \in Widths, Views!resize(columns) PROVE ViewsInv'
  BY <1>5, ResizeKeeps, ViewsAssumption
<1> QED
  BY <1>2, <1>3, <1>4, <1>5, ReleaseKeeps, ZoomOutKeeps, ZoomInKeeps DEF Views!Hand

\* And everything else that happens to them.
LEMMA ViewsKeep == ViewsInv /\ Views!ViewsNext => ViewsInv'
<1> SUFFICES ASSUME ViewsInv, Views!ViewsNext PROVE ViewsInv'
  OBVIOUS
<1>1. ASSUME NEW total \in Durations, Views!open(total) PROVE ViewsInv'
  BY <1>1, OpensTogether, ViewsAssumption
<1>2. ASSUME NEW total \in Durations, NEW peaks \in {0, total}, Views!edit(total, peaks) PROVE ViewsInv'
  BY <1>2, EditKeeps, ViewsAssumption
<1> QED
  BY <1>1, <1>2, HandKeeps, SelectSecondsKeeps, GoToKeeps, EditFailsKeeps, DeleteKeeps, TrimKeeps, OverviewKeeps DEF Views!ViewsNext

\* Nothing of the views changes where their part has no turn.
LEMMA ViewsStand == ViewsInv /\ UNCHANGED viewVars => ViewsInv'
BY StaysTogether DEF viewVars, ViewsInv, DragCounts

\* What the run asks of the views in every state.
LEMMA OneTimelineThen == ViewsInv => Views!OneTimeline /\ Views!RulerFollows
<1> SUFFICES ASSUME ViewsInv PROVE Views!OneTimeline /\ Views!RulerFollows
  OBVIOUS
<1>1. /\ IsView(waveform) /\ Fits(waveform, width) /\ SelectedIn(waveform) /\ waveform.total \in {0, spectrogram.total}
      /\ spectrogram.total \in Nat /\ waveform.total \in Nat
      /\ Paired(waveform, spectrogram, ruler) /\ Aligned(waveform, spectrogram, ruler, lately, width)
  BY ViewsKnown, ShownIs DEF Together, PairedIn
<1>2. Views!OneTimeline
  BY <1>1 DEF Views!OneTimeline, Views!Document, IsView, Fits, SelectedIn, Paired, Aligned
<1>3. Views!RulerFollows
  BY <1>1 DEF Views!RulerFollows, Views!Document, Paired, Aligned
<1> QED
  BY <1>2, <1>3
-------------------------------------------------------------------------------
(* Zooming.                                                                    *)

\* A range that fits in length is moved no further than it must be.
LEMMA MovedWithin == ASSUME NEW v, IsView(v), width \in Nat, NEW a \in Int, NEW b \in Int, b <= v.total, width <= b, 0 < b
                     PROVE LET w == Views!setViewRange(v, a, b)
                           IN w.length = b /\ (0 < w.start /\ w.start + b < v.total => w.start = a)
<1> DEFINE u == [v EXCEPT !.start = a, !.length = b]
           least == Views!AtLeast(width, 1)
           length == Views!StdClamp(u.length, least, u.total)
           most == Views!AtLeast(u.total - length, 0)
           start == Views!StdClamp(u.start, 0, most)
           w == Views!clampedTo(u, width)
<1>1. u.total = v.total /\ u.start = a /\ u.length = b /\ DOMAIN u = DOMAIN v /\ v.total \in Nat /\ {"start", "length"} \subseteq DOMAIN v
  BY DEF IsView
<1>2. w = Views!setViewRange(v, a, b)
  BY DEF Views!setViewRange, Views!clampView
<1> HIDE DEF u
<1>3. least \in Nat /\ least >= 1 /\ least <= b
  BY DEF Views!AtLeast
<1>4. length = b
  BY <1>1, <1>3 DEF Views!StdClamp
<1>5. most = v.total - b /\ most \in Int /\ most >= 0
  BY <1>1, <1>4 DEF Views!AtLeast
<1>6. start \in Int /\ (0 < start /\ start < most => start = a)
  BY <1>1, <1>5 DEF Views!StdClamp
<1> HIDE DEF least, length, most, start
<1>7. w = [u EXCEPT !.length = length, !.start = start]
  BY <1>1 DEF Views!clampedTo, length, start, most, least
<1> HIDE DEF w
<1>8. w.start = start /\ w.length = length
  BY <1>1, <1>7
<1>9. w.length = b /\ (0 < w.start /\ w.start + b < v.total => w.start = a)
  BY <1>1, <1>4, <1>5, <1>6, <1>8
<1> QED
  BY <1>2, <1>9

\* A zoom that reaches neither end of the document leaves the same sample under the cursor:
\* the column is taken off again at the length that was really given.
LEMMA ZoomAnchors == ASSUME NEW v, IsView(v), width \in Nat, width > 0, NEW num \in Nat, NEW den \in Nat, den > 0, NEW column \in Int,
                            0 < v.total, width <= v.total
                     PROVE LET w == Views!zoom(v, num, den, column)
                           IN 0 < w.start /\ w.start + w.length < v.total =>
                                w.start + (w.length * column) \div width = v.start + (v.length * column) \div width
<1> DEFINE length == (v.length * num) \div den
           u == [v EXCEPT !.length = length]
           zoomed == Views!clampedTo(u, width)
           anchor == v.start + (v.length * column) \div width
           from == anchor - (zoomed.length * column) \div width
           w == Views!setViewRange(zoomed, from, zoomed.length)
<1>1. v.start \in Int /\ v.length \in Int /\ {"total", "start", "length", "selection"} \subseteq DOMAIN v /\ v.total \in Nat
  BY DEF IsView
<1>2. length \in Int
  <2>1. v.length * num \in Int
    BY <1>1
  <2> QED
    BY <2>1
<1>3. u = [v EXCEPT !.length = (@ * num) \div den]
  OBVIOUS
<1>15. Views!zoom(v, num, den, column) = w
  BY <1>3 DEF Views!zoom, Views!clampView
<1> HIDE DEF length
<1>4. IsView(u) /\ SameButRange(v, u)
  BY <1>1, <1>2 DEF IsView, SameButRange
<1> HIDE DEF u
<1>5. IsView(zoomed) /\ SameButRange(u, zoomed) /\ Fits(zoomed, width)
  BY <1>4, ClampedFits
<1>6. anchor \in Int
  <2>1. v.length * column \in Int
    BY <1>1
  <2>2. (v.length * column) \div width \in Int
    BY <2>1
  <2> QED
    BY <1>1, <2>2
<1> HIDE DEF anchor, zoomed
<1> DEFINE off == (zoomed.length * column) \div width
<1>7. zoomed.length \in Int /\ zoomed.total = v.total
  BY <1>4, <1>5 DEF IsView, SameButRange
<1>8. off \in Int
  <2>1. zoomed.length * column \in Int
    BY <1>7
  <2> QED
    BY <2>1
<1>9. zoomed.start \in Int /\ zoomed.length <= zoomed.total /\ width <= zoomed.length /\ 0 < zoomed.length
  BY <1>1, <1>5, <1>7 DEF Fits, IsView
<1>10. from = anchor - off
  OBVIOUS
<1>11. from \in Int
  BY <1>6, <1>8, <1>10
<1> HIDE DEF from
<1>12. w.length = zoomed.length /\ (0 < w.start /\ w.start + zoomed.length < zoomed.total => w.start = from)
  BY <1>5, <1>7, <1>9, <1>11, MovedWithin
<1>13. (w.length * column) \div width = off
  BY <1>12
<1> HIDE DEF w, off
<1>14. 0 < w.start /\ w.start + w.length < v.total => w.start + off = anchor
  BY <1>6, <1>7, <1>8, <1>10, <1>12
<1> QED
  BY <1>15, <1>13, <1>14 DEF anchor

\* What the run asks of a step that zooms.
LEMMA ZoomedAbout == ViewsInv => Views!ZoomsAboutTheSample
<1> SUFFICES ASSUME ViewsInv, 0 < waveform'.start, waveform'.start + waveform'.length < spectrogram.total,
                    NEW who \in Views!Views, NEW column \in Views!Columns, NEW factor \in {<<4, 5>>, <<5, 4>>}, Views!wheel(who, column, factor)
             PROVE Views!sampleAtX(Views!Of(Views!Shown, who), column)' = Views!sampleAtX(Views!Of(Views!Shown, who), column)
  BY DEF Views!ZoomsAboutTheSample, Views!Document
<1> DEFINE o == Views!Of(Views!Shown, who)
           v == Views!zoom(o, factor[1], factor[2], column)
           t == Views!Ranges(Views!Shown, who, v)
<1>1. width > 0 /\ o.length > 0 /\ Views!Show(t) /\ width' = width
  BY DEF Views!wheel
<1>2. IsView(o) /\ PairedIn(Views!Shown) /\ width \in Nat
  BY ViewsKnown
<1>3. factor[1] \in Nat /\ factor[2] \in Nat /\ factor[2] > 0 /\ column \in Int /\ 0 <= column /\ column <= width
  BY <1>2 DEF Views!Columns
<1>4. IsView(v) /\ Fits(v, width) /\ SameButRange(o, v)
  <2> HIDE DEF o
  <2> QED
    BY <1>1, <1>2, <1>3, ZoomFits
<1>5. Together(t)
  <2> HIDE DEF v
  <2> QED
    BY <1>2, <1>4, RangesKeep DEF o
<1>6. Views!Of(t, who) = v
  <2>1. IsShown(Views!Shown)
    BY <1>2 DEF PairedIn
  <2> HIDE DEF v
  <2>2. who = "waveform" => t.wave = v
    BY <1>2, <1>4, <2>1, WaveTells DEF Views!Ranges
  <2>3. who # "waveform" => t.spec = v
    BY <1>2, <1>4, <2>1, SpecTells DEF Views!Ranges
  <2> HIDE DEF t
  <2> QED
    BY <2>2, <2>3 DEF Views!Of
<1>7. Views!Of(Views!Shown, who)' = v
  <2> HIDE DEF t, v
  <2> QED
    BY <1>1, <1>6 DEF Views!Of, Views!Shown, Views!Show
<1>8. waveform' = t.wave /\ spectrogram' = t.spec
  BY <1>1 DEF Views!Show
<1> HIDE DEF t, v, o
<1>9. /\ IsView(t.wave) /\ Fits(t.wave, width) /\ t.wave.total \in {0, t.spec.total} /\ IsView(t.spec)
      /\ Aligned(t.wave, t.spec, t.ruler, t.lately, width)
  BY <1>5 DEF Together, PairedIn, IsShown, Viewed, Paired
<1>10. 0 < t.wave.total /\ width <= t.wave.total /\ t.wave.total = t.spec.total
  BY <1>2, <1>8, <1>9 DEF Fits, IsView
<1>11. v = t.wave \/ v = t.spec
  BY <1>6 DEF Views!Of
<1>12. v.start = waveform'.start /\ v.length = waveform'.length /\ v.total = t.wave.total
  BY <1>8, <1>9, <1>10, <1>11 DEF Aligned
<1>13. o.total = v.total /\ o.total \in Nat
  BY <1>2, <1>4 DEF SameButRange, IsView
<1>14. o = waveform \/ o = spectrogram
  BY ShownIs DEF o, Views!Of
<1>15. o.total = spectrogram.total
  BY <1>10, <1>12, <1>13, <1>14, ViewsKnown
<1>16. v.start + (v.length * column) \div width = o.start + (o.length * column) \div width
  BY <1>1, <1>2, <1>3, <1>10, <1>12, <1>13, <1>15, ZoomAnchors DEF v
<1>17. v.length > 0
  BY <1>2, <1>4, <1>10, <1>12 DEF Fits
<1>18. Views!StdClamp(column, 0, width) = column
  BY <1>2, <1>3 DEF Views!StdClamp
<1>19. Views!sampleAtX(v, column) = v.start + (v.length * column) \div width
  BY <1>1, <1>2, <1>4, <1>17, <1>18 DEF Views!sampleAtX, IsView
<1>20. Views!sampleAtX(o, column) = o.start + (o.length * column) \div width
  BY <1>1, <1>2, <1>18 DEF Views!sampleAtX, IsView
<1>21. Views!sampleAtX(Views!Of(Views!Shown, who), column)' = Views!sampleAtX(v, column)
  BY <1>1, <1>7 DEF Views!sampleAtX
<1> QED
  BY <1>16, <1>19, <1>20, <1>21 DEF o
-------------------------------------------------------------------------------
(* The equaliser's panel, whatever is done to it.                              *)

Band == [f : Int, gain : Int, q : Int, name : Int]
PanelFields == {"bands", "nyquist", "visible", "selected", "dragging", "draggingQ", "startY", "startQ", "apply", "reset"}
PanelShaped(p) ==
  /\ DOMAIN p = PanelFields /\ p.nyquist \in Nat \ {0} /\ p.bands \in Seq(Band) /\ Len(p.bands) <= kMaxBands
  /\ p.visible \in BOOLEAN /\ p.selected \in 0..Len(p.bands) /\ p.dragging \in 0..Len(p.bands)
  /\ p.startY \in Int /\ p.startQ \in Int
  /\ \A i \in DOMAIN p.bands : p.bands[i].f <= p.nyquist - 1
  /\ ~p.visible => p.dragging = 0
PanelOffers(p) == p.apply = (~Equaliser!isFlat(p)) /\ p.reset = (p.bands # <<>>)
PanelHolds(p) == PanelShaped(p) /\ PanelOffers(p)
SameNames(p, r) == DOMAIN p.bands = DOMAIN r.bands /\ \A i \in DOMAIN p.bands : r.bands[i].name = p.bands[i].name
\* The bands of all names but one are as they were.
AllBut(s, t, name) == \A b : b.name # name => (b \in Equaliser!Range(s) <=> b \in Equaliser!Range(t))

\* Of finitely many numbers one is the greatest.
LEMMA GreatestOf == ASSUME NEW N \in Nat, NEW S, S \subseteq 0..N, S # {} PROVE \E x \in S : \A y \in S : x >= y
<1> DEFINE T == {N - x : x \in S}
<1>1. T \subseteq Nat /\ T # {}
  <2>1. \A x \in S : N - x \in Nat
    OBVIOUS
  <2> QED
    BY <2>1
<1>2. PICK z \in T : \A y \in T : z <= y
  <2> HIDE DEF T
  <2> QED
    BY <1>1, LeastOfAll
<1>3. PICK x \in S : z = N - x
  BY <1>2
<1>4. \A y \in S : x >= y
  <2> TAKE y \in S
  <2>1. N - y \in T
    OBVIOUS
  <2>2. z <= N - y
    BY <1>2, <2>1
  <2> QED
    BY <1>3, <2>2
<1> QED
  BY <1>4

\* A handle that is found is that of a band (handleAt).
LEMMA HandleListed == ASSUME NEW p, p.bands \in Seq(Band), NEW spot PROVE Equaliser!handleAt(p, spot) \in 0..Len(p.bands)
<1> DEFINE reached == {i \in DOMAIN p.bands : Equaliser!Distance(p, i, spot) <= kHandleRadius * kHandleRadius}
           nearest == {i \in reached : \A j \in reached : Equaliser!Distance(p, i, spot) <= Equaliser!Distance(p, j, spot)}
           S == nearest \cup {0}
<1>1. Len(p.bands) \in Nat /\ DOMAIN p.bands = 1..Len(p.bands)
  OBVIOUS
<1>2. nearest \subseteq 1..Len(p.bands)
  BY <1>1
<1> HIDE DEF nearest
<1>3. S \subseteq 0..Len(p.bands) /\ S # {}
  BY <1>1, <1>2
<1>4. Equaliser!handleAt(p, spot) = Equaliser!Max(S)
  BY DEF Equaliser!handleAt, nearest
<1> HIDE DEF S
<1>5. \E x \in S : \A y \in S : x >= y
  BY <1>1, <1>3, GreatestOf
<1>6. Equaliser!Max(S) \in S
  BY <1>5 DEF Equaliser!Max
<1> QED
  BY <1>3, <1>4, <1>6

\* A band that is made is within its limits, and short of Nyquist (clampedBand).
LEMMA BandClamped == ASSUME NEW p, p.nyquist \in Nat \ {0}, NEW f \in Int, NEW gain \in Int, NEW q \in Int, NEW name \in Int
                     PROVE /\ Equaliser!Named(Equaliser!clampedBand(p, f, gain, q), name) \in Band
                           /\ Equaliser!Named(Equaliser!clampedBand(p, f, gain, q), name).f <= p.nyquist - 1
                           /\ Equaliser!Named(Equaliser!clampedBand(p, f, gain, q), name).name = name
<1> DEFINE ff == Equaliser!Clamped(f, 0, p.nyquist - 1)
           gg == Equaliser!Clamped(gain, -kGainLimit, kGainLimit)
           qq == Equaliser!Clamped(q, 0, kMaximumQ)
<1>1. ff \in Int /\ gg \in Int /\ qq \in Int /\ ff <= p.nyquist - 1
  BY EqualiserAssumption DEF Equaliser!Clamped
<1>2. Equaliser!Named(Equaliser!clampedBand(p, f, gain, q), name) = [f |-> ff, gain |-> gg, q |-> qq, name |-> name]
  BY DEF Equaliser!Named, Equaliser!clampedBand, Equaliser!ceilingFor
<1> HIDE DEF ff, gg, qq
<1> QED
  BY <1>1, <1>2 DEF Band

\* The bands of a curve.
LEMMA RangeIs == ASSUME NEW s PROVE Equaliser!Range(s) = {s[i] : i \in DOMAIN s}
BY DEF Equaliser!Range

\* Setting a band changes that one only (setBand).
LEMMA BandSet == ASSUME NEW p, PanelShaped(p), NEW i \in DOMAIN p.bands, NEW f \in Int, NEW gain \in Int, NEW q \in Int
                 PROVE LET r == Equaliser!setBand(p, i, f, gain, q)
                       IN /\ PanelShaped(r) /\ SameNames(p, r) /\ AllBut(p.bands, r.bands, p.bands[i].name)
                          /\ r.dragging = p.dragging /\ r.selected = p.selected /\ r.visible = p.visible /\ r.draggingQ = p.draggingQ
<1> DEFINE b == Equaliser!Named(Equaliser!clampedBand(p, f, gain, q), p.bands[i].name)
           r == Equaliser!setBand(p, i, f, gain, q)
<1>1. DOMAIN p = PanelFields /\ p.nyquist \in Nat \ {0} /\ p.bands \in Seq(Band) /\ \A j \in DOMAIN p.bands : p.bands[j].f <= p.nyquist - 1
  BY DEF PanelShaped
<1>2. p.bands[i] \in Band /\ p.bands[i].name \in Int
  <2>1. p.bands[i] \in Band
    BY <1>1
  <2> QED
    BY <2>1 DEF Band
<1>3. b \in Band /\ b.f <= p.nyquist - 1 /\ b.name = p.bands[i].name
  BY <1>1, <1>2, BandClamped
<1>4. r = [p EXCEPT !.bands[i] = b]
  BY DEF Equaliser!setBand
<1> HIDE DEF b, r
<1>5. DOMAIN r = DOMAIN p /\ r.bands = [p.bands EXCEPT ![i] = b] /\ r.nyquist = p.nyquist /\ r.dragging = p.dragging /\ r.selected = p.selected
      /\ r.visible = p.visible /\ r.draggingQ = p.draggingQ /\ r.startY = p.startY /\ r.startQ = p.startQ
  BY <1>1, <1>4 DEF PanelFields
<1>6. r.bands \in Seq(Band) /\ Len(r.bands) = Len(p.bands) /\ DOMAIN r.bands = DOMAIN p.bands
  BY <1>1, <1>3, <1>5
<1>7. r.bands[i] = b /\ \A j \in DOMAIN p.bands : j # i => r.bands[j] = p.bands[j]
  BY <1>1, <1>5
<1>8. PanelShaped(r)
  BY <1>1, <1>3, <1>5, <1>6, <1>7 DEF PanelShaped
<1>9. SameNames(p, r)
  BY <1>3, <1>6, <1>7 DEF SameNames
<1>10. AllBut(p.bands, r.bands, p.bands[i].name)
  BY <1>3, <1>6, <1>7, RangeIs DEF AllBut
<1> QED
  BY <1>5, <1>8, <1>9, <1>10 DEF r

\* There are fewer bands than names, so one is unused.
LEMMA NameUnused == ASSUME NEW p, PanelShaped(p) PROVE Equaliser!Unused(p) \in Int
<1> DEFINE Numbers == 1..(kMaxBands + 1)
           At(n) == CHOOSE i \in DOMAIN p.bands : p.bands[i].name = n
           g == [n \in Numbers |-> At(n)]
<1>1. kMaxBands \in Nat /\ p.bands \in Seq(Band) /\ Len(p.bands) \in Nat /\ Len(p.bands) <= kMaxBands /\ DOMAIN p.bands = 1..Len(p.bands)
  BY EqualiserAssumption DEF PanelShaped
<1>2. IsFiniteSet(Numbers) /\ Cardinality(Numbers) = kMaxBands + 1
  <2> DEFINE most == kMaxBands + 1
  <2>1. most \in Int /\ 1 \in Int /\ ~(1 > most)
    BY <1>1
  <2> HIDE DEF most
  <2>2. IsFiniteSet(1..most) /\ Cardinality(1..most) = most - 1 + 1
    BY <2>1, FS_Interval
  <2> QED
    BY <1>1, <2>2 DEF most
<1>3. IsFiniteSet(DOMAIN p.bands) /\ Cardinality(DOMAIN p.bands) = Len(p.bands)
  BY <1>1, FS_Interval
<1>4. \E n \in Numbers : \A i \in DOMAIN p.bands : p.bands[i].name # n
  <2> SUFFICES ASSUME \A n \in Numbers : \E i \in DOMAIN p.bands : p.bands[i].name = n PROVE FALSE
    OBVIOUS
  <2>1. \A n \in Numbers : At(n) \in DOMAIN p.bands /\ p.bands[At(n)].name = n
    OBVIOUS
  <2> HIDE DEF At, Numbers
  <2>2. g \in [Numbers -> DOMAIN p.bands]
    BY <2>1
  <2>3. \E x, y \in Numbers : x # y /\ g[x] = g[y]
    <3>1. Cardinality(DOMAIN p.bands) < Cardinality(Numbers)
      BY <1>1, <1>2, <1>3
    <3> HIDE DEF g
    <3> QED
      BY <1>2, <1>3, <2>2, <3>1, FS_PigeonHole
  <2> QED
    BY <2>1, <2>3
<1>5. Equaliser!Unused(p) \in Numbers
  BY <1>4 DEF Equaliser!Unused
<1> QED
  BY <1>1, <1>5

\* Adding a band leaves the others (addBand).
LEMMA BandAdded == ASSUME NEW p, PanelShaped(p), Len(p.bands) < kMaxBands, NEW f \in Int, NEW gain \in Int
                   PROVE LET r == Equaliser!addBand(p, f, gain)
                         IN /\ PanelShaped(r) /\ AllBut(p.bands, r.bands, Equaliser!Unused(p)) /\ Len(r.bands) = Len(p.bands) + 1
                            /\ r.visible = p.visible
<1> DEFINE name == Equaliser!Unused(p)
           b == Equaliser!Named(Equaliser!clampedBand(p, f, gain, kDefaultQ), name)
           r == Equaliser!addBand(p, f, gain)
<1>1. /\ DOMAIN p = PanelFields /\ p.nyquist \in Nat \ {0} /\ p.bands \in Seq(Band) /\ \A j \in DOMAIN p.bands : p.bands[j].f <= p.nyquist - 1
      /\ Len(p.bands) \in Nat /\ kMaxBands \in Nat /\ kDefaultQ \in Int
  BY EqualiserAssumption DEF PanelShaped
<1>2. r = [p EXCEPT !.bands = Append(p.bands, b)]
  BY DEF Equaliser!addBand
<1>4. name \in Int
  BY NameUnused
<1> HIDE DEF name
<1>3. b \in Band /\ b.f <= p.nyquist - 1 /\ b.name = name
  BY <1>1, <1>4, BandClamped
<1> HIDE DEF b, r
<1>5. DOMAIN r = DOMAIN p /\ r.bands = Append(p.bands, b) /\ r.nyquist = p.nyquist /\ r.dragging = p.dragging /\ r.selected = p.selected
      /\ r.visible = p.visible /\ r.startY = p.startY /\ r.startQ = p.startQ
  BY <1>1, <1>2 DEF PanelFields
<1>6. r.bands \in Seq(Band) /\ Len(r.bands) = Len(p.bands) + 1 /\ DOMAIN r.bands = 1..Len(p.bands) + 1 /\ DOMAIN p.bands = 1..Len(p.bands)
  BY <1>1, <1>3, <1>5
<1>7. r.bands[Len(p.bands) + 1] = b /\ \A j \in DOMAIN p.bands : r.bands[j] = p.bands[j]
  BY <1>1, <1>3, <1>5
<1>8. PanelShaped(r)
  <2>1. \A i \in DOMAIN r.bands : r.bands[i].f <= r.nyquist - 1
    BY <1>1, <1>3, <1>5, <1>6, <1>7
  <2> QED
    BY <1>1, <1>5, <1>6, <2>1 DEF PanelShaped
<1>10. AllBut(p.bands, r.bands, name)
  <2>1. \A i \in DOMAIN r.bands : i \in DOMAIN p.bands \/ i = Len(p.bands) + 1
    BY <1>1, <1>6
  <2>2. \A i \in DOMAIN p.bands : i \in DOMAIN r.bands
    BY <1>1, <1>6
  <2> QED
    BY <1>3, <1>7, <2>1, <2>2, RangeIs DEF AllBut
<1> QED
  BY <1>5, <1>6, <1>8, <1>10 DEF r, name

\* What is left of a sequence without one of its elements.
LEMMA RemovedAt == ASSUME NEW s \in Seq(Band), NEW i \in DOMAIN s
                   PROVE LET t == Equaliser!RemoveAt(s, i)
                         IN /\ t \in Seq(Band) /\ Len(t) = Len(s) - 1
                            /\ \A j \in DOMAIN t : t[j] = IF j < i THEN s[j] ELSE s[j + 1]
<1> DEFINE before == SubSeq(s, 1, i - 1)
           after == SubSeq(s, i + 1, Len(s))
           n == Len(s)
           t == before \o after
<1>1. n \in Nat /\ DOMAIN s = 1..n /\ i \in 1..n /\ \A j \in 1..n : s[j] \in Band
  OBVIOUS
<1>2. before \in Seq(Band) /\ Len(before) = i - 1 /\ \A j \in 1..i - 1 : before[j] = s[j]
  <2> DEFINE m == i - 1
  <2>1. m \in Int /\ 1 \in Int /\ (1 <= m \/ m = 0) /\ \A j \in 1..m : s[j] \in Band
    BY <1>1
  <2> HIDE DEF m
  <2>2. /\ SubSeq(s, 1, m) \in Seq(Band) /\ Len(SubSeq(s, 1, m)) = IF 1 <= m THEN m - 1 + 1 ELSE 0
        /\ \A j \in 1..m - 1 + 1 : SubSeq(s, 1, m)[j] = s[1 + j - 1]
    BY <2>1, SubSeqProperties
  <2>3. /\ SubSeq(s, 1, m) \in Seq(Band) /\ Len(SubSeq(s, 1, m)) = m /\ \A j \in 1..m : SubSeq(s, 1, m)[j] = s[j]
    BY <2>1, <2>2
  <2> QED
    BY <2>3 DEF m
<1>3. after \in Seq(Band) /\ Len(after) = n - i /\ \A j \in 1..n - i : after[j] = s[i + j]
  <2> DEFINE m == i + 1
  <2>1. m \in Int /\ n \in Int /\ m <= n + 1 /\ m >= 2 /\ \A j \in m..n : s[j] \in Band
    BY <1>1
  <2> HIDE DEF m, n
  <2>2. /\ SubSeq(s, m, n) \in Seq(Band) /\ Len(SubSeq(s, m, n)) = IF m <= n THEN n - m + 1 ELSE 0
        /\ \A j \in 1..n - m + 1 : SubSeq(s, m, n)[j] = s[m + j - 1]
    BY <2>1, SubSeqProperties
  <2>3. /\ SubSeq(s, m, n) \in Seq(Band) /\ Len(SubSeq(s, m, n)) = n - m + 1 /\ \A j \in 1..n - m + 1 : SubSeq(s, m, n)[j] = s[m + j - 1]
    BY <2>1, <2>2
  <2> QED
    BY <1>1, <2>3 DEF m, n
<1> HIDE DEF before, after
<1>4. /\ t \in Seq(Band) /\ Len(t) = Len(before) + Len(after)
      /\ \A j \in 1..Len(before) + Len(after) : t[j] = IF j <= Len(before) THEN before[j] ELSE after[j - Len(before)]
  BY <1>2, <1>3, ConcatProperties
<1> HIDE DEF t, n
<1>5. Len(t) = n - 1 /\ DOMAIN t = 1..n - 1
  BY <1>1, <1>2, <1>3, <1>4
<1>6. ASSUME NEW j \in DOMAIN t PROVE t[j] = IF j < i THEN s[j] ELSE s[j + 1]
  <2>1. j \in Int /\ 1 <= j /\ j <= n - 1
    BY <1>1, <1>5
  <2>2. CASE j < i
    BY <1>1, <1>2, <1>3, <1>4, <2>1, <2>2
  <2>3. CASE j >= i
    <3> DEFINE k == j - (i - 1)
    <3>1. k \in 1..n - i /\ i + k = j + 1
      BY <1>1, <2>1, <2>3
    <3>2. t[j] = after[k]
      BY <1>1, <1>2, <1>3, <1>4, <2>1, <2>3
    <3>3. after[k] = s[i + k]
      BY <1>3, <3>1
    <3> QED
      BY <1>1, <2>1, <2>3, <3>1, <3>2, <3>3
  <2> QED
    BY <1>1, <2>1, <2>2, <2>3
<1> QED
  BY <1>4, <1>5, <1>6 DEF Equaliser!RemoveAt, t, before, after, n

\* Telling the window changes what it offers, and nothing else (bandsEdited).
LEMMA Edited == ASSUME NEW p, PanelShaped(p)
                PROVE LET r == Equaliser!bandsEdited(p)
                      IN /\ PanelHolds(r) /\ r.bands = p.bands /\ r.dragging = p.dragging /\ r.selected = p.selected /\ r.visible = p.visible
                         /\ r.draggingQ = p.draggingQ
<1> DEFINE r == Equaliser!bandsEdited(p)
<1>1. DOMAIN p = PanelFields /\ r = [p EXCEPT !.apply = ~Equaliser!isFlat(p), !.reset = p.bands # <<>>]
  BY DEF PanelShaped, Equaliser!bandsEdited
<1> HIDE DEF r
<1>2. /\ DOMAIN r = DOMAIN p /\ r.bands = p.bands /\ r.dragging = p.dragging /\ r.selected = p.selected /\ r.visible = p.visible
      /\ r.draggingQ = p.draggingQ /\ r.startY = p.startY /\ r.startQ = p.startQ /\ r.nyquist = p.nyquist
      /\ r.apply = (~Equaliser!isFlat(p)) /\ r.reset = (p.bands # <<>>)
  BY <1>1 DEF PanelFields
<1>3. PanelShaped(r)
  BY <1>2 DEF PanelShaped
<1>4. PanelOffers(r)
  BY <1>2 DEF PanelOffers, Equaliser!isFlat
<1> QED
  BY <1>2, <1>3, <1>4 DEF r, PanelHolds

\* Removing a band leaves the others, and holds none (removeBand).
LEMMA RemovedHolds == ASSUME NEW p, PanelShaped(p), NEW i \in DOMAIN p.bands
                      PROVE LET r == Equaliser!Removed(p, i)
                            IN /\ PanelHolds(r) /\ r.dragging = 0 /\ Len(r.bands) = Len(p.bands) - 1 /\ r.visible = p.visible
                               /\ AllBut(p.bands, r.bands, p.bands[i].name)
<1> DEFINE s == Equaliser!RemoveAt(p.bands, i)
           q == [p EXCEPT !.bands = s, !.selected = 0, !.dragging = 0]
           r == Equaliser!bandsEdited(q)
<1>1. /\ DOMAIN p = PanelFields /\ p.bands \in Seq(Band) /\ Len(p.bands) \in Nat /\ DOMAIN p.bands = 1..Len(p.bands) /\ kMaxBands \in Nat
      /\ \A j \in DOMAIN p.bands : p.bands[j].f <= p.nyquist - 1
  BY EqualiserAssumption DEF PanelShaped
<1>2. s \in Seq(Band) /\ Len(s) = Len(p.bands) - 1 /\ \A j \in DOMAIN s : s[j] = IF j < i THEN p.bands[j] ELSE p.bands[j + 1]
  BY <1>1, RemovedAt
<1> HIDE DEF s
<1>3. Len(s) \in Nat /\ DOMAIN s = 1..Len(p.bands) - 1
  BY <1>1, <1>2
<1>4. \A j \in DOMAIN s : \E k \in DOMAIN p.bands : k # i /\ s[j] = p.bands[k]
  <2> TAKE j \in DOMAIN s
  <2>1. j \in DOMAIN p.bands /\ j + 1 \in DOMAIN p.bands /\ i \in Int /\ j \in Int
    BY <1>1, <1>3
  <2>2. CASE j < i
    BY <1>2, <2>1, <2>2
  <2>3. CASE ~(j < i)
    BY <1>2, <2>1, <2>3
  <2> QED
    BY <2>2, <2>3
<1>5. \A k \in DOMAIN p.bands : k # i => \E j \in DOMAIN s : s[j] = p.bands[k]
  <2> SUFFICES ASSUME NEW k \in DOMAIN p.bands, k # i PROVE \E j \in DOMAIN s : s[j] = p.bands[k]
    OBVIOUS
  <2>1. CASE k < i
    <3>1. k \in DOMAIN s
      BY <1>1, <1>3, <2>1
    <3> QED
      BY <1>2, <2>1, <3>1
  <2>2. CASE k > i
    <3>1. k - 1 \in DOMAIN s /\ ~(k - 1 < i) /\ (k - 1) + 1 = k
      BY <1>1, <1>3, <2>2
    <3> QED
      BY <1>2, <3>1
  <2> QED
    BY <1>1, <2>1, <2>2
<1>6. DOMAIN q = DOMAIN p /\ q.bands = s /\ q.selected = 0 /\ q.dragging = 0 /\ q.visible = p.visible /\ q.nyquist = p.nyquist
      /\ q.startY = p.startY /\ q.startQ = p.startQ
  BY <1>1 DEF PanelFields
<1> HIDE DEF q
<1>7. \A j \in DOMAIN q.bands : q.bands[j].f <= q.nyquist - 1
  BY <1>1, <1>4, <1>6
<1>8. PanelShaped(q)
  BY <1>1, <1>2, <1>3, <1>6, <1>7 DEF PanelShaped
<1>9. PanelHolds(r) /\ r.bands = s /\ r.dragging = 0 /\ r.visible = p.visible
  BY <1>6, <1>8, Edited
<1>10. AllBut(p.bands, s, p.bands[i].name)
  BY <1>4, <1>5, RangeIs DEF AllBut
<1>11. r = Equaliser!Removed(p, i)
  BY DEF Equaliser!Removed, q, s
<1> HIDE DEF r
<1> QED
  BY <1>2, <1>9, <1>10, <1>11

\* What a band is made of.
LEMMA BandIs == ASSUME NEW b \in Band PROVE b.f \in Int /\ b.gain \in Int /\ b.q \in Int /\ b.name \in Int
BY DEF Band

PanelKeeps(p, r) == PanelHolds(r) /\ (r.dragging = 0 \/ SameNames(p, r))

\* What is known of a panel.
LEMMA PanelKnown == ASSUME NEW p, PanelHolds(p)
                    PROVE /\ PanelShaped(p) /\ DOMAIN p = PanelFields /\ p.nyquist \in Nat \ {0} /\ p.bands \in Seq(Band) /\ Len(p.bands) \in Nat
                          /\ DOMAIN p.bands = 1..Len(p.bands) /\ SameNames(p, p) /\ p.startY \in Int /\ p.startQ \in Int
                          /\ \A i \in DOMAIN p.bands : p.bands[i] \in Band
BY DEF PanelHolds, PanelShaped, SameNames

\* What is held and chosen may change while the bands do not.
LEMMA HeldHolds == ASSUME NEW p, PanelHolds(p), NEW r, DOMAIN r = PanelFields, r.bands = p.bands, r.nyquist = p.nyquist, r.visible \in BOOLEAN,
                          r.selected \in 0..Len(p.bands), r.dragging \in 0..Len(p.bands), r.startY \in Int, r.startQ \in Int,
                          r.apply = p.apply, r.reset = p.reset, ~r.visible => r.dragging = 0
                   PROVE PanelHolds(r) /\ SameNames(p, r) /\ PanelKeeps(p, r)
BY DEF PanelHolds, PanelShaped, PanelOffers, SameNames, PanelKeeps, Equaliser!isFlat

\* Pressing the left button holds the band under it, or none.
LEMMA PressHolds == ASSUME NEW p, PanelHolds(p), NEW spot, spot[2] \in Int, NEW shift
                    PROVE LET r == Equaliser!mousePress(p, "left", spot, shift)
                          IN /\ PanelHolds(r) /\ PanelKeeps(p, r) /\ r.bands = p.bands /\ r.visible = p.visible /\ r.nyquist = p.nyquist
                             /\ r.visible => r.dragging = Equaliser!handleAt(p, spot)
<1> DEFINE i == Equaliser!handleAt(p, spot)
           y == IF i # 0 /\ shift THEN spot[2] ELSE p.startY
           z == IF i # 0 /\ shift THEN p.bands[i].q ELSE p.startQ
           r == Equaliser!mousePress(p, "left", spot, shift)
<1>1. /\ PanelShaped(p) /\ DOMAIN p = PanelFields /\ p.bands \in Seq(Band) /\ Len(p.bands) \in Nat /\ DOMAIN p.bands = 1..Len(p.bands)
      /\ p.startY \in Int /\ p.startQ \in Int /\ \A j \in DOMAIN p.bands : p.bands[j] \in Band /\ SameNames(p, p)
  BY PanelKnown
<1>2. i \in 0..Len(p.bands)
  BY <1>1, HandleListed
<1> HIDE DEF i
<1>3. y \in Int /\ z \in Int
  <2>1. i # 0 => i \in DOMAIN p.bands /\ p.bands[i] \in Band
    BY <1>1, <1>2
  <2>2. i # 0 => p.bands[i].q \in Int
    BY <2>1, BandIs
  <2> QED
    BY <1>1, <2>2
<1> HIDE DEF y, z
<1>4. CASE ~p.visible
  <2>1. r = p
    BY <1>4 DEF Equaliser!mousePress
  <2> QED
    BY <1>4, <2>1, PanelKnown DEF PanelKeeps
<1>5. CASE p.visible
  <2>1. r = [p EXCEPT !.selected = i, !.dragging = i, !.draggingQ = i # 0 /\ shift, !.startY = y, !.startQ = z]
    BY <1>5, <1>1 DEF Equaliser!mousePress, i, y, z
  <2> HIDE DEF r
  <2>2. /\ DOMAIN r = PanelFields /\ r.bands = p.bands /\ r.nyquist = p.nyquist /\ r.visible = p.visible /\ r.selected = i /\ r.dragging = i
        /\ r.startY = y /\ r.startQ = z /\ r.apply = p.apply /\ r.reset = p.reset
    BY <1>1, <2>1 DEF PanelFields
  <2>3. PanelHolds(r) /\ SameNames(p, r) /\ PanelKeeps(p, r)
    BY <1>2, <1>3, <1>5, <2>2, HeldHolds
  <2> QED
    BY <2>2, <2>3 DEF r, i
<1> QED
  BY <1>4, <1>5

\* Pressing the right one removes it.
LEMMA RightPressHolds == ASSUME NEW p, PanelHolds(p), NEW spot, NEW shift
                         PROVE LET r == Equaliser!mousePress(p, "right", spot, shift)
                               IN /\ PanelKeeps(p, r) /\ r.visible = p.visible /\ \E name : AllBut(p.bands, r.bands, name)
                                  /\ Len(r.bands) = Len(p.bands) - 1 => r.dragging = 0
<1> DEFINE i == Equaliser!handleAt(p, spot)
           r == Equaliser!mousePress(p, "right", spot, shift)
<1>1. PanelShaped(p) /\ p.bands \in Seq(Band) /\ DOMAIN p.bands = 1..Len(p.bands) /\ Len(p.bands) \in Nat /\ SameNames(p, p)
  BY PanelKnown
<1>2. i \in 0..Len(p.bands)
  BY <1>1, HandleListed
<1> HIDE DEF i
<1>3. CASE ~p.visible \/ i = 0
  <2>1. r = p
    BY <1>3 DEF Equaliser!mousePress, i
  <2>2. AllBut(p.bands, p.bands, 0)
    BY DEF AllBut
  <2> QED
    BY <1>1, <2>1, <2>2 DEF PanelKeeps
<1>4. CASE p.visible /\ i # 0
  <2>1. r = Equaliser!Removed(p, i)
    BY <1>4 DEF Equaliser!mousePress, i
  <2>2. i \in DOMAIN p.bands
    BY <1>1, <1>2, <1>4
  <2> HIDE DEF r
  <2>3. PanelHolds(r) /\ r.dragging = 0 /\ r.visible = p.visible /\ AllBut(p.bands, r.bands, p.bands[i].name)
    BY <1>1, <2>1, <2>2, RemovedHolds
  <2> QED
    BY <2>3 DEF PanelKeeps, r
<1> QED
  BY <1>3, <1>4

\* A column is over a frequency.
LEMMA PositionTyped == ASSUME NEW p, p.nyquist \in Nat \ {0}, NEW x \in Int PROVE Equaliser!frequencyAtX(p, x) \in Int
<1> DEFINE c == Equaliser!Clamped(x, 0, PlotColumns)
<1>1. c \in Int
  BY EqualiserAssumption DEF Equaliser!Clamped
<1> HIDE DEF c
<1>2. c * p.nyquist \in Int
  BY <1>1
<1>3. (c * p.nyquist) \div PlotColumns \in Int
  BY <1>2, EqualiserAssumption
<1> QED
  BY <1>3 DEF Equaliser!frequencyAtX, c

\* A row is at a gain.
LEMMA GainTyped == ASSUME NEW y \in Int PROVE Equaliser!gainAtY(y) \in Int
BY EqualiserAssumption DEF Equaliser!gainAtY, Equaliser!Clamped

\* Moving the mouse changes the band that is held, and no other.
LEMMA MoveHolds == ASSUME NEW p, PanelHolds(p), NEW spot, spot[1] \in Int, spot[2] \in Int
                   PROVE LET r == Equaliser!mouseMove(p, spot)
                         IN /\ PanelHolds(r) /\ PanelKeeps(p, r) /\ r.dragging = p.dragging /\ r.visible = p.visible
                            /\ p.dragging # 0 => AllBut(p.bands, r.bands, p.bands[p.dragging].name)
<1> DEFINE i == p.dragging
           held == p.bands[i]
           f == Equaliser!frequencyAtX(p, spot[1])
           up == p.startQ + spot[2] - p.startY
           level == Equaliser!gainAtY(spot[2])
           r == Equaliser!mouseMove(p, spot)
<1>1. /\ PanelShaped(p) /\ p.nyquist \in Nat \ {0} /\ p.bands \in Seq(Band) /\ Len(p.bands) \in Nat /\ DOMAIN p.bands = 1..Len(p.bands)
      /\ p.startY \in Int /\ p.startQ \in Int /\ SameNames(p, p) /\ \A j \in DOMAIN p.bands : p.bands[j] \in Band
  BY PanelKnown
<1>2. CASE ~p.visible \/ i = 0
  <2>1. r = p /\ i = 0
    BY <1>1, <1>2 DEF Equaliser!mouseMove, PanelShaped
  <2> QED
    BY <1>1, <2>1 DEF PanelKeeps
<1>3. CASE p.visible /\ i # 0
  <2>1. i \in DOMAIN p.bands /\ held \in Band
    BY <1>1, <1>3 DEF PanelShaped
  <2>2. f \in Int /\ up \in Int /\ level \in Int /\ held.gain \in Int /\ held.q \in Int
    <3>1. held.gain \in Int /\ held.q \in Int
      BY <2>1, BandIs
    <3>2. f \in Int
      BY <1>1, PositionTyped
    <3>3. level \in Int
      BY GainTyped
    <3>4. up \in Int
      BY <1>1
    <3> QED
      BY <3>1, <3>2, <3>3, <3>4
  <2> DEFINE gain == IF p.draggingQ THEN held.gain ELSE level
             q == IF p.draggingQ THEN up ELSE held.q
             t == Equaliser!setBand(p, i, f, gain, q)
  <2>3. r = Equaliser!bandsEdited(t)
    BY <1>3 DEF Equaliser!mouseMove
  <2> HIDE DEF held, f, up, level, r
  <2>4. gain \in Int /\ q \in Int
    BY <2>2
  <2> HIDE DEF gain, q
  <2>5. /\ PanelShaped(t) /\ SameNames(p, t) /\ AllBut(p.bands, t.bands, p.bands[i].name) /\ t.dragging = p.dragging /\ t.visible = p.visible
    <3>1. PanelShaped(p) /\ i \in DOMAIN p.bands /\ f \in Int /\ gain \in Int /\ q \in Int
      BY <1>1, <2>1, <2>2, <2>4
    <3> HIDE DEF i
    <3>2. /\ PanelShaped(t) /\ SameNames(p, t) /\ AllBut(p.bands, t.bands, p.bands[i].name) /\ t.dragging = p.dragging /\ t.visible = p.visible
      BY <3>1, BandSet
    <3> QED
      BY <3>2
  <2> HIDE DEF t
  <2>6. PanelHolds(r) /\ r.bands = t.bands /\ r.dragging = p.dragging /\ r.visible = p.visible
    BY <2>3, <2>5, Edited
  <2> QED
    BY <2>5, <2>6 DEF PanelKeeps, SameNames, r
<1> QED
  BY <1>2, <1>3

\* Letting go holds none.
LEMMA ReleaseHolds == ASSUME NEW p, PanelHolds(p)
                      PROVE LET r == Equaliser!mouseRelease(p)
                            IN PanelHolds(r) /\ PanelKeeps(p, r) /\ r.bands = p.bands /\ r.dragging = 0
<1> DEFINE r == Equaliser!mouseRelease(p)
<1>1. /\ PanelShaped(p) /\ DOMAIN p = PanelFields /\ Len(p.bands) \in Nat /\ SameNames(p, p)
  BY PanelKnown
<1>2. CASE ~p.visible
  BY <1>1, <1>2 DEF Equaliser!mouseRelease, PanelKeeps, PanelShaped
<1>3. CASE p.visible
  <2> DEFINE q == IF p.dragging = 0 THEN p.draggingQ ELSE FALSE
  <2>1. r = [p EXCEPT !.dragging = 0, !.draggingQ = q]
    BY <1>1, <1>3 DEF Equaliser!mouseRelease, PanelFields
  <2> HIDE DEF r, q
  <2>2. /\ DOMAIN r = PanelFields /\ r.bands = p.bands /\ r.nyquist = p.nyquist /\ r.visible = p.visible /\ r.selected = p.selected
        /\ r.dragging = 0 /\ r.startY = p.startY /\ r.startQ = p.startQ /\ r.apply = p.apply /\ r.reset = p.reset
    BY <1>1, <2>1 DEF PanelFields
  <2>3. PanelHolds(r) /\ PanelKeeps(p, r)
    BY <1>1, <2>2, HeldHolds DEF PanelShaped
  <2> QED
    BY <2>2, <2>3 DEF r
<1> QED
  BY <1>2, <1>3 DEF PanelHolds, PanelShaped

\* A double click chooses a band and holds none.
LEMMA PutHolds == ASSUME NEW q, PanelShaped(q), NEW picked \in 0..Len(q.bands)
                  PROVE LET r == Equaliser!bandsEdited([q EXCEPT !.selected = picked, !.dragging = 0, !.draggingQ = FALSE])
                        IN PanelHolds(r) /\ r.dragging = 0 /\ r.bands = q.bands /\ r.visible = q.visible
<1> DEFINE t == [q EXCEPT !.selected = picked, !.dragging = 0, !.draggingQ = FALSE]
<1>1. DOMAIN q = PanelFields
  BY DEF PanelShaped
<1>2. /\ DOMAIN t = PanelFields /\ t.bands = q.bands /\ t.nyquist = q.nyquist /\ t.visible = q.visible /\ t.selected = picked /\ t.dragging = 0
      /\ t.startY = q.startY /\ t.startQ = q.startQ
  BY <1>1 DEF PanelFields
<1> HIDE DEF t
<1>3. Len(q.bands) \in Nat
  BY DEF PanelShaped
<1>4. PanelShaped(t)
  BY <1>2, <1>3 DEF PanelShaped
<1>5. LET r == Equaliser!bandsEdited(t) IN PanelHolds(r) /\ r.dragging = 0 /\ r.bands = q.bands /\ r.visible = q.visible
  BY <1>2, <1>4, Edited
<1> QED
  BY <1>5 DEF t

\* It levels the band under it, or adds one while there is room.
LEMMA DoubleClickHolds == ASSUME NEW p, PanelHolds(p), NEW spot, spot[1] \in Int, spot[2] \in Int
                          PROVE LET r == Equaliser!mouseDoubleClick(p, spot)
                                IN /\ PanelKeeps(p, r) /\ r.visible = p.visible /\ \E name : AllBut(p.bands, r.bands, name)
<1> DEFINE i == Equaliser!handleAt(p, spot)
           f == Equaliser!frequencyAtX(p, spot[1])
           level == Equaliser!gainAtY(spot[2])
           r == Equaliser!mouseDoubleClick(p, spot)
<1>1. /\ PanelShaped(p) /\ p.nyquist \in Nat \ {0} /\ p.bands \in Seq(Band) /\ Len(p.bands) \in Nat /\ DOMAIN p.bands = 1..Len(p.bands)
      /\ SameNames(p, p) /\ \A j \in DOMAIN p.bands : p.bands[j] \in Band
  BY PanelKnown
<1>2. i \in 0..Len(p.bands) /\ f \in Int /\ level \in Int
  BY <1>1, HandleListed, PositionTyped, GainTyped
<1>3. CASE ~p.visible \/ (i = 0 /\ Len(p.bands) = kMaxBands)
  <2>1. r = p
    BY <1>3 DEF Equaliser!mouseDoubleClick
  <2>2. AllBut(p.bands, p.bands, 0)
    BY DEF AllBut
  <2> QED
    BY <1>1, <2>1, <2>2 DEF PanelKeeps
<1>4. CASE p.visible /\ i # 0
  <2> DEFINE zero == 0
             there == p.bands[i].f
             wide == p.bands[i].q
             q == Equaliser!setBand(p, i, there, zero, wide)
  <2>1. r = Equaliser!bandsEdited([q EXCEPT !.selected = i, !.dragging = 0, !.draggingQ = FALSE])
    BY <1>4 DEF Equaliser!mouseDoubleClick
  <2> HIDE DEF i, f, level, r
  <2>6. i \in DOMAIN p.bands /\ p.bands[i] \in Band
    BY <1>1, <1>2, <1>4
  <2>2. there \in Int /\ wide \in Int /\ zero \in Int
    BY <2>6, BandIs
  <2> HIDE DEF zero, there, wide
  <2>3. PanelShaped(q) /\ SameNames(p, q) /\ AllBut(p.bands, q.bands, p.bands[i].name) /\ q.visible = p.visible
    BY <1>1, <2>6, <2>2, BandSet
  <2>4. Len(q.bands) = Len(p.bands)
    BY <1>1, <2>3 DEF SameNames, PanelShaped
  <2> HIDE DEF q
  <2>5. PanelHolds(r) /\ r.dragging = 0 /\ r.bands = q.bands /\ r.visible = q.visible
    BY <1>2, <2>1, <2>3, <2>4, PutHolds
  <2> QED
    BY <2>3, <2>5 DEF PanelKeeps, r
<1>5. CASE p.visible /\ i = 0 /\ Len(p.bands) # kMaxBands
  <2> DEFINE q == Equaliser!addBand(p, f, level)
             last == Len(p.bands) + 1
  <2>1. r = Equaliser!bandsEdited([q EXCEPT !.selected = last, !.dragging = 0, !.draggingQ = FALSE])
    BY <1>5 DEF Equaliser!mouseDoubleClick
  <2> HIDE DEF i, f, level, r
  <2>2. Len(p.bands) < kMaxBands
    BY <1>1, <1>5, EqualiserAssumption DEF PanelShaped
  <2>3. PanelShaped(q) /\ AllBut(p.bands, q.bands, Equaliser!Unused(p)) /\ Len(q.bands) = Len(p.bands) + 1 /\ q.visible = p.visible
    BY <1>1, <1>2, <2>2, BandAdded
  <2>4. last \in 0..Len(q.bands)
    BY <1>1, <2>3
  <2> HIDE DEF q, last
  <2>5. PanelHolds(r) /\ r.dragging = 0 /\ r.bands = q.bands /\ r.visible = q.visible
    BY <2>1, <2>3, <2>4, PutHolds
  <2> QED
    BY <2>3, <2>5 DEF PanelKeeps, r
<1> QED
  BY <1>3, <1>4, <1>5

\* Turning the wheel over a band.
LEMMA WheelHolds == ASSUME NEW p, PanelHolds(p), NEW spot, NEW notches \in Int PROVE PanelKeeps(p, Equaliser!wheel(p, spot, notches))
<1> DEFINE h == Equaliser!handleAt(p, spot)
           i == IF h = 0 THEN p.selected ELSE h
           r == Equaliser!wheel(p, spot, notches)
<1>1. /\ PanelShaped(p) /\ p.bands \in Seq(Band) /\ Len(p.bands) \in Nat /\ DOMAIN p.bands = 1..Len(p.bands)
      /\ SameNames(p, p) /\ \A j \in DOMAIN p.bands : p.bands[j] \in Band
  BY PanelKnown
<1>2. h \in 0..Len(p.bands)
  BY <1>1, HandleListed
<1> HIDE DEF h
<1>3. i \in 0..Len(p.bands)
  BY <1>1, <1>2 DEF PanelShaped
<1>4. CASE ~p.visible \/ i = 0 \/ notches = 0
  <2>1. r = p
    BY <1>4 DEF Equaliser!wheel, h
  <2> QED
    BY <1>1, <2>1 DEF PanelKeeps
<1>5. CASE p.visible /\ i # 0 /\ notches # 0
  <2> DEFINE f == p.bands[i].f
             gain == p.bands[i].gain
             q == p.bands[i].q + notches
             s == Equaliser!setBand(p, i, f, gain, q)
             t == [s EXCEPT !.selected = i]
  <2>1. r = Equaliser!bandsEdited(t)
    BY <1>5 DEF Equaliser!wheel, h
  <2> HIDE DEF i, r
  <2>2. i \in DOMAIN p.bands /\ p.bands[i] \in Band
    BY <1>1, <1>3, <1>5
  <2>3. f \in Int /\ gain \in Int /\ q \in Int
    BY <2>2, BandIs
  <2> HIDE DEF f, gain, q
  <2>4. PanelShaped(s) /\ SameNames(p, s) /\ s.visible = p.visible
    BY <1>1, <2>2, <2>3, BandSet
  <2>5. Len(s.bands) = Len(p.bands)
    BY <1>1, <2>4 DEF SameNames, PanelShaped
  <2> HIDE DEF s
  <2>6. /\ DOMAIN t = PanelFields /\ t.bands = s.bands /\ t.nyquist = s.nyquist /\ t.visible = s.visible /\ t.selected = i /\ t.dragging = s.dragging
        /\ t.startY = s.startY /\ t.startQ = s.startQ
    BY <2>4 DEF PanelFields, PanelShaped
  <2> HIDE DEF t
  <2>7. PanelShaped(t)
    BY <1>3, <2>4, <2>5, <2>6 DEF PanelShaped
  <2>8. PanelHolds(r) /\ r.bands = s.bands
    BY <2>1, <2>6, <2>7, Edited
  <2> QED
    BY <2>4, <2>8 DEF PanelKeeps, SameNames, r
<1> QED
  BY <1>4, <1>5

\* Deleting the band that is selected.
LEMMA KeyHolds == ASSUME NEW p, PanelHolds(p) PROVE PanelKeeps(p, Equaliser!keyPress(p))
<1>1. PanelShaped(p) /\ Len(p.bands) \in Nat /\ DOMAIN p.bands = 1..Len(p.bands) /\ SameNames(p, p)
  BY PanelKnown
<1>2. p.selected # 0 => p.selected \in DOMAIN p.bands
  BY <1>1 DEF PanelShaped
<1>3. p.selected # 0 => PanelHolds(Equaliser!Removed(p, p.selected)) /\ Equaliser!Removed(p, p.selected).dragging = 0
  BY <1>1, <1>2, RemovedHolds
<1> QED
  BY <1>1, <1>3 DEF PanelKeeps, Equaliser!keyPress

\* A curve with no bands.
LEMMA NoBands == ASSUME NEW none, none = <<>> PROVE none \in Seq(Band) /\ Len(none) = 0 /\ DOMAIN none = {}
BY EmptySeq

\* Removing them all.
LEMMA ClearHolds == ASSUME NEW p, PanelHolds(p) PROVE PanelKeeps(p, Equaliser!clearBands(p))
<1> DEFINE none == <<>>
           q == [p EXCEPT !.bands = none, !.selected = 0, !.dragging = 0, !.draggingQ = FALSE]
           r == Equaliser!bandsEdited(q)
<1>1. Equaliser!clearBands(p) = r
  BY DEF Equaliser!clearBands
<1>2. none \in Seq(Band) /\ Len(none) = 0 /\ DOMAIN none = {}
  BY NoBands
<1>3. PanelShaped(p) /\ DOMAIN p = PanelFields
  BY PanelKnown
<1> HIDE DEF none
<1>4. /\ DOMAIN q = PanelFields /\ q.bands = none /\ q.nyquist = p.nyquist /\ q.visible = p.visible /\ q.selected = 0 /\ q.dragging = 0
      /\ q.startY = p.startY /\ q.startQ = p.startQ
  BY <1>3 DEF PanelFields
<1> HIDE DEF q
<1>5. PanelShaped(q)
  BY <1>2, <1>3, <1>4, EqualiserAssumption DEF PanelShaped
<1>6. PanelHolds(r) /\ r.dragging = 0
  BY <1>4, <1>5, Edited
<1> QED
  BY <1>1, <1>6 DEF PanelKeeps

\* Showing the panel, or hiding it, which lets go.
LEMMA VisibleHolds == ASSUME NEW p, PanelHolds(p) PROVE PanelKeeps(p, Equaliser!setEqVisible(p, ~p.visible))
<1> DEFINE shown == ~p.visible
           held == IF shown THEN p.dragging ELSE 0
           r == [p EXCEPT !.visible = shown, !.dragging = held, !.draggingQ = shown /\ p.draggingQ]
<1>1. PanelShaped(p) /\ DOMAIN p = PanelFields /\ Len(p.bands) \in Nat
  BY PanelKnown
<1>2. Equaliser!setEqVisible(p, ~p.visible) = r
  BY <1>1 DEF Equaliser!setEqVisible, PanelShaped, PanelFields
<1>3. held \in 0..Len(p.bands) /\ (~shown => held = 0) /\ shown \in BOOLEAN
  BY <1>1 DEF PanelShaped
<1> HIDE DEF shown, held
<1>4. /\ DOMAIN r = PanelFields /\ r.bands = p.bands /\ r.nyquist = p.nyquist /\ r.visible = shown /\ r.selected = p.selected
      /\ r.dragging = held /\ r.startY = p.startY /\ r.startQ = p.startQ /\ r.apply = p.apply /\ r.reset = p.reset
  BY <1>1 DEF PanelFields
<1> HIDE DEF r
<1>5. PanelKeeps(p, r)
  BY <1>1, <1>3, <1>4, HeldHolds DEF PanelShaped
<1> QED
  BY <1>2, <1>5

\* A document at another rate: bands above its ceiling come down to it.
LEMMA RateHolds == ASSUME NEW p, PanelHolds(p), NEW nyquist \in Nyquists PROVE PanelKeeps(p, Equaliser!setEqSampleRate(p, nyquist))
<1> DEFINE Pulled(b) == [b EXCEPT !.f = IF @ > nyquist - 1 THEN nyquist - 1 ELSE @]
           s == [i \in DOMAIN p.bands |-> Pulled(p.bands[i])]
           r == [p EXCEPT !.nyquist = nyquist, !.bands = s]
<1>1. /\ PanelShaped(p) /\ DOMAIN p = PanelFields /\ p.bands \in Seq(Band) /\ Len(p.bands) \in Nat /\ DOMAIN p.bands = 1..Len(p.bands)
      /\ \A i \in DOMAIN p.bands : p.bands[i] \in Band
  BY PanelKnown
<1>2. Equaliser!setEqSampleRate(p, nyquist) = r
  BY DEF Equaliser!setEqSampleRate, Equaliser!ceilingFor
<1>3. nyquist \in Nat \ {0}
  BY EqualiserAssumption
<1>4. \A b \in Band : Pulled(b) \in Band /\ Pulled(b).f <= nyquist - 1 /\ Pulled(b).name = b.name /\ Pulled(b).gain = b.gain
  BY <1>3 DEF Band
<1> HIDE DEF Pulled
<1>5. /\ DOMAIN s = DOMAIN p.bands /\ s \in Seq(Band) /\ Len(s) = Len(p.bands)
      /\ \A i \in DOMAIN s : s[i].f <= nyquist - 1 /\ s[i].name = p.bands[i].name /\ s[i].gain = p.bands[i].gain
  <2>1. s \in [1..Len(p.bands) -> Band]
    BY <1>1, <1>4
  <2>2. s \in Seq(Band) /\ Len(s) = Len(p.bands)
    BY <1>1, <2>1
  <2> QED
    BY <1>1, <1>4, <2>2
<1> HIDE DEF s
<1>6. /\ DOMAIN r = PanelFields /\ r.bands = s /\ r.nyquist = nyquist /\ r.visible = p.visible /\ r.selected = p.selected
      /\ r.dragging = p.dragging /\ r.startY = p.startY /\ r.startQ = p.startQ /\ r.apply = p.apply /\ r.reset = p.reset
  BY <1>1 DEF PanelFields
<1> HIDE DEF r
<1>7. PanelShaped(r)
  BY <1>1, <1>3, <1>5, <1>6 DEF PanelShaped
<1>8. p.bands # <<>> <=> s # <<>>
  BY <1>1, <1>5, EmptySeq
<1>9. PanelOffers(r)
  BY <1>5, <1>6, <1>8 DEF PanelHolds, PanelOffers, Equaliser!isFlat
<1>10. SameNames(p, r)
  BY <1>5, <1>6 DEF SameNames
<1> QED
  BY <1>2, <1>7, <1>9, <1>10 DEF PanelKeeps, PanelHolds

\* Bands that differ in one name only differ in one name at most.
LEMMA OneChanged == ASSUME NEW s, NEW t, NEW name, AllBut(s, t, name)
                    PROVE Cardinality(Equaliser!ChangedNames(s, t)) <= 1 /\ Equaliser!ChangedNames(s, t) \subseteq {name}
<1>1. Equaliser!ChangedNames(s, t) \subseteq {name}
  <2> SUFFICES ASSUME NEW n \in Equaliser!ChangedNames(s, t), n # name PROVE FALSE
    OBVIOUS
  <2>1. {b \in Equaliser!Range(s) : b.name = n} = {b \in Equaliser!Range(t) : b.name = n}
    BY DEF AllBut
  <2> QED
    BY <2>1 DEF Equaliser!ChangedNames
<1>2. IsFiniteSet({name}) /\ Cardinality({name}) = 1
  BY FS_Singleton
<1> HIDE DEF Equaliser!ChangedNames
<1> QED
  BY <1>1, <1>2, FS_Subset

\* A verb that says yes has changed one band at most, and holds none.
TellsTruly(p, did) ==
  did.yes => Cardinality(Equaliser!ChangedNames(p.bands, did.panel.bands)) <= 1 /\ did.panel.dragging = 0
\* And one that drags has changed none but the band it named.
DragsTruly(p, i, did) == did.yes => Equaliser!ChangedNames(p.bands, did.panel.bands) \subseteq {p.bands[i].name}

\* A handle is at a pixel.
LEMMA HandleTyped == ASSUME NEW p, PanelHolds(p), NEW i \in DOMAIN p.bands
                     PROVE Equaliser!Handle(p, i)[1] \in Int /\ Equaliser!Handle(p, i)[2] \in Int
<1>1. p.nyquist \in Nat \ {0} /\ p.bands[i] \in Band
  BY PanelKnown
<1>2. p.bands[i].f \in Int /\ p.bands[i].gain \in Int
  BY <1>1, BandIs
<1> DEFINE x == Equaliser!xAtFrequency(p, p.bands[i].f)
           above == 2 * p.bands[i].f * PlotColumns + p.nyquist
<1>3. x \in Int
  <2>1. above \in Int
    BY <1>1, <1>2, EqualiserAssumption
  <2> HIDE DEF above
  <2>2. above \div (2 * p.nyquist) \in Int
    BY <1>1, <2>1
  <2> QED
    BY <2>2 DEF Equaliser!xAtFrequency, above
<1> HIDE DEF x
<1>4. Equaliser!Handle(p, i) = <<x, p.bands[i].gain>>
  BY DEF Equaliser!Handle, x
<1> QED
  BY <1>2, <1>3, <1>4

\* A frequency is at a column.
LEMMA PixelTyped == ASSUME NEW p, PanelHolds(p), NEW f \in Int PROVE Equaliser!xAtFrequency(p, f) \in Int
<1> DEFINE above == 2 * f * PlotColumns + p.nyquist
<1>1. p.nyquist \in Nat \ {0}
  BY PanelKnown
<1>2. above \in Int
  BY <1>1, EqualiserAssumption
<1> HIDE DEF above
<1>3. above \div (2 * p.nyquist) \in Int
  BY <1>1, <1>2
<1> QED
  BY <1>3 DEF Equaliser!xAtFrequency, above

\* "add" tells the truth.
LEMMA AddTells == ASSUME NEW p, PanelHolds(p), NEW f \in Int, NEW gain \in Int
                  PROVE LET did == Equaliser!addBandAt(p, f, gain) IN PanelHolds(did.panel) /\ TellsTruly(p, did)
<1> DEFINE x == Equaliser!xAtFrequency(p, f)
           spot == <<x, gain>>
           pressed == Equaliser!mousePress(p, "left", spot, FALSE)
           put == Equaliser!mouseDoubleClick(pressed, spot)
           after == Equaliser!mouseRelease(put)
           did == Equaliser!addBandAt(p, f, gain)
<1>1. x \in Int
  BY PixelTyped
<1> HIDE DEF x
<1>2. spot[1] \in Int /\ spot[2] \in Int
  BY <1>1
<1>3. did.panel = after
  BY DEF Equaliser!addBandAt, x
<1> HIDE DEF spot, did
<1>4. PanelHolds(pressed) /\ pressed.bands = p.bands
  BY <1>2, PressHolds
<1> HIDE DEF pressed
<1>5. PanelHolds(put) /\ \E name : AllBut(pressed.bands, put.bands, name)
  BY <1>2, <1>4, DoubleClickHolds DEF PanelKeeps
<1> HIDE DEF put
<1>6. PanelHolds(after) /\ after.bands = put.bands /\ after.dragging = 0
  BY <1>5, ReleaseHolds
<1> HIDE DEF after
<1>7. Cardinality(Equaliser!ChangedNames(p.bands, after.bands)) <= 1
  BY <1>4, <1>5, <1>6, OneChanged
<1> QED
  BY <1>3, <1>6, <1>7 DEF TellsTruly, did

\* So do "drag" and "narrow".
LEMMA DragTells == ASSUME NEW p, PanelHolds(p), NEW i \in DOMAIN p.bands, NEW to, to[1] \in Int, to[2] \in Int, NEW shift
                   PROVE LET did == Equaliser!Dragged(p, i, to, shift) IN PanelHolds(did.panel) /\ TellsTruly(p, did) /\ DragsTruly(p, i, did)
<1> DEFINE spot == Equaliser!Handle(p, i)
           pressed == Equaliser!mousePress(p, "left", spot, shift)
           moved == Equaliser!mouseMove(pressed, to)
           after == Equaliser!mouseRelease(moved)
           did == Equaliser!Dragged(p, i, to, shift)
<1>1. spot[2] \in Int
  BY HandleTyped
<1>2. did.panel = after /\ (did.yes => pressed.dragging = i)
  BY DEF Equaliser!Dragged
<1>3. i # 0
  BY PanelKnown
<1> HIDE DEF spot, did
<1>4. PanelHolds(pressed) /\ pressed.bands = p.bands
  BY <1>1, PressHolds
<1> HIDE DEF pressed
<1>5. PanelHolds(moved) /\ (pressed.dragging # 0 => AllBut(pressed.bands, moved.bands, pressed.bands[pressed.dragging].name))
  BY <1>4, MoveHolds
<1> HIDE DEF moved
<1>6. PanelHolds(after) /\ after.bands = moved.bands /\ after.dragging = 0
  BY <1>5, ReleaseHolds
<1> HIDE DEF after
<1>7. did.yes => AllBut(p.bands, after.bands, p.bands[i].name)
  BY <1>2, <1>3, <1>4, <1>5, <1>6
<1>8. did.yes => /\ Cardinality(Equaliser!ChangedNames(p.bands, after.bands)) <= 1
                 /\ Equaliser!ChangedNames(p.bands, after.bands) \subseteq {p.bands[i].name}
  BY <1>7, OneChanged
<1> QED
  BY <1>2, <1>6, <1>8 DEF TellsTruly, DragsTruly, did

\* And "remove".
LEMMA ClickAwayTells == ASSUME NEW p, PanelHolds(p), NEW i \in DOMAIN p.bands
                        PROVE LET did == Equaliser!clickAwayBand(p, i) IN PanelHolds(did.panel) /\ TellsTruly(p, did)
<1> DEFINE spot == Equaliser!Handle(p, i)
           pressed == Equaliser!mousePress(p, "right", spot, FALSE)
           after == Equaliser!mouseRelease(pressed)
           did == Equaliser!clickAwayBand(p, i)
<1>1. did.panel = after
  BY DEF Equaliser!clickAwayBand
<1> HIDE DEF spot, did
<1>2. PanelHolds(pressed) /\ \E name : AllBut(p.bands, pressed.bands, name)
  BY RightPressHolds DEF PanelKeeps
<1> HIDE DEF pressed
<1>3. PanelHolds(after) /\ after.bands = pressed.bands /\ after.dragging = 0
  BY <1>2, ReleaseHolds
<1> HIDE DEF after
<1>4. Cardinality(Equaliser!ChangedNames(p.bands, after.bands)) <= 1
  BY <1>2, <1>3, OneChanged
<1> QED
  BY <1>1, <1>3, <1>4 DEF TellsTruly, did

\* The panel holds what it should, and the last verb told the truth.
EqInv == PanelHolds(panel) /\ Equaliser!VerbsTellTheTruth

\* The equaliser begins with no bands, over the widest of the documents.
LEMMA InitEqualiser == Equaliser!EqInit => EqInv
<1> SUFFICES ASSUME Equaliser!EqInit PROVE EqInv
  OBVIOUS
<1> DEFINE none == <<>>
           widest == CHOOSE n \in Nyquists : \A m \in Nyquists : n >= m
<1>1. none \in Seq(Band) /\ Len(none) = 0 /\ DOMAIN none = {}
  BY NoBands
<1>2. widest \in Nat \ {0}
  BY EqualiserAssumption
<1>3. panel = [bands |-> none, nyquist |-> widest, visible |-> FALSE,
               selected |-> 0, dragging |-> 0, draggingQ |-> FALSE, startY |-> 0, startQ |-> kDefaultQ, apply |-> FALSE, reset |-> FALSE]
  BY DEF Equaliser!EqInit
<1>4. none = <<>>
  OBVIOUS
<1> HIDE DEF none, widest
<1>5. /\ DOMAIN panel = PanelFields /\ panel.bands = none /\ panel.nyquist = widest /\ panel.visible = FALSE
      /\ panel.selected = 0 /\ panel.dragging = 0 /\ panel.startY = 0 /\ panel.startQ = kDefaultQ
      /\ panel.apply = FALSE /\ panel.reset = FALSE
  BY <1>3 DEF PanelFields
<1>6. PanelShaped(panel)
  <2>1. kMaxBands \in Nat /\ kDefaultQ \in Nat
    BY EqualiserAssumption
  <2>2. DOMAIN panel.bands = {} /\ Len(panel.bands) = 0 /\ panel.bands \in Seq(Band)
    BY <1>1, <1>5
  <2>3. panel.selected \in 0..Len(panel.bands) /\ panel.dragging \in 0..Len(panel.bands) /\ Len(panel.bands) <= kMaxBands
    BY <1>5, <2>1, <2>2
  <2>4. panel.startY \in Int /\ panel.startQ \in Int
    BY <1>5, <2>1
  <2> QED
    BY <1>2, <1>5, <2>2, <2>3, <2>4, ZenonT(30) DEF PanelShaped
<1>7. PanelOffers(panel)
  BY <1>1, <1>4, <1>5 DEF PanelOffers, Equaliser!isFlat
<1>8. told.verb = "none"
  BY DEF Equaliser!EqInit, Equaliser!NoVerb
<1> QED
  BY <1>6, <1>7, <1>8 DEF EqInv, PanelHolds, Equaliser!VerbsTellTheTruth

\* The instance counts as the library does.
LEMMA CountsAlike == ASSUME NEW S PROVE Equaliser!Cardinality(S) = Cardinality(S)
BY DEF Equaliser!Cardinality, Cardinality

\* After a gesture nobody has been told anything.
LEMMA GestureKeeps == ASSUME PanelHolds(panel), NEW after, PanelKeeps(panel, after), Equaliser!Gesture(after)
                      PROVE EqInv' /\ PanelKeeps(panel, panel')
<1>1. panel' = after /\ told' = Equaliser!NoVerb
  BY DEF Equaliser!Gesture
<1>2. told'.verb = "none"
  BY <1>1 DEF Equaliser!NoVerb
<1>3. PanelHolds(panel)'
  BY <1>1 DEF PanelKeeps, PanelHolds, PanelShaped, PanelOffers, Equaliser!isFlat
<1> QED
  BY <1>1, <1>2, <1>3 DEF EqInv, Equaliser!VerbsTellTheTruth

\* A verb leaves a panel that holds, and one other than "turn" has told the truth.
LEMMA VerbKeeps == ASSUME NEW name, NEW i, NEW did, PanelHolds(did.panel), name = "turn" \/ TellsTruly(panel, did), name # "none",
                          name \in {"drag", "narrow"} => i \in DOMAIN panel.bands /\ DragsTruly(panel, i, did),
                          Equaliser!Verb(name, i, did)
                   PROVE EqInv' /\ told' # Equaliser!NoVerb
<1>1. panel' = did.panel /\ told' = [verb |-> name, band |-> Equaliser!NameAt(panel, i), yes |-> did.yes, before |-> panel]
  BY DEF Equaliser!Verb
<1>2. told'.verb = name /\ told'.band = Equaliser!NameAt(panel, i) /\ told'.yes = did.yes /\ told'.before = panel
  BY <1>1
<1>3. PanelHolds(panel)'
  BY <1>1 DEF PanelHolds, PanelShaped, PanelOffers, Equaliser!isFlat
<1>4. Equaliser!VerbsTellTheTruth'
  <2>1. ASSUME name # "turn", did.yes
        PROVE Cardinality(Equaliser!ChangedNames(panel.bands, panel'.bands)) <= 1 /\ panel'.dragging = 0
    BY <1>1, <2>1 DEF TellsTruly
  <2>2. Equaliser!VerbsTellTheTruth' <=>
          (told'.verb \notin {"none", "turn"} /\ told'.yes =>
             /\ Equaliser!Cardinality(Equaliser!ChangedNames(told'.before.bands, panel'.bands)) <= 1 /\ panel'.dragging = 0
             /\ told'.verb \in {"drag", "narrow"} => Equaliser!ChangedNames(told'.before.bands, panel'.bands) \subseteq {told'.band})
    BY Zenon DEF Equaliser!VerbsTellTheTruth
  <2>3. ASSUME name \in {"drag", "narrow"}, did.yes
        PROVE Equaliser!ChangedNames(panel.bands, panel'.bands) \subseteq {Equaliser!NameAt(panel, i)}
    BY <1>1, <2>3 DEF DragsTruly, Equaliser!NameAt
  <2> QED
    BY <1>2, <2>1, <2>2, <2>3, CountsAlike, Zenon
<1>5. told' # Equaliser!NoVerb
  BY <1>2 DEF Equaliser!NoVerb
<1> QED
  BY <1>3, <1>4, <1>5 DEF EqInv

\* Every gesture and every verb leaves a panel that holds; what is held has kept
\* its name, but for a verb, which lets go.
LEMMA EqualiserKeeps == EqInv /\ Equaliser!EqNext => EqInv' /\ (told' # Equaliser!NoVerb \/ PanelKeeps(panel, panel'))
<1> SUFFICES ASSUME EqInv, Equaliser!EqNext PROVE EqInv' /\ (told' # Equaliser!NoVerb \/ PanelKeeps(panel, panel'))
  OBVIOUS
<1> DEFINE PanelKept == EqInv' /\ (told' # Equaliser!NoVerb \/ PanelKeeps(panel, panel'))
<1>1. PanelHolds(panel)
  BY DEF EqInv
<1>2. PlotRows \in Nat /\ PlotColumns \in Nat /\ panel.nyquist \in Nat
  BY <1>1, PanelKnown, EqualiserAssumption
<1>3. \A spot \in Equaliser!Plot : spot[1] \in Int /\ spot[2] \in Int
  BY <1>2 DEF Equaliser!Plot
<1>4. ASSUME NEW spot \in Equaliser!Plot, NEW button \in {"left", "right"}, NEW shift \in BOOLEAN,
             Equaliser!Gesture(Equaliser!mousePress(panel, button, spot, shift))
      PROVE PanelKept
  <2>1. PanelKeeps(panel, Equaliser!mousePress(panel, "left", spot, shift))
    BY <1>1, <1>3, PressHolds
  <2>2. PanelKeeps(panel, Equaliser!mousePress(panel, "right", spot, shift))
    BY <1>1, RightPressHolds
  <2> QED
    BY <1>1, <1>4, <2>1, <2>2, GestureKeeps
<1>5. ASSUME NEW spot \in Equaliser!Plot, Equaliser!Gesture(Equaliser!mouseMove(panel, spot)) PROVE PanelKept
  <2>1. PanelKeeps(panel, Equaliser!mouseMove(panel, spot))
    BY <1>1, <1>3, MoveHolds
  <2> QED
    BY <1>1, <1>5, <2>1, GestureKeeps
<1>6. ASSUME NEW spot \in Equaliser!Plot, Equaliser!Gesture(Equaliser!mouseDoubleClick(panel, spot)) PROVE PanelKept
  <2>1. PanelKeeps(panel, Equaliser!mouseDoubleClick(panel, spot))
    BY <1>1, <1>3, DoubleClickHolds
  <2> QED
    BY <1>1, <1>6, <2>1, GestureKeeps
<1>7. ASSUME NEW spot \in Equaliser!Plot, NEW notches \in {-1, 1}, Equaliser!Gesture(Equaliser!wheel(panel, spot, notches)) PROVE PanelKept
  <2>1. PanelKeeps(panel, Equaliser!wheel(panel, spot, notches))
    BY <1>1, WheelHolds
  <2> QED
    BY <1>1, <1>7, <2>1, GestureKeeps
<1>8. ASSUME Equaliser!Gesture(Equaliser!mouseRelease(panel)) PROVE PanelKept
  <2>1. PanelKeeps(panel, Equaliser!mouseRelease(panel))
    BY <1>1, ReleaseHolds
  <2> QED
    BY <1>1, <1>8, <2>1, GestureKeeps
<1>9. ASSUME Equaliser!Gesture(Equaliser!keyPress(panel)) PROVE PanelKept
  BY <1>1, <1>9, KeyHolds, GestureKeeps
<1>10. ASSUME Equaliser!Gesture(Equaliser!clearBands(panel)) PROVE PanelKept
  BY <1>1, <1>10, ClearHolds, GestureKeeps
<1>11. ASSUME Equaliser!Gesture(Equaliser!setEqVisible(panel, ~panel.visible)) PROVE PanelKept
  BY <1>1, <1>11, VisibleHolds, GestureKeeps
<1>12. ASSUME NEW n \in Nyquists, Equaliser!Gesture(Equaliser!setEqSampleRate(panel, n)) PROVE PanelKept
  BY <1>1, <1>12, RateHolds, GestureKeeps
<1>13. ASSUME NEW f \in 0..panel.nyquist, NEW gain \in -PlotRows..PlotRows, Equaliser!Verb("add", 0, Equaliser!addBandAt(panel, f, gain))
       PROVE PanelKept
  <2>1. f \in Int /\ gain \in Int
    BY <1>2
  <2>2. PanelHolds(Equaliser!addBandAt(panel, f, gain).panel) /\ TellsTruly(panel, Equaliser!addBandAt(panel, f, gain))
    BY <1>1, <2>1, AddTells
  <2> QED
    BY <1>13, <2>2, VerbKeeps
<1>14. ASSUME NEW i \in DOMAIN panel.bands, NEW f \in 0..panel.nyquist, NEW gain \in -PlotRows..PlotRows,
              Equaliser!Verb("drag", i, Equaliser!dragBandTo(panel, i, f, gain))
       PROVE PanelKept
  <2> DEFINE to == <<Equaliser!xAtFrequency(panel, f), gain>>
             did == Equaliser!Dragged(panel, i, to, FALSE)
  <2>1. f \in Int /\ gain \in Int /\ Equaliser!xAtFrequency(panel, f) \in Int
    BY <1>1, <1>2, PixelTyped
  <2>2. to[1] \in Int /\ to[2] \in Int
    BY <2>1
  <2>3. Equaliser!Verb("drag", i, did)
    BY <1>14 DEF Equaliser!dragBandTo
  <2> HIDE DEF to
  <2>4. PanelHolds(did.panel) /\ TellsTruly(panel, did) /\ DragsTruly(panel, i, did)
    BY <1>1, <2>2, DragTells
  <2> HIDE DEF did
  <2> QED
    BY <2>3, <2>4, VerbKeeps
<1>15. ASSUME NEW i \in DOMAIN panel.bands, NEW up \in {-1, 1}, Equaliser!Verb("narrow", i, Equaliser!shiftDragBandBy(panel, i, up))
       PROVE PanelKept
  <2> DEFINE to == <<Equaliser!Handle(panel, i)[1], Equaliser!Handle(panel, i)[2] + up>>
             did == Equaliser!Dragged(panel, i, to, TRUE)
  <2>1. Equaliser!Handle(panel, i)[1] \in Int /\ Equaliser!Handle(panel, i)[2] \in Int
    BY <1>1, HandleTyped
  <2>2. to[1] \in Int /\ to[2] \in Int
    BY <2>1
  <2>3. Equaliser!Verb("narrow", i, did)
    BY <1>15 DEF Equaliser!shiftDragBandBy
  <2> HIDE DEF to
  <2>4. PanelHolds(did.panel) /\ TellsTruly(panel, did) /\ DragsTruly(panel, i, did)
    BY <1>1, <2>2, DragTells
  <2> HIDE DEF did
  <2> QED
    BY <2>3, <2>4, VerbKeeps
<1>16. ASSUME NEW i \in DOMAIN panel.bands, NEW notches \in {-1, 1}, Equaliser!Verb("turn", i, Equaliser!turnWheelOverBand(panel, i, notches))
       PROVE PanelKept
  <2>1. PanelHolds(Equaliser!wheel(panel, Equaliser!Handle(panel, i), notches))
    BY <1>1, WheelHolds DEF PanelKeeps
  <2>2. Equaliser!turnWheelOverBand(panel, i, notches).panel = Equaliser!wheel(panel, Equaliser!Handle(panel, i), notches)
    BY DEF Equaliser!turnWheelOverBand
  <2> QED
    BY <1>16, <2>1, <2>2, VerbKeeps
<1>17. ASSUME NEW i \in DOMAIN panel.bands, Equaliser!Verb("remove", i, Equaliser!clickAwayBand(panel, i)) PROVE PanelKept
  BY <1>1, <1>17, ClickAwayTells, VerbKeeps
<1> QED
  BY <1>4, <1>5, <1>6, <1>7, <1>8, <1>9, <1>10, <1>11, <1>12, <1>13, <1>14, <1>15, <1>16, <1>17 DEF Equaliser!EqNext

\* Nothing of the equaliser changes where its part has no turn.
LEMMA EqualiserStands == EqInv /\ UNCHANGED equaliserVars => EqInv'
BY DEF EqInv, equaliserVars, PanelHolds, PanelShaped, PanelOffers, Equaliser!isFlat, Equaliser!VerbsTellTheTruth

\* What the run asks of the equaliser in every state.
LEMMA EqualiserThen == EqInv => Equaliser!EqHolds
<1> SUFFICES ASSUME EqInv PROVE Equaliser!EqHolds
  OBVIOUS
<1>1. PanelShaped(panel) /\ PanelOffers(panel) /\ Equaliser!VerbsTellTheTruth
  BY DEF EqInv, PanelHolds
<1>2. Equaliser!HeldBandsExist
  BY <1>1 DEF PanelShaped, Equaliser!HeldBandsExist
<1>3. Equaliser!BandsAreCurrent
  BY <1>1 DEF PanelShaped, PanelOffers, Equaliser!BandsAreCurrent, Equaliser!ceilingFor
<1> QED
  BY <1>1, <1>2, <1>3 DEF Equaliser!EqHolds

\* A drag that goes on moves the band it took.
LEMMA DragGoesOn == EqInv /\ Equaliser!EqNext => Equaliser!DragsOn
<1> SUFFICES ASSUME EqInv, Equaliser!EqNext, panel.dragging # 0, panel'.dragging = panel.dragging, told' = Equaliser!NoVerb
             PROVE Equaliser!NameAt(panel', panel'.dragging) = Equaliser!NameAt(panel, panel.dragging)
  BY DEF Equaliser!DragsOn
<1>1. SameNames(panel, panel')
  BY EqualiserKeeps DEF PanelKeeps
<1> QED
  BY <1>1 DEF SameNames, Equaliser!NameAt
-------------------------------------------------------------------------------
(* The views and the equaliser in the composition.                             *)

\* The views show one range and the equaliser's panel holds, whichever part has the turn.
ViewsAndBands == ViewsInv /\ EqInv

\* For documents of any length, windows of any width and any number of gestures, edits and
\* overviews that arrive late: the two views are of one document and show one selection and,
\* where the document fills the plot, one range, the ruler follows, and a zoom keeps the
\* sample under the cursor (MainWindow: the rangeChanged and selectionChanged connections,
\* TimeAxisView: zoomView); and for any number of bands: what the equaliser holds is a band
\* that is there, a drag moves the one it took, every band can be realised at the rate the
\* document has, and a verb that says yes has changed one band at most, which if it drags is
\* the one it named (EqCurveView).
THEOREM ViewsAlwaysKeepTogether == ProgramsSpec => ViewsKeepTogether
<1>1. ProgramsInit => ViewsAndBands
  BY InitViews, InitEqualiser DEF ProgramsInit, ViewsIdle, ViewsAndBands
<1>2. ViewsAndBands /\ [ProgramsNext]_<<part, cliVars, settingsVars, managerVars, windowVars>> =>
        ViewsAndBands' /\ [Views!ZoomsAboutTheSample]_Views!viewVars /\ [Equaliser!DragsOn]_Equaliser!eqVars
  <2> SUFFICES ASSUME ViewsAndBands, [ProgramsNext]_<<part, cliVars, settingsVars, managerVars, windowVars>>
               PROVE ViewsAndBands' /\ [Views!ZoomsAboutTheSample]_Views!viewVars /\ [Equaliser!DragsOn]_Equaliser!eqVars
    OBVIOUS
  <2>1. ViewsInv /\ EqInv
    BY DEF ViewsAndBands
  <2>2. \/ UNCHANGED viewVars /\ UNCHANGED equaliserVars
        \/ Views!ViewsNext /\ UNCHANGED equaliserVars
        \/ Equaliser!EqNext /\ UNCHANGED viewVars
    BY Zenon DEF ProgramsNext, windowVars
  <2>3. ViewsInv'
    BY <2>1, <2>2, ViewsKeep, ViewsStand
  <2>4. EqInv'
    BY <2>1, <2>2, EqualiserKeeps, EqualiserStands
  <2>5. [Views!ZoomsAboutTheSample]_Views!viewVars
    BY <2>1, <2>2, ZoomedAbout DEF viewVars, Views!viewVars
  <2>6. [Equaliser!DragsOn]_Equaliser!eqVars
    BY <2>1, <2>2, DragGoesOn DEF equaliserVars, Equaliser!eqVars
  <2> QED
    BY <2>3, <2>4, <2>5, <2>6 DEF ViewsAndBands
<1>3. ViewsAndBands => /\ part = "views" => Views!OneTimeline /\ Views!RulerFollows
                       /\ part = "equaliser" => Equaliser!EqHolds
  BY OneTimelineThen, EqualiserThen DEF ViewsAndBands
<1> QED
  BY <1>1, <1>2, <1>3, PTL DEF ProgramsSpec, ViewsKeepTogether, Views!ZoomKeepsTheSample, Equaliser!DragsWhatItTook
-------------------------------------------------------------------------------
(* The commands in the composition.                                            *)

\* For recordings, selections, windows and blocks of any size and any commands in any
\* order: an effect changes its target and at most its reach beside it, filtered audio
\* meets the rest in a blend, what was cut can be pasted, markers are in order and on
\* their samples, the menus are current, nothing plays a document that is gone, an export
\* holds its range, and a script ends at the verb that refuses (MainWindow: the commands,
\* applyEdit, exportTo and runScript).
THEOREM CommandsAlwaysKeepToTheirTarget == ProgramsSpec => []CommandsKeepToTheirTarget
<1>1. ProgramsInit => CommandsInv
  <2>1. ProgramsInit => CommandsInit
    BY Zenon DEF ProgramsInit, CommandsIdle
  <2> QED
    BY <2>1, InitCommands
<1>2. CommandsInv /\ [ProgramsNext]_<<part, cliVars, settingsVars, managerVars, windowVars>> => CommandsInv'
  <2> SUFFICES ASSUME CommandsInv, [ProgramsNext]_<<part, cliVars, settingsVars, managerVars, windowVars>> PROVE CommandsInv'
    OBVIOUS
  <2>1. CommandsNext \/ UNCHANGED commandVars
    BY Zenon DEF ProgramsNext, windowVars
  <2> QED
    BY <2>1, CommandsKeep, CommandsStand
<1>3. CommandsInv => CommandsKeepToTheirTarget
  BY CommandsThen DEF CommandsKeepToTheirTarget
<1> QED
  BY <1>1, <1>2, <1>3, PTL DEF ProgramsSpec
-------------------------------------------------------------------------------
(* The settings in the composition.                                            *)

\* The file, the window and what was chosen agree while this part has the turn.
SettingsHold == part = "settings" => SettingsInv

\* For files that hold any numbers under any keys, recent lists of any length, any number
\* of runs, with a file and without, changes, kills and saves that fail, and any screens:
\* what is read can be written and is read again as it was, a window comes back where it
\* can be grabbed and at a size that fits, and each time the file is written it holds all
\* that had been chosen and opened until it is written again, unless a newer build wrote
\* it (readSettings, writeSettings, confineToScreens, MainWindow::saveSettings).
THEOREM SettingsAlwaysSurvive == ProgramsSpec => []SettingsSurvive
<1>1. ProgramsInit => SettingsHold
  BY InitSettings DEF ProgramsInit, SettingsHold
<1>2. SettingsHold /\ [ProgramsNext]_<<part, cliVars, settingsVars, managerVars, windowVars>> => SettingsHold'
  <2> SUFFICES ASSUME SettingsHold, [ProgramsNext]_<<part, cliVars, settingsVars, managerVars, windowVars>>, part' = "settings" PROVE SettingsInv'
    BY DEF SettingsHold
  <2>1. part = "settings" /\ (SettingsNext \/ UNCHANGED settingsVars)
    BY Zenon DEF ProgramsNext
  <2> QED
    BY <2>1, SettingsKeep, SettingsStand DEF SettingsHold
<1>3. SettingsHold => SettingsSurvive
  BY SettingsThen DEF SettingsHold, SettingsSurvive
<1> QED
  BY <1>1, <1>2, <1>3, PTL DEF ProgramsSpec
===============================================================================
