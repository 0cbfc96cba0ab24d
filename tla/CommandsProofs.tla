----------------------------- MODULE CommandsProofs -----------------------------
(***************************************************************************)
(* For recordings of any length, selections anywhere in them, any number   *)
(* of markers and commands, and contexts, windows, blends and blocks of    *)
(* any size: a command changes what it was given to change and nothing     *)
(* else.                                                                   *)
(*                                                                         *)
(* What makes this inductive is what every document of the history has in  *)
(* common (DocHolds): no sample is in two places, markers are in order of  *)
(* time and none is past the end, a marker whose sample is there is on it, *)
(* and nothing is newer than the last command, so that samples a command   *)
(* makes are in no document yet. The engine's verbs and the effects keep   *)
(* it, each by a lemma about sequences: what deleting, inserting and       *)
(* replacing do to every place. What a command leaves behind is then read  *)
(* off the document it found; that an export holds its range is an         *)
(* induction over its blocks.                                              *)
(*                                                                         *)
(* And for files that hold anything, any number of runs, changes and       *)
(* recent files, and screens of any size: what is written is what is read, *)
(* and what the window is, the file and what was chosen agree.             *)
(***************************************************************************)
EXTENDS WindowCommands, Settings, SequenceTheorems, FiniteSetTheorems, WellFoundedInduction, TLAPS

-------------------------------------------------------------------------------
(* Documents, and the verbs that change them.                                *)

\* A part of a sequence.
LEMMA PartIs == ASSUME NEW S, NEW s \in Seq(S), NEW from \in Nat, NEW to \in Nat, from <= to, to <= Len(s)
  PROVE  /\ Part(s, from, to) \in Seq(S) /\ Len(Part(s, from, to)) = to - from
         /\ \A i \in 1..to - from : Part(s, from, to)[i] = s[from + i]
<1>1. \A i \in from + 1..to : s[i] \in S
  OBVIOUS
<1>2. /\ SubSeq(s, from + 1, to) \in Seq(S)
      /\ Len(SubSeq(s, from + 1, to)) = IF from + 1 <= to THEN to - (from + 1) + 1 ELSE 0
      /\ \A i \in 1..to - (from + 1) + 1 : SubSeq(s, from + 1, to)[i] = s[from + 1 + i - 1]
  <2>1. from + 1 \in Int /\ to \in Int
    OBVIOUS
  <2> QED
    BY <1>1, <2>1, SubSeqProperties
<1>3. to - (from + 1) + 1 = to - from /\ \A i \in 1..to - from : from + 1 + i - 1 = from + i
  OBVIOUS
<1> QED
  BY <1>2, <1>3 DEF Part

\* Samples; what a document plays; its markers.
Sample == Nat \X Nat
InDocument == Sample \cup {Silence}
MarkerType == [position : Nat, length : Nat, at : Sample \cup {Silence, Lost}]
Doc == [audio : Seq(InDocument), markers : Seq(MarkerType)]

\* A sample is in one place, silence excepted; markers are in order; a marker whose
\* sample is there is on it; and nothing is from a later command than the last.
Unique(audio) == \A i, j \in 1..Len(audio) : audio[i] = audio[j] /\ audio[i] # Silence => i = j
InTime(markers) == \A i, j \in 1..Len(markers) : i < j => markers[i].position <= markers[j].position
OnItsSample(m, audio) == /\ m.position <= Len(audio)
                         /\ \A i \in 1..Len(audio) : audio[i] = m.at /\ m.at # Silence => i = m.position + 1
Until(s, last) == s \in Sample => s[1] <= last
DocHolds(doc, last) == /\ doc \in Doc /\ Unique(doc.audio) /\ InTime(doc.markers)
                       /\ \A k \in 1..Len(doc.markers) : OnItsSample(doc.markers[k], doc.audio) /\ Until(doc.markers[k].at, last)
                       /\ \A i \in 1..Len(doc.audio) : Until(doc.audio[i], last)

\* Time passes.
LEMMA LaterHolds == ASSUME NEW doc, NEW last \in Nat, DocHolds(doc, last) PROVE DocHolds(doc, last + 1)
<1>1. ASSUME NEW s, Until(s, last) PROVE Until(s, last + 1)
  BY <1>1 DEF Until, Sample
<1> QED
  BY <1>1 DEF DocHolds

\* A document made of samples of another, with markers that moved with them.
MovedFrom(doc, audio, markers) ==
  /\ audio \in Seq(InDocument) /\ markers \in Seq(MarkerType)
  /\ Len(markers) = Len(doc.markers) /\ InTime(markers) /\ Unique(audio)
  /\ \A k \in 1..Len(markers) : markers[k].position <= Len(audio) /\ markers[k].at \in {doc.markers[k].at, Lost}
  /\ \A i \in 1..Len(audio) : \/ audio[i] = Silence
                              \/ \E q \in 1..Len(doc.audio) :
                                   /\ audio[i] = doc.audio[q]
                                   /\ \A k \in 1..Len(markers) : markers[k].at # Lost /\ q = doc.markers[k].position + 1 => i = markers[k].position + 1

\* Such a document holds as the one it was made from did.
LEMMA MovedHolds == ASSUME NEW doc, NEW last \in Nat, DocHolds(doc, last), NEW audio, NEW markers, MovedFrom(doc, audio, markers)
  PROVE  DocHolds([audio |-> audio, markers |-> markers], last)
<1> DEFINE d == [audio |-> audio, markers |-> markers]
<1> USE DEF MovedFrom
<1>1. d \in Doc /\ d.audio = audio /\ d.markers = markers
  BY DEF Doc
<1>2. ASSUME NEW i \in 1..Len(audio) PROVE Until(audio[i], last)
  BY <1>2, CommandsAssumption DEF DocHolds, Until, Sample
<1>3. ASSUME NEW k \in 1..Len(markers) PROVE OnItsSample(markers[k], audio) /\ Until(markers[k].at, last)
  <2>1. k \in 1..Len(doc.markers) /\ OnItsSample(doc.markers[k], doc.audio) /\ Until(doc.markers[k].at, last)
    BY <1>3 DEF DocHolds
  <2>2. Until(markers[k].at, last)
    BY <1>3, <2>1, CommandsAssumption DEF Until, Sample
  <2>3. ASSUME NEW i \in 1..Len(audio), audio[i] = markers[k].at, markers[k].at # Silence
        PROVE  i = markers[k].position + 1
    <3>1. audio[i] \in InDocument
      OBVIOUS
    <3>2. audio[i] # Lost
      BY <3>1, CommandsAssumption DEF InDocument, Sample
    <3>3. markers[k].at = doc.markers[k].at /\ markers[k].at # Lost
      BY <1>3, <2>3, <3>2
    <3>4. PICK q \in 1..Len(doc.audio) : /\ audio[i] = doc.audio[q]
                                         /\ q = doc.markers[k].position + 1 => i = markers[k].position + 1
      BY <1>3, <2>3, <3>3
    <3>5. q = doc.markers[k].position + 1
      BY <2>1, <2>3, <3>3, <3>4 DEF OnItsSample
    <3> QED
      BY <3>4, <3>5
  <2> QED
    BY <1>3, <2>2, <2>3 DEF OnItsSample
<1> QED
  BY <1>1, <1>2, <1>3 DEF DocHolds

\* A sequence without its middle, and with another in it.
IsWithout(r, S, s, n, start, w) == /\ r \in Seq(S) /\ Len(r) = n - w
                                   /\ \A i \in 1..start : r[i] = s[i]
                                   /\ \A i \in start + 1..n - w : r[i] = s[i + w]
IsWithin(r, S, s, n, at, new, w) == /\ r \in Seq(S) /\ Len(r) = n + w
                                    /\ \A i \in 1..at : r[i] = s[i]
                                    /\ \A i \in at + 1..at + w : r[i] = new[i - at]
                                    /\ \A i \in at + w + 1..n + w : r[i] = s[i - w]

\* What is left of a sequence without its middle.
LEMMA Without == ASSUME NEW S, NEW s \in Seq(S), NEW start \in Nat, NEW end \in Nat, start <= end, end <= Len(s)
  PROVE  IsWithout(Part(s, 0, start) \o Part(s, end, Len(s)), S, s, Len(s), start, end - start)
<1> DEFINE n == Len(s)
           a == Part(s, 0, start)
           b == Part(s, end, n)
<1>1. a \in Seq(S) /\ Len(a) = start /\ \A i \in 1..start : a[i] = s[i]
  <2>1. 0 \in Nat /\ 0 <= start /\ start <= Len(s) /\ start - 0 = start
    OBVIOUS
  <2>2. a \in Seq(S) /\ Len(a) = start - 0 /\ \A i \in 1..start - 0 : a[i] = s[0 + i]
    BY <2>1, PartIs
  <2> QED
    BY <2>1, <2>2
<1>2. b \in Seq(S) /\ Len(b) = n - end /\ \A i \in 1..n - end : b[i] = s[end + i]
  <2>1. n \in Nat /\ n <= Len(s)
    OBVIOUS
  <2> QED
    BY <2>1, PartIs
<1> HIDE DEF a, b
<1>3. n \in Nat /\ start + (n - end) = n - (end - start) /\ n - end \in Nat /\ start <= start + (n - end)
  OBVIOUS
<1> HIDE DEF n
<1>4. /\ a \o b \in Seq(S) /\ Len(a \o b) = start + (n - end)
      /\ \A i \in 1..start + (n - end) : (a \o b)[i] = IF i <= start THEN a[i] ELSE b[i - start]
  <2>1. a \in Seq(S) /\ b \in Seq(S)
    BY <1>1, <1>2
  <2>2. /\ a \o b \in Seq(S) /\ Len(a \o b) = Len(a) + Len(b)
        /\ \A i \in 1..Len(a) + Len(b) : (a \o b)[i] = IF i <= Len(a) THEN a[i] ELSE b[i - Len(a)]
    BY <2>1, ConcatProperties
  <2> QED
    BY <1>1, <1>2, <2>2
<1>5. \A i \in 1..start : i \in 1..start + (n - end) /\ i <= start
  BY <1>3
<1>6. \A i \in start + 1..n - (end - start) : /\ i \in 1..start + (n - end) /\ ~(i <= start) /\ i - start \in 1..n - end
                                              /\ end + (i - start) = i + (end - start)
  BY <1>3
<1>7. /\ \A i \in 1..start : (a \o b)[i] = s[i]
      /\ \A i \in start + 1..n - (end - start) : (a \o b)[i] = s[i + (end - start)]
  BY <1>1, <1>2, <1>4, <1>5, <1>6
<1> QED
  BY <1>3, <1>4, <1>7 DEF a, b, n, IsWithout

\* What a sequence becomes with another in it.
LEMMA Within == ASSUME NEW S, NEW s \in Seq(S), NEW at \in Nat, at <= Len(s), NEW new \in Seq(S)
  PROVE  IsWithin(Part(s, 0, at) \o new \o Part(s, at, Len(s)), S, s, Len(s), at, new, Len(new))
<1> DEFINE n == Len(s)
           w == Len(new)
           a == Part(s, 0, at)
           c == Part(s, at, n)
<1>1. a \in Seq(S) /\ Len(a) = at /\ \A i \in 1..at : a[i] = s[i]
  <2>1. 0 \in Nat /\ 0 <= at /\ at <= Len(s) /\ at - 0 = at
    OBVIOUS
  <2>2. a \in Seq(S) /\ Len(a) = at - 0 /\ \A i \in 1..at - 0 : a[i] = s[0 + i]
    BY <2>1, PartIs
  <2> QED
    BY <2>1, <2>2
<1>2. c \in Seq(S) /\ Len(c) = n - at /\ \A i \in 1..n - at : c[i] = s[at + i]
  <2>1. n \in Nat /\ n <= Len(s)
    OBVIOUS
  <2> QED
    BY <2>1, PartIs
<1> HIDE DEF a, c
<1>3. n \in Nat /\ w \in Nat /\ at + w + (n - at) = n + w
  OBVIOUS
<1>4. /\ a \o new \o c \in Seq(S) /\ Len(a \o new \o c) = at + w + (n - at)
      /\ \A i \in 1..at : (a \o new \o c)[i] = a[i]
      /\ \A i \in at + 1..at + w : (a \o new \o c)[i] = new[i - at]
      /\ \A i \in at + w + 1..at + w + (n - at) : (a \o new \o c)[i] = c[i - (at + w)]
  <2>1. a \in Seq(S) /\ new \in Seq(S) /\ c \in Seq(S) /\ Len(a) = at /\ Len(new) = w /\ Len(c) = n - at
    BY <1>1, <1>2
  <2>2. /\ a \o new \in Seq(S) /\ Len(a \o new) = Len(a) + Len(new)
        /\ \A i \in 1..Len(a) + Len(new) : (a \o new)[i] = IF i <= Len(a) THEN a[i] ELSE new[i - Len(a)]
    BY <2>1, ConcatProperties
  <2> DEFINE d == a \o new
             k == at + w
  <2>3. d \in Seq(S) /\ Len(d) = k /\ \A i \in 1..k : d[i] = IF i <= at THEN a[i] ELSE new[i - at]
    BY <2>1, <2>2
  <2> HIDE DEF d
  <2>4. /\ d \o c \in Seq(S) /\ Len(d \o c) = Len(d) + Len(c)
        /\ \A i \in 1..Len(d) + Len(c) : (d \o c)[i] = IF i <= Len(d) THEN d[i] ELSE c[i - Len(d)]
    <3>1. d \in Seq(S) /\ c \in Seq(S)
      BY <2>1, <2>3
    <3> QED
      BY <3>1, ConcatProperties
  <2>5. /\ Len(d \o c) = k + (n - at)
        /\ \A i \in 1..k + (n - at) : (d \o c)[i] = IF i <= k THEN d[i] ELSE c[i - k]
    BY <2>1, <2>3, <2>4
  <2>6. k \in Nat /\ at <= k
    BY <1>3
  <2> HIDE DEF k
  <2>7. \A i \in 1..at : i \in 1..k /\ i <= at /\ i <= k /\ i \in 1..k + (n - at)
    BY <1>3, <2>6
  <2>8. \A i \in at + 1..k : i \in 1..k /\ i <= k /\ ~(i <= at) /\ i \in 1..k + (n - at)
    BY <1>3, <2>6
  <2>9. \A i \in k + 1..k + (n - at) : ~(i <= k) /\ i \in 1..k + (n - at)
    BY <1>3, <2>6
  <2>10. /\ \A i \in 1..at : (d \o c)[i] = a[i]
         /\ \A i \in at + 1..k : (d \o c)[i] = new[i - at]
         /\ \A i \in k + 1..k + (n - at) : (d \o c)[i] = c[i - k]
    BY <2>3, <2>5, <2>7, <2>8, <2>9
  <2> QED
    BY <2>4, <2>5, <2>10 DEF d, k
<1>5. \A i \in at + w + 1..n + w : i \in at + w + 1..at + w + (n - at) /\ i - (at + w) \in 1..n - at /\ at + (i - (at + w)) = i - w
  BY <1>2, <1>3
<1>6. \A i \in at + w + 1..n + w : (a \o new \o c)[i] = s[i - w]
  BY <1>2, <1>4, <1>5
<1> QED
  BY <1>1, <1>2, <1>3, <1>4, <1>6 DEF a, c, IsWithin

\* What a document is, in its parts.
LEMMA DocIs == ASSUME NEW doc, NEW last, DocHolds(doc, last)
  PROVE  /\ doc.audio \in Seq(InDocument) /\ doc.markers \in Seq(MarkerType) /\ Duration(doc) = Len(doc.audio) /\ Duration(doc) \in Nat
         /\ Unique(doc.audio) /\ InTime(doc.markers) /\ Len(doc.markers) \in Nat /\ DOMAIN doc.markers = 1..Len(doc.markers)
         /\ \A k \in 1..Len(doc.markers) : /\ doc.markers[k] \in MarkerType
                                           /\ doc.markers[k].position \in Nat /\ doc.markers[k].position <= Duration(doc)
                                           /\ doc.markers[k].at \in Sample \cup {Silence, Lost}
                                           /\ OnItsSample(doc.markers[k], doc.audio) /\ Until(doc.markers[k].at, last)
         /\ \A i \in 1..Duration(doc) : doc.audio[i] \in InDocument /\ Until(doc.audio[i], last)
<1>1. doc.audio \in Seq(InDocument) /\ doc.markers \in Seq(MarkerType) /\ Duration(doc) = Len(doc.audio)
  BY DEF DocHolds, Doc, Duration
<1>2. Duration(doc) \in Nat /\ Len(doc.markers) \in Nat /\ DOMAIN doc.markers = 1..Len(doc.markers)
  BY <1>1
<1>3. \A k \in 1..Len(doc.markers) : doc.markers[k] \in MarkerType
  BY <1>1
<1>4. \A k \in 1..Len(doc.markers) : doc.markers[k].position \in Nat /\ doc.markers[k].at \in Sample \cup {Silence, Lost}
  BY <1>3 DEF MarkerType
<1>5. \A k \in 1..Len(doc.markers) : OnItsSample(doc.markers[k], doc.audio) /\ Until(doc.markers[k].at, last)
  BY DEF DocHolds
<1>6. \A k \in 1..Len(doc.markers) : doc.markers[k].position <= Duration(doc)
  BY <1>1, <1>5 DEF OnItsSample
<1>7. \A i \in 1..Duration(doc) : doc.audio[i] \in InDocument
  BY <1>1
<1> QED
  BY <1>1, <1>2, <1>3, <1>4, <1>5, <1>6, <1>7 DEF DocHolds

\* Markers that moved as they are told to.
LEMMA MarkersMove == ASSUME NEW ms \in Seq(MarkerType), NEW To, DOMAIN To = 1..Len(ms), \A k \in 1..Len(ms) : To[k] \in Nat,
                            NEW markers, markers = [i \in 1..Len(ms) |-> [ms[i] EXCEPT !.position = To[i]]]
  PROVE  /\ markers \in Seq(MarkerType) /\ Len(markers) = Len(ms)
         /\ \A k \in 1..Len(ms) : markers[k].position = To[k] /\ markers[k].at = ms[k].at /\ markers[k].length = ms[k].length
<1>1. Len(ms) \in Nat /\ \A k \in 1..Len(ms) : ms[k] \in MarkerType
  OBVIOUS
<1>2. ASSUME NEW k \in 1..Len(ms)
      PROVE  /\ markers[k] \in MarkerType /\ markers[k].position = To[k] /\ markers[k].at = ms[k].at
             /\ markers[k].length = ms[k].length
  <2>1. ms[k] \in MarkerType /\ To[k] \in Nat /\ markers[k] = [ms[k] EXCEPT !.position = To[k]]
    BY <1>1
  <2> QED
    BY <2>1 DEF MarkerType
<1>3. markers \in [1..Len(ms) -> MarkerType]
  BY <1>1, <1>2
<1>4. markers \in Seq(MarkerType) /\ Len(markers) = Len(ms)
  BY <1>1, <1>3
<1> QED
  BY <1>2, <1>4

\* What deleting leaves.
LEMMA DeleteHolds == ASSUME NEW doc, NEW last \in Nat, DocHolds(doc, last), NEW start \in Nat, NEW end \in Nat,
                            start <= end, end <= Duration(doc)
  PROVE  LET after == deleteRange(doc, start, end) IN
         /\ DocHolds(after, last) /\ Duration(after) = Duration(doc) - (end - start)
         /\ after.audio = Part(doc.audio, 0, start) \o Part(doc.audio, end, Duration(doc))
<1> DEFINE n == Duration(doc)
           ms == doc.markers
           audio == Part(doc.audio, 0, start) \o Part(doc.audio, end, n)
           markers == [i \in DOMAIN ms |-> LET p == ms[i].position
                                           IN [ms[i] EXCEPT !.position = IF p >= end THEN p - (end - start) ELSE Least(p, start)]]
           To == [k \in 1..Len(ms) |-> IF ms[k].position >= end THEN ms[k].position - (end - start) ELSE Least(ms[k].position, start)]
           w == end - start
<1>1. /\ doc.audio \in Seq(InDocument) /\ ms \in Seq(MarkerType) /\ n = Len(doc.audio) /\ n \in Nat /\ Unique(doc.audio) /\ InTime(ms)
      /\ Len(ms) \in Nat /\ DOMAIN ms = 1..Len(ms)
  BY DocIs
<1>2. \A k \in 1..Len(ms) : ms[k].position \in Nat /\ ms[k].position <= n
  BY DocIs
<1>3. deleteRange(doc, start, end) = [audio |-> audio, markers |-> markers]
  BY DEF deleteRange
<1>4. w \in Nat /\ start + w = end
  OBVIOUS
<1>5. /\ audio \in Seq(InDocument) /\ Len(audio) = n - w
      /\ \A i \in 1..start : audio[i] = doc.audio[i]
      /\ \A i \in start + 1..n - w : audio[i] = doc.audio[i + w]
  <2>1. doc.audio \in Seq(InDocument) /\ n = Len(doc.audio) /\ start \in Nat /\ end \in Nat /\ start <= end /\ end <= n
    BY <1>1
  <2> DEFINE s == doc.audio
  <2>2. s \in Seq(InDocument) /\ start \in Nat /\ end \in Nat /\ start <= end /\ end <= Len(s)
    BY <2>1
  <2> HIDE DEF s
  <2>3. IsWithout(Part(s, 0, start) \o Part(s, end, Len(s)), InDocument, s, Len(s), start, end - start)
    BY <2>2, Without
  <2> QED
    BY <2>1, <2>3 DEF s, IsWithout
<1> HIDE DEF n, w, audio
<1>6. \A k \in 1..Len(ms) : To[k] \in Nat /\ To[k] = IF ms[k].position >= end THEN ms[k].position - w ELSE Least(ms[k].position, start)
  <2> SUFFICES ASSUME NEW k \in 1..Len(ms) PROVE To[k] \in Nat /\ To[k] = IF ms[k].position >= end THEN ms[k].position - w ELSE Least(ms[k].position, start)
    OBVIOUS
  <2>1. ms[k].position \in Nat
    BY <1>2
  <2>2. To[k] = IF ms[k].position >= end THEN ms[k].position - w ELSE Least(ms[k].position, start)
    BY DEF w
  <2> QED
    BY <2>1, <2>2, <1>4 DEF Least
<1>7. /\ markers \in Seq(MarkerType) /\ Len(markers) = Len(ms)
      /\ \A k \in 1..Len(ms) : markers[k].position = To[k] /\ markers[k].at = ms[k].at
  <2>1. markers = [i \in 1..Len(ms) |-> [ms[i] EXCEPT !.position = To[i]]]
    BY <1>1
  <2>2. ms \in Seq(MarkerType) /\ DOMAIN To = 1..Len(ms) /\ \A k \in 1..Len(ms) : To[k] \in Nat
    BY <1>1, <1>6
  <2> HIDE DEF markers, To, ms
  <2> QED
    BY <2>1, <2>2, MarkersMove
<1> HIDE DEF markers, To
<1>8. ASSUME NEW k \in 1..Len(ms)
      PROVE  /\ ms[k].position \in Nat /\ ms[k].position <= n /\ markers[k].position \in Nat /\ k \in 1..Len(markers)
             /\ markers[k].position = IF ms[k].position >= end THEN ms[k].position - w
                                      ELSE IF ms[k].position < start THEN ms[k].position ELSE start
  BY <1>2, <1>6, <1>7 DEF Least
<1>9. InTime(markers)
  <2> SUFFICES ASSUME NEW i \in 1..Len(ms), NEW j \in 1..Len(ms), i < j PROVE markers[i].position <= markers[j].position
    BY <1>7 DEF InTime
  <2>1. ms[i].position <= ms[j].position
    BY <1>1 DEF InTime
  <2> DEFINE p == ms[i].position
             q == ms[j].position
             P == markers[i].position
             Q == markers[j].position
  <2>2. /\ p \in Nat /\ q \in Nat /\ p <= q
        /\ P = IF p >= end THEN p - w ELSE IF p < start THEN p ELSE start
        /\ Q = IF q >= end THEN q - w ELSE IF q < start THEN q ELSE start
    BY <1>8, <2>1
  <2> HIDE DEF p, q, P, Q
  <2>3. P <= Q
    BY <1>4, <2>2
  <2> QED
    BY <2>3 DEF P, Q
<1>10. ASSUME NEW i \in 1..Len(audio)
       PROVE  \E q \in 1..n : /\ audio[i] = doc.audio[q] /\ q = IF i <= start THEN i ELSE i + w
  <2>1. CASE i <= start
    BY <1>1, <1>4, <1>5, <2>1
  <2>2. CASE ~(i <= start)
    <3>1. i \in start + 1..n - w /\ i + w \in 1..n
      BY <1>1, <1>4, <1>5, <2>2
    <3> QED
      BY <1>5, <2>2, <3>1
  <2> QED
    BY <2>1, <2>2
<1>11. Unique(audio)
  <2> SUFFICES ASSUME NEW i \in 1..Len(audio), NEW j \in 1..Len(audio), audio[i] = audio[j], audio[i] # Silence PROVE i = j
    BY DEF Unique
  <2>1. PICK q \in 1..n : audio[i] = doc.audio[q] /\ q = IF i <= start THEN i ELSE i + w
    BY <1>10
  <2>2. PICK r \in 1..n : audio[j] = doc.audio[r] /\ r = IF j <= start THEN j ELSE j + w
    BY <1>10
  <2>3. q = r
    BY <1>1, <2>1, <2>2 DEF Unique
  <2>4. i \in Nat /\ j \in Nat
    BY <1>5, <1>1
  <2> QED
    BY <1>4, <2>1, <2>2, <2>3, <2>4
<1>12. \A k \in 1..Len(markers) : markers[k].position <= Len(audio) /\ markers[k].at \in {doc.markers[k].at, Lost}
  <2> SUFFICES ASSUME NEW k \in 1..Len(ms) PROVE markers[k].position <= Len(audio) /\ markers[k].at \in {doc.markers[k].at, Lost}
    BY <1>7
  <2> DEFINE p == ms[k].position
             P == markers[k].position
  <2>2. p \in Nat /\ p <= n /\ P = IF p >= end THEN p - w ELSE IF p < start THEN p ELSE start
    BY <1>8
  <2>3. end <= n /\ n \in Nat
    BY <1>1 DEF n
  <2> HIDE DEF p, P
  <2>4. P <= n - w
    BY <1>4, <2>2, <2>3
  <2> QED
    BY <1>5, <1>7, <2>4 DEF P
<1>13. ASSUME NEW i \in 1..Len(audio)
       PROVE  \/ audio[i] = Silence
              \/ \E q \in 1..Len(doc.audio) :
                   /\ audio[i] = doc.audio[q]
                   /\ \A k \in 1..Len(markers) : markers[k].at # Lost /\ q = doc.markers[k].position + 1 => i = markers[k].position + 1
  <2>1. PICK q \in 1..n : audio[i] = doc.audio[q] /\ q = IF i <= start THEN i ELSE i + w
    BY <1>10
  <2>2. ASSUME NEW k \in 1..Len(markers), q = doc.markers[k].position + 1 PROVE i = markers[k].position + 1
    <3>1. k \in 1..Len(ms) /\ i \in 1..n - w
      BY <1>5, <1>7
    <3> DEFINE p == ms[k].position
               P == markers[k].position
    <3>2. p \in Nat /\ q = p + 1 /\ P = IF p >= end THEN p - w ELSE IF p < start THEN p ELSE start
      BY <1>8, <2>2, <3>1
    <3>3. i \in Nat /\ q \in Nat /\ i <= n - w /\ n \in Nat
      BY <1>1, <1>4, <3>1
    <3> HIDE DEF p, P
    <3>4. i = P + 1
      BY <1>4, <2>1, <3>2, <3>3
    <3> QED
      BY <3>4 DEF P
  <2> QED
    BY <1>1, <2>1, <2>2
<1>14. DocHolds([audio |-> audio, markers |-> markers], last)
  <2>1. MovedFrom(doc, audio, markers)
    BY <1>5, <1>7, <1>9, <1>11, <1>12, <1>13 DEF MovedFrom
  <2> QED
    BY <2>1, MovedHolds
<1>15. deleteRange(doc, start, end).audio = audio
  BY <1>3
<1> QED
  BY <1>3, <1>5, <1>14, <1>15 DEF Duration, audio, n, w

\* New samples, in order.
NewSamples(audio, last) == audio \in Seq(Sample) /\ \A i \in 1..Len(audio) : audio[i] = <<last + 1, i>>

\* A new sample is in no document yet, and knows its place.
LEMMA NewIs == ASSUME NEW last \in Nat, NEW i \in Nat
  PROVE  /\ <<last + 1, i>> \in Sample /\ <<last + 1, i>> # Silence /\ <<last + 1, i>> # Lost
         /\ \A s : Until(s, last) => s # <<last + 1, i>>
         /\ Until(<<last + 1, i>>, last + 1)
         /\ \A j \in Nat : <<last + 1, i>> = <<last + 1, j>> => i = j
<1>1. last + 1 \in Nat
  OBVIOUS
<1>2. <<last + 1, i>> \in Nat \X Nat
  BY <1>1
<1>3. <<last + 1, i>>[1] = last + 1 /\ <<last + 1, i>>[2] = i
  OBVIOUS
<1>4. ASSUME NEW s, Until(s, last), s = <<last + 1, i>> PROVE FALSE
  BY <1>2, <1>3, <1>4 DEF Until, Sample
<1>5. ASSUME NEW j \in Nat, <<last + 1, i>> = <<last + 1, j>> PROVE i = j
  BY <1>5
<1>6. Until(<<last + 1, i>>, last + 1)
  BY <1>3 DEF Until
<1> QED
  BY <1>2, <1>4, <1>5, <1>6, CommandsAssumption DEF Sample

\* Until later.
LEMMA UntilLater == ASSUME NEW last \in Nat, NEW s, Until(s, last) PROVE Until(s, last + 1)
<1>1. s \in Sample => s[1] \in Nat
  BY DEF Sample
<1> QED
  BY <1>1 DEF Until

\* What inserting makes.
LEMMA InsertHolds == ASSUME NEW doc, NEW last \in Nat, DocHolds(doc, last), NEW at \in Nat, at <= Duration(doc),
                            NEW new, NewSamples(new, last)
  PROVE  LET after == insertAudio(doc, at, new) IN
         /\ DocHolds(after, last + 1) /\ Duration(after) = Duration(doc) + Len(new)
         /\ after.audio = Part(doc.audio, 0, at) \o new \o Part(doc.audio, at, Duration(doc))
<1> DEFINE n == Duration(doc)
           w == Len(new)
           ms == doc.markers
           audio == Part(doc.audio, 0, at) \o new \o Part(doc.audio, at, n)
           markers == [i \in DOMAIN ms |-> IF ms[i].position >= at THEN [ms[i] EXCEPT !.position = @ + w] ELSE ms[i]]
           To == [k \in 1..Len(ms) |-> IF ms[k].position >= at THEN ms[k].position + w ELSE ms[k].position]
<1>1. /\ doc.audio \in Seq(InDocument) /\ ms \in Seq(MarkerType) /\ n = Len(doc.audio) /\ n \in Nat /\ Unique(doc.audio) /\ InTime(ms)
      /\ Len(ms) \in Nat /\ DOMAIN ms = 1..Len(ms)
  BY DocIs
<1>2. \A k \in 1..Len(ms) : ms[k].position \in Nat /\ ms[k].position <= n
  BY DocIs
<1>3. insertAudio(doc, at, new) = [audio |-> audio, markers |-> markers]
  BY DEF insertAudio
<1>4. w \in Nat /\ new \in Seq(InDocument) /\ \A i \in 1..w : new[i] = <<last + 1, i>>
  BY DEF NewSamples, InDocument
<1>5. /\ audio \in Seq(InDocument) /\ Len(audio) = n + w
      /\ \A i \in 1..at : audio[i] = doc.audio[i]
      /\ \A i \in at + 1..at + w : audio[i] = new[i - at]
      /\ \A i \in at + w + 1..n + w : audio[i] = doc.audio[i - w]
  <2> DEFINE s == doc.audio
  <2>1. s \in Seq(InDocument) /\ at <= Len(s) /\ n = Len(s) /\ new \in Seq(InDocument)
    BY <1>1, <1>4
  <2> HIDE DEF s, n
  <2>2. IsWithin(Part(s, 0, at) \o new \o Part(s, at, Len(s)), InDocument, s, Len(s), at, new, Len(new))
    BY <2>1, Within
  <2> QED
    BY <2>1, <2>2 DEF s, IsWithin
<1> HIDE DEF n, w, audio
<1>6. \A k \in 1..Len(ms) : To[k] \in Nat /\ To[k] = IF ms[k].position >= at THEN ms[k].position + w ELSE ms[k].position
  <2> SUFFICES ASSUME NEW k \in 1..Len(ms) PROVE To[k] \in Nat /\ To[k] = IF ms[k].position >= at THEN ms[k].position + w ELSE ms[k].position
    OBVIOUS
  <2>1. ms[k].position \in Nat
    BY <1>2
  <2> QED
    BY <2>1, <1>4
<1>7. /\ markers \in Seq(MarkerType) /\ Len(markers) = Len(ms)
      /\ \A k \in 1..Len(ms) : markers[k].position = To[k] /\ markers[k].at = ms[k].at
  <2>1. ASSUME NEW i \in 1..Len(ms) PROVE markers[i] = [ms[i] EXCEPT !.position = To[i]]
    <3>1. ms[i] \in MarkerType /\ markers[i] = IF ms[i].position >= at THEN [ms[i] EXCEPT !.position = ms[i].position + w] ELSE ms[i]
      BY <1>1
    <3>2. ms[i] = [ms[i] EXCEPT !.position = ms[i].position]
      BY <3>1 DEF MarkerType
    <3> QED
      BY <3>1, <3>2
  <2>2. markers = [i \in 1..Len(ms) |-> [ms[i] EXCEPT !.position = To[i]]]
    BY <1>1, <2>1
  <2>3. ms \in Seq(MarkerType) /\ DOMAIN To = 1..Len(ms) /\ \A k \in 1..Len(ms) : To[k] \in Nat
    BY <1>1, <1>6
  <2> HIDE DEF markers, To, ms
  <2> QED
    BY <2>2, <2>3, MarkersMove, SMTT(20)
<1> HIDE DEF markers, To
<1>8. ASSUME NEW k \in 1..Len(ms)
      PROVE  /\ ms[k].position \in Nat /\ ms[k].position <= n /\ k \in 1..Len(markers)
             /\ markers[k].position = IF ms[k].position >= at THEN ms[k].position + w ELSE ms[k].position
  BY <1>2, <1>6, <1>7
<1>9. InTime(markers)
  <2> SUFFICES ASSUME NEW i \in 1..Len(ms), NEW j \in 1..Len(ms), i < j PROVE markers[i].position <= markers[j].position
    BY <1>7 DEF InTime
  <2> DEFINE p == ms[i].position
             q == ms[j].position
             P == markers[i].position
             Q == markers[j].position
  <2>1. p <= q
    BY <1>1 DEF InTime
  <2>2. /\ p \in Nat /\ q \in Nat /\ P = IF p >= at THEN p + w ELSE p
        /\ Q = IF q >= at THEN q + w ELSE q
    BY <1>8
  <2> HIDE DEF p, q, P, Q
  <2>3. P <= Q
    BY <1>4, <2>1, <2>2
  <2> QED
    BY <2>3 DEF P, Q
\* Where each sample comes from.
<1>10. ASSUME NEW i \in 1..Len(audio)
       PROVE  \/ \E j \in 1..w : audio[i] = <<last + 1, j>> /\ i = at + j
              \/ \E q \in 1..n : audio[i] = doc.audio[q] /\ i = IF q <= at THEN q ELSE q + w
  <2>0. i \in Nat /\ i >= 1 /\ i <= n + w
    BY <1>1, <1>4, <1>5
  <2>1. CASE i <= at
    <3>1. i \in 1..n /\ i \in 1..at
      BY <1>1, <2>0, <2>1 DEF n
    <3> QED
      BY <1>5, <2>1, <3>1
  <2>2. CASE i > at /\ i <= at + w
    <3>1. i - at \in 1..w /\ i \in at + 1..at + w /\ i = at + (i - at)
      BY <1>4, <2>0, <2>2
    <3> QED
      BY <1>4, <1>5, <3>1
  <2>3. CASE i > at + w
    <3>1. i - w \in 1..n /\ i \in at + w + 1..n + w /\ ~(i - w <= at) /\ i = (i - w) + w
      BY <1>1, <1>4, <2>0, <2>3
    <3> QED
      BY <1>5, <3>1
  <2> QED
    BY <1>4, <2>0, <2>1, <2>2, <2>3
<1>11. \A q \in 1..n : Until(doc.audio[q], last)
  BY DocIs DEF n
<1>12. Unique(audio)
  <2> SUFFICES ASSUME NEW i \in 1..Len(audio), NEW j \in 1..Len(audio), audio[i] = audio[j], audio[i] # Silence PROVE i = j
    BY DEF Unique
  <2>1. CASE \E k \in 1..w : audio[i] = <<last + 1, k>> /\ i = at + k
    <3>1. PICK k \in 1..w : audio[i] = <<last + 1, k>> /\ i = at + k
      BY <2>1
    <3>2. ASSUME NEW q \in 1..n, audio[j] = doc.audio[q] PROVE FALSE
      <4>1. doc.audio[q] = <<last + 1, k>>
        BY <3>1, <3>2
      <4>2. k \in Nat
        OBVIOUS
      <4>3. Until(doc.audio[q], last)
        BY <1>11
      <4> QED
        BY <4>1, <4>2, <4>3, NewIs
    <3>3. PICK m \in 1..w : audio[j] = <<last + 1, m>> /\ j = at + m
      BY <1>10, <3>2
    <3>4. <<last + 1, k>> = <<last + 1, m>>
      BY <3>1, <3>3
    <3>5. k = m
      BY <3>4
    <3> QED
      BY <3>1, <3>3, <3>5
  <2>2. CASE \E q \in 1..n : audio[i] = doc.audio[q] /\ i = IF q <= at THEN q ELSE q + w
    <3>1. PICK q \in 1..n : audio[i] = doc.audio[q] /\ i = IF q <= at THEN q ELSE q + w
      BY <2>2
    <3>2. ASSUME NEW k \in 1..w, audio[j] = <<last + 1, k>> PROVE FALSE
      <4>1. doc.audio[q] = <<last + 1, k>>
        BY <3>1, <3>2
      <4>2. k \in Nat
        OBVIOUS
      <4>3. Until(doc.audio[q], last)
        BY <1>11
      <4> QED
        BY <4>1, <4>2, <4>3, NewIs
    <3>3. PICK r \in 1..n : audio[j] = doc.audio[r] /\ j = IF r <= at THEN r ELSE r + w
      BY <1>10, <3>2
    <3>4. q = r
      BY <1>1, <3>1, <3>3 DEF Unique
    <3> QED
      BY <3>1, <3>3, <3>4
  <2> QED
    BY <1>10, <2>1, <2>2
<1>13. ASSUME NEW k \in 1..Len(markers) PROVE OnItsSample(markers[k], audio) /\ Until(markers[k].at, last + 1)
  <2>0. k \in 1..Len(ms)
    BY <1>7
  <2> DEFINE p == ms[k].position
             P == markers[k].position
             x == ms[k].at
  <2>1. /\ p \in Nat /\ p <= n /\ P = IF p >= at THEN p + w ELSE p
        /\ markers[k].at = x
    BY <1>7, <1>8, <2>0
  <2>2. Until(x, last) /\ \A i \in 1..n : doc.audio[i] = x /\ x # Silence => i = p + 1
    BY <1>1, <2>0, DocIs DEF OnItsSample
  <2> HIDE DEF p, P, x
  <2>3. Until(x, last + 1)
    BY <2>2, UntilLater
  <2>4. P <= Len(audio)
    BY <1>1, <1>4, <1>5, <2>1
  <2>5. ASSUME NEW i \in 1..Len(audio), audio[i] = x, x # Silence PROVE i = P + 1
    <3>1. ~(\E j \in 1..w : audio[i] = <<last + 1, j>>)
      BY <2>2, <2>5, NewIs
    <3>2. PICK q \in 1..n : audio[i] = doc.audio[q] /\ i = IF q <= at THEN q ELSE q + w
      BY <1>10, <3>1
    <3>3. q = p + 1
      BY <2>2, <2>5, <3>2
    <3> QED
      BY <1>1, <1>4, <2>1, <3>2, <3>3
  <2> QED
    BY <2>1, <2>3, <2>4, <2>5 DEF OnItsSample, P
<1>14. ASSUME NEW i \in 1..Len(audio) PROVE Until(audio[i], last + 1)
  <2>1. CASE \E j \in 1..w : audio[i] = <<last + 1, j>>
    BY <2>1, NewIs
  <2>2. CASE \E q \in 1..n : audio[i] = doc.audio[q]
    BY <2>2, <1>11, UntilLater
  <2> QED
    BY <1>10, <2>1, <2>2
<1>15. [audio |-> audio, markers |-> markers] \in Doc
  BY <1>5, <1>7 DEF Doc
<1>16. DocHolds([audio |-> audio, markers |-> markers], last + 1)
  BY <1>9, <1>12, <1>13, <1>14, <1>15 DEF DocHolds
<1>17. insertAudio(doc, at, new).audio = audio
  BY <1>3
<1> QED
  BY <1>3, <1>5, <1>16, <1>17 DEF Duration, audio, n, w

\* Three sequences, one after another.
IsJoined(r, S, a, b, c) == /\ r \in Seq(S) /\ Len(r) = Len(a) + Len(b) + Len(c)
                           /\ \A i \in 1..Len(a) : r[i] = a[i]
                           /\ \A i \in 1..Len(b) : r[Len(a) + i] = b[i]
                           /\ \A i \in 1..Len(c) : r[Len(a) + Len(b) + i] = c[i]

\* Where each element of the three comes to be.
LEMMA ThreeJoined == ASSUME NEW S, NEW a \in Seq(S), NEW b \in Seq(S), NEW c \in Seq(S)
  PROVE  IsJoined(a \o b \o c, S, a, b, c)
<1> DEFINE d == a \o b
           m == Len(a)
           n == Len(b)
           l == Len(c)
<1>1. m \in Nat /\ n \in Nat /\ l \in Nat
  OBVIOUS
<1>2. /\ d \in Seq(S) /\ Len(d) = m + n
      /\ \A i \in 1..m + n : d[i] = IF i <= m THEN a[i] ELSE b[i - m]
  BY ConcatProperties
<1>3. d \in Seq(S) /\ c \in Seq(S)
  BY <1>2
<1> HIDE DEF d
<1>4. /\ d \o c \in Seq(S) /\ Len(d \o c) = Len(d) + Len(c)
      /\ \A i \in 1..Len(d) + Len(c) : (d \o c)[i] = IF i <= Len(d) THEN d[i] ELSE c[i - Len(d)]
  BY <1>3, ConcatProperties
<1>5. /\ Len(d \o c) = m + n + l
      /\ \A i \in 1..m + n + l : (d \o c)[i] = IF i <= m + n THEN d[i] ELSE c[i - (m + n)]
  BY <1>2, <1>4
<1> HIDE DEF m, n, l
<1>6. \A i \in 1..m : i \in 1..m + n /\ i <= m /\ i <= m + n /\ i \in 1..m + n + l
  BY <1>1
<1>7. \A i \in 1..n : m + i \in 1..m + n /\ m + i <= m + n /\ ~(m + i <= m) /\ m + i \in 1..m + n + l /\ (m + i) - m = i
  BY <1>1
<1>8. \A i \in 1..l : ~(m + n + i <= m + n) /\ m + n + i \in 1..m + n + l /\ (m + n + i) - (m + n) = i
  BY <1>1
<1>9. /\ \A i \in 1..m : (d \o c)[i] = a[i]
      /\ \A i \in 1..n : (d \o c)[m + i] = b[i]
      /\ \A i \in 1..l : (d \o c)[m + n + i] = c[i]
  BY <1>2, <1>5, <1>6, <1>7, <1>8
<1> QED
  BY <1>4, <1>5, <1>9 DEF IsJoined, d, m, n, l

\* A sequence with some of it replaced.
IsReplaced(r, S, s, at, new) == /\ r \in Seq(S) /\ Len(r) = Len(s)
                                /\ \A i \in 1..Len(s) : r[i] = IF i \in at + 1..at + Len(new) THEN new[i - at] ELSE s[i]

\* A sequence keeps its length, and all but what was replaced.
LEMMA Replaced == ASSUME NEW S, NEW s \in Seq(S), NEW at \in Nat, NEW new \in Seq(S), at + Len(new) <= Len(s)
  PROVE  IsReplaced(Part(s, 0, at) \o new \o Part(s, at + Len(new), Len(s)), S, s, at, new)
<1> DEFINE n == Len(s)
           w == Len(new)
           a == Part(s, 0, at)
           c == Part(s, at + w, n)
           r == a \o new \o c
<1>1. n \in Nat /\ w \in Nat /\ at + w <= n
  OBVIOUS
<1>2. a \in Seq(S) /\ Len(a) = at /\ \A i \in 1..at : a[i] = s[i]
  <2>1. 0 \in Nat /\ 0 <= at /\ at <= Len(s) /\ at - 0 = at
    BY <1>1
  <2>2. a \in Seq(S) /\ Len(a) = at - 0 /\ \A i \in 1..at - 0 : a[i] = s[0 + i]
    BY <2>1, PartIs
  <2> QED
    BY <2>1, <2>2
<1>3. c \in Seq(S) /\ Len(c) = n - (at + w) /\ \A i \in 1..n - (at + w) : c[i] = s[at + w + i]
  <2>1. at + w \in Nat /\ n \in Nat /\ at + w <= n /\ n <= Len(s)
    BY <1>1
  <2> QED
    BY <2>1, PartIs
<1> HIDE DEF a, c
<1>4. a \in Seq(S) /\ new \in Seq(S) /\ c \in Seq(S)
  BY <1>2, <1>3
<1>5. IsJoined(r, S, a, new, c)
  BY <1>4, ThreeJoined
<1> HIDE DEF n, w, r
<1>6. /\ r \in Seq(S) /\ Len(r) = at + w + (n - (at + w)) /\ \A i \in 1..at : r[i] = a[i]
      /\ \A i \in 1..w : r[at + i] = new[i]
      /\ \A i \in 1..n - (at + w) : r[at + w + i] = c[i]
  BY <1>2, <1>3, <1>5 DEF IsJoined, w
<1>7. Len(r) = n
  BY <1>1, <1>6
<1>8. ASSUME NEW i \in 1..n PROVE r[i] = IF i \in at + 1..at + w THEN new[i - at] ELSE s[i]
  <2>1. CASE i <= at
    <3>1. i \in 1..at /\ ~(i \in at + 1..at + w)
      BY <1>1, <2>1
    <3> QED
      BY <1>2, <1>6, <3>1
  <2>2. CASE i \in at + 1..at + w
    <3>1. i - at \in 1..w /\ at + (i - at) = i
      BY <1>1, <2>2
    <3> QED
      BY <1>6, <2>2, <3>1
  <2>3. CASE i > at + w
    <3>1. i - (at + w) \in 1..n - (at + w) /\ at + w + (i - (at + w)) = i /\ ~(i \in at + 1..at + w)
      BY <1>1, <2>3
    <3> QED
      BY <1>3, <1>6, <3>1
  <2> QED
    BY <1>1, <2>1, <2>2, <2>3
<1> QED
  BY <1>6, <1>7, <1>8 DEF IsReplaced, n, w, r, a, c

\* A document of which each sample is silence or where it was, with the same markers.
LEMMA SilenceHolds == ASSUME NEW doc, NEW last \in Nat, DocHolds(doc, last), NEW start \in Nat, NEW end \in Nat,
                             start <= end, end <= Duration(doc)
  PROVE  DocHolds(silenceRange(doc, start, end), last) /\ Duration(silenceRange(doc, start, end)) = Duration(doc)
<1> DEFINE s == doc.audio
           n == Duration(doc)
           new == [i \in 1..(end - start) |-> Silence]
           r == Part(s, 0, start) \o new \o Part(s, start + Len(new), n)
           ms == doc.markers
<1>1. /\ s \in Seq(InDocument) /\ ms \in Seq(MarkerType) /\ n = Len(s) /\ n \in Nat /\ Unique(s) /\ InTime(ms) /\ Len(ms) \in Nat
      /\ \A k \in 1..Len(ms) : ms[k].position <= n
  BY DocIs
<1>2. new \in Seq(InDocument) /\ Len(new) = end - start /\ end - start \in Nat
  <2>1. end - start \in Nat /\ new \in [1..(end - start) -> InDocument]
    BY DEF InDocument
  <2> QED
    BY <2>1
<1>3. silenceRange(doc, start, end) = [audio |-> r, markers |-> ms]
  BY DEF silenceRange, replaceRange
<1>4. start + Len(new) <= Len(s)
  BY <1>1, <1>2
<1>5. IsReplaced(r, InDocument, s, start, new)
  <2>0. s \in Seq(InDocument) /\ n = Len(s)
    BY <1>1
  <2> HIDE DEF s, new, n
  <2>1. IsReplaced(Part(s, 0, start) \o new \o Part(s, start + Len(new), Len(s)), InDocument, s, start, new)
    BY <1>2, <1>4, <2>0, Replaced
  <2> QED
    BY <2>0, <2>1
<1>6. /\ r \in Seq(InDocument) /\ Len(r) = n
      /\ \A i \in 1..n : r[i] = IF i \in start + 1..end THEN Silence ELSE s[i]
  <2>1. start + Len(new) = end
    BY <1>2
  <2>2. \A i \in start + 1..end : i - start \in 1..end - start
    OBVIOUS
  <2>3. \A i \in start + 1..end : new[i - start] = Silence
    BY <2>2
  <2> HIDE DEF r, new, n, s
  <2> QED
    BY <1>1, <1>5, <2>1, <2>3 DEF IsReplaced
<1> HIDE DEF r, n
<1>7. Unique(r)
  BY <1>1, <1>6 DEF Unique
<1>8. \A i \in 1..Len(r) : \/ r[i] = Silence
                           \/ \E q \in 1..Len(doc.audio) :
                                /\ r[i] = doc.audio[q]
                                /\ \A k \in 1..Len(ms) : ms[k].at # Lost /\ q = doc.markers[k].position + 1 => i = ms[k].position + 1
  BY <1>1, <1>6
<1>9. /\ r \in Seq(InDocument) /\ ms \in Seq(MarkerType) /\ Len(ms) = Len(doc.markers) /\ InTime(ms) /\ Unique(r)
      /\ \A k \in 1..Len(ms) : ms[k].position <= Len(r) /\ ms[k].at \in {doc.markers[k].at, Lost}
  BY <1>1, <1>6, <1>7
<1>10. DocHolds([audio |-> r, markers |-> ms], last)
  <2>1. MovedFrom(doc, r, ms)
    BY <1>8, <1>9 DEF MovedFrom
  <2> QED
    BY <2>1, MovedHolds
<1> QED
  BY <1>3, <1>6, <1>10 DEF Duration, n
-------------------------------------------------------------------------------
(* The effects.                                                              *)

\* What the effects are made of: numbers of samples, and the one that turns
\* audio around asks for no more than its target.
EffectType(e) ==
  /\ e.before \in Nat /\ e.after \in Nat /\ e.reach \in Nat /\ e.writes \in {"span", "range"} /\ e.reverses \in BOOLEAN
  /\ e.reverses => e.writes = "range" /\ e.before = 0 /\ e.after = 0
  /\ e.edges # "nowhere" => e.writes = "range" /\ e.edges \in {"both", "seams"}
Fields == {"reads", "before", "after", "reach", "writes", "edges", "reverses", "needsStereo", "mayRefuse", "searches", "tells", "mayFail"}

\* Every effect of the table is such a one.
LEMMA EffectsAre == ASSUME NEW name \in DOMAIN Effects PROVE EffectType(Effects[name])
<1> USE CommandsAssumption
<1>1. Window \in Nat /\ 2 * Window \in Nat /\ kRunUp \in Nat /\ Order \in Nat /\ LimiterContext \in Nat
  OBVIOUS
<1>2. DOMAIN InPlace = Fields /\ EffectType(InPlace)
  BY DEF InPlace, Fields, EffectType
<1> HIDE CommandsAssumption
<1>3. DOMAIN applySpectralEdit = Fields /\ EffectType(applySpectralEdit)
  BY <1>1 DEF applySpectralEdit, InPlace, Fields, EffectType
<1>4. EffectType(chooseDenoise) /\ EffectType(chooseAttenuate) /\ EffectType(healSelection)
  BY <1>3 DEF chooseDenoise, chooseAttenuate, healSelection
<1>5. EffectType(reverse) /\ EffectType(invert) /\ EffectType(sumToMono)
  BY <1>1 DEF reverse, invert, sumToMono, InPlace, EffectType
<1>6. EffectType(applyEqBands) /\ EffectType(applyFilter)
  BY <1>1 DEF applyEqBands, applyFilter, InPlace, EffectType
<1>7. EffectType(applyOverRange) /\ EffectType(chooseDeess)
  BY <1>1 DEF applyOverRange, chooseDeess, InPlace, EffectType
<1>8. EffectType(chooseCompressor) /\ EffectType(chooseGate)
  BY <1>1 DEF chooseCompressor, chooseGate, applyOverRange, InPlace, EffectType
<1>9. EffectType(applyDeclick) /\ EffectType(removeHum) /\ EffectType(restoreClipping) /\ EffectType(applyPitchShift)
  BY <1>1 DEF applyDeclick, removeHum, restoreClipping, applyPitchShift, InPlace, EffectType
<1>10. EffectType(limitTo)
  BY <1>1 DEF limitTo, InPlace, EffectType
<1>11. EffectType(applyGainDecibels) /\ EffectType(applyFade) /\ EffectType(flattenRange)
  BY <1>1 DEF applyGainDecibels, applyFade, flattenRange, InPlace, EffectType
<1>12. /\ Effects["denoise"] = chooseDenoise /\ Effects["attenuate"] = chooseAttenuate /\ Effects["heal"] = healSelection
       /\ Effects["reverse"] = reverse /\ Effects["invert"] = invert /\ Effects["mono"] = sumToMono
       /\ Effects["filter"] = applyFilter /\ Effects["equalise"] = applyEqBands /\ Effects["compress"] = chooseCompressor /\ Effects["gate"] = chooseGate
  BY DEF Effects
<1>13. /\ Effects["deess"] = chooseDeess /\ Effects["declick"] = applyDeclick /\ Effects["dehum"] = removeHum
       /\ Effects["declip"] = restoreClipping /\ Effects["pitch"] = applyPitchShift /\ Effects["limit"] = limitTo
       /\ Effects["gain"] = applyGainDecibels /\ Effects["fade"] = applyFade /\ Effects["flatten"] = flattenRange
  BY DEF Effects
<1>14. name \in {"denoise", "attenuate", "heal", "reverse", "invert", "mono", "filter", "equalise", "compress", "gate", "deess",
                      "declick", "dehum", "declip", "pitch", "limit", "gain", "fade", "flatten"}
  BY DEF Effects
<1> QED
  BY <1>4, <1>5, <1>6, <1>7, <1>8, <1>9, <1>10, <1>11, <1>12, <1>13, <1>14

Stretch(range, n) == range.start \in Nat /\ range.end \in Nat /\ range.start < range.end /\ range.end <= n

\* The span holds the target and ends where the document does.
LEMMA SpanIs == ASSUME NEW e, EffectType(e), NEW doc, Duration(doc) \in Nat, NEW range, Stretch(range, Duration(doc))
  PROVE  LET span == SpanOf(e, range, doc) IN
         /\ span.start \in Nat /\ span.end \in Nat /\ span.start <= range.start /\ range.end <= span.end /\ span.end <= Duration(doc)
         /\ e.before = 0 /\ e.after = 0 => span.start = range.start /\ span.end = range.end
<1>1. /\ e.before \in Nat /\ e.after \in Nat
      /\ range.start \in Nat /\ range.end \in Nat /\ range.start < range.end /\ range.end <= Duration(doc)
  BY DEF EffectType, Stretch
<1>2. /\ SpanOf(e, range, doc).start = Most(0, range.start - e.before)
      /\ SpanOf(e, range, doc).end = Least(Duration(doc), range.end + e.after)
  BY DEF SpanOf
<1>3. ASSUME NEW s \in Nat, NEW b \in Nat PROVE Most(0, s - b) \in Nat /\ Most(0, s - b) <= s /\ (b = 0 => Most(0, s - b) = s)
  BY DEF Most
<1>4. ASSUME NEW n \in Nat, NEW t \in Nat, NEW a \in Nat, t <= n
      PROVE  Least(n, t + a) \in Nat /\ t <= Least(n, t + a) /\ Least(n, t + a) <= n /\ (a = 0 => Least(n, t + a) = t)
  BY <1>4 DEF Least
<1>5. /\ Most(0, range.start - e.before) \in Nat /\ Most(0, range.start - e.before) <= range.start
      /\ e.before = 0 => Most(0, range.start - e.before) = range.start
  BY <1>1, <1>3
<1>6. LET u == Least(Duration(doc), range.end + e.after) IN
      u \in Nat /\ range.end <= u /\ u <= Duration(doc) /\ (e.after = 0 => u = range.end)
  BY <1>1, <1>4
<1> QED
  BY <1>1, <1>2, <1>5, <1>6

\* Audio that is turned around stays in its range.
LEMMA BackwardsIs == ASSUME NEW e, EffectType(e), NEW n \in Nat, NEW range, Stretch(range, n), NEW p \in 0..n - 1,
                            e.reverses => p \in range.start..(range.end - 1)
  PROVE  /\ Backwards(e, range, p) \in 0..n - 1
         /\ e.reverses => Backwards(e, range, p) \in range.start..(range.end - 1)
         /\ ~e.reverses => Backwards(e, range, p) = p
<1> DEFINE s == range.start
           t == range.end
<1>1. s \in Nat /\ t \in Nat /\ s < t /\ t <= n /\ e.reverses \in BOOLEAN
  BY DEF Stretch, EffectType
<1>2. Backwards(e, range, p) = IF e.reverses THEN s + t - 1 - p ELSE p
  BY DEF Backwards
<1> HIDE DEF s, t
<1>3. CASE e.reverses
  <2>1. p \in s..t - 1
    BY <1>3 DEF s, t
  <2>2. s + t - 1 - p \in s..t - 1 /\ s + t - 1 - p \in 0..n - 1
    BY <1>1, <2>1
  <2> QED
    BY <1>2, <1>3, <2>2 DEF s, t
<1>4. CASE ~e.reverses
  BY <1>2, <1>4
<1> QED
  BY <1>3, <1>4

Worked == [of : InDocument, how : {"dry", "wet", "blended"}]

\* What was processed.
LEMMA WorkIs == ASSUME NEW e, EffectType(e), NEW doc, doc.audio \in Seq(InDocument), NEW range, Stretch(range, Duration(doc))
  PROVE  LET span == SpanOf(e, range, doc)
             work == Work(e, range, doc)
         IN /\ work \in Seq(Worked) /\ Len(work) = span.end - span.start
            /\ \A i \in 1..span.end - span.start :
                 /\ work[i].of = doc.audio[Backwards(e, range, span.start + i - 1) + 1]
                 /\ work[i].how = Touch(e, range, Duration(doc), span.start + i - 1)
<1> DEFINE n == Duration(doc)
           a == SpanOf(e, range, doc).start
           b == SpanOf(e, range, doc).end
           work == Work(e, range, doc)
<1>1. n \in Nat /\ n = Len(doc.audio)
  BY DEF Duration
<1>2. a \in Nat /\ b \in Nat /\ a <= b /\ b <= n /\ (e.reverses => a = range.start /\ b = range.end)
  <2>1. range.start <= range.end /\ range.start \in Nat /\ range.end \in Nat
    BY DEF Stretch
  <2>2. e.reverses => e.before = 0 /\ e.after = 0
    BY DEF EffectType
  <2> QED
    BY <1>1, <2>1, <2>2, SpanIs
<1>3. work = [i \in 1..b - a |-> LET p == a + i - 1 IN [of |-> doc.audio[Backwards(e, range, p) + 1], how |-> Touch(e, range, n, p)]]
  BY DEF Work
<1> HIDE DEF work, a, b, n
<1>4. b - a \in Nat
  BY <1>2
<1>5. ASSUME NEW i \in 1..b - a PROVE doc.audio[Backwards(e, range, a + i - 1) + 1] \in InDocument
  <2>1. a + i - 1 \in 0..n - 1 /\ a + i - 1 \in a..b - 1
    BY <1>1, <1>2
  <2>2. e.reverses => a + i - 1 \in range.start..(range.end - 1)
    BY <1>2, <2>1
  <2>3. Stretch(range, n)
    BY DEF n
  <2>4. Backwards(e, range, a + i - 1) \in 0..n - 1
    BY <1>1, <2>1, <2>2, <2>3, BackwardsIs
  <2>5. Backwards(e, range, a + i - 1) + 1 \in 1..Len(doc.audio)
    BY <1>1, <2>4
  <2> QED
    BY <2>5
<1>6. ASSUME NEW p PROVE Touch(e, range, n, p) \in {"dry", "wet", "blended"}
  BY DEF Touch
<1>7. ASSUME NEW i \in 1..b - a
      PROVE  /\ work[i] \in Worked /\ work[i].of = doc.audio[Backwards(e, range, a + i - 1) + 1]
             /\ work[i].how = Touch(e, range, n, a + i - 1)
  BY <1>3, <1>5, <1>6 DEF Worked
<1>8. work \in [1..b - a -> Worked]
  BY <1>3, <1>7
<1>9. work \in Seq(Worked) /\ Len(work) = b - a
  BY <1>4, <1>8
<1> QED
  BY <1>7, <1>9 DEF work, a, b, n

\* What is put back is what was processed, where it was read, the target in it.
IsPutBack(put, e, range, doc) ==
  /\ put.at \in Nat /\ put.at <= range.start /\ range.end <= put.at + Len(put.work) /\ put.at + Len(put.work) <= Duration(doc)
  /\ put.work \in Seq(Worked)
  /\ e.writes = "range" => put.at = range.start /\ put.at + Len(put.work) = range.end
  /\ \A i \in 1..Len(put.work) :
       /\ put.work[i].of = doc.audio[Backwards(e, range, put.at + i - 1) + 1]
       /\ put.work[i].how = Touch(e, range, Duration(doc), put.at + i - 1)

\* Whether the whole span is put back or the range alone.
LEMMA PutBackIs == ASSUME NEW e, EffectType(e), NEW doc, doc.audio \in Seq(InDocument), NEW range, Stretch(range, Duration(doc))
  PROVE  IsPutBack(PutBack(e, range, doc), e, range, doc)
<1> DEFINE n == Duration(doc)
           s == range.start
           t == range.end
           a == SpanOf(e, range, doc).start
           b == SpanOf(e, range, doc).end
           work == Work(e, range, doc)
           put == PutBack(e, range, doc)
<1>1. n \in Nat /\ n = Len(doc.audio)
  BY DEF Duration
<1>2. s \in Nat /\ t \in Nat /\ s < t /\ t <= n /\ e.writes \in {"span", "range"}
  BY DEF Stretch, EffectType
<1>3. a \in Nat /\ b \in Nat /\ a <= s /\ t <= b /\ b <= n
  BY <1>1, SpanIs
<1>4. /\ work \in Seq(Worked) /\ Len(work) = b - a
      /\ \A i \in 1..b - a : /\ work[i].of = doc.audio[Backwards(e, range, a + i - 1) + 1]
                             /\ work[i].how = Touch(e, range, n, a + i - 1)
  BY WorkIs
<1>5. put = IF e.writes = "span" THEN [at |-> a, work |-> work] ELSE [at |-> s, work |-> Part(work, s - a, s - a + (t - s))]
  BY DEF PutBack
<1> HIDE DEF put, work, a, b, n, s, t
<1>6. CASE e.writes = "span"
  <2>1. put.at = a /\ put.work = work
    BY <1>5, <1>6
  <2>2. a + Len(work) = b
    BY <1>3, <1>4
  <2>3. e.writes # "range"
    BY <1>6
  <2> QED
    BY <1>3, <1>4, <2>1, <2>2, <2>3 DEF IsPutBack, put, s, t, n
<1>7. CASE e.writes = "range"
  <2> DEFINE part == Part(work, s - a, s - a + (t - s))
  <2>1. put.at = s /\ put.work = part
    BY <1>5, <1>7
  <2>2. s - a \in Nat /\ s - a + (t - s) \in Nat /\ s - a <= s - a + (t - s) /\ s - a + (t - s) <= Len(work)
        /\ (s - a + (t - s)) - (s - a) = t - s
    BY <1>2, <1>3, <1>4
  <2>3. /\ part \in Seq(Worked) /\ Len(part) = (s - a + (t - s)) - (s - a)
        /\ \A i \in 1..(s - a + (t - s)) - (s - a) : part[i] = work[s - a + i]
    BY <1>4, <2>2, PartIs
  <2> HIDE DEF part
  <2>4. Len(part) = t - s /\ s + (t - s) = t
    BY <1>2, <2>2, <2>3
  <2>5. ASSUME NEW i \in 1..t - s
        PROVE  /\ part[i].of = doc.audio[Backwards(e, range, s + i - 1) + 1]
               /\ part[i].how = Touch(e, range, n, s + i - 1)
    <3>1. s - a + i \in 1..b - a /\ a + (s - a + i) - 1 = s + i - 1
      BY <1>2, <1>3
    <3>2. part[i] = work[s - a + i]
      BY <2>2, <2>3
    <3> QED
      BY <1>4, <3>1, <3>2
  <2>6. put.at + Len(put.work) = t
    BY <2>1, <2>4
  <2>7. t <= t /\ s <= s
    BY <1>2
  <2> QED
    BY <1>2, <2>1, <2>3, <2>4, <2>5, <2>6, <2>7 DEF IsPutBack, put, s, t, n
<1> QED
  BY <1>2, <1>6, <1>7

\* Where the sample now at p was.
Whence(e, range, p) == IF p \in range.start..(range.end - 1) THEN Backwards(e, range, p) ELSE p

\* Every sample was somewhere, no two at one place, those outside the range where they are.
LEMMA WhenceIs == ASSUME NEW e, EffectType(e), NEW n \in Nat, NEW range, Stretch(range, n), NEW p \in 0..n - 1
  PROVE  /\ Whence(e, range, p) \in 0..n - 1
         /\ ~e.reverses => Whence(e, range, p) = p
         /\ ~(p \in range.start..(range.end - 1)) => Whence(e, range, p) = p /\ ~(Whence(e, range, p) \in range.start..(range.end - 1))
         /\ \A q \in 0..n - 1 : Whence(e, range, p) = Whence(e, range, q) => p = q
         /\ e.reverses /\ p \in range.start..(range.end - 1) => Whence(e, range, p) \in range.start..(range.end - 1)
<1> DEFINE s == range.start
           t == range.end
<1>1. s \in Nat /\ t \in Nat /\ s < t /\ t <= n /\ e.reverses \in BOOLEAN
  BY DEF Stretch, EffectType
<1>2. \A q : Whence(e, range, q) = IF q \in s..t - 1 /\ e.reverses THEN s + t - 1 - q ELSE q
  BY DEF Whence, Backwards
<1> HIDE DEF s, t
<1>3. \A q \in s..t - 1 : s + t - 1 - q \in s..t - 1 /\ s + t - 1 - q \in 0..n - 1
  BY <1>1
<1>4. Whence(e, range, p) \in 0..n - 1
  BY <1>1, <1>2, <1>3
<1>5. ~e.reverses => Whence(e, range, p) = p
  BY <1>2
<1>6. ~(p \in s..t - 1) => Whence(e, range, p) = p
  BY <1>2
<1>7. ASSUME NEW q \in 0..n - 1, Whence(e, range, p) = Whence(e, range, q) PROVE p = q
  <2>1. CASE p \in s..t - 1 /\ q \in s..t - 1 /\ e.reverses
    <3>1. s + t - 1 - p = s + t - 1 - q
      BY <1>2, <1>7, <2>1
    <3> QED
      BY <1>1, <3>1
  <2>2. CASE ~(p \in s..t - 1 /\ e.reverses) /\ ~(q \in s..t - 1 /\ e.reverses)
    BY <1>2, <1>7, <2>2
  <2>3. CASE p \in s..t - 1 /\ ~(q \in s..t - 1) /\ e.reverses
    BY <1>2, <1>3, <1>7, <2>3
  <2>4. CASE ~(p \in s..t - 1) /\ q \in s..t - 1 /\ e.reverses
    BY <1>2, <1>3, <1>7, <2>4
  <2> QED
    BY <2>1, <2>2, <2>3, <2>4
<1>8. e.reverses /\ p \in s..t - 1 => Whence(e, range, p) \in s..t - 1
  BY <1>2, <1>3
<1> QED
  BY <1>4, <1>5, <1>6, <1>7, <1>8 DEF s, t

\* What processing leaves, sample by sample.
IsProcessed(audio, e, range, doc) ==
  /\ audio \in Seq(InDocument) /\ Len(audio) = Duration(doc)
  /\ \A p \in 0..(Duration(doc) - 1) : audio[p + 1] = doc.audio[1 + Whence(e, range, p)]

\* The document keeps its length, and each sample is one of those there were.
LEMMA ProcessedIs == ASSUME NEW e, EffectType(e), NEW doc, doc.audio \in Seq(InDocument), NEW range, Stretch(range, Duration(doc))
  PROVE  IsProcessed(Processed(e, range, doc).audio, e, range, doc)
<1> DEFINE n == Duration(doc)
           s == doc.audio
           put == PutBack(e, range, doc)
           new == [i \in DOMAIN put.work |-> put.work[i].of]
           r == Part(s, 0, put.at) \o new \o Part(s, put.at + Len(new), n)
           w == Len(put.work)
<1>1. n \in Nat /\ n = Len(s) /\ s \in Seq(InDocument)
  BY DEF Duration
<1>2. IsPutBack(put, e, range, doc)
  BY PutBackIs
<1>3. Processed(e, range, doc).audio = r
  BY DEF Processed, replaceRange
<1> HIDE DEF put, s, n
<1>4. /\ put.at \in Nat /\ put.at <= range.start /\ range.end <= put.at + w /\ put.at + w <= n
      /\ put.work \in Seq(Worked) /\ w \in Nat /\ DOMAIN put.work = 1..w
      /\ e.writes = "range" => put.at = range.start /\ put.at + w = range.end
      /\ \A i \in 1..w : put.work[i].of = s[Backwards(e, range, put.at + i - 1) + 1]
  BY <1>2 DEF IsPutBack, n, s
<1>5. new \in Seq(InDocument) /\ Len(new) = w /\ \A i \in 1..w : new[i] = s[Backwards(e, range, put.at + i - 1) + 1]
  <2>1. \A i \in 1..w : put.work[i] \in Worked
    BY <1>4
  <2>2. new \in [1..w -> InDocument]
    BY <1>4, <2>1 DEF Worked
  <2> QED
    BY <1>4, <2>2
<1> HIDE DEF new, w
<1>6. IsReplaced(r, InDocument, s, put.at, new)
  <2>1. put.at \in Nat /\ put.at + Len(new) <= Len(s) /\ new \in Seq(InDocument) /\ s \in Seq(InDocument)
    BY <1>1, <1>4, <1>5
  <2>2. IsReplaced(Part(s, 0, put.at) \o new \o Part(s, put.at + Len(new), Len(s)), InDocument, s, put.at, new)
    BY <2>1, Replaced
  <2> QED
    BY <1>1, <2>2
<1> HIDE DEF r
<1>7. /\ r \in Seq(InDocument) /\ Len(r) = n
      /\ \A i \in 1..n : r[i] = IF i \in put.at + 1..put.at + w THEN new[i - put.at] ELSE s[i]
  BY <1>1, <1>5, <1>6 DEF IsReplaced
<1>8. /\ range.start \in Nat /\ range.end \in Nat /\ range.start < range.end /\ range.end <= n
      /\ e.writes \in {"span", "range"} /\ e.reverses \in BOOLEAN /\ (e.reverses => e.writes = "range")
  BY DEF Stretch, EffectType, n
<1>9. ASSUME NEW p \in 0..n - 1 PROVE r[p + 1] = s[1 + Whence(e, range, p)]
  <2>1. CASE p + 1 \in put.at + 1..put.at + w
    <3>1. (p + 1) - put.at \in 1..w /\ put.at + ((p + 1) - put.at) - 1 = p /\ p + 1 \in 1..n
      <4> DEFINE a == put.at
      <4>1. a \in Nat /\ w \in Nat /\ p \in Nat /\ p + 1 >= a + 1 /\ p + 1 <= a + w /\ p <= n - 1
        BY <1>1, <1>4, <2>1
      <4> HIDE DEF a
      <4>2. (p + 1) - a \in 1..w /\ a + ((p + 1) - a) - 1 = p /\ p + 1 \in 1..n
        BY <1>1, <4>1
      <4> QED
        BY <4>2 DEF a
    <3>2. r[p + 1] = s[Backwards(e, range, p) + 1]
      BY <1>5, <1>7, <2>1, <3>1
    <3>3. Backwards(e, range, p) = Whence(e, range, p)
      <4>1. CASE p \in range.start..(range.end - 1)
        BY <4>1 DEF Whence
      <4>2. CASE ~(p \in range.start..(range.end - 1))
        <5>1. e.writes # "range"
          BY <1>4, <1>8, <2>1, <4>2
        <5>2. ~e.reverses
          BY <1>8, <5>1
        <5> QED
          BY <4>2, <5>2 DEF Whence, Backwards
      <4> QED
        BY <4>1, <4>2
    <3>4. Whence(e, range, p) \in 0..n - 1
      <4>1. Stretch(range, n)
        BY DEF n
      <4> QED
        BY <1>1, <4>1, WhenceIs
    <3>5. Whence(e, range, p) + 1 = 1 + Whence(e, range, p)
      BY <3>4
    <3> QED
      BY <3>2, <3>3, <3>5
  <2>2. CASE ~(p + 1 \in put.at + 1..put.at + w)
    <3>1. ~(p \in range.start..(range.end - 1)) /\ p + 1 \in 1..n /\ p + 1 = 1 + p
      BY <1>1, <1>4, <1>8, <2>2
    <3>2. Whence(e, range, p) = p
      BY <3>1 DEF Whence
    <3> QED
      BY <1>7, <2>2, <3>1, <3>2
  <2> QED
    BY <2>1, <2>2
<1> QED
  BY <1>3, <1>7, <1>9 DEF IsProcessed, n, s

\* And its markers.
LEMMA ProcessedHolds == ASSUME NEW e, EffectType(e), NEW doc, NEW last \in Nat, DocHolds(doc, last), NEW range, Stretch(range, Duration(doc))
  PROVE  DocHolds(Processed(e, range, doc), last) /\ Duration(Processed(e, range, doc)) = Duration(doc)
<1> DEFINE n == Duration(doc)
           s == doc.audio
           ms == doc.markers
           r == Processed(e, range, doc).audio
           markers == Unlabelled(e, range, ms)
<1>1. /\ s \in Seq(InDocument) /\ ms \in Seq(MarkerType) /\ n = Len(s) /\ n \in Nat /\ Unique(s) /\ InTime(ms)
      /\ Len(ms) \in Nat /\ DOMAIN ms = 1..Len(ms)
      /\ \A k \in 1..Len(ms) : ms[k] \in MarkerType /\ ms[k].position \in Nat /\ ms[k].position <= n
  BY DocIs
<1>2. Processed(e, range, doc) = [audio |-> r, markers |-> markers]
  BY DEF Processed
<1>3. IsProcessed(r, e, range, doc)
  BY <1>1, ProcessedIs
<1> HIDE DEF r
<1>4. r \in Seq(InDocument) /\ Len(r) = n /\ \A p \in 0..n - 1 : r[p + 1] = s[1 + Whence(e, range, p)]
  BY <1>3 DEF IsProcessed
<1>5. \A k \in 1..Len(ms) : /\ markers[k] \in MarkerType /\ markers[k].position = ms[k].position
                            /\ markers[k].at = IF e.reverses /\ ms[k].position \in range.start..(range.end - 1) THEN Lost ELSE ms[k].at
  <2> SUFFICES ASSUME NEW k \in 1..Len(ms)
               PROVE  /\ markers[k] \in MarkerType /\ markers[k].position = ms[k].position
                      /\ markers[k].at = IF e.reverses /\ ms[k].position \in range.start..(range.end - 1) THEN Lost ELSE ms[k].at
    OBVIOUS
  <2>1. ms[k] \in MarkerType
    BY <1>1
  <2>2. markers[k] = IF e.reverses /\ ms[k].position \in range.start..(range.end - 1) THEN [ms[k] EXCEPT !.at = Lost] ELSE ms[k]
    BY <1>1 DEF Unlabelled
  <2> HIDE DEF markers, ms
  <2> QED
    BY <2>1, <2>2 DEF MarkerType
<1>6. markers \in Seq(MarkerType) /\ Len(markers) = Len(ms)
  <2>1. markers \in [1..Len(ms) -> MarkerType]
    BY <1>1, <1>5 DEF Unlabelled
  <2> QED
    BY <1>1, <2>1
<1> HIDE DEF markers, n
<1>7. InTime(markers)
  BY <1>1, <1>5, <1>6 DEF InTime
<1>8. ASSUME NEW i \in 1..Len(r)
      PROVE  /\ i - 1 \in 0..n - 1 /\ 1 + Whence(e, range, i - 1) \in 1..n /\ r[i] = s[1 + Whence(e, range, i - 1)]
  <2>1. i - 1 \in 0..n - 1 /\ (i - 1) + 1 = i
    BY <1>1, <1>4
  <2>2. Stretch(range, n)
    BY DEF n
  <2>3. Whence(e, range, i - 1) \in 0..n - 1
    BY <1>1, <2>1, <2>2, WhenceIs
  <2> QED
    BY <1>1, <1>4, <2>1, <2>3
<1>9. Stretch(range, n)
  BY DEF n
<1>15. \A p \in 0..n - 1 :
         /\ Whence(e, range, p) \in Int
         /\ ~e.reverses => Whence(e, range, p) = p
         /\ ~(p \in range.start..(range.end - 1)) => Whence(e, range, p) = p
         /\ \A q \in 0..n - 1 : Whence(e, range, p) = Whence(e, range, q) => p = q
         /\ e.reverses /\ p \in range.start..(range.end - 1) => Whence(e, range, p) \in range.start..(range.end - 1)
  <2> SUFFICES ASSUME NEW p \in 0..n - 1
               PROVE  /\ Whence(e, range, p) \in Int
                      /\ ~e.reverses => Whence(e, range, p) = p
                      /\ ~(p \in range.start..(range.end - 1)) => Whence(e, range, p) = p
                      /\ \A q \in 0..n - 1 : Whence(e, range, p) = Whence(e, range, q) => p = q
                      /\ e.reverses /\ p \in range.start..(range.end - 1) => Whence(e, range, p) \in range.start..(range.end - 1)
    OBVIOUS
  <2>1. n \in Nat
    BY <1>1
  <2>2. \A q : q \in 0..n - 1 => q \in Int
    BY <2>1
  <2> QED
    BY <1>9, <2>1, <2>2, WhenceIs
<1>10. Unique(r)
  <2> SUFFICES ASSUME NEW i \in 1..Len(r), NEW j \in 1..Len(r), r[i] = r[j], r[i] # Silence PROVE i = j
    BY DEF Unique
  <2>1. 1 + Whence(e, range, i - 1) = 1 + Whence(e, range, j - 1)
    BY <1>1, <1>8 DEF Unique
  <2>2. Whence(e, range, i - 1) = Whence(e, range, j - 1)
    <3>1. Whence(e, range, i - 1) \in Int /\ Whence(e, range, j - 1) \in Int
      BY <1>1, <1>8, <1>9, <1>15
    <3> QED
      BY <2>1, <3>1
  <2>3. i - 1 \in 0..n - 1 /\ j - 1 \in 0..n - 1
    BY <1>8
  <2>4. i - 1 = j - 1
    BY <1>1, <1>9, <2>2, <2>3, <1>15
  <2> QED
    BY <2>4
<1>11. ASSUME NEW i \in 1..Len(r)
       PROVE  \/ r[i] = Silence
              \/ \E q \in 1..Len(doc.audio) :
                   /\ r[i] = doc.audio[q]
                   /\ \A k \in 1..Len(markers) : markers[k].at # Lost /\ q = doc.markers[k].position + 1 => i = markers[k].position + 1
  <2> DEFINE q == 1 + Whence(e, range, i - 1)
  <2>1. i - 1 \in 0..n - 1 /\ q \in 1..Len(s) /\ r[i] = s[q]
    BY <1>1, <1>8
  <2>2. ASSUME NEW k \in 1..Len(markers), markers[k].at # Lost, q = ms[k].position + 1 PROVE i = markers[k].position + 1
    <3>1. k \in 1..Len(ms) /\ markers[k].position = ms[k].position /\ ms[k].position \in Nat
      BY <1>1, <1>5, <1>6
    <3>2. Whence(e, range, i - 1) = ms[k].position
      <4>1. Whence(e, range, i - 1) \in Int
        BY <1>1, <1>9, <2>1, <1>15
      <4> QED
        BY <2>2, <3>1, <4>1
    <3>3. CASE ~e.reverses
      <4>1. Whence(e, range, i - 1) = i - 1
        BY <1>1, <1>9, <2>1, <3>3, <1>15
      <4> QED
        BY <3>1, <3>2, <4>1
    <3>4. CASE e.reverses
      <4>1. ~(ms[k].position \in range.start..(range.end - 1))
        BY <1>5, <2>2, <3>1, <3>4
      <4>2. ~(i - 1 \in range.start..(range.end - 1))
        <5>1. SUFFICES ASSUME i - 1 \in range.start..(range.end - 1) PROVE FALSE
          OBVIOUS
        <5>2. e.reverses /\ i - 1 \in range.start..(range.end - 1) => Whence(e, range, i - 1) \in range.start..(range.end - 1)
          BY <1>1, <1>9, <2>1, <1>15
        <5> QED
          BY <3>2, <3>4, <4>1, <5>1, <5>2
      <4>3. Whence(e, range, i - 1) = i - 1
        BY <1>1, <1>9, <2>1, <4>2, <1>15
      <4> QED
        BY <3>1, <3>2, <4>3
    <3> QED
      BY <3>3, <3>4
  <2> HIDE DEF q
  <2> QED
    BY <2>1, <2>2
<1>12. \A k \in 1..Len(markers) : markers[k].position <= Len(r) /\ markers[k].at \in {doc.markers[k].at, Lost}
  BY <1>1, <1>4, <1>5, <1>6
<1>13. MovedFrom(doc, r, markers)
  BY <1>1, <1>4, <1>6, <1>7, <1>10, <1>11, <1>12 DEF MovedFrom
<1>14. DocHolds([audio |-> r, markers |-> markers], last)
  BY <1>13, MovedHolds
<1> QED
  BY <1>2, <1>4, <1>14 DEF Duration, n

\* What processing does to each sample.
IsTouched(touched, e, range, n) ==
  \A p \in 0..n - 1 :
    /\ touched[p] = "dry" \/ touched[p] = Touch(e, range, n, p)
    /\ p \in range.start..(range.end - 1) => touched[p] = Touch(e, range, n, p)

\* It is told of every position, and of each what was done there.
LEMMA TouchedIs == ASSUME NEW e, EffectType(e), NEW doc, doc.audio \in Seq(InDocument), NEW range, Stretch(range, Duration(doc))
  PROVE  IsTouched(Touched(e, range, doc), e, range, Duration(doc))
<1> DEFINE n == Duration(doc)
           put == PutBack(e, range, doc)
           a == put.at
           w == Len(put.work)
           touched == Touched(e, range, doc)
<1>1. n \in Nat
  BY DEF Duration
<1>2. IsPutBack(put, e, range, doc)
  BY PutBackIs
<1>3. touched = [p \in 0..(n - 1) |-> IF p \in a..(a + w - 1) THEN put.work[p - a + 1].how ELSE "dry"]
  BY DEF Touched
<1> HIDE DEF touched, put, n
<1>4. /\ a \in Nat /\ a <= range.start /\ range.end <= a + w /\ a + w <= n /\ w \in Nat
      /\ \A i \in 1..w : put.work[i].how = Touch(e, range, n, a + i - 1)
  BY <1>2 DEF IsPutBack, n
<1>5. range.start \in Nat /\ range.end \in Nat
  BY DEF Stretch
<1> HIDE DEF a, w
<1>6. ASSUME NEW p \in 0..n - 1
      PROVE  /\ touched[p] = "dry" \/ touched[p] = Touch(e, range, n, p)
             /\ p \in range.start..(range.end - 1) => touched[p] = Touch(e, range, n, p)
  <2>1. touched[p] = IF p \in a..(a + w - 1) THEN put.work[p - a + 1].how ELSE "dry"
    BY <1>3
  <2>2. CASE p \in a..(a + w - 1)
    <3>1. p - a + 1 \in 1..w /\ a + (p - a + 1) - 1 = p
      BY <1>4, <2>2
    <3> QED
      BY <1>4, <2>1, <2>2, <3>1
  <2>3. CASE ~(p \in a..(a + w - 1))
    <3>1. ~(p \in range.start..(range.end - 1))
      BY <1>1, <1>4, <1>5, <2>3
    <3> QED
      BY <2>1, <2>3, <3>1
  <2> QED
    BY <2>2, <2>3
<1> QED
  BY <1>6 DEF IsTouched, touched, n

\* Nothing beyond the reach, everything in the range.
LEMMA TouchKeepsOff == ASSUME NEW e, EffectType(e), NEW n \in Nat, NEW range, Stretch(range, n), NEW p \in 0..n - 1
  PROVE  /\ p < range.start - e.reach \/ p >= range.end + e.reach => Touch(e, range, n, p) = "dry"
         /\ p \in range.start..(range.end - 1) => Touch(e, range, n, p) # "dry"
<1>1. range.start \in Nat /\ range.end \in Nat /\ e.reach \in Nat
  BY DEF Stretch, EffectType
<1>2. p \in range.start..(range.end - 1) => ~(p < range.start - e.reach \/ p >= range.end + e.reach)
  BY <1>1
<1> QED
  BY <1>2 DEF Touch

\* A blend has room in four samples.
LEMMA BlendIs == ASSUME NEW n \in Nat, NEW range, Stretch(range, n), range.end - range.start >= 4
  PROVE  Blend(range) \in Nat /\ Blend(range) >= 1
<1> DEFINE l == range.end - range.start
           d == l \div 4
<1>1. l \in Nat /\ l >= 4
  BY DEF Stretch
<1> HIDE DEF l
<1>2. d \in Nat /\ d >= 1
  BY <1>1
<1> HIDE DEF d
<1>3. SpanBlend \in Nat /\ SpanBlend >= 1
  BY CommandsAssumption
<1>4. Blend(range) = Least(SpanBlend, d)
  BY DEF Blend, d, l
<1> QED
  BY <1>2, <1>3, <1>4 DEF Least

\* So both ends of a range with audio beyond them are blended.
LEMMA EdgesBlend == ASSUME NEW e, EffectType(e), NEW n \in Nat, NEW range, Stretch(range, n), e.edges # "nowhere",
                           range.end - range.start >= 4
  PROVE  /\ range.start > 0 => Touch(e, range, n, range.start) = "blended"
         /\ range.end < n => Touch(e, range, n, range.end - 1) = "blended"
<1> DEFINE s == range.start
           t == range.end
           b == Blend(range)
<1>1. s \in Nat /\ t \in Nat /\ s < t /\ t <= n /\ e.reach \in Nat /\ e.edges \in {"both", "seams"}
  BY DEF Stretch, EffectType
<1>2. b \in Nat /\ b >= 1
  BY BlendIs
<1>3. ~(s < s - e.reach \/ s >= t + e.reach) /\ s \in s..(s + b - 1)
  BY <1>1, <1>2
<1>4. ~(t - 1 < s - e.reach \/ t - 1 >= t + e.reach) /\ t - 1 \in (t - b)..(t - 1)
  BY <1>1, <1>2
<1>5. s > 0 => Touch(e, range, n, s) = "blended"
  BY <1>1, <1>3 DEF Touch
<1>6. t < n => Touch(e, range, n, t - 1) = "blended"
  BY <1>1, <1>4 DEF Touch
<1> QED
  BY <1>5, <1>6

\* Adding to a sequence and taking from it.
LEMMA AppendIs == ASSUME NEW S, NEW s \in Seq(S), NEW x \in S PROVE Append(s, x) \in Seq(S)
OBVIOUS

\* All but the last element, and the last.
LEMMA FrontIs == ASSUME NEW S, NEW s \in Seq(S), s # <<>> PROVE Front(s) \in Seq(S) /\ Last(s) \in S
<1>1. Len(s) \in Nat /\ Len(s) >= 1 /\ Len(s) \in 1..Len(s)
  OBVIOUS
<1>2. 0 \in Nat /\ Len(s) - 1 \in Nat /\ 0 <= Len(s) - 1 /\ Len(s) - 1 <= Len(s)
  BY <1>1
<1>3. Part(s, 0, Len(s) - 1) \in Seq(S)
  BY <1>2, PartIs
<1>4. Front(s) = Part(s, 0, Len(s) - 1)
  BY DEF Front, Part
<1> QED
  BY <1>1, <1>3, <1>4 DEF Last

\* All but the first element, and the first.
LEMMA TailIs == ASSUME NEW S, NEW s \in Seq(S), s # <<>> PROVE Tail(s) \in Seq(S) /\ Head(s) \in S
OBVIOUS

\* One element before the others.
LEMMA BeforeIs == ASSUME NEW S, NEW s \in Seq(S), NEW x \in S PROVE <<x>> \o s \in Seq(S)
OBVIOUS
-------------------------------------------------------------------------------
(* Markers.                                                                  *)

\* A function is a sequence.
LEMMA SeqIs == ASSUME NEW S, NEW m \in Nat, NEW f \in [1..m -> S] PROVE f \in Seq(S) /\ Len(f) = m
<1>1. f \in Seq(S)
  OBVIOUS
<1>2. DOMAIN f = 1..m /\ DOMAIN f = 1..Len(f) /\ Len(f) \in Nat
  BY <1>1
<1> QED
  BY <1>1, <1>2

\* Other markers on the same audio.
LEMMA MarkersHold == ASSUME NEW doc, NEW last \in Nat, DocHolds(doc, last), NEW markers, markers \in Seq(MarkerType), InTime(markers),
                            \A k \in 1..Len(markers) : OnItsSample(markers[k], doc.audio) /\ Until(markers[k].at, last)
  PROVE  DocHolds([audio |-> doc.audio, markers |-> markers], last)
<1>1. doc.audio \in Seq(InDocument) /\ Unique(doc.audio)
  BY DocIs
<1>2. [audio |-> doc.audio, markers |-> markers] \in Doc
  BY <1>1 DEF Doc
<1> QED
  BY <1>1, <1>2 DEF DocHolds

\* In order of time.
LEMMA ArrangedIs == ASSUME NEW ms \in Seq(MarkerType), NEW markers \in Arranged(ms)
  PROVE  /\ markers \in Seq(MarkerType) /\ Len(markers) = Len(ms) /\ InTime(markers)
         /\ \A k \in 1..Len(markers) : \E q \in 1..Len(ms) : markers[k] = ms[q]
<1>1. Len(ms) \in Nat /\ DOMAIN ms = 1..Len(ms)
  OBVIOUS
<1>2. PICK p \in Bijection(1..Len(ms), 1..Len(ms)) : markers = [i \in 1..Len(ms) |-> ms[p[i]]]
  BY <1>1 DEF Arranged
<1>3. \A i \in 1..Len(ms) : p[i] \in 1..Len(ms)
  BY DEF Bijection, Injection
<1>4. \A i \in 1..Len(ms) : markers[i] = ms[p[i]] /\ ms[p[i]] \in MarkerType
  BY <1>2, <1>3
<1>5. markers \in [1..Len(ms) -> MarkerType]
  BY <1>2, <1>4
<1>6. markers \in Seq(MarkerType) /\ Len(markers) = Len(ms)
  BY <1>1, <1>5
<1>7. \A i, j \in DOMAIN ms : i < j => markers[i].position <= markers[j].position
  BY DEF Arranged
<1> QED
  BY <1>1, <1>3, <1>4, <1>6, <1>7 DEF InTime

\* A marker that is put somewhere is on what is there.
LEMMA NewMarkerIs == ASSUME NEW doc, NEW last \in Nat, DocHolds(doc, last), NEW p \in Nat, p <= Duration(doc), NEW l \in Nat
  PROVE  LET m == [position |-> p, length |-> l, at |-> SampleAt(doc, p)] IN
         m \in MarkerType /\ OnItsSample(m, doc.audio) /\ Until(m.at, last)
<1> DEFINE n == Duration(doc)
           s == doc.audio
           x == SampleAt(doc, p)
           m == [position |-> p, length |-> l, at |-> x]
<1>1. s \in Seq(InDocument) /\ n = Len(s) /\ n \in Nat /\ Unique(s) /\ \A i \in 1..n : s[i] \in InDocument /\ Until(s[i], last)
  BY DocIs
<1>2. x = IF p < n THEN s[p + 1] ELSE Lost
  BY DEF SampleAt
<1>3. Lost \notin InDocument /\ Lost # Silence /\ Lost \notin Sample
  BY CommandsAssumption DEF InDocument, Sample
<1> HIDE DEF n, s, x
<1>4. CASE p < n
  <2>1. p + 1 \in 1..n /\ x = s[p + 1]
    BY <1>1, <1>2, <1>4
  <2>2. x \in InDocument /\ Until(x, last)
    BY <1>1, <2>1
  <2>3. \A i \in 1..n : s[i] = x /\ x # Silence => i = p + 1
    BY <1>1, <2>1 DEF Unique
  <2>4. m \in MarkerType
    BY <2>2 DEF MarkerType, InDocument
  <2> QED
    BY <1>1, <1>4, <2>2, <2>3, <2>4 DEF OnItsSample, x, s, n
<1>5. CASE ~(p < n)
  <2>1. x = Lost
    BY <1>2, <1>5
  <2>2. \A i \in 1..n : s[i] # x
    BY <1>1, <1>3, <2>1
  <2>3. m \in MarkerType
    BY <2>1 DEF MarkerType
  <2>4. Until(x, last)
    BY <1>3, <2>1 DEF Until
  <2> QED
    BY <1>1, <2>2, <2>3, <2>4 DEF OnItsSample, x, s, n
<1> QED
  BY <1>4, <1>5

\* One marker less.
LEMMA OneLess == ASSUME NEW doc, NEW last \in Nat, DocHolds(doc, last), NEW n, n = Len(doc.markers), NEW found \in 1..n,
                        NEW markers, markers = [i \in 1..n - 1 |-> doc.markers[IF i < found THEN i ELSE i + 1]]
  PROVE  DocHolds([audio |-> doc.audio, markers |-> markers], last)
<1> DEFINE ms == doc.markers
           At(i) == IF i < found THEN i ELSE i + 1
<1>1. /\ ms \in Seq(MarkerType) /\ n \in Nat /\ InTime(ms)
      /\ \A k \in 1..n : ms[k] \in MarkerType /\ OnItsSample(ms[k], doc.audio) /\ Until(ms[k].at, last) /\ ms[k].position \in Nat
  BY DocIs
<1>2. n - 1 \in Nat /\ \A i \in 1..n - 1 : At(i) \in 1..n
  BY <1>1
<1>3. \A i \in 1..n - 1 : markers[i] = ms[At(i)]
  OBVIOUS
<1>4. \A i, j \in 1..n - 1 : i < j => At(i) < At(j)
  BY <1>1
<1> HIDE DEF At, ms
<1>5. markers \in [1..n - 1 -> MarkerType]
  BY <1>1, <1>2, <1>3
<1>6. markers \in Seq(MarkerType) /\ Len(markers) = n - 1
  <2> DEFINE m == n - 1
  <2>1. m \in Nat /\ markers \in [1..m -> MarkerType]
    BY <1>2, <1>5
  <2> HIDE DEF m
  <2>2. markers \in Seq(MarkerType) /\ Len(markers) = m
    BY <2>1, SeqIs
  <2> QED
    BY <2>2 DEF m
<1>7. InTime(markers)
  <2> SUFFICES ASSUME NEW i \in 1..n - 1, NEW j \in 1..n - 1, i < j PROVE markers[i].position <= markers[j].position
    BY <1>6 DEF InTime
  <2>1. At(i) \in 1..n /\ At(j) \in 1..n /\ At(i) < At(j) /\ markers[i] = ms[At(i)] /\ markers[j] = ms[At(j)]
    BY <1>2, <1>3, <1>4
  <2>2. \A a, b \in 1..n : a < b => ms[a].position <= ms[b].position
    BY <1>1 DEF InTime, ms
  <2> QED
    BY <2>1, <2>2
<1>8. \A k \in 1..Len(markers) : OnItsSample(markers[k], doc.audio) /\ Until(markers[k].at, last)
  BY <1>1, <1>2, <1>3, <1>6
<1> QED
  BY <1>6, <1>7, <1>8, MarkersHold


\* A set of naturals with anything in it has a least element.
LEMMA LeastOfAll == ASSUME NEW S, S \subseteq Nat, S # {}
  PROVE  \E x \in S : \A y \in S : x <= y
<1>1. IsWellFoundedOn(OpToRel(<, Nat), Nat)
  BY NatLessThanWellFounded
<1>2. PICK x \in S : \A y \in S : ~(<<y, x>> \in OpToRel(<, Nat))
  BY <1>1, WFMin
<1>3. \A y \in S : y < x => <<y, x>> \in OpToRel(<, Nat)
  BY DEF OpToRel
<1>4. \A y \in S : ~(y < x)
  BY <1>2, <1>3, Zenon
<1>5. \A y \in S : x <= y
  BY <1>4
<1> QED
  BY <1>5

\* The first and the last marker of some kind is a marker.
LEMMA FirstAndLast == ASSUME NEW I, NEW n \in Nat, I \subseteq 1..n, I # {} PROVE Min(I) \in I /\ Max(I) \in I
<1>1. \E x \in I : \A y \in I : x <= y
  <2>1. I \subseteq Nat
    OBVIOUS
  <2> QED
    BY <2>1, LeastOfAll
<1>2. \E x \in I : \A y \in I : x >= y
  <2> DEFINE J == {n - x : x \in I}
  <2>0. \A x \in I : n - x \in Nat
    OBVIOUS
  <2>1. J \subseteq Nat /\ J # {}
    BY <2>0
  <2>2. PICK j \in J : \A k \in J : j <= k
    BY <2>1, LeastOfAll
  <2>3. PICK x \in I : j = n - x
    OBVIOUS
  <2>4. ASSUME NEW y \in I PROVE x >= y
    <3>1. n - y \in J /\ x \in Nat /\ y \in Nat
      OBVIOUS
    <3>2. n - x <= n - y
      BY <2>2, <2>3, <3>1
    <3> QED
      BY <3>1, <3>2
  <2> QED
    BY <2>4
<1>3. Min(I) \in I
  BY <1>1 DEF Min
<1>4. Max(I) \in I
  BY <1>2 DEF Max
<1> QED
  BY <1>3, <1>4

\* What is found among the markers is one of them, or nothing.
LEMMA FoundIs == ASSUME NEW I, NEW n \in Nat, I \subseteq 1..n
  PROVE  (IF I # {} THEN Min(I) ELSE 0) \in 0..n /\ (IF I # {} THEN Max(I) ELSE 0) \in 0..n
<1>1. 0 \in 0..n /\ \A i \in I : i \in 0..n
  OBVIOUS
<1>2. CASE I = {}
  BY <1>1, <1>2
<1>3. CASE I # {}
  <2>1. Min(I) \in I /\ Max(I) \in I
    BY <1>3, FirstAndLast
  <2> QED
    BY <1>1, <1>3, <2>1
<1> QED
  BY <1>2, <1>3

\* The nearest marker, the next and the one before are markers, or there is none.
LEMMA MarkersFound == ASSUME Len(document.markers) \in Nat
  PROVE  /\ nearestMarker \in 0..Len(document.markers) /\ Ahead \in 0..Len(document.markers)
         /\ Behind \in 0..Len(document.markers)
<1> DEFINE n == Len(document.markers)
           Near == {i \in 1..n : \A j \in DOMAIN document.markers :
                                   Apart(document.markers[i].position, selection.start) <= Apart(document.markers[j].position, selection.start)}
           After == {i \in 1..n : document.markers[i].position > selection.start}
           Before == {i \in 1..n : document.markers[i].position < selection.start}
<1>1. nearestMarker = IF Near # {} THEN Min(Near) ELSE 0
  BY Zenon DEF nearestMarker, SelectInSeq
<1>2. Ahead = IF After # {} THEN Min(After) ELSE 0
  BY Zenon DEF Ahead, SelectInSeq
<1>3. Behind = IF Before # {} THEN Max(Before) ELSE 0
  BY Zenon DEF Behind, SelectLastInSeq
<1>4. Near \subseteq 1..n /\ After \subseteq 1..n /\ Before \subseteq 1..n
  OBVIOUS
<1> HIDE DEF Near, After, Before, n
<1>5. n \in Nat
  BY DEF n
<1>6. /\ (IF Near # {} THEN Min(Near) ELSE 0) \in 0..n
      /\ (IF After # {} THEN Min(After) ELSE 0) \in 0..n
      /\ (IF Before # {} THEN Max(Before) ELSE 0) \in 0..n
  BY <1>4, <1>5, FoundIs
<1> QED
  BY <1>1, <1>2, <1>3, <1>6 DEF n
-------------------------------------------------------------------------------
(* The invariant.                                                            *)

\* The documents there can be by then; what can be selected in one.
Docs(last) == {doc \in Doc : DocHolds(doc, last)}
Selected(range, n) == range.start \in Nat /\ range.end \in Nat /\ range.start <= range.end /\ range.end <= n

\* The inductive invariant: every document, also of the levels of the history, is
\* one whose markers are in their place; what is selected is in the document; and
\* what was last done was done as it should be.
DocumentsHold == /\ commands \in Nat /\ document \in Docs(commands) /\ past \in Seq(Docs(commands)) /\ future \in Seq(Docs(commands))
                 /\ Selected(selection, Duration(document)) /\ playing \in {"no", "current"}
DoneHolds == OnlyTheTargetChanges /\ EdgesAreBlended /\ CutsCanBePasted /\ ExportsAreWhole /\ ScriptsStopAtARefusal
CommandsInv == DocumentsHold /\ clipboard.audio \in Seq(InDocument) /\ MenusAreCurrent /\ DoneHolds

\* What could be a document can be one later.
LEMMA LaterDocs == ASSUME NEW last \in Nat PROVE Docs(last) \subseteq Docs(last + 1) /\ Seq(Docs(last)) \subseteq Seq(Docs(last + 1))
<1>1. Docs(last) \subseteq Docs(last + 1)
  BY LaterHolds DEF Docs
<1> QED
  BY <1>1, SeqMonotonic

\* To be one of the documents there can be is to hold.
LEMMA DocsAre == ASSUME NEW last, NEW doc PROVE doc \in Docs(last) <=> DocHolds(doc, last)
BY DEF Docs, DocHolds

\* A range that is clamped to a document is a selection of it.
LEMMA ClampedIs == ASSUME NEW range, range.start \in Nat, range.end \in Nat, range.start <= range.end, NEW doc, Duration(doc) \in Nat
  PROVE  Selected(Clamped(range, doc), Duration(doc))
<1> DEFINE s == range.start
           t == range.end
           n == Duration(doc)
<1>1. s \in Nat /\ t \in Nat /\ s <= t /\ n \in Nat
  OBVIOUS
<1>2. Clamped(range, doc).start = Least(s, n) /\ Clamped(range, doc).end = Least(t, n)
  BY DEF Clamped
<1> HIDE DEF s, t, n
<1>3. Least(s, n) \in Nat /\ Least(t, n) \in Nat /\ Least(s, n) <= Least(t, n) /\ Least(t, n) <= n
  BY <1>1 DEF Least
<1> QED
  BY <1>2, <1>3 DEF Selected, n

\* A document has a length.
LEMMA DocDuration == ASSUME NEW last, NEW doc \in Docs(last) PROVE Duration(doc) \in Nat
BY DocsAre, DocIs

\* What an edit keeps.
LEMMA EditKeepsDocuments == ASSUME DocumentsHold, Command, NEW after, after \in Docs(commands + 1),
                          NEW selected, selected.start \in Nat, selected.end \in Nat, selected.start <= selected.end,
                          applyEdit(after, selected)
  PROVE  DocumentsHold'
<1>1. commands \in Nat /\ commands' = commands + 1 /\ commands + 1 \in Nat
  BY DEF DocumentsHold, Command
<1>2. document \in Docs(commands + 1) /\ past \in Seq(Docs(commands + 1))
  BY <1>1, LaterDocs DEF DocumentsHold
<1>3. document' = after /\ past' = Append(past, document) /\ future' = <<>> /\ selection' = Clamped(selected, after) /\ playing' = "no"
  BY DEF applyEdit
<1>4. Append(past, document) \in Seq(Docs(commands + 1))
  BY <1>2, AppendIs
<1>5. Selected(Clamped(selected, after), Duration(after))
  BY DocDuration, ClampedIs
<1>6. <<>> \in Seq(Docs(commands + 1))
  OBVIOUS
<1>7. commands' \in Nat /\ document' \in Docs(commands') /\ past' \in Seq(Docs(commands')) /\ future' \in Seq(Docs(commands'))
  BY <1>1, <1>3, <1>4, <1>6
<1>8. Selected(selection', Duration(document'))
  BY <1>3, <1>5
<1> QED
  BY <1>3, <1>7, <1>8 DEF DocumentsHold

\* And what keeps the document.
LEMMA UneditedKeeps == ASSUME DocumentsHold, commands' \in {commands, commands + 1}, UNCHANGED <<document, past, future>>,
                              playing' \in {"no", "current"}, Selected(selection', Duration(document))
  PROVE  DocumentsHold'
<1>1. commands \in Nat /\ commands' \in Nat
  BY DEF DocumentsHold
<1>2. document \in Docs(commands') /\ past \in Seq(Docs(commands')) /\ future \in Seq(Docs(commands'))
  BY <1>1, LaterDocs DEF DocumentsHold
<1>3. document' = document /\ past' = past /\ future' = future
  OBVIOUS
<1>4. Duration(document') = Duration(document)
  BY <1>3
<1>5. document' \in Docs(commands') /\ past' \in Seq(Docs(commands')) /\ future' \in Seq(Docs(commands')) /\ Selected(selection', Duration(document'))
  BY <1>2, <1>3, <1>4
<1> QED
  BY <1>1, <1>5 DEF DocumentsHold

\* What is told of a command that is no effect, no cut, no trim and no export.
LEMMA QuietHolds == ASSUME NEW name, NEW says, NEW what, Report(Told(name, says, what)), scriptExit = "running", batch' = batch,
                           name \notin DOMAIN Effects \cup {"cut", "trim", "export"},
                           name \in {"nothing", "failed"} => document' = document /\ past' = past,
                           name = "nothing" => halfChanged' = halfChanged, name \in {"undo", "redo"} => ~halfChanged'
  PROVE  DoneHolds'
<1>1. done' = [name |-> name, says |-> says, was |-> document, range |-> targetRange, what |-> what,
               levels |-> Len(past), half |-> halfChanged]
  BY DEF Report, Told
<1>2. done'.name = name /\ done'.says = says /\ done'.was = document /\ done'.levels = Len(past) /\ done'.half = halfChanged
  BY <1>1
<1>3. scriptExit' = IF batch /\ ~done'.says THEN (IF done'.name = "export" THEN "1" ELSE "2") ELSE scriptExit
  BY <1>1 DEF Report
<1>4. OnlyTheTargetChanges' /\ EdgesAreBlended'
  BY <1>2 DEF OnlyTheTargetChanges, EdgesAreBlended
<1>5. CutsCanBePasted' /\ ExportsAreWhole'
  BY <1>2 DEF CutsCanBePasted, ExportsAreWhole
<1>6. ScriptsStopAtARefusal'
  BY <1>2, <1>3 DEF ScriptsStopAtARefusal
<1> QED
  BY <1>4, <1>5, <1>6 DEF DoneHolds

\* The menus, where nothing they show has changed.
LEMMA MenusStay == ASSUME MenusAreCurrent, UNCHANGED <<document, past, future, selection, clipboard, learned, enabled>>
  PROVE  MenusAreCurrent'
BY DEF MenusAreCurrent, Offered, hasDocument, Duration, IsEmpty

\* The names of the commands that are no effect, no cut, no trim and no export.
LEMMA NoteNames ==
  /\ "nothing" \notin DOMAIN Effects \cup {"cut", "trim", "export"}
  /\ \A name \in {"stretch", "copy", "delete", "paste", "undo", "redo", "mark", "rename", "unmark", "clear", "walk", "select", "learn",
                  "settings", "play", "none"} : name \notin DOMAIN Effects \cup {"cut", "trim", "export"} /\ name \notin {"nothing", "failed"}
  /\ \A name \in {"nothing", "failed", "copy", "paste", "walk", "select", "learn", "settings", "play"} :
       name \notin DOMAIN Effects \cup {"cut", "trim", "export", "undo", "redo"}
BY DEF Effects
-------------------------------------------------------------------------------
(* The commands.                                                             *)

\* What is selected, and what is the target.
LEMMA TargetIs == ASSUME DocumentsHold
  PROVE  /\ selection.start \in Nat /\ selection.end \in Nat /\ selection.start <= selection.end
         /\ selection.end <= Duration(document) /\ Duration(document) \in Nat /\ DocHolds(document, commands) /\ commands \in Nat
         /\ document.audio \in Seq(InDocument) /\ Len(document.markers) \in Nat
         /\ ~IsEmpty(selection) => Stretch(selection, Duration(document))
         /\ ~IsEmpty(targetRange) => Stretch(targetRange, Duration(document))
<1>1. /\ selection.start \in Nat /\ selection.end \in Nat /\ selection.start <= selection.end /\ selection.end <= Duration(document)
      /\ document \in Docs(commands) /\ commands \in Nat
  BY DEF DocumentsHold, Selected
<1>2. Duration(document) \in Nat /\ DocHolds(document, commands)
  BY <1>1, DocDuration, DocsAre
<1>3. document.audio \in Seq(InDocument) /\ Len(document.markers) \in Nat
  BY <1>2, DocIs
<1>4. ~IsEmpty(selection) => Stretch(selection, Duration(document))
  BY <1>1, <1>2 DEF IsEmpty, Stretch
<1>5. ~IsEmpty(targetRange) => Stretch(targetRange, Duration(document))
  <2>1. CASE IsEmpty(selection)
    <3>1. targetRange = [start |-> 0, end |-> Duration(document)]
      BY <2>1 DEF targetRange
    <3>2. targetRange.start = 0 /\ targetRange.end = Duration(document)
      BY <3>1
    <3> QED
      BY <1>2, <3>2 DEF IsEmpty, Stretch
  <2>2. CASE ~IsEmpty(selection)
    BY <1>4, <2>2 DEF targetRange
  <2> QED
    BY <2>1, <2>2
<1> QED
  BY <1>1, <1>2, <1>3, <1>4, <1>5

\* A command that changes nothing.
LEMMA NothingKeeps == ASSUME CommandsInv, Command, Unedited, UNCHANGED <<clipboard, learned, batch>>,
                             NEW name, NEW says, NEW what, Report(Told(name, says, what)),
                             name \notin DOMAIN Effects \cup {"cut", "trim", "export"}, name \notin {"undo", "redo"}
  PROVE  CommandsInv'
<1>1. /\ UNCHANGED <<document, past, future, halfChanged>> /\ selection' = selection /\ playing' = playing /\ enabled' = enabled
      /\ commands' \in {commands, commands + 1} /\ scriptExit = "running" /\ batch' = batch
  BY DEF Command, Unedited
<1>2. DocumentsHold'
  <2>1. playing' \in {"no", "current"} /\ Selected(selection', Duration(document))
    BY <1>1 DEF CommandsInv, DocumentsHold
  <2>2. DocumentsHold
    BY DEF CommandsInv
  <2> QED
    BY <1>1, <2>1, <2>2, UneditedKeeps
<1>3. MenusAreCurrent'
  BY <1>1, MenusStay DEF CommandsInv
<1>4. document' = document /\ past' = past /\ halfChanged' = halfChanged
  BY <1>1
<1>5. DoneHolds'
  BY <1>1, <1>4, QuietHolds
<1> QED
  BY <1>2, <1>3, <1>5 DEF CommandsInv

\* A verb nobody knows changes nothing.
LEMMA UnknownKeeps == ASSUME CommandsInv, unknown PROVE CommandsInv'
<1>1. Command /\ Unedited /\ UNCHANGED <<clipboard, learned, batch>> /\ Report(Told("nothing", FALSE, "no more"))
  BY DEF unknown, Kept, Settled, Note
<1> QED
  BY <1>1, NoteNames, NothingKeeps

\* A preference changes no document.
LEMMA ChooseKeeps == ASSUME CommandsInv, NEW settings, choose(settings) PROVE CommandsInv'
<1>1. Command /\ Unedited /\ UNCHANGED <<clipboard, learned, batch>> /\ Report(Told("settings", TRUE, "no more"))
  BY DEF choose, Settled, Note
<1> QED
  BY <1>1, NoteNames, NothingKeeps

\* A command that changes what is selected, learned, copied or played.
LEMMA SelectionKeeps == ASSUME CommandsInv, Command, UNCHANGED <<document, past, future, batch>>, playing' \in {"no", "current"},
                               Selected(selection', Duration(document)), clipboard'.audio \in Seq(InDocument), refreshActions,
                               NEW name, NEW says, NEW what, Report(Told(name, says, what)),
                               name \notin DOMAIN Effects \cup {"cut", "trim", "export"}, name \notin {"nothing", "failed", "undo", "redo"}
  PROVE  CommandsInv'
<1>1. commands' \in {commands, commands + 1} /\ scriptExit = "running" /\ batch' = batch /\ document' = document
  BY DEF Command
<1>2. DocumentsHold'
  <2>1. DocumentsHold
    BY DEF CommandsInv
  <2> QED
    BY <1>1, <2>1, UneditedKeeps
<1>3. MenusAreCurrent'
  BY DEF refreshActions, MenusAreCurrent
<1>4. DoneHolds'
  BY <1>1, QuietHolds
<1> QED
  BY <1>2, <1>3, <1>4 DEF CommandsInv

\* Learning the noise changes what the menus offer, and they are told.
LEMMA LearnKeeps == ASSUME CommandsInv, NEW readable, NEW clean, learnNoiseProfile(readable, clean) PROVE CommandsInv'
<1>1. /\ Command /\ UNCHANGED <<document, past, future, batch>> /\ selection' = selection /\ playing' = playing /\ clipboard' = clipboard
      /\ refreshActions /\ Report(Told("learn", TRUE, "no more"))
  BY DEF learnNoiseProfile, Settled, Note
<1>2. playing' \in {"no", "current"} /\ Selected(selection', Duration(document)) /\ clipboard'.audio \in Seq(InDocument)
  BY <1>1 DEF CommandsInv, DocumentsHold
<1> QED
  BY <1>1, <1>2, NoteNames, SelectionKeeps

\* A copy is a part of the document.
LEMMA CopySelectionKeeps == ASSUME CommandsInv, NEW readable, copySelection(readable) PROVE CommandsInv'
<1>1. /\ Command /\ UNCHANGED <<document, past, future, batch>> /\ selection' = selection /\ playing' = playing
      /\ clipboard' = Copied(readable) /\ refreshActions /\ Report(Told("copy", TRUE, "no more"))
  BY DEF copySelection, Settled, Note
<1>2. playing' \in {"no", "current"} /\ Selected(selection', Duration(document)) /\ clipboard.audio \in Seq(InDocument)
  BY <1>1 DEF CommandsInv, DocumentsHold
<1>3. /\ selection.start \in Nat /\ selection.end \in Nat /\ selection.start <= selection.end
      /\ selection.end <= Len(document.audio) /\ document.audio \in Seq(InDocument)
  BY TargetIs DEF CommandsInv, Duration
<1>4. Part(document.audio, selection.start, selection.end) \in Seq(InDocument)
  BY <1>3, PartIs
<1>5. Copied(readable).audio \in Seq(InDocument)
  BY <1>2, <1>4 DEF Copied
<1> QED
  BY <1>1, <1>2, <1>5, NoteNames, SelectionKeeps

\* A selection that is clamped can be kept.
LEMMA SelectsIs == ASSUME CommandsInv, Command, NEW range, range.start \in Nat, range.end \in Nat, range.start <= range.end,
                          NEW name, NEW says, NEW what, Select(range, Told(name, says, what)),
                          name \notin DOMAIN Effects \cup {"cut", "trim", "export"}, name \notin {"nothing", "failed", "undo", "redo"}
  PROVE  CommandsInv'
<1>1. /\ UNCHANGED <<document, past, future, batch>> /\ selection' = Clamped(range, document) /\ playing' = playing
      /\ clipboard' = clipboard /\ refreshActions /\ Report(Told(name, says, what))
  BY DEF Select, Kept, Settled
<1>2. Duration(document) \in Nat
  BY TargetIs DEF CommandsInv
<1>3. Selected(selection', Duration(document))
  BY <1>1, <1>2, ClampedIs
<1>4. playing' \in {"no", "current"} /\ clipboard'.audio \in Seq(InDocument)
  BY <1>1 DEF CommandsInv, DocumentsHold
<1> QED
  BY <1>1, <1>3, <1>4, SelectionKeeps

\* Any range can be selected.
LEMMA SelectKeeps == ASSUME CommandsInv, NEW range, range.start \in Nat, range.end \in Nat, range.start <= range.end, select(range)
  PROVE  CommandsInv'
<1>1. Command /\ Select(range, Told("select", TRUE, "no more"))
  BY DEF select, Note
<1> QED
  BY <1>1, NoteNames, SelectsIs

\* Through seconds and back, what came before comes no later.
LEMMA ThroughIs == ASSUME NEW p \in Nat, NEW q \in Nat
  PROVE  ThroughSeconds(p) \in Nat /\ (p < q => ThroughSeconds(p) <= ThroughSeconds(q))
<1>1. \A r \in Nat : r \in Short => r - 1 \in Nat
  BY CommandsAssumption
<1> QED
  BY <1>1 DEF ThroughSeconds

\* A walk ends at a marker, which is in the document, or where it began.
LEMMA WalkKeeps == ASSUME CommandsInv, NEW forwards, goToMarker(forwards) PROVE CommandsInv'
<1> DEFINE found == IF forwards THEN Ahead ELSE Behind
           n == Len(document.markers)
           marker == document.markers[found]
           what == [from |-> selection.start, forwards |-> forwards, found |-> found # 0]
           start == ThroughSeconds(marker.position)
           end == IF marker.length > 0 THEN ThroughSeconds(marker.position + marker.length) ELSE start
           range == [start |-> start, end |-> end]
<1>1. n \in Nat /\ DocHolds(document, commands) /\ selection.start \in Nat /\ selection.end \in Nat /\ selection.start <= selection.end
  BY TargetIs DEF CommandsInv
<1>2. found \in 0..n
  BY <1>1, MarkersFound
<1>3. /\ Command
      /\ IF found = 0 THEN Select(selection, Told("walk", TRUE, what)) ELSE Select(range, Told("walk", TRUE, what))
  BY DEF goToMarker
<1> HIDE DEF found, what
<1>4. CASE found = 0
  BY <1>1, <1>3, <1>4, NoteNames, SelectsIs
<1>5. CASE found # 0
  <2>1. found \in 1..n
    BY <1>1, <1>2, <1>5
  <2>2. marker.position \in Nat /\ marker.length \in Nat
    <3>1. document.markers[found] \in MarkerType
      BY <1>1, <2>1, DocIs
    <3> QED
      BY <3>1 DEF MarkerType
  <2>3. start \in Nat /\ end \in Nat /\ start <= end
    <3> DEFINE p == marker.position
               l == marker.length
    <3> HIDE DEF p, l
    <3>1. p \in Nat /\ l \in Nat /\ p + l \in Nat /\ (l > 0 => p < p + l)
      BY <2>2 DEF p, l
    <3>2. ThroughSeconds(p) \in Nat /\ ThroughSeconds(p + l) \in Nat /\ (l > 0 => ThroughSeconds(p) <= ThroughSeconds(p + l))
      BY <3>1, ThroughIs
    <3>3. start = ThroughSeconds(p) /\ end = IF l > 0 THEN ThroughSeconds(p + l) ELSE ThroughSeconds(p)
      BY DEF p, l
    <3> QED
      BY <3>2, <3>3
  <2>4. range.start \in Nat /\ range.end \in Nat /\ range.start <= range.end
    BY <2>3
  <2>5. Select(range, Told("walk", TRUE, what))
    BY <1>3, <1>5
  <2> HIDE DEF range
  <2> QED
    BY <1>3, <2>4, <2>5, NoteNames, SelectsIs
<1> QED
  BY <1>4, <1>5

\* Playback is of the document there is.
LEMMA PlayKeeps == ASSUME CommandsInv, NEW opens, togglePlayback(opens) PROVE CommandsInv'
<1>1. /\ Command /\ UNCHANGED <<document, past, future>> /\ selection' = selection /\ enabled' = enabled
      /\ UNCHANGED <<clipboard, learned>> /\ batch' = batch /\ Report(Told("play", TRUE, "no more"))
  BY DEF togglePlayback, Kept, Settled, Note
<1>2. playing' \in {"no", "current"}
  BY DEF togglePlayback
<1>3. commands' \in {commands, commands + 1} /\ scriptExit = "running"
  BY <1>1 DEF Command
<1>4. DocumentsHold'
  <2>1. DocumentsHold /\ Selected(selection', Duration(document))
    BY <1>1 DEF CommandsInv, DocumentsHold
  <2> QED
    BY <1>1, <1>2, <1>3, <2>1, UneditedKeeps
<1>5. MenusAreCurrent'
  BY <1>1, MenusStay DEF CommandsInv
<1>6. DoneHolds'
  <2>1. "play" \notin DOMAIN Effects \cup {"cut", "trim", "export"} /\ "play" \notin {"nothing", "failed", "undo", "redo"}
    BY NoteNames
  <2> QED
    BY <1>1, <1>3, <2>1, QuietHolds
<1> QED
  BY <1>1, <1>4, <1>5, <1>6 DEF CommandsInv

\* What is no command: playback comes to its end, and the script.
LEMMA EndsKeep == ASSUME CommandsInv, NEW complete, followPlayhead \/ endBatch(complete) PROVE CommandsInv'
<1>1. /\ UNCHANGED <<document, past, future, halfChanged, clipboard, learned, enabled, batch, done>> /\ selection' = selection /\ commands' = commands
      /\ playing' = "no" /\ (scriptExit' = scriptExit \/ (batch /\ scriptExit = "running"))
  BY DEF followPlayhead, endBatch, Kept, Settled
<1>2. DocumentsHold'
  <2>1. DocumentsHold /\ Selected(selection', Duration(document))
    BY <1>1 DEF CommandsInv, DocumentsHold
  <2> QED
    BY <1>1, <2>1, UneditedKeeps
<1>3. MenusAreCurrent'
  BY <1>1, MenusStay DEF CommandsInv
<1>4. OnlyTheTargetChanges' /\ EdgesAreBlended'
  BY <1>1 DEF CommandsInv, DoneHolds, OnlyTheTargetChanges, EdgesAreBlended, Duration
<1>5. CutsCanBePasted' /\ ExportsAreWhole'
  BY <1>1 DEF CommandsInv, DoneHolds, CutsCanBePasted, ExportsAreWhole
<1>6. ScriptsStopAtARefusal'
  BY <1>1 DEF CommandsInv, DoneHolds, ScriptsStopAtARefusal
<1> QED
  BY <1>1, <1>2, <1>3, <1>4, <1>5, <1>6 DEF CommandsInv, DoneHolds

\* A command that edits, and tells no more of it.
LEMMA EditedKeeps == ASSUME CommandsInv, Command, NEW after, DocHolds(after, commands + 1),
                            NEW selected, selected.start \in Nat, selected.end \in Nat, selected.start <= selected.end,
                            applyEdit(after, selected), clipboard' = clipboard, batch' = batch, refreshActions,
                            NEW name, NEW says, NEW what, Report(Told(name, says, what)),
                            name \notin DOMAIN Effects \cup {"cut", "trim", "export"}, name \notin {"nothing", "failed"}
  PROVE  CommandsInv'
<1>1. DocumentsHold'
  <2>1. DocumentsHold /\ after \in Docs(commands + 1)
    BY DocsAre DEF CommandsInv
  <2> QED
    BY <2>1, EditKeepsDocuments
<1>2. MenusAreCurrent'
  BY DEF refreshActions, MenusAreCurrent
<1>3. DoneHolds'
  <2>1. scriptExit = "running" /\ ~halfChanged'
    BY DEF Command, applyEdit
  <2> QED
    BY <2>1, QuietHolds
<1> QED
  BY <1>1, <1>2, <1>3 DEF CommandsInv

\* The selection as it was.
LEMMA EditedThere == ASSUME CommandsInv, Command, NEW after, DocHolds(after, commands + 1), applyEdit(after, selection),
                            clipboard' = clipboard, batch' = batch, refreshActions,
                            NEW name, NEW says, NEW what, Report(Told(name, says, what)),
                            name \notin DOMAIN Effects \cup {"cut", "trim", "export"}, name \notin {"nothing", "failed"}
  PROVE  CommandsInv'
<1>1. \E selected : selected = selection
  OBVIOUS
<1>2. PICK selected : selected = selection
  BY <1>1
<1>3. selected.start \in Nat /\ selected.end \in Nat /\ selected.start <= selected.end /\ applyEdit(after, selected)
  BY <1>2, TargetIs DEF CommandsInv
<1> QED
  BY <1>3, EditedKeeps

\* What is fresh is new.
LEMMA FreshIs == ASSUME commands \in Nat, NEW count \in Nat PROVE NewSamples(Fresh(count), commands) /\ Len(Fresh(count)) = count
<1>1. \A i \in 1..count : <<commands + 1, i>> \in Sample
  BY DEF Sample
<1>2. Fresh(count) \in [1..count -> Sample] /\ \A i \in 1..count : Fresh(count)[i] = <<commands + 1, i>>
  BY <1>1 DEF Fresh
<1>3. Fresh(count) \in Seq(Sample) /\ Len(Fresh(count)) = count
  BY <1>2, SeqIs
<1> QED
  BY <1>2, <1>3 DEF NewSamples

\* A stretch takes the range out and puts new samples in its place.
LEMMA StretchKeeps == ASSUME CommandsInv, NEW readable, NEW count \in Nat, applyTimeStretch(readable, count) PROVE CommandsInv'
<1>1. Command /\ clipboard' = clipboard /\ batch' = batch
  BY DEF applyTimeStretch, Kept, Settled
<1>2. CASE readable /\ ~IsEmpty(targetRange)
  <2> DEFINE range == targetRange
             less == deleteRange(document, range.start, range.end)
             after == insertAudio(less, range.start, Fresh(count))
  <2>1. applyEdit(after, selection) /\ Report(Told("stretch", TRUE, "no more")) /\ refreshActions
    BY <1>2 DEF applyTimeStretch, Note
  <2>2. /\ range.start \in Nat /\ range.end \in Nat /\ range.start <= range.end /\ range.end <= Duration(document)
        /\ DocHolds(document, commands) /\ commands \in Nat /\ Duration(document) \in Nat
    BY <1>2, TargetIs DEF CommandsInv, Stretch
  <2>3. DocHolds(less, commands) /\ Duration(less) = Duration(document) - (range.end - range.start)
    <3> HIDE DEF range
    <3> QED
      BY <2>2, DeleteHolds, SMTT(20)
  <2>4. range.start <= Duration(less)
    BY <2>2, <2>3
  <2>5. NewSamples(Fresh(count), commands)
    BY <2>2, FreshIs
  <2>6. DocHolds(after, commands + 1)
    BY <2>2, <2>3, <2>4, <2>5, InsertHolds
  <2> HIDE DEF after
  <2> QED
    BY <1>1, <2>1, <2>6, NoteNames, EditedThere
<1>3. CASE ~(readable /\ ~IsEmpty(targetRange))
  <2>1. Unedited /\ UNCHANGED <<clipboard, learned, batch>> /\ Report(Told("nothing", FALSE, "no more"))
    BY <1>3 DEF applyTimeStretch, Kept, Settled, Note
  <2> QED
    BY <1>1, <2>1, NoteNames, NothingKeeps
<1> QED
  BY <1>2, <1>3

\* A deletion closes the gap, or leaves silence in it.
LEMMA DeleteSelectionKeeps == ASSUME CommandsInv, NEW ripple, deleteSelection(ripple) PROVE CommandsInv'
<1>1. /\ Command /\ clipboard' = clipboard /\ batch' = batch /\ refreshActions /\ Report(Told("delete", TRUE, "no more"))
      /\ ~IsEmpty(selection)
  BY DEF deleteSelection, Kept, Settled, Note
<1>2. /\ selection.start \in Nat /\ selection.end \in Nat /\ selection.start <= selection.end /\ selection.end <= Duration(document)
      /\ DocHolds(document, commands) /\ commands \in Nat
  BY TargetIs DEF CommandsInv
<1>3. CASE ripple
  <2> DEFINE after == deleteRange(document, selection.start, selection.end)
             caret == Caret(selection)
  <2>1. applyEdit(after, caret)
    BY <1>3 DEF deleteSelection
  <2>2. DocHolds(after, commands + 1)
    BY <1>2, DeleteHolds, LaterHolds
  <2>3. caret.start \in Nat /\ caret.end \in Nat /\ caret.start <= caret.end
    BY <1>2 DEF Caret
  <2> HIDE DEF after, caret
  <2> QED
    BY <1>1, <2>1, <2>2, <2>3, NoteNames, EditedKeeps
<1>4. CASE ~ripple
  <2> DEFINE after == silenceRange(document, selection.start, selection.end)
  <2>1. applyEdit(after, selection)
    BY <1>4 DEF deleteSelection
  <2>2. DocHolds(after, commands + 1)
    BY <1>2, SilenceHolds, LaterHolds
  <2> HIDE DEF after
  <2> QED
    BY <1>1, <2>1, <2>2, NoteNames, EditedThere
<1> QED
  BY <1>3, <1>4

\* A paste inserts new samples.
LEMMA PasteKeeps == ASSUME CommandsInv, pasteClipboard PROVE CommandsInv'
<1>1. Command /\ clipboard' = clipboard /\ batch' = batch /\ learned' = learned /\ Report(Told("paste", TRUE, "no more"))
  BY DEF pasteClipboard, Kept, Settled, Note
<1>2. CASE hasDocument /\ clipboard.audio # <<>> /\ clipboard.stereo = stereo
  <2> DEFINE count == Len(clipboard.audio)
             after == insertAudio(document, selection.start, Fresh(count))
  <2>1. applyEdit(after, selection) /\ refreshActions
    BY <1>2 DEF pasteClipboard
  <2>2. /\ selection.start \in Nat /\ selection.start <= Duration(document)
        /\ DocHolds(document, commands) /\ commands \in Nat
    BY TargetIs DEF CommandsInv
  <2>3. count \in Nat
    BY DEF CommandsInv
  <2> HIDE DEF count
  <2>4. NewSamples(Fresh(count), commands)
    BY <2>2, <2>3, FreshIs
  <2>5. DocHolds(after, commands + 1)
    BY <2>2, <2>4, InsertHolds
  <2> HIDE DEF after
  <2> QED
    BY <1>1, <2>1, <2>5, NoteNames, EditedThere
<1>3. CASE ~(hasDocument /\ clipboard.audio # <<>> /\ clipboard.stereo = stereo)
  <2>1. Unedited
    BY <1>3 DEF pasteClipboard
  <2> QED
    BY <1>1, <2>1, NoteNames, NothingKeeps
<1> QED
  BY <1>2, <1>3

\* A level of the history is put back.
LEMMA RewriteKeeps == ASSUME CommandsInv, Command, NEW after, after \in Docs(commands + 1), Rewrite(after),
                             past' \in Seq(Docs(commands + 1)), future' \in Seq(Docs(commands + 1)),
                             clipboard' = clipboard, batch' = batch, refreshActions,
                             NEW name, NEW says, NEW what, Report(Told(name, says, what)),
                             name \notin DOMAIN Effects \cup {"cut", "trim", "export"}, name \notin {"nothing", "failed"}
  PROVE  CommandsInv'
<1>1. /\ commands \in Nat /\ commands' = commands + 1 /\ scriptExit = "running"
      /\ selection.start \in Nat /\ selection.end \in Nat /\ selection.start <= selection.end
  BY TargetIs DEF CommandsInv, Command
<1>2. document' = after /\ playing' = "no" /\ selection' = Clamped(selection, after) /\ ~halfChanged'
  BY DEF Rewrite
<1>3. Selected(selection', Duration(document'))
  <2>1. Selected(Clamped(selection, after), Duration(after))
    BY <1>1, DocDuration, ClampedIs
  <2> QED
    BY <1>2, <2>1
<1>4. DocumentsHold'
  BY <1>1, <1>2, <1>3 DEF DocumentsHold
<1>5. MenusAreCurrent'
  BY DEF refreshActions, MenusAreCurrent
<1>6. DoneHolds'
  BY <1>1, <1>2, QuietHolds
<1> QED
  BY <1>4, <1>5, <1>6 DEF CommandsInv

\* Undo and redo show a document of the history.
LEMMA UndoKeeps == ASSUME CommandsInv, undo \/ redo PROVE CommandsInv'
<1>1. /\ commands \in Nat /\ document \in Docs(commands + 1) /\ past \in Seq(Docs(commands + 1)) /\ future \in Seq(Docs(commands + 1))
  BY LaterDocs DEF CommandsInv, DocumentsHold
<1>2. CASE undo
  <2> DEFINE after == Last(past)
  <2>1. /\ Command /\ past # <<>> /\ Rewrite(after) /\ past' = Front(past) /\ future' = <<document>> \o future
        /\ Report(Told("undo", TRUE, "no more")) /\ clipboard' = clipboard /\ batch' = batch /\ refreshActions
    BY <1>2 DEF undo, Kept, Settled, Note
  <2>2. Front(past) \in Seq(Docs(commands + 1)) /\ after \in Docs(commands + 1)
    BY <1>1, <2>1, FrontIs
  <2>3. <<document>> \o future \in Seq(Docs(commands + 1))
    BY <1>1, BeforeIs
  <2> HIDE DEF after
  <2> QED
    BY <2>1, <2>2, <2>3, NoteNames, RewriteKeeps
<1>3. CASE redo
  <2> DEFINE after == Head(future)
  <2>1. /\ Command /\ future # <<>> /\ Rewrite(after) /\ future' = Tail(future) /\ past' = Append(past, document)
        /\ Report(Told("redo", TRUE, "no more")) /\ clipboard' = clipboard /\ batch' = batch /\ refreshActions
    BY <1>3 DEF redo, Kept, Settled, Note
  <2>2. Tail(future) \in Seq(Docs(commands + 1)) /\ after \in Docs(commands + 1)
    BY <1>1, <2>1, TailIs
  <2>3. Append(past, document) \in Seq(Docs(commands + 1))
    BY <1>1, AppendIs
  <2> HIDE DEF after
  <2> QED
    BY <2>1, <2>2, <2>3, NoteNames, RewriteKeeps
<1> QED
  BY <1>2, <1>3

\* The markers.
LEMMA MarkersKeep == ASSUME CommandsInv, NEW name, NEW possible, NEW markers, EditMarkers(name, possible, markers),
                            name \in {"mark", "rename", "unmark", "clear"},
                            possible => DocHolds([audio |-> document.audio, markers |-> markers], commands)
  PROVE  CommandsInv'
<1>1. Command /\ clipboard' = clipboard /\ batch' = batch /\ learned' = learned
  BY DEF EditMarkers, Kept, Settled
<1>2. CASE hasDocument /\ possible
  <2> DEFINE after == [audio |-> document.audio, markers |-> markers]
  <2>1. applyEdit(after, selection) /\ Report(Told(name, TRUE, "no more")) /\ refreshActions
    BY <1>2 DEF EditMarkers, Note
  <2>2. commands \in Nat /\ DocHolds(after, commands)
    BY <1>2, TargetIs DEF CommandsInv
  <2> HIDE DEF after
  <2>3. DocHolds(after, commands + 1)
    BY <2>2, LaterHolds
  <2> QED
    BY <1>1, <2>1, <2>3, NoteNames, EditedThere
<1>3. CASE ~(hasDocument /\ possible)
  <2>1. Unedited /\ Report(Told("nothing", FALSE, "no more"))
    BY <1>3 DEF EditMarkers, Note
  <2> QED
    BY <1>1, <2>1, NoteNames, NothingKeeps
<1> QED
  BY <1>2, <1>3

\* A marker is added where it belongs, one is renamed, one is removed, or all are.
LEMMA MarkKeeps == ASSUME CommandsInv, addMarker \/ renameMarker \/ deleteNearestMarker \/ clearMarkers PROVE CommandsInv'
<1> DEFINE ms == document.markers
           n == Len(ms)
<1>1. /\ DocHolds(document, commands) /\ commands \in Nat /\ n \in Nat
      /\ selection.start \in Nat /\ selection.end \in Nat /\ selection.start <= selection.end /\ Duration(document) \in Nat
  BY TargetIs DEF CommandsInv
<1>2. CASE addMarker
  <2> DEFINE p == Least(selection.start, Duration(document))
             l == IF IsEmpty(selection) THEN 0 ELSE selection.end - selection.start
             m == [position |-> p, length |-> l, at |-> SampleAt(document, p)]
  <2>1. PICK markers \in Arranged(Append(ms, m)) : EditMarkers("mark", TRUE, markers)
    BY <1>2 DEF addMarker
  <2>2. p \in Nat /\ p <= Duration(document)
    BY <1>1 DEF Least
  <2>3. l \in Nat
    BY <1>1
  <2>4. m \in MarkerType /\ OnItsSample(m, document.audio) /\ Until(m.at, commands)
    <3> HIDE DEF p, l
    <3> QED
      BY <1>1, <2>2, <2>3, NewMarkerIs
  <2> HIDE DEF m
  <2>5. /\ ms \in Seq(MarkerType)
        /\ \A k \in 1..n : OnItsSample(ms[k], document.audio) /\ Until(ms[k].at, commands)
    BY <1>1, DocIs
  <2>6. Append(ms, m) \in Seq(MarkerType) /\ Len(Append(ms, m)) = n + 1 /\ \A k \in 1..n + 1 : Append(ms, m)[k] = IF k <= n THEN ms[k] ELSE m
    BY <2>4, <2>5
  <2>7. \A k \in 1..n + 1 : OnItsSample(Append(ms, m)[k], document.audio) /\ Until(Append(ms, m)[k].at, commands)
    <3> SUFFICES ASSUME NEW k \in 1..n + 1 PROVE OnItsSample(Append(ms, m)[k], document.audio) /\ Until(Append(ms, m)[k].at, commands)
      OBVIOUS
    <3>1. CASE k <= n
      <4>1. k \in 1..n /\ Append(ms, m)[k] = ms[k]
        BY <1>1, <2>6, <3>1
      <4> QED
        BY <2>5, <4>1
    <3>2. CASE ~(k <= n)
      BY <2>4, <2>6, <3>2
    <3> QED
      BY <3>1, <3>2
  <2>8. /\ markers \in Seq(MarkerType) /\ InTime(markers)
        /\ \A k \in 1..Len(markers) : \E q \in 1..Len(Append(ms, m)) : markers[k] = Append(ms, m)[q]
    BY <2>6, ArrangedIs
  <2>9. \A k \in 1..Len(markers) : OnItsSample(markers[k], document.audio) /\ Until(markers[k].at, commands)
    BY <2>6, <2>7, <2>8
  <2>10. DocHolds([audio |-> document.audio, markers |-> markers], commands)
    BY <1>1, <2>8, <2>9, MarkersHold
  <2> QED
    BY <2>1, <2>10, MarkersKeep
<1>3. CASE renameMarker
  <2>1. PICK markers : markers = document.markers
    OBVIOUS
  <2>2. EditMarkers("rename", TRUE, markers)
    BY <1>3, <2>1 DEF renameMarker
  <2>3. DocHolds([audio |-> document.audio, markers |-> markers], commands)
    <3>1. markers \in Seq(MarkerType) /\ InTime(markers) /\ \A k \in 1..Len(markers) : OnItsSample(markers[k], document.audio) /\ Until(markers[k].at, commands)
      BY <1>1, <2>1, DocIs
    <3> QED
      BY <1>1, <3>1, MarkersHold
  <2> QED
    BY <2>2, <2>3, MarkersKeep
<1>4. CASE deleteNearestMarker
  <2> DEFINE found == nearestMarker
             possible == found # 0
  <2>1. found \in 0..n
    BY <1>1, MarkersFound
  <2>2. PICK markers : markers = [i \in 1..(n - 1) |-> ms[IF i < found THEN i ELSE i + 1]]
    OBVIOUS
  <2>3. EditMarkers("unmark", possible, markers)
    BY <1>4, <2>2 DEF deleteNearestMarker
  <2>4. possible => DocHolds([audio |-> document.audio, markers |-> markers], commands)
    <3>1. SUFFICES ASSUME possible PROVE DocHolds([audio |-> document.audio, markers |-> markers], commands)
      OBVIOUS
    <3>2. found \in 1..n
      BY <1>1, <2>1, <3>1
    <3> HIDE DEF found
    <3> QED
      BY <1>1, <2>2, <3>2, OneLess
  <2> HIDE DEF possible
  <2> QED
    BY <2>3, <2>4, MarkersKeep
<1>5. CASE clearMarkers
  <2> DEFINE possible == document.markers # <<>>
             markers == <<>>
  <2>1. EditMarkers("clear", possible, markers)
    BY <1>5 DEF clearMarkers
  <2>2. DocHolds([audio |-> document.audio, markers |-> markers], commands)
    <3>1. markers \in Seq(MarkerType) /\ InTime(markers) /\ \A k \in 1..Len(markers) : OnItsSample(markers[k], document.audio) /\ Until(markers[k].at, commands)
      BY DEF InTime
    <3> HIDE DEF markers
    <3> QED
      BY <1>1, <3>1, MarkersHold
  <2> HIDE DEF possible, markers
  <2> QED
    BY <2>1, <2>2, MarkersKeep
<1> QED
  BY <1>2, <1>3, <1>4, <1>5

\* The effects keep their target.
LEMMA EffectTold == ASSUME NEW name \in DOMAIN Effects, DocHolds(document, commands), NEW range, Stretch(range, Duration(document)),
                           document' = Processed(Effects[name], range, document),
                           done'.name = name, done'.range = range, done'.was = document, done'.what = Touched(Effects[name], range, document)
  PROVE  OnlyTheTargetChanges' /\ EdgesAreBlended'
<1> DEFINE e == Effects[name]
           n == Duration(document)
           touched == Touched(e, range, document)
           was == document.audio
<1>1. EffectType(e) /\ was \in Seq(InDocument) /\ n \in Nat /\ n = Len(was)
  BY EffectsAre, DocIs
<1>2. /\ done'.name = name /\ done'.range = range /\ done'.was = document /\ done'.what = touched
      /\ document'.audio = Processed(e, range, document).audio
  OBVIOUS
<1>3. IsTouched(touched, e, range, n)
  BY <1>1, TouchedIs
<1>4. IsProcessed(Processed(e, range, document).audio, e, range, document)
  BY <1>1, ProcessedIs
<1> HIDE DEF e, touched, n, was
<1>5. /\ Duration(document') = n
      /\ \A p \in 0..(n - 1) : document'.audio[p + 1] = was[1 + IF p \in range.start..(range.end - 1) THEN Backwards(e, range, p) ELSE p]
  BY <1>2, <1>4 DEF IsProcessed, Whence, Duration, n, was
<1>6. Stretch(range, n) /\ range.start \in Nat /\ range.end \in Nat /\ range.start < range.end /\ range.end <= n
  BY DEF Stretch, n
<1>7. ASSUME NEW p \in 0..(n - 1)
      PROVE  /\ p < range.start - e.reach \/ p >= range.end + e.reach => touched[p] = "dry"
             /\ p \in range.start..(range.end - 1) => touched[p] # "dry"
  <2>1. /\ p < range.start - e.reach \/ p >= range.end + e.reach => Touch(e, range, n, p) = "dry"
        /\ p \in range.start..(range.end - 1) => Touch(e, range, n, p) # "dry"
    BY <1>1, <1>6, TouchKeepsOff
  <2>2. /\ touched[p] = "dry" \/ touched[p] = Touch(e, range, n, p)
        /\ p \in range.start..(range.end - 1) => touched[p] = Touch(e, range, n, p)
    BY <1>3 DEF IsTouched
  <2> QED
    BY <2>1, <2>2
<1>8. OnlyTheTargetChanges'
  <2>1. Len(was) = n /\ done'.was.audio = was /\ Effects[done'.name] = e
    BY <1>1, <1>2 DEF was, e
  <2> QED
    BY <1>2, <1>5, <1>7, <2>1 DEF OnlyTheTargetChanges
<1>9. EdgesAreBlended'
  <2> SUFFICES ASSUME e.edges # "nowhere", range.end - range.start >= 4
               PROVE  /\ range.start > 0 => touched[range.start] = "blended"
                      /\ range.end < n => touched[range.end - 1] = "blended"
    BY <1>2 DEF EdgesAreBlended, e, n
  <2>1. /\ range.start > 0 => Touch(e, range, n, range.start) = "blended"
        /\ range.end < n => Touch(e, range, n, range.end - 1) = "blended"
    BY <1>1, <1>6, EdgesBlend
  <2>2. /\ range.start \in 0..n - 1 /\ range.start \in range.start..(range.end - 1)
        /\ range.end - 1 \in 0..n - 1 /\ range.end - 1 \in range.start..(range.end - 1)
    BY <1>1, <1>6
  <2> QED
    BY <1>3, <2>1, <2>2 DEF IsTouched
<1> QED
  BY <1>8, <1>9

\* An effect leaves what it was asked for, in its place.
LEMMA ProcessKeeps == ASSUME CommandsInv, NEW name \in DOMAIN Effects, NEW readable, NEW usable, NEW found,
                             process(name, readable, usable, found)
  PROVE  CommandsInv'
<1> DEFINE effect == Effects[name]
           range == targetRange
           refused == \/ ~readable /\ effect.reads
                      \/ effect.needsStereo /\ ~stereo
                      \/ ~usable
           agreed == ~refused \/ ~effect.tells
           nowhere == IsEmpty(range) \/ refused \/ ~found
           says == agreed /\ ~(effect.tells /\ IsEmpty(range))
<1>1. /\ Command /\ clipboard' = clipboard /\ learned' = learned /\ batch' = batch
      /\ IF nowhere THEN Unedited /\ Report(Told("nothing", says, "no more"))
         ELSE /\ applyEdit(Processed(effect, range, document), selection)
              /\ Report(Told(name, TRUE, Touched(effect, range, document))) /\ refreshActions
  BY DEF process, Kept, Settled, Note
<1>2. /\ DocHolds(document, commands) /\ commands \in Nat /\ (~IsEmpty(range) => Stretch(range, Duration(document)))
      /\ selection.start \in Nat /\ selection.end \in Nat /\ selection.start <= selection.end
  BY TargetIs DEF CommandsInv
<1>3. ~nowhere => ~IsEmpty(range)
  OBVIOUS
<1> HIDE DEF nowhere, says
<1>4. CASE nowhere
  BY <1>1, <1>4, NoteNames, NothingKeeps
<1>5. CASE ~nowhere
  <2> DEFINE after == Processed(effect, range, document)
  <2>1. applyEdit(after, selection) /\ Report(Told(name, TRUE, Touched(effect, range, document))) /\ refreshActions
    BY <1>1, <1>5
  <2>2. EffectType(effect) /\ Stretch(range, Duration(document))
    BY <1>2, <1>3, <1>5, EffectsAre
  <2>3. DocHolds(after, commands)
    BY <1>2, <2>2, ProcessedHolds
  <2>4. document' = after
    BY <2>1 DEF applyEdit
  <2>5. /\ done'.name = name /\ done'.range = range /\ done'.was = document /\ done'.what = Touched(effect, range, document)
        /\ done'.says
    BY <2>1 DEF Report, Told
  <2>6. OnlyTheTargetChanges' /\ EdgesAreBlended'
    BY <1>2, <2>2, <2>4, <2>5, EffectTold
  <2>7. name \notin {"cut", "trim", "export", "nothing", "failed", "undo", "redo"}
    BY DEF Effects
  <2>8. DoneHolds'
    <3>1. CutsCanBePasted' /\ ExportsAreWhole' /\ ScriptsStopAtARefusal'
      BY <2>5, <2>7 DEF CutsCanBePasted, ExportsAreWhole, ScriptsStopAtARefusal
    <3> QED
      BY <2>6, <3>1 DEF DoneHolds
  <2> HIDE DEF after
  <2>9. DocumentsHold'
    <3>1. after \in Docs(commands + 1)
      BY <1>2, <2>3, LaterHolds, DocsAre
    <3>2. PICK selected : selected = selection
      OBVIOUS
    <3>3. selected.start \in Nat /\ selected.end \in Nat /\ selected.start <= selected.end /\ applyEdit(after, selected)
      BY <1>2, <2>1, <3>2
    <3>4. DocumentsHold
      BY DEF CommandsInv
    <3> QED
      BY <1>1, <3>1, <3>3, <3>4, EditKeepsDocuments
  <2> QED
    BY <1>1, <2>1, <2>8, <2>9 DEF CommandsInv, refreshActions, MenusAreCurrent
<1> QED
  BY <1>4, <1>5

\* One that does not apply leaves every sample and every marker, and the history.
LEMMA FailureKeepsCommands == ASSUME CommandsInv, NEW name, NEW changed, doesNotApply(name, changed) PROVE CommandsInv'
<1>1. /\ Command /\ UNCHANGED <<document, past, future, batch>> /\ selection' = selection /\ playing' = "no" /\ enabled' = enabled
      /\ UNCHANGED <<clipboard, learned>>
      /\ \E says : Report(Told("failed", says, "no more"))
  BY DEF doesNotApply, failEdit, Kept, Settled, Note
<1>2. scriptExit = "running" /\ commands' \in {commands, commands + 1}
  BY <1>1 DEF Command
<1>3. DocumentsHold'
  <2>1. DocumentsHold /\ Selected(selection', Duration(document))
    BY <1>1 DEF CommandsInv, DocumentsHold
  <2> QED
    BY <1>1, <1>2, <2>1, UneditedKeeps
<1>4. MenusAreCurrent'
  BY <1>1, MenusStay DEF CommandsInv
<1>5. DoneHolds'
  <2>1. PICK says : Report(Told("failed", says, "no more"))
    BY <1>1
  <2>2. "failed" \notin DOMAIN Effects \cup {"cut", "trim", "export"} /\ "failed" \notin {"nothing", "undo", "redo"}
    BY NoteNames
  <2>3. batch' = batch /\ document' = document /\ past' = past
    BY <1>1
  <2> QED
    BY <1>2, <2>1, <2>2, <2>3, QuietHolds
<1> QED
  BY <1>1, <1>3, <1>4, <1>5 DEF CommandsInv

\* What was taken out, put back.
IsRejoined(r, s, start, end) == Part(r, 0, start) \o Part(s, start, end) \o Part(r, start, Len(r)) = s

\* It is as it was.
LEMMA Rejoined == ASSUME NEW S, NEW s \in Seq(S), NEW start \in Nat, NEW end \in Nat, start <= end, end <= Len(s)
  PROVE  IsRejoined(Part(s, 0, start) \o Part(s, end, Len(s)), s, start, end)
<1> DEFINE r == Part(s, 0, start) \o Part(s, end, Len(s))
           n == Len(s)
           w == end - start
           new == Part(s, start, end)
           t == Part(r, 0, start) \o new \o Part(r, start, Len(r))
<1>1. n \in Nat /\ w \in Nat /\ start + w = end
  OBVIOUS
<1>2. IsWithout(r, S, s, n, start, w)
  BY Without
<1> HIDE DEF r
<1>3. new \in Seq(S) /\ Len(new) = w /\ \A i \in 1..w : new[i] = s[start + i]
  BY PartIs
<1> HIDE DEF n, w, new
<1>4. /\ r \in Seq(S) /\ Len(r) = n - w /\ start <= Len(r)
      /\ \A i \in 1..start : r[i] = s[i]
      /\ \A i \in start + 1..n - w : r[i] = s[i + w]
  BY <1>1, <1>2 DEF IsWithout, n
<1>5. IsWithin(t, S, r, Len(r), start, new, Len(new))
  BY <1>3, <1>4, Within
<1> HIDE DEF t
<1>6. /\ t \in Seq(S) /\ Len(t) = n
      /\ \A i \in 1..start : t[i] = r[i]
      /\ \A i \in start + 1..start + w : t[i] = new[i - start]
      /\ \A i \in start + w + 1..n : t[i] = r[i - w]
  <2>1. Len(r) + w = n
    BY <1>1, <1>4
  <2> QED
    BY <1>3, <1>5, <2>1 DEF IsWithin
<1>7. ASSUME NEW i \in 1..n PROVE t[i] = s[i]
  <2>1. CASE i <= start
    BY <1>1, <1>4, <1>6, <2>1
  <2>2. CASE i > start /\ i <= start + w
    <3>1. i \in start + 1..start + w /\ i - start \in 1..w /\ start + (i - start) = i
      BY <1>1, <2>2
    <3> QED
      BY <1>3, <1>6, <3>1
  <2>3. CASE i > start + w
    <3>1. i \in start + w + 1..n /\ i - w \in start + 1..n - w /\ (i - w) + w = i
      BY <1>1, <2>3
    <3> QED
      BY <1>4, <1>6, <3>1
  <2> QED
    BY <1>1, <2>1, <2>2, <2>3
<1>8. t = s
  <2>1. s \in Seq(S) /\ t \in Seq(S) /\ Len(s) = Len(t) /\ \A i \in 1..Len(s) : s[i] = t[i]
    BY <1>6, <1>7 DEF n
  <2> QED
    BY <2>1, SeqEqual
<1> QED
  BY <1>8 DEF t, new, r, n, IsRejoined

\* What is left of a sequence that loses its end and its beginning.
IsCutOut(r, s, start, end) ==
  /\ Part(r, 0, 0) \o Part(r, start, Len(r)) = Part(s, start, end)
  /\ r = Part(s, 0, end) /\ (start = 0 => r = Part(s, start, end)) /\ (end = Len(s) => r = s)

\* It is the part between.
LEMMA CutOut == ASSUME NEW S, NEW s \in Seq(S), NEW start \in Nat, NEW end \in Nat, start <= end, end <= Len(s)
  PROVE  IsCutOut(Part(s, 0, end) \o Part(s, Len(s), Len(s)), s, start, end)
<1> DEFINE n == Len(s)
           r == Part(s, 0, end) \o Part(s, n, n)
           t == Part(r, 0, 0) \o Part(r, start, Len(r))
<1>1. n \in Nat
  OBVIOUS
<1>2. IsWithout(r, S, s, n, end, n - end)
  BY <1>1, Without
<1> HIDE DEF r
<1>3. /\ r \in Seq(S) /\ Len(r) = end /\ \A i \in 1..end : r[i] = s[i]
  <2>1. n - (n - end) = end
    BY <1>1
  <2> QED
    BY <1>2, <2>1 DEF IsWithout
<1>4. IsWithout(t, S, r, Len(r), 0, start - 0)
  <2>1. r \in Seq(S) /\ 0 \in Nat /\ start \in Nat /\ 0 <= start /\ start <= Len(r)
    BY <1>3
  <2> QED
    BY <2>1, Without
<1> HIDE DEF t
<1>5. /\ t \in Seq(S) /\ Len(t) = end - start /\ \A i \in 1..end - start : t[i] = s[start + i]
  <2>1. /\ t \in Seq(S) /\ Len(t) = end - start /\ \A i \in 1..end - start : t[i] = r[i + start]
    <3>1. Len(r) - (start - 0) = end - start /\ 0 + 1 = 1
      BY <1>3
    <3>2. /\ t \in Seq(S) /\ Len(t) = Len(r) - (start - 0)
          /\ \A i \in 0 + 1..Len(r) - (start - 0) : t[i] = r[i + (start - 0)]
      BY <1>4 DEF IsWithout
    <3>3. start - 0 = start
      OBVIOUS
    <3> QED
      BY <3>1, <3>2, <3>3
  <2>2. \A i \in 1..end - start : i + start \in 1..end /\ i + start = start + i
    OBVIOUS
  <2> QED
    BY <1>3, <2>1, <2>2
<1>6. /\ Part(s, start, end) \in Seq(S) /\ Len(Part(s, start, end)) = end - start
      /\ \A i \in 1..end - start : Part(s, start, end)[i] = s[start + i]
  BY PartIs
<1>7. /\ Part(s, 0, end) \in Seq(S) /\ Len(Part(s, 0, end)) = end
      /\ \A i \in 1..end : Part(s, 0, end)[i] = s[i]
  <2>1. 0 \in Nat /\ 0 <= end /\ end - 0 = end
    OBVIOUS
  <2>2. /\ Part(s, 0, end) \in Seq(S) /\ Len(Part(s, 0, end)) = end - 0
        /\ \A i \in 1..end - 0 : Part(s, 0, end)[i] = s[0 + i]
    BY <2>1, PartIs
  <2> QED
    BY <2>1, <2>2
<1>8. t = Part(s, start, end)
  <2> DEFINE u == Part(s, start, end)
  <2>1. t \in Seq(S) /\ u \in Seq(S) /\ Len(t) = Len(u) /\ \A i \in 1..Len(t) : t[i] = u[i]
    BY <1>5, <1>6
  <2> HIDE DEF u
  <2>2. t = u
    BY <2>1, SeqEqual
  <2> QED
    BY <2>2 DEF u
<1>9. r = Part(s, 0, end)
  <2> DEFINE u == Part(s, 0, end)
  <2>1. r \in Seq(S) /\ u \in Seq(S) /\ Len(r) = Len(u) /\ \A i \in 1..Len(r) : r[i] = u[i]
    BY <1>3, <1>7
  <2> HIDE DEF u
  <2>2. r = u
    BY <2>1, SeqEqual
  <2> QED
    BY <2>2 DEF u
<1>10. ASSUME end = Len(s) PROVE r = s
  <2>1. r \in Seq(S) /\ s \in Seq(S) /\ Len(r) = Len(s) /\ \A i \in 1..Len(r) : r[i] = s[i]
    BY <1>3, <1>10
  <2> QED
    BY <2>1, SeqEqual
<1> QED
  BY <1>8, <1>9, <1>10 DEF IsCutOut, r, t, n

\* A cut copies what it deletes, so that a paste would bring it back.
LEMMA CutKeeps == ASSUME CommandsInv, NEW readable, cutSelection(readable) PROVE CommandsInv'
<1> DEFINE s == selection.start
           e == selection.end
           n == Duration(document)
           audio == document.audio
           after == deleteRange(document, s, e)
           caret == Caret(selection)
<1>1. /\ Command /\ ~IsEmpty(selection) /\ clipboard' = Copied(readable) /\ applyEdit(after, caret)
      /\ Report(Told("cut", TRUE, readable)) /\ batch' = batch /\ refreshActions
  BY DEF cutSelection, Settled
<1>2. /\ s \in Nat /\ e \in Nat /\ s <= e /\ e <= n /\ n \in Nat /\ n = Len(audio) /\ audio \in Seq(InDocument)
      /\ DocHolds(document, commands) /\ commands \in Nat
  BY TargetIs DEF CommandsInv, Duration
<1>3. DocHolds(after, commands) /\ Duration(after) = n - (e - s) /\ after.audio = Part(audio, 0, s) \o Part(audio, e, n)
  BY <1>2, DeleteHolds
<1>4. caret.start = s /\ caret.end = s
  BY DEF Caret
<1>5. /\ document' = after /\ selection' = Clamped(caret, after)
      /\ done'.name = "cut" /\ done'.says /\ done'.what = readable /\ done'.was = document
  BY <1>1 DEF applyEdit, Report, Told
<1>6. clipboard' = IF readable THEN [audio |-> Part(audio, s, e), stereo |-> stereo] ELSE clipboard
  BY <1>1 DEF Copied
<1> HIDE DEF s, e, n, audio, after, caret
<1>7. selection'.start = s
  <2>1. selection'.start = Least(s, Duration(after))
    BY <1>4, <1>5 DEF Clamped
  <2>2. s <= Duration(after)
    BY <1>2, <1>3
  <2>3. Duration(after) \in Nat
    BY <1>2, <1>3
  <2> QED
    BY <1>2, <2>1, <2>2, <2>3 DEF Least
<1>8. CutsCanBePasted'
  <2>1. SUFFICES ASSUME readable PROVE insertAudio(document', selection'.start, clipboard'.audio).audio = audio
    BY <1>5 DEF CutsCanBePasted, audio
  <2>2. clipboard'.audio = Part(audio, s, e)
    BY <1>6, <2>1
  <2> DEFINE r == after.audio
  <2>3. insertAudio(document', selection'.start, clipboard'.audio).audio = Part(r, 0, s) \o Part(audio, s, e) \o Part(r, s, Len(r))
    BY <1>5, <1>7, <2>2 DEF insertAudio, Duration
  <2>4. r = Part(audio, 0, s) \o Part(audio, e, Len(audio)) /\ s \in Nat /\ e \in Nat /\ s <= e /\ e <= Len(audio)
    BY <1>2, <1>3
  <2> HIDE DEF r
  <2>5. audio \in Seq(InDocument) /\ s \in Nat /\ e \in Nat /\ s <= e /\ e <= Len(audio)
    BY <1>2
  <2>6. IsRejoined(Part(audio, 0, s) \o Part(audio, e, Len(audio)), audio, s, e)
    BY <2>5, Rejoined
  <2> QED
    BY <2>3, <2>4, <2>6 DEF IsRejoined
<1>9. DoneHolds'
  <2>1. OnlyTheTargetChanges' /\ EdgesAreBlended'
    <3>1. "cut" \notin DOMAIN Effects
      BY DEF Effects
    <3> QED
      BY <1>5, <3>1 DEF OnlyTheTargetChanges, EdgesAreBlended
  <2>2. ExportsAreWhole' /\ ScriptsStopAtARefusal'
    BY <1>5 DEF ExportsAreWhole, ScriptsStopAtARefusal
  <2> QED
    BY <1>8, <2>1, <2>2 DEF DoneHolds
<1>10. DocumentsHold'
  <2>1. DocumentsHold /\ after \in Docs(commands + 1)
    BY <1>2, <1>3, LaterHolds, DocsAre DEF CommandsInv
  <2>2. caret.start \in Nat /\ caret.end \in Nat /\ caret.start <= caret.end
    BY <1>2, <1>4
  <2> QED
    BY <1>1, <2>1, <2>2, EditKeepsDocuments
<1>11. clipboard'.audio \in Seq(InDocument)
  <2>1. Part(audio, s, e) \in Seq(InDocument)
    BY <1>2, PartIs
  <2> QED
    BY <1>6, <2>1 DEF CommandsInv
<1> QED
  BY <1>1, <1>9, <1>10, <1>11 DEF CommandsInv, refreshActions, MenusAreCurrent

\* A trim leaves the range and the markers that were in it.
LEMMA TrimmedIs == ASSUME NEW doc, NEW last \in Nat, DocHolds(doc, last), NEW range, Stretch(range, Duration(doc))
  PROVE  DocHolds(Trimmed(doc, range), last) /\ Trimmed(doc, range).audio = Part(doc.audio, range.start, range.end)
<1> DEFINE s == range.start
           e == range.end
           n == Duration(doc)
           audio == doc.audio
           r == Part(audio, 0, e) \o Part(audio, n, n)
           t == Part(r, 0, 0) \o Part(r, s, Len(r))
           curtailed == IF e < n THEN deleteRange(doc, e, n) ELSE doc
           after == IF s > 0 THEN deleteRange(curtailed, 0, s) ELSE curtailed
<1>1. /\ s \in Nat /\ e \in Nat /\ s < e /\ e <= n /\ n \in Nat /\ n = Len(audio) /\ audio \in Seq(InDocument)
  BY DocIs DEF Stretch
<1>2. Trimmed(doc, range) = after
  BY DEF Trimmed
<1> HIDE DEF s, e, n, audio
<1>3. /\ t = Part(audio, s, e) /\ r = Part(audio, 0, e) /\ (s = 0 => r = Part(audio, s, e)) /\ (e = n => r = audio)
  <2>1. r = Part(audio, 0, e) \o Part(audio, Len(audio), Len(audio))
    BY <1>1
  <2>3. audio \in Seq(InDocument) /\ s \in Nat /\ e \in Nat /\ s <= e /\ e <= Len(audio)
    BY <1>1
  <2>4. IsCutOut(Part(audio, 0, e) \o Part(audio, Len(audio), Len(audio)), audio, s, e)
    BY <2>3, CutOut
  <2>2. t = Part(r, 0, 0) \o Part(r, s, Len(r))
    OBVIOUS
  <2> HIDE DEF r, t
  <2> QED
    BY <1>1, <2>1, <2>2, <2>4 DEF IsCutOut
<1> HIDE DEF r, t
<1>4. DocHolds(curtailed, last) /\ curtailed.audio = r /\ Duration(curtailed) = e
  <2>1. CASE e < n
    <3>1. e \in Nat /\ n \in Nat /\ e <= n /\ n <= Duration(doc)
      BY <1>1 DEF n
    <3>2. /\ DocHolds(deleteRange(doc, e, n), last) /\ Duration(deleteRange(doc, e, n)) = Duration(doc) - (n - e)
          /\ deleteRange(doc, e, n).audio = Part(doc.audio, 0, e) \o Part(doc.audio, n, Duration(doc))
      BY <3>1, DeleteHolds
    <3>3. Duration(doc) - (n - e) = e
      BY <1>1 DEF n
    <3> QED
      BY <2>1, <3>2, <3>3 DEF r, n, audio
  <2>2. CASE ~(e < n)
    <3>1. e = n
      BY <1>1, <2>2
    <3> QED
      BY <1>3, <2>2, <3>1 DEF audio, n
  <2> QED
    BY <2>1, <2>2
<1> HIDE DEF curtailed
<1>5. DocHolds(after, last) /\ after.audio = Part(audio, s, e)
  <2>1. CASE s > 0
    <3>1. 0 \in Nat /\ s \in Nat /\ 0 <= s /\ s <= Duration(curtailed)
      BY <1>1, <1>4
    <3>2. /\ DocHolds(deleteRange(curtailed, 0, s), last)
          /\ deleteRange(curtailed, 0, s).audio = Part(curtailed.audio, 0, 0) \o Part(curtailed.audio, s, Duration(curtailed))
      BY <1>4, <3>1, DeleteHolds
    <3>3. Duration(curtailed) = Len(r)
      BY <1>4 DEF Duration
    <3> QED
      BY <1>3, <1>4, <2>1, <3>2, <3>3 DEF t
  <2>2. CASE ~(s > 0)
    <3>1. s = 0
      BY <1>1, <2>2
    <3> QED
      BY <1>3, <1>4, <2>2, <3>1
  <2> QED
    BY <2>1, <2>2
<1> QED
  BY <1>2, <1>5 DEF audio, s, e

\* So it leaves what was selected.
LEMMA TrimToSelectionKeeps == ASSUME CommandsInv, trimToSelection PROVE CommandsInv'
<1> DEFINE after == Trimmed(document, selection)
           whole == [start |-> 0, end |-> Duration(after)]
<1>1. /\ Command /\ ~IsEmpty(selection) /\ clipboard' = clipboard /\ applyEdit(after, whole)
      /\ Report(Told("trim", TRUE, "no more")) /\ batch' = batch /\ refreshActions
  BY DEF trimToSelection, Kept, Settled, Note
<1>2. Stretch(selection, Duration(document)) /\ DocHolds(document, commands) /\ commands \in Nat
  BY <1>1, TargetIs DEF CommandsInv
<1>3. DocHolds(after, commands) /\ after.audio = Part(document.audio, selection.start, selection.end)
  BY <1>2, TrimmedIs
<1> HIDE DEF after
<1>4. Duration(after) \in Nat
  BY <1>3, DocIs
<1>5. whole.start \in Nat /\ whole.end \in Nat /\ whole.start <= whole.end
  BY <1>4
<1> HIDE DEF whole
<1>6. targetRange = selection
  BY <1>1 DEF targetRange
<1>7. /\ document' = after
      /\ done'.name = "trim" /\ done'.says /\ done'.range = selection /\ done'.was = document
  BY <1>1, <1>6 DEF applyEdit, Report, Told
<1>8. CutsCanBePasted'
  BY <1>3, <1>7 DEF CutsCanBePasted
<1>9. DoneHolds'
  <2>1. OnlyTheTargetChanges' /\ EdgesAreBlended'
    <3>1. "trim" \notin DOMAIN Effects
      BY DEF Effects
    <3> QED
      BY <1>7, <3>1 DEF OnlyTheTargetChanges, EdgesAreBlended
  <2>2. ExportsAreWhole' /\ ScriptsStopAtARefusal'
    BY <1>7 DEF ExportsAreWhole, ScriptsStopAtARefusal
  <2> QED
    BY <1>8, <2>1, <2>2 DEF DoneHolds
<1>10. DocumentsHold'
  <2>1. DocumentsHold /\ after \in Docs(commands + 1)
    BY <1>2, <1>3, LaterHolds, DocsAre DEF CommandsInv
  <2> QED
    BY <1>1, <1>5, <2>1, EditKeepsDocuments
<1> QED
  BY <1>1, <1>9, <1>10 DEF CommandsInv, refreshActions, MenusAreCurrent
-------------------------------------------------------------------------------
(* The export.                                                               *)

\* A set of naturals that holds 0 and every successor of its members is all of
\* them: induction, for a property stated as the set of what has it.
LEMMA InductionOnNat == ASSUME NEW S, S \subseteq Nat, 0 \in S, \A n \in S : n + 1 \in S
  PROVE  S = Nat
<1> SUFFICES ASSUME Nat \ S # {} PROVE FALSE
  OBVIOUS
<1>1. PICK x \in Nat \ S : \A y \in Nat \ S : x <= y
  <2>1. Nat \ S \subseteq Nat /\ Nat \ S # {}
    OBVIOUS
  <2> QED
    BY <2>1, LeastOfAll
<1>2. x # 0 /\ x - 1 \in Nat /\ (x - 1) + 1 = x
  OBVIOUS
<1>3. x - 1 \in Nat \ S
  BY <1>2
<1> QED
  BY <1>1, <1>2, <1>3

\* Two stretches of a sequence, one after the other.
AreOneStretch(s, a, b, c) == Part(s, a, b) \o Part(s, b, c) = Part(s, a, c)

\* They are one stretch.
LEMMA OneStretch == ASSUME NEW S, NEW s \in Seq(S), NEW a \in Nat, NEW b \in Nat, NEW c \in Nat, a <= b, b <= c, c <= Len(s)
  PROVE  AreOneStretch(s, a, b, c)
<1> DEFINE x == Part(s, a, b)
           y == Part(s, b, c)
           z == Part(s, a, c)
<1>1. /\ a <= Len(s) /\ b <= Len(s) /\ a <= c
      /\ b - a \in Nat /\ c - b \in Nat /\ (b - a) + (c - b) = c - a
  OBVIOUS
<1>2. x \in Seq(S) /\ Len(x) = b - a /\ \A i \in 1..b - a : x[i] = s[a + i]
  BY <1>1, PartIs
<1>3. y \in Seq(S) /\ Len(y) = c - b /\ \A i \in 1..c - b : y[i] = s[b + i]
  BY <1>1, PartIs
<1>4. z \in Seq(S) /\ Len(z) = c - a /\ \A i \in 1..c - a : z[i] = s[a + i]
  BY <1>1, PartIs
<1> HIDE DEF x, y, z
<1>5. /\ x \o y \in Seq(S) /\ Len(x \o y) = c - a
      /\ \A i \in 1..c - a : (x \o y)[i] = IF i <= b - a THEN x[i] ELSE y[i - (b - a)]
  BY <1>1, <1>2, <1>3, ConcatProperties
<1>6. ASSUME NEW i \in 1..c - a PROVE (x \o y)[i] = z[i]
  <2>1. CASE i <= b - a
    <3>1. i \in 1..b - a
      BY <1>1, <2>1
    <3>2. (x \o y)[i] = x[i] /\ x[i] = s[a + i]
      BY <1>2, <1>5, <2>1, <3>1
    <3> QED
      BY <1>4, <3>2
  <2>2. CASE ~(i <= b - a)
    <3>1. i - (b - a) \in 1..c - b /\ b + (i - (b - a)) = a + i
      BY <1>1, <2>2
    <3> QED
      BY <1>3, <1>4, <1>5, <2>2, <3>1
  <2> QED
    BY <2>1, <2>2
<1>7. x \o y = z
  <2> DEFINE t == x \o y
  <2>1. t \in Seq(S) /\ z \in Seq(S) /\ Len(t) = Len(z) /\ \A i \in 1..Len(t) : t[i] = z[i]
    BY <1>4, <1>5, <1>6
  <2> HIDE DEF t
  <2>2. t = z
    BY <2>1, SeqEqual
  <2> QED
    BY <2>2 DEF t
<1> QED
  BY <1>7 DEF AreOneStretch, x, y, z

\* The blocks an export reads are as many as it needs.
LEMMA BlocksAre == ASSUME NEW length \in Nat, NEW block \in Nat \ {0}
  PROVE  /\ (length + block - 1) \div block \in Nat
         /\ length = 0 => (length + block - 1) \div block = 0
         /\ length > 0 => (length + block - 1) \div block > 0
         /\ length <= ((length + block - 1) \div block) * block
         /\ ((length + block - 1) \div block) * block < length + block
OBVIOUS

\* Multiplication keeps the order.
LEMMA MoreBlocks == ASSUME NEW i \in Nat, NEW n \in Nat, i <= n, NEW block \in Nat PROVE i * block <= n * block
<1>1. (n - i) \in Nat
  OBVIOUS
<1> DEFINE k == n - i
<1>2. k \in Nat /\ n = i + k
  BY <1>1
<1> HIDE DEF k
<1>3. (i + k) * block = i * block + k * block
  BY <1>2
<1>4. k * block \in Nat /\ i * block \in Nat
  BY <1>2
<1> QED
  BY <1>2, <1>3, <1>4

\* The sequences one after the other, where it is known what they make up so far.
LEMMA FlatIs == ASSUME NEW n \in Nat, n > 0, NEW blocks, DOMAIN blocks = 1..n, NEW f, f = [i \in 1..n |-> f[i]], f[1] = blocks[1],
                       \A i \in 2..n : f[i] = f[i - 1] \o blocks[i], Len(blocks) = n
  PROVE  FlattenSeq(blocks) = f[n]
<1> DEFINE Flat(g) == g = [i \in 1..n |-> IF i = 1 THEN blocks[i] ELSE g[i - 1] \o blocks[i]]
<1>1. Flat(f)
  <2> DEFINE h == [i \in 1..n |-> IF i = 1 THEN blocks[i] ELSE f[i - 1] \o blocks[i]]
  <2>1. ASSUME NEW i \in 1..n PROVE f[i] = h[i]
    <3>1. CASE i = 1
      BY <3>1
    <3>2. CASE i # 1
      <4>1. i \in 2..n
        BY <3>2
      <4> QED
        BY <3>2, <4>1
    <3> QED
      BY <3>1, <3>2
  <2>2. h = [i \in 1..n |-> h[i]]
    OBVIOUS
  <2> HIDE DEF h
  <2>3. f = h
    BY <2>1, <2>2
  <2> QED
    BY <2>3 DEF h
<1>2. ASSUME NEW g, Flat(g) PROVE g[n] = f[n]
  <2> DEFINE S == {i \in Nat : i + 1 \in 1..n => g[i + 1] = f[i + 1]}
  <2>0. ASSUME NEW i \in 1..n PROVE g[i] = IF i = 1 THEN blocks[i] ELSE g[i - 1] \o blocks[i]
    BY <1>2
  <2>1. 0 \in S
    <3>1. 1 \in 1..n
      OBVIOUS
    <3> QED
      BY <2>0, <3>1
  <2>2. ASSUME NEW i \in S PROVE i + 1 \in S
    <3>1. ASSUME i + 1 + 1 \in 1..n PROVE g[i + 1 + 1] = f[i + 1 + 1]
      <4>1. /\ i \in Nat /\ i + 1 \in 1..n /\ i + 1 + 1 \in 2..n /\ i + 1 + 1 # 1 /\ (i + 1 + 1) - 1 = i + 1
        BY <3>1
      <4>2. g[i + 1] = f[i + 1]
        BY <4>1
      <4>3. g[i + 1 + 1] = g[i + 1] \o blocks[i + 1 + 1]
        <5> DEFINE j == i + 1 + 1
        <5>1. j \in 1..n /\ j # 1 /\ j - 1 = i + 1
          BY <4>1
        <5> HIDE DEF j
        <5>2. g[j] = g[j - 1] \o blocks[j]
          BY <2>0, <5>1
        <5>3. g[j] = g[i + 1] \o blocks[j]
          BY <5>1, <5>2
        <5> QED
          BY <5>3 DEF j
      <4>4. f[i + 1 + 1] = f[i + 1] \o blocks[i + 1 + 1]
        BY <4>1
      <4> QED
        BY <4>2, <4>3, <4>4
    <3> QED
      BY <3>1
  <2>3. S = Nat
    <3>1. S \subseteq Nat /\ \A i \in S : i + 1 \in S
      BY <2>2
    <3> HIDE DEF S
    <3> QED
      BY <2>1, <3>1, InductionOnNat
  <2>4. n - 1 \in Nat /\ (n - 1) + 1 = n /\ n \in 1..n
    OBVIOUS
  <2> QED
    BY <2>3, <2>4
<1>3. FlattenSeq(blocks) = (CHOOSE g : Flat(g))[n]
  <2>1. Len(blocks) # 0
    OBVIOUS
  <2> QED
    BY <2>1, Zenon DEF FlattenSeq
<1> HIDE DEF Flat
<1>4. Flat(CHOOSE g : Flat(g))
  BY <1>1
<1> QED
  BY <1>2, <1>3, <1>4

\* What an export writes is the part it was asked for, as far as it can be read.
LEMMA ExportedIs == ASSUME NEW doc, NEW S, doc.audio \in Seq(S), NEW start \in Nat, NEW length \in Nat, NEW readable \in Nat,
                           start + length <= Len(doc.audio)
  PROVE  Exported(doc, start, length, readable) = Part(doc.audio, start, start + Least(length, readable))
<1> DEFINE L == Least(length, readable)
           B == ExportBlock
           n == (L + B - 1) \div B
           s == doc.audio
           blocks == [b \in 1..n |-> Part(s, start + (b - 1) * B, start + Least(b * B, L))]
           f == [b \in 1..n |-> Part(s, start, start + Least(b * B, L))]
<1>1. L \in Nat /\ L <= length
  BY DEF Least
<1>2. B \in Nat \ {0}
  BY CommandsAssumption
<1>3. Exported(doc, start, length, readable) = FlattenSeq(blocks)
  BY DEF Exported
<1> HIDE DEF B, L
<1>4. n \in Nat /\ (L = 0 => n = 0) /\ (L > 0 => n > 0) /\ L <= n * B /\ n * B < L + B
  BY <1>1, <1>2, BlocksAre
<1> HIDE DEF n
<1>5. s \in Seq(S) /\ start + L <= Len(s) /\ Len(s) \in Nat
  BY <1>1
<1> HIDE DEF s
<1>6. DOMAIN blocks = 1..n /\ Len(blocks) = n
  <2>1. DOMAIN blocks = 1..n
    OBVIOUS
  <2>2. blocks \in Seq({blocks[b] : b \in 1..n}) /\ Len(blocks) = n
    <3>1. blocks \in [1..n -> {blocks[b] : b \in 1..n}]
      OBVIOUS
    <3> HIDE DEF blocks
    <3> QED
      BY <1>4, <3>1, SeqIs
  <2> QED
    BY <2>1, <2>2
<1>7. CASE L = 0
  <2>1. n = 0
    BY <1>4, <1>7
  <2>2. FlattenSeq(blocks) = blocks
    BY <1>6, <2>1, Zenon DEF FlattenSeq
  <2>3. blocks = <<>>
    BY <2>1
  <2>4. Part(s, start, start + L) = <<>>
    <3>1. start + L = start /\ start <= start /\ start <= Len(s) /\ start - start = 0
      BY <1>5, <1>7
    <3>2. Part(s, start, start) \in Seq(S) /\ Len(Part(s, start, start)) = start - start
      BY <1>5, <3>1, PartIs
    <3> QED
      BY <3>1, <3>2
  <2> QED
    BY <1>3, <2>2, <2>3, <2>4 DEF s, L
<1>8. CASE L > 0
  <2>1. n > 0
    BY <1>4, <1>8
  <2>2. ASSUME NEW i \in 1..n PROVE f[i] = Part(s, start, start + Least(i * B, L))
                                    /\ blocks[i] = Part(s, start + (i - 1) * B, start + Least(i * B, L))
    OBVIOUS
  <2>3. f[1] = blocks[1]
    <3>1. 1 \in 1..n /\ start + (1 - 1) * B = start
      <4>1. 1 - 1 = 0 /\ 0 * B = 0 /\ start + 0 = start
        BY <1>2
      <4>2. 1 \in 1..n
        BY <1>4, <2>1
      <4> QED
        BY <4>1, <4>2
    <3> QED
      BY <2>2, <3>1
  <2>4. ASSUME NEW i \in 2..n PROVE f[i] = f[i - 1] \o blocks[i]
    <3>1. i \in 1..n /\ i - 1 \in 1..n /\ i - 1 \in Nat /\ n - 1 \in Nat /\ i - 1 <= n - 1 /\ i \in Nat
      BY <1>4
    <3> DEFINE k == (i - 1) * B
               m == Least(i * B, L)
    <3>2. k \in Nat /\ k <= (n - 1) * B
      <4>1. B \in Nat
        BY <1>2
      <4>2. (i - 1) * B <= (n - 1) * B
        BY <3>1, <4>1, MoreBlocks
      <4>3. (i - 1) * B \in Nat
        BY <3>1, <4>1
      <4> QED
        BY <4>2, <4>3
    <3>3. (n - 1) * B < L
      <4>1. (n - 1) * B = n * B - B
        BY <1>2, <1>4
      <4>2. n * B \in Nat
        BY <1>2, <1>4
      <4> QED
        BY <1>1, <1>2, <1>4, <4>1, <4>2
    <3>4. i * B = k + B /\ i * B \in Nat
      BY <1>2, <3>1
    <3>5. (n - 1) * B \in Int
      BY <1>2, <3>1
    <3>6. k < L
      <4> DEFINE j == (n - 1) * B
      <4>1. j \in Int /\ k <= j /\ j < L
        BY <3>2, <3>3, <3>5
      <4> HIDE DEF j, k
      <4> QED
        BY <1>1, <3>2, <4>1
    <3>7. Least((i - 1) * B, L) = k
      BY <3>6 DEF Least
    <3> DEFINE w == i * B
    <3>9. w = k + B /\ w \in Nat /\ m = Least(w, L)
      BY <3>4
    <3> HIDE DEF k, w, m
    <3>8. m \in Nat /\ k <= m /\ m <= L
      BY <1>1, <1>2, <3>2, <3>6, <3>9 DEF Least
    <3>10. /\ start \in Nat /\ start + k \in Nat /\ start + m \in Nat /\ start <= start + k /\ start + k <= start + m
           /\ start + m <= Len(s)
      BY <1>1, <1>5, <3>2, <3>8
    <3>11. AreOneStretch(s, start, start + k, start + m)
      BY <1>5, <3>10, OneStretch
    <3>12. f[i - 1] = Part(s, start, start + k)
      <4>1. f[i - 1] = Part(s, start, start + Least((i - 1) * B, L))
        BY <2>2, <3>1
      <4> QED
        BY <3>7, <4>1
    <3>13. f[i] = Part(s, start, start + m) /\ blocks[i] = Part(s, start + k, start + m)
      BY <2>2, <3>1 DEF k, m
    <3> HIDE DEF f, blocks
    <3> QED
      BY <3>11, <3>12, <3>13 DEF AreOneStretch
  <2>5. f[n] = Part(s, start, start + L)
    <3>1. n \in 1..n
      BY <1>4, <2>1
    <3>2. n * B \in Nat
      BY <1>2, <1>4
    <3>3. Least(n * B, L) = L
      <4> DEFINE w == n * B
      <4>1. w \in Nat /\ L <= w
        BY <1>4, <3>2
      <4> HIDE DEF w
      <4>2. Least(w, L) = L
        BY <1>1, <4>1 DEF Least
      <4> QED
        BY <4>2 DEF w
    <3> QED
      BY <2>2, <3>1, <3>3
  <2>6. f = [i \in 1..n |-> f[i]]
    OBVIOUS
  <2> HIDE DEF f, blocks
  <2>7. FlattenSeq(blocks) = f[n]
    BY <1>4, <1>6, <2>1, <2>3, <2>4, <2>6, FlatIs
  <2> QED
    BY <1>3, <2>5, <2>7 DEF s, L
<1> QED
  BY <1>1, <1>7, <1>8

\* The beginning of a stretch begins it.
LEMMA PartBegins == ASSUME NEW S, NEW s \in Seq(S), NEW a \in Nat, NEW b \in Nat, NEW c \in Nat, a <= b, b <= c, c <= Len(s)
  PROVE  IsPrefix(Part(s, a, b), Part(s, a, c))
<1> DEFINE x == Part(s, a, b)
           z == Part(s, a, c)
           n == b - a
           y == Part(z, 0, n)
<1>1. /\ b <= Len(s) /\ a <= c /\ n \in Nat /\ c - a \in Nat /\ n <= c - a /\ 0 <= n /\ n - 0 = n
  OBVIOUS
<1>2. x \in Seq(S) /\ Len(x) = n /\ \A i \in 1..n : x[i] = s[a + i]
  BY <1>1, PartIs
<1>3. z \in Seq(S) /\ Len(z) = c - a /\ \A i \in 1..c - a : z[i] = s[a + i]
  BY <1>1, PartIs
<1> HIDE DEF x, z, n
<1>4. y \in Seq(S) /\ Len(y) = n /\ \A i \in 1..n : y[i] = z[i]
  <2>1. z \in Seq(S) /\ 0 \in Nat /\ n \in Nat /\ 0 <= n /\ n <= Len(z)
    BY <1>1, <1>3
  <2>2. /\ Part(z, 0, n) \in Seq(S) /\ Len(Part(z, 0, n)) = n - 0
        /\ \A i \in 1..n - 0 : Part(z, 0, n)[i] = z[0 + i]
    BY <2>1, PartIs
  <2> QED
    BY <1>1, <2>2
<1>5. y = SubSeq(z, 1, n)
  BY DEF Part
<1> HIDE DEF y
<1>6. y = x
  <2>1. x \in Seq(S) /\ y \in Seq(S) /\ Len(x) = Len(y) /\ \A i \in 1..Len(x) : x[i] = y[i]
    <3>1. \A i \in 1..n : i \in 1..c - a
      BY <1>1
    <3>2. \A i \in 1..n : x[i] = y[i]
      BY <1>2, <1>3, <1>4, <3>1
    <3> QED
      BY <1>2, <1>4, <3>2
  <2> QED
    BY <2>1, SeqEqual
<1>7. SubSeq(x, 1, Len(x)) = x
  BY <1>2
<1> QED
  BY <1>1, <1>2, <1>3, <1>5, <1>6, <1>7 DEF IsPrefix, x, z

\* An export changes no document, and writes the range it was asked for.
LEMMA ExportKeeps == ASSUME CommandsInv, NEW container, NEW selectionOnly, NEW readable \in Nat, NEW writes, writes \in BOOLEAN,
                            exportTo(container, selectionOnly, readable, writes)
  PROVE  CommandsInv'
<1> DEFINE range == IF selectionOnly /\ ~IsEmpty(selection) THEN selection ELSE [start |-> 0, end |-> Duration(document)]
           format == Narrowed(container, exporting.format)
           what == [range |-> range, file |-> Exported(document, range.start, range.end - range.start, readable),
                    format |-> format, container |-> container, dithered |-> format = "16" /\ exporting.dither # "none",
                    readable |-> readable]
<1>1. /\ Command /\ UNCHANGED <<document, past, future>> /\ selection' = selection /\ playing' = playing /\ enabled' = enabled
      /\ UNCHANGED <<clipboard, learned>> /\ batch' = batch /\ Report(Told("export", writes, what))
  BY DEF exportTo, Unedited, Kept, Settled
<1>2. /\ selection.start \in Nat /\ selection.end \in Nat /\ selection.start <= selection.end
      /\ selection.end <= Duration(document) /\ Duration(document) \in Nat /\ document.audio \in Seq(InDocument)
  BY TargetIs DEF CommandsInv
<1>3. range.start \in Nat /\ range.end \in Nat /\ range.start <= range.end /\ range.end <= Duration(document)
  <2>1. CASE selectionOnly /\ ~IsEmpty(selection)
    BY <1>2, <2>1
  <2>2. CASE ~(selectionOnly /\ ~IsEmpty(selection))
    <3>1. range = [start |-> 0, end |-> Duration(document)]
      BY <2>2
    <3> HIDE DEF range
    <3>2. range.start = 0 /\ range.end = Duration(document)
      BY <3>1
    <3> QED
      BY <1>2, <3>2
  <2> QED
    BY <2>1, <2>2
<1>4. /\ what.range = range /\ what.file = Exported(document, range.start, range.end - range.start, readable)
      /\ what.format = format /\ what.container = container /\ what.dithered = (format = "16" /\ exporting.dither # "none")
      /\ what.readable = readable
  OBVIOUS
<1> HIDE DEF what, range
<1>5. /\ done'.name = "export" /\ done'.says = writes /\ done'.what = what
      /\ scriptExit' = IF batch /\ ~writes THEN "1" ELSE scriptExit
  BY <1>1 DEF Report, Told
<1>6. ExportsAreWhole'
  <2> DEFINE a == range.start
             e == range.end
             asked == Part(document.audio, a, e)
  <2>1. what.file = Part(document.audio, a, a + Least(e - a, readable))
    <3>1. /\ document.audio \in Seq(InDocument) /\ a \in Nat /\ e - a \in Nat /\ readable \in Nat
          /\ a + (e - a) <= Len(document.audio)
      BY <1>2, <1>3 DEF Duration
    <3> HIDE DEF a, e
    <3>2. Exported(document, a, e - a, readable) = Part(document.audio, a, a + Least(e - a, readable))
      BY <3>1, ExportedIs
    <3> QED
      BY <1>4, <3>2 DEF a, e
  <2>2. a \in Nat /\ e \in Nat /\ a <= e /\ e <= Len(document.audio)
    BY <1>3 DEF Duration
  <2> HIDE DEF a, e
  <2>3. readable >= e - a => what.file = asked
    <3>1. ASSUME readable >= e - a PROVE a + Least(e - a, readable) = e
      <4>1. Least(e - a, readable) = e - a
        BY <2>2, <3>1 DEF Least
      <4> QED
        BY <2>2, <4>1
    <3> QED
      BY <2>1, <3>1
  <2>4. IsPrefix(what.file, asked)
    <3> DEFINE b == a + Least(e - a, readable)
    <3>1. b \in Nat /\ a <= b /\ b <= e
      BY <2>2 DEF Least
    <3> HIDE DEF b
    <3>2. /\ document.audio \in Seq(InDocument) /\ a \in Nat /\ b \in Nat /\ e \in Nat /\ a <= b /\ b <= e
          /\ e <= Len(document.audio)
      BY <1>2, <2>2, <3>1
    <3>3. IsPrefix(Part(document.audio, a, b), Part(document.audio, a, e))
      BY <3>2, PartBegins
    <3> QED
      BY <2>1, <3>3 DEF b
  <2>5. what.container = "flac" => what.format \in {"16", "24"}
    BY <1>4 DEF Narrowed
  <2>6. what.dithered => what.format = "16"
    BY <1>4
  <2>7. document' = document
    BY <1>1
  <2> QED
    BY <1>4, <1>5, <2>3, <2>4, <2>5, <2>6, <2>7 DEF ExportsAreWhole, a, e
<1>7. DoneHolds'
  <2>1. "export" \notin DOMAIN Effects
    BY DEF Effects
  <2>2. OnlyTheTargetChanges' /\ EdgesAreBlended'
    BY <1>5, <2>1 DEF OnlyTheTargetChanges, EdgesAreBlended
  <2>3. CutsCanBePasted'
    BY <1>5 DEF CutsCanBePasted
  <2>4. ScriptsStopAtARefusal'
    BY <1>1, <1>5 DEF ScriptsStopAtARefusal
  <2> QED
    BY <1>6, <2>2, <2>3, <2>4 DEF DoneHolds
<1>8. DocumentsHold'
  <2>1. playing' \in {"no", "current"} /\ Selected(selection', Duration(document)) /\ DocumentsHold
    BY <1>1 DEF CommandsInv, DocumentsHold
  <2>2. commands' \in {commands, commands + 1}
    BY <1>1 DEF Command
  <2> QED
    BY <1>1, <2>1, <2>2, UneditedKeeps
<1>9. MenusAreCurrent'
  BY <1>1, MenusStay DEF CommandsInv
<1> QED
  BY <1>1, <1>7, <1>8, <1>9 DEF CommandsInv
-------------------------------------------------------------------------------
(* The whole.                                                                *)

\* A recording as it is opened.
LEMMA OpenedIs == ASSUME NEW n \in Nat, n > 0, NEW markers \in FirstMarkers(n)
  PROVE  DocHolds([audio |-> [i \in 1..n |-> <<0, i>>], markers |-> markers], 0)
<1> DEFINE audio == [i \in 1..n |-> <<0, i>>]
           doc == [audio |-> audio, markers |-> markers]
           half == n \div 2
           first == [position |-> half, length |-> 1, at |-> <<0, half + 1>>]
<1>1. half \in Nat /\ half < n /\ half + 1 \in 1..n
  OBVIOUS
<1>2. audio \in Seq(InDocument) /\ Len(audio) = n /\ \A i \in 1..n : audio[i] = <<0, i>> /\ audio[i] \in Sample
  <2>1. ASSUME NEW i \in 1..n PROVE <<0, i>> \in Sample
    BY DEF Sample
  <2>2. audio \in [1..n -> InDocument]
    BY <2>1 DEF InDocument
  <2>3. \A i \in 1..n : audio[i] = <<0, i>>
    OBVIOUS
  <2> HIDE DEF audio
  <2>4. audio \in Seq(InDocument) /\ Len(audio) = n
    BY <2>2, SeqIs
  <2> QED
    BY <2>1, <2>3, <2>4
<1>3. markers = <<>> \/ markers = <<first>>
  BY DEF FirstMarkers
<1>4. first \in MarkerType /\ first.position = half /\ first.at = <<0, half + 1>>
  <2>1. <<0, half + 1>> \in Sample
    BY <1>1 DEF Sample
  <2> QED
    BY <1>1, <2>1 DEF MarkerType
<1> HIDE DEF audio, half, first
<1>5. markers \in Seq(MarkerType) /\ (Len(markers) = 0 \/ (Len(markers) = 1 /\ markers[1] = first))
  <2>1. CASE markers = <<>>
    BY <2>1
  <2>2. CASE markers = <<first>>
    BY <1>4, <2>2
  <2> QED
    BY <1>3, <2>1, <2>2
<1>6. doc \in Doc /\ doc.audio = audio /\ doc.markers = markers
  BY <1>2, <1>5 DEF Doc
<1>7. Unique(audio)
  BY <1>2 DEF Unique
<1>8. InTime(markers)
  BY <1>5 DEF InTime
<1>9. ASSUME NEW k \in 1..Len(markers) PROVE OnItsSample(markers[k], audio) /\ Until(markers[k].at, 0)
  <2>1. markers[k] = first
    BY <1>5
  <2>2. OnItsSample(first, audio)
    BY <1>1, <1>2, <1>4 DEF OnItsSample
  <2>3. Until(first.at, 0)
    BY <1>4 DEF Until
  <2> QED
    BY <2>1, <2>2, <2>3
<1>10. ASSUME NEW i \in 1..Len(audio) PROVE Until(audio[i], 0)
  BY <1>2 DEF Until
<1> HIDE DEF doc
<1>11. DocHolds(doc, 0)
  BY <1>6, <1>7, <1>8, <1>9, <1>10 DEF DocHolds
<1> QED
  BY <1>11 DEF doc, audio

\* The invariant holds of a recording that has just been opened.
LEMMA InitCommands == CommandsInit => CommandsInv
<1> SUFFICES ASSUME CommandsInit PROVE CommandsInv
  OBVIOUS
<1>1. document \in Docs(0)
  <2>1. PICK n \in Lengths : \E markers \in FirstMarkers(n) : document = [audio |-> [i \in 1..n |-> <<0, i>>], markers |-> markers]
    BY DEF CommandsInit
  <2>2. PICK markers \in FirstMarkers(n) : document = [audio |-> [i \in 1..n |-> <<0, i>>], markers |-> markers]
    BY <2>1
  <2>3. n \in Nat /\ n > 0
    BY CommandsAssumption
  <2>4. DocHolds([audio |-> [i \in 1..n |-> <<0, i>>], markers |-> markers], 0)
    BY <2>3, OpenedIs
  <2> QED
    BY <2>2, <2>4, DocsAre
<1>2. Selected(selection, Duration(document))
  <2>1. PICK p \in Points, q \in Points : p <= q /\ selection = Clamped([start |-> p, end |-> q], document)
    BY DEF CommandsInit
  <2> DEFINE range == [start |-> p, end |-> q]
  <2>2. range.start \in Nat /\ range.end \in Nat /\ range.start <= range.end
    BY <2>1, CommandsAssumption
  <2>3. Duration(document) \in Nat
    BY <1>1, DocDuration
  <2>4. selection = Clamped(range, document)
    BY <2>1
  <2> HIDE DEF range
  <2> QED
    BY <2>2, <2>3, <2>4, ClampedIs
<1>3. /\ past = <<>> /\ future = <<>> /\ playing = "no" /\ commands = 0 /\ scriptExit = "running"
      /\ enabled = Offered /\ done = Told("none", TRUE, "no more")
      /\ clipboard.audio = IF document.markers = <<>> THEN <<>> ELSE <<Silence>>
  BY DEF CommandsInit, Note
<1>4. DocumentsHold
  <2>1. commands \in Nat /\ document \in Docs(commands) /\ past \in Seq(Docs(commands)) /\ future \in Seq(Docs(commands))
    <3>1. <<>> \in Seq(Docs(0))
      OBVIOUS
    <3>2. 0 \in Nat /\ document \in Docs(0) /\ <<>> \in Seq(Docs(0))
      BY <1>1, <3>1
    <3> QED
      BY <1>3, <3>2, Zenon
  <2> QED
    BY <1>2, <1>3, <2>1 DEF DocumentsHold
<1>5. clipboard.audio \in Seq(InDocument)
  <2>1. <<>> \in Seq(InDocument) /\ <<Silence>> \in Seq(InDocument)
    BY DEF InDocument
  <2> QED
    BY <1>3, <2>1
<1>6. DoneHolds
  <2>1. done.name = "none" /\ done.says
    BY <1>3 DEF Told
  <2>2. "none" \notin DOMAIN Effects
    BY DEF Effects
  <2>3. OnlyTheTargetChanges /\ EdgesAreBlended
    BY <2>1, <2>2 DEF OnlyTheTargetChanges, EdgesAreBlended
  <2>4. CutsCanBePasted /\ ExportsAreWhole /\ ScriptsStopAtARefusal
    BY <2>1 DEF CutsCanBePasted, ExportsAreWhole, ScriptsStopAtARefusal
  <2> QED
    BY <2>3, <2>4 DEF DoneHolds
<1>7. MenusAreCurrent
  BY <1>3 DEF MenusAreCurrent
<1> QED
  BY <1>4, <1>5, <1>6, <1>7 DEF CommandsInv

\* Every step of the commands keeps it: those that repair,
LEMMA RepairKeeps == ASSUME CommandsInv, Repair PROVE CommandsInv'
<1>1. CASE \E name \in DOMAIN Effects, readable, usable, found \in BOOLEAN : process(name, readable, usable, found)
  <2>1. PICK name \in DOMAIN Effects, readable \in BOOLEAN, usable \in BOOLEAN, found \in BOOLEAN : process(name, readable, usable, found)
    BY <1>1
  <2> QED
    BY <2>1, ProcessKeeps
<1>2. CASE \E readable \in BOOLEAN, count \in {1, 3} : applyTimeStretch(readable, count)
  <2>1. PICK readable \in BOOLEAN, count \in {1, 3} : applyTimeStretch(readable, count)
    BY <1>2
  <2>2. count \in Nat
    OBVIOUS
  <2> QED
    BY <2>1, <2>2, StretchKeeps
<1>3. CASE \E name \in DOMAIN Effects, changed \in BOOLEAN : doesNotApply(name, changed)
  BY <1>3, FailureKeepsCommands
<1> QED
  BY <1>1, <1>2, <1>3 DEF Repair

\* those that edit,
LEMMA EditsKeep == ASSUME CommandsInv, Edit PROVE CommandsInv'
<1>1. CASE \E readable \in BOOLEAN : copySelection(readable) \/ cutSelection(readable)
  BY <1>1, CopySelectionKeeps, CutKeeps
<1>2. CASE \E ripple \in BOOLEAN : deleteSelection(ripple)
  BY <1>2, DeleteSelectionKeeps
<1>3. CASE trimToSelection
  BY <1>3, TrimToSelectionKeeps
<1>4. CASE pasteClipboard
  BY <1>4, PasteKeeps
<1>5. CASE undo \/ redo
  BY <1>5, UndoKeeps
<1> QED
  BY <1>1, <1>2, <1>3, <1>4, <1>5 DEF Edit

\* those about markers,
LEMMA MarksKeep == ASSUME CommandsInv, Mark PROVE CommandsInv'
<1>1. CASE addMarker \/ renameMarker \/ deleteNearestMarker \/ clearMarkers
  BY <1>1, MarkKeeps
<1>2. CASE \E forwards \in BOOLEAN : goToMarker(forwards)
  BY <1>2, WalkKeeps
<1> QED
  BY <1>1, <1>2 DEF Mark

\* and the others.
LEMMA OthersKeep == ASSUME CommandsInv, Other PROVE CommandsInv'
<1>1. CASE \E p, q \in Points : p <= q /\ select([start |-> p, end |-> q])
  <2>1. PICK p \in Points, q \in Points : p <= q /\ select([start |-> p, end |-> q])
    BY <1>1
  <2> DEFINE range == [start |-> p, end |-> q]
  <2>2. range.start \in Nat /\ range.end \in Nat /\ range.start <= range.end
    BY <2>1, CommandsAssumption
  <2>3. select(range)
    BY <2>1
  <2> HIDE DEF range
  <2> QED
    BY <2>2, <2>3, SelectKeeps
<1>2. CASE \E readable, clean \in BOOLEAN : learnNoiseProfile(readable, clean)
  BY <1>2, LearnKeeps
<1>3. CASE \E format \in {"16", "float"}, dither \in {"none", "tpdf"} : choose([format |-> format, dither |-> dither])
  BY <1>3, ChooseKeeps
<1>4. CASE unknown
  BY <1>4, UnknownKeeps
<1>5. CASE followPlayhead
  BY <1>5, EndsKeep
<1>6. CASE \E opens \in BOOLEAN : togglePlayback(opens)
  BY <1>6, PlayKeeps
<1>7. CASE \E container \in Containers, selectionOnly, writes \in BOOLEAN, readable \in {2, MostFrames} :
             exportTo(container, selectionOnly, readable, writes)
  <2>1. PICK container \in Containers, selectionOnly \in BOOLEAN, writes \in BOOLEAN, readable \in {2, MostFrames} :
               exportTo(container, selectionOnly, readable, writes)
    BY <1>7
  <2>2. readable \in Nat
    BY CommandsAssumption
  <2> QED
    BY <2>1, <2>2, ExportKeeps
<1>8. CASE \E complete \in BOOLEAN : endBatch(complete)
  BY <1>8, EndsKeep
<1> QED
  BY <1>1, <1>2, <1>3, <1>4, <1>5, <1>6, <1>7, <1>8 DEF Other

\* So every step does,
LEMMA CommandsKeep == ASSUME CommandsInv, CommandsNext PROVE CommandsInv'
BY RepairKeeps, EditsKeep, MarksKeep, OthersKeep DEF CommandsNext

\* and so does every step of which the commands are no part.
LEMMA CommandsStand == ASSUME CommandsInv, UNCHANGED commandVars PROVE CommandsInv'
<1>1. /\ UNCHANGED <<document, past, future, halfChanged, learned, enabled, batch, done, scriptExit>>
      /\ clipboard' = clipboard /\ selection' = selection /\ playing' = playing /\ commands' = commands
  BY DEF commandVars
<1>2. DocumentsHold'
  BY <1>1 DEF CommandsInv, DocumentsHold, Selected, Duration
<1>3. MenusAreCurrent'
  BY <1>1, MenusStay DEF CommandsInv
<1>4. DoneHolds'
  <2>1. OnlyTheTargetChanges' /\ EdgesAreBlended'
    BY <1>1 DEF CommandsInv, DoneHolds, OnlyTheTargetChanges, EdgesAreBlended, Duration
  <2>2. CutsCanBePasted'
    BY <1>1 DEF CommandsInv, DoneHolds, CutsCanBePasted, Duration, insertAudio
  <2>3. ExportsAreWhole' /\ ScriptsStopAtARefusal'
    BY <1>1 DEF CommandsInv, DoneHolds, ExportsAreWhole, ScriptsStopAtARefusal
  <2> QED
    BY <2>1, <2>2, <2>3 DEF DoneHolds
<1> QED
  BY <1>1, <1>2, <1>3, <1>4 DEF CommandsInv

\* What the invariant says of a command that was given.
LEMMA CommandsThen == ASSUME CommandsInv
  PROVE  /\ OnlyTheTargetChanges /\ EdgesAreBlended /\ CutsCanBePasted /\ MarkersStay /\ MenusAreCurrent
         /\ NothingPlaysWhatWas /\ ExportsAreWhole /\ ScriptsStopAtARefusal
<1>1. /\ DocHolds(document, commands) /\ document.audio \in Seq(InDocument) /\ Duration(document) \in Nat
      /\ Duration(document) = Len(document.audio)
  BY TargetIs DEF CommandsInv, Duration
<1>2. MarkersStay
  <2> DEFINE ms == document.markers
             audio == document.audio
  <2>1. ms \in Seq(MarkerType) /\ InTime(ms) /\ \A k \in 1..Len(ms) : OnItsSample(ms[k], audio)
    BY <1>1 DEF DocHolds, Doc
  <2>2. DOMAIN ms = 1..Len(ms) /\ DOMAIN audio = 1..Len(audio)
    BY <1>1, <2>1
  <2>3. ASSUME NEW i \in DOMAIN ms, NEW j \in DOMAIN ms, i < j PROVE ms[i].position <= ms[j].position
    BY <2>1, <2>2, <2>3 DEF InTime
  <2>4. ASSUME NEW i \in DOMAIN ms PROVE ms[i].position \in 0..Duration(document)
    <3>1. i \in 1..Len(ms)
      BY <2>2
    <3>2. ms[i] \in MarkerType
      BY <2>1, <3>1
    <3>3. ms[i].position \in Nat /\ ms[i].position <= Len(audio)
      BY <2>1, <3>1, <3>2 DEF MarkerType, OnItsSample
    <3> QED
      BY <1>1, <3>3
  <2>5. ASSUME NEW i \in DOMAIN ms, ms[i].at \in ToSet(audio) \ {Silence} PROVE SampleAt(document, ms[i].position) = ms[i].at
    <3>1. PICK k \in 1..Len(audio) : audio[k] = ms[i].at
      BY <2>2, <2>5 DEF ToSet
    <3>2. OnItsSample(ms[i], audio) /\ ms[i].at # Silence
      BY <2>1, <2>2, <2>5
    <3>3. k = ms[i].position + 1
      BY <3>1, <3>2 DEF OnItsSample
    <3>4. ms[i].position \in Nat
      BY <2>4
    <3> HIDE DEF ms, audio
    <3>5. ms[i].position < Len(audio)
      BY <3>3, <3>4
    <3> QED
      BY <1>1, <3>1, <3>3, <3>5 DEF SampleAt, audio
  <2> QED
    BY <2>3, <2>4, <2>5 DEF MarkersStay
<1>3. NothingPlaysWhatWas
  BY DEF CommandsInv, DocumentsHold, NothingPlaysWhatWas
<1> QED
  BY <1>2, <1>3 DEF CommandsInv, DoneHolds

\* Min and Max of two.
LEMMA MinOfTwo == ASSUME NEW a \in Int, NEW b \in Int PROVE Min({a, b}) = IF a <= b THEN a ELSE b
<1>1. CASE a <= b
  <2>1. a \in {a, b} /\ \A y \in {a, b} : a <= y
    BY <1>1
  <2>2. \A x \in {a, b} : (\A y \in {a, b} : x <= y) => x = a
    BY <1>1
  <2> QED
    BY <1>1, <2>1, <2>2 DEF Min
<1>2. CASE ~(a <= b)
  <2>1. b \in {a, b} /\ \A y \in {a, b} : b <= y
    BY <1>2
  <2>2. \A x \in {a, b} : (\A y \in {a, b} : x <= y) => x = b
    BY <1>2
  <2> QED
    BY <1>2, <2>1, <2>2 DEF Min
<1> QED
  BY <1>1, <1>2

\* The larger.
LEMMA MaxOfTwo == ASSUME NEW a \in Int, NEW b \in Int PROVE Max({a, b}) = IF a >= b THEN a ELSE b
<1>1. CASE a >= b
  <2>1. a \in {a, b} /\ \A y \in {a, b} : a >= y
    BY <1>1
  <2>2. \A x \in {a, b} : (\A y \in {a, b} : x >= y) => x = a
    BY <1>1
  <2> QED
    BY <1>1, <2>1, <2>2 DEF Max
<1>2. CASE ~(a >= b)
  <2>1. b \in {a, b} /\ \A y \in {a, b} : b >= y
    BY <1>2
  <2>2. \A x \in {a, b} : (\A y \in {a, b} : x >= y) => x = b
    BY <1>2
  <2> QED
    BY <1>2, <2>1, <2>2 DEF Max
<1> QED
  BY <1>1, <1>2

-------------------------------------------------------------------------------
(* What is remembered between runs: loops over lists.                         *)

\* Induction, for sets of numbers.
LEMMA FromZero == ASSUME NEW S, S \subseteq Nat, 0 \in S, \A n \in S : n + 1 \in S PROVE S = Nat
<1> SUFFICES ASSUME Nat \ S # {} PROVE FALSE
  OBVIOUS
<1>1. PICK x \in Nat \ S : \A y \in Nat \ S : x <= y
  BY LeastOfAll
<1>2. x # 0 /\ x - 1 \in Nat /\ ~(x <= x - 1) /\ x - 1 + 1 = x
  BY <1>1
<1>3. x - 1 \in S
  BY <1>1, <1>2
<1> QED
  BY <1>1, <1>2, <1>3

\* A loop that makes one value of another in every turn is a function.
Loops(N, base, step, f) == f = [n \in 0..N |-> IF n = 0 THEN base ELSE step[<<n, f[n - 1]>>]]

\* There is one for every step.
LEMMA LoopRuns ==
  ASSUME NEW N \in Nat, NEW V, NEW base \in V, NEW step \in [(1..N) \X V -> V]
  PROVE  \E f \in [0..N -> V] : Loops(N, base, step, f)
<1> DEFINE Runs(m) == \E f \in [0..m -> V] : f[0] = base /\ \A n \in 1..m : f[n] = step[<<n, f[n - 1]>>]
           Has == {m \in Nat : m <= N => Runs(m)}
<1>1. 0 \in Has
  <2> DEFINE f == [n \in 0..0 |-> base]
  <2>1. f \in [0..0 -> V] /\ f[0] = base /\ \A n \in 1..0 : f[n] = step[<<n, f[n - 1]>>]
    OBVIOUS
  <2>2. Runs(0)
    BY <2>1
  <2> QED
    BY <2>2
<1>2. ASSUME NEW m \in Has PROVE m + 1 \in Has
  <2> SUFFICES ASSUME m + 1 <= N PROVE Runs(m + 1)
    OBVIOUS
  <2>1. m \in Nat /\ m <= N
    OBVIOUS
  <2>2. PICK g \in [0..m -> V] : g[0] = base /\ \A n \in 1..m : g[n] = step[<<n, g[n - 1]>>]
    BY <2>1
  <2> DEFINE f == [n \in 0..(m + 1) |-> IF n = m + 1 THEN step[<<n, g[n - 1]>>] ELSE g[n]]
  <2>3. step[<<m + 1, g[m]>>] \in V
    BY <2>1, <2>2
  <2>4. f \in [0..(m + 1) -> V]
    <3>1. \A n \in 0..(m + 1) : n # m + 1 => n \in 0..m
      BY <2>1
    <3>2. \A n \in 0..(m + 1) : (IF n = m + 1 THEN step[<<n, g[n - 1]>>] ELSE g[n]) \in V
      BY <2>1, <2>2, <2>3, <3>1
    <3> QED
      BY <3>2
  <2>5. f[0] = base
    BY <2>1, <2>2
  <2>6. ASSUME NEW n \in 1..(m + 1) PROVE f[n] = step[<<n, f[n - 1]>>]
    <3>1. n \in 0..(m + 1) /\ n - 1 \in 0..(m + 1) /\ n - 1 # m + 1 /\ f[n - 1] = g[n - 1]
      BY <2>1
    <3>2. n # m + 1 => n \in 1..m
      BY <2>1
    <3> QED
      BY <2>2, <3>1, <3>2
  <2> HIDE DEF f
  <2> QED
    BY <2>4, <2>5, <2>6
<1>3. Has = Nat
  <2> HIDE DEF Has
  <2>1. Has \subseteq Nat
    BY DEF Has
  <2> QED
    BY <1>1, <1>2, <2>1, FromZero
<1>4. PICK f \in [0..N -> V] : f[0] = base /\ \A n \in 1..N : f[n] = step[<<n, f[n - 1]>>]
  <2>1. N \in Has
    BY <1>3, Zenon
  <2> QED
    BY <2>1
<1>5. Loops(N, base, step, f)
  <2>1. \A n \in 0..N : f[n] = IF n = 0 THEN base ELSE step[<<n, f[n - 1]>>]
    BY <1>4
  <2> QED
    BY <1>4, <2>1 DEF Loops
<1> QED
  BY <1>5

\* forget() goes over the list once, from its beginning.
Forgets(paths, path, f) ==
  f = [n \in 0..Len(paths) |-> IF n = 0 THEN <<>>
                               ELSE IF tidied(paths[n]) = tidied(path) THEN f[n - 1]
                               ELSE Append(f[n - 1], paths[n])]
ForgetsIn(paths, path, f) ==
  /\ f[0] = <<>>
  /\ \A n \in 1..Len(paths) : f[n] = IF tidied(paths[n]) = tidied(path) THEN f[n - 1] ELSE Append(f[n - 1], paths[n])

\* So the loop is a function of the turns, each list made of the last.
LEMMA ForgetRuns == ASSUME NEW paths \in Seq(Int), NEW path
  PROVE  \E f \in [0..Len(paths) -> Seq(Int)] : forgotten(paths, path) = f[Len(paths)] /\ ForgetsIn(paths, path, f)
<1> DEFINE N == Len(paths)
           step == [p \in (1..N) \X Seq(Int) |-> IF tidied(paths[p[1]]) = tidied(path) THEN p[2] ELSE Append(p[2], paths[p[1]])]
<1>1. N \in Nat /\ <<>> \in Seq(Int) /\ \A n \in 1..N : paths[n] \in Int
  OBVIOUS
<1>2. step \in [(1..N) \X Seq(Int) -> Seq(Int)]
  <2>1. ASSUME NEW p \in (1..N) \X Seq(Int)
        PROVE  (IF tidied(paths[p[1]]) = tidied(path) THEN p[2] ELSE Append(p[2], paths[p[1]])) \in Seq(Int)
    <3>1. p[1] \in 1..N /\ p[2] \in Seq(Int)
      OBVIOUS
    <3> QED
      BY <1>1, <3>1, AppendIs
  <2> QED
    BY <2>1
<1> HIDE DEF step
<1>3. PICK g \in [0..N -> Seq(Int)] : Loops(N, <<>>, step, g)
  <2> HIDE DEF N
  <2> QED
    BY <1>1, <1>2, LoopRuns
<1>4. Forgets(paths, path, g)
  <2>1. ASSUME NEW n \in 0..N, n # 0
        PROVE  step[<<n, g[n - 1]>>] = IF tidied(paths[n]) = tidied(path) THEN g[n - 1] ELSE Append(g[n - 1], paths[n])
    <3>1. n \in 1..N /\ n - 1 \in 0..N
      BY <1>1, <2>1
    <3>2. g[n - 1] \in Seq(Int)
      BY <1>3, <3>1
    <3> QED
      BY <3>1, <3>2 DEF step
  <2>2. [n \in 0..N |-> IF n = 0 THEN <<>> ELSE step[<<n, g[n - 1]>>]]
          = [n \in 0..N |-> IF n = 0 THEN <<>> ELSE IF tidied(paths[n]) = tidied(path) THEN g[n - 1] ELSE Append(g[n - 1], paths[n])]
    BY <2>1
  <2> QED
    BY <1>3, <2>2, Zenon DEF Forgets, Loops
<1> DEFINE f == CHOOSE h : Forgets(paths, path, h)
<1>5. forgotten(paths, path) = f[N] /\ Forgets(paths, path, f)
  BY <1>4, Zenon DEF forgotten, Forgets
<1> HIDE DEF f
<1>6. DOMAIN f = 0..N /\ f[0] = <<>> /\ \A n \in 1..N : f[n] = IF tidied(paths[n]) = tidied(path) THEN f[n - 1] ELSE Append(f[n - 1], paths[n])
  <2>1. \A n \in 0..N : f[n] = IF n = 0 THEN <<>> ELSE IF tidied(paths[n]) = tidied(path) THEN f[n - 1] ELSE Append(f[n - 1], paths[n])
    BY <1>5, Zenon DEF Forgets
  <2>2. DOMAIN f = 0..N
    BY <1>5, Zenon DEF Forgets
  <2>3. 0 \in 0..N /\ \A n \in 1..N : n \in 0..N /\ n # 0
    BY <1>1
  <2> QED
    BY <2>1, <2>2, <2>3
<1>7. f \in [0..N -> Seq(Int)]
  <2> DEFINE Has == {m \in Nat : m <= N => f[m] \in Seq(Int)}
  <2>1. 0 \in Has
    BY <1>1, <1>6
  <2>2. ASSUME NEW m \in Has PROVE m + 1 \in Has
    <3> SUFFICES ASSUME m + 1 <= N PROVE f[m + 1] \in Seq(Int)
      OBVIOUS
    <3>1. m + 1 \in 1..N /\ m + 1 - 1 = m /\ f[m] \in Seq(Int)
      BY <1>1
    <3>2. Append(f[m], paths[m + 1]) \in Seq(Int)
      BY <1>1, <3>1, AppendIs
    <3>3. f[m + 1] = IF tidied(paths[m + 1]) = tidied(path) THEN f[m] ELSE Append(f[m], paths[m + 1])
      BY <1>6, <3>1
    <3> QED
      BY <3>1, <3>2, <3>3
  <2>3. Has = Nat
    <3> HIDE DEF Has
    <3>1. Has \subseteq Nat
      BY DEF Has
    <3> QED
      BY <2>1, <2>2, <3>1, FromZero
  <2>4. \A m \in 0..N : f[m] \in Seq(Int)
    <3>1. \A m \in 0..N : m \in Nat /\ m <= N
      BY <1>1
    <3>2. \A m \in 0..N : m \in Has
      BY <2>3, <3>1, Zenon
    <3> QED
      BY <3>1, <3>2
  <2>5. f = [n \in 0..N |-> f[n]]
    BY <1>5, Zenon DEF Forgets
  <2> QED
    BY <2>4, <2>5
<1> QED
  BY <1>5, <1>6, <1>7 DEF ForgetsIn

\* A number below the one it is divided by is the remainder.
LEMMA SmallStays == ASSUME NEW a \in Nat, NEW m \in Nat, a < m PROVE a % m = a
<1>1. a = m * 0 + a
  OBVIOUS
<1> QED
  BY <1>1

\* What is tidied stays as it is.
LEMMA TidiedIs == ASSUME NEW path \in Int PROVE tidied(path) \in Int /\ tidied(tidied(path)) = tidied(path)
<1>1. Respelled \in Nat /\ Respelled > 0
  BY SettingsAssumption
<1>2. path % Respelled \in Nat /\ path % Respelled < Respelled
  BY <1>1
<1> QED
  BY <1>1, <1>2, SmallStays DEF tidied

\* A recent list: as long as it may be, of tidied paths, each of them once.
OnceEach(l) == \A i, j \in 1..Len(l) : l[i] = l[j] => i = j
Recent(l) == /\ l \in Seq(Int) /\ Len(l) <= kMost /\ OnceEach(l)
             /\ \A i \in 1..Len(l) : tidied(l[i]) = l[i]

\* A place in what is one longer.
LEMMA InOrNext == ASSUME NEW n \in Nat, NEW i \in 1..(n + 1) PROVE i \in 1..n \/ i = n + 1
OBVIOUS

\* What forget() leaves: no spelling of the path, the others in their order.
LEMMA ForgottenIs == ASSUME NEW l \in Seq(Int), OnceEach(l), NEW path
  PROVE  /\ forgotten(l, path) \in Seq(Int) /\ Len(forgotten(l, path)) <= Len(l) /\ OnceEach(forgotten(l, path))
         /\ \A i \in 1..Len(forgotten(l, path)) : \E k \in 1..Len(l) : forgotten(l, path)[i] = l[k] /\ tidied(l[k]) # tidied(path)
         /\ (\A k \in 1..Len(l) : tidied(l[k]) # tidied(path)) => forgotten(l, path) = l
<1> DEFINE N == Len(l)
<1>1. N \in Nat /\ \A k \in 1..N : l[k] \in Int
  OBVIOUS
<1>2. PICK f \in [0..N -> Seq(Int)] : forgotten(l, path) = f[N] /\ ForgetsIn(l, path, f)
  BY ForgetRuns
<1> DEFINE Others(m) == \A k \in 1..m : tidied(l[k]) # tidied(path)
           Left(g, m) == /\ Len(g) <= m
                         /\ \A i \in 1..Len(g) : \E k \in 1..m : g[i] = l[k] /\ tidied(l[k]) # tidied(path)
                         /\ OnceEach(g)
                         /\ Others(m) => Len(g) = m /\ \A i \in 1..m : g[i] = l[i]
           Has == {m \in Nat : m <= N => Left(f[m], m)}
<1>3. 0 \in Has
  <2>1. Len(f[0]) = 0 /\ 1..0 = {}
    BY <1>2 DEF ForgetsIn
  <2>2. Left(f[0], 0)
    BY <2>1 DEF OnceEach
  <2> QED
    BY <2>2
<1>4. ASSUME NEW m \in Has PROVE m + 1 \in Has
  <2> SUFFICES ASSUME m + 1 <= N PROVE Left(f[m + 1], m + 1)
    OBVIOUS
  <2>7. m \in Nat /\ m + 1 \in 1..N /\ m \in 0..N /\ m + 1 - 1 = m /\ m <= N
    BY <1>1
  <2>1. m \in Nat /\ m + 1 \in 1..N /\ m + 1 - 1 = m /\ Left(f[m], m) /\ f[m] \in Seq(Int)
    BY <1>2, <2>7
  <2> DEFINE g == f[m]  h == f[m + 1]
  <2>2. h = IF tidied(l[m + 1]) = tidied(path) THEN g ELSE Append(g, l[m + 1])
    BY <1>2, <2>1 DEF ForgetsIn
  <2>3. Left(g, m) /\ g \in Seq(Int) /\ Len(g) \in Nat
    BY <2>1
  <2> HIDE DEF g, h
  <2>6. Len(g) \in Nat
    BY <2>3
  <2>4. ASSUME tidied(l[m + 1]) = tidied(path) PROVE Left(h, m + 1)
    <3>1. h = g /\ ~Others(m + 1)
      BY <2>1, <2>2, <2>4
    <3>2. \A k \in 1..m : k \in 1..(m + 1)
      BY <2>1
    <3> QED
      BY <2>1, <2>3, <3>1, <3>2
  <2>5. ASSUME tidied(l[m + 1]) # tidied(path) PROVE Left(h, m + 1)
    <3>1. h = Append(g, l[m + 1]) /\ Len(h) = Len(g) + 1
      BY <2>1, <2>2, <2>3, <2>5
    <3>2. (\A i \in 1..Len(g) : h[i] = g[i]) /\ h[Len(g) + 1] = l[m + 1]
      BY <2>1, <2>3, <3>1
    <3>3. \A i \in 1..Len(h) : \E k \in 1..(m + 1) : h[i] = l[k] /\ tidied(l[k]) # tidied(path)
      <4> SUFFICES ASSUME NEW i \in 1..Len(h) PROVE \E k \in 1..(m + 1) : h[i] = l[k] /\ tidied(l[k]) # tidied(path)
        OBVIOUS
      <4>1. CASE i \in 1..Len(g)
        BY <2>1, <2>3, <3>2, <4>1
      <4>2. CASE i = Len(g) + 1
        <5>1. m + 1 \in 1..(m + 1)
          BY <2>7
        <5> QED
          BY <2>5, <3>2, <4>2, <5>1
      <4> QED
        BY <2>3, <3>1, <4>1, <4>2
    <3>4. \A i \in 1..Len(g) : g[i] # l[m + 1]
      <4> SUFFICES ASSUME NEW i \in 1..Len(g) PROVE g[i] # l[m + 1]
        OBVIOUS
      <4>1. PICK k \in 1..m : g[i] = l[k]
        BY <2>3
      <4>2. k \in 1..N /\ m + 1 \in 1..N /\ k # m + 1
        BY <1>1, <2>1
      <4> QED
        BY <4>1, <4>2 DEF OnceEach
    <3>5. OnceEach(h)
      <4> SUFFICES ASSUME NEW i \in 1..Len(h), NEW j \in 1..Len(h), h[i] = h[j] PROVE i = j
        BY DEF OnceEach
      <4>4. i \in 1..(Len(g) + 1) /\ j \in 1..(Len(g) + 1)
        BY <3>1, Zenon
      <4>1. i \in 1..Len(g) \/ i = Len(g) + 1
        BY <2>6, <4>4, InOrNext, Zenon
      <4>2. j \in 1..Len(g) \/ j = Len(g) + 1
        BY <2>6, <4>4, InOrNext, Zenon
      <4>3. CASE i \in 1..Len(g) /\ j \in 1..Len(g)
        <5>1. OnceEach(g) /\ g[i] = g[j]
          BY <2>3, <3>2, <4>3
        <5> QED
          BY <4>3, <5>1 DEF OnceEach
      <4> QED
        BY <3>2, <3>4, <4>1, <4>2, <4>3
    <3>6. ASSUME Others(m + 1) PROVE Len(h) = m + 1 /\ \A i \in 1..(m + 1) : h[i] = l[i]
      <4>1. Others(m)
        BY <2>1, <3>6
      <4>2. Len(g) = m /\ \A i \in 1..m : g[i] = l[i]
        BY <2>3, <4>1
      <4>3. \A i \in 1..(m + 1) : i \in 1..m \/ i = m + 1
        BY <2>1
      <4> QED
        BY <3>1, <3>2, <4>2, <4>3
    <3>7. Len(h) <= m + 1
      BY <2>1, <2>3, <3>1
    <3> QED
      BY <3>3, <3>5, <3>6, <3>7
  <2> QED
    BY <2>4, <2>5 DEF h
<1>5. Has = Nat
  <2> HIDE DEF Has
  <2>1. Has \subseteq Nat
    BY DEF Has
  <2> QED
    BY <1>3, <1>4, <2>1, FromZero
<1>6. Left(f[N], N)
  <2>1. N \in Has
    BY <1>1, <1>5, Zenon
  <2> QED
    BY <1>1, <2>1
<1>7. f[N] \in Seq(Int)
  BY <1>1, <1>2
<1>8. ASSUME Others(N) PROVE f[N] = l
  <2>1. Len(f[N]) = N /\ \A i \in 1..N : f[N][i] = l[i]
    BY <1>6, <1>8
  <2> QED
    BY <1>7, <2>1, SeqEqual
<1> QED
  BY <1>2, <1>6, <1>7, <1>8

\* remember(): the path in front, tidied, and the list no longer than it may be.
LEMMA RememberIs == ASSUME NEW l, Recent(l), NEW path \in Int
  PROVE  /\ Recent(remember(l, path))
         /\ (\A k \in 1..Len(l) : l[k] # tidied(path)) /\ Len(l) < kMost => remember(l, path) = <<tidied(path)>> \o l
<1>1. kMost \in Nat
  BY SettingsAssumption DEF kMost
<1>2. l \in Seq(Int) /\ Len(l) \in Nat /\ Len(l) <= kMost /\ OnceEach(l) /\ \A i \in 1..Len(l) : tidied(l[i]) = l[i]
  BY DEF Recent
<1> DEFINE t == tidied(path)
           others == forgotten(l, path)
           most == <<t>> \o others
           n == Min({kMost, Len(most)})
<1>3. t \in Int /\ tidied(t) = t
  BY TidiedIs
<1>4. /\ others \in Seq(Int) /\ Len(others) <= Len(l) /\ OnceEach(others)
      /\ \A i \in 1..Len(others) : \E k \in 1..Len(l) : others[i] = l[k] /\ tidied(l[k]) # tidied(path)
      /\ (\A k \in 1..Len(l) : tidied(l[k]) # tidied(path)) => others = l
  BY <1>2, ForgottenIs
<1> HIDE DEF t, others
<1>5. \A i \in 1..Len(others) : others[i] # t /\ tidied(others[i]) = others[i]
  BY <1>2, <1>4 DEF t
<1>6. most \in Seq(Int) /\ Len(most) = Len(others) + 1 /\ Len(others) \in Nat
  BY <1>3, <1>4
<1>7. most[1] = t /\ \A i \in 2..Len(most) : i - 1 \in 1..Len(others) /\ most[i] = others[i - 1]
  BY <1>3, <1>4, <1>6
<1> HIDE DEF most
<1>8. OnceEach(most)
  <2> SUFFICES ASSUME NEW i \in 1..Len(most), NEW j \in 1..Len(most), most[i] = most[j] PROVE i = j
    BY DEF OnceEach
  <2>1. (i = 1 \/ i \in 2..Len(most)) /\ (j = 1 \/ j \in 2..Len(most))
    BY <1>6
  <2>2. CASE i \in 2..Len(most) /\ j \in 2..Len(most)
    <3>1. i - 1 \in 1..Len(others) /\ j - 1 \in 1..Len(others) /\ others[i - 1] = others[j - 1]
      BY <1>7, <2>2
    <3>2. i - 1 = j - 1
      BY <1>4, <3>1 DEF OnceEach
    <3> QED
      BY <3>2
  <2> QED
    BY <1>5, <1>7, <2>1, <2>2
<1>9. \A i \in 1..Len(most) : tidied(most[i]) = most[i]
  <2>1. \A i \in 1..Len(most) : i = 1 \/ i \in 2..Len(most)
    BY <1>6
  <2> QED
    BY <1>3, <1>5, <1>7, <2>1
<1>10. n = IF kMost <= Len(most) THEN kMost ELSE Len(most)
  BY <1>1, <1>6, MinOfTwo
<1> HIDE DEF n
<1>11. n \in Nat /\ n <= kMost /\ n <= Len(most)
  BY <1>1, <1>6, <1>10
<1>12. remember(l, path) = SubSeq(most, 1, n)
  BY DEF remember, most, others, t, n
<1>13. SubSeq(most, 1, n) \in Seq(Int) /\ Len(SubSeq(most, 1, n)) = n /\ \A i \in 1..n : SubSeq(most, 1, n)[i] = most[i]
  BY <1>6, <1>11
<1> DEFINE kept == SubSeq(most, 1, n)
<1>14. Recent(kept)
  <2>1. \A i \in 1..n : i \in 1..Len(most)
    BY <1>6, <1>11
  <2> HIDE DEF kept
  <2>2. kept \in Seq(Int) /\ Len(kept) = n /\ \A i \in 1..n : kept[i] = most[i]
    BY <1>13 DEF kept
  <2>3. OnceEach(kept)
    BY <1>8, <2>1, <2>2 DEF OnceEach
  <2>4. \A i \in 1..Len(kept) : tidied(kept[i]) = kept[i]
    BY <1>9, <2>1, <2>2
  <2> QED
    BY <1>11, <2>2, <2>3, <2>4 DEF Recent
<1>15. ASSUME \A k \in 1..Len(l) : l[k] # tidied(path), Len(l) < kMost PROVE kept = <<tidied(path)>> \o l
  <2>1. others = l
    BY <1>2, <1>4, <1>15
  <2>2. n = Len(most)
    BY <1>1, <1>2, <1>6, <1>10, <1>15, <2>1
  <2>3. kept = most
    BY <1>6, <1>13, <2>2, SeqEqual
  <2> QED
    BY <2>1, <2>3 DEF most, t
<1> QED
  BY <1>12, <1>14, <1>15

\* assign(): remembered from the last to the first.
Assigns(paths, f) == f = [n \in 0..Len(paths) |-> IF n = 0 THEN <<>> ELSE remember(f[n - 1], paths[Len(paths) + 1 - n])]
AssignsIn(paths, f) == f[0] = <<>> /\ \A n \in 1..Len(paths) : f[n] = remember(f[n - 1], paths[Len(paths) + 1 - n])
RecentLists == {l \in Seq(Int) : Recent(l)}

\* Nothing at all is one.
LEMMA NothingRecent == <<>> \in RecentLists
<1> DEFINE none == <<>>
<1>1. none \in Seq(Int) /\ Len(none) = 0
  OBVIOUS
<1>2. kMost \in Nat
  BY SettingsAssumption DEF kMost
<1> HIDE DEF none
<1>3. Recent(none)
  BY <1>1, <1>2 DEF Recent, OnceEach
<1> QED
  BY <1>1, <1>3 DEF RecentLists, none

\* The loop, turn by turn.
LEMMA AssignRuns == ASSUME NEW paths \in Seq(Int)
  PROVE  \E f \in [0..Len(paths) -> RecentLists] : assign(paths) = f[Len(paths)] /\ AssignsIn(paths, f)
<1> DEFINE N == Len(paths)
           step == [p \in (1..N) \X RecentLists |-> remember(p[2], paths[N + 1 - p[1]])]
<1>1. N \in Nat /\ <<>> \in RecentLists /\ \A n \in 1..N : N + 1 - n \in 1..N /\ paths[N + 1 - n] \in Int
  BY NothingRecent
<1>0. \A l \in RecentLists : \A path \in Int : remember(l, path) \in RecentLists
  <2> SUFFICES ASSUME NEW l \in RecentLists, NEW path \in Int PROVE remember(l, path) \in RecentLists
    OBVIOUS
  <2>1. Recent(remember(l, path))
    BY RememberIs DEF RecentLists
  <2> QED
    BY <2>1 DEF RecentLists, Recent
<1>2. step \in [(1..N) \X RecentLists -> RecentLists]
  <2>1. ASSUME NEW p \in (1..N) \X RecentLists PROVE remember(p[2], paths[N + 1 - p[1]]) \in RecentLists
    <3>1. p[1] \in 1..N /\ p[2] \in RecentLists
      OBVIOUS
    <3> QED
      BY <1>0, <1>1, <3>1
  <2> QED
    BY <2>1
<1> HIDE DEF step
<1>3. PICK g \in [0..N -> RecentLists] : Loops(N, <<>>, step, g)
  <2> HIDE DEF N
  <2> QED
    BY <1>1, <1>2, LoopRuns
<1>4. Assigns(paths, g)
  <2>1. ASSUME NEW n \in 0..N, n # 0 PROVE step[<<n, g[n - 1]>>] = remember(g[n - 1], paths[N + 1 - n])
    <3>1. n \in 1..N /\ n - 1 \in 0..N
      BY <1>1, <2>1
    <3>2. g[n - 1] \in RecentLists
      BY <1>3, <3>1
    <3> QED
      BY <3>1, <3>2 DEF step
  <2>2. [n \in 0..N |-> IF n = 0 THEN <<>> ELSE step[<<n, g[n - 1]>>]]
          = [n \in 0..N |-> IF n = 0 THEN <<>> ELSE remember(g[n - 1], paths[N + 1 - n])]
    BY <2>1
  <2> QED
    BY <1>3, <2>2, Zenon DEF Assigns, Loops
<1> DEFINE f == CHOOSE h : Assigns(paths, h)
<1>5. assign(paths) = f[N] /\ Assigns(paths, f)
  BY <1>4, Zenon DEF assign, Assigns
<1> HIDE DEF f
<1>6. AssignsIn(paths, f)
  <2>1. \A n \in 0..N : f[n] = IF n = 0 THEN <<>> ELSE remember(f[n - 1], paths[N + 1 - n])
    BY <1>5, Zenon DEF Assigns
  <2>2. 0 \in 0..N /\ \A n \in 1..N : n \in 0..N /\ n # 0
    BY <1>1
  <2> QED
    BY <2>1, <2>2 DEF AssignsIn
<1>7. f \in [0..N -> RecentLists]
  <2> DEFINE Has == {m \in Nat : m <= N => f[m] \in RecentLists}
  <2>1. 0 \in Has
    BY <1>1, <1>6 DEF AssignsIn
  <2>2. ASSUME NEW m \in Has PROVE m + 1 \in Has
    <3> SUFFICES ASSUME m + 1 <= N PROVE f[m + 1] \in RecentLists
      OBVIOUS
    <3>1. m + 1 \in 1..N /\ m + 1 - 1 = m /\ f[m] \in RecentLists
      BY <1>1
    <3>2. f[m + 1] = remember(f[m], paths[N + 1 - (m + 1)])
      BY <1>6, <3>1 DEF AssignsIn
    <3> QED
      BY <1>0, <1>1, <3>1, <3>2
  <2>3. Has = Nat
    <3> HIDE DEF Has
    <3>1. Has \subseteq Nat
      BY DEF Has
    <3> QED
      BY <2>1, <2>2, <3>1, FromZero
  <2>4. \A m \in 0..N : f[m] \in RecentLists
    <3>1. \A m \in 0..N : m \in Nat /\ m <= N
      BY <1>1
    <3>2. \A m \in 0..N : m \in Has
      BY <2>3, <3>1, Zenon
    <3> QED
      BY <3>1, <3>2
  <2>5. f = [n \in 0..N |-> f[n]]
    BY <1>5, Zenon DEF Assigns
  <2> QED
    BY <2>4, <2>5
<1> QED
  BY <1>5, <1>6, <1>7

\* What is assigned is such a list, and such a list stays what it is.
LEMMA AssignedIs == ASSUME NEW paths \in Seq(Int)
  PROVE  Recent(assign(paths)) /\ (Recent(paths) => assign(paths) = paths)
<1> DEFINE N == Len(paths)
<1>1. N \in Nat /\ \A k \in 1..N : paths[k] \in Int
  OBVIOUS
<1>2. PICK f \in [0..N -> RecentLists] : assign(paths) = f[N] /\ AssignsIn(paths, f)
  BY AssignRuns
<1>3. \A m \in 0..N : f[m] \in Seq(Int) /\ Recent(f[m]) /\ Len(f[m]) \in Nat
  BY <1>2 DEF RecentLists
<1>4. Recent(assign(paths))
  BY <1>1, <1>2, <1>3
<1>5. ASSUME Recent(paths) PROVE f[N] = paths
  <2>1. N <= kMost /\ OnceEach(paths) /\ \A i \in 1..N : tidied(paths[i]) = paths[i]
    BY <1>5 DEF Recent
  <2> DEFINE Rest(g, m) == Len(g) = m /\ \A i \in 1..m : g[i] = paths[N - m + i]
             Has == {m \in Nat : m <= N => Rest(f[m], m)}
  <2>2. 0 \in Has
    <3>1. Len(f[0]) = 0 /\ 1..0 = {}
      BY <1>2 DEF AssignsIn
    <3> QED
      BY <3>1
  <2>3. ASSUME NEW m \in Has PROVE m + 1 \in Has
    <3> SUFFICES ASSUME m + 1 <= N PROVE Rest(f[m + 1], m + 1)
      OBVIOUS
    <3>1. m \in Nat /\ m + 1 \in 1..N /\ m + 1 - 1 = m /\ m \in 0..N /\ N - m \in 1..N /\ N + 1 - (m + 1) = N - m
      BY <1>1
    <3> DEFINE g == f[m]  h == f[m + 1]
    <3>2. Rest(g, m) /\ g \in Seq(Int) /\ Recent(g)
      BY <1>3, <3>1
    <3>3. h = remember(g, paths[N - m])
      BY <1>2, <3>1 DEF AssignsIn
    <3> HIDE DEF g, h
    <3>4. \A k \in 1..m : N - m + k \in 1..N /\ N - m + k # N - m
      BY <1>1, <3>1
    <3>5. \A k \in 1..Len(g) : g[k] # tidied(paths[N - m])
      <4> SUFFICES ASSUME NEW k \in 1..Len(g) PROVE g[k] # tidied(paths[N - m])
        OBVIOUS
      <4>1. k \in 1..m /\ g[k] = paths[N - m + k] /\ tidied(paths[N - m]) = paths[N - m]
        BY <2>1, <3>1, <3>2
      <4>2. paths[N - m + k] # paths[N - m]
        BY <2>1, <3>1, <3>4, <4>1 DEF OnceEach
      <4> QED
        BY <4>1, <4>2
    <3>6. Len(g) < kMost
      <4>1. kMost \in Nat
        BY SettingsAssumption DEF kMost
      <4> QED
        BY <1>1, <2>1, <3>1, <3>2, <4>1
    <3>7. h = <<paths[N - m]>> \o g
      BY <1>1, <2>1, <3>1, <3>2, <3>3, <3>5, <3>6, RememberIs
    <3>8. Len(h) = m + 1 /\ h[1] = paths[N - m] /\ \A i \in 2..(m + 1) : h[i] = g[i - 1]
      BY <1>1, <3>1, <3>2, <3>7
    <3>9. ASSUME NEW i \in 1..(m + 1) PROVE h[i] = paths[N - (m + 1) + i]
      <4>1. CASE i = 1
        <5>1. N - (m + 1) + i = N - m
          BY <1>1, <3>1, <4>1
        <5> QED
          BY <3>8, <4>1, <5>1
      <4>2. CASE i # 1
        <5>1. i \in 2..(m + 1) /\ i - 1 \in 1..m /\ N - m + (i - 1) = N - (m + 1) + i
          BY <1>1, <3>1, <4>2
        <5>2. g[i - 1] = paths[N - m + (i - 1)]
          BY <3>2, <5>1
        <5> QED
          BY <3>8, <5>1, <5>2
      <4> QED
        BY <4>1, <4>2
    <3>10. Rest(h, m + 1)
      BY <3>8, <3>9
    <3> QED
      BY <3>10 DEF h
  <2>4. Has = Nat
    <3> HIDE DEF Has
    <3>1. Has \subseteq Nat
      BY DEF Has
    <3> QED
      BY <2>2, <2>3, <3>1, FromZero
  <2>5. Rest(f[N], N)
    <3>1. N \in Has
      BY <1>1, <2>4, Zenon
    <3> QED
      BY <1>1, <3>1
  <2>6. f[N] \in Seq(Int) /\ Len(f[N]) = N /\ \A i \in 1..N : f[N][i] = paths[i]
    <3>1. \A i \in 1..N : N - N + i = i
      BY <1>1
    <3> QED
      BY <1>1, <1>3, <2>5, <3>1
  <2> QED
    BY <2>6, SeqEqual
<1> QED
  BY <1>2, <1>4, <1>5

\* The paths in the map: those of the keys that hold one.
HoldsPath(stored, n) == Len(text(stored, RecentKeys[n])) = 1
Lists1(stored, f) == f = [n \in 0..kMost |-> IF n = 0 THEN <<>>
                                             ELSE IF Len(text(stored, RecentKeys[n])) # 1 THEN f[n - 1]
                                             ELSE Append(f[n - 1], stored[RecentKeys[n]][1])]
ListsIn(stored, f) ==
  /\ f[0] = <<>>
  /\ \A n \in 1..kMost : f[n] = IF ~HoldsPath(stored, n) THEN f[n - 1] ELSE Append(f[n - 1], stored[RecentKeys[n]][1])
Numbered(stored) == \A key \in DOMAIN stored : stored[key] \in Seq(Int)
Paths(stored) == (CHOOSE f : Lists1(stored, f))[kMost]

\* A key that holds one holds a number.
LEMMA PathAt == ASSUME NEW stored, Numbered(stored), NEW n \in 1..kMost, HoldsPath(stored, n)
  PROVE  RecentKeys[n] \in DOMAIN stored /\ stored[RecentKeys[n]][1] \in Int
<1> DEFINE none == <<>>
<1>1. Len(none) = 0
  OBVIOUS
<1> HIDE DEF none
<1>2. RecentKeys[n] \in DOMAIN stored /\ Len(stored[RecentKeys[n]]) = 1
  <2>1. CASE RecentKeys[n] \in DOMAIN stored
    BY <2>1 DEF HoldsPath, text
  <2>2. CASE RecentKeys[n] \notin DOMAIN stored
    BY <1>1, <2>2 DEF HoldsPath, text, none
  <2> QED
    BY <2>1, <2>2
<1> QED
  BY <1>2 DEF Numbered

\* The reading, key by key.
LEMMA ListingRuns == ASSUME NEW stored, Numbered(stored)
  PROVE  \E f \in [0..kMost -> Seq(Int)] : Paths(stored) = f[kMost] /\ ListsIn(stored, f)
<1> DEFINE N == kMost
           path(n) == stored[RecentKeys[n]][1]
           step == [p \in (1..N) \X Seq(Int) |-> IF ~HoldsPath(stored, p[1]) THEN p[2] ELSE Append(p[2], path(p[1]))]
<1>1. N \in Nat /\ <<>> \in Seq(Int) /\ \A n \in 1..N : HoldsPath(stored, n) => path(n) \in Int
  <2>1. N \in Nat
    BY SettingsAssumption DEF kMost
  <2> QED
    BY <2>1, PathAt
<1> HIDE DEF path
<1>2. step \in [(1..N) \X Seq(Int) -> Seq(Int)]
  <2>1. ASSUME NEW p \in (1..N) \X Seq(Int)
        PROVE  (IF ~HoldsPath(stored, p[1]) THEN p[2] ELSE Append(p[2], path(p[1]))) \in Seq(Int)
    <3>1. p[1] \in 1..N /\ p[2] \in Seq(Int)
      OBVIOUS
    <3> QED
      BY <1>1, <3>1, AppendIs
  <2> QED
    BY <2>1
<1> HIDE DEF step
<1>3. PICK g \in [0..N -> Seq(Int)] : Loops(N, <<>>, step, g)
  <2> HIDE DEF N
  <2> QED
    BY <1>1, <1>2, LoopRuns
<1>4. Lists1(stored, g)
  <2>1. ASSUME NEW n \in 0..N, n # 0
        PROVE  step[<<n, g[n - 1]>>] = IF ~HoldsPath(stored, n) THEN g[n - 1] ELSE Append(g[n - 1], path(n))
    <3>1. n \in 1..N /\ n - 1 \in 0..N
      BY <1>1, <2>1
    <3>2. g[n - 1] \in Seq(Int)
      BY <1>3, <3>1
    <3> QED
      BY <3>1, <3>2 DEF step
  <2>2. [n \in 0..N |-> IF n = 0 THEN <<>> ELSE step[<<n, g[n - 1]>>]]
          = [n \in 0..N |-> IF n = 0 THEN <<>> ELSE IF ~HoldsPath(stored, n) THEN g[n - 1] ELSE Append(g[n - 1], path(n))]
    BY <2>1
  <2> QED
    BY <1>3, <2>2, Zenon DEF Lists1, Loops, HoldsPath, path
<1> DEFINE f == CHOOSE h : Lists1(stored, h)
<1>5. Paths(stored) = f[N] /\ Lists1(stored, f)
  BY <1>4, Zenon DEF Paths
<1> HIDE DEF f
<1>6. ListsIn(stored, f)
  <2>1. \A n \in 0..N : f[n] = IF n = 0 THEN <<>> ELSE IF ~HoldsPath(stored, n) THEN f[n - 1] ELSE Append(f[n - 1], path(n))
    BY <1>5, Zenon DEF Lists1, HoldsPath, path
  <2>2. 0 \in 0..N /\ \A n \in 1..N : n \in 0..N /\ n # 0
    BY <1>1
  <2> QED
    BY <2>1, <2>2 DEF ListsIn, path
<1>7. f \in [0..N -> Seq(Int)]
  <2> DEFINE Has == {m \in Nat : m <= N => f[m] \in Seq(Int)}
  <2>1. 0 \in Has
    BY <1>1, <1>6 DEF ListsIn
  <2>2. ASSUME NEW m \in Has PROVE m + 1 \in Has
    <3> SUFFICES ASSUME m + 1 <= N PROVE f[m + 1] \in Seq(Int)
      OBVIOUS
    <3>1. m + 1 \in 1..N /\ m + 1 - 1 = m /\ f[m] \in Seq(Int)
      BY <1>1
    <3>2. f[m + 1] = IF ~HoldsPath(stored, m + 1) THEN f[m] ELSE Append(f[m], path(m + 1))
      BY <1>6, <3>1 DEF ListsIn, path
    <3>3. HoldsPath(stored, m + 1) => Append(f[m], path(m + 1)) \in Seq(Int)
      BY <1>1, <3>1, AppendIs
    <3> QED
      BY <3>1, <3>2, <3>3
  <2>3. Has = Nat
    <3> HIDE DEF Has
    <3>1. Has \subseteq Nat
      BY DEF Has
    <3> QED
      BY <2>1, <2>2, <3>1, FromZero
  <2>4. \A m \in 0..N : f[m] \in Seq(Int)
    <3>1. \A m \in 0..N : m \in Nat /\ m <= N
      BY <1>1
    <3>2. \A m \in 0..N : m \in Has
      BY <2>3, <3>1, Zenon
    <3> QED
      BY <3>1, <3>2
  <2>5. f = [n \in 0..N |-> f[n]]
    BY <1>5, Zenon DEF Lists1
  <2> QED
    BY <2>4, <2>5
<1> QED
  BY <1>5, <1>6, <1>7

\* Paths that are all at the front are read in their order.
LEMMA PathsRead ==
  ASSUME NEW stored, Numbered(stored), NEW l \in Seq(Int), Len(l) <= kMost,
         \A n \in 1..kMost : HoldsPath(stored, n) <=> n <= Len(l),
         \A n \in 1..Len(l) : stored[RecentKeys[n]][1] = l[n]
  PROVE  Paths(stored) = l
<1>1. kMost \in Nat /\ Len(l) \in Nat
  BY SettingsAssumption DEF kMost
<1>2. PICK f \in [0..kMost -> Seq(Int)] : Paths(stored) = f[kMost] /\ ListsIn(stored, f)
  BY ListingRuns
<1> DEFINE Prefix(g, m) == IF m <= Len(l) THEN Len(g) = m /\ \A i \in 1..m : g[i] = l[i] ELSE g = l
           Has == {m \in Nat : m <= kMost => Prefix(f[m], m)}
<1>3. 0 \in Has
  <2>1. Len(f[0]) = 0 /\ 1..0 = {}
    BY <1>2 DEF ListsIn
  <2> QED
    BY <1>1, <2>1
<1>4. ASSUME NEW m \in Has PROVE m + 1 \in Has
  <2> SUFFICES ASSUME m + 1 <= kMost PROVE Prefix(f[m + 1], m + 1)
    OBVIOUS
  <2>1. m \in Nat /\ m + 1 \in 1..kMost /\ m \in 0..kMost /\ m + 1 - 1 = m /\ m <= kMost
    BY <1>1
  <2> DEFINE g == f[m]  h == f[m + 1]
  <2>2. Prefix(g, m) /\ g \in Seq(Int)
    BY <1>2, <2>1
  <2>3. h = IF ~HoldsPath(stored, m + 1) THEN g ELSE Append(g, stored[RecentKeys[m + 1]][1])
    BY <1>2, <2>1 DEF ListsIn
  <2> HIDE DEF g, h
  <2>4. HoldsPath(stored, m + 1) <=> m + 1 <= Len(l)
    BY <2>1
  <2>5. ASSUME m + 1 <= Len(l) PROVE Prefix(h, m + 1)
    <3>1. h = Append(g, l[m + 1]) /\ Len(g) = m /\ \A i \in 1..m : g[i] = l[i]
      <4>1. m <= Len(l) /\ m + 1 \in 1..Len(l)
        BY <1>1, <2>1, <2>5
      <4> QED
        BY <2>2, <2>3, <2>4, <2>5, <4>1
    <3>2. Len(h) = m + 1 /\ h[m + 1] = l[m + 1] /\ \A i \in 1..m : h[i] = g[i]
      BY <2>1, <2>2, <3>1
    <3>3. \A i \in 1..(m + 1) : i \in 1..m \/ i = m + 1
      BY <2>1
    <3> QED
      BY <2>5, <3>1, <3>2, <3>3
  <2>6. ASSUME ~(m + 1 <= Len(l)) PROVE Prefix(h, m + 1)
    <3>1. h = g
      BY <2>3, <2>4, <2>6
    <3>2. CASE m <= Len(l)
      <4>1. m = Len(l)
        BY <1>1, <2>1, <2>6, <3>2
      <4>2. Len(g) = Len(l) /\ \A i \in 1..Len(l) : g[i] = l[i]
        BY <2>2, <3>2, <4>1
      <4>3. g = l
        BY <2>2, <4>2, SeqEqual
      <4> QED
        BY <2>6, <3>1, <4>3
    <3>3. CASE ~(m <= Len(l))
      BY <2>2, <2>6, <3>1, <3>3
    <3> QED
      BY <3>2, <3>3
  <2> QED
    BY <2>5, <2>6 DEF h
<1>5. Has = Nat
  <2> HIDE DEF Has
  <2>1. Has \subseteq Nat
    BY DEF Has
  <2> QED
    BY <1>3, <1>4, <2>1, FromZero
<1>6. Prefix(f[kMost], kMost) /\ f[kMost] \in Seq(Int)
  <2>1. kMost \in Has
    BY <1>1, <1>5, Zenon
  <2>2. kMost \in 0..kMost /\ kMost <= kMost
    BY <1>1
  <2> QED
    BY <1>2, <2>1, <2>2
<1>7. CASE kMost <= Len(l)
  <2>1. kMost = Len(l)
    BY <1>1, <1>7
  <2>2. Len(f[kMost]) = Len(l) /\ \A i \in 1..Len(f[kMost]) : f[kMost][i] = l[i]
    BY <1>6, <1>7, <2>1
  <2>3. f[kMost] = l
    BY <1>6, <2>2, SeqEqual
  <2> QED
    BY <1>2, <2>3
<1>8. CASE ~(kMost <= Len(l))
  BY <1>2, <1>6, <1>8
<1> QED
  BY <1>7, <1>8

-------------------------------------------------------------------------------
(* Preferences.                                                              *)

\* A clamped value is in its range, and one that is there stays.
LEMMA ClampIs == ASSUME NEW low \in Int, NEW value \in Int, NEW high \in Int, low <= high
  PROVE  /\ Clamp(low, value, high) \in Int /\ low <= Clamp(low, value, high) /\ Clamp(low, value, high) <= high
         /\ (low <= value /\ value <= high => Clamp(low, value, high) = value)
         /\ (high <= value => Clamp(low, value, high) = high)
<1> DEFINE least == Min({value, high})
<1>1. least = IF value <= high THEN value ELSE high
  BY MinOfTwo
<1>2. Clamp(low, value, high) = Max({low, least})
  BY DEF Clamp
<1> HIDE DEF least
<1>3. least \in Int
  BY <1>1
<1>4. Max({low, least}) = IF low >= least THEN low ELSE least
  BY <1>3, MaxOfTwo
<1> QED
  BY <1>1, <1>2, <1>4

\* The preferences that are kept as they are.
PreferenceNames == {"format", "target", "fft", "hop", "floor", "analysis", "key"}
Sizes == {512, 1024, 2048, 4096, 8192, 16384}
Hops == {32, 64, 128, 256} \cup Sizes
Bounds(fft, hop, analysis, key) ==
  /\ fft \div 16 <= hop /\ hop <= fft
  /\ 5 <= analysis /\ analysis <= 3600 /\ 5 <= key /\ key <= analysis
InBounds(p) == Bounds(p.fft, p.hop, p.analysis, p.key)
Sane == {p \in [format : 1..3, target : 1..8, fft : Sizes, hop : Hops, floor : {-60, -80, -96, -120}, analysis : Int, key : Int] : InBounds(p)}

\* The sizes of a transform that may be had.
FftFits(n) == isPowerOfTwo(n) /\ n \in 512..16384

\* They are these.
LEMMA SizeIs == ASSUME NEW n \in Int PROVE FftFits(n) <=> n \in Sizes
<1>1. n \in Sizes => isPowerOfTwo(n) /\ n \in 512..16384
  BY DEF isPowerOfTwo, Sizes
<1>2. ASSUME isPowerOfTwo(n), n \in 512..16384 PROVE n \in Sizes
  <2>1. n >= 512 /\ n <= 16384
    BY <1>2
  <2> QED
    BY <1>2, <2>1 DEF isPowerOfTwo, Sizes
<1> QED
  BY <1>1, <1>2 DEF FftFits

\* And the steps between two of them.
HopFits(n, fft) == isPowerOfTwo(n) /\ n \in (fft \div 16)..fft

\* They are these, and a quarter is one.
LEMMA HopIs == ASSUME NEW fft \in Sizes, NEW n \in Int
  PROVE  /\ HopFits(n, fft) <=> n \in Hops /\ fft \div 16 <= n /\ n <= fft
         /\ fft \div 4 \in Hops /\ fft \div 16 <= fft \div 4 /\ fft \div 4 <= fft
<1>1. fft \div 16 \in {32, 64, 128, 256, 512, 1024} /\ fft \in Int
  BY DEF Sizes
<1>2. fft \div 4 \in Hops /\ fft \div 16 <= fft \div 4 /\ fft \div 4 <= fft
  BY DEF Sizes, Hops
<1>3. isPowerOfTwo(n) /\ n \in (fft \div 16)..fft => n \in Hops
  <2>1. fft \div 16 >= 32 /\ fft <= 16384 /\ fft \div 16 \in Int
    BY <1>1 DEF Sizes
  <2> QED
    BY <1>1, <2>1 DEF isPowerOfTwo, Hops, Sizes
<1>4. n \in Hops => isPowerOfTwo(n)
  BY DEF isPowerOfTwo, Hops, Sizes
<1> QED
  BY <1>1, <1>2, <1>3, <1>4 DEF HopFits

\* A length in seconds that is at least five.
LEMMA SecondsAre == ASSUME NEW value \in Int, NEW high \in Int, 5 <= high
  PROVE  /\ Clamp(5, value, high) \in Int /\ 5 <= Clamp(5, value, high) /\ Clamp(5, value, high) <= high
         /\ (5 <= value /\ value <= high => Clamp(5, value, high) = value)
<1> DEFINE low == 5
<1>1. low \in Int /\ low <= high
  OBVIOUS
<1> HIDE DEF low
<1>2. /\ Clamp(low, value, high) \in Int /\ low <= Clamp(low, value, high) /\ Clamp(low, value, high) <= high
      /\ (low <= value /\ value <= high => Clamp(low, value, high) = value)
  BY <1>1, ClampIs, Zenon
<1> QED
  BY <1>2 DEF low

\* No measurement is longer than an hour.
LEMMA HoursAre == ASSUME NEW value \in Int
  PROVE  /\ Clamp(5, value, 3600) \in Int /\ 5 <= Clamp(5, value, 3600) /\ Clamp(5, value, 3600) <= 3600
         /\ (5 <= value /\ value <= 3600 => Clamp(5, value, 3600) = value)
<1> DEFINE high == 3600
<1>1. high \in Int /\ 5 <= high
  OBVIOUS
<1> HIDE DEF high
<1>2. /\ Clamp(5, value, high) \in Int /\ 5 <= Clamp(5, value, high) /\ Clamp(5, value, high) <= high
      /\ (5 <= value /\ value <= high => Clamp(5, value, high) = value)
  BY <1>1, SecondsAre
<1> QED
  BY <1>2 DEF high

\* Whatever the numbers were, they are made such.
LEMMA ValidatedIs == ASSUME NEW p, \A name \in PreferenceNames : p[name] \in Int
  PROVE  validated(p) \in Sane
<1>1. p.format \in Int /\ p.target \in Int /\ p.fft \in Int /\ p.hop \in Int /\ p.floor \in Int /\ p.analysis \in Int /\ p.key \in Int
  BY DEF PreferenceNames
<1> DEFINE fft == IF FftFits(p.fft) THEN p.fft ELSE Defaults.fft
           hop == IF HopFits(p.hop, fft) THEN p.hop ELSE fft \div 4
           format == IF p.format \in 1..3 THEN p.format ELSE Defaults.format
           target == IF p.target \in 1..8 THEN p.target ELSE Defaults.target
           floor == IF p.floor \in {-60, -80, -96, -120} THEN p.floor ELSE Defaults.floor
           analysis == Clamp(5, p.analysis, 3600)
           key == keyPart(p.key, analysis)
<1>2. fft \in Sizes
  <2>1. 4096 \in Sizes /\ Defaults.fft = 4096
    BY DEF Sizes, Defaults
  <2> QED
    BY <1>1, <2>1, SizeIs
<1> HIDE DEF fft
<1>3. hop \in Hops /\ fft \div 16 <= hop /\ hop <= fft
  <2>1. CASE HopFits(p.hop, fft)
    BY <1>1, <1>2, <2>1, HopIs
  <2>2. CASE ~HopFits(p.hop, fft)
    BY <1>1, <1>2, <2>2, HopIs
  <2> QED
    BY <2>1, <2>2
<1>4. format \in 1..3 /\ target \in 1..8 /\ floor \in {-60, -80, -96, -120}
  BY DEF Defaults
<1>5. analysis \in Int /\ 5 <= analysis /\ analysis <= 3600
  BY <1>1, HoursAre
<1> HIDE DEF analysis
<1>6. key \in Int /\ 5 <= key /\ key <= analysis
  BY <1>1, <1>5, SecondsAre DEF keyPart
<1>7. validated(p) = [format |-> format, target |-> target, fft |-> fft, hop |-> hop, floor |-> floor, analysis |-> analysis, key |-> key]
  BY DEF validated, fft, analysis, FftFits, HopFits
<1> HIDE DEF hop, format, target, floor, key
<1> QED
  BY <1>2, <1>3, <1>4, <1>5, <1>6, <1>7 DEF Sane, InBounds, Bounds

\* What such preferences hold.
LEMMA SaneIs == ASSUME NEW p \in Sane
  PROVE  /\ DOMAIN p = PreferenceNames /\ \A name \in PreferenceNames : p[name] \in Int
         /\ p.format \in 1..3 /\ p.target \in 1..8 /\ p.floor \in {-60, -80, -96, -120}
         /\ p.fft \in Sizes /\ p.hop \in Hops /\ p.analysis \in Int /\ p.key \in Int /\ InBounds(p)
         /\ p = [format |-> p.format, target |-> p.target, fft |-> p.fft, hop |-> p.hop, floor |-> p.floor, analysis |-> p.analysis, key |-> p.key]
         /\ \A t \in 1..8 : [p EXCEPT !.target = t] \in Sane
         /\ [p EXCEPT !.floor = -60] \in Sane
<1>1. p \in [format : 1..3, target : 1..8, fft : Sizes, hop : Hops, floor : {-60, -80, -96, -120}, analysis : Int, key : Int] /\ InBounds(p)
  BY DEF Sane
<1>2. DOMAIN p = PreferenceNames
  BY <1>1 DEF PreferenceNames
<1>3. \A n \in Sizes \cup Hops : n \in Int
  BY DEF Sizes, Hops
<1>4. p.format \in Int /\ p.target \in Int /\ p.floor \in Int /\ p.fft \in Int /\ p.hop \in Int /\ p.analysis \in Int /\ p.key \in Int
  BY <1>1, <1>3
<1>5. \A name \in PreferenceNames : p[name] \in Int
  BY <1>4 DEF PreferenceNames
<1>6. ASSUME NEW t \in 1..8 PROVE [p EXCEPT !.target = t] \in Sane
  <2> DEFINE q == [p EXCEPT !.target = t]
  <2>1. q.fft = p.fft /\ q.hop = p.hop /\ q.analysis = p.analysis /\ q.key = p.key
    BY <1>1
  <2> HIDE DEF q
  <2>2. InBounds(q)
    BY <1>1, <2>1 DEF InBounds
  <2> QED
    BY <1>1, <2>2 DEF Sane, q
<1>7. [p EXCEPT !.floor = -60] \in Sane
  <2> DEFINE q == [p EXCEPT !.floor = -60]
  <2>1. q.fft = p.fft /\ q.hop = p.hop /\ q.analysis = p.analysis /\ q.key = p.key
    BY <1>1
  <2> HIDE DEF q
  <2>2. InBounds(q)
    BY <1>1, <2>1 DEF InBounds
  <2> QED
    BY <1>1, <2>2 DEF Sane, q
<1> QED
  BY <1>1, <1>2, <1>4, <1>5, <1>6, <1>7

\* And they stay as they are.
LEMMA SaneStays == ASSUME NEW p \in Sane PROVE validated(p) = p
<1>1. /\ p.format \in 1..3 /\ p.target \in 1..8 /\ p.floor \in {-60, -80, -96, -120}
      /\ p.fft \in Sizes /\ p.hop \in Hops /\ p.analysis \in Int /\ p.key \in Int /\ InBounds(p)
  BY SaneIs
<1>2. p.fft \in Int /\ p.hop \in Int
  BY <1>1 DEF Sizes, Hops
<1>3. FftFits(p.fft)
  BY <1>1, <1>2, SizeIs
<1>4. HopFits(p.hop, p.fft)
  BY <1>1, <1>2, HopIs DEF InBounds, Bounds
<1>5. Clamp(5, p.analysis, 3600) = p.analysis
  BY <1>1, HoursAre DEF InBounds, Bounds
<1>6. keyPart(p.key, p.analysis) = p.key
  <2>1. p.key \in Int /\ p.analysis \in Int /\ 5 <= p.analysis /\ 5 <= p.key /\ p.key <= p.analysis
    BY <1>1 DEF InBounds, Bounds
  <2> QED
    BY <2>1, SecondsAre DEF keyPart
<1>7. validated(p) = [format |-> p.format, target |-> p.target, fft |-> p.fft, hop |-> p.hop, floor |-> p.floor, analysis |-> p.analysis, key |-> p.key]
  <2> DEFINE fft == IF FftFits(p.fft) THEN p.fft ELSE Defaults.fft
             hop == IF HopFits(p.hop, fft) THEN p.hop ELSE fft \div 4
             format == IF p.format \in 1..3 THEN p.format ELSE Defaults.format
             target == IF p.target \in 1..8 THEN p.target ELSE Defaults.target
             floor == IF p.floor \in {-60, -80, -96, -120} THEN p.floor ELSE Defaults.floor
             analysis == Clamp(5, p.analysis, 3600)
             key == keyPart(p.key, analysis)
  <2>1. validated(p) = [format |-> format, target |-> target, fft |-> fft, hop |-> hop, floor |-> floor, analysis |-> analysis, key |-> key]
    BY DEF validated, FftFits, HopFits
  <2>2. format = p.format /\ target = p.target /\ floor = p.floor
    BY <1>1
  <2>3. fft = p.fft
    BY <1>3
  <2>4. hop = p.hop
    BY <1>4, <2>3
  <2>5. analysis = p.analysis /\ key = p.key
    BY <1>5, <1>6
  <2> HIDE DEF format, target, floor, fft, hop, analysis, key
  <2> QED
    BY <2>1, <2>2, <2>3, <2>4, <2>5
<1> QED
  BY <1>7, SaneIs, Zenon

-------------------------------------------------------------------------------
(* The map: what is written is what is read.                                 *)

\* What there is to write.
Rectangles == [x : Int, y : Int, width : Int, height : Int]
Laid(frame) == frame = <<>> \/ \E rect \in Rectangles : frame = <<rect>>
Writable(s) == /\ Laid(s.frame) /\ s.maximised \in BOOLEAN /\ s.mainSplit \in Seq(Int)
               /\ Recent(s.recent) /\ s.preferences \in Sane

\* A key that is there holds its value.
LEMMA TextIs == ASSUME NEW stored, NEW key
  PROVE  text(stored, key) = IF key \in DOMAIN stored THEN stored[key] ELSE <<>>
BY DEF text

\* A number is what the key holds if it holds one.
LEMMA IntOrIs == ASSUME NEW stored, Numbered(stored), NEW key, NEW fallback \in Int
  PROVE  /\ intOr(stored, key, fallback) \in Int
         /\ key \notin DOMAIN stored => intOr(stored, key, fallback) = fallback
         /\ \A n \in Int : key \in DOMAIN stored /\ stored[key] = <<n>> => intOr(stored, key, fallback) = n
<1> DEFINE none == <<>>
<1>1. Len(none) = 0
  OBVIOUS
<1> HIDE DEF none
<1>2. CASE key \notin DOMAIN stored
  BY <1>1, <1>2 DEF intOr, text, none
<1>3. CASE key \in DOMAIN stored
  <2>1. stored[key] \in Seq(Int) /\ text(stored, key) = stored[key]
    BY <1>3 DEF text, Numbered
  <2>2. Len(stored[key]) = 1 => stored[key][1] \in Int
    BY <2>1
  <2>3. \A n \in Int : Len(<<n>>) = 1 /\ <<n>>[1] = n
    OBVIOUS
  <2> QED
    BY <1>3, <2>1, <2>2, <2>3 DEF intOr
<1> QED
  BY <1>2, <1>3

\* The keys a map is written under.
Keys(s) == {"version"} \cup (IF s.frame = <<>> THEN {} ELSE WindowKeys \cup {"window/maximised"})
             \cup (IF s.mainSplit = <<>> THEN {} ELSE {"window/mainsplit"})
             \cup {RecentKeys[i] : i \in DOMAIN s.recent} \cup PreferenceNames

\* No key of the recent list is another's.
LEMMA KeysApart == ASSUME NEW i \in 1..kMost
  PROVE RecentKeys[i] \notin WindowKeys \cup {"version", "window/maximised", "window/mainsplit"} \cup PreferenceNames
<1>1. i \in DOMAIN RecentKeys
  BY SettingsAssumption DEF kMost
<1>2. DOMAIN Defaults = PreferenceNames
  BY DEF Defaults, PreferenceNames
<1> QED
  BY <1>1, <1>2, SettingsAssumption

\* What is under each of them.
LEMMA WrittenMap == ASSUME NEW s, Writable(s)
  PROVE  LET stored == writeSettings(s)
         IN /\ DOMAIN stored = Keys(s)
            /\ stored["version"] = <<1>>
            /\ s.frame # <<>> => /\ stored["window/x"] = <<s.frame[1].x>> /\ stored["window/y"] = <<s.frame[1].y>>
                                 /\ stored["window/width"] = <<s.frame[1].width>> /\ stored["window/height"] = <<s.frame[1].height>>
                                 /\ stored["window/maximised"] = <<IF s.maximised THEN 1 ELSE 0>>
            /\ s.mainSplit # <<>> => stored["window/mainsplit"] = s.mainSplit
            /\ \A name \in PreferenceNames : stored[name] = <<s.preferences[name]>>
            /\ \A i \in DOMAIN s.recent : stored[RecentKeys[i]] = <<s.recent[i]>>
<1> DEFINE p == validated(s.preferences)
           value(key) == CASE key = "version" -> <<kSettingsVersion>>
                           [] key = "window/x" -> <<s.frame[1].x>>
                           [] key = "window/y" -> <<s.frame[1].y>>
                           [] key = "window/width" -> <<s.frame[1].width>>
                           [] key = "window/height" -> <<s.frame[1].height>>
                           [] key = "window/maximised" -> <<IF s.maximised THEN 1 ELSE 0>>
                           [] key = "window/mainsplit" -> s.mainSplit
                           [] key \in DOMAIN p -> <<p[key]>>
                           [] OTHER -> <<s.recent[CHOOSE i \in DOMAIN s.recent : RecentKeys[i] = key]>>
           stored == writeSettings(s)
<1>1. p = s.preferences /\ DOMAIN p = PreferenceNames
  BY SaneStays, SaneIs DEF Writable
<1>2. stored = [key \in Keys(s) |-> value(key)]
  BY <1>1 DEF writeSettings, Keys
<1> HIDE DEF stored, p
<1>3. DOMAIN stored = Keys(s) /\ \A key \in Keys(s) : stored[key] = value(key)
  BY <1>2
<1>9. DOMAIN p \cap {"version", "window/x", "window/y", "window/width", "window/height", "window/maximised", "window/mainsplit"} = {}
  BY <1>1 DEF PreferenceNames
<1>4. stored["version"] = <<1>>
  <2>1. "version" \in Keys(s) /\ value("version") = <<1>>
    BY <1>9 DEF Keys, kSettingsVersion
  <2> QED
    BY <1>3, <2>1
<1>5. ASSUME s.frame # <<>>
      PROVE  /\ stored["window/x"] = <<s.frame[1].x>> /\ stored["window/y"] = <<s.frame[1].y>>
             /\ stored["window/width"] = <<s.frame[1].width>> /\ stored["window/height"] = <<s.frame[1].height>>
             /\ stored["window/maximised"] = <<IF s.maximised THEN 1 ELSE 0>>
  <2>1. WindowKeys \cup {"window/maximised"} \subseteq Keys(s)
    BY <1>5 DEF Keys
  <2>2. "window/x" \in Keys(s) /\ "window/y" \in Keys(s) /\ "window/width" \in Keys(s) /\ "window/height" \in Keys(s) /\ "window/maximised" \in Keys(s)
    BY <2>1 DEF WindowKeys
  <2>3. value("window/x") = <<s.frame[1].x>> /\ value("window/y") = <<s.frame[1].y>>
    BY <1>9
  <2>4. value("window/width") = <<s.frame[1].width>> /\ value("window/height") = <<s.frame[1].height>>
    BY <1>9
  <2>5. value("window/maximised") = <<IF s.maximised THEN 1 ELSE 0>>
    BY <1>9
  <2> HIDE DEF value
  <2> QED
    BY <1>3, <2>2, <2>3, <2>4, <2>5
<1>6. ASSUME s.mainSplit # <<>> PROVE stored["window/mainsplit"] = s.mainSplit
  <2>1. "window/mainsplit" \in Keys(s)
    BY <1>6 DEF Keys
  <2>2. value("window/mainsplit") = s.mainSplit
    BY <1>9
  <2> HIDE DEF value
  <2> QED
    BY <1>3, <2>1, <2>2
<1>7. ASSUME NEW name \in PreferenceNames PROVE stored[name] = <<s.preferences[name]>>
  <2>1. name \in Keys(s)
    BY DEF Keys
  <2>2. name \notin {"version", "window/x", "window/y", "window/width", "window/height", "window/maximised", "window/mainsplit"}
    BY DEF PreferenceNames
  <2>3. value(name) = <<p[name]>>
    BY <1>1, <2>2
  <2> HIDE DEF value
  <2> QED
    BY <1>1, <1>3, <2>1, <2>3
<1>8. ASSUME NEW i \in DOMAIN s.recent PROVE stored[RecentKeys[i]] = <<s.recent[i]>>
  <2>1. RecentKeys[i] \in Keys(s)
    BY DEF Keys
  <2>2. DOMAIN s.recent \subseteq 1..kMost /\ 1..kMost = DOMAIN RecentKeys
    BY SettingsAssumption DEF Writable, Recent, kMost
  <2>3. RecentKeys[i] \notin {"version", "window/x", "window/y", "window/width", "window/height", "window/maximised", "window/mainsplit"} \cup DOMAIN p
    BY <1>1, <2>2, KeysApart DEF WindowKeys
  <2> DEFINE k == CHOOSE j \in DOMAIN s.recent : RecentKeys[j] = RecentKeys[i]
  <2>4. k \in DOMAIN s.recent /\ RecentKeys[k] = RecentKeys[i]
    OBVIOUS
  <2> HIDE DEF k
  <2>5. k = i
    BY <2>2, <2>4, SettingsAssumption
  <2>6. value(RecentKeys[i]) = <<s.recent[k]>>
    BY <2>3 DEF k
  <2> HIDE DEF value
  <2> QED
    BY <1>3, <2>1, <2>5, <2>6
<1> HIDE DEF value
<1> QED
  BY <1>3, <1>4, <1>5, <1>6, <1>7, <1>8 DEF stored

\* What is in the map, before any of it is doubted.
FrameRead(stored) ==
  IF ~(WindowKeys \subseteq DOMAIN stored) THEN <<>>
  ELSE <<[x |-> intOr(stored, "window/x", 0), y |-> intOr(stored, "window/y", 0),
          width |-> intOr(stored, "window/width", kDefaultWindow.width), height |-> intOr(stored, "window/height", kDefaultWindow.height)]>>
MaximisedRead(stored) == WindowKeys \subseteq DOMAIN stored /\ boolOr(stored, "window/maximised", FALSE)
PreferencesRead(stored) ==
  [format |-> readName(stored, "format", 3, Defaults.format), target |-> readName(stored, "target", 8, Defaults.target),
   fft |-> intOr(stored, "fft", Defaults.fft), hop |-> intOr(stored, "hop", Defaults.hop), floor |-> intOr(stored, "floor", Defaults.floor),
   analysis |-> intOr(stored, "analysis", Defaults.analysis), key |-> intOr(stored, "key", Defaults.key)]

\* What is read is made of these.
LEMMA ReadParts == ASSUME NEW stored
  PROVE  readSettings(stored) = [writeBack |-> intOr(stored, "version", kSettingsVersion) <= kSettingsVersion,
                                 frame |-> FrameRead(stored), maximised |-> MaximisedRead(stored), mainSplit |-> text(stored, "window/mainsplit"),
                                 recent |-> assign(Paths(stored)), preferences |-> validated(PreferencesRead(stored))]
BY Zenon DEF readSettings, FrameRead, MaximisedRead, Paths, Lists1, PreferencesRead

\* A name is a number of its table, or the one that is used without.
LEMMA NameIs == ASSUME NEW stored, Numbered(stored), NEW key, NEW names \in Nat, NEW fallback \in Int
  PROVE  /\ readName(stored, key, names, fallback) \in Int
         /\ \A n \in 1..names : key \in DOMAIN stored /\ stored[key] = <<n>> => readName(stored, key, names, fallback) = n
<1>1. 0 \in Int /\ intOr(stored, key, 0) \in Int
  BY IntOrIs
<1>2. ASSUME intOr(stored, key, 0) \in 1..names PROVE key \in DOMAIN stored /\ stored[key][1] = intOr(stored, key, 0)
  <2> DEFINE none == <<>>
  <2>1. Len(none) = 0
    OBVIOUS
  <2> HIDE DEF none
  <2>2. CASE key \notin DOMAIN stored
    <3>1. intOr(stored, key, 0) = 0
      BY <1>1, <2>2, IntOrIs
    <3> QED
      BY <1>2, <3>1
  <2>3. CASE key \in DOMAIN stored
    <3>1. Len(stored[key]) = 1 \/ intOr(stored, key, 0) = 0
      BY <2>3 DEF intOr, text
    <3>2. Len(stored[key]) = 1
      BY <1>2, <3>1
    <3> QED
      BY <2>3, <3>2 DEF intOr, text
  <2> QED
    BY <2>2, <2>3
<1>3. readName(stored, key, names, fallback) \in Int
  BY <1>1, <1>2 DEF readName
<1>4. ASSUME NEW n \in 1..names, key \in DOMAIN stored, stored[key] = <<n>> PROVE readName(stored, key, names, fallback) = n
  <2>1. n \in Int /\ intOr(stored, key, 0) = n
    BY <1>1, <1>4, IntOrIs
  <2> QED
    BY <1>2, <1>4, <2>1 DEF readName
<1> QED
  BY <1>3, <1>4

\* Whatever the map holds, what is read can be written.
LEMMA ReadWritable == ASSUME NEW stored, Numbered(stored)
  PROVE  LET s == readSettings(stored)
         IN /\ s \in [writeBack : BOOLEAN, frame : {s.frame}, maximised : BOOLEAN, mainSplit : {s.mainSplit}, recent : {s.recent}, preferences : Sane]
            /\ Writable(s) /\ (s.maximised => s.frame # <<>>)
<1> DEFINE s == readSettings(stored)
           back == intOr(stored, "version", kSettingsVersion) <= kSettingsVersion
           split == text(stored, "window/mainsplit")
           recent == assign(Paths(stored))
           preferences == validated(PreferencesRead(stored))
<1>1. s = [writeBack |-> back, frame |-> FrameRead(stored), maximised |-> MaximisedRead(stored), mainSplit |-> split,
           recent |-> recent, preferences |-> preferences]
  BY ReadParts
<1>2. back \in BOOLEAN
  OBVIOUS
<1>3. split \in Seq(Int)
  BY DEF text, Numbered
<1>4. Recent(recent)
  <2>1. kMost \in Nat
    BY SettingsAssumption DEF kMost
  <2>2. Paths(stored) \in Seq(Int)
    <3>1. PICK f \in [0..kMost -> Seq(Int)] : Paths(stored) = f[kMost] /\ ListsIn(stored, f)
      BY ListingRuns
    <3> QED
      BY <2>1, <3>1
  <2> QED
    BY <2>2, AssignedIs
<1>5. preferences \in Sane
  <2> DEFINE raw == PreferencesRead(stored)
  <2>1. /\ Defaults.format \in Int /\ Defaults.target \in Int /\ Defaults.fft \in Int /\ Defaults.hop \in Int
        /\ Defaults.floor \in Int /\ Defaults.analysis \in Int /\ Defaults.key \in Int
    BY DEF Defaults
  <2>2. readName(stored, "format", 3, Defaults.format) \in Int /\ readName(stored, "target", 8, Defaults.target) \in Int
    BY <2>1, NameIs
  <2>3. intOr(stored, "fft", Defaults.fft) \in Int /\ intOr(stored, "hop", Defaults.hop) \in Int /\ intOr(stored, "floor", Defaults.floor) \in Int
    BY <2>1, IntOrIs
  <2>4. intOr(stored, "analysis", Defaults.analysis) \in Int /\ intOr(stored, "key", Defaults.key) \in Int
    BY <2>1, IntOrIs
  <2>5. \A name \in PreferenceNames : raw[name] \in Int
    BY <2>2, <2>3, <2>4 DEF PreferencesRead, PreferenceNames
  <2> HIDE DEF raw
  <2> QED
    BY <2>5, ValidatedIs DEF raw
<1>6. Laid(FrameRead(stored))
  <2>1. kDefaultWindow.width \in Int /\ kDefaultWindow.height \in Int /\ 0 \in Int
    BY SettingsAssumption
  <2> DEFINE rect == [x |-> intOr(stored, "window/x", 0), y |-> intOr(stored, "window/y", 0),
                      width |-> intOr(stored, "window/width", kDefaultWindow.width), height |-> intOr(stored, "window/height", kDefaultWindow.height)]
  <2>2. intOr(stored, "window/x", 0) \in Int /\ intOr(stored, "window/y", 0) \in Int
    BY <2>1, IntOrIs
  <2>3. intOr(stored, "window/width", kDefaultWindow.width) \in Int /\ intOr(stored, "window/height", kDefaultWindow.height) \in Int
    BY <2>1, IntOrIs
  <2>4. rect \in Rectangles
    BY <2>2, <2>3 DEF Rectangles
  <2>5. FrameRead(stored) = <<>> \/ FrameRead(stored) = <<rect>>
    BY DEF FrameRead
  <2> HIDE DEF rect
  <2> QED
    BY <2>4, <2>5 DEF Laid
<1>7. MaximisedRead(stored) \in BOOLEAN /\ (MaximisedRead(stored) => FrameRead(stored) # <<>>)
  <2>1. boolOr(stored, "window/maximised", FALSE) \in BOOLEAN
    BY DEF boolOr
  <2>2. \A r : <<r>> # <<>>
    OBVIOUS
  <2>3. WindowKeys \subseteq DOMAIN stored => FrameRead(stored) # <<>>
    BY <2>2 DEF FrameRead
  <2> QED
    BY <2>1, <2>3 DEF MaximisedRead
<1> HIDE DEF back, split, recent, preferences, s
<1>8. /\ s.writeBack = back /\ s.frame = FrameRead(stored) /\ s.maximised = MaximisedRead(stored) /\ s.mainSplit = split
      /\ s.recent = recent /\ s.preferences = preferences
  BY <1>1
<1>9. Writable(s) /\ (s.maximised => s.frame # <<>>)
  BY <1>3, <1>4, <1>5, <1>6, <1>7, <1>8 DEF Writable
<1>10. s \in [writeBack : BOOLEAN, frame : {s.frame}, maximised : BOOLEAN, mainSplit : {s.mainSplit}, recent : {s.recent}, preferences : Sane]
  BY <1>1, <1>2, <1>5, <1>7, <1>8
<1> QED
  BY <1>9, <1>10 DEF s

\* The keys that are not written.
LEMMA KeysLeftOut == ASSUME NEW s, Writable(s)
  PROVE  /\ s.frame = <<>> => "window/x" \notin Keys(s)
         /\ s.mainSplit = <<>> => "window/mainsplit" \notin Keys(s)
         /\ \A n \in 1..kMost : n \notin DOMAIN s.recent => RecentKeys[n] \notin Keys(s)
<1>1. DOMAIN s.recent \subseteq 1..kMost
  <2>1. kMost \in Nat
    BY SettingsAssumption DEF kMost
  <2> QED
    BY <2>1 DEF Writable, Recent
<1>2. \A i \in DOMAIN s.recent : RecentKeys[i] # "window/x" /\ RecentKeys[i] # "window/mainsplit"
  BY <1>1, KeysApart DEF WindowKeys
<1>3. ASSUME s.frame = <<>> PROVE "window/x" \notin Keys(s)
  BY <1>2, <1>3 DEF Keys, PreferenceNames
<1>4. ASSUME s.mainSplit = <<>> PROVE "window/mainsplit" \notin Keys(s)
  BY <1>2, <1>4 DEF Keys, PreferenceNames, WindowKeys
<1>5. ASSUME NEW n \in 1..kMost, n \notin DOMAIN s.recent PROVE RecentKeys[n] \notin Keys(s)
  <2>1. n \in DOMAIN RecentKeys /\ DOMAIN s.recent \subseteq DOMAIN RecentKeys
    BY <1>1, SettingsAssumption DEF kMost
  <2>2. \A i \in DOMAIN s.recent : RecentKeys[i] # RecentKeys[n]
    BY <1>5, <2>1, SettingsAssumption
  <2>3. RecentKeys[n] \notin {"version"} \cup WindowKeys \cup {"window/maximised"} \cup {"window/mainsplit"} \cup PreferenceNames
    BY KeysApart
  <2> QED
    BY <2>2, <2>3 DEF Keys
<1> QED
  BY <1>3, <1>4, <1>5

\* What is written holds numbers.
LEMMA WrittenNumbers == ASSUME NEW s, Writable(s) PROVE Numbered(writeSettings(s))
<1> DEFINE stored == writeSettings(s)
<1>1. /\ DOMAIN stored = Keys(s)
      /\ stored["version"] = <<1>>
      /\ s.frame # <<>> => /\ stored["window/x"] = <<s.frame[1].x>> /\ stored["window/y"] = <<s.frame[1].y>>
                           /\ stored["window/width"] = <<s.frame[1].width>> /\ stored["window/height"] = <<s.frame[1].height>>
                           /\ stored["window/maximised"] = <<IF s.maximised THEN 1 ELSE 0>>
      /\ s.mainSplit # <<>> => stored["window/mainsplit"] = s.mainSplit
      /\ \A name \in PreferenceNames : stored[name] = <<s.preferences[name]>>
      /\ \A i \in DOMAIN s.recent : stored[RecentKeys[i]] = <<s.recent[i]>>
  BY WrittenMap
<1> HIDE DEF stored
<1>2. \A n \in Int : <<n>> \in Seq(Int)
  OBVIOUS
<1>3. 1 \in Int /\ 0 \in Int
  OBVIOUS
<1>4. stored["version"] \in Seq(Int)
  BY <1>1, <1>2, <1>3
<1>5. ASSUME s.frame # <<>>, NEW key \in WindowKeys \cup {"window/maximised"} PROVE stored[key] \in Seq(Int)
  <2>1. PICK rect \in Rectangles : s.frame = <<rect>>
    BY <1>5 DEF Writable, Laid
  <2>2. s.frame[1] = rect
    BY <2>1
  <2>3. rect.x \in Int /\ rect.y \in Int /\ rect.width \in Int /\ rect.height \in Int
    BY DEF Rectangles
  <2>4. stored["window/x"] = <<rect.x>> /\ stored["window/y"] = <<rect.y>> /\ stored["window/width"] = <<rect.width>> /\ stored["window/height"] = <<rect.height>>
    BY <1>1, <1>5, <2>2
  <2>5. stored["window/maximised"] \in Seq(Int)
    BY <1>1, <1>2, <1>3, <1>5
  <2> QED
    BY <1>2, <2>3, <2>4, <2>5 DEF WindowKeys
<1>6. s.mainSplit # <<>> => stored["window/mainsplit"] \in Seq(Int)
  BY <1>1 DEF Writable
<1>7. \A name \in PreferenceNames : stored[name] \in Seq(Int)
  <2>1. \A name \in PreferenceNames : s.preferences[name] \in Int
    BY SaneIs DEF Writable
  <2> QED
    BY <1>1, <1>2, <2>1
<1>8. \A i \in DOMAIN s.recent : stored[RecentKeys[i]] \in Seq(Int)
  <2>1. \A i \in DOMAIN s.recent : s.recent[i] \in Int
    BY DEF Writable, Recent
  <2> QED
    BY <1>1, <1>2, <2>1
<1>9. ASSUME NEW key \in Keys(s) PROVE stored[key] \in Seq(Int)
  <2>1. \/ key = "version"
        \/ s.frame # <<>> /\ key \in WindowKeys \cup {"window/maximised"}
        \/ s.mainSplit # <<>> /\ key = "window/mainsplit"
        \/ \E i \in DOMAIN s.recent : key = RecentKeys[i]
        \/ key \in PreferenceNames
    BY DEF Keys
  <2> QED
    BY <1>4, <1>5, <1>6, <1>7, <1>8, <2>1
<1> QED
  BY <1>1, <1>9 DEF Numbered, stored

\* And is read as what it was.
LEMMA ReadBackIs == ASSUME NEW s, Writable(s)
  PROVE  readSettings(writeSettings(s)) =
           [writeBack |-> TRUE, frame |-> s.frame, maximised |-> s.frame # <<>> /\ s.maximised, mainSplit |-> s.mainSplit,
            recent |-> s.recent, preferences |-> s.preferences]
<1> DEFINE stored == writeSettings(s)
<1>1. /\ DOMAIN stored = Keys(s)
      /\ stored["version"] = <<1>>
      /\ s.frame # <<>> => /\ stored["window/x"] = <<s.frame[1].x>> /\ stored["window/y"] = <<s.frame[1].y>>
                           /\ stored["window/width"] = <<s.frame[1].width>> /\ stored["window/height"] = <<s.frame[1].height>>
                           /\ stored["window/maximised"] = <<IF s.maximised THEN 1 ELSE 0>>
      /\ s.mainSplit # <<>> => stored["window/mainsplit"] = s.mainSplit
      /\ \A name \in PreferenceNames : stored[name] = <<s.preferences[name]>>
      /\ \A i \in DOMAIN s.recent : stored[RecentKeys[i]] = <<s.recent[i]>>
  BY WrittenMap
<1>2. Numbered(stored)
  BY WrittenNumbers
<1> HIDE DEF stored
<1>3. (intOr(stored, "version", kSettingsVersion) <= kSettingsVersion) = TRUE
  <2>1. "version" \in DOMAIN stored /\ 1 \in Int /\ kSettingsVersion \in Int
    BY <1>1 DEF Keys, kSettingsVersion
  <2> DEFINE one == 1
  <2>2. one \in Int /\ stored["version"] = <<one>>
    BY <1>1
  <2> HIDE DEF one
  <2>3. intOr(stored, "version", kSettingsVersion) = one
    BY <1>2, <2>1, <2>2, IntOrIs
  <2> QED
    BY <2>3 DEF kSettingsVersion, one
<1>4. FrameRead(stored) = s.frame /\ MaximisedRead(stored) = (s.frame # <<>> /\ s.maximised)
  <2>1. CASE s.frame = <<>>
    <3>1. ~(WindowKeys \subseteq DOMAIN stored)
      BY <1>1, <2>1, KeysLeftOut DEF WindowKeys
    <3> QED
      BY <2>1, <3>1 DEF FrameRead, MaximisedRead
  <2>2. CASE s.frame # <<>>
    <3>1. PICK rect \in Rectangles : s.frame = <<rect>>
      BY <2>2 DEF Writable, Laid
    <3>2. s.frame[1] = rect
      BY <3>1
    <3>3. rect.x \in Int /\ rect.y \in Int /\ rect.width \in Int /\ rect.height \in Int
      BY DEF Rectangles
    <3>4. stored["window/x"] = <<rect.x>> /\ stored["window/y"] = <<rect.y>> /\ stored["window/width"] = <<rect.width>> /\ stored["window/height"] = <<rect.height>>
      BY <1>1, <2>2, <3>2
    <3>5. WindowKeys \cup {"window/maximised"} \subseteq DOMAIN stored
      BY <1>1, <2>2 DEF Keys
    <3>6. "window/x" \in DOMAIN stored /\ "window/y" \in DOMAIN stored /\ "window/width" \in DOMAIN stored /\ "window/height" \in DOMAIN stored
      BY <3>5 DEF WindowKeys
    <3>7. kDefaultWindow.width \in Int /\ kDefaultWindow.height \in Int /\ 0 \in Int
      BY SettingsAssumption
    <3>8. intOr(stored, "window/x", 0) = rect.x /\ intOr(stored, "window/y", 0) = rect.y
      BY <1>2, <3>3, <3>4, <3>6, <3>7, IntOrIs
    <3>9. intOr(stored, "window/width", kDefaultWindow.width) = rect.width /\ intOr(stored, "window/height", kDefaultWindow.height) = rect.height
      BY <1>2, <3>3, <3>4, <3>6, <3>7, IntOrIs
    <3>10. FrameRead(stored) = <<[x |-> rect.x, y |-> rect.y, width |-> rect.width, height |-> rect.height]>>
      BY <3>5, <3>8, <3>9 DEF FrameRead
    <3>11. [x |-> rect.x, y |-> rect.y, width |-> rect.width, height |-> rect.height] = rect
      BY DEF Rectangles
    <3>12. boolOr(stored, "window/maximised", FALSE) = s.maximised
      <4>1. text(stored, "window/maximised") = <<IF s.maximised THEN 1 ELSE 0>>
        BY <1>1, <2>2, <3>5 DEF text
      <4>2. <<0>> # <<1>>
        OBVIOUS
      <4>3. s.maximised \in BOOLEAN
        BY DEF Writable
      <4>4. CASE s.maximised
        BY <4>1, <4>2, <4>4 DEF boolOr
      <4>5. CASE ~s.maximised
        <5>1. text(stored, "window/maximised") = <<0>>
          BY <4>1, <4>5
        <5>2. boolOr(stored, "window/maximised", FALSE) = FALSE
          BY <4>2, <5>1 DEF boolOr
        <5> QED
          BY <4>3, <4>5, <5>2
      <4> QED
        BY <4>3, <4>4, <4>5
    <3> QED
      BY <2>2, <3>1, <3>5, <3>10, <3>11, <3>12 DEF MaximisedRead
  <2> QED
    BY <2>1, <2>2
<1>5. text(stored, "window/mainsplit") = s.mainSplit
  <2>1. CASE s.mainSplit = <<>>
    BY <1>1, <2>1, KeysLeftOut DEF text
  <2>2. CASE s.mainSplit # <<>>
    BY <1>1, <2>2 DEF text, Keys
  <2> QED
    BY <2>1, <2>2
<1>6. assign(Paths(stored)) = s.recent
  <2> DEFINE l == s.recent
  <2>1. l \in Seq(Int) /\ Len(l) \in Nat /\ Len(l) <= kMost /\ DOMAIN l = 1..Len(l) /\ kMost \in Nat
    BY SettingsAssumption DEF Writable, Recent, kMost
  <2>2. ASSUME NEW n \in 1..kMost PROVE HoldsPath(stored, n) <=> n <= Len(l)
    <3>1. CASE n \in 1..Len(l)
      <4>1. RecentKeys[n] \in DOMAIN stored /\ stored[RecentKeys[n]] = <<l[n]>>
        BY <1>1, <2>1, <3>1 DEF Keys
      <4>2. Len(stored[RecentKeys[n]]) = 1
        BY <4>1
      <4> QED
        BY <3>1, <4>1, <4>2 DEF HoldsPath, text
    <3>2. CASE n \notin 1..Len(l)
      <4> DEFINE none == <<>>
      <4>1. Len(none) = 0
        OBVIOUS
      <4> HIDE DEF none
      <4>2. RecentKeys[n] \notin DOMAIN stored
        BY <1>1, <2>1, <3>2, KeysLeftOut
      <4>3. ~HoldsPath(stored, n)
        BY <4>1, <4>2 DEF HoldsPath, text, none
      <4> QED
        BY <2>1, <3>2, <4>3
    <3> QED
      BY <3>1, <3>2
  <2>3. \A n \in 1..Len(l) : stored[RecentKeys[n]][1] = l[n]
    <3>1. \A n \in 1..Len(l) : stored[RecentKeys[n]] = <<l[n]>>
      BY <1>1, <2>1
    <3> QED
      BY <3>1
  <2> HIDE DEF l
  <2>4. Paths(stored) = l
    BY <1>2, <2>1, <2>2, <2>3, PathsRead
  <2> QED
    BY <2>4, AssignedIs DEF l, Writable, Recent
<1>7. validated(PreferencesRead(stored)) = s.preferences
  <2> DEFINE p == s.preferences
  <2>1. p \in Sane
    BY DEF Writable
  <2>2. /\ p.format \in 1..3 /\ p.target \in 1..8 /\ \A name \in PreferenceNames : p[name] \in Int
        /\ p = [format |-> p.format, target |-> p.target, fft |-> p.fft, hop |-> p.hop, floor |-> p.floor, analysis |-> p.analysis, key |-> p.key]
    BY <2>1, SaneIs
  <2>3. \A name \in PreferenceNames : name \in DOMAIN stored /\ stored[name] = <<p[name]>>
    BY <1>1 DEF Keys
  <2> HIDE DEF p
  <2>4. /\ Defaults.format \in Int /\ Defaults.target \in Int /\ Defaults.fft \in Int /\ Defaults.hop \in Int
        /\ Defaults.floor \in Int /\ Defaults.analysis \in Int /\ Defaults.key \in Int /\ 3 \in Nat /\ 8 \in Nat
    BY DEF Defaults
  <2>5. /\ "format" \in DOMAIN stored /\ stored["format"] = <<p.format>> /\ "target" \in DOMAIN stored /\ stored["target"] = <<p.target>>
        /\ "fft" \in DOMAIN stored /\ stored["fft"] = <<p.fft>> /\ "hop" \in DOMAIN stored /\ stored["hop"] = <<p.hop>>
        /\ "floor" \in DOMAIN stored /\ stored["floor"] = <<p.floor>> /\ "analysis" \in DOMAIN stored /\ stored["analysis"] = <<p.analysis>>
        /\ "key" \in DOMAIN stored /\ stored["key"] = <<p.key>>
    BY <2>3 DEF PreferenceNames
  <2>6. p.fft \in Int /\ p.hop \in Int /\ p.floor \in Int /\ p.analysis \in Int /\ p.key \in Int
    BY <2>2 DEF PreferenceNames
  <2>7. readName(stored, "format", 3, Defaults.format) = p.format
    <3> DEFINE names == 3
    <3>1. names \in Nat /\ p.format \in 1..names
      BY <2>2
    <3> HIDE DEF names
    <3>3. /\ Numbered(stored) /\ Defaults.format \in Int
          /\ "format" \in DOMAIN stored /\ stored["format"] = <<p.format>>
      BY <1>2, <2>4, <2>5
    <3>2. readName(stored, "format", names, Defaults.format) = p.format
      BY <3>1, <3>3, NameIs
    <3> QED
      BY <3>2 DEF names
  <2>8. readName(stored, "target", 8, Defaults.target) = p.target
    <3> DEFINE names == 8
    <3>1. names \in Nat /\ p.target \in 1..names
      BY <2>2
    <3> HIDE DEF names
    <3>3. /\ Numbered(stored) /\ Defaults.target \in Int
          /\ "target" \in DOMAIN stored /\ stored["target"] = <<p.target>>
      BY <1>2, <2>4, <2>5
    <3>2. readName(stored, "target", names, Defaults.target) = p.target
      BY <3>1, <3>3, NameIs
    <3> QED
      BY <3>2 DEF names
  <2>9. intOr(stored, "fft", Defaults.fft) = p.fft /\ intOr(stored, "hop", Defaults.hop) = p.hop /\ intOr(stored, "floor", Defaults.floor) = p.floor
    BY <1>2, <2>4, <2>5, <2>6, IntOrIs
  <2>10. intOr(stored, "analysis", Defaults.analysis) = p.analysis /\ intOr(stored, "key", Defaults.key) = p.key
    BY <1>2, <2>4, <2>5, <2>6, IntOrIs
  <2>11. PreferencesRead(stored) = p
    BY <2>2, <2>7, <2>8, <2>9, <2>10 DEF PreferencesRead
  <2> QED
    BY <2>1, <2>11, SaneStays DEF p
<1>8. readSettings(stored) = [writeBack |-> TRUE, frame |-> s.frame, maximised |-> s.frame # <<>> /\ s.maximised, mainSplit |-> s.mainSplit,
                              recent |-> s.recent, preferences |-> s.preferences]
  BY <1>3, <1>4, <1>5, <1>6, <1>7, ReadParts
<1> QED
  BY <1>8 DEF stored

\* What is read from any map can be written and read again.
LEMMA ReadsBack == ASSUME NEW stored, Numbered(stored)
  PROVE  LET s == readSettings(stored)
         IN readSettings(writeSettings(s)) = [s EXCEPT !.writeBack = TRUE] /\ s.preferences.key <= s.preferences.analysis
<1> DEFINE s == readSettings(stored)
<1>1. /\ s \in [writeBack : BOOLEAN, frame : {s.frame}, maximised : BOOLEAN, mainSplit : {s.mainSplit}, recent : {s.recent}, preferences : Sane]
      /\ Writable(s) /\ (s.maximised => s.frame # <<>>)
  BY ReadWritable
<1> HIDE DEF s
<1>2. s.maximised \in BOOLEAN /\ s.preferences \in Sane
  BY <1>1
<1>3. readSettings(writeSettings(s)) = [writeBack |-> TRUE, frame |-> s.frame, maximised |-> s.maximised, mainSplit |-> s.mainSplit,
                                        recent |-> s.recent, preferences |-> s.preferences]
  <2>1. (s.frame # <<>> /\ s.maximised) = s.maximised
    BY <1>1, <1>2
  <2> QED
    BY <1>1, <2>1, ReadBackIs
<1>4. [s EXCEPT !.writeBack = TRUE] = [writeBack |-> TRUE, frame |-> s.frame, maximised |-> s.maximised, mainSplit |-> s.mainSplit,
                                       recent |-> s.recent, preferences |-> s.preferences]
  <2> DEFINE back == intOr(stored, "version", kSettingsVersion) <= kSettingsVersion
             frame == FrameRead(stored)
             maximised == MaximisedRead(stored)
             split == text(stored, "window/mainsplit")
             recent == assign(Paths(stored))
             preferences == validated(PreferencesRead(stored))
  <2>1. s = [writeBack |-> back, frame |-> frame, maximised |-> maximised, mainSplit |-> split, recent |-> recent, preferences |-> preferences]
    BY ReadParts DEF s
  <2> HIDE DEF back, frame, maximised, split, recent, preferences
  <2>2. s.frame = frame /\ s.maximised = maximised /\ s.mainSplit = split /\ s.recent = recent /\ s.preferences = preferences
    BY <2>1
  <2> DEFINE yes == TRUE
  <2> HIDE DEF yes
  <2>3. [s EXCEPT !.writeBack = yes] = [writeBack |-> yes, frame |-> frame, maximised |-> maximised, mainSplit |-> split, recent |-> recent, preferences |-> preferences]
    BY <2>1
  <2> QED
    BY <2>2, <2>3 DEF yes
<1>5. s.preferences.key <= s.preferences.analysis
  <2> DEFINE p == s.preferences
  <2>1. p \in Sane
    BY <1>2
  <2> HIDE DEF p
  <2>2. InBounds(p) /\ p.key \in Int /\ p.analysis \in Int
    BY <2>1, SaneIs
  <2>3. p.key <= p.analysis
    BY <2>2 DEF InBounds, Bounds
  <2> QED
    BY <2>3 DEF p
<1> QED
  BY <1>3, <1>4, <1>5 DEF s

-------------------------------------------------------------------------------
(* Where a window goes.                                                      *)

\* A number that is within the limit stays; any other comes to be.
LEMMA WrappedIs == ASSUME NEW n \in Int
  PROVE  /\ Wrapped(n) \in Int /\ -IntLimit <= Wrapped(n) /\ Wrapped(n) < IntLimit
         /\ (-IntLimit <= n /\ n < IntLimit => Wrapped(n) = n)
<1> DEFINE L == IntLimit  m == 2 * L  k == n + L
<1>1. L \in Nat /\ L > 0 /\ m \in Nat /\ m > 0 /\ m = L + L /\ k \in Int
  BY SettingsAssumption
<1>2. Wrapped(n) = (k % m) - L
  BY DEF Wrapped
<1> HIDE DEF m
<1>3. k % m \in Nat /\ k % m < m
  BY <1>1
<1>4. ASSUME -L <= n, n < L PROVE k % m = k
  <2>1. k \in Nat /\ k < m
    BY <1>1, <1>4
  <2> QED
    BY <1>1, <2>1, SmallStays
<1> HIDE DEF L
<1>5. -L <= n /\ n < L => k - L = n
  BY <1>1
<1>6. (k % m) - L \in Int /\ -L <= (k % m) - L /\ (k % m) - L < L
  BY <1>1, <1>3
<1> HIDE DEF k
<1> QED
  BY <1>2, <1>4, <1>5, <1>6 DEF L

\* The screens that may be attached.
ScreenSizes == [x : Int, y : Int, width : Nat, height : Nat]
Screen(b) == b \in ScreenSizes /\ EndsWithin(b)

\* No edge of one is beyond the limit.
LEMMA ScreenIs == ASSUME NEW b, Screen(b)
  PROVE  /\ b \in Rectangles /\ b.x \in Int /\ b.y \in Int /\ b.width \in Nat /\ b.height \in Nat
         /\ -IntLimit <= b.x /\ -IntLimit <= b.y /\ b.x + b.width < IntLimit /\ b.y + b.height < IntLimit
         /\ Wrapped(b.x + b.width) = b.x + b.width /\ Wrapped(b.y + b.height) = b.y + b.height
<1>1. b.x \in Int /\ b.y \in Int /\ b.width \in Nat /\ b.height \in Nat /\ b \in Rectangles
  BY DEF Screen, ScreenSizes, Rectangles
<1>2. IntLimit \in Nat
  BY SettingsAssumption
<1>3. {b.x, b.y, b.x + b.width, b.y + b.height} \subseteq -IntLimit..IntLimit - 1
  BY DEF Screen, EndsWithin
<1>4. -IntLimit <= b.x /\ -IntLimit <= b.y /\ b.x + b.width < IntLimit /\ b.y + b.height < IntLimit
  BY <1>1, <1>2, <1>3
<1>5. -IntLimit <= b.x + b.width /\ -IntLimit <= b.y + b.height
  BY <1>1, <1>2, <1>4
<1>6. b.x + b.width \in Int /\ b.y + b.height \in Int
  BY <1>1
<1> QED
  BY <1>1, <1>4, <1>5, <1>6, WrappedIs

\* What two rectangles share, an edge at a time.
LeftEdge(a, b) == IF a.x >= b.x THEN a.x ELSE b.x
TopEdge(a, b) == IF a.y >= b.y THEN a.y ELSE b.y
RightEnd(a) == Wrapped(a.x + a.width)
BottomEnd(a) == Wrapped(a.y + a.height)
RightEdge(a, b) == IF RightEnd(a) <= b.x + b.width THEN RightEnd(a) ELSE b.x + b.width
BottomEdge(a, b) == IF BottomEnd(a) <= b.y + b.height THEN BottomEnd(a) ELSE b.y + b.height
Shared(a, b) == LeftEdge(a, b) < RightEdge(a, b) /\ TopEdge(a, b) < BottomEdge(a, b)

\* The rectangle between those edges.
LEMMA IntersectionIs == ASSUME NEW a \in Rectangles, NEW b, Screen(b)
  PROVE  /\ LeftEdge(a, b) \in Int /\ RightEdge(a, b) \in Int /\ TopEdge(a, b) \in Int /\ BottomEdge(a, b) \in Int
         /\ intersection(a, b) = IF Shared(a, b) THEN [x |-> LeftEdge(a, b), y |-> TopEdge(a, b), width |-> RightEdge(a, b) - LeftEdge(a, b), height |-> BottomEdge(a, b) - TopEdge(a, b)]
                                 ELSE [x |-> LeftEdge(a, b), y |-> TopEdge(a, b), width |-> 0, height |-> 0]
<1>1. a.x \in Int /\ a.y \in Int /\ a.width \in Int /\ a.height \in Int
  BY DEF Rectangles
<1>2. /\ b.x \in Int /\ b.y \in Int /\ b.width \in Nat /\ b.height \in Nat
      /\ Wrapped(b.x + b.width) = b.x + b.width /\ Wrapped(b.y + b.height) = b.y + b.height
  BY ScreenIs
<1>3. RightEnd(a) \in Int /\ BottomEnd(a) \in Int
  BY <1>1, WrappedIs DEF RightEnd, BottomEnd
<1>4. LeftEdge(a, b) = Max({a.x, b.x}) /\ TopEdge(a, b) = Max({a.y, b.y})
  BY <1>1, <1>2, MaxOfTwo DEF LeftEdge, TopEdge
<1>5. b.x + b.width \in Int /\ b.y + b.height \in Int
  BY <1>2
<1>6. RightEdge(a, b) = Min({RightEnd(a), Wrapped(b.x + b.width)}) /\ BottomEdge(a, b) = Min({BottomEnd(a), Wrapped(b.y + b.height)})
  BY <1>2, <1>3, <1>5, MinOfTwo DEF RightEdge, BottomEdge
<1>7. LeftEdge(a, b) \in Int /\ RightEdge(a, b) \in Int /\ TopEdge(a, b) \in Int /\ BottomEdge(a, b) \in Int
  BY <1>1, <1>2, <1>3, <1>5 DEF LeftEdge, RightEdge, TopEdge, BottomEdge
<1>8. intersection(a, b) = IF RightEdge(a, b) <= LeftEdge(a, b) \/ BottomEdge(a, b) <= TopEdge(a, b) THEN [x |-> LeftEdge(a, b), y |-> TopEdge(a, b), width |-> 0, height |-> 0]
                           ELSE [x |-> LeftEdge(a, b), y |-> TopEdge(a, b), width |-> RightEdge(a, b) - LeftEdge(a, b), height |-> BottomEdge(a, b) - TopEdge(a, b)]
  BY <1>4, <1>6, Zenon DEF intersection, RightEnd, BottomEnd
<1>9. Shared(a, b) <=> ~(RightEdge(a, b) <= LeftEdge(a, b) \/ BottomEdge(a, b) <= TopEdge(a, b))
  BY <1>7 DEF Shared
<1> QED
  BY <1>7, <1>8, <1>9

\* Its area.
LEMMA AreaIs == ASSUME NEW a \in Rectangles, NEW b, Screen(b)
  PROVE  /\ area(intersection(a, b)) \in Int
         /\ area(intersection(a, b)) = IF Shared(a, b) THEN (RightEdge(a, b) - LeftEdge(a, b)) * (BottomEdge(a, b) - TopEdge(a, b)) ELSE 0
<1>1. LeftEdge(a, b) \in Int /\ RightEdge(a, b) \in Int /\ TopEdge(a, b) \in Int /\ BottomEdge(a, b) \in Int
  BY IntersectionIs
<1> DEFINE w == RightEdge(a, b) - LeftEdge(a, b)  h == BottomEdge(a, b) - TopEdge(a, b)
<1>2. w \in Int /\ h \in Int
  BY <1>1
<1>3. intersection(a, b) = IF Shared(a, b) THEN [x |-> LeftEdge(a, b), y |-> TopEdge(a, b), width |-> w, height |-> h]
                           ELSE [x |-> LeftEdge(a, b), y |-> TopEdge(a, b), width |-> 0, height |-> 0]
  BY IntersectionIs
<1> HIDE DEF w, h
<1>4. w * h \in Int /\ 0 * 0 = 0
  BY <1>2
<1>5. area(intersection(a, b)) = IF Shared(a, b) THEN w * h ELSE 0
  BY <1>3, <1>4 DEF area
<1> QED
  BY <1>4, <1>5 DEF w, h

\* The first of the largest.
LEMMA FirstLargest == ASSUME NEW N \in Nat \ {0}, NEW size \in [1..N -> Int]
  PROVE  \E i \in 1..N : \A j \in 1..N : size[j] < size[i] \/ (size[j] = size[i] /\ i <= j)
<1> DEFINE First(i, m) == \A j \in 1..m : size[j] < size[i] \/ (size[j] = size[i] /\ i <= j)
           Has == {m \in Nat : m + 1 <= N => \E i \in 1..(m + 1) : First(i, m + 1)}
<1>1. 0 \in Has
  <2>1. First(1, 0 + 1) /\ 1 \in 1..(0 + 1)
    OBVIOUS
  <2> QED
    BY <2>1
<1>2. ASSUME NEW m \in Has PROVE m + 1 \in Has
  <2> SUFFICES ASSUME m + 1 + 1 <= N PROVE \E i \in 1..(m + 1 + 1) : First(i, m + 1 + 1)
    OBVIOUS
  <2>1. m \in Nat /\ m + 1 <= N
    OBVIOUS
  <2>2. PICK i \in 1..(m + 1) : First(i, m + 1)
    BY <2>1
  <2> DEFINE n == m + 1 + 1
  <2>3. n \in 1..N /\ i \in 1..N /\ i \in 1..n /\ n \in 1..n /\ \A j \in 1..n : j = n \/ j \in 1..(m + 1)
    BY <2>1
  <2>4. size[n] \in Int /\ size[i] \in Int /\ \A j \in 1..(m + 1) : size[j] \in Int /\ j < n
    BY <2>1, <2>3
  <2> HIDE DEF n
  <2>5. CASE size[n] > size[i]
    <3>1. First(n, n)
      BY <2>2, <2>3, <2>4, <2>5
    <3> QED
      BY <2>3, <3>1 DEF n
  <2>6. CASE ~(size[n] > size[i])
    <3>1. i <= n /\ (size[n] < size[i] \/ size[n] = size[i])
      BY <2>3, <2>4, <2>6
    <3>2. First(i, n)
      BY <2>2, <2>3, <3>1
    <3> QED
      BY <2>3, <3>2 DEF n
  <2> QED
    BY <2>5, <2>6
<1>3. Has = Nat
  <2> HIDE DEF Has
  <2>1. Has \subseteq Nat
    BY DEF Has
  <2> QED
    BY <1>1, <1>2, <2>1, FromZero
<1>4. N - 1 \in Nat /\ N - 1 + 1 = N
  OBVIOUS
<1>5. N - 1 \in Has
  BY <1>3, <1>4
<1> QED
  BY <1>4, <1>5

\* The screen that is taken holds no less of the window than any other.
LEMMA BestIs == ASSUME NEW saved \in Rectangles, NEW attached \in Seq(ScreenSizes), attached # <<>>, \A i \in DOMAIN attached : Screen(attached[i])
  PROVE  \E i \in DOMAIN attached : /\ BestScreen(saved, attached) = attached[i]
                                    /\ \A j \in DOMAIN attached : area(intersection(saved, attached[j])) <= area(intersection(saved, attached[i]))
<1> DEFINE N == Len(attached)
           held(i) == area(intersection(saved, attached[i]))
           size == [i \in 1..N |-> held(i)]
           Best(i) == \A j \in DOMAIN attached : held(j) < held(i) \/ (held(j) = held(i) /\ i <= j)
<1>1. N \in Nat \ {0} /\ DOMAIN attached = 1..N
  BY EmptySeq
<1>2. \A i \in 1..N : held(i) \in Int
  BY <1>1, AreaIs
<1>3. size \in [1..N -> Int] /\ \A i \in 1..N : size[i] = held(i)
  BY <1>2
<1> HIDE DEF size, N
<1>4. PICK i \in 1..N : \A j \in 1..N : size[j] < size[i] \/ (size[j] = size[i] /\ i <= j)
  BY <1>1, <1>3, FirstLargest
<1>5. Best(i)
  BY <1>1, <1>3, <1>4
<1> DEFINE k == CHOOSE n \in DOMAIN attached : Best(n)
<1>6. k \in DOMAIN attached /\ Best(k)
  BY <1>1, <1>5
<1>7. BestScreen(saved, attached) = attached[k]
  BY DEF BestScreen
<1> HIDE DEF k
<1>8. \A j \in DOMAIN attached : held(j) <= held(k)
  BY <1>1, <1>2, <1>6
<1> QED
  BY <1>6, <1>7, <1>8

\* More of something is more of each part of it.
LEMMA Grows == ASSUME NEW a \in Int, NEW b \in Int, NEW c \in Nat, a <= b PROVE a * c <= b * c
OBVIOUS

\* Of two smaller parts the product is smaller.
LEMMA ProductIs == ASSUME NEW a \in Nat \ {0}, NEW b \in Nat \ {0}, NEW c \in Nat \ {0}, NEW d \in Nat \ {0}, a <= c, b <= d, c * d <= a * b
  PROVE  a = c /\ b = d
<1>1. c * d \in Int /\ a * b \in Int /\ c * b \in Int
  OBVIOUS
<1>2. ASSUME a < c PROVE FALSE
  <2>1. (a + 1) * b <= c * b
    BY <1>2, Grows
  <2>2. (a + 1) * b = a * b + b
    OBVIOUS
  <2>3. b * c <= d * c /\ b * c = c * b /\ d * c = c * d
    BY Grows
  <2> HIDE <1>2
  <2> QED
    BY <1>1, <2>1, <2>2, <2>3
<1>3. ASSUME b < d PROVE FALSE
  <2>1. (b + 1) * c <= d * c
    BY <1>3, Grows
  <2>2. (b + 1) * c = b * c + c /\ b * c = c * b /\ d * c = c * d
    OBVIOUS
  <2>3. a * b <= c * b
    BY Grows
  <2> QED
    BY <1>1, <2>1, <2>2, <2>3
<1> QED
  BY <1>2, <1>3

\* A size that fits a screen.
FitsMinimum(size) == size.width >= kMinimumWindow.width /\ size.height >= kMinimumWindow.height

\* The smallest size is larger than what has to be seen.
LEMMA Minimum == /\ kMinimumWindow.width \in Nat \ {0} /\ kMinimumWindow.height \in Nat \ {0}
                 /\ kGrabbable.width \in Nat \ {0} /\ kGrabbable.height \in Nat \ {0}
                 /\ kGrabbable.width <= kMinimumWindow.width /\ kGrabbable.height <= kMinimumWindow.height
<1>1. kMinimumWindow \in [width : Nat \ {0}, height : Nat \ {0}] /\ kGrabbable \in [width : Nat \ {0}, height : Nat \ {0}]
  BY SettingsAssumption
<1> QED
  BY <1>1, SettingsAssumption

\* A size is fitted to a screen, and stays if it fits.
LEMMA ResizedIs == ASSUME NEW saved \in Rectangles, NEW b, Screen(b), FitsMinimum(b)
  PROVE  LET r == Resized(saved, b)
         IN /\ r \in Rectangles /\ r.x = saved.x /\ r.y = saved.y
            /\ FitsMinimum(r) /\ r.width <= b.width /\ r.height <= b.height
            /\ FitsMinimum(saved) /\ saved.width <= b.width /\ saved.height <= b.height => r = saved
<1> DEFINE w == Clamp(kMinimumWindow.width, saved.width, Max({b.width, kMinimumWindow.width}))
           h == Clamp(kMinimumWindow.height, saved.height, Max({b.height, kMinimumWindow.height}))
           r == Resized(saved, b)
<1>1. saved.x \in Int /\ saved.y \in Int /\ saved.width \in Int /\ saved.height \in Int
  BY DEF Rectangles
<1>2. saved = [x |-> saved.x, y |-> saved.y, width |-> saved.width, height |-> saved.height]
  BY DEF Rectangles
<1>3. b.width \in Nat /\ b.height \in Nat /\ kMinimumWindow.width <= b.width /\ kMinimumWindow.height <= b.height
  BY ScreenIs, Minimum DEF FitsMinimum
<1>4. Max({b.width, kMinimumWindow.width}) = b.width /\ Max({b.height, kMinimumWindow.height}) = b.height
  BY <1>3, Minimum, MaxOfTwo
<1>5. w \in Int /\ kMinimumWindow.width <= w /\ w <= b.width /\ (kMinimumWindow.width <= saved.width /\ saved.width <= b.width => w = saved.width)
  <2>1. w = Clamp(kMinimumWindow.width, saved.width, b.width)
    BY <1>4
  <2>2. kMinimumWindow.width \in Int /\ saved.width \in Int /\ b.width \in Int /\ kMinimumWindow.width <= b.width
    BY <1>1, <1>3, Minimum
  <2> HIDE DEF w
  <2> QED
    BY <2>1, <2>2, ClampIs, Zenon
<1>6. h \in Int /\ kMinimumWindow.height <= h /\ h <= b.height /\ (kMinimumWindow.height <= saved.height /\ saved.height <= b.height => h = saved.height)
  <2>1. h = Clamp(kMinimumWindow.height, saved.height, b.height)
    BY <1>4
  <2>2. kMinimumWindow.height \in Int /\ saved.height \in Int /\ b.height \in Int /\ kMinimumWindow.height <= b.height
    BY <1>1, <1>3, Minimum
  <2> HIDE DEF h
  <2> QED
    BY <2>1, <2>2, ClampIs, Zenon
<1>7. r = [saved EXCEPT !.width = w, !.height = h]
  BY DEF Resized
<1> HIDE DEF w, h, r
<1>8. r = [x |-> saved.x, y |-> saved.y, width |-> w, height |-> h]
  BY <1>2, <1>7
<1>9. r \in Rectangles /\ r.x = saved.x /\ r.y = saved.y /\ r.width = w /\ r.height = h
  BY <1>1, <1>5, <1>6, <1>8 DEF Rectangles
<1>10. FitsMinimum(r) /\ r.width <= b.width /\ r.height <= b.height
  BY <1>3, <1>5, <1>6, <1>9, Minimum DEF FitsMinimum
<1>11. ASSUME FitsMinimum(saved), saved.width <= b.width, saved.height <= b.height PROVE r = saved
  <2>1. w = saved.width /\ h = saved.height
    BY <1>1, <1>5, <1>6, <1>11, Minimum DEF FitsMinimum
  <2> QED
    BY <1>2, <1>8, <2>1
<1> QED
  BY <1>9, <1>10, <1>11 DEF r

\* Half of what is left over is within it.
LEMMA HalfIs == ASSUME NEW n \in Nat PROVE Half(n) \in Int /\ 0 <= Half(n) /\ Half(n) <= n
<1>1. n \div 2 \in Int /\ 0 <= n \div 2 /\ n \div 2 <= n
  OBVIOUS
<1> QED
  BY <1>1 DEF Half

\* A window in the middle of a screen that it fits can be reached.
LEMMA CentredIs == ASSUME NEW r \in Rectangles, NEW b, Screen(b), FitsMinimum(r), r.width <= b.width, r.height <= b.height
  PROVE  LET c == Centred(r, b)
         IN c \in Rectangles /\ FitsMinimum(c) /\ c.width <= b.width /\ c.height <= b.height /\ isReachable(c, b)
<1> DEFINE c == Centred(r, b)
           x == b.x + Half(b.width - r.width)
           y == b.y + Half(b.height - r.height)
<1>1. r.x \in Int /\ r.y \in Int /\ r.width \in Int /\ r.height \in Int /\ r = [x |-> r.x, y |-> r.y, width |-> r.width, height |-> r.height]
  BY DEF Rectangles
<1>2. /\ b.x \in Int /\ b.y \in Int /\ b.width \in Nat /\ b.height \in Nat
      /\ -IntLimit <= b.x /\ -IntLimit <= b.y /\ b.x + b.width < IntLimit /\ b.y + b.height < IntLimit
  BY ScreenIs
<1>3. b.width - r.width \in Nat /\ b.height - r.height \in Nat
  BY <1>1, <1>2
<1>4. x \in Int /\ b.x <= x /\ x + r.width <= b.x + b.width
  BY <1>1, <1>2, <1>3, HalfIs
<1>5. y \in Int /\ b.y <= y /\ y + r.height <= b.y + b.height
  BY <1>1, <1>2, <1>3, HalfIs
<1>6. c = [r EXCEPT !.x = x, !.y = y]
  BY DEF Centred
<1> HIDE DEF x, y, c
<1>7. c = [x |-> x, y |-> y, width |-> r.width, height |-> r.height]
  BY <1>1, <1>6
<1>8. c \in Rectangles /\ c.x = x /\ c.y = y /\ c.width = r.width /\ c.height = r.height
  BY <1>1, <1>4, <1>5, <1>7 DEF Rectangles
<1>9. r.width > 0 /\ r.height > 0 /\ r.width >= kGrabbable.width /\ r.height >= kGrabbable.height
  BY <1>1, Minimum DEF FitsMinimum
<1>10. IntLimit \in Nat
  BY SettingsAssumption
<1>11. RightEnd(c) = x + r.width
  <2>1. x + r.width \in Int /\ -IntLimit <= x + r.width /\ x + r.width < IntLimit
    BY <1>1, <1>2, <1>4, <1>9, <1>10
  <2> QED
    BY <1>8, <2>1, WrappedIs DEF RightEnd
<1>12. BottomEnd(c) = y + r.height
  <2>1. y + r.height \in Int /\ -IntLimit <= y + r.height /\ y + r.height < IntLimit
    BY <1>1, <1>2, <1>5, <1>9, <1>10
  <2> QED
    BY <1>8, <2>1, WrappedIs DEF BottomEnd
<1>13. LeftEdge(c, b) = x /\ RightEdge(c, b) = x + r.width
  BY <1>2, <1>4, <1>8, <1>11 DEF LeftEdge, RightEdge
<1>14. TopEdge(c, b) = y /\ BottomEdge(c, b) = y + r.height
  BY <1>2, <1>5, <1>8, <1>12 DEF TopEdge, BottomEdge
<1>15. Shared(c, b)
  BY <1>1, <1>4, <1>5, <1>9, <1>13, <1>14 DEF Shared
<1>16. RightEdge(c, b) - LeftEdge(c, b) = r.width /\ BottomEdge(c, b) - TopEdge(c, b) = r.height
  BY <1>1, <1>4, <1>5, <1>13, <1>14
<1>17. intersection(c, b) = [x |-> LeftEdge(c, b), y |-> TopEdge(c, b), width |-> RightEdge(c, b) - LeftEdge(c, b), height |-> BottomEdge(c, b) - TopEdge(c, b)]
  BY <1>8, <1>15, IntersectionIs
<1>18. intersection(c, b).width = r.width /\ intersection(c, b).height = r.height
  <2>1. intersection(c, b).width = RightEdge(c, b) - LeftEdge(c, b) /\ intersection(c, b).height = BottomEdge(c, b) - TopEdge(c, b)
    BY <1>17
  <2> QED
    BY <1>16, <2>1
<1>19. isReachable(c, b)
  BY <1>5, <1>8, <1>9, <1>18 DEF isReachable
<1>20. FitsMinimum(c)
  BY <1>8 DEF FitsMinimum
<1> QED
  BY <1>8, <1>19, <1>20 DEF c

\* A window that is wholly on a screen is on the one that is taken.
LEMMA WhollyOn == ASSUME NEW a \in Rectangles, FitsMinimum(a), NEW b, Screen(b), NEW k, Screen(k), intersection(a, k) = a,
                         area(intersection(a, k)) <= area(intersection(a, b))
  PROVE  a.width <= b.width /\ a.height <= b.height /\ isReachable(a, b)
<1>1. a.x \in Int /\ a.y \in Int /\ a.width \in Nat \ {0} /\ a.height \in Nat \ {0}
  BY Minimum DEF Rectangles, FitsMinimum
<1>2. /\ LeftEdge(a, k) \in Int /\ RightEdge(a, k) \in Int /\ TopEdge(a, k) \in Int /\ BottomEdge(a, k) \in Int
      /\ intersection(a, k) = IF Shared(a, k) THEN [x |-> LeftEdge(a, k), y |-> TopEdge(a, k), width |-> RightEdge(a, k) - LeftEdge(a, k), height |-> BottomEdge(a, k) - TopEdge(a, k)]
                              ELSE [x |-> LeftEdge(a, k), y |-> TopEdge(a, k), width |-> 0, height |-> 0]
  BY IntersectionIs
<1>3. Shared(a, k)
  <2> SUFFICES ASSUME ~Shared(a, k) PROVE FALSE
    OBVIOUS
  <2>1. a.width = 0
    BY <1>2
  <2> QED
    BY <1>1, <2>1
<1>4. a = [x |-> LeftEdge(a, k), y |-> TopEdge(a, k), width |-> RightEdge(a, k) - LeftEdge(a, k), height |-> BottomEdge(a, k) - TopEdge(a, k)]
  BY <1>2, <1>3
<1>5. a.x = LeftEdge(a, k) /\ a.y = TopEdge(a, k) /\ a.width = RightEdge(a, k) - LeftEdge(a, k) /\ a.height = BottomEdge(a, k) - TopEdge(a, k)
  BY <1>4
<1>6. IntLimit \in Nat
  BY SettingsAssumption
<1>7. /\ k.x \in Int /\ k.y \in Int /\ k.width \in Nat /\ k.height \in Nat
      /\ -IntLimit <= k.x /\ -IntLimit <= k.y /\ k.x + k.width < IntLimit /\ k.y + k.height < IntLimit
  BY ScreenIs
<1>8. a.x + a.width = RightEdge(a, k) /\ a.y + a.height = BottomEdge(a, k)
  BY <1>1, <1>2, <1>5
<1>9. /\ RightEnd(a) \in Int /\ -IntLimit <= RightEnd(a) /\ RightEnd(a) < IntLimit
      /\ BottomEnd(a) \in Int /\ -IntLimit <= BottomEnd(a) /\ BottomEnd(a) < IntLimit
  BY <1>1, WrappedIs DEF RightEnd, BottomEnd
<1>10. -IntLimit <= RightEdge(a, k) /\ RightEdge(a, k) < IntLimit /\ -IntLimit <= BottomEdge(a, k) /\ BottomEdge(a, k) < IntLimit
  BY <1>6, <1>7, <1>9 DEF RightEdge, BottomEdge
<1>11. RightEnd(a) = a.x + a.width
  <2>1. a.x + a.width \in Int /\ -IntLimit <= a.x + a.width /\ a.x + a.width < IntLimit
    BY <1>1, <1>8, <1>10
  <2> QED
    BY <2>1, WrappedIs DEF RightEnd
<1>12. BottomEnd(a) = a.y + a.height
  <2>1. a.y + a.height \in Int /\ -IntLimit <= a.y + a.height /\ a.y + a.height < IntLimit
    BY <1>1, <1>8, <1>10
  <2> QED
    BY <2>1, WrappedIs DEF BottomEnd
<1>13. area(intersection(a, k)) = a.width * a.height
  BY DEF area
<1>14. /\ b.x \in Int /\ b.y \in Int /\ b.width \in Nat /\ b.height \in Nat
  BY ScreenIs
<1>15. LeftEdge(a, b) \in Int /\ RightEdge(a, b) \in Int /\ TopEdge(a, b) \in Int /\ BottomEdge(a, b) \in Int
  BY IntersectionIs
<1> DEFINE w == RightEdge(a, b) - LeftEdge(a, b)  h == BottomEdge(a, b) - TopEdge(a, b)
<1>16. area(intersection(a, b)) = IF Shared(a, b) THEN w * h ELSE 0
  BY AreaIs
<1>17. a.width * a.height > 0
  BY <1>1
<1>18. Shared(a, b)
  <2> DEFINE whole == a.width * a.height  shown == area(intersection(a, b))  all == area(intersection(a, k))
  <2>1. all = whole /\ whole > 0 /\ all <= shown
    BY <1>13, <1>17
  <2>2. ~Shared(a, b) => shown = 0
    BY <1>16
  <2> HIDE DEF whole, shown, all
  <2>3. whole \in Int => ~(shown = 0)
    BY <2>1
  <2>4. whole \in Int
    BY <1>1 DEF whole
  <2> QED
    BY <2>2, <2>3, <2>4
<1>19. w \in Nat \ {0} /\ h \in Nat \ {0}
  BY <1>15, <1>18 DEF Shared
<1>20. w <= a.width /\ h <= a.height
  BY <1>1, <1>11, <1>12, <1>14 DEF LeftEdge, RightEdge, TopEdge, BottomEdge
<1>21. a.width * a.height <= w * h
  BY <1>13, <1>16, <1>18
<1> HIDE DEF w, h
<1>22. w = a.width /\ h = a.height
  BY <1>1, <1>19, <1>20, <1>21, ProductIs
<1>23. LeftEdge(a, b) = a.x /\ b.x <= a.x /\ a.x + a.width <= b.x + b.width
  BY <1>1, <1>11, <1>14, <1>15, <1>22 DEF LeftEdge, RightEdge, w
<1>24. TopEdge(a, b) = a.y /\ b.y <= a.y /\ a.y + a.height <= b.y + b.height
  BY <1>1, <1>12, <1>14, <1>15, <1>22 DEF TopEdge, BottomEdge, h
<1>25. a.width <= b.width /\ a.height <= b.height
  BY <1>1, <1>14, <1>23, <1>24
<1>26. intersection(a, b).width = a.width /\ intersection(a, b).height = a.height
  BY <1>18, <1>22, IntersectionIs DEF w, h
<1>27. isReachable(a, b)
  <2>1. a.width >= kGrabbable.width /\ a.height >= kGrabbable.height
    BY <1>1, Minimum DEF FitsMinimum
  <2>2. a.y >= b.y
    BY <1>1, <1>14, <1>24
  <2> QED
    BY <1>26, <2>1, <2>2 DEF isReachable
<1> QED
  BY <1>25, <1>27

\* A window comes back where it can be reached.
LEMMA ConfinedIs == ASSUME NEW saved \in Rectangles, NEW attached \in Seq(ScreenSizes), attached # <<>>,
                           \A i \in DOMAIN attached : Screen(attached[i]) /\ FitsMinimum(attached[i])
  PROVE  LET placed == confineToScreens(saved, attached)
         IN /\ placed \in Rectangles
            /\ \E i \in DOMAIN attached : /\ isReachable(placed, attached[i])
                                          /\ placed.width <= attached[i].width /\ placed.height <= attached[i].height
            /\ FitsMinimum(placed)
            /\ FitsMinimum(saved) /\ (\E i \in DOMAIN attached : intersection(saved, attached[i]) = saved) => placed = saved
<1> DEFINE placed == confineToScreens(saved, attached)
<1>1. PICK i \in DOMAIN attached : /\ BestScreen(saved, attached) = attached[i]
                                   /\ \A j \in DOMAIN attached : area(intersection(saved, attached[j])) <= area(intersection(saved, attached[i]))
  BY BestIs
<1> DEFINE b == attached[i]  r == Resized(saved, b)
<1>2. Screen(b) /\ FitsMinimum(b)
  OBVIOUS
<1>3. placed = IF isReachable(r, b) THEN r ELSE Centred(r, b)
  BY <1>1 DEF confineToScreens, Placed
<1>4. /\ r \in Rectangles /\ FitsMinimum(r) /\ r.width <= b.width /\ r.height <= b.height
      /\ FitsMinimum(saved) /\ saved.width <= b.width /\ saved.height <= b.height => r = saved
  BY <1>2, ResizedIs
<1>5. ASSUME FitsMinimum(saved), NEW k \in DOMAIN attached, intersection(saved, attached[k]) = saved PROVE r = saved /\ isReachable(saved, b)
  <2>1. Screen(attached[k]) /\ area(intersection(saved, attached[k])) <= area(intersection(saved, b))
    BY <1>1
  <2>2. saved.width <= b.width /\ saved.height <= b.height /\ isReachable(saved, b)
    BY <1>2, <1>5, <2>1, WhollyOn
  <2> QED
    BY <1>4, <1>5, <2>2
<1> HIDE DEF r, b, placed
<1>6. CASE isReachable(r, b)
  BY <1>3, <1>4, <1>5, <1>6 DEF placed, b
<1>7. CASE ~isReachable(r, b)
  <2> DEFINE c == Centred(r, b)
  <2>1. placed = c
    BY <1>3, <1>7
  <2>2. c \in Rectangles /\ FitsMinimum(c) /\ c.width <= b.width /\ c.height <= b.height /\ isReachable(c, b)
    BY <1>2, <1>4, CentredIs
  <2> HIDE DEF c
  <2>3. ~(FitsMinimum(saved) /\ \E k \in DOMAIN attached : intersection(saved, attached[k]) = saved)
    BY <1>5, <1>7
  <2> QED
    BY <2>1, <2>2, <2>3 DEF placed, b
<1> QED
  BY <1>6, <1>7

-------------------------------------------------------------------------------
(* The runs of the window.                                                   *)

\* What a window holds.
Layouts == {<<>>} \cup {<<rect>> : rect \in Rectangles}
Windows == [running : {TRUE}, named : BOOLEAN, shown : BOOLEAN, preferences : Sane, target : 1..8, recent : RecentLists, mayWrite : BOOLEAN,
            restored : Layouts, loadedSplit : Seq(Int), split : Seq(Int), normal : Layouts, maximised : BOOLEAN]
Fine(w) == w \in Windows /\ w.target = w.preferences.target

\* What has been chosen, what the file has of it, and the window.
Chose(c) == c = [preferences |-> c.preferences, recent |-> c.recent] /\ c.preferences \in Sane /\ Recent(c.recent)
Agrees(w, c) == w.recent = c.recent /\ w.preferences = c.preferences
Knows(w, last) == w.named => w.mayWrite = readSettings(last.found).writeBack
FileAgrees(file, last) ==
  LET s == readSettings(file)
  IN /\ last = [preferences |-> last.preferences, recent |-> last.recent, found |-> last.found]
     /\ Numbered(file) /\ s.writeBack = readSettings(last.found).writeBack
     /\ IF s.writeBack THEN s.preferences = last.preferences /\ s.recent = last.recent ELSE file = last.found
SettingsInv == /\ screens \in Desktops /\ Chose(chosen) /\ FileAgrees(settingsFile, lastSaved)
               /\ window.running \in BOOLEAN
               /\ window.running => Fine(window) /\ Agrees(window, chosen) /\ Knows(window, lastSaved)

\* What is written of a window.
LEMMA SavedIs == ASSUME NEW w, Fine(w)
  PROVE  Writable(Saved(w)) /\ Saved(w).preferences = w.preferences /\ Saved(w).recent = w.recent
<1> DEFINE s == Saved(w)
           frame == IF w.shown /\ w.normal # <<>> THEN w.normal ELSE w.restored
           split == IF w.shown /\ splitterSizesUsable(w.split, 2) THEN w.split ELSE w.loadedSplit
<1>1. /\ w.preferences \in Sane /\ w.target = w.preferences.target /\ Recent(w.recent) /\ w.maximised \in BOOLEAN
      /\ w.normal \in Layouts /\ w.restored \in Layouts /\ w.split \in Seq(Int) /\ w.loadedSplit \in Seq(Int)
  BY DEF Fine, Windows, RecentLists
<1> DEFINE p == w.preferences
<1>2. [p EXCEPT !.target = w.target] = p
  <2>1. p \in [format : 1..3, target : 1..8, fft : Sizes, hop : Hops, floor : {-60, -80, -96, -120}, analysis : Int, key : Int] /\ w.target = p.target
    BY <1>1 DEF Sane
  <2> HIDE DEF p
  <2> QED
    BY <2>1
<1>3. s = [preferences |-> [p EXCEPT !.target = w.target], recent |-> w.recent, frame |-> frame, maximised |-> w.maximised, mainSplit |-> split]
  BY DEF Saved
<1>4. Laid(frame) /\ split \in Seq(Int)
  BY <1>1 DEF Laid, Layouts
<1> HIDE DEF s, frame, split
<1>5. s.preferences = w.preferences /\ s.recent = w.recent /\ s.frame = frame /\ s.maximised = w.maximised /\ s.mainSplit = split
  BY <1>2, <1>3
<1>6. Writable(s)
  BY <1>1, <1>4, <1>5 DEF Writable
<1> QED
  BY <1>5, <1>6 DEF s

\* What is written is what is read.
LEMMA WritesAll == ASSUME NEW w, Fine(w)
  PROVE  LET s == readSettings(writeSettings(Saved(w)))
         IN Numbered(writeSettings(Saved(w))) /\ s.writeBack = TRUE /\ s.preferences = w.preferences /\ s.recent = w.recent
<1> DEFINE s == Saved(w)
<1>1. Writable(s) /\ s.preferences = w.preferences /\ s.recent = w.recent
  BY SavedIs
<1> HIDE DEF s
<1>2. readSettings(writeSettings(s)) = [writeBack |-> TRUE, frame |-> s.frame, maximised |-> s.frame # <<>> /\ s.maximised, mainSplit |-> s.mainSplit,
                                       recent |-> s.recent, preferences |-> s.preferences]
  BY <1>1, ReadBackIs
<1>3. Numbered(writeSettings(s))
  BY <1>1, WrittenNumbers
<1> QED
  BY <1>1, <1>2, <1>3 DEF s

\* A window that is saved is in the file, if it may be and the file lets it.
LEMMA KeptIs == ASSUME NEW w, Fine(w), NEW choice, Agrees(w, choice), Knows(w, lastSaved), FileAgrees(settingsFile, lastSaved), saveSettings(w, choice)
  PROVE  FileAgrees(settingsFile', lastSaved') /\ Knows(w, lastSaved')
<1>1. CASE NoWrite
  BY <1>1 DEF NoWrite
<1>2. CASE w.mayWrite /\ w.named /\ Write(w, choice)
  <2> DEFINE file == writeSettings(Saved(w))
  <2>1. settingsFile' = file /\ lastSaved' = [lastSaved EXCEPT !.preferences = choice.preferences, !.recent = choice.recent]
    BY <1>2 DEF Write
  <2>2. /\ Numbered(file) /\ readSettings(file).writeBack = TRUE
        /\ readSettings(file).preferences = w.preferences /\ readSettings(file).recent = w.recent
    BY WritesAll
  <2>3. lastSaved = [preferences |-> lastSaved.preferences, recent |-> lastSaved.recent, found |-> lastSaved.found]
    BY DEF FileAgrees
  <2>4. lastSaved' = [preferences |-> choice.preferences, recent |-> choice.recent, found |-> lastSaved.found]
    BY <2>1, <2>3
  <2>5. lastSaved'.preferences = choice.preferences /\ lastSaved'.recent = choice.recent /\ lastSaved'.found = lastSaved.found
    BY <2>4
  <2>6. w.mayWrite = TRUE /\ w.mayWrite = readSettings(lastSaved.found).writeBack
    BY <1>2 DEF Knows, Fine, Windows
  <2>7. Knows(w, lastSaved')
    BY <2>5 DEF Knows
  <2> HIDE DEF file
  <2>8. FileAgrees(file, lastSaved')
    BY <2>2, <2>4, <2>5, <2>6, Zenon DEF FileAgrees, Agrees
  <2> QED
    BY <2>1, <2>7, <2>8
<1> QED
  BY <1>1, <1>2 DEF saveSettings

\* The screens of a desktop.
LEMMA DesktopIs == ASSUME NEW attached \in Desktops PROVE attached \in Seq(ScreenSizes) /\ \A i \in DOMAIN attached : Screen(attached[i])
<1>1. attached \in Seq(ScreenSizes) /\ \A i \in DOMAIN attached : EndsWithin(attached[i])
  BY SettingsAssumption DEF ScreenSizes
<1>2. \A i \in DOMAIN attached : attached[i] \in ScreenSizes
  BY <1>1
<1> QED
  BY <1>1, <1>2 DEF Screen

\* A window that is placed is a window, whatever the screens are.
LEMMA PlacedIs == ASSUME NEW saved \in Rectangles, NEW attached \in Desktops PROVE confineToScreens(saved, attached) \in Rectangles
<1>1. CASE attached = <<>>
  BY <1>1 DEF confineToScreens
<1>2. CASE attached # <<>>
  <2>1. attached \in Seq(ScreenSizes) /\ \A i \in DOMAIN attached : Screen(attached[i])
    BY DesktopIs
  <2>2. PICK i \in DOMAIN attached : BestScreen(saved, attached) = attached[i]
    BY <1>2, <2>1, BestIs
  <2> DEFINE b == attached[i]  r == Resized(saved, b)
  <2>3. Screen(b)
    BY <2>1
  <2>4. b.x \in Int /\ b.y \in Int /\ b.width \in Nat /\ b.height \in Nat
    BY <2>3, ScreenIs
  <2>5. confineToScreens(saved, attached) = IF isReachable(r, b) THEN r ELSE Centred(r, b)
    BY <1>2, <2>2 DEF confineToScreens, Placed
  <2> HIDE DEF b
  <2>6. r \in Rectangles
    <3> DEFINE w == Clamp(kMinimumWindow.width, saved.width, Max({b.width, kMinimumWindow.width}))
               h == Clamp(kMinimumWindow.height, saved.height, Max({b.height, kMinimumWindow.height}))
               mw == Max({b.width, kMinimumWindow.width})
               mh == Max({b.height, kMinimumWindow.height})
    <3>1. mw = (IF b.width >= kMinimumWindow.width THEN b.width ELSE kMinimumWindow.width) /\ mh = IF b.height >= kMinimumWindow.height THEN b.height ELSE kMinimumWindow.height
      BY <2>4, Minimum, MaxOfTwo
    <3>2. r = [saved EXCEPT !.width = w, !.height = h] /\ w = Clamp(kMinimumWindow.width, saved.width, mw) /\ h = Clamp(kMinimumWindow.height, saved.height, mh)
      BY DEF Resized
    <3> HIDE DEF w, h, mw, mh, r
    <3>3. mw \in Int /\ mh \in Int /\ kMinimumWindow.width <= mw /\ kMinimumWindow.height <= mh /\ kMinimumWindow.width \in Int /\ kMinimumWindow.height \in Int
      BY <2>4, <3>1, Minimum
    <3>4. saved.width \in Int /\ saved.height \in Int
      BY DEF Rectangles
    <3>5. w \in Int /\ h \in Int
      <4>1. Clamp(kMinimumWindow.width, saved.width, mw) \in Int
        BY <3>3, <3>4, ClampIs, Zenon
      <4>3. kMinimumWindow.height \in Int /\ saved.height \in Int /\ mh \in Int /\ kMinimumWindow.height <= mh
        BY <3>3, <3>4, Zenon
      <4>2. Clamp(kMinimumWindow.height, saved.height, mh) \in Int
        BY <4>3, ClampIs, Zenon
      <4> QED
        BY <3>2, <4>1, <4>2, Zenon
    <3> QED
      BY <3>2, <3>5 DEF Rectangles
  <2> HIDE DEF r
  <2>7. Centred(r, b) \in Rectangles
    <3> DEFINE x == b.x + Half(b.width - r.width)
               y == b.y + Half(b.height - r.height)
    <3>1. r.width \in Int /\ r.height \in Int
      BY <2>6 DEF Rectangles
    <3>2. \A n \in Int : Half(n) \in Int
      BY DEF Half
    <3>3. x \in Int /\ y \in Int
      BY <2>4, <3>1, <3>2
    <3>4. Centred(r, b) = [r EXCEPT !.x = x, !.y = y]
      BY DEF Centred
    <3> HIDE DEF x, y
    <3> QED
      BY <2>6, <3>3, <3>4 DEF Rectangles
  <2> QED
    BY <2>5, <2>6, <2>7
<1> QED
  BY <1>1, <1>2

\* A run that begins reads what is kept, or has nothing to read.
LEMMA LaunchKeeps == ASSUME SettingsInv, NEW named \in BOOLEAN, launch(named) PROVE SettingsInv'
<1> DEFINE source == IF named THEN settingsFile ELSE NoFile
           saved == readSettings(source)
           placed == [i \in DOMAIN saved.frame |-> confineToScreens(saved.frame[i], screens)]
           w == [running |-> TRUE, named |-> named, shown |-> FALSE, preferences |-> saved.preferences,
                 target |-> saved.preferences.target, recent |-> saved.recent, mayWrite |-> saved.writeBack,
                 restored |-> placed, loadedSplit |-> saved.mainSplit, split |-> <<1, 1>>,
                 normal |-> <<>>, maximised |-> saved.maximised]
           c == [preferences |-> saved.preferences, recent |-> saved.recent]
<1>1. window' = w /\ chosen' = c /\ settingsFile' = settingsFile /\ screens' = screens /\ lastSaved' = lastSaved
  BY DEF launch
<1>2. screens \in Desktops /\ FileAgrees(settingsFile, lastSaved) /\ Numbered(source)
  BY DEF SettingsInv, FileAgrees, NoFile, Numbered
<1>3. Writable(saved) /\ saved.writeBack \in BOOLEAN
  <2> HIDE DEF source
  <2> QED
    BY <1>2, ReadWritable
<1>9. named => saved.writeBack = readSettings(lastSaved.found).writeBack
  BY <1>2 DEF FileAgrees
<1>4. placed \in Layouts
  <2>1. CASE saved.frame = <<>>
    <3>1. DOMAIN saved.frame = {}
      BY <2>1
    <3>2. placed = <<>>
      BY <3>1
    <3> QED
      BY <3>2 DEF Layouts
  <2>2. CASE saved.frame # <<>>
    <3>1. PICK rect \in Rectangles : saved.frame = <<rect>>
      BY <1>3, <2>2 DEF Writable, Laid
    <3>2. DOMAIN saved.frame = 1..1 /\ saved.frame[1] = rect
      BY <3>1
    <3> DEFINE there == confineToScreens(rect, screens)
    <3>3. there \in Rectangles
      BY <1>2, PlacedIs
    <3>4. placed = [i \in 1..1 |-> confineToScreens(saved.frame[i], screens)]
      BY <3>2
    <3>5. \A i \in 1..1 : i = 1
      OBVIOUS
    <3>6. placed = [i \in 1..1 |-> there]
      BY <3>2, <3>4, <3>5
    <3> HIDE DEF there, placed
    <3>7. placed = <<there>>
      BY <3>6
    <3> QED
      BY <3>3, <3>7 DEF Layouts
  <2> QED
    BY <2>1, <2>2
<1>5. saved.preferences \in Sane /\ Recent(saved.recent) /\ saved.mainSplit \in Seq(Int) /\ saved.maximised \in BOOLEAN /\ saved.preferences.target \in 1..8
  BY <1>3, SaneIs DEF Writable
<1> HIDE DEF saved, placed, source
<1>6. Fine(w)
  <2>1. <<1, 1>> \in Seq(Int) /\ <<>> \in Layouts /\ saved.recent \in RecentLists
    BY <1>5 DEF Layouts, RecentLists, Recent
  <2> QED
    BY <1>3, <1>4, <1>5, <2>1 DEF Fine, Windows
<1>7. Agrees(w, c) /\ Knows(w, lastSaved)
  BY <1>9 DEF Agrees, Knows
<1>8. w.running = TRUE
  OBVIOUS
<1>10. Chose(c)
  BY <1>5 DEF Chose
<1> HIDE DEF w, c
<1> QED
  BY <1>1, <1>2, <1>6, <1>7, <1>8, <1>10 DEF SettingsInv

\* What is kept of a window that has been drawn or moved.
LEMMA SameKept == ASSUME NEW w, NEW v, w.recent = v.recent, w.mayWrite = v.mayWrite, w.named = v.named, w.preferences = v.preferences,
                         NEW c, Agrees(v, c), Knows(v, lastSaved)
  PROVE  Agrees(w, c) /\ Knows(w, lastSaved)
BY DEF Agrees, Knows

\* What may be chosen in the dialog is as it should be.
LEMMA ChosenIs == ASSUME NEW p \in Chosen PROVE p \in Sane
<1>1. p \in [DOMAIN Defaults -> Int] /\ validated(p) = p
  BY SettingsAssumption
<1>2. DOMAIN Defaults = PreferenceNames
  BY DEF Defaults, PreferenceNames
<1>3. \A name \in PreferenceNames : p[name] \in Int
  BY <1>1, <1>2
<1> QED
  BY <1>1, <1>3, ValidatedIs

\* Showing and arranging it keep everything.
LEMMA ShowKeeps == ASSUME SettingsInv, show PROVE SettingsInv'
<1>1. Fine(window) /\ Agrees(window, chosen) /\ Knows(window, lastSaved) /\ window.running
  BY DEF show, SettingsInv
<1>2. window \in Windows /\ window.target = window.preferences.target
  BY <1>1 DEF Fine
<1> DEFINE split == IF splitterSizesUsable(window.loadedSplit, 2) THEN window.loadedSplit ELSE <<3, 2>>
           normal == IF window.maximised THEN <<>> ELSE IF window.restored # <<>> THEN window.restored
                     ELSE <<[x |-> 0, y |-> 0, width |-> kDefaultWindow.width, height |-> kDefaultWindow.height]>>
           yes == TRUE
<1>3. window' = [window EXCEPT !.shown = yes, !.split = split, !.normal = normal]
  BY DEF show
<1>4. settingsFile' = settingsFile /\ screens' = screens /\ chosen' = chosen /\ lastSaved' = lastSaved
  BY DEF show
<1>5. split \in Seq(Int)
  <2>1. window.loadedSplit \in Seq(Int) /\ <<3, 2>> \in Seq(Int)
    BY <1>2 DEF Windows
  <2> QED
    BY <2>1
<1>6. normal \in Layouts
  <2> DEFINE rect == [x |-> 0, y |-> 0, width |-> kDefaultWindow.width, height |-> kDefaultWindow.height]
  <2>1. kDefaultWindow.width \in Int /\ kDefaultWindow.height \in Int
    BY SettingsAssumption
  <2>2. rect \in Rectangles
    BY <2>1 DEF Rectangles
  <2> HIDE DEF rect
  <2>3. <<rect>> \in Layouts /\ <<>> \in Layouts /\ window.restored \in Layouts
    BY <1>2, <2>2 DEF Layouts, Windows
  <2> QED
    BY <2>3 DEF rect
<1>7. yes \in BOOLEAN
  OBVIOUS
<1> HIDE DEF split, normal, yes
<1>8. /\ window' \in Windows /\ window'.target = window.target /\ window'.preferences = window.preferences
      /\ window'.recent = window.recent /\ window'.mayWrite = window.mayWrite /\ window'.named = window.named /\ window'.running = TRUE
  BY <1>2, <1>3, <1>5, <1>6, <1>7 DEF Windows
<1>9. Fine(window')
  BY <1>2, <1>8 DEF Fine
<1>10. Agrees(window', chosen) /\ Knows(window', lastSaved)
  BY <1>1, <1>8, SameKept
<1> QED
  BY <1>4, <1>8, <1>9, <1>10 DEF SettingsInv

\* Moved, maximised, its panes dragged.
LEMMA ArrangeKeeps == ASSUME SettingsInv, arrange PROVE SettingsInv'
<1>1. Fine(window) /\ Agrees(window, chosen) /\ Knows(window, lastSaved) /\ window.running
  BY DEF arrange, Change, SettingsInv
<1>2. window \in Windows /\ window.target = window.preferences.target
  BY <1>1 DEF Fine
<1>3. settingsFile' = settingsFile /\ screens' = screens /\ chosen' = chosen /\ lastSaved' = lastSaved
  BY DEF arrange, Change
<1> DEFINE Rest == /\ window' \in Windows /\ window'.target = window.target /\ window'.preferences = window.preferences
                   /\ window'.recent = window.recent /\ window'.mayWrite = window.mayWrite /\ window'.named = window.named /\ window'.running = TRUE
           yes == TRUE
           no == FALSE
<1>4. \/ \E frame \in Frames : window' = [window EXCEPT !.normal = <<frame>>, !.maximised = no]
      \/ window' = [window EXCEPT !.maximised = yes]
      \/ \E sizes \in {<<4, 1>>, <<0, 0>>} : window' = [window EXCEPT !.split = sizes]
  BY DEF arrange
<1>5. yes \in BOOLEAN /\ no \in BOOLEAN
  OBVIOUS
<1> HIDE DEF yes, no
<1>6. ASSUME NEW frame \in Frames, window' = [window EXCEPT !.normal = <<frame>>, !.maximised = no] PROVE Rest
  <2>1. frame \in Rectangles
    BY SettingsAssumption DEF Rectangles
  <2> DEFINE normal == <<frame>>
  <2>2. normal \in Layouts
    BY <2>1 DEF Layouts
  <2>3. window' = [window EXCEPT !.normal = normal, !.maximised = no]
    BY <1>6
  <2> HIDE DEF normal
  <2> QED
    BY <1>2, <1>5, <2>2, <2>3 DEF Windows
<1>7. ASSUME window' = [window EXCEPT !.maximised = yes] PROVE Rest
  BY <1>2, <1>5, <1>7 DEF Windows
<1>8. ASSUME NEW sizes \in {<<4, 1>>, <<0, 0>>}, window' = [window EXCEPT !.split = sizes] PROVE Rest
  <2>1. <<4, 1>> \in Seq(Int) /\ <<0, 0>> \in Seq(Int)
    OBVIOUS
  <2>2. sizes \in Seq(Int)
    BY <2>1
  <2> QED
    BY <1>2, <1>8, <2>2 DEF Windows
<1>9. Rest
  BY <1>4, <1>6, <1>7, <1>8
<1>10. Fine(window')
  BY <1>2, <1>9 DEF Fine
<1>11. Agrees(window', chosen) /\ Knows(window', lastSaved)
  BY <1>1, <1>9, SameKept
<1> QED
  BY <1>3, <1>9, <1>10, <1>11 DEF SettingsInv

\* A choice of the dialog, the panel or the menus.
LEMMA ChangeKept == ASSUME SettingsInv, NEW w, Fine(w), NEW choice, Chose(choice), Agrees(w, choice), Knows(w, lastSaved), Keep(w, choice), screens' = screens
  PROVE  SettingsInv'
<1>1. FileAgrees(settingsFile, lastSaved) /\ screens \in Desktops
  BY DEF SettingsInv
<1>2. chosen' = choice /\ FileAgrees(settingsFile', lastSaved') /\ window' = w /\ Knows(w, lastSaved')
  BY <1>1, KeptIs DEF Keep
<1>3. w.running = TRUE
  BY DEF Fine, Windows
<1> QED
  BY <1>1, <1>2, <1>3 DEF SettingsInv

\* The dialog.
LEMMA PreferencesKeep == ASSUME SettingsInv, choosePreferences PROVE SettingsInv'
<1>1. Fine(window) /\ Agrees(window, chosen) /\ Knows(window, lastSaved) /\ Chose(chosen) /\ screens' = screens
  BY DEF choosePreferences, Change, SettingsInv
<1>2. PICK p \in Chosen : Keep([window EXCEPT !.preferences = p, !.target = p.target], [chosen EXCEPT !.preferences = p])
  BY DEF choosePreferences
<1> DEFINE w == [window EXCEPT !.preferences = p, !.target = p.target]
           choice == [chosen EXCEPT !.preferences = p]
<1>3. p \in Sane /\ p.target \in 1..8
  BY ChosenIs, SaneIs
<1>4. w \in Windows /\ w.preferences = p /\ w.target = p.target /\ w.recent = window.recent /\ w.mayWrite = window.mayWrite /\ w.named = window.named
  BY <1>1, <1>3 DEF Fine, Windows
<1>5. choice = [preferences |-> p, recent |-> chosen.recent]
  BY <1>1 DEF Chose
<1> HIDE DEF w, choice
<1>6. choice.preferences = p /\ choice.recent = chosen.recent
  BY <1>5
<1>7. Fine(w)
  BY <1>4 DEF Fine
<1>8. Chose(choice)
  BY <1>1, <1>3, <1>5, <1>6 DEF Chose
<1>9. Agrees(w, choice) /\ Knows(w, lastSaved)
  BY <1>1, <1>4, <1>6 DEF Agrees, Knows
<1>10. Keep(w, choice)
  BY <1>2 DEF w, choice
<1> QED
  BY <1>1, <1>6, <1>7, <1>8, <1>9, <1>10, ChangeKept

\* The panel.
LEMMA TargetKeeps == ASSUME SettingsInv, targetChanged PROVE SettingsInv'
<1>1. Fine(window) /\ Agrees(window, chosen) /\ Knows(window, lastSaved) /\ Chose(chosen) /\ screens' = screens
  BY DEF targetChanged, Change, SettingsInv
<1>2. PICK t \in {1, 7} : Keep([window EXCEPT !.preferences.target = t, !.target = t], [chosen EXCEPT !.preferences.target = t])
  BY DEF targetChanged
<1> DEFINE w == [window EXCEPT !.preferences.target = t, !.target = t]
           choice == [chosen EXCEPT !.preferences.target = t]
           p == [window.preferences EXCEPT !.target = t]
           q == [chosen.preferences EXCEPT !.target = t]
<1>3. t \in 1..8
  OBVIOUS
<1>4. window \in Windows /\ window.preferences \in Sane /\ chosen.preferences \in Sane
  BY <1>1 DEF Fine, Windows, Chose
<1>5. p \in Sane /\ q \in Sane
  BY <1>3, <1>4, SaneIs
<1>6. w = [window EXCEPT !.preferences = p, !.target = t]
  BY <1>4 DEF Windows
<1>7. choice = [preferences |-> q, recent |-> chosen.recent]
  BY <1>1 DEF Chose
<1>8. p.target = t /\ p = q
  BY <1>1, <1>4 DEF Sane, Agrees
<1> HIDE DEF w, choice, p, q
<1>9. w \in Windows /\ w.preferences = p /\ w.target = t /\ w.recent = window.recent /\ w.mayWrite = window.mayWrite /\ w.named = window.named
  BY <1>3, <1>4, <1>5, <1>6 DEF Windows
<1>10. choice.preferences = q /\ choice.recent = chosen.recent
  BY <1>7
<1>11. Fine(w)
  BY <1>8, <1>9 DEF Fine
<1>12. Chose(choice)
  BY <1>1, <1>5, <1>7, <1>10 DEF Chose
<1>13. Agrees(w, choice) /\ Knows(w, lastSaved)
  BY <1>1, <1>8, <1>9, <1>10 DEF Agrees, Knows
<1>14. Keep(w, choice)
  BY <1>2 DEF w, choice
<1> QED
  BY <1>1, <1>10, <1>11, <1>12, <1>13, <1>14, ChangeKept

\* The recent list, of the window and of what was opened.
LEMMA RecentKept == ASSUME SettingsInv, Fine(window), Agrees(window, chosen), Knows(window, lastSaved), Chose(chosen), screens' = screens, NEW kept, Recent(kept),
                           Keep([window EXCEPT !.recent = kept], [chosen EXCEPT !.recent = kept])
  PROVE  SettingsInv'
<1> DEFINE w == [window EXCEPT !.recent = kept]
           choice == [chosen EXCEPT !.recent = kept]
<1>1. kept \in RecentLists
  BY DEF RecentLists, Recent
<1>2. w \in Windows /\ w.preferences = window.preferences /\ w.target = window.target /\ w.recent = kept /\ w.mayWrite = window.mayWrite /\ w.named = window.named
  BY <1>1 DEF Fine, Windows
<1>3. choice = [preferences |-> chosen.preferences, recent |-> kept]
  BY DEF Chose
<1>4. Keep(w, choice)
  OBVIOUS
<1> HIDE DEF w, choice
<1>5. choice.preferences = chosen.preferences /\ choice.recent = kept
  BY <1>3
<1>6. Fine(w)
  BY <1>2 DEF Fine
<1>7. Chose(choice)
  BY <1>3, <1>5 DEF Chose
<1>8. Agrees(w, choice) /\ Knows(w, lastSaved)
  BY <1>2, <1>5 DEF Agrees, Knows
<1> QED
  BY <1>4, <1>5, <1>6, <1>7, <1>8, ChangeKept

\* What is opened is remembered.
LEMMA RememberKeeps == ASSUME SettingsInv, rememberRecent PROVE SettingsInv'
<1>1. Fine(window) /\ Agrees(window, chosen) /\ Knows(window, lastSaved) /\ Chose(chosen) /\ screens' = screens
  BY DEF rememberRecent, Change, SettingsInv
<1>2. PICK path \in Recordings : Keep([window EXCEPT !.recent = remember(window.recent, path)], [chosen EXCEPT !.recent = remember(window.recent, path)])
  BY DEF rememberRecent
<1>3. Recent(window.recent) /\ path \in Int
  BY <1>1, SettingsAssumption DEF Fine, Windows, RecentLists
<1> DEFINE kept == remember(window.recent, path)
<1>4. Recent(kept)
  BY <1>3, RememberIs
<1>5. Keep([window EXCEPT !.recent = kept], [chosen EXCEPT !.recent = kept])
  BY <1>2
<1> HIDE DEF kept
<1> QED
  BY <1>1, <1>4, <1>5, RecentKept

\* What is not there any more is forgotten, or everything is.
LEMMA MenuKeeps == ASSUME SettingsInv, openFromMenu PROVE SettingsInv'
<1>1. Fine(window) /\ Agrees(window, chosen) /\ Knows(window, lastSaved) /\ Chose(chosen) /\ screens' = screens
  BY DEF openFromMenu, Change, SettingsInv
<1>2. Recent(window.recent)
  BY <1>1 DEF Fine, Windows, RecentLists
<1>3. ASSUME NEW i \in DOMAIN window.recent, NEW kept, kept = forgotten(window.recent, window.recent[i]),
             Keep([window EXCEPT !.recent = kept], [chosen EXCEPT !.recent = kept])
      PROVE  SettingsInv'
  <2> DEFINE l == window.recent
  <2>1. l \in Seq(Int) /\ Len(l) \in Nat /\ Len(l) <= kMost /\ OnceEach(l) /\ \A n \in 1..Len(l) : tidied(l[n]) = l[n]
    BY <1>2 DEF Recent
  <2>2. kMost \in Nat
    BY SettingsAssumption DEF kMost
  <2> HIDE DEF l
  <2>3. /\ kept \in Seq(Int) /\ Len(kept) <= Len(l) /\ OnceEach(kept)
        /\ \A n \in 1..Len(kept) : \E k \in 1..Len(l) : kept[n] = l[k]
    <3> DEFINE path == l[i]
    <3>1. kept = forgotten(l, path) /\ l \in Seq(Int) /\ OnceEach(l)
      BY <1>3, <2>1 DEF l
    <3> HIDE DEF path
    <3>2. forgotten(l, path) \in Seq(Int) /\ Len(forgotten(l, path)) <= Len(l) /\ OnceEach(forgotten(l, path))
      BY <3>1, ForgottenIs, Zenon
    <3>3. \A n \in 1..Len(forgotten(l, path)) : \E k \in 1..Len(l) : forgotten(l, path)[n] = l[k] /\ tidied(l[k]) # tidied(path)
      BY <3>1, ForgottenIs, Zenon
    <3>4. \A n \in 1..Len(kept) : \E k \in 1..Len(l) : kept[n] = l[k]
      BY <3>1, <3>3, Zenon
    <3> QED
      BY <3>1, <3>2, <3>4, Zenon
  <2>4. Recent(kept)
    BY <2>1, <2>2, <2>3 DEF Recent
  <2> QED
    BY <1>1, <1>3, <2>4, RecentKept
<1>4. ASSUME Keep([window EXCEPT !.recent = <<>>], [chosen EXCEPT !.recent = <<>>]) PROVE SettingsInv'
  <2> DEFINE none == <<>>
  <2>1. Recent(none)
    BY NothingRecent DEF RecentLists
  <2>2. Keep([window EXCEPT !.recent = none], [chosen EXCEPT !.recent = none])
    BY <1>4
  <2> HIDE DEF none
  <2> QED
    BY <1>1, <2>1, <2>2, RecentKept
<1> QED
  BY <1>3, <1>4 DEF openFromMenu

\* The floor of the picture is the window's until something is saved.
LEMMA FloorKeeps == ASSUME SettingsInv, chooseFloor PROVE SettingsInv'
<1>1. Fine(window) /\ Agrees(window, chosen) /\ Knows(window, lastSaved) /\ Chose(chosen) /\ window.running
  BY DEF chooseFloor, Change, SettingsInv
<1>2. window \in Windows /\ window.target = window.preferences.target /\ window.preferences \in Sane
  BY <1>1 DEF Fine, Windows
<1>3. settingsFile' = settingsFile /\ screens' = screens /\ lastSaved' = lastSaved
  BY DEF chooseFloor, Change
<1> DEFINE p == [window.preferences EXCEPT !.floor = -60]
<1>4. window' = [window EXCEPT !.preferences = p]
  BY <1>2 DEF chooseFloor, Windows
<1>5. p \in Sane
  BY <1>2, SaneIs
<1>6. p.target = window.preferences.target
  BY <1>2 DEF Sane
<1>7. chosen' = [preferences |-> p, recent |-> chosen.recent]
  BY <1>1 DEF chooseFloor, Chose, Agrees
<1> HIDE DEF p
<1>8. /\ window' \in Windows /\ window'.target = window.target /\ window'.preferences = p
      /\ window'.recent = window.recent /\ window'.mayWrite = window.mayWrite /\ window'.named = window.named /\ window'.running = TRUE
  BY <1>2, <1>4, <1>5 DEF Windows
<1>9. Fine(window')
  BY <1>2, <1>6, <1>8 DEF Fine
<1>10. Agrees(window', chosen') /\ Knows(window', lastSaved)
  BY <1>1, <1>7, <1>8 DEF Agrees, Knows
<1>11. Chose(chosen')
  BY <1>1, <1>5, <1>7 DEF Chose
<1> QED
  BY <1>3, <1>8, <1>9, <1>10, <1>11 DEF SettingsInv, FileAgrees

\* A run that ends writes what it holds, if it can.
LEMMA EndKeeps == ASSUME SettingsInv, finishRun PROVE SettingsInv'
<1>1. /\ Fine(window) /\ Agrees(window, chosen) /\ Knows(window, lastSaved) /\ Chose(chosen)
      /\ FileAgrees(settingsFile, lastSaved) /\ screens \in Desktops /\ screens' = screens
  BY DEF finishRun, SettingsInv
<1>2. window' = NoWindow /\ ~NoWindow.running /\ NoWindow.running \in BOOLEAN
  BY DEF finishRun, NoWindow
<1>3. saveSettings(window, chosen) /\ chosen' = chosen
  BY DEF finishRun
<1>4. FileAgrees(settingsFile', lastSaved')
  BY <1>1, <1>3, KeptIs
<1> QED
  BY <1>1, <1>2, <1>3, <1>4 DEF SettingsInv

\* Every step of every run.
LEMMA SettingsKeep == SettingsInv /\ SettingsNext => SettingsInv'
<1> SUFFICES ASSUME SettingsInv, SettingsNext PROVE SettingsInv'
  OBVIOUS
<1>1. ASSUME killed PROVE SettingsInv'
  <2>1. window' = NoWindow /\ ~NoWindow.running /\ NoWindow.running \in BOOLEAN /\ UNCHANGED <<settingsFile, screens, chosen, lastSaved>>
    BY <1>1 DEF killed, NoWindow
  <2> QED
    BY <2>1 DEF SettingsInv
<1>2. ASSUME attach PROVE SettingsInv'
  BY <1>2 DEF attach, SettingsInv
<1> QED
  BY <1>1, <1>2, LaunchKeeps, ShowKeeps, ArrangeKeeps, PreferencesKeep, TargetKeeps, RememberKeeps, MenuKeeps, FloorKeeps, EndKeeps, Zenon
     DEF SettingsNext

\* Nothing else changes them.
LEMMA SettingsStand == SettingsInv /\ UNCHANGED settingsVars => SettingsInv'
BY DEF settingsVars, SettingsInv

\* The first run finds what the file holds.
LEMMA InitSettings == SettingsInit => SettingsInv
<1> SUFFICES ASSUME SettingsInit PROVE SettingsInv
  OBVIOUS
<1> DEFINE s == readSettings(settingsFile)
<1>1. /\ settingsFile \in StoredFiles /\ screens \in Desktops /\ window = NoWindow
      /\ chosen = [preferences |-> s.preferences, recent |-> s.recent]
      /\ lastSaved = [preferences |-> s.preferences, recent |-> s.recent, found |-> settingsFile]
  BY DEF SettingsInit
<1>2. Numbered(settingsFile)
  BY <1>1, SettingsAssumption DEF Numbered
<1>3. s.preferences \in Sane /\ Recent(s.recent)
  BY <1>2, ReadWritable DEF Writable
<1> HIDE DEF s
<1>4. lastSaved.preferences = s.preferences /\ lastSaved.recent = s.recent /\ lastSaved.found = settingsFile
  BY <1>1
<1>5. Chose(chosen)
  BY <1>1, <1>3 DEF Chose
<1>6. FileAgrees(settingsFile, lastSaved)
  BY <1>1, <1>2, <1>4 DEF FileAgrees, s
<1>7. ~NoWindow.running /\ NoWindow.running \in BOOLEAN
  BY DEF NoWindow
<1> QED
  BY <1>1, <1>5, <1>6, <1>7 DEF SettingsInv

\* What follows of the window's place.
LEMMA Reachable == ASSUME SettingsInv PROVE RestoresWithinReach
<1> DEFINE s == readSettings(settingsFile)  saved == s.frame[1]  placed == confineToScreens(saved, screens)
<1>1. Numbered(settingsFile) /\ screens \in Desktops
  BY DEF SettingsInv, FileAgrees
<1>2. Laid(s.frame)
  BY <1>1, ReadWritable DEF Writable
<1>3. screens \in Seq(ScreenSizes) /\ \A i \in DOMAIN screens : Screen(screens[i])
  BY <1>1, DesktopIs
<1>4. ASSUME s.frame # <<>>, screens # <<>>, \A i \in DOMAIN screens : FitsMinimum(screens[i])
      PROVE  /\ \E i \in DOMAIN screens : /\ isReachable(placed, screens[i])
                                          /\ placed.width <= screens[i].width /\ placed.height <= screens[i].height
             /\ FitsMinimum(placed)
             /\ FitsMinimum(saved) /\ (\E i \in DOMAIN screens : intersection(saved, screens[i]) = saved) => placed = saved
  <2>1. PICK rect \in Rectangles : s.frame = <<rect>>
    BY <1>2, <1>4 DEF Laid
  <2>2. saved \in Rectangles
    BY <2>1
  <2> HIDE DEF saved
  <2> QED
    BY <1>3, <1>4, <2>2, ConfinedIs
<1> QED
  BY <1>4, Zenon DEF RestoresWithinReach, FitsMinimum

\* What follows of all that is kept.
LEMMA SettingsThen == SettingsInv => ReadsBackWhatItWrites /\ RestoresWithinReach /\ NothingKeptIsLost
<1> SUFFICES ASSUME SettingsInv PROVE ReadsBackWhatItWrites /\ RestoresWithinReach /\ NothingKeptIsLost
  OBVIOUS
<1>1. Numbered(settingsFile) /\ FileAgrees(settingsFile, lastSaved)
  BY DEF SettingsInv, FileAgrees
<1>2. ReadsBackWhatItWrites
  BY <1>1, ReadsBack, Zenon DEF ReadsBackWhatItWrites
<1>3. NothingKeptIsLost
  BY <1>1, Zenon DEF FileAgrees, NothingKeptIsLost
<1> QED
  BY <1>2, <1>3, Reachable
===============================================================================
