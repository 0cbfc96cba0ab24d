-------------------------- MODULE RecordingsProofs --------------------------
(* Proofs about the recordings. The directory of tiles that processes share    *)
(* (TileStore) and the detail in memory (Spectrogram) keep their accounts,     *)
(* within their budgets, and a read never gives out another picture. What a    *)
(* fold or a sum gives is proved by induction over its set. The readers give   *)
(* the frames they are asked for, and each file has the right one (AudioFiles). *)
EXTENDS MCRecordings, FiniteSetTheorems, SequenceTheorems, WellFoundedInduction, TLAPS
-----------------------------------------------------------------------------
(* Induction, over a set of naturals or of finite sets.                      *)

\* A set of naturals that holds 0 and every successor of its members is all of
\* them: induction, for a property stated as the set of what has it.
LEMMA InductionOnNat == ASSUME NEW S, S \subseteq Nat, 0 \in S, \A n \in S : n + 1 \in S
  PROVE  S = Nat
<1> SUFFICES ASSUME Nat \ S # {} PROVE FALSE
  OBVIOUS
<1>1. IsWellFoundedOn(OpToRel(<, Nat), Nat)
  BY NatLessThanWellFounded
<1>2. PICK x \in Nat \ S : \A y \in Nat \ S : ~(<<y, x>> \in OpToRel(<, Nat))
  BY <1>1, WFMin
<1>3. \A y \in Nat \ S : y < x => <<y, x>> \in OpToRel(<, Nat)
  BY DEF OpToRel
<1>4. x # 0 /\ x - 1 \in Nat
  OBVIOUS
<1>5. x - 1 \in Nat \ S
  BY <1>4
<1>6. x - 1 < x
  BY <1>4
<1> QED
  BY <1>2, <1>3, <1>5, <1>6
\* Induction over the subsets of a finite set, for a property stated as the set
\* of the subsets that have it.
LEMMA InductionOnSubsets ==
  ASSUME NEW S, IsFiniteSet(S), NEW Q,
         \A T \in SUBSET S : (\A x \in T : T \ {x} \in Q) => T \in Q
  PROVE  SUBSET S \subseteq Q
<1> DEFINE Has == {n \in Nat : \A T \in SUBSET S : Cardinality(T) = n => T \in Q}
<1>1. 0 \in Has
  <2>1. ASSUME NEW T \in SUBSET S, Cardinality(T) = 0 PROVE T \in Q
    <3>1. T = {}
      BY <2>1, FS_Subset, FS_EmptySet
    <3> QED
      BY <3>1
  <2> QED
    BY <2>1
<1>2. ASSUME NEW n \in Has PROVE n + 1 \in Has
  <2>1. ASSUME NEW T \in SUBSET S, Cardinality(T) = n + 1 PROVE T \in Q
    <3>1. IsFiniteSet(T)
      BY FS_Subset
    <3>2. ASSUME NEW x \in T PROVE T \ {x} \in SUBSET S /\ Cardinality(T \ {x}) = n
      <4>1. Cardinality(T \ {x}) = Cardinality(T) - 1
        BY <3>1, FS_RemoveElement
      <4>2. n \in Nat
        OBVIOUS
      <4> QED
        BY <2>1, <4>1, <4>2
    <3>3. \A x \in T : T \ {x} \in Q
      BY <1>2, <3>2
    <3> QED
      BY <3>3
  <2> QED
    BY <2>1
<1>3. Has = Nat
  <2> HIDE DEF Has
  <2>1. Has \subseteq Nat
    BY DEF Has
  <2> QED
    BY <1>1, <1>2, <2>1, InductionOnNat
<1>4. ASSUME NEW T \in SUBSET S PROVE T \in Q
  <2>1. Cardinality(T) \in Nat
    BY FS_Subset, FS_CardinalityType
  <2> QED
    BY <1>3, <2>1
<1> QED
  BY <1>4

-----------------------------------------------------------------------------
(* Folds. A fold over a set (MapThenFoldSet) is a recursive function chosen  *)
(* by its equation: one element, `pick` of it, is put onto the fold of the   *)
(* rest. That such a function exists is an induction over the set.           *)

Rest(pick, T) == T \ {pick[T]}
FoldsBy(pick, base, put, iter, D) ==
  iter = [T \in D |-> IF T = {} THEN base ELSE put[<<pick[T], iter[Rest(pick, T)]>>]]
OfAtMost(S, n) == {T \in SUBSET S : Cardinality(T) <= n}

\* What is left of a set without the one that was picked is smaller by one.
LEMMA RestIsSmaller ==
  ASSUME NEW S, IsFiniteSet(S), NEW pick, \A T \in SUBSET S : T # {} => pick[T] \in T, NEW T \in SUBSET S, T # {}
  PROVE  /\ pick[T] \in T /\ IsFiniteSet(T) /\ Cardinality(T) \in Nat \ {0}
         /\ Rest(pick, T) \in SUBSET S
         /\ Cardinality(Rest(pick, T)) = Cardinality(T) - 1
<1>1. pick[T] \in T
  OBVIOUS
<1>2. IsFiniteSet(T)
  BY FS_Subset
<1>3. Cardinality(T) \in Nat /\ Cardinality(T) # 0
  BY <1>2, FS_CardinalityType, FS_EmptySet
<1>4. Cardinality(T \ {pick[T]}) = Cardinality(T) - 1
  BY <1>1, <1>2, FS_RemoveElement
<1> QED
  BY <1>1, <1>2, <1>3, <1>4 DEF Rest

\* The fold of every subset of up to n elements.
LEMMA FoldUpTo ==
  ASSUME NEW S, IsFiniteSet(S), NEW pick, \A T \in SUBSET S : T # {} => pick[T] \in T,
         NEW V, NEW base \in V, NEW put \in [S \X V -> V]
  PROVE  \A n \in Nat : \E g \in [OfAtMost(S, n) -> V] : FoldsBy(pick, base, put, g, OfAtMost(S, n))
<1> DEFINE Has == {n \in Nat : \E g \in [OfAtMost(S, n) -> V] : FoldsBy(pick, base, put, g, OfAtMost(S, n))}
<1>1. 0 \in Has
  <2> DEFINE g == [T \in OfAtMost(S, 0) |-> base]
  <2>1. ASSUME NEW T \in OfAtMost(S, 0) PROVE T = {}
    <3>1. T \in SUBSET S /\ Cardinality(T) <= 0
      BY <2>1 DEF OfAtMost
    <3>2. T # {} => Cardinality(T) \in Nat \ {0}
      BY <3>1, RestIsSmaller
    <3> QED
      BY <3>1, <3>2
  <2>2. FoldsBy(pick, base, put, g, OfAtMost(S, 0)) /\ g \in [OfAtMost(S, 0) -> V]
    BY <2>1 DEF FoldsBy
  <2> HIDE DEF g
  <2> QED
    BY <2>2
<1>2. ASSUME NEW n \in Has PROVE n + 1 \in Has
  <2>0. n \in Nat
    OBVIOUS
  <2>1. PICK g \in [OfAtMost(S, n) -> V] : FoldsBy(pick, base, put, g, OfAtMost(S, n))
    BY <1>2
  <2> DEFINE Step(iter, T) == IF T = {} THEN base ELSE put[<<pick[T], iter[Rest(pick, T)]>>]
             h == [T \in OfAtMost(S, n + 1) |-> Step(g, T)]
  <2>2. ASSUME NEW T \in OfAtMost(S, n + 1), T # {}
        PROVE  /\ Rest(pick, T) \in OfAtMost(S, n) /\ Rest(pick, T) \in OfAtMost(S, n + 1)
               /\ pick[T] \in S
    <3>1. T \in SUBSET S /\ Cardinality(T) <= n + 1
      BY <2>2 DEF OfAtMost
    <3>2. /\ pick[T] \in T /\ IsFiniteSet(T) /\ Cardinality(T) \in Nat \ {0}
          /\ Rest(pick, T) \in SUBSET S
          /\ Cardinality(Rest(pick, T)) = Cardinality(T) - 1
      <4>1. IsFiniteSet(S) /\ (\A U \in SUBSET S : U # {} => pick[U] \in U) /\ T \in SUBSET S /\ T # {}
        BY <2>2, <3>1
      <4> QED
        BY ONLY <4>1, RestIsSmaller
    <3> QED
      BY <2>0, <3>1, <3>2 DEF OfAtMost
  <2>3. ASSUME NEW T \in OfAtMost(S, n + 1) PROVE Step(h, T) = Step(g, T)
    <3>1. CASE T # {}
      <4>1. g[Rest(pick, T)] = Step(g, Rest(pick, T))
        BY <2>1, <2>2, <3>1 DEF FoldsBy
      <4>2. h[Rest(pick, T)] = g[Rest(pick, T)]
        BY <2>2, <3>1, <4>1
      <4> QED
        BY <4>2
    <3> QED
      BY <3>1
  <2>4. ASSUME NEW T \in OfAtMost(S, n + 1) PROVE Step(g, T) \in V
    <3>1. CASE T # {}
      <4>1. g[Rest(pick, T)] \in V
        BY <2>1, <2>2, <3>1
      <4> QED
        BY <2>2, <3>1, <4>1
    <3> QED
      BY <3>1
  <2>5. h \in [OfAtMost(S, n + 1) -> V]
    <3> HIDE DEF Step
    <3> QED
      BY <2>4
  <2>6. h = [T \in OfAtMost(S, n + 1) |-> Step(h, T)]
    <3> HIDE DEF Step
    <3> QED
      BY <2>3
  <2>7. FoldsBy(pick, base, put, h, OfAtMost(S, n + 1))
    BY <2>6 DEF FoldsBy
  <2> HIDE DEF h
  <2> QED
    BY <2>0, <2>5, <2>7
<1>3. Has = Nat
  <2> HIDE DEF Has
  <2>1. Has \subseteq Nat
    BY DEF Has
  <2> QED
    BY <1>1, <1>2, <2>1, InductionOnNat
<1> QED
  BY <1>3

\* The fold of every subset.
LEMMA FoldExists ==
  ASSUME NEW S, IsFiniteSet(S), NEW pick, \A T \in SUBSET S : T # {} => pick[T] \in T,
         NEW V, NEW base \in V, NEW put \in [S \X V -> V]
  PROVE  \E g \in [SUBSET S -> V] : FoldsBy(pick, base, put, g, SUBSET S)
<1>1. Cardinality(S) \in Nat
  BY FS_CardinalityType
<1>2. OfAtMost(S, Cardinality(S)) = SUBSET S
  BY FS_Subset DEF OfAtMost
<1>3. \A n \in Nat : \E g \in [OfAtMost(S, n) -> V] : FoldsBy(pick, base, put, g, OfAtMost(S, n))
  BY FoldUpTo
<1>4. PICK g \in [OfAtMost(S, Cardinality(S)) -> V] : FoldsBy(pick, base, put, g, OfAtMost(S, Cardinality(S)))
  BY <1>1, <1>3
<1>5. g \in [SUBSET S -> V] /\ FoldsBy(pick, base, put, g, SUBSET S)
  BY <1>2, <1>4
<1> QED
  BY <1>5

-----------------------------------------------------------------------------
(* Sums of integers (SumFunctionOnSet).                                      *)

Pick(T) == CHOOSE x \in T : TRUE
Sums(w, S, iter) == iter = [T \in SUBSET S |-> IF T = {} THEN 0 ELSE w[Pick(T)] + iter[T \ {Pick(T)}]]

\* What the definition of the sum unfolds to.
LEMMA SumIsChosen == ASSUME NEW w, NEW S
  PROVE  SumFunctionOnSet(w, S) = (CHOOSE iter : Sums(w, S, iter))[S]
BY Zenon DEF SumFunctionOnSet, FoldFunctionOnSet, MapThenFoldSet, Sums, Pick

\* The sum's own equation holds.
LEMMA SumsChosen == ASSUME NEW w, NEW S, IsFiniteSet(S), \A x \in S : w[x] \in Int
  PROVE  Sums(w, S, CHOOSE iter : Sums(w, S, iter))
<1> DEFINE pick == [T \in SUBSET S |-> Pick(T)]
           put == [p \in S \X Int |-> w[p[1]] + p[2]]
<1>1. \A T \in SUBSET S : T # {} => pick[T] \in T
  BY DEF Pick
<1>2. put \in [S \X Int -> Int]
  OBVIOUS
<1>3. PICK g \in [SUBSET S -> Int] : FoldsBy(pick, 0, put, g, SUBSET S)
  <2> HIDE DEF pick, put
  <2>1. 0 \in Int
    OBVIOUS
  <2> QED
    BY <1>1, <1>2, <2>1, FoldExists
<1>4. ASSUME NEW T \in SUBSET S, T # {} PROVE put[<<pick[T], g[Rest(pick, T)]>>] = w[Pick(T)] + g[T \ {Pick(T)}]
  <2>1. pick[T] \in S /\ Rest(pick, T) \in SUBSET S /\ pick[T] = Pick(T)
    BY <1>1, <1>4 DEF Rest
  <2>2. g[Rest(pick, T)] \in Int
    BY <2>1
  <2> HIDE DEF pick
  <2>3. put[<<pick[T], g[Rest(pick, T)]>>] = w[pick[T]] + g[Rest(pick, T)]
    BY <2>1, <2>2
  <2> QED
    BY <2>1, <2>3 DEF Rest
<1>5. Sums(w, S, g)
  <2> HIDE DEF pick, put
  <2> QED
    BY <1>3, <1>4 DEF Sums, FoldsBy
<1> QED
  BY <1>5, Zenon

\* Two functions that satisfy it, over different sets, agree where both are.
LEMMA SumsAgree ==
  ASSUME NEW w, NEW S, IsFiniteSet(S), NEW R \in SUBSET S, NEW g, NEW h, Sums(w, S, g), Sums(w, R, h)
  PROVE  \A T \in SUBSET R : g[T] = h[T]
<1> DEFINE Q == {T \in SUBSET R : g[T] = h[T]}
<1>1. IsFiniteSet(R)
  BY FS_Subset
<1>2. ASSUME NEW T \in SUBSET R, \A x \in T : T \ {x} \in Q PROVE T \in Q
  <2>1. CASE T = {}
    BY <2>1 DEF Sums
  <2>2. CASE T # {}
    <3>1. Pick(T) \in T
      BY <2>2 DEF Pick
    <3>2. g[T \ {Pick(T)}] = h[T \ {Pick(T)}]
      BY <1>2, <3>1
    <3>3. g[T] = w[Pick(T)] + g[T \ {Pick(T)}]
      BY <2>2 DEF Sums
    <3>4. h[T] = w[Pick(T)] + h[T \ {Pick(T)}]
      BY <2>2 DEF Sums
    <3> QED
      BY <3>2, <3>3, <3>4
  <2> QED
    BY <2>1, <2>2
<1>3. SUBSET R \subseteq Q
  <2> HIDE DEF Q
  <2> QED
    BY <1>1, <1>2, InductionOnSubsets
<1> QED
  BY <1>3

\* Whatever satisfies the equation over a set gives its totals.
LEMMA SumIs ==
  ASSUME NEW w, NEW S, IsFiniteSet(S), \A x \in S : w[x] \in Int, NEW g, Sums(w, S, g), NEW R \in SUBSET S
  PROVE  SumFunctionOnSet(w, R) = g[R]
<1>1. IsFiniteSet(R)
  BY FS_Subset
<1> DEFINE h == CHOOSE iter : Sums(w, R, iter)
<1>2. Sums(w, R, h)
  BY <1>1, SumsChosen
<1>3. SumFunctionOnSet(w, R) = h[R]
  BY SumIsChosen
<1> HIDE DEF h
<1>4. \A T \in SUBSET R : g[T] = h[T]
  <2>1. IsFiniteSet(S) /\ R \in SUBSET S /\ Sums(w, S, g) /\ Sums(w, R, h)
    BY <1>2
  <2> QED
    BY ONLY <2>1, SumsAgree
<1> QED
  BY <1>3, <1>4

\* The first term and the rest.
LEMMA SumStep == ASSUME NEW w, NEW S, IsFiniteSet(S), \A x \in S : w[x] \in Int
  PROVE  SumFunctionOnSet(w, S) = IF S = {} THEN 0 ELSE w[Pick(S)] + SumFunctionOnSet(w, S \ {Pick(S)})
<1> DEFINE g == CHOOSE iter : Sums(w, S, iter)
<1>1. Sums(w, S, g)
  BY SumsChosen
<1> HIDE DEF g
<1>2. SumFunctionOnSet(w, S) = g[S] /\ SumFunctionOnSet(w, S \ {Pick(S)}) = g[S \ {Pick(S)}]
  BY <1>1, SumIs
<1>3. g[S] = IF S = {} THEN 0 ELSE w[Pick(S)] + g[S \ {Pick(S)}]
  BY <1>1 DEF Sums
<1> QED
  BY <1>2, <1>3

\* Nothing adds up to nothing.
LEMMA SumOfNone == ASSUME NEW w PROVE SumFunctionOnSet(w, {}) = 0
BY SumStep, FS_EmptySet

\* A total of integers, or of naturals, is one.
LEMMA SumType == ASSUME NEW w, NEW S, IsFiniteSet(S), NEW Numbers \in {Int, Nat}, \A x \in S : w[x] \in Numbers
  PROVE  SumFunctionOnSet(w, S) \in Numbers
<1> DEFINE Q == {T \in SUBSET S : SumFunctionOnSet(w, T) \in Numbers}
<1>1. ASSUME NEW T \in SUBSET S, \A x \in T : T \ {x} \in Q PROVE T \in Q
  <2>1. CASE T = {}
    BY <2>1, SumOfNone
  <2>2. CASE T # {}
    <3>1. Pick(T) \in T /\ IsFiniteSet(T)
      BY <2>2, FS_Subset DEF Pick
    <3>2. SumFunctionOnSet(w, T \ {Pick(T)}) \in Numbers
      BY <1>1, <3>1
    <3>3. SumFunctionOnSet(w, T) = w[Pick(T)] + SumFunctionOnSet(w, T \ {Pick(T)})
      BY <2>2, <3>1, SumStep
    <3>4. w[Pick(T)] \in Numbers
      BY <3>1
    <3>5. \A a, b \in Numbers : a + b \in Numbers
      OBVIOUS
    <3> QED
      BY <3>2, <3>3, <3>4, <3>5
  <2> QED
    BY <2>1, <2>2
<1>2. SUBSET S \subseteq Q
  <2> HIDE DEF Q
  <2> QED
    BY <1>1, InductionOnSubsets
<1> QED
  BY <1>2

\* Any term and the rest.
LEMMA SumWithout ==
  ASSUME NEW w, NEW S, IsFiniteSet(S), \A x \in S : w[x] \in Int, NEW y \in S
  PROVE  SumFunctionOnSet(w, S) = w[y] + SumFunctionOnSet(w, S \ {y})
<1> DEFINE Q == {T \in SUBSET S : \A x \in T : SumFunctionOnSet(w, T) = w[x] + SumFunctionOnSet(w, T \ {x})}
<1>1. ASSUME NEW T \in SUBSET S, \A x \in T : T \ {x} \in Q PROVE T \in Q
  <2> SUFFICES ASSUME NEW x \in T PROVE SumFunctionOnSet(w, T) = w[x] + SumFunctionOnSet(w, T \ {x})
    OBVIOUS
  <2> DEFINE p == Pick(T)
  <2>1. p \in T /\ IsFiniteSet(T)
    BY FS_Subset DEF Pick
  <2>2. SumFunctionOnSet(w, T) = w[p] + SumFunctionOnSet(w, T \ {p})
    BY <2>1, SumStep
  <2> HIDE DEF p
  <2>3. CASE x = p
    BY <2>2, <2>3
  <2>4. CASE x # p
    <3>1. x \in T \ {p} /\ p \in T \ {x} /\ (T \ {p}) \ {x} = (T \ {x}) \ {p}
      BY <2>1, <2>4
    <3>2. SumFunctionOnSet(w, T \ {p}) = w[x] + SumFunctionOnSet(w, (T \ {p}) \ {x})
      BY <1>1, <2>1, <3>1
    <3>3. SumFunctionOnSet(w, T \ {x}) = w[p] + SumFunctionOnSet(w, (T \ {x}) \ {p})
      BY <1>1, <3>1
    <3>4. w[x] \in Int /\ w[p] \in Int /\ SumFunctionOnSet(w, (T \ {p}) \ {x}) \in Int
      <4>1. IsFiniteSet((T \ {p}) \ {x}) /\ \A z \in (T \ {p}) \ {x} : w[z] \in Int
        BY <2>1, FS_RemoveElement
      <4> QED
        BY <2>1, <4>1, SumType
    <3>5. SumFunctionOnSet(w, (T \ {p}) \ {x}) = SumFunctionOnSet(w, (T \ {x}) \ {p})
      BY <3>1
    <3> QED
      BY <2>2, <3>2, <3>3, <3>4, <3>5
  <2> QED
    BY <2>3, <2>4
<1>2. SUBSET S \subseteq Q
  <2> HIDE DEF Q
  <2> QED
    BY <1>1, InductionOnSubsets
<1> QED
  BY <1>2

\* A term more.
LEMMA SumWith ==
  ASSUME NEW w, NEW S, IsFiniteSet(S), NEW y, y \notin S, \A x \in S \cup {y} : w[x] \in Int
  PROVE  SumFunctionOnSet(w, S \cup {y}) = SumFunctionOnSet(w, S) + w[y]
<1>1. IsFiniteSet(S \cup {y}) /\ (S \cup {y}) \ {y} = S
  BY FS_AddElement
<1>2. SumFunctionOnSet(w, S \cup {y}) = w[y] + SumFunctionOnSet(w, (S \cup {y}) \ {y})
  BY <1>1, SumWithout
<1>3. SumFunctionOnSet(w, S) \in Int
  BY SumType
<1>4. w[y] \in Int
  OBVIOUS
<1>5. SumFunctionOnSet(w, (S \cup {y}) \ {y}) = SumFunctionOnSet(w, S)
  BY <1>1
<1> QED
  BY ONLY <1>2, <1>3, <1>4, <1>5

\* The total of what two functions agree on.
LEMMA SumOfEqual ==
  ASSUME NEW v, NEW w, NEW S, IsFiniteSet(S), \A x \in S : v[x] = w[x] /\ w[x] \in Int
  PROVE  SumFunctionOnSet(v, S) = SumFunctionOnSet(w, S)
<1> DEFINE g == CHOOSE iter : Sums(v, S, iter)
<1>1. Sums(v, S, g)
  BY SumsChosen
<1> HIDE DEF g
<1>2. \A T \in SUBSET S : T # {} => v[Pick(T)] = w[Pick(T)]
  BY DEF Pick
<1>3. Sums(w, S, g)
  BY <1>1, <1>2 DEF Sums
<1> QED
  BY <1>1, <1>3, SumIs

\* A part and the rest.
LEMMA SumOfParts ==
  ASSUME NEW w, NEW S, IsFiniteSet(S), \A x \in S : w[x] \in Int, NEW R \in SUBSET S
  PROVE  SumFunctionOnSet(w, S) = SumFunctionOnSet(w, R) + SumFunctionOnSet(w, S \ R)
<1> DEFINE Q == {T \in SUBSET S : SumFunctionOnSet(w, S) = SumFunctionOnSet(w, T) + SumFunctionOnSet(w, S \ T)}
<1>1. ASSUME NEW T \in SUBSET S, \A x \in T : T \ {x} \in Q PROVE T \in Q
  <2>1. CASE T = {}
    <3>1. SumFunctionOnSet(w, S) \in Int /\ S \ T = S
      BY <2>1, SumType
    <3> QED
      BY <2>1, <3>1, SumOfNone
  <2>2. CASE T # {}
    <3>1. PICK x \in T : TRUE
      BY <2>2
    <3>2. IsFiniteSet(T) /\ IsFiniteSet(T \ {x}) /\ IsFiniteSet(S \ T) /\ IsFiniteSet(S \ (T \ {x}))
      BY FS_Subset
    <3>3. SumFunctionOnSet(w, T) = w[x] + SumFunctionOnSet(w, T \ {x})
      BY <3>2, SumWithout
    <3>4. x \in S \ (T \ {x}) /\ (S \ (T \ {x})) \ {x} = S \ T
      BY <3>1
    <3>5. SumFunctionOnSet(w, S \ (T \ {x})) = w[x] + SumFunctionOnSet(w, S \ T)
      <4>1. \A z \in S \ (T \ {x}) : w[z] \in Int
        OBVIOUS
      <4>2. SumFunctionOnSet(w, S \ (T \ {x})) = w[x] + SumFunctionOnSet(w, (S \ (T \ {x})) \ {x})
        BY <3>2, <3>4, <4>1, SumWithout
      <4> QED
        BY <3>4, <4>2
    <3>6. SumFunctionOnSet(w, S) = SumFunctionOnSet(w, T \ {x}) + SumFunctionOnSet(w, S \ (T \ {x}))
      BY <1>1
    <3>7. w[x] \in Int /\ SumFunctionOnSet(w, T \ {x}) \in Int /\ SumFunctionOnSet(w, S \ T) \in Int
      <4>1. (\A z \in T \ {x} : w[z] \in Int) /\ \A z \in S \ T : w[z] \in Int
        OBVIOUS
      <4> QED
        BY <3>2, <4>1, SumType
    <3> QED
      BY <3>3, <3>5, <3>6, <3>7
  <2> QED
    BY <2>1, <2>2
<1>2. SUBSET S \subseteq Q
  <2> HIDE DEF Q
  <2> QED
    BY <1>1, InductionOnSubsets
<1> QED
  BY <1>2
-----------------------------------------------------------------------------
(* Sequences without repetition, and what is left of one.                    *)

Distinct(seq) == \A i, j \in 1..Len(seq) : seq[i] = seq[j] => i = j
Elements(seq) == {seq[i] : i \in 1..Len(seq)}

\* A list without repetitions is as long as the set of its elements.
LEMMA DistinctCount == ASSUME NEW X, NEW seq \in Seq(X), Distinct(seq)
  PROVE  IsFiniteSet(Elements(seq)) /\ Cardinality(Elements(seq)) = Len(seq)
<1>1. Len(seq) \in Nat /\ seq \in [1..Len(seq) -> Elements(seq)]
  BY DEF Elements
<1>2. seq \in Bijection(1..Len(seq), Elements(seq))
  BY <1>1 DEF Distinct, Elements, Bijection, Injection, IsInjective, Surjection
<1>3. ExistsBijection(1..Len(seq), Elements(seq))
  BY <1>2 DEF ExistsBijection
<1>4. IsFiniteSet(1..Len(seq))
  BY <1>1, FS_Interval
<1> QED
  BY <1>1, <1>3, <1>4, FS_CountingElements, FS_Bijection

\* An element more.
LEMMA DistinctAppend == ASSUME NEW X, NEW seq \in Seq(X), Distinct(seq), NEW x \in X, x \notin Elements(seq)
  PROVE  /\ Append(seq, x) \in Seq(X) /\ Distinct(Append(seq, x))
         /\ Elements(Append(seq, x)) = Elements(seq) \cup {x}
<1>1. /\ Append(seq, x) \in Seq(X) /\ Len(Append(seq, x)) = Len(seq) + 1 /\ Len(seq) \in Nat
      /\ \A i \in 1..Len(seq) : Append(seq, x)[i] = seq[i]
      /\ Append(seq, x)[Len(seq) + 1] = x
  OBVIOUS
<1> DEFINE more == Append(seq, x)
<1> HIDE DEF more
<1>2. \A i \in 1..(Len(seq) + 1) : i \in 1..Len(seq) \/ i = Len(seq) + 1
  BY <1>1
<1>3. \A i \in 1..Len(seq) : seq[i] # x
  BY DEF Elements
<1>4. Distinct(more)
  BY <1>1, <1>2, <1>3 DEF Distinct, more
<1>5. Elements(more) = Elements(seq) \cup {x}
  <2>1. \A i \in 1..Len(seq) : i \in 1..(Len(seq) + 1)
    BY <1>1
  <2>2. Len(seq) + 1 \in 1..(Len(seq) + 1)
    BY <1>1
  <2> QED
    BY <1>1, <1>2, <2>1, <2>2 DEF Elements, more
<1> QED
  BY <1>1, <1>4, <1>5 DEF more

\* The least of a set of naturals.
LEMMA LeastOf == ASSUME NEW S, S \subseteq Nat, S # {}
  PROVE  Min(S) \in S /\ \A y \in S : Min(S) <= y
<1>1. IsWellFoundedOn(OpToRel(<, Nat), Nat)
  BY NatLessThanWellFounded
<1>2. PICK x \in S : \A y \in S : ~(<<y, x>> \in OpToRel(<, Nat))
  BY <1>1, WFMin
<1>3. \A y \in S : y < x => <<y, x>> \in OpToRel(<, Nat)
  BY DEF OpToRel
<1>4. \A y \in S : ~(y < x)
  BY <1>2, <1>3, Zenon
<1>5. \A y \in S : x <= y
  BY <1>4
<1> QED
  BY <1>5 DEF Min

\* The greatest of a set of naturals with a bound.
LEMMA GreatestOf == ASSUME NEW S, S \subseteq Nat, S # {}, NEW n \in Nat, \A y \in S : y <= n
  PROVE  Max(S) \in S /\ \A y \in S : y <= Max(S)
<1> DEFINE Bounds == {k \in Nat : \A y \in S : y <= k}
           m == Min(Bounds)
<1>1. m \in Bounds /\ \A k \in Bounds : m <= k
  <2>1. n \in Bounds /\ Bounds \subseteq Nat
    OBVIOUS
  <2> HIDE DEF Bounds
  <2> QED
    BY <2>1, LeastOf
<1> HIDE DEF m
<1>2. m \in S
  <2> SUFFICES ASSUME m \notin S PROVE FALSE
    OBVIOUS
  <2>1. m \in Nat
    BY <1>1
  <2>2. \A y \in S : y < m
    BY <1>1, <2>1
  <2>3. m # 0
    <3>1. PICK y \in S : TRUE
      OBVIOUS
    <3>2. y \in Nat /\ y < m
      BY <2>2
    <3> QED
      BY <2>1, <3>2
  <2>4. m - 1 \in Bounds
    BY <2>1, <2>2, <2>3
  <2> QED
    BY <1>1, <2>1, <2>4
<1>3. \E x \in S : \A y \in S : x >= y
  BY <1>1, <1>2
<1>4. Max(S) \in S /\ \A y \in S : Max(S) >= y
  BY <1>3 DEF Max
<1> QED
  BY <1>4

Leaves(seq, names, iter) ==
  iter = [T \in SUBSET DOMAIN seq |->
            IF T = {} THEN <<>>
            ELSE IF seq[Max(T)] \in names THEN iter[T \ {Max(T)}] ELSE Append(iter[T \ {Max(T)}], seq[Max(T)])]

\* What the definition of Without unfolds to.
LEMMA WithoutIsChosen == ASSUME NEW seq, NEW names
  PROVE  Without(seq, names) = (CHOOSE iter : Leaves(seq, names, iter))[DOMAIN seq]
BY Zenon DEF Without, FoldLeft, MapThenFoldSet, Leaves

\* A place of a list is the last one or a place of what is before it.
LEMMA PlacesHaveALast == ASSUME NEW X, NEW seq \in Seq(X)
  PROVE  \A T \in SUBSET DOMAIN seq : T # {} => Max(T) \in T
<1> SUFFICES ASSUME NEW T \in SUBSET DOMAIN seq, T # {} PROVE Max(T) \in T
  OBVIOUS
<1>1. T \subseteq Nat /\ Len(seq) \in Nat /\ \A y \in T : y <= Len(seq)
  OBVIOUS
<1> QED
  BY <1>1, GreatestOf

\* The fold that Without unfolds to satisfies its recursion.
LEMMA LeavesChosen == ASSUME NEW X, NEW seq \in Seq(X), NEW names
  PROVE  Leaves(seq, names, CHOOSE iter : Leaves(seq, names, iter))
<1> DEFINE S == DOMAIN seq
           pick == [T \in SUBSET S |-> Max(T)]
           put == [p \in S \X Seq(X) |-> IF seq[p[1]] \in names THEN p[2] ELSE Append(p[2], seq[p[1]])]
<1>1. \A T \in SUBSET S : T # {} => pick[T] \in T
  BY PlacesHaveALast
<1>2. put \in [S \X Seq(X) -> Seq(X)]
  OBVIOUS
<1>3. IsFiniteSet(S)
  BY FS_Interval
<1>4. PICK g \in [SUBSET S -> Seq(X)] : FoldsBy(pick, <<>>, put, g, SUBSET S)
  <2> DEFINE none == <<>>
  <2>1. none \in Seq(X)
    OBVIOUS
  <2> HIDE DEF pick, put, S, none
  <2>2. \E g \in [SUBSET S -> Seq(X)] : FoldsBy(pick, none, put, g, SUBSET S)
    BY <1>1, <1>2, <1>3, <2>1, FoldExists
  <2> QED
    BY <2>2 DEF none
<1>5. ASSUME NEW T \in SUBSET S, T # {}
      PROVE  put[<<pick[T], g[Rest(pick, T)]>>]
               = IF seq[Max(T)] \in names THEN g[T \ {Max(T)}] ELSE Append(g[T \ {Max(T)}], seq[Max(T)])
  <2>1. pick[T] \in S /\ Rest(pick, T) \in SUBSET S /\ pick[T] = Max(T)
    BY <1>1, <1>5 DEF Rest
  <2>2. g[Rest(pick, T)] \in Seq(X)
    BY <2>1
  <2> HIDE DEF pick, S
  <2>3. put[<<pick[T], g[Rest(pick, T)]>>]
          = IF seq[pick[T]] \in names THEN g[Rest(pick, T)] ELSE Append(g[Rest(pick, T)], seq[pick[T]])
    BY <2>1, <2>2
  <2> QED
    BY <2>1, <2>3 DEF Rest
<1>6. Leaves(seq, names, g)
  <2> HIDE DEF pick, put
  <2> QED
    BY <1>4, <1>5 DEF Leaves, FoldsBy
<1> QED
  BY <1>6, Zenon

\* What is left of a sequence without repetition, without some of its elements.
LEMMA WithoutKeeps == ASSUME NEW X, NEW seq \in Seq(X), Distinct(seq), NEW names
  PROVE  /\ Without(seq, names) \in Seq(X) /\ Distinct(Without(seq, names))
         /\ Elements(Without(seq, names)) = Elements(seq) \ names
<1> DEFINE S == DOMAIN seq
           g == CHOOSE iter : Leaves(seq, names, iter)
           Those(T) == {seq[i] : i \in T}
           Good(T, s) == s \in Seq(X) /\ Distinct(s) /\ Elements(s) = Those(T) \ names
           Q == {T \in SUBSET S : Good(T, g[T])}
<1>1. Leaves(seq, names, g)
  BY LeavesChosen
<1> HIDE DEF g
<1>2. ASSUME NEW T \in SUBSET S, \A x \in T : T \ {x} \in Q PROVE T \in Q
  <2>1. CASE T = {}
    <3>1. g[T] = <<>>
      BY <1>1, <2>1 DEF Leaves
    <3>2. <<>> \in Seq(X) /\ 1..Len(<<>>) = {}
      OBVIOUS
    <3>3. Distinct(<<>>) /\ Elements(<<>>) = {}
      BY <3>2 DEF Distinct, Elements
    <3> QED
      BY <2>1, <3>1, <3>2, <3>3
  <2>2. CASE T # {}
    <3> DEFINE m == Max(T)
               r == g[T \ {m}]
    <3>1. m \in T
      BY <2>2, PlacesHaveALast
    <3>2. g[T] = IF seq[m] \in names THEN r ELSE Append(r, seq[m])
      BY <1>1, <2>2 DEF Leaves
    <3>3. Good(T \ {m}, r)
      BY <1>2, <3>1
    <3> HIDE DEF m, r
    <3>4. Those(T) = Those(T \ {m}) \cup {seq[m]} /\ seq[m] \in X
      BY <3>1
    <3>5. seq[m] \notin Those(T \ {m})
      BY <3>1 DEF Distinct
    <3>6. CASE seq[m] \in names
      BY <3>2, <3>3, <3>4, <3>6
    <3>7. CASE seq[m] \notin names
      <4>1. seq[m] \notin Elements(r)
        BY <3>3, <3>5
      <4>2. /\ Append(r, seq[m]) \in Seq(X) /\ Distinct(Append(r, seq[m]))
            /\ Elements(Append(r, seq[m])) = Elements(r) \cup {seq[m]}
        BY <3>3, <3>4, <4>1, DistinctAppend
      <4>3. (Those(T \ {m}) \cup {seq[m]}) \ names = (Those(T \ {m}) \ names) \cup {seq[m]}
        BY <3>7
      <4>4. g[T] = Append(r, seq[m])
        BY <3>2, <3>7
      <4>5. Good(T, g[T])
        <5> HIDE DEF Those
        <5> QED
          BY <3>3, <3>4, <4>2, <4>3, <4>4
      <4> QED
        BY <4>5
    <3> QED
      BY <3>6, <3>7
  <2> QED
    BY <2>1, <2>2
<1>3. S \in Q
  <2>1. IsFiniteSet(S)
    BY FS_Interval
  <2> HIDE DEF Q, S
  <2> QED
    BY <1>2, <2>1, InductionOnSubsets
<1>4. Without(seq, names) = g[S]
  BY WithoutIsChosen DEF g
<1>5. Those(S) = Elements(seq)
  BY DEF Elements
<1> QED
  BY <1>3, <1>4, <1>5

-----------------------------------------------------------------------------
(* The directory of tiles and its processes (TileStore).                     *)

\* What a store always holds, whatever it is doing: its account adds up.
Sound(s) == /\ s \in Store /\ Distinct(s.recency) /\ Elements(s.recency) = Known(s)
            /\ s.resident = BytesOf(s, Known(s))

\* The types of a store's fields.
LEMMA StoreType == ASSUME NEW s \in Store
  PROVE  /\ Known(s) \subseteq Name /\ IsFiniteSet(Known(s)) /\ s.entries \in [Known(s) -> Nat]
         /\ s.recency \in Seq(Name) /\ s.resident \in Nat /\ s.doing \in {None} \cup Task /\ s.alone \in BOOLEAN
<1>1. s.entries \in UNION {[known -> Nat] : known \in SUBSET Name}
  BY DEF Store
<1>2. PICK known \in SUBSET Name : s.entries \in [known -> Nat]
  BY <1>1
<1>3. Known(s) = known
  BY <1>2 DEF Known
<1>4. IsFiniteSet(known)
  BY FS_Subset, SizesAssumption
<1> QED
  BY <1>2, <1>3, <1>4 DEF Store

\* Bytes of some of what a store knows.
LEMMA BytesType == ASSUME NEW s \in Store, NEW names \in SUBSET Known(s)
  PROVE  BytesOf(s, names) \in Nat
<1>1. IsFiniteSet(names) /\ \A n \in names : s.entries[n] \in Nat
  BY StoreType, FS_Subset
<1> QED
  BY <1>1, SumType DEF BytesOf

\* ... are taken from the whole.
LEMMA BytesOfParts == ASSUME NEW s \in Store, NEW names \in SUBSET Known(s)
  PROVE  BytesOf(s, Known(s)) = BytesOf(s, names) + BytesOf(s, Known(s) \ names)
<1>1. IsFiniteSet(Known(s)) /\ \A n \in Known(s) : s.entries[n] \in Int
  BY StoreType
<1> DEFINE K == Known(s)
           w == s.entries
<1>2. names \in SUBSET K
  OBVIOUS
<1> HIDE DEF K, w
<1>3. SumFunctionOnSet(w, K) = SumFunctionOnSet(w, names) + SumFunctionOnSet(w, K \ names)
  BY <1>1, <1>2, SumOfParts DEF K, w
<1> QED
  BY <1>3 DEF BytesOf, K, w

\* Replacing three of the parts.
Replaced(s, x, y, z) == [s EXCEPT !.entries = x, !.recency = y, !.resident = z]

\* Replacing the three fields of the index at once leaves the others.
LEMMA StoreWith ==
  ASSUME NEW s \in Store, NEW x \in UNION {[k -> Nat] : k \in SUBSET Name}, NEW y \in Seq(Name), NEW z \in Nat
  PROVE  /\ Replaced(s, x, y, z) \in Store
         /\ Replaced(s, x, y, z).entries = x
         /\ Replaced(s, x, y, z).recency = y
         /\ Replaced(s, x, y, z).resident = z
         /\ Replaced(s, x, y, z).doing = s.doing
         /\ Replaced(s, x, y, z).alone = s.alone
<1> DEFINE E == UNION {[k -> Nat] : k \in SUBSET Name}
           D == {None} \cup Task
<1>2. s \in [entries : E, recency : Seq(Name), resident : Nat, doing : D, alone : BOOLEAN]
  BY DEF Store
<1>3. x \in E
  OBVIOUS
<1> HIDE DEF E, D
<1> DEFINE t == Replaced(s, x, y, z)
<1>4. /\ t \in [entries : E, recency : Seq(Name), resident : Nat, doing : D, alone : BOOLEAN]
      /\ t.entries = x /\ t.recency = y /\ t.resident = z
      /\ t.doing = s.doing /\ t.alone = s.alone
  BY <1>2, <1>3 DEF Replaced
<1>5. t \in Store
  BY <1>4 DEF Store, E, D
<1> QED
  BY <1>4, <1>5

\* Forgetting some of what it knows leaves a sound store of the rest.
LEMMA ForgetIsSound == ASSUME NEW s, Sound(s), NEW names \in SUBSET Known(s)
  PROVE  LET t == Forget(s, names) IN
         /\ Sound(t) /\ Known(t) = Known(s) \ names /\ t.doing = s.doing /\ t.alone = s.alone
         /\ \A m \in Known(t) : t.entries[m] = s.entries[m]
         /\ t.resident = s.resident - BytesOf(s, names) /\ t.resident <= s.resident
<1>1. s \in Store /\ Distinct(s.recency) /\ Elements(s.recency) = Known(s) /\ s.resident = BytesOf(s, Known(s))
  BY DEF Sound
<1> DEFINE t == Forget(s, names)
           rest == Known(s) \ names
           entries == [m \in rest |-> s.entries[m]]
           left == Without(s.recency, names)
           resident == Less(s.resident, BytesOf(s, names))
<1>2. /\ Known(s) \subseteq Name /\ IsFiniteSet(Known(s)) /\ s.entries \in [Known(s) -> Nat]
      /\ s.recency \in Seq(Name) /\ s.resident \in Nat /\ s.doing \in {None} \cup Task /\ s.alone \in BOOLEAN
  BY <1>1, StoreType
<1>4. BytesOf(s, names) \in Nat /\ BytesOf(s, rest) \in Nat /\ s.resident = BytesOf(s, names) + BytesOf(s, rest)
  BY <1>1, BytesType, BytesOfParts
<1>5. resident = BytesOf(s, rest) /\ resident = s.resident - BytesOf(s, names) /\ resident <= s.resident /\ resident \in Nat
  BY <1>2, <1>4 DEF Less
<1>6. left \in Seq(Name) /\ Distinct(left) /\ Elements(left) = rest
  BY <1>1, <1>2, WithoutKeeps
<1>7. rest \in SUBSET Name /\ entries \in [rest -> Nat]
  BY <1>2
<1>3. /\ t \in Store /\ t.entries = entries /\ t.recency = left /\ t.resident = resident
      /\ t.doing = s.doing /\ t.alone = s.alone
  <2>1. t = Replaced(s, entries, left, resident)
    BY DEF Forget, Replaced
  <2> HIDE DEF t, rest, entries, left, resident
  <2> QED
    <3>1. s \in Store /\ entries \in UNION {[k -> Nat] : k \in SUBSET Name} /\ left \in Seq(Name) /\ resident \in Nat
      BY <1>1, <1>5, <1>6, <1>7
    <3> QED
      BY <2>1, <3>1, StoreWith
<1>9. Known(t) = rest
  BY <1>3 DEF Known
<1>10. BytesOf(t, rest) = BytesOf(s, rest)
  <2>1. IsFiniteSet(rest)
    BY <1>2, FS_Subset
  <2>2. \A m \in rest : entries[m] = s.entries[m] /\ s.entries[m] \in Int
    BY <1>2
  <2> DEFINE v == s.entries
  <2> HIDE DEF rest, entries, v
  <2>3. SumFunctionOnSet(entries, rest) = SumFunctionOnSet(v, rest)
    BY <2>1, <2>2, SumOfEqual DEF v
  <2> QED
    BY <1>3, <2>3 DEF BytesOf, v
<1>11. \A m \in Known(t) : t.entries[m] = s.entries[m]
  BY <1>3, <1>9
<1> HIDE DEF t, rest, entries, left, resident
<1>12. Sound(t)
  BY <1>3, <1>5, <1>6, <1>9, <1>10 DEF Sound
<1>13. /\ Sound(t) /\ Known(t) = Known(s) \ names /\ t.doing = s.doing /\ t.alone = s.alone
       /\ \A m \in Known(t) : t.entries[m] = s.entries[m]
       /\ t.resident = s.resident - BytesOf(s, names) /\ t.resident <= s.resident
  BY <1>3, <1>5, <1>9, <1>11, <1>12 DEF rest
<1> QED
  BY <1>13 DEF t

Held(s, n) == IF n \in Known(s) THEN s.entries[n] ELSE 0

\* What an entry takes is part of the account.
LEMMA HeldIsResident == ASSUME NEW s, Sound(s), NEW n
  PROVE  /\ Held(s, n) \in Nat /\ s.resident \in Nat /\ Held(s, n) <= s.resident
         /\ BytesOf(s, Known(s) \ {n}) = s.resident - Held(s, n)
<1>1. s \in Store /\ s.resident = BytesOf(s, Known(s)) /\ s.resident \in Nat
  BY StoreType DEF Sound
<1>2. CASE n \in Known(s)
  <2>1. s.entries[n] \in Nat /\ IsFiniteSet(Known(s)) /\ \A x \in Known(s) : s.entries[x] \in Int
    BY <1>1, <1>2, StoreType
  <2>2. BytesOf(s, Known(s) \ {n}) \in Nat
    BY <1>1, BytesType
  <2> DEFINE K == Known(s)
             w == s.entries
  <2>3. n \in K /\ IsFiniteSet(K) /\ \A x \in K : w[x] \in Int
    BY <1>2, <2>1
  <2> HIDE DEF K, w
  <2>4. SumFunctionOnSet(w, K) = w[n] + SumFunctionOnSet(w, K \ {n})
    BY <2>3, SumWithout
  <2>5. s.resident = s.entries[n] + BytesOf(s, Known(s) \ {n})
    BY <1>1, <2>4 DEF BytesOf, K, w
  <2> QED
    BY <1>1, <1>2, <2>1, <2>2, <2>5 DEF Held
<1>3. CASE n \notin Known(s)
  <2>1. Known(s) \ {n} = Known(s)
    BY <1>3
  <2> QED
    BY <1>1, <1>3, <2>1 DEF Held
<1> QED
  BY <1>2, <1>3

\* Room is found for `incoming` when it would fit beside what may not go; the
\* victims are known, and never the entry that is kept.
LEMMA VictimsMakeRoom ==
  ASSUME NEW s, Sound(s), NEW incoming \in Nat, NEW keep, Held(s, keep) + incoming <= Budget
  PROVE  LET gone == Victims(s, incoming, keep) IN
         /\ gone \in SUBSET Known(s) /\ keep \notin gone
         /\ s.resident - BytesOf(s, gone) + incoming <= Budget
<1> DEFINE others == Without(s.recency, {keep})
           First(k) == {others[i] : i \in 1..k}
           Freed(k) == BytesOf(s, First(k))
           Enough == {k \in 0..Len(others) : Less(s.resident, Freed(k)) + incoming <= Budget}
<1>1. s \in Store /\ Distinct(s.recency) /\ Elements(s.recency) = Known(s)
  BY DEF Sound
<1>2. s.recency \in Seq(Name)
  BY <1>1, StoreType
<1>3. others \in Seq(Name) /\ Elements(others) = Known(s) \ {keep}
  BY <1>1, <1>2, WithoutKeeps
<1> HIDE DEF others
<1>4. ASSUME NEW k \in 0..Len(others) PROVE First(k) \in SUBSET (Known(s) \ {keep})
  <2>1. Len(others) \in Nat
    BY <1>3
  <2>2. \A i \in 1..k : i \in 1..Len(others)
    BY <2>1
  <2> QED
    BY <1>3, <2>2 DEF Elements
<1>5. Len(others) \in Enough
  <2>1. First(Len(others)) = Known(s) \ {keep} /\ Len(others) \in Nat
    BY <1>3 DEF Elements
  <2>2. Freed(Len(others)) = s.resident - Held(s, keep) /\ Held(s, keep) \in Nat /\ s.resident \in Nat /\ Held(s, keep) <= s.resident
    BY <2>1, HeldIsResident
  <2>3. Less(s.resident, Freed(Len(others))) = Held(s, keep)
    BY <2>2 DEF Less
  <2> QED
    BY <2>1, <2>3
<1>6. Enough \subseteq Nat
  BY <1>3
<1> DEFINE count == IF Enough = {} THEN Len(others) ELSE Min(Enough)
<1>7. count \in Enough
  <2> HIDE DEF Enough
  <2> QED
    BY <1>5, <1>6, LeastOf
<1>8. Victims(s, incoming, keep) = First(count)
  BY DEF Victims, others
<1> HIDE DEF count
<1>9. First(count) \in SUBSET (Known(s) \ {keep}) /\ Less(s.resident, Freed(count)) + incoming <= Budget
  BY <1>4, <1>7
<1>10. Freed(count) \in Nat /\ s.resident \in Nat /\ s.resident = Freed(count) + BytesOf(s, Known(s) \ First(count)) 
       /\ BytesOf(s, Known(s) \ First(count)) \in Nat
  <2>1. First(count) \in SUBSET Known(s) /\ Known(s) \ First(count) \in SUBSET Known(s)
    BY <1>9
  <2> DEFINE gone == First(count)
             rest == Known(s) \ gone
  <2> HIDE DEF gone, rest, First
  <2>2. BytesOf(s, gone) \in Nat /\ BytesOf(s, rest) \in Nat
    BY <1>1, <2>1, BytesType DEF gone, rest
  <2>3. BytesOf(s, Known(s)) = BytesOf(s, gone) + BytesOf(s, rest)
    BY <1>1, <2>1, BytesOfParts DEF gone, rest
  <2>4. s.resident \in Nat /\ s.resident = BytesOf(s, Known(s))
    BY StoreType DEF Sound
  <2> QED
    BY <2>2, <2>3, <2>4 DEF gone, rest
<1>11. Less(s.resident, Freed(count)) = s.resident - Freed(count)
  BY <1>10 DEF Less
<1>12. /\ First(count) \in SUBSET Known(s) /\ keep \notin First(count)
       /\ s.resident - BytesOf(s, First(count)) + incoming <= Budget
  <2> HIDE DEF First
  <2> QED
    BY <1>9, <1>11
<1> HIDE DEF First
<1> QED
  BY <1>8, <1>12

\* ... is within the budget, and what a process is in the middle of keeps to it:
\* the entry it reads is known, the entry it writes has room.
Promise(s) == s.doing # None => IF s.doing.op = "read" THEN s.doing.name \in Known(s)
                                ELSE Less(s.resident, Held(s, s.doing.name)) + SizeOf[s.doing.name] <= Budget
Good(s) == Sound(s) /\ s.resident <= Budget /\ Promise(s)

\* Every file of a directory is known to a store that has it to itself.
Covers(s, directory) == s.alone => \A n \in Name : directory[n] # None =>
                                     n \in Known(s) /\ directory[n].bytes <= s.entries[n]

FilesInv == files \in [Name -> {None} \cup File] /\ \A n \in Name : State(n) = "whole" => files[n] = Whole(n)
DirectoryInv == modified \in Seq(Name) /\ Distinct(modified) /\ Elements(modified) = {n \in Name : files[n] # None}
StoresInv == store \in [Process -> {None} \cup Store] /\ \A p \in Process : store[p] # None => Good(store[p])
ShareInv == \A p \in Process : store[p] # None => /\ Covers(store[p], files)
                                                  /\ store[p].alone => \A q \in Process \ {p} : store[q] = None
\* A temporary file with an owner is the one its owner is about to rename.
TemporariesInv ==
  /\ temporaries \subseteq [owner : Process \cup {None}, name : Name, old : BOOLEAN]
  /\ \A t \in temporaries : t.owner # None => /\ Doing(t.owner, "rename") /\ store[t.owner].doing.name = t.name
                                              /\ \A u \in Mine(t.owner) : u = t
StoreInv == FilesInv /\ DirectoryInv /\ StoresInv /\ ShareInv /\ TemporariesInv /\ NeverTheWrongPicture

\* A store of other parts, all of them.
LEMMA StoreEdited == ASSUME NEW s \in Store
  PROVE  /\ \A d \in {None} \cup Task :
               LET t == [s EXCEPT !.doing = d] IN
               /\ t \in Store /\ t.entries = s.entries /\ t.recency = s.recency /\ t.resident = s.resident
               /\ t.doing = d /\ t.alone = s.alone
         /\ \A b \in BOOLEAN :
               LET t == [s EXCEPT !.alone = b] IN
               /\ t \in Store /\ t.entries = s.entries /\ t.recency = s.recency /\ t.resident = s.resident
               /\ t.doing = s.doing /\ t.alone = b
         /\ \A y \in Seq(Name) :
               LET t == [s EXCEPT !.recency = y] IN
               /\ t \in Store /\ t.entries = s.entries /\ t.recency = y /\ t.resident = s.resident
               /\ t.doing = s.doing /\ t.alone = s.alone
<1> DEFINE E == UNION {[k -> Nat] : k \in SUBSET Name}
           D == {None} \cup Task
<1>1. s \in [entries : E, recency : Seq(Name), resident : Nat, doing : D, alone : BOOLEAN]
  BY DEF Store
<1>2. Store = [entries : E, recency : Seq(Name), resident : Nat, doing : D, alone : BOOLEAN]
  BY DEF Store
<1> HIDE DEF E
<1>3. \A d \in D :
        LET t == [s EXCEPT !.doing = d] IN
        /\ t \in Store /\ t.entries = s.entries /\ t.recency = s.recency /\ t.resident = s.resident
        /\ t.doing = d /\ t.alone = s.alone
  <2> HIDE DEF D
  <2> QED
    BY <1>1, <1>2
<1>4. \A b \in BOOLEAN :
        LET t == [s EXCEPT !.alone = b] IN
        /\ t \in Store /\ t.entries = s.entries /\ t.recency = s.recency /\ t.resident = s.resident
        /\ t.doing = s.doing /\ t.alone = b
  <2> HIDE DEF D
  <2> QED
    BY <1>1, <1>2
<1>5. \A y \in Seq(Name) :
        LET t == [s EXCEPT !.recency = y] IN
        /\ t \in Store /\ t.entries = s.entries /\ t.recency = y /\ t.resident = s.resident
        /\ t.doing = s.doing /\ t.alone = s.alone
  <2> HIDE DEF D
  <2> QED
    BY <1>1, <1>2
<1> QED
  BY <1>3, <1>4, <1>5

\* Two stores of the same entries, order and account are as sound as each other.
LEMMA SameIsSound ==
  ASSUME NEW s, Sound(s), NEW t \in Store, t.entries = s.entries, t.recency = s.recency, t.resident = s.resident
  PROVE  /\ Sound(t) /\ Known(t) = Known(s) /\ \A n : Held(t, n) = Held(s, n)
<1>1. Known(t) = Known(s)
  BY DEF Known
<1>2. BytesOf(t, Known(t)) = BytesOf(s, Known(s))
  BY <1>1 DEF BytesOf
<1>3. Sound(t)
  BY <1>1, <1>2 DEF Sound
<1> QED
  BY <1>1, <1>3 DEF Held

\* ... whatever the process does next, and whoever joins it.
LEMMA DoingIsGood ==
  ASSUME NEW s, Sound(s), s.resident <= Budget, NEW d \in {None} \cup Task,
         d # None => IF d.op = "read" THEN d.name \in Known(s)
                     ELSE Less(s.resident, Held(s, d.name)) + SizeOf[d.name] <= Budget
  PROVE  LET t == [s EXCEPT !.doing = d] IN
         Good(t) /\ Known(t) = Known(s) /\ t.entries = s.entries /\ t.doing = d /\ t.alone = s.alone
<1> DEFINE t == [s EXCEPT !.doing = d]
<1>1. s \in Store
  BY DEF Sound
<1>2. /\ t \in Store /\ t.entries = s.entries /\ t.recency = s.recency /\ t.resident = s.resident
      /\ t.doing = d /\ t.alone = s.alone
  BY <1>1, StoreEdited
<1> HIDE DEF t
<1>3. Sound(t) /\ Known(t) = Known(s) /\ \A n : Held(t, n) = Held(s, n)
  BY <1>2, SameIsSound
<1>4. Held(t, d.name) = Held(s, d.name)
  BY <1>3
<1>5. Promise(t)
  BY <1>2, <1>3, <1>4 DEF Promise
<1>6. Good(t) /\ Known(t) = Known(s) /\ t.entries = s.entries /\ t.doing = d /\ t.alone = s.alone
  BY <1>2, <1>3, <1>5 DEF Good
<1> QED
  BY <1>6 DEF t

\* Having company changes nothing but what others may assume.
LEMMA CompanyIsGood == ASSUME NEW s, Good(s)
  PROVE  LET t == [s EXCEPT !.alone = FALSE] IN Good(t) /\ t.alone = FALSE /\ t.doing = s.doing
<1> DEFINE t == [s EXCEPT !.alone = FALSE]
<1>1. s \in Store
  BY DEF Good, Sound
<1>2. /\ t \in Store /\ t.entries = s.entries /\ t.recency = s.recency /\ t.resident = s.resident
      /\ t.doing = s.doing /\ t.alone = FALSE
  BY <1>1, StoreEdited
<1> HIDE DEF t
<1>3. Sound(t) /\ Known(t) = Known(s) /\ \A n : Held(t, n) = Held(s, n)
  BY <1>2, SameIsSound DEF Good
<1>4. Held(t, s.doing.name) = Held(s, s.doing.name)
  BY <1>3
<1>5. Promise(t)
  BY <1>2, <1>3, <1>4 DEF Promise, Good
<1>6. Good(t) /\ t.alone = FALSE /\ t.doing = s.doing
  BY <1>2, <1>3, <1>5 DEF Good
<1> QED
  BY <1>6 DEF t

\* Using an entry moves it to the end.
LEMMA UsedIsSound == ASSUME NEW s, Sound(s), NEW n \in Known(s)
  PROVE  LET t == Used(s, n) IN
         /\ Sound(t) /\ Known(t) = Known(s) /\ t.entries = s.entries /\ t.resident = s.resident
         /\ t.doing = s.doing /\ t.alone = s.alone
<1> DEFINE left == Without(s.recency, {n})
           y == Append(left, n)
           t == Used(s, n)
<1>1. s \in Store /\ Distinct(s.recency) /\ Elements(s.recency) = Known(s) /\ s.resident = BytesOf(s, Known(s))
  BY DEF Sound
<1>2. s.recency \in Seq(Name) /\ n \in Name
  BY <1>1, StoreType
<1>3. left \in Seq(Name) /\ Distinct(left) /\ Elements(left) = Known(s) \ {n}
  BY <1>1, <1>2, WithoutKeeps
<1> HIDE DEF left
<1>4. y \in Seq(Name) /\ Distinct(y) /\ Elements(y) = Elements(left) \cup {n}
  BY <1>2, <1>3, DistinctAppend
<1>5. Elements(y) = Known(s)
  BY <1>3, <1>4
<1> HIDE DEF y
<1>6. /\ t \in Store /\ t.entries = s.entries /\ t.recency = y /\ t.resident = s.resident
      /\ t.doing = s.doing /\ t.alone = s.alone
  BY <1>1, <1>4, StoreEdited DEF Used, y, left
<1> HIDE DEF t
<1>7. Known(t) = Known(s)
  BY <1>6 DEF Known
<1>8. BytesOf(t, Known(t)) = BytesOf(s, Known(s))
  BY <1>6, <1>7 DEF BytesOf
<1>9. /\ Sound(t) /\ Known(t) = Known(s) /\ t.entries = s.entries /\ t.resident = s.resident
      /\ t.doing = s.doing /\ t.alone = s.alone
  BY <1>1, <1>4, <1>5, <1>6, <1>7, <1>8 DEF Sound
<1> QED
  BY <1>9 DEF t

\* A new entry comes last.
LEMMA AddedIsSound == ASSUME NEW s, Sound(s), NEW n \in Name, n \notin Known(s), NEW bytes \in Nat
  PROVE  LET t == Added(s, n, bytes) IN
         /\ Sound(t) /\ Known(t) = Known(s) \cup {n} /\ t.entries[n] = bytes
         /\ \A m \in Known(s) : t.entries[m] = s.entries[m]
         /\ t.resident = s.resident + bytes /\ t.doing = s.doing /\ t.alone = s.alone
<1> DEFINE K == Known(s)
           all == K \cup {n}
           v == s.entries
           x == [m \in all |-> IF m = n THEN bytes ELSE v[m]]
           y == Append(s.recency, n)
           z == s.resident + bytes
           t == Added(s, n, bytes)
<1>1. s \in Store /\ Distinct(s.recency) /\ Elements(s.recency) = K /\ s.resident = BytesOf(s, K)
  BY DEF Sound
<1>2. /\ K \subseteq Name /\ IsFiniteSet(K) /\ v \in [K -> Nat]
      /\ s.recency \in Seq(Name) /\ s.resident \in Nat
  BY <1>1, StoreType
<1>3. x \in [all -> Nat] /\ all \in SUBSET Name
  BY <1>2
<1>4. y \in Seq(Name) /\ Distinct(y) /\ Elements(y) = all
  BY <1>1, <1>2, DistinctAppend
<1>5. z \in Nat
  BY <1>2
<1>6. t = Replaced(s, x, y, z)
  BY DEF Added, Replaced
<1>7. x[n] = bytes /\ n \in all /\ \A m \in K : x[m] = v[m] /\ m \in all
  OBVIOUS
<1>8. all = DOMAIN x /\ all \ {n} = K
  OBVIOUS
<1> HIDE DEF K, all, v, x, y, z, t
<1>9. x \in UNION {[k -> Nat] : k \in SUBSET Name}
  BY <1>3
<1>10. /\ t \in Store /\ t.entries = x /\ t.recency = y /\ t.resident = z
       /\ t.doing = s.doing /\ t.alone = s.alone
  BY <1>1, <1>4, <1>5, <1>6, <1>9, StoreWith
<1>11. Known(t) = all
  BY <1>8, <1>10 DEF Known
<1>12. BytesOf(t, all) = z
  <2>1. IsFiniteSet(all)
    BY <1>2, FS_AddElement DEF all
  <2>2. \A m \in all : x[m] \in Int
    BY <1>3
  <2>3. SumFunctionOnSet(x, all) = x[n] + SumFunctionOnSet(x, all \ {n})
    BY <1>7, <2>1, <2>2, SumWithout
  <2>4. SumFunctionOnSet(x, K) = SumFunctionOnSet(v, K)
    <3>1. \A m \in K : x[m] = v[m] /\ v[m] \in Int
      BY <1>2, <1>7
    <3> QED
      BY <1>2, <3>1, SumOfEqual
  <2>5. SumFunctionOnSet(x, all \ {n}) = SumFunctionOnSet(x, K)
    BY <1>8
  <2>6. SumFunctionOnSet(v, K) = s.resident
    BY <1>1 DEF BytesOf, v
  <2>7. SumFunctionOnSet(x, all) = bytes + s.resident
    BY <1>7, <2>3, <2>4, <2>5, <2>6
  <2> QED
    BY <1>2, <1>10, <2>7 DEF BytesOf, z
<1>13. Sound(t)
  BY <1>4, <1>10, <1>11, <1>12 DEF Sound
<1>14. /\ Sound(t) /\ Known(t) = Known(s) \cup {n} /\ t.entries[n] = bytes
       /\ \A m \in Known(s) : t.entries[m] = s.entries[m]
       /\ t.resident = s.resident + bytes /\ t.doing = s.doing /\ t.alone = s.alone
  BY <1>7, <1>10, <1>11, <1>13 DEF all, K, v, z
<1> QED
  BY <1>14 DEF t

\* None is not what it stands beside.
LEMMA NothingElse == /\ \A s \in Store : s # None
                     /\ \A f \in File : f # None
                     /\ \A d \in Task : d # None
                     /\ \A p \in Process : p # None
                     /\ None \notin Name
BY NothingAssumption

\* A good store is one.
LEMMA GoodStores == ASSUME NEW s, Good(s) PROVE s \in Store /\ s # None /\ Sound(s)
BY NothingElse DEF Good, Sound

\* A process changes its own store: the others have nothing to do with it.
LEMMA BecomeKeeps ==
  ASSUME StoresInv, ShareInv, NEW p \in Process, store[p] # None,
         NEW s, Good(s), s.alone = store[p].alone, Covers(s, files'), Become(p, s)
  PROVE  StoresInv' /\ ShareInv' /\ store'[p] = s /\ \A q \in Process \ {p} : store'[q] = store[q]
<1>1. /\ store \in [Process -> {None} \cup Store] /\ s \in Store /\ s # None
      /\ store'[p] = s /\ \A q \in Process \ {p} : store'[q] = store[q]
      /\ store' \in [Process -> {None} \cup Store]
  BY GoodStores DEF StoresInv, Become
<1>2. StoresInv'
  BY <1>1 DEF StoresInv
<1>3. ASSUME NEW q \in Process, store'[q] # None
      PROVE  /\ Covers(store'[q], files')
             /\ store'[q].alone => \A r \in Process \ {q} : store'[r] = None
  <2>1. CASE q = p
    BY <1>1, <2>1 DEF ShareInv
  <2>2. CASE q # p
    <3>1. store'[q] = store[q] /\ ~store[q].alone
      BY <1>1, <1>3, <2>2 DEF ShareInv
    <3> QED
      BY <3>1 DEF Covers
  <2> QED
    BY <2>1, <2>2
<1>4. ShareInv'
  <2>1. \A q \in Process : store'[q] # None => /\ Covers(store'[q], files')
                                               /\ store'[q].alone => \A r \in Process \ {q} : store'[r] = None
    BY <1>3
  <2> QED
    BY <2>1 DEF ShareInv, Covers, Known
<1> QED
  BY <1>1, <1>2, <1>4

\* Temporary files are those of processes that are about to rename one.
LEMMA TemporariesStay ==
  ASSUME TemporariesInv, StoresInv, NEW p \in Process, NEW s, Become(p, s), ~Doing(p, "rename"), UNCHANGED temporaries
  PROVE  TemporariesInv'
<1>1. ASSUME NEW t \in temporaries, t.owner # None
      PROVE  /\ t.owner \in Process /\ t.owner # p /\ store'[t.owner] = store[t.owner]
  BY <1>1 DEF TemporariesInv, StoresInv, Become
<1> QED
  BY <1>1 DEF TemporariesInv, Doing, Mine

\* What is unlinked is gone, and the rest is as it was.
LEMMA UnlinkKeeps ==
  ASSUME FilesInv, DirectoryInv, NEW names, Unlink(names)
  PROVE  /\ FilesInv' /\ DirectoryInv'
         /\ \A n \in Name : files'[n] # None => n \notin names /\ files[n] # None /\ files'[n] = files[n]
<1>1. \A n \in Name : files'[n] = IF n \in names THEN None ELSE files[n]
  BY DEF Unlink
<1>2. files' \in [Name -> {None} \cup File]
  BY DEF Unlink, FilesInv
<1>3. \A n \in Name : State(n)' = "whole" => files'[n] = Whole(n)
  BY <1>1 DEF FilesInv, State
<1>4. modified \in Seq(Name) /\ Distinct(modified)
  BY DEF DirectoryInv
<1>5. /\ Without(modified, names) \in Seq(Name) /\ Distinct(Without(modified, names))
      /\ Elements(Without(modified, names)) = Elements(modified) \ names
  BY <1>4, WithoutKeeps
<1>6. modified' = Without(modified, names)
  BY DEF Unlink
<1>7. Elements(modified) \ names = {n \in Name : files'[n] # None}
  BY <1>1 DEF DirectoryInv
<1>8. DirectoryInv'
  BY <1>5, <1>6, <1>7 DEF DirectoryInv
<1> QED
  BY <1>1, <1>2, <1>3, <1>8 DEF FilesInv, Whole

\* A file that is written, or used, is the last of the directory.
LEMMA LatestKeeps ==
  ASSUME DirectoryInv, NEW n \in Name, modified' = Append(Without(modified, {n}), n),
         {m \in Name : files'[m] # None} = {m \in Name : files[m] # None} \cup {n}
  PROVE  DirectoryInv'
<1> DEFINE left == Without(modified, {n})
<1>1. modified \in Seq(Name) /\ Distinct(modified)
  BY DEF DirectoryInv
<1>2. left \in Seq(Name) /\ Distinct(left) /\ Elements(left) = Elements(modified) \ {n}
  BY <1>1, WithoutKeeps
<1> HIDE DEF left
<1>3. /\ Append(left, n) \in Seq(Name) /\ Distinct(Append(left, n))
      /\ Elements(Append(left, n)) = Elements(left) \cup {n}
  BY <1>2, DistinctAppend
<1>4. modified' = Append(left, n)
  BY DEF left
<1> QED
  BY <1>2, <1>3, <1>4 DEF DirectoryInv

\* The index of the directory adds up.
LEMMA IndexedIsSound ==
  ASSUME FilesInv, DirectoryInv
  PROVE  /\ Sound(Indexed) /\ Known(Indexed) = {n \in Name : files[n] # None}
         /\ \A n \in Known(Indexed) : Indexed.entries[n] = files[n].bytes
         /\ Indexed.doing = None /\ Indexed.alone = \A q \in Process : store[q] = None
<1> DEFINE all == {n \in Name : files[n] # None}
           e == [n \in all |-> files[n].bytes]
           r == SumFunction(e)
           a == \A q \in Process : store[q] = None
<1>1. e \in [all -> Nat] /\ all \in SUBSET Name
  BY DEF FilesInv, File
<1>2. \A n \in all : e[n] = files[n].bytes
  OBVIOUS
<1>3. modified \in Seq(Name) /\ Distinct(modified) /\ Elements(modified) = all
  BY DEF DirectoryInv
<1>4. IsFiniteSet(all)
  BY <1>1, SizesAssumption, FS_Subset
<1>5. DOMAIN e = all
  OBVIOUS
<1>6. Indexed = [entries |-> e, recency |-> modified, resident |-> r, doing |-> None, alone |-> a]
  BY DEF Indexed
<1>7. r = SumFunctionOnSet(e, DOMAIN e)
  BY DEF SumFunction
<1>8. a \in BOOLEAN
  OBVIOUS
<1> HIDE DEF all, e, r, a
<1>9. r = SumFunctionOnSet(e, all)
  BY <1>5, <1>7
<1>10. r \in Nat
  <2>1. \A n \in all : e[n] \in Nat
    BY <1>1
  <2> QED
    BY <1>4, <1>9, <2>1, SumType
<1>11. e \in UNION {[k -> Nat] : k \in SUBSET Name}
  BY <1>1
<1>12. Indexed \in Store
  BY <1>3, <1>6, <1>8, <1>10, <1>11 DEF Store
<1>13. /\ Indexed.entries = e /\ Indexed.recency = modified /\ Indexed.resident = r
       /\ Indexed.doing = None /\ Indexed.alone = a
  BY <1>6
<1> DEFINE x == Indexed
<1> HIDE DEF x
<1>14. Known(x) = all
  BY <1>5, <1>13 DEF Known, x
<1>15. BytesOf(x, Known(x)) = r
  BY <1>9, <1>13, <1>14 DEF BytesOf, x
<1>16. Sound(x)
  BY <1>3, <1>12, <1>13, <1>14, <1>15 DEF Sound, x
<1> QED
  BY <1>2, <1>13, <1>14, <1>16 DEF x, all, a

\* A store that does nothing keeps its word.
LEMMA IdleIsGood == ASSUME NEW s, Sound(s), s.resident <= Budget, s.doing = None
  PROVE  Good(s)
BY DEF Good, Promise

\* ... and after it has forgotten what another knew.
LEMMA CoversLess ==
  ASSUME NEW s, NEW t, NEW directory, NEW later, Covers(s, directory), t.alone = s.alone, NEW gone, 
         Known(t) = Known(s) \ gone, \A n \in Known(t) : t.entries[n] = s.entries[n],
         \A n \in Name : later[n] # None => n \notin gone /\ directory[n] # None /\ later[n] = directory[n]
  PROVE  Covers(t, later)
BY DEF Covers

\* One lemma for each action. The file an entry stands for has gone: the entry goes.
LEMMA readMissKeeps == ASSUME StoreInv, NEW p \in Process, NEW n \in Name, readMiss(p, n) PROVE StoreInv'
<1> DEFINE s == store[p]
           t == Forget(s, {n})
<1>1. s # None /\ s.doing = None /\ n \in Known(s) /\ files[n] = None /\ Become(p, t)
      /\ UNCHANGED <<files, modified, temporaries, answer>>
  BY DEF readMiss, Ready
<1>2. Good(s) /\ Covers(s, files)
  BY <1>1 DEF StoreInv, StoresInv, ShareInv
<1>3. Sound(s) /\ s.resident <= Budget /\ {n} \in SUBSET Known(s)
  BY <1>1, <1>2 DEF Good
<1>4. /\ Sound(t) /\ Known(t) = Known(s) \ {n} /\ t.doing = s.doing /\ t.alone = s.alone
      /\ \A m \in Known(t) : t.entries[m] = s.entries[m]
      /\ t.resident <= s.resident
  BY <1>3, ForgetIsSound
<1>5. t.resident \in Nat /\ s.resident \in Nat /\ Budget \in Nat
  BY <1>3, <1>4, StoreType, SizesAssumption DEF Sound
<1> HIDE DEF s, t
<1>6. Good(t)
  BY <1>1, <1>3, <1>4, <1>5, IdleIsGood
<1>7. Covers(t, files')
  BY <1>1, <1>2, <1>4 DEF Covers
<1>8. StoresInv' /\ ShareInv'
  BY <1>1, <1>4, <1>6, <1>7, BecomeKeeps DEF StoreInv, s
<1>9. TemporariesInv'
  <2>1. ~Doing(p, "rename")
    BY <1>1 DEF Doing, s
  <2> QED
    BY <1>1, <2>1, TemporariesStay DEF StoreInv
<1>10. FilesInv' /\ DirectoryInv' /\ NeverTheWrongPicture'
  BY <1>1 DEF StoreInv, FilesInv, DirectoryInv, NeverTheWrongPicture, State, Whole
<1> QED
  BY <1>8, <1>9, <1>10 DEF StoreInv

\* A step of a process that neither forgets nor adds: it goes on, or it is done.
LEMMA GoesOn ==
  ASSUME StoreInv, NEW p \in Process, store[p] # None, NEW d \in {None} \cup Task,
         d # None => IF d.op = "read" THEN d.name \in Known(store[p])
                     ELSE Less(store[p].resident, Held(store[p], d.name)) + SizeOf[d.name] <= Budget,
         Become(p, [store[p] EXCEPT !.doing = d]), UNCHANGED <<files, modified, answer>>
  PROVE  /\ FilesInv' /\ DirectoryInv' /\ StoresInv' /\ ShareInv' /\ NeverTheWrongPicture'
         /\ store'[p] # None /\ store'[p].doing = d /\ \A q \in Process \ {p} : store'[q] = store[q]
<1> DEFINE s == store[p]
           t == [s EXCEPT !.doing = d]
<1>1. Good(s) /\ Covers(s, files) /\ Sound(s) /\ s.resident <= Budget
  BY DEF StoreInv, StoresInv, ShareInv, Good
<1>2. d # None => IF d.op = "read" THEN d.name \in Known(s)
                  ELSE Less(s.resident, Held(s, d.name)) + SizeOf[d.name] <= Budget
  OBVIOUS
<1>3. Become(p, t)
  OBVIOUS
<1> HIDE DEF s
<1>4. Good(t) /\ Known(t) = Known(s) /\ t.entries = s.entries /\ t.doing = d /\ t.alone = s.alone
  BY <1>1, <1>2, DoingIsGood
<1> HIDE DEF t
<1>5. Covers(t, files')
  BY <1>1, <1>4 DEF Covers
<1>6. StoresInv' /\ ShareInv' /\ store'[p] = t /\ \A q \in Process \ {p} : store'[q] = store[q]
  BY <1>3, <1>4, <1>5, BecomeKeeps DEF StoreInv, s
<1>7. FilesInv' /\ DirectoryInv' /\ NeverTheWrongPicture'
  BY DEF StoreInv, FilesInv, DirectoryInv, NeverTheWrongPicture, State, Whole
<1> QED
  BY <1>4, <1>6, <1>7, GoodStores

\* The size of the file is taken; the entry it is for is known.
LEMMA readBeginsKeeps == ASSUME StoreInv, NEW p \in Process, NEW n \in Name, readBegins(p, n) PROVE StoreInv'
<1> DEFINE d == [op |-> "read", name |-> n, size |-> files[n].bytes]
<1>1. store[p] # None /\ store[p].doing = None /\ n \in Known(store[p]) /\ files[n] # None
      /\ Become(p, [store[p] EXCEPT !.doing = d]) /\ UNCHANGED <<files, modified, temporaries, answer>>
  BY DEF readBegins, Ready
<1>2. d \in Task /\ d.op = "read" /\ d.name = n
  BY <1>1 DEF Task, StoreInv, FilesInv, File
<1> HIDE DEF d
<1>3. FilesInv' /\ DirectoryInv' /\ StoresInv' /\ ShareInv' /\ NeverTheWrongPicture'
  BY <1>1, <1>2, GoesOn
<1>4. TemporariesInv'
  <2>1. ~Doing(p, "rename")
    BY <1>1 DEF Doing
  <2> QED
    BY <1>1, <2>1, TemporariesStay DEF StoreInv
<1> QED
  BY <1>3, <1>4 DEF StoreInv

\* The file has gone, or another has its name by now.
LEMMA readOtherKeeps == ASSUME StoreInv, NEW p \in Process, readOther(p) PROVE StoreInv'
<1>1. Doing(p, "read") /\ Become(p, [store[p] EXCEPT !.doing = None]) /\ UNCHANGED <<files, modified, temporaries, answer>>
  BY DEF readOther, Done
<1>2. store[p] # None /\ ~Doing(p, "rename")
  BY <1>1 DEF Doing
<1>3. FilesInv' /\ DirectoryInv' /\ StoresInv' /\ ShareInv' /\ NeverTheWrongPicture'
  BY <1>1, <1>2, GoesOn
<1>4. TemporariesInv'
  BY <1>1, <1>2, TemporariesStay DEF StoreInv
<1> QED
  BY <1>3, <1>4 DEF StoreInv

\* What was read is whole, so it is what the name stands for.
LEMMA readSucceedsKeeps == ASSUME StoreInv, NEW p \in Process, readSucceeds(p) PROVE StoreInv'
<1> DEFINE s == store[p]
           n == s.doing.name
           u == Used(s, n)
           t == [u EXCEPT !.doing = None]
<1>1. /\ s # None /\ s.doing # None /\ s.doing.op = "read" /\ ~Doing(p, "rename")
      /\ State(n) = "whole" /\ answer' = [name |-> n, file |-> files[n]]
      /\ Become(p, t) /\ modified' = Append(Without(modified, {n}), n) /\ UNCHANGED <<files, temporaries>>
  BY DEF readSucceeds, Doing, ReadsWell, Done
<1>2. Good(s) /\ Covers(s, files)
  BY <1>1 DEF StoreInv, StoresInv, ShareInv
<1>3. Sound(s) /\ s.resident <= Budget /\ n \in Known(s)
  BY <1>1, <1>2 DEF Good, Promise
<1>4. n \in Name
  BY <1>3, StoreType DEF Sound
<1>5. /\ Sound(u) /\ Known(u) = Known(s) /\ u.entries = s.entries /\ u.resident = s.resident
      /\ u.doing = s.doing /\ u.alone = s.alone
  BY <1>3, UsedIsSound
<1> HIDE DEF s, n, u
<1>6. Good(t) /\ Known(t) = Known(u) /\ t.entries = u.entries /\ t.alone = u.alone
  BY <1>3, <1>5, DoingIsGood
<1> HIDE DEF t
<1>7. Covers(t, files')
  BY <1>1, <1>2, <1>5, <1>6 DEF Covers
<1>8. StoresInv' /\ ShareInv'
  BY <1>1, <1>5, <1>6, <1>7, BecomeKeeps DEF StoreInv, s
<1>9. TemporariesInv'
  BY <1>1, TemporariesStay DEF StoreInv
<1>10. FilesInv' /\ files[n] # None /\ files[n] = Whole(n)
  <2>1. FilesInv'
    BY <1>1 DEF StoreInv, FilesInv, State, Whole
  <2>2. files[n] # None
    BY <1>1 DEF State
  <2> QED
    BY <1>1, <1>4, <2>1, <2>2 DEF StoreInv, FilesInv
<1>11. NeverTheWrongPicture'
  BY <1>1, <1>10 DEF NeverTheWrongPicture, Whole
<1>12. DirectoryInv'
  <2>1. {m \in Name : files'[m] # None} = {m \in Name : files[m] # None} \cup {n}
    BY <1>1, <1>4, <1>10
  <2> QED
    BY <1>1, <1>4, <2>1, LatestKeeps DEF StoreInv
<1> QED
  BY <1>8, <1>9, <1>10, <1>11, <1>12 DEF StoreInv

\* What was read is not a whole file: entry and file go.
LEMMA readDiscardsKeeps == ASSUME StoreInv, NEW p \in Process, readDiscards(p) PROVE StoreInv'
<1> DEFINE s == store[p]
           n == s.doing.name
           u == Forget(s, {n} \cap Known(s))
           t == [u EXCEPT !.doing = None]
<1>1. /\ s # None /\ s.doing # None /\ s.doing.op = "read" /\ ~Doing(p, "rename")
      /\ Become(p, t) /\ Unlink({n}) /\ UNCHANGED <<temporaries, answer>>
  BY DEF readDiscards, Doing, Done, Drop
<1>2. Good(s) /\ Covers(s, files)
  BY <1>1 DEF StoreInv, StoresInv, ShareInv
<1>3. Sound(s) /\ s.resident <= Budget /\ {n} \cap Known(s) \in SUBSET Known(s)
  BY <1>2 DEF Good
<1>4. /\ Sound(u) /\ Known(u) = Known(s) \ ({n} \cap Known(s)) /\ u.alone = s.alone
      /\ \A m \in Known(u) : u.entries[m] = s.entries[m]
      /\ u.resident <= s.resident
  BY <1>3, ForgetIsSound
<1>5. u.resident \in Nat /\ s.resident \in Nat /\ Budget \in Nat
  BY <1>3, <1>4, StoreType, SizesAssumption DEF Sound
<1>6. u.resident <= Budget
  BY <1>3, <1>4, <1>5
<1> HIDE DEF s, n, u
<1>7. Good(t) /\ Known(t) = Known(u) /\ t.entries = u.entries /\ t.alone = u.alone
  BY <1>4, <1>6, DoingIsGood
<1> HIDE DEF t
<1>8. /\ FilesInv' /\ DirectoryInv'
      /\ \A m \in Name : files'[m] # None => m \notin {n} /\ files[m] # None /\ files'[m] = files[m]
  BY <1>1, UnlinkKeeps DEF StoreInv
<1>9. Covers(t, files')
  BY <1>2, <1>4, <1>7, <1>8 DEF Covers
<1>10. StoresInv' /\ ShareInv'
  BY <1>1, <1>4, <1>7, <1>9, BecomeKeeps DEF StoreInv, s
<1>11. TemporariesInv'
  BY <1>1, TemporariesStay DEF StoreInv
<1>12. NeverTheWrongPicture'
  BY <1>1 DEF StoreInv, NeverTheWrongPicture, Whole
<1> QED
  BY <1>8, <1>10, <1>11, <1>12 DEF StoreInv

\* All files and all entries go.
LEMMA clearKeeps == ASSUME StoreInv, NEW p \in Process, clear(p) PROVE StoreInv'
<1> DEFINE s == store[p]
           t == Forget(s, Known(s))
<1>1. s # None /\ s.doing = None /\ Become(p, t) /\ Unlink(Known(s)) /\ UNCHANGED <<temporaries, answer>>
  BY DEF clear, Ready
<1>2. Good(s) /\ Covers(s, files)
  BY <1>1 DEF StoreInv, StoresInv, ShareInv
<1>3. Sound(s) /\ s.resident <= Budget /\ Known(s) \in SUBSET Known(s)
  BY <1>2 DEF Good
<1>4. /\ Sound(t) /\ Known(t) = Known(s) \ Known(s) /\ t.doing = s.doing /\ t.alone = s.alone
      /\ t.resident <= s.resident
  BY <1>3, ForgetIsSound
<1>5. t.resident \in Nat /\ s.resident \in Nat /\ Budget \in Nat
  BY <1>3, <1>4, StoreType, SizesAssumption DEF Sound
<1> HIDE DEF s, t
<1>6. Good(t)
  BY <1>1, <1>3, <1>4, <1>5, IdleIsGood
<1>8. /\ FilesInv' /\ DirectoryInv'
      /\ \A m \in Name : files'[m] # None => m \notin Known(s) /\ files[m] # None /\ files'[m] = files[m]
  BY <1>1, UnlinkKeeps DEF StoreInv
<1>9. Covers(t, files')
  BY <1>2, <1>4, <1>8 DEF Covers
<1>10. StoresInv' /\ ShareInv'
  BY <1>1, <1>4, <1>6, <1>9, BecomeKeeps DEF StoreInv, s
<1>11. TemporariesInv'
  <2>1. ~Doing(p, "rename")
    BY <1>1 DEF Doing, s
  <2> QED
    BY <1>1, <2>1, TemporariesStay DEF StoreInv
<1>12. NeverTheWrongPicture'
  BY <1>1 DEF StoreInv, NeverTheWrongPicture, Whole
<1> QED
  BY <1>8, <1>10, <1>11, <1>12 DEF StoreInv

\* Room is made for a file before it is written.
LEMMA writeBeginsKeeps == ASSUME StoreInv, NEW p \in Process, NEW n \in Name, writeBegins(p, n) PROVE StoreInv'
<1> DEFINE s == store[p]
           h == Held(s, n)
           gone == Victims(s, Less(SizeOf[n], h), n)
           u == Forget(s, gone)
           d == [op |-> "write", name |-> n]
           t == [u EXCEPT !.doing = d]
<1>1. /\ s # None /\ s.doing = None /\ SizeOf[n] <= Budget /\ Become(p, t) /\ Unlink(gone)
      /\ UNCHANGED <<temporaries, answer>>
  BY DEF writeBegins, Ready, Held
<1>2. Good(s) /\ Covers(s, files)
  BY <1>1 DEF StoreInv, StoresInv, ShareInv
<1>3. Sound(s) /\ s.resident <= Budget /\ SizeOf[n] \in Nat /\ Budget \in Nat
  BY <1>2, SizesAssumption DEF Good
<1>4. h \in Nat /\ h <= s.resident /\ s.resident \in Nat
  BY <1>3, HeldIsResident
<1> HIDE DEF h
<1>5. Less(SizeOf[n], h) \in Nat /\ h + Less(SizeOf[n], h) <= Budget /\ SizeOf[n] <= h + Less(SizeOf[n], h)
  BY <1>1, <1>3, <1>4 DEF Less
<1> DEFINE incoming == Less(SizeOf[n], h)
<1>6. Held(s, n) + incoming <= Budget /\ incoming \in Nat
  BY <1>5 DEF h
<1> HIDE DEF s
<1>7. /\ gone \in SUBSET Known(s) /\ n \notin gone
      /\ s.resident - BytesOf(s, gone) + incoming <= Budget
  <2> HIDE DEF incoming
  <2>1. LET out == Victims(s, incoming, n) IN
        /\ out \in SUBSET Known(s) /\ n \notin out
        /\ s.resident - BytesOf(s, out) + incoming <= Budget
    BY <1>3, <1>6, VictimsMakeRoom
  <2> QED
    BY <2>1 DEF incoming
<1> HIDE DEF gone, incoming
<1>8. /\ Sound(u) /\ Known(u) = Known(s) \ gone /\ u.alone = s.alone
      /\ \A m \in Known(u) : u.entries[m] = s.entries[m]
      /\ u.resident = s.resident - BytesOf(s, gone) /\ u.resident <= s.resident
  BY <1>3, <1>7, ForgetIsSound
<1> HIDE DEF u
<1>9. Held(u, n) = h
  BY <1>7, <1>8 DEF Held, h
<1>10. u.resident \in Nat /\ Held(u, n) \in Nat /\ Held(u, n) <= u.resident
  BY <1>8, HeldIsResident
<1>11. Less(u.resident, Held(u, n)) + SizeOf[n] <= Budget /\ u.resident <= Budget
  <2>1. u.resident + incoming <= Budget /\ SizeOf[n] <= h + incoming /\ incoming \in Nat
    BY <1>5, <1>7, <1>8 DEF incoming
  <2> QED
    BY <1>3, <1>4, <1>9, <1>10, <2>1 DEF Less
<1>12. d \in {None} \cup Task /\ d.op = "write" /\ d.name = n
  BY DEF Task
<1> HIDE DEF d
<1>13. d # None => IF d.op = "read" THEN d.name \in Known(u)
                   ELSE Less(u.resident, Held(u, d.name)) + SizeOf[d.name] <= Budget
  BY <1>11, <1>12
<1>14. Good(t) /\ Known(t) = Known(u) /\ t.entries = u.entries /\ t.alone = u.alone
  BY <1>8, <1>11, <1>12, <1>13, DoingIsGood
<1> HIDE DEF t
<1>15. /\ FilesInv' /\ DirectoryInv'
       /\ \A m \in Name : files'[m] # None => m \notin gone /\ files[m] # None /\ files'[m] = files[m]
  BY <1>1, UnlinkKeeps DEF StoreInv
<1>16. Covers(t, files')
  BY <1>2, <1>8, <1>14, <1>15 DEF Covers
<1>17. StoresInv' /\ ShareInv'
  BY <1>1, <1>8, <1>14, <1>16, BecomeKeeps DEF StoreInv, s
<1>18. TemporariesInv'
  <2>1. ~Doing(p, "rename")
    BY <1>1 DEF Doing, s
  <2> QED
    BY <1>1, <2>1, TemporariesStay DEF StoreInv
<1>19. NeverTheWrongPicture'
  BY <1>1 DEF StoreInv, NeverTheWrongPicture, Whole
<1> QED
  BY <1>15, <1>17, <1>18, <1>19 DEF StoreInv

\* What a task is, by what is being done.
LEMMA TaskOf == ASSUME StoresInv, NEW p \in Process, store[p] # None, store[p].doing # None, store[p].doing.op # "read"
  PROVE  LET d == store[p].doing IN
         /\ d.name \in Name /\ d \in [op : {"write", "rename"}, name : Name]
         /\ Less(store[p].resident, Held(store[p], d.name)) + SizeOf[d.name] <= Budget
         /\ Sound(store[p]) /\ store[p].resident <= Budget
<1>1. Good(store[p]) /\ store[p] \in Store
  BY GoodStores DEF StoresInv
<1>2. store[p].doing \in Task
  BY <1>1, StoreType
<1> QED
  BY <1>1, <1>2 DEF Task, Good, Promise

\* The bytes are written under a name of their own.
LEMMA writeTemporaryKeeps == ASSUME StoreInv, NEW p \in Process, writeTemporary(p) PROVE StoreInv'
<1> DEFINE s == store[p]
           n == s.doing.name
           new == [owner |-> p, name |-> n, old |-> FALSE]
<1>1. s # None /\ s.doing # None /\ s.doing.op = "write" /\ UNCHANGED <<files, modified, answer>> /\ ~Doing(p, "rename")
  BY DEF writeTemporary, Doing
<1>2. /\ n \in Name /\ s.doing \in [op : {"write", "rename"}, name : Name]
      /\ Less(s.resident, Held(s, n)) + SizeOf[n] <= Budget
      /\ Sound(s) /\ s.resident <= Budget
  BY <1>1, TaskOf DEF StoreInv
<1>3. CASE temporaries' = temporaries \cup {new} /\ Become(p, [s EXCEPT !.doing.op = "rename"])
  <2> DEFINE d == [s.doing EXCEPT !.op = "rename"]
  <2>1. d \in [op : {"write", "rename"}, name : Name] /\ d.op = "rename" /\ d.name = n
    BY <1>2
  <2>2. d \in {None} \cup Task
    BY <2>1 DEF Task
  <2>3. [s EXCEPT !.doing.op = "rename"] = [s EXCEPT !.doing = d]
    OBVIOUS
  <2> HIDE DEF d
  <2>4. Become(p, [s EXCEPT !.doing = d])
    BY <1>3, <2>3
  <2>5. d # None => IF d.op = "read" THEN d.name \in Known(s)
                    ELSE Less(s.resident, Held(s, d.name)) + SizeOf[d.name] <= Budget
    BY <1>2, <2>1
  <2>6. /\ FilesInv' /\ DirectoryInv' /\ StoresInv' /\ ShareInv' /\ NeverTheWrongPicture'
        /\ store'[p] # None /\ store'[p].doing = d /\ \A q \in Process \ {p} : store'[q] = store[q]
    BY <1>1, <2>2, <2>4, <2>5, GoesOn
  <2>7. d # None
    BY <2>1, NothingElse DEF Task
  <2>8. TemporariesInv'
    <3>1. temporaries' \subseteq [owner : Process \cup {None}, name : Name, old : BOOLEAN]
      <4>1. new \in [owner : Process \cup {None}, name : Name, old : BOOLEAN]
        BY <1>2
      <4> HIDE DEF new
      <4> QED
        BY <1>3, <4>1 DEF StoreInv, TemporariesInv
    <3>2. \A t \in temporaries : t.owner # p
      BY <1>1, NothingElse DEF StoreInv, TemporariesInv
    <3>3. ASSUME NEW t \in temporaries', t.owner # None
          PROVE  /\ Doing(t.owner, "rename")' /\ store'[t.owner].doing.name = t.name
                 /\ \A v \in temporaries' : v.owner = t.owner => v = t
      <4>1. CASE t = new
        BY <1>3, <2>1, <2>6, <2>7, <3>2, <4>1 DEF Doing
      <4>2. CASE t # new
        <5>1. t \in temporaries /\ t.owner # p /\ t.owner \in Process
          BY <1>3, <3>2, <3>3, <4>2 DEF StoreInv, TemporariesInv
        <5>2. /\ Doing(t.owner, "rename") /\ store[t.owner].doing.name = t.name
              /\ \A v \in temporaries : v.owner = t.owner => v = t
          BY <3>3, <5>1 DEF StoreInv, TemporariesInv, Mine
        <5>3. store'[t.owner] = store[t.owner]
          BY <2>6, <5>1
        <5>4. Doing(t.owner, "rename")' /\ store'[t.owner].doing.name = t.name
          BY <5>2, <5>3 DEF Doing
        <5>5. \A v \in temporaries' : v.owner = t.owner => v = t
          BY <1>3, <5>1, <5>2
        <5> QED
          BY <5>4, <5>5
      <4> QED
        BY <4>1, <4>2
    <3> QED
      BY <3>1, <3>3 DEF TemporariesInv, Mine
  <2> QED
    BY <2>6, <2>8 DEF StoreInv
<1>4. CASE Become(p, [s EXCEPT !.doing = None]) /\ UNCHANGED temporaries
  <2>1. FilesInv' /\ DirectoryInv' /\ StoresInv' /\ ShareInv' /\ NeverTheWrongPicture'
    BY <1>1, <1>4, GoesOn
  <2>2. TemporariesInv'
    BY <1>1, <1>4, TemporariesStay DEF StoreInv
  <2> QED
    BY <2>1, <2>2 DEF StoreInv
<1> QED
  BY <1>3, <1>4 DEF writeTemporary, Done

\* What is left of a store without one entry.
LEMMA DropIsSound == ASSUME NEW s, Sound(s), NEW n
  PROVE  LET t == Drop(s, n) IN
         /\ Sound(t) /\ Known(t) = Known(s) \ {n} /\ t.doing = s.doing /\ t.alone = s.alone
         /\ \A m \in Known(t) : t.entries[m] = s.entries[m]
         /\ t.resident = s.resident - Held(s, n)
<1> DEFINE out == {n} \cap Known(s)
           t == Forget(s, out)
<1>1. out \in SUBSET Known(s) /\ Known(s) \ out = Known(s) \ {n}
  OBVIOUS
<1>2. Drop(s, n) = t
  BY DEF Drop
<1> HIDE DEF out
<1>3. /\ Sound(t) /\ Known(t) = Known(s) \ out /\ t.doing = s.doing /\ t.alone = s.alone
      /\ \A m \in Known(t) : t.entries[m] = s.entries[m]
      /\ t.resident = s.resident - BytesOf(s, out)
  BY <1>1, ForgetIsSound
<1>4. s \in Store /\ s.resident = BytesOf(s, Known(s)) /\ Known(s) \ {n} \in SUBSET Known(s)
  BY DEF Sound
<1>5. BytesOf(s, Known(s)) = BytesOf(s, out) + BytesOf(s, Known(s) \ {n})
  BY <1>1, <1>4, BytesOfParts
<1>6. BytesOf(s, out) \in Nat /\ BytesOf(s, Known(s) \ {n}) \in Nat /\ s.resident \in Nat
  BY <1>1, <1>4, BytesType, StoreType
<1>7. Held(s, n) \in Nat /\ BytesOf(s, Known(s) \ {n}) = s.resident - Held(s, n)
  BY HeldIsResident
<1>8. BytesOf(s, out) = Held(s, n)
  <2> DEFINE b == BytesOf(s, out)
             c == BytesOf(s, Known(s) \ {n})
             h == Held(s, n)
             r == s.resident
  <2>1. r = b + c /\ b \in Nat /\ c \in Nat /\ r \in Nat /\ h \in Nat /\ c = r - h
    BY <1>4, <1>5, <1>6, <1>7
  <2> HIDE DEF b, c, h, r
  <2>2. b = h
    BY <2>1
  <2> QED
    BY <2>2 DEF b, h
<1> HIDE DEF t
<1>9. /\ Sound(t) /\ Known(t) = Known(s) \ {n} /\ t.doing = s.doing /\ t.alone = s.alone
      /\ \A m \in Known(t) : t.entries[m] = s.entries[m]
      /\ t.resident = s.resident - Held(s, n)
  BY <1>1, <1>3, <1>8
<1> QED
  BY <1>2, <1>9

\* What is written is a file.
LEMMA WholeIsAFile == ASSUME NEW n \in Name
  PROVE  Whole(n) \in File /\ Whole(n) # None /\ Whole(n).bytes = SizeOf[n] /\ SizeOf[n] \in Nat
BY SizesAssumption, NothingElse DEF Whole, File

\* The file takes its name, and the entry of what had it is replaced.
LEMMA renameKeeps == ASSUME StoreInv, NEW p \in Process, rename(p) PROVE StoreInv'
<1>1. PICK f \in Mine(p) :
        /\ files' = [files EXCEPT ![f.name] = Whole(f.name)]
        /\ modified' = Append(Without(modified, {f.name}), f.name)
        /\ temporaries' = temporaries \ {f}
        /\ Become(p, Done(Added(Drop(store[p], f.name), f.name, SizeOf[f.name])))
  BY DEF rename
<1> DEFINE s == store[p]
           n == f.name
           u == Drop(s, n)
           a == Added(u, n, SizeOf[n])
           t == [a EXCEPT !.doing = None]
<1>2. s # None /\ s.doing # None /\ s.doing.op = "rename" /\ UNCHANGED answer
  BY DEF rename, Doing
<1>3. f \in temporaries /\ f.owner = p /\ s.doing.name = n /\ \A v \in Mine(p) : v = f
  BY <1>1, NothingElse DEF StoreInv, TemporariesInv, Mine
<1>4. /\ n \in Name /\ Less(s.resident, Held(s, n)) + SizeOf[n] <= Budget /\ Sound(s) /\ s.resident <= Budget
  BY <1>2, <1>3, TaskOf DEF StoreInv
<1>5. Good(s) /\ Covers(s, files)
  BY <1>2 DEF StoreInv, StoresInv, ShareInv
<1>6. /\ files' = [files EXCEPT ![n] = Whole(n)]
      /\ modified' = Append(Without(modified, {n}), n)
      /\ temporaries' = temporaries \ {f}
      /\ Become(p, t)
  BY <1>1 DEF Done
<1>7. /\ Whole(n) \in File /\ Whole(n) # None /\ Whole(n).bytes = SizeOf[n] /\ SizeOf[n] \in Nat
  BY <1>4, WholeIsAFile
<1> HIDE DEF n, s
<1>8. /\ Sound(u) /\ Known(u) = Known(s) \ {n} /\ u.alone = s.alone
      /\ \A m \in Known(u) : u.entries[m] = s.entries[m]
      /\ u.resident = s.resident - Held(s, n)
  BY <1>4, DropIsSound
<1> HIDE DEF u
<1>9. n \notin Known(u)
  BY <1>8
<1>10. /\ Sound(a) /\ Known(a) = Known(u) \cup {n} /\ a.entries[n] = SizeOf[n]
       /\ \A m \in Known(u) : a.entries[m] = u.entries[m]
       /\ a.resident = u.resident + SizeOf[n] /\ a.alone = u.alone
  BY <1>4, <1>7, <1>8, <1>9, AddedIsSound
<1> HIDE DEF a
<1>11. a.resident <= Budget
  <2>1. Held(s, n) \in Nat /\ s.resident \in Nat /\ Held(s, n) <= s.resident
    BY <1>4, HeldIsResident
  <2> QED
    BY <1>4, <1>8, <1>10, <2>1 DEF Less
<1>12. Good(t) /\ Known(t) = Known(a) /\ t.entries = a.entries /\ t.alone = a.alone /\ t.doing = None
  BY <1>10, <1>11, DoingIsGood
<1> HIDE DEF t
<1>13. files \in [Name -> {None} \cup File]
  BY DEF StoreInv, FilesInv
<1>14. /\ files' \in [Name -> {None} \cup File] /\ files'[n] = Whole(n)
       /\ \A m \in Name \ {n} : files'[m] = files[m]
  BY <1>4, <1>6, <1>7, <1>13
<1>15. FilesInv'
  BY <1>14 DEF StoreInv, FilesInv, State, Whole
<1>16. DirectoryInv'
  <2>1. {m \in Name : files'[m] # None} = {m \in Name : files[m] # None} \cup {n}
    BY <1>4, <1>7, <1>14
  <2> QED
    BY <1>4, <1>6, <2>1, LatestKeeps DEF StoreInv
<1>17. Covers(t, files')
  <2>1. ASSUME t.alone, NEW m \in Name, files'[m] # None
        PROVE  m \in Known(t) /\ files'[m].bytes <= t.entries[m]
    <3>1. CASE m = n
      BY <1>7, <1>10, <1>12, <1>14, <3>1
    <3>2. CASE m # n
      <4>1. s.alone /\ files[m] # None /\ files'[m] = files[m]
        BY <1>8, <1>10, <1>12, <1>14, <2>1, <3>2
      <4>2. m \in Known(s) /\ files[m].bytes <= s.entries[m]
        BY <1>5, <4>1 DEF Covers
      <4>3. m \in Known(u) /\ t.entries[m] = s.entries[m]
        BY <1>8, <1>10, <1>12, <3>2, <4>2
      <4> QED
        BY <1>10, <1>12, <4>1, <4>2, <4>3
    <3> QED
      BY <3>1, <3>2
  <2> QED
    BY <2>1 DEF Covers
<1>18. StoresInv' /\ ShareInv' /\ store'[p] = t /\ \A q \in Process \ {p} : store'[q] = store[q]
  <2>1. t.alone = s.alone
    BY <1>8, <1>10, <1>12
  <2> QED
    BY <1>2, <1>6, <1>12, <1>17, <2>1, BecomeKeeps DEF StoreInv, s
<1>19. TemporariesInv'
  <2>1. temporaries' \subseteq [owner : Process \cup {None}, name : Name, old : BOOLEAN]
    BY <1>6 DEF StoreInv, TemporariesInv
  <2>2. ASSUME NEW v \in temporaries', v.owner # None
        PROVE  /\ Doing(v.owner, "rename")' /\ store'[v.owner].doing.name = v.name
               /\ \A w \in temporaries' : w.owner = v.owner => w = v
    <3>1. v \in temporaries /\ v # f
      BY <1>6
    <3>2. v.owner # p
      BY <1>3, <3>1 DEF Mine
    <3>3. v.owner \in Process
      BY <2>2, <3>1 DEF StoreInv, TemporariesInv
    <3>4. store'[v.owner] = store[v.owner]
      BY <1>18, <3>2, <3>3
    <3>5. /\ Doing(v.owner, "rename") /\ store[v.owner].doing.name = v.name
          /\ \A w \in temporaries : w.owner = v.owner => w = v
      BY <2>2, <3>1 DEF StoreInv, TemporariesInv, Mine
    <3> QED
      BY <1>6, <3>4, <3>5 DEF Doing
  <2> QED
    BY <2>1, <2>2 DEF TemporariesInv, Mine
<1>20. NeverTheWrongPicture'
  BY <1>2 DEF StoreInv, NeverTheWrongPicture, Whole
<1> QED
  BY <1>15, <1>16, <1>18, <1>19, <1>20 DEF StoreInv

\* The file does not get its name and is removed.
LEMMA renameFailsKeeps == ASSUME StoreInv, NEW p \in Process, renameFails(p) PROVE StoreInv'
<1>1. /\ Doing(p, "rename") /\ store[p] # None /\ temporaries' = temporaries \ Mine(p)
      /\ Become(p, [store[p] EXCEPT !.doing = None]) /\ UNCHANGED <<files, modified, answer>>
  BY DEF renameFails, Done, Doing
<1>2. /\ FilesInv' /\ DirectoryInv' /\ StoresInv' /\ ShareInv' /\ NeverTheWrongPicture'
      /\ \A q \in Process \ {p} : store'[q] = store[q]
  BY <1>1, GoesOn
<1>3. TemporariesInv'
  <2>1. temporaries' \subseteq [owner : Process \cup {None}, name : Name, old : BOOLEAN]
    BY <1>1 DEF StoreInv, TemporariesInv
  <2>2. ASSUME NEW v \in temporaries', v.owner # None
        PROVE  /\ Doing(v.owner, "rename")' /\ store'[v.owner].doing.name = v.name
               /\ \A w \in temporaries' : w.owner = v.owner => w = v
    <3>1. v \in temporaries /\ v.owner # p
      BY <1>1 DEF Mine
    <3>2. v.owner \in Process
      BY <2>2, <3>1 DEF StoreInv, TemporariesInv
    <3>3. store'[v.owner] = store[v.owner]
      BY <1>2, <3>1, <3>2
    <3>4. /\ Doing(v.owner, "rename") /\ store[v.owner].doing.name = v.name
          /\ \A w \in temporaries : w.owner = v.owner => w = v
      BY <2>2, <3>1 DEF StoreInv, TemporariesInv, Mine
    <3> QED
      BY <1>1, <3>3, <3>4 DEF Doing
  <2> QED
    BY <2>1, <2>2 DEF TemporariesInv, Mine
<1> QED
  BY <1>2, <1>3 DEF StoreInv

\* A process ends between two of its steps; its temporary files stay, without owner.
LEMMA diesKeeps == ASSUME StoreInv, NEW p \in Process, dies(p) PROVE StoreInv'
<1>1. /\ store[p] # None /\ store' = [store EXCEPT ![p] = None] /\ temporaries' = Left({p})
      /\ answer' = None /\ UNCHANGED <<files, modified>>
  BY DEF dies
<1>2. /\ store' \in [Process -> {None} \cup Store] /\ store'[p] = None
      /\ \A q \in Process \ {p} : store'[q] = store[q]
  BY <1>1 DEF StoreInv, StoresInv
<1>3. StoresInv'
  BY <1>2 DEF StoreInv, StoresInv
<1>4. ShareInv'
  <2>1. ASSUME NEW q \in Process, store'[q] # None
        PROVE  /\ Covers(store'[q], files')
               /\ store'[q].alone => \A r \in Process \ {q} : store'[r] = None
    <3>1. q # p /\ store'[q] = store[q]
      BY <1>2, <2>1
    <3> QED
      BY <1>1, <1>2, <2>1, <3>1 DEF StoreInv, ShareInv
  <2> QED
    BY <2>1 DEF ShareInv, Covers, Known
<1>5. FilesInv' /\ DirectoryInv' /\ NeverTheWrongPicture'
  BY <1>1 DEF StoreInv, FilesInv, DirectoryInv, NeverTheWrongPicture, State, Whole
<1>6. TemporariesInv'
  <2> DEFINE R == [owner : Process \cup {None}, name : Name, old : BOOLEAN]
  <2>1. temporaries \subseteq R
    BY DEF StoreInv, TemporariesInv
  <2>2. \A t \in R : [t EXCEPT !.owner = None] \in R /\ [t EXCEPT !.owner = None].owner = None
    OBVIOUS
  <2> HIDE DEF R
  <2>3. ASSUME NEW v \in temporaries'
        PROVE  v \in R /\ (v.owner # None => v \in temporaries /\ v.owner # p)
    <3>1. PICK t \in temporaries : v = IF t.owner \in {p} THEN [t EXCEPT !.owner = None] ELSE t
      BY <1>1, <2>3 DEF Left
    <3> QED
      BY <2>1, <2>2, <3>1
  <2>4. ASSUME NEW v \in temporaries', v.owner # None
        PROVE  /\ Doing(v.owner, "rename")' /\ store'[v.owner].doing.name = v.name
               /\ \A w \in temporaries' : w.owner = v.owner => w = v
    <3>1. v \in temporaries /\ v.owner # p /\ v.owner \in Process
      BY <2>3, <2>4 DEF StoreInv, TemporariesInv
    <3>2. store'[v.owner] = store[v.owner]
      BY <1>2, <3>1
    <3>3. /\ Doing(v.owner, "rename") /\ store[v.owner].doing.name = v.name
          /\ \A w \in temporaries : w.owner = v.owner => w = v
      BY <2>4, <3>1 DEF StoreInv, TemporariesInv, Mine
    <3>4. \A w \in temporaries' : w.owner = v.owner => w \in temporaries
      BY <2>3, <2>4
    <3> QED
      BY <3>2, <3>3, <3>4 DEF Doing
  <2>5. temporaries' \subseteq R
    BY <2>3
  <2> QED
    BY <2>4, <2>5 DEF TemporariesInv, Mine, R
<1> QED
  BY <1>3, <1>4, <1>5, <1>6 DEF StoreInv

\* Temporary files grow old.
LEMMA hourKeeps == ASSUME StoreInv, hour PROVE StoreInv'
<1>1. temporaries' = {[t EXCEPT !.old = TRUE] : t \in temporaries} /\ UNCHANGED <<files, modified, store, answer>>
  BY DEF hour
<1>2. FilesInv' /\ DirectoryInv' /\ NeverTheWrongPicture' /\ StoresInv' /\ ShareInv'
  BY <1>1 DEF StoreInv, FilesInv, DirectoryInv, StoresInv, ShareInv, NeverTheWrongPicture, State, Whole, Covers, Known
<1>3. TemporariesInv'
  <2> DEFINE R == [owner : Process \cup {None}, name : Name, old : BOOLEAN]
  <2>1. temporaries \subseteq R
    BY DEF StoreInv, TemporariesInv
  <2>2. \A t \in R : LET v == [t EXCEPT !.old = TRUE] IN v \in R /\ v.owner = t.owner /\ v.name = t.name
    OBVIOUS
  <2> HIDE DEF R
  <2>3. ASSUME NEW v \in temporaries'
        PROVE  v \in R /\ \E t \in temporaries : v = [t EXCEPT !.old = TRUE] /\ v.owner = t.owner /\ v.name = t.name
    <3>1. PICK t \in temporaries : v = [t EXCEPT !.old = TRUE]
      BY <1>1, <2>3
    <3> QED
      BY <2>1, <2>2, <3>1
  <2>4. ASSUME NEW v \in temporaries', v.owner # None
        PROVE  /\ Doing(v.owner, "rename")' /\ store'[v.owner].doing.name = v.name
               /\ \A w \in temporaries' : w.owner = v.owner => w = v
    <3>1. PICK t \in temporaries : v = [t EXCEPT !.old = TRUE] /\ v.owner = t.owner /\ v.name = t.name
      BY <2>3
    <3>2. /\ Doing(t.owner, "rename") /\ store[t.owner].doing.name = t.name
          /\ \A w \in temporaries : w.owner = t.owner => w = t
      BY <2>4, <3>1 DEF StoreInv, TemporariesInv, Mine
    <3>3. \A w \in temporaries' : w.owner = v.owner => w = v
      BY <2>3, <3>1, <3>2
    <3> QED
      BY <1>1, <3>1, <3>2, <3>3 DEF Doing
  <2>5. temporaries' \subseteq R
    BY <2>3
  <2> QED
    BY <2>4, <2>5 DEF TemporariesInv, Mine, R
<1> QED
  BY <1>2, <1>3 DEF StoreInv

\* Files are torn, and every process ends.
LEMMA powerCutKeeps == ASSUME StoreInv, powerCut PROVE StoreInv'
<1>1. /\ store' = [p \in Process |-> None] /\ temporaries' = Left(Process) /\ answer' = None /\ UNCHANGED modified
  BY DEF powerCut
<1>2. PICK n \in Name : files[n] # None /\ \E left \in {0, files[n].bytes} :
                          files' = [files EXCEPT ![n] = [state |-> "torn", bytes |-> left]]
  BY DEF powerCut
<1>3. PICK left \in {0, files[n].bytes} : files' = [files EXCEPT ![n] = [state |-> "torn", bytes |-> left]]
  BY <1>2
<1> DEFINE torn == [state |-> "torn", bytes |-> left]
<1>4. files \in [Name -> {None} \cup File] /\ files[n] \in File
  BY <1>2 DEF StoreInv, FilesInv
<1>5. torn \in File /\ torn.state = "torn"
  BY <1>3, <1>4 DEF File
<1>6. torn # None
  BY <1>5, NothingElse
<1>7. files' = [files EXCEPT ![n] = torn]
  BY <1>3
<1> HIDE DEF torn
<1>8. /\ files' \in [Name -> {None} \cup File] /\ files'[n] = torn
      /\ \A m \in Name \ {n} : files'[m] = files[m]
  BY <1>4, <1>5, <1>7
<1>9. FilesInv'
  BY <1>5, <1>6, <1>8 DEF StoreInv, FilesInv, State, Whole
<1>10. DirectoryInv'
  <2>1. {m \in Name : files'[m] # None} = {m \in Name : files[m] # None}
    BY <1>2, <1>6, <1>8
  <2> QED
    BY <1>1, <2>1 DEF StoreInv, DirectoryInv
<1>11. StoresInv' /\ ShareInv' /\ NeverTheWrongPicture'
  BY <1>1 DEF StoresInv, ShareInv, NeverTheWrongPicture
<1>12. TemporariesInv'
  <2> DEFINE R == [owner : Process \cup {None}, name : Name, old : BOOLEAN]
  <2>1. temporaries \subseteq R
    BY DEF StoreInv, TemporariesInv
  <2>2. \A t \in R : /\ [t EXCEPT !.owner = None] \in R /\ [t EXCEPT !.owner = None].owner = None
                     /\ t.owner \in Process \cup {None}
    OBVIOUS
  <2> HIDE DEF R
  <2>3. ASSUME NEW v \in temporaries' PROVE v \in R /\ v.owner = None
    <3>1. PICK t \in temporaries : v = IF t.owner \in Process THEN [t EXCEPT !.owner = None] ELSE t
      BY <1>1, <2>3 DEF Left
    <3> QED
      BY <2>1, <2>2, <3>1
  <2> QED
    BY <2>3 DEF TemporariesInv, R
<1> QED
  BY <1>9, <1>10, <1>11, <1>12 DEF StoreInv

\* The directory is indexed and evicted down to the budget; the others have company.
LEMMA openKeeps == ASSUME StoreInv, NEW p \in Process, open(p) PROVE StoreInv'
<1> DEFINE i == Indexed
           gone == Victims(i, 0, None)
           t == Forget(i, gone)
<1>1. /\ store[p] = None /\ Opened(p, t) /\ Unlink(gone)
      /\ temporaries' = {v \in temporaries : ~v.old} /\ answer' = answer
  BY DEF open
<1>2. /\ Sound(i) /\ Known(i) = {n \in Name : files[n] # None}
      /\ \A n \in Known(i) : i.entries[n] = files[n].bytes
      /\ i.doing = None /\ i.alone = \A q \in Process : store[q] = None
  BY IndexedIsSound DEF StoreInv
<1>3. i.alone => \A q \in Process : store[q] = None
  BY <1>2
<1> HIDE DEF i
<1>4. Held(i, None) = 0
  BY <1>2, NothingElse DEF Held
<1>5. /\ gone \in SUBSET Known(i) /\ i.resident - BytesOf(i, gone) <= Budget /\ Budget \in Nat
  <2> DEFINE none == 0
  <2>1. none \in Nat /\ Held(i, None) + none <= Budget /\ Budget \in Nat
    BY <1>4, SizesAssumption
  <2> HIDE DEF none
  <2>2. LET out == Victims(i, none, None) IN
        /\ out \in SUBSET Known(i)
        /\ i.resident - BytesOf(i, out) + none <= Budget
    BY <1>2, <2>1, VictimsMakeRoom
  <2>3. gone \in SUBSET Known(i) /\ i.resident - BytesOf(i, gone) + 0 <= Budget
    BY <2>2 DEF none
  <2>4. i \in Store
    BY <1>2 DEF Sound
  <2>5. i.resident \in Nat
    BY <2>4, StoreType
  <2> HIDE DEF gone
  <2>6. BytesOf(i, gone) \in Nat
    BY <2>3, <2>4, BytesType
  <2> QED
    BY <2>1, <2>3, <2>5, <2>6
<1> HIDE DEF gone
<1>6. /\ Sound(t) /\ Known(t) = Known(i) \ gone /\ t.doing = i.doing /\ t.alone = i.alone
      /\ \A m \in Known(t) : t.entries[m] = i.entries[m]
      /\ t.resident = i.resident - BytesOf(i, gone)
  BY <1>2, <1>5, ForgetIsSound
<1> HIDE DEF t
<1>7. Good(t) /\ t \in Store /\ t # None
  BY <1>2, <1>5, <1>6, IdleIsGood, GoodStores
<1>8. /\ FilesInv' /\ DirectoryInv'
      /\ \A m \in Name : files'[m] # None => m \notin gone /\ files[m] # None /\ files'[m] = files[m]
  BY <1>1, UnlinkKeeps DEF StoreInv
<1>9. Covers(t, files')
  <2>1. ASSUME NEW m \in Name, files'[m] # None PROVE m \in Known(t) /\ files'[m].bytes <= t.entries[m]
    <3>1. m \notin gone /\ files[m] # None /\ files'[m] = files[m]
      BY <1>8, <2>1
    <3>2. m \in Known(i) /\ m \in Known(t) /\ t.entries[m] = files[m].bytes
      BY <1>2, <1>6, <3>1
    <3>3. files[m].bytes \in Nat
      BY <3>1 DEF StoreInv, FilesInv, File
    <3> QED
      BY <3>1, <3>2, <3>3
  <2> QED
    BY <2>1 DEF Covers
<1>10. store' = [q \in Process |-> IF q = p THEN t ELSE IF store[q] = None THEN None ELSE [store[q] EXCEPT !.alone = FALSE]]
  BY <1>1 DEF Opened
<1>11. ASSUME NEW q \in Process \ {p}, store[q] # None
       PROVE  /\ Good(store'[q]) /\ store'[q] \in Store /\ store'[q].alone = FALSE
              /\ store'[q].doing = store[q].doing /\ store'[q] # None
  <2>1. Good(store[q])
    BY <1>11 DEF StoreInv, StoresInv
  <2>2. store'[q] = [store[q] EXCEPT !.alone = FALSE]
    BY <1>10, <1>11
  <2> QED
    BY <2>1, <2>2, CompanyIsGood, GoodStores
<1>12. \A q \in Process \ {p} : store[q] = None => store'[q] = None
  BY <1>10
<1>13. store'[p] = t
  BY <1>10
<1>14. StoresInv'
  <2>1. store' \in [Process -> {None} \cup Store]
    BY <1>7, <1>10, <1>11, <1>12, <1>13
  <2> QED
    BY <1>7, <1>11, <1>12, <1>13, <2>1 DEF StoresInv
<1>15. ShareInv'
  <2>1. ASSUME NEW q \in Process, store'[q] # None
        PROVE  /\ Covers(store'[q], files')
               /\ store'[q].alone => \A r \in Process \ {q} : store'[r] = None
    <3>1. CASE q = p
      BY <1>3, <1>6, <1>9, <1>12, <1>13, <3>1
    <3>2. CASE q # p
      <4>1. store'[q].alone = FALSE
        BY <1>11, <1>12, <2>1, <3>2
      <4> QED
        BY <4>1 DEF Covers
    <3> QED
      BY <3>1, <3>2
  <2> QED
    BY <2>1 DEF ShareInv, Covers, Known
<1>16. TemporariesInv'
  <2>1. temporaries' \subseteq [owner : Process \cup {None}, name : Name, old : BOOLEAN]
    BY <1>1 DEF StoreInv, TemporariesInv
  <2>2. ASSUME NEW v \in temporaries', v.owner # None
        PROVE  /\ Doing(v.owner, "rename")' /\ store'[v.owner].doing.name = v.name
               /\ \A w \in temporaries' : w.owner = v.owner => w = v
    <3>1. v \in temporaries
      BY <1>1
    <3>2. /\ Doing(v.owner, "rename") /\ store[v.owner].doing.name = v.name
          /\ \A w \in temporaries : w.owner = v.owner => w = v
      BY <2>2, <3>1 DEF StoreInv, TemporariesInv, Mine
    <3>3. v.owner \in Process \ {p} /\ store[v.owner] # None
      BY <1>1, <2>2, <3>1, <3>2 DEF StoreInv, TemporariesInv, Doing
    <3>4. store'[v.owner].doing = store[v.owner].doing /\ store'[v.owner] # None
      BY <1>11, <3>3
    <3> QED
      BY <1>1, <3>2, <3>4 DEF Doing
  <2> QED
    BY <2>1, <2>2 DEF TemporariesInv, Mine
<1>17. NeverTheWrongPicture'
  BY <1>1 DEF StoreInv, NeverTheWrongPicture, Whole
<1> QED
  BY <1>8, <1>14, <1>15, <1>16, <1>17 DEF StoreInv

\* The directory a process finds.
LEMMA StoreInitHolds == ASSUME StoreInit PROVE StoreInv
<1> DEFINE all == {n \in Name : files[n] # None}
<1>1. /\ files \in [Name -> {None} \cup [state : {"version", "analysis"}, bytes : {HeaderBytes}]]
      /\ modified \in SetToSeqs(all) /\ temporaries = {} /\ store = [p \in Process |-> None] /\ answer = None
  BY DEF StoreInit
<1>2. FilesInv
  <2>1. [state : {"version", "analysis"}, bytes : {HeaderBytes}] \subseteq File
    BY SizesAssumption DEF File
  <2>2. \A n \in Name : State(n) # "whole"
    BY <1>1 DEF State
  <2> QED
    BY <1>1, <2>1, <2>2 DEF FilesInv
<1>3. IsFiniteSet(all) /\ all \subseteq Name
  BY SizesAssumption, FS_Subset
<1> HIDE DEF all
<1>4. Cardinality(all) \in Nat
  BY <1>3, FS_CardinalityType
<1>5. modified \in [1..Cardinality(all) -> all] /\ \A i, j \in 1..Cardinality(all) : i # j => modified[i] # modified[j]
  BY <1>1, Zenon DEF SetToSeqs
<1>6. modified \in Seq(all) /\ Len(modified) = Cardinality(all)
  BY <1>4, <1>5
<1>7. Distinct(modified)
  BY <1>5, <1>6 DEF Distinct
<1>8. Elements(modified) \subseteq all
  BY <1>5, <1>6 DEF Elements
<1>9. Cardinality(Elements(modified)) = Len(modified)
  BY <1>6, <1>7, DistinctCount
<1>10. Elements(modified) = all
  BY <1>3, <1>6, <1>8, <1>9, FS_Subset
<1>11. modified \in Seq(Name)
  BY <1>3, <1>5, <1>6
<1>12. DirectoryInv
  BY <1>7, <1>10, <1>11 DEF DirectoryInv, all
<1>13. StoresInv /\ ShareInv /\ TemporariesInv /\ NeverTheWrongPicture
  BY <1>1 DEF StoresInv, ShareInv, TemporariesInv, NeverTheWrongPicture
<1> QED
  BY <1>2, <1>12, <1>13 DEF StoreInv

\* Every step of the directory and its processes keeps the invariant.
LEMMA StoreStepHolds == ASSUME StoreInv, StoreNext PROVE StoreInv'
<1>1. ASSUME NEW p \in Process, StoreStep(p) PROVE StoreInv'
  BY <1>1, openKeeps, readSucceedsKeeps, readOtherKeeps, readDiscardsKeeps, writeTemporaryKeeps, renameKeeps,
     renameFailsKeeps, clearKeeps, diesKeeps, readMissKeeps, readBeginsKeeps, writeBeginsKeeps DEF StoreStep
<1> QED
  BY <1>1, hourKeeps, powerCutKeeps DEF StoreNext

\* ... and so does everything that does not concern them.
LEMMA StoreStutters == ASSUME StoreInv, UNCHANGED storeVars PROVE StoreInv'
BY DEF storeVars, StoreInv, FilesInv, DirectoryInv, StoresInv, ShareInv, TemporariesInv, NeverTheWrongPicture,
       State, Whole, Covers, Known, Doing, Mine

\* What the invariant says of the accounts.
LEMMA AccountsAddUp == ASSUME StoreInv PROVE KeepsItsBudget
<1>1. ASSUME NEW p \in Process, store[p] # None
      PROVE  /\ AccountAddsUp(store[p])
             /\ store[p].alone => \A n \in Name : files[n] # None =>
                                    n \in Known(store[p]) /\ files[n].bytes <= store[p].entries[n]
  <2> DEFINE s == store[p]
  <2>1. Good(s) /\ Covers(s, files)
    BY <1>1 DEF StoreInv, StoresInv, ShareInv
  <2>2. /\ s \in Store /\ Distinct(s.recency) /\ Elements(s.recency) = Known(s)
        /\ s.resident = BytesOf(s, Known(s)) /\ s.resident <= Budget
    BY <2>1 DEF Good, Sound
  <2>3. s.recency \in Seq(Name)
    BY <2>2, StoreType
  <2>4. Cardinality(Elements(s.recency)) = Len(s.recency) /\ DOMAIN s.recency = 1..Len(s.recency)
    BY <2>2, <2>3, DistinctCount
  <2>5. Elements(s.recency) = {s.recency[i] : i \in DOMAIN s.recency}
    BY <2>4 DEF Elements
  <2>6. AccountAddsUp(s)
    BY <2>2, <2>4, <2>5 DEF AccountAddsUp
  <2> QED
    BY <2>1, <2>6 DEF Covers
<1> QED
  BY <1>1 DEF KeepsItsBudget

-----------------------------------------------------------------------------
(* The detail in memory (Spectrogram).                                       *)

\* The elements of `front` come before the others.
Leads(seq, front) == \A i, j \in 1..Len(seq) : i < j /\ seq[j] \in front => seq[i] \in front

\* An element that does not belong to the front may be appended; one that does, to a front.
LEMMA LeadsAppend == ASSUME NEW X, NEW seq \in Seq(X), NEW x, NEW front, Leads(seq, front), x \in front => Elements(seq) \subseteq front
  PROVE  Leads(Append(seq, x), front)
<1>1. /\ Len(Append(seq, x)) = Len(seq) + 1 /\ Len(seq) \in Nat
      /\ \A i \in 1..Len(seq) : Append(seq, x)[i] = seq[i]
      /\ Append(seq, x)[Len(seq) + 1] = x
  OBVIOUS
<1> DEFINE more == Append(seq, x)
<1> HIDE DEF more
<1> SUFFICES ASSUME NEW i \in 1..Len(more), NEW j \in 1..Len(more), i < j, more[j] \in front PROVE more[i] \in front
  BY DEF Leads, more
<1>2. i \in 1..Len(seq) /\ more[i] = seq[i]
  BY <1>1 DEF more
<1>3. CASE j = Len(seq) + 1
  BY <1>1, <1>2, <1>3 DEF Elements, more
<1>4. CASE j # Len(seq) + 1
  <2>1. j \in 1..Len(seq) /\ more[j] = seq[j]
    BY <1>1, <1>4 DEF more
  <2> QED
    BY <1>2, <2>1 DEF Leads
<1> QED
  BY <1>3, <1>4

\* Whoever leaves, those who stay keep their order.
LEMMA WithoutLeads == ASSUME NEW X, NEW seq \in Seq(X), NEW names, NEW front, Leads(seq, front)
  PROVE  Leads(Without(seq, names), front)
<1> DEFINE S == DOMAIN seq
           g == CHOOSE iter : Leaves(seq, names, iter)
           Places(T) == {seq[i] : i \in T}
           Fine(T, s) == s \in Seq(X) /\ Elements(s) \subseteq Places(T) /\ Leads(s, front)
           Q == {T \in SUBSET S : Fine(T, g[T])}
<1>1. Leaves(seq, names, g)
  BY LeavesChosen
<1> HIDE DEF g
<1>2. ASSUME NEW T \in SUBSET S, \A x \in T : T \ {x} \in Q PROVE T \in Q
  <2>1. CASE T = {}
    <3>1. g[T] = <<>>
      BY <1>1, <2>1 DEF Leaves
    <3>2. <<>> \in Seq(X) /\ 1..Len(<<>>) = {}
      OBVIOUS
    <3>3. Leads(<<>>, front) /\ Elements(<<>>) = {}
      BY <3>2 DEF Leads, Elements
    <3> QED
      BY <2>1, <3>1, <3>2, <3>3
  <2>2. CASE T # {}
    <3> DEFINE m == Max(T)
               r == g[T \ {m}]
    <3>1. m \in T /\ \A y \in T : y <= m
      <4>1. T \subseteq Nat /\ Len(seq) \in Nat /\ \A y \in T : y <= Len(seq)
        OBVIOUS
      <4> QED
        BY <2>2, <4>1, GreatestOf
    <3>2. g[T] = IF seq[m] \in names THEN r ELSE Append(r, seq[m])
      BY <1>1, <2>2 DEF Leaves
    <3>3. Fine(T \ {m}, r)
      BY <1>2, <3>1
    <3> HIDE DEF m, r
    <3>4. Places(T) = Places(T \ {m}) \cup {seq[m]} /\ seq[m] \in X
      BY <3>1
    <3>5. seq[m] \in front => Places(T \ {m}) \subseteq front
      <4> SUFFICES ASSUME seq[m] \in front, NEW y \in T \ {m} PROVE seq[y] \in front
        OBVIOUS
      <4>1. y < m /\ y \in 1..Len(seq) /\ m \in 1..Len(seq)
        BY <3>1
      <4> QED
        BY <4>1 DEF Leads
    <3>6. CASE seq[m] \in names
      BY <3>2, <3>3, <3>4, <3>6
    <3>7. CASE seq[m] \notin names
      <4>1. seq[m] \in front => Elements(r) \subseteq front
        BY <3>3, <3>5
      <4>2. Leads(Append(r, seq[m]), front)
        BY <3>3, <4>1, LeadsAppend
      <4>3. Append(r, seq[m]) \in Seq(X) /\ Elements(Append(r, seq[m])) \subseteq Elements(r) \cup {seq[m]}
        <5>1. r \in Seq(X)
          BY <3>3
        <5> HIDE DEF Fine, Places
        <5> QED
          BY <3>4, <5>1 DEF Elements
      <4>4. g[T] = Append(r, seq[m])
        BY <3>2, <3>7
      <4> QED
        BY <3>3, <3>4, <4>2, <4>3, <4>4
    <3> QED
      BY <3>6, <3>7
  <2> QED
    BY <2>1, <2>2
<1>3. S \in Q
  <2>1. IsFiniteSet(S)
    BY FS_Interval
  <2> HIDE DEF Q, S
  <2> QED
    BY <1>2, <2>1, InductionOnSubsets
<1>4. Without(seq, names) = g[S]
  BY WithoutIsChosen DEF g
<1> QED
  BY <1>3, <1>4

\* An element before the others.
LEMMA DistinctPrepend == ASSUME NEW X, NEW seq \in Seq(X), Distinct(seq), NEW x \in X, x \notin Elements(seq)
  PROVE  /\ <<x>> \o seq \in Seq(X) /\ Distinct(<<x>> \o seq) /\ Elements(<<x>> \o seq) = Elements(seq) \cup {x}
         /\ \A front : Leads(seq, front) => Leads(<<x>> \o seq, front \cup {x})
<1> DEFINE more == <<x>> \o seq
<1>1. /\ more \in Seq(X) /\ Len(more) = Len(seq) + 1 /\ Len(seq) \in Nat
      /\ \A i \in 2..(Len(seq) + 1) : more[i] = seq[i - 1]
      /\ more[1] = x
  OBVIOUS
<1> HIDE DEF more
<1>2. \A i \in 1..(Len(seq) + 1) : i = 1 \/ (i \in 2..(Len(seq) + 1) /\ i - 1 \in 1..Len(seq))
  BY <1>1
<1>3. \A i \in 1..Len(seq) : seq[i] # x /\ i + 1 \in 2..(Len(seq) + 1) /\ more[i + 1] = seq[i]
  BY <1>1 DEF Elements
<1>4. Distinct(more)
  <2> SUFFICES ASSUME NEW i \in 1..Len(more), NEW j \in 1..Len(more), more[i] = more[j] PROVE i = j
    BY DEF Distinct
  <2>1. CASE i = 1
    BY <1>1, <1>2, <1>3, <2>1
  <2>2. CASE j = 1 /\ i # 1
    <3>1. i - 1 \in 1..Len(seq) /\ more[i] = seq[i - 1] /\ seq[i - 1] # x
      BY <1>1, <1>2, <1>3, <2>2
    <3> QED
      BY <1>1, <2>2, <3>1
  <2>3. CASE i # 1 /\ j # 1
    <3>1. i - 1 \in 1..Len(seq) /\ j - 1 \in 1..Len(seq) /\ seq[i - 1] = seq[j - 1]
      BY <1>1, <1>2, <2>3
    <3>2. i - 1 = j - 1
      BY <3>1 DEF Distinct
    <3> QED
      BY <3>2
  <2> QED
    BY <2>1, <2>2, <2>3
<1>5. Elements(more) = Elements(seq) \cup {x}
  <2>1. \A y \in Elements(more) : y \in Elements(seq) \cup {x}
    BY <1>1, <1>2 DEF Elements
  <2>2. \A i \in 1..Len(seq) : i + 1 \in 1..Len(more) /\ more[i + 1] = seq[i]
    BY <1>1, <1>3
  <2>3. 1 \in 1..Len(more)
    BY <1>1
  <2>4. x \in Elements(more)
    BY <1>1, <2>3 DEF Elements
  <2>5. \A y \in Elements(seq) : y \in Elements(more)
    BY <2>2 DEF Elements
  <2> QED
    BY <2>1, <2>4, <2>5
<1>6. ASSUME NEW front, Leads(seq, front) PROVE Leads(more, front \cup {x})
  <2> SUFFICES ASSUME NEW i \in 1..Len(more), NEW j \in 1..Len(more), i < j, more[j] \in front \cup {x}
               PROVE  more[i] \in front \cup {x}
    BY DEF Leads
  <2>1. j - 1 \in 1..Len(seq) /\ more[j] = seq[j - 1] /\ seq[j - 1] # x
    BY <1>1, <1>2, <1>3
  <2>2. CASE i = 1
    BY <1>1, <2>2
  <2>3. CASE i # 1
    <3>1. i - 1 \in 1..Len(seq) /\ more[i] = seq[i - 1] /\ i - 1 < j - 1
      BY <1>1, <1>2, <2>1, <2>3
    <3> QED
      BY <1>6, <2>1, <3>1 DEF Leads
  <2> QED
    BY <2>2, <2>3
<1> QED
  BY <1>1, <1>4, <1>5, <1>6 DEF more

\* The first of a sequence.
LEMMA FirstOf == ASSUME NEW X, NEW seq \in Seq(X), Distinct(seq), NEW n \in 0..Len(seq)
  PROVE  LET first == SubSeq(seq, 1, n) IN
         /\ first \in Seq(X) /\ Distinct(first) /\ Elements(first) = {seq[i] : i \in 1..n}
         /\ \A front : Leads(seq, front) => Leads(first, front)
<1> DEFINE first == SubSeq(seq, 1, n)
<1>1. Len(seq) \in Nat /\ n \in Nat /\ n <= Len(seq)
  OBVIOUS
<1>2. first \in Seq(X) /\ Len(first) = n /\ \A i \in 1..n : first[i] = seq[i]
  <2>1. CASE n = 0
    BY <2>1
  <2>2. CASE n # 0
    BY <1>1, <2>2
  <2> QED
    BY <2>1, <2>2
<1>3. \A i \in 1..n : i \in 1..Len(seq)
  BY <1>1
<1> HIDE DEF first
<1>4. Distinct(first)
  BY <1>2, <1>3 DEF Distinct
<1>5. Elements(first) = {seq[i] : i \in 1..n}
  BY <1>2 DEF Elements
<1>6. \A front : Leads(seq, front) => Leads(first, front)
  BY <1>2, <1>3 DEF Leads
<1> QED
  BY <1>2, <1>4, <1>5, <1>6 DEF first

\* A total of so many numbers is at most so many times the largest.
LEMMA SumBound == ASSUME NEW w, NEW S, IsFiniteSet(S), NEW most \in Nat, \A x \in S : w[x] \in Int /\ w[x] <= most
  PROVE  SumFunctionOnSet(w, S) <= Cardinality(S) * most
<1> DEFINE Q == {T \in SUBSET S : SumFunctionOnSet(w, T) <= Cardinality(T) * most}
<1>1. ASSUME NEW T \in SUBSET S, \A x \in T : T \ {x} \in Q PROVE T \in Q
  <2>1. CASE T = {}
    <3>1. SumFunctionOnSet(w, T) = 0 /\ Cardinality(T) = 0
      BY <2>1, SumOfNone, FS_EmptySet
    <3> QED
      BY <3>1
  <2>2. CASE T # {}
    <3>1. PICK x \in T : TRUE
      BY <2>2
    <3> DEFINE c == Cardinality(T \ {x})
               s == SumFunctionOnSet(w, T \ {x})
    <3>2. IsFiniteSet(T) /\ IsFiniteSet(T \ {x})
      BY FS_Subset
    <3>3. SumFunctionOnSet(w, T) = w[x] + s
      BY <3>1, <3>2, SumWithout
    <3>4. c \in Nat /\ Cardinality(T) = c + 1
      BY <3>1, <3>2, FS_RemoveElement, FS_CardinalityType
    <3>5. s \in Int
      <4> DEFINE numbers == Int
      <4>1. \A y \in T \ {x} : w[y] \in numbers
        OBVIOUS
      <4>2. numbers \in {Int, Nat}
        OBVIOUS
      <4> HIDE DEF numbers
      <4>3. s \in numbers
        BY <3>2, <4>1, <4>2, SumType
      <4> QED
        BY <4>3 DEF numbers
    <3>6. s <= c * most
      BY <1>1, <3>1
    <3>7. w[x] \in Int /\ w[x] <= most
      BY <3>1
    <3> HIDE DEF c, s
    <3>8. w[x] + s <= (c + 1) * most
      BY <3>4, <3>5, <3>6, <3>7
    <3> QED
      BY <3>3, <3>4, <3>8
  <2> QED
    BY <2>1, <2>2
<1> HIDE DEF Q
<1>2. S \in Q
  BY <1>1, InductionOnSubsets
<1> QED
  BY <1>2 DEF Q

\* A resident set: the list of recency is the set, the bytes are the set's.
Consistent(set) == /\ set.tiles \subseteq Nat /\ set.order \in Seq(Nat)
                   /\ Distinct(set.order) /\ Elements(set.order) = set.tiles
                   /\ set.bytes = SumFunctionOnSet(FramesOf, set.tiles)

\* A tile has no more frames than a full one.
LEMMA FramesType == FramesOf \in [Nat -> Int] /\ \A t \in Nat : FramesOf[t] <= TileFrames
<1>1. \A t \in Nat : t * TileFrames \in Int
  BY TilesAssumption
<1> QED
  BY <1>1, TilesAssumption DEF FramesOf, Smaller

\* The frames of some tiles are a number.
LEMMA TotalType == ASSUME NEW S \in SUBSET Nat, IsFiniteSet(S) PROVE SumFunctionOnSet(FramesOf, S) \in Int
<1> DEFINE numbers == Int
<1>1. \A y \in S : FramesOf[y] \in numbers
  BY FramesType
<1>2. numbers \in {Int, Nat}
  OBVIOUS
<1> HIDE DEF numbers
<1>3. SumFunctionOnSet(FramesOf, S) \in numbers
  BY <1>1, <1>2, SumType
<1> QED
  BY <1>3 DEF numbers

\* Eviction keeps the account, keeps to the limit where it can, and takes the least recent.
LEMMA EvictKeeps ==
  ASSUME NEW set, Consistent(set), NEW limit \in Int, NEW front, Leads(set.order, front)
  PROVE  LET r == EvictTo(set, limit) IN
         /\ Consistent(r) /\ r.tiles \subseteq set.tiles /\ Leads(r.order, front)
         /\ limit >= 0 => r.bytes <= limit
         /\ front \subseteq set.tiles /\ SumFunctionOnSet(FramesOf, front) <= limit => front \subseteq r.tiles
<1> DEFINE seq == set.order
           MostRecent(n) == {seq[i] : i \in 1..n}
           Total(S) == SumFunctionOnSet(FramesOf, S)
           Bytes(n) == set.bytes - Total(set.tiles \ MostRecent(n))
           Few == {0} \cup {n \in 0..Len(seq) : Bytes(n) <= limit}
           kept == Max(Few)
           r == [tiles |-> MostRecent(kept), order |-> SubSeq(seq, 1, kept), bytes |-> Bytes(kept)]
<1>1. EvictTo(set, limit) = r
  BY DEF EvictTo
<1>2. seq \in Seq(Nat) /\ Distinct(seq) /\ Elements(seq) = set.tiles /\ set.bytes = Total(set.tiles) /\ set.tiles \subseteq Nat
  BY DEF Consistent
<1>3. Len(seq) \in Nat /\ IsFiniteSet(set.tiles)
  BY <1>2, DistinctCount
<1>4. ASSUME NEW n \in 0..Len(seq) PROVE MostRecent(n) \subseteq set.tiles /\ Bytes(n) = Total(MostRecent(n)) /\ Bytes(n) \in Int
  <2>1. \A i \in 1..n : i \in 1..Len(seq)
    BY <1>3
  <2>2. MostRecent(n) \subseteq set.tiles
    BY <1>2, <2>1 DEF Elements
  <2> DEFINE part == MostRecent(n)
             rest == set.tiles \ part
             all == set.tiles
  <2>3. part \in SUBSET all /\ rest \in SUBSET all /\ rest = all \ part
    BY <2>2
  <2>4. IsFiniteSet(part) /\ IsFiniteSet(rest)
    BY <1>3, <2>3, FS_Subset
  <2> HIDE DEF part, rest, all
  <2>5. \A x \in all : FramesOf[x] \in Int
    BY <1>2, FramesType DEF all
  <2>6. SumFunctionOnSet(FramesOf, all) = SumFunctionOnSet(FramesOf, part) + SumFunctionOnSet(FramesOf, all \ part)
    BY <1>3, <2>3, <2>5, SumOfParts DEF all
  <2>7. SumFunctionOnSet(FramesOf, part) \in Int /\ SumFunctionOnSet(FramesOf, rest) \in Int
    BY <1>2, <2>3, <2>4, TotalType DEF all
  <2>8. set.bytes = SumFunctionOnSet(FramesOf, all)
    BY <1>2 DEF all
  <2>9. set.bytes - SumFunctionOnSet(FramesOf, rest) = SumFunctionOnSet(FramesOf, part)
    BY <2>3, <2>6, <2>7, <2>8
  <2> QED
    BY <2>2, <2>7, <2>9 DEF part, rest, all
<1>5. kept \in Few /\ \A n \in Few : n <= kept
  <2>1. Few \subseteq Nat /\ Few # {} /\ \A n \in Few : n <= Len(seq)
    BY <1>3
  <2> HIDE DEF Few
  <2> QED
    BY <1>3, <2>1, GreatestOf
<1>6. kept \in 0..Len(seq)
  BY <1>3, <1>5
<1>7. /\ SubSeq(seq, 1, kept) \in Seq(Nat) /\ Distinct(SubSeq(seq, 1, kept)) /\ Elements(SubSeq(seq, 1, kept)) = MostRecent(kept)
      /\ Leads(SubSeq(seq, 1, kept), front)
  <2> HIDE DEF kept, Few, seq
  <2> QED
    BY <1>2, <1>6, FirstOf DEF seq
<1>8. Consistent(r)
  <2> HIDE DEF kept
  <2>1. MostRecent(kept) \subseteq set.tiles /\ Bytes(kept) = Total(MostRecent(kept))
    BY <1>4, <1>6
  <2> HIDE DEF MostRecent, Bytes, seq
  <2> QED
    BY <1>2, <1>7, <2>1 DEF Consistent
<1>9. ASSUME limit >= 0 PROVE Bytes(kept) <= limit
  <2>1. MostRecent(0) = {} /\ 0 \in 0..Len(seq)
    BY <1>3
  <2>2. Bytes(0) = 0
    <3>1. Bytes(0) = Total(MostRecent(0))
      BY <1>4, <2>1
    <3> QED
      BY <2>1, <3>1, SumOfNone
  <2>3. 0 \in {n \in 0..Len(seq) : Bytes(n) <= limit}
    <3> HIDE DEF Bytes
    <3> QED
      BY <1>9, <2>1, <2>2
  <2>4. kept \in {n \in 0..Len(seq) : Bytes(n) <= limit}
    <3> HIDE DEF kept, Bytes
    <3> QED
      BY <1>5, <2>3
  <2> HIDE DEF kept, Bytes
  <2> QED
    BY <2>4
<1>10. ASSUME front \subseteq set.tiles, SumFunctionOnSet(FramesOf, front) <= limit PROVE front \subseteq MostRecent(kept)
  <2> DEFINE Ours == {0} \cup {i \in 1..Len(seq) : seq[i] \in front}
             k == Max(Ours)
  <2>1. k \in Ours /\ \A i \in Ours : i <= k
    <3>1. Ours \subseteq Nat /\ Ours # {} /\ \A n \in Ours : n <= Len(seq)
      BY <1>3
    <3> HIDE DEF Ours
    <3> QED
      BY <1>3, <3>1, GreatestOf
  <2> HIDE DEF k
  <2>2. k \in 0..Len(seq)
    BY <1>3, <2>1
  <2>3. MostRecent(k) \subseteq front
    <3> SUFFICES ASSUME NEW i \in 1..k PROVE seq[i] \in front
      OBVIOUS
    <3>1. k \in 1..Len(seq) /\ seq[k] \in front /\ i \in 1..Len(seq)
      BY <1>3, <2>1, <2>2
    <3>2. CASE i = k
      BY <3>1, <3>2
    <3>3. CASE i < k
      BY <3>1, <3>3 DEF Leads
    <3> QED
      BY <2>2, <3>2, <3>3
  <2>4. front \subseteq MostRecent(k)
    <3> SUFFICES ASSUME NEW x \in front PROVE x \in MostRecent(k)
      OBVIOUS
    <3>1. PICK i \in 1..Len(seq) : seq[i] = x
      BY <1>2, <1>10 DEF Elements
    <3>2. i \in Ours
      BY <3>1
    <3>3. i <= k
      BY <2>1, <3>2
    <3>4. i \in 1..k
      BY <1>3, <2>2, <3>3
    <3> QED
      BY <3>1, <3>4
  <2>5. MostRecent(k) = front
    BY <2>3, <2>4
  <2>6. Bytes(k) <= limit
    <3>1. Bytes(k) = Total(MostRecent(k))
      BY <1>4, <2>2
    <3>2. Total(MostRecent(k)) = Total(front)
      BY <2>5
    <3> HIDE DEF Bytes, MostRecent
    <3> QED
      BY <1>10, <3>1, <3>2
  <2>7. k \in Few
    <3> HIDE DEF Bytes
    <3> QED
      BY <2>2, <2>6
  <2>8. k <= kept
    <3> HIDE DEF Few, kept
    <3> QED
      BY <1>5, <2>7
  <2> HIDE DEF kept
  <2>9. \A i \in 1..k : i \in 1..kept
    BY <1>3, <1>6, <2>2, <2>8
  <2>10. MostRecent(k) \subseteq MostRecent(kept)
    BY <2>9
  <2> QED
    BY <2>5, <2>10
<1>11. MostRecent(kept) \subseteq set.tiles
  <2> HIDE DEF kept
  <2> QED
    BY <1>4, <1>6
<1>12. r.tiles = MostRecent(kept) /\ r.order = SubSeq(seq, 1, kept) /\ r.bytes = Bytes(kept)
  <2> HIDE DEF kept, MostRecent, Bytes
  <2> QED
    OBVIOUS
<1>13. /\ Consistent(r) /\ r.tiles \subseteq set.tiles /\ Leads(r.order, front)
       /\ limit >= 0 => r.bytes <= limit
       /\ front \subseteq set.tiles /\ SumFunctionOnSet(FramesOf, front) <= limit => front \subseteq r.tiles
  <2> HIDE DEF kept, MostRecent, Bytes, r, seq
  <2> QED
    BY <1>7, <1>8, <1>9, <1>10, <1>11, <1>12
<1> HIDE DEF r
<1> QED
  BY <1>1, <1>13

\* The greater of two numbers.
LEMMA GreaterOfTwo == ASSUME NEW a \in Int, NEW b \in Int
  PROVE  Max({a, b}) \in {a, b} /\ Max({a, b}) >= a /\ Max({a, b}) >= b
<1>1. \E x \in {a, b} : \A y \in {a, b} : x >= y
  <2>1. CASE a >= b
    BY <2>1
  <2>2. CASE b >= a
    BY <2>2
  <2> QED
    BY <2>1, <2>2
<1>2. Max({a, b}) \in {a, b} /\ \A y \in {a, b} : Max({a, b}) >= y
  BY <1>1 DEF Max
<1> QED
  BY <1>2

\* What a range asks for is tiles of the source, one after the other.
LEMMA WantedTiles == ASSUME NEW view \in Views
  PROVE  /\ Wanted(view) \subseteq Nat /\ IsFiniteSet(Wanted(view))
         /\ \A t \in Wanted(view) : t < FineFrames
         /\ \A t \in Wanted(view) : t + 1 \in Wanted(view) \/ \A u \in Wanted(view) : u <= t
<1>1. view[1] \in Nat /\ view[2] \in Nat
  BY PicturesAssumption
<1> DEFINE a == view[1] \div HopSize - 1
           b == view[2] \div HopSize + 1
           first == FirstFrame(view)
           last == LastFrame(view)
<1>2. a \in Int /\ b \in Int
  BY <1>1, TilesAssumption
<1>3. first \in Nat
  <2> HIDE DEF a
  <2> DEFINE zero == 0
  <2>3. zero \in Int
    OBVIOUS
  <2> HIDE DEF zero
  <2>4. Max({zero, a}) \in {zero, a} /\ Max({zero, a}) >= zero
    BY <1>2, <2>3, GreaterOfTwo
  <2>1. Max({0, a}) \in {0, a} /\ Max({0, a}) >= 0
    BY <2>4 DEF zero
  <2>2. first = Max({0, a})
    BY DEF FirstFrame, a
  <2> QED
    BY <1>2, <2>1, <2>2
<1>4. last \in Int /\ last <= FineFrames - 1
  BY <1>2, TilesAssumption DEF LastFrame, Smaller
<1> HIDE DEF first, last
<1> DEFINE p == first \div TileFrames
           q == last \div TileFrames
<1>5. p \in Nat /\ q \in Int
  BY <1>3, <1>4, TilesAssumption
<1>6. Wanted(view) = {} \/ (Wanted(view) = p..q /\ last >= first)
  BY <1>3, <1>4 DEF Wanted, first, last
<1>7. last >= first => q <= FineFrames - 1
  <2>1. last >= 0 /\ TileFrames \in Nat \ {0} => last \div TileFrames <= last
    BY <1>4
  <2> QED
    BY <1>3, <1>4, <2>1, TilesAssumption
<1> HIDE DEF p, q
<1>8. IsFiniteSet(Wanted(view))
  <2>1. IsFiniteSet(p..q)
    BY <1>5, FS_Interval
  <2> QED
    BY <1>6, <2>1, FS_EmptySet
<1>9. \A t \in p..q : t \in Nat /\ (t + 1 \in p..q \/ t = q)
  BY <1>5
<1>10. \A t \in p..q : t <= q
  BY <1>5
<1> QED
  BY <1>5, <1>6, <1>7, <1>8, <1>9, <1>10, TilesAssumption

Passed(f) == {t \in Wanted(f.view) : t < f.next}
Affordable(view) == WantedBytes(view) <= DetailBudget

\* A fetch: the tile it has analysed is not in yet, and the tiles it has come to
\* are resident, the most recently used of all.
Fetching(f, ts, seq) ==
  /\ f \in [view : Views, next : Nat, analysed : {None} \cup Nat, kept : BOOLEAN]
  /\ f.analysed # None => f.analysed = f.next /\ f.next \in Wanted(f.view) /\ f.next \notin ts
  /\ f.next \in Wanted(f.view) \/ Passed(f) = Wanted(f.view)
  /\ f.kept /\ Affordable(f.view) => Passed(f) \subseteq ts /\ Leads(seq, Passed(f))

DetailInv ==
  /\ Consistent(Resident) /\ residentBytes <= DetailBudget
  /\ fetch # None => Fetching(fetch, tiles, order) /\ fetched = None
  /\ fetched # None => fetched \in Views /\ (Affordable(fetched) => Wanted(fetched) \subseteq tiles)

\* No tile is resident at first.
LEMMA DetailInitHolds == ASSUME TilesInit PROVE DetailInv
<1>1. /\ tiles = {} /\ order = <<>> /\ residentBytes = 0 /\ fetch = None /\ fetched = None
  BY DEF TilesInit
<1>2. order \in Seq(Nat) /\ Len(order) = 0 /\ 1..Len(order) = {}
  BY <1>1
<1>3. SumFunctionOnSet(FramesOf, {}) = 0
  BY SumOfNone
<1>4. Resident = [tiles |-> {}, order |-> order, bytes |-> 0]
  BY <1>1 DEF Resident
<1>5. Consistent(Resident)
  BY <1>2, <1>3, <1>4 DEF Consistent, Distinct, Elements
<1> QED
  BY <1>1, <1>5, TilesAssumption DEF DetailInv

\* What the resident set is.
LEMMA ResidentIs == ASSUME Consistent(Resident)
  PROVE  /\ tiles \subseteq Nat /\ order \in Seq(Nat) /\ Distinct(order) /\ Elements(order) = tiles
         /\ residentBytes = SumFunctionOnSet(FramesOf, tiles) /\ IsFiniteSet(tiles) /\ residentBytes \in Int
<1>1. /\ tiles \subseteq Nat /\ order \in Seq(Nat) /\ Distinct(order) /\ Elements(order) = tiles
      /\ residentBytes = SumFunctionOnSet(FramesOf, tiles)
  BY DEF Consistent, Resident
<1>2. IsFiniteSet(tiles)
  BY <1>1, DistinctCount
<1> QED
  BY <1>1, <1>2, TotalType

\* While the tiles stay as they are, so does what is said of them.
LEMMA TilesStay ==
  ASSUME DetailInv, UNCHANGED <<tiles, order, residentBytes>>,
         fetch' = None \/ (fetch' # None /\ Fetching(fetch', tiles, order) /\ fetched' = None),
         fetched' = None \/ (fetched' \in Views /\ (Affordable(fetched') => Wanted(fetched') \subseteq tiles)),
         fetch' = None \/ fetched' = None
  PROVE  DetailInv'
<1>1. Consistent(Resident)' /\ residentBytes' <= DetailBudget
  BY DEF DetailInv, Consistent, Resident
<1>2. fetch' # None => Fetching(fetch', tiles', order') /\ fetched' = None
  OBVIOUS
<1>3. fetched' # None => fetched' \in Views /\ (Affordable(fetched') => Wanted(fetched') \subseteq tiles')
  OBVIOUS
<1> QED
  BY <1>1, <1>2, <1>3 DEF DetailInv, Affordable, Wanted, WantedBytes

\* One lemma for each action. A fetch begins with the first tile it wants.
LEMMA ensureDetailKeeps == ASSUME DetailInv, NEW view \in Views, ensureDetail(view) PROVE DetailInv'
<1> DEFINE W == Wanted(view)
           first == Min(W \cup {FineFrames})
           f == [view |-> view, next |-> first, analysed |-> None, kept |-> TRUE]
<1>1. fetch' = f /\ fetched' = None /\ UNCHANGED <<tiles, order, residentBytes>>
  BY DEF ensureDetail, Unseen
<1>2. W \subseteq Nat /\ \A t \in W : t < FineFrames
  BY WantedTiles
<1>3. first \in W \cup {FineFrames} /\ \A t \in W \cup {FineFrames} : first <= t
  <2>1. W \cup {FineFrames} \subseteq Nat /\ W \cup {FineFrames} # {}
    BY <1>2, TilesAssumption
  <2> HIDE DEF W
  <2> QED
    BY <2>1, LeastOf
<1> HIDE DEF first
<1>4. first \in Nat
  BY <1>2, <1>3, TilesAssumption
<1>5. {t \in W : t < first} = {}
  BY <1>2, <1>3, <1>4
<1>6. first \in W \/ W = {}
  BY <1>2, <1>3, <1>4, TilesAssumption
<1>7. /\ f \in [view : Views, next : Nat, analysed : {None} \cup Nat, kept : BOOLEAN]
      /\ f.view = view /\ f.next = first /\ f.analysed = None
  BY <1>4
<1> HIDE DEF f
<1>8. Passed(f) = {}
  BY <1>5, <1>7 DEF Passed
<1>9. Fetching(f, tiles, order)
  BY <1>6, <1>7, <1>8 DEF Fetching, Leads
<1>10. fetch' # None => Fetching(fetch', tiles, order) /\ fetched' = None
  BY <1>1, <1>9
<1> QED
  BY <1>1, <1>10, TilesStay

\* One tile further.
LEMMA NextTile ==
  ASSUME NEW f, NEW ts, NEW seq, Fetching(f, ts, seq), f.next \in Wanted(f.view),
         NEW later, NEW place,
         f.kept /\ Affordable(f.view) => Passed(f) \cup {f.next} \subseteq later /\ Leads(place, Passed(f) \cup {f.next}),
         NEW g, g = [f EXCEPT !.next = f.next + 1, !.analysed = None]
  PROVE  Fetching(g, later, place)
<1>1. /\ g \in [view : Views, next : Nat, analysed : {None} \cup Nat, kept : BOOLEAN]
      /\ g.view = f.view /\ g.next = f.next + 1 /\ g.analysed = None /\ g.kept = f.kept /\ f.view \in Views /\ f.next \in Nat
  <2> DEFINE A == {None} \cup Nat
             n == f.next + 1
  <2>1. f \in [view : Views, next : Nat, analysed : A, kept : BOOLEAN] /\ n \in Nat /\ None \in A
    BY DEF Fetching
  <2>2. g = [f EXCEPT !.next = n, !.analysed = None]
    OBVIOUS
  <2> HIDE DEF A, n
  <2>3. /\ g \in [view : Views, next : Nat, analysed : A, kept : BOOLEAN]
        /\ g.view = f.view /\ g.next = n /\ g.analysed = None /\ g.kept = f.kept /\ f.view \in Views /\ f.next \in Nat
    BY <2>1, <2>2
  <2> QED
    BY <2>3 DEF A, n
<1>2. Wanted(f.view) \subseteq Nat
  BY <1>1, WantedTiles
<1>3. Passed(g) = Passed(f) \cup {f.next}
  BY <1>1, <1>2 DEF Passed
<1>4. f.next + 1 \in Wanted(f.view) \/ \A u \in Wanted(f.view) : u <= f.next
  BY <1>1, WantedTiles
<1>5. g.next \in Wanted(g.view) \/ Passed(g) = Wanted(g.view)
  BY <1>1, <1>2, <1>4 DEF Passed
<1> QED
  BY <1>1, <1>3, <1>5 DEF Fetching

\* A tile that is there moves to the front.
LEMMA touchKeeps == ASSUME DetailInv, touch PROVE DetailInv'
<1> DEFINE t == fetch.next
           left == Without(order, {t})
           new == <<t>> \o left
<1>1. /\ fetch # None /\ t \in Wanted(fetch.view) /\ fetch.analysed = None /\ t \in tiles
      /\ order' = new /\ fetch' = [fetch EXCEPT !.next = t + 1]
      /\ UNCHANGED <<tiles, residentBytes, fetched>>
  BY DEF touch, Unseen
<1>2. Fetching(fetch, tiles, order) /\ fetched = None /\ Consistent(Resident) /\ residentBytes <= DetailBudget
  BY <1>1 DEF DetailInv
<1>3. /\ tiles \subseteq Nat /\ order \in Seq(Nat) /\ Distinct(order) /\ Elements(order) = tiles
      /\ residentBytes = SumFunctionOnSet(FramesOf, tiles)
  BY <1>2, ResidentIs
<1>4. t \in Nat
  BY <1>1, <1>3
<1> HIDE DEF t
<1>5. left \in Seq(Nat) /\ Distinct(left) /\ Elements(left) = tiles \ {t}
  BY <1>3, WithoutKeeps
<1>6. \A front : Leads(order, front) => Leads(left, front)
  BY <1>3, WithoutLeads
<1> HIDE DEF left
<1>7. /\ new \in Seq(Nat) /\ Distinct(new) /\ Elements(new) = Elements(left) \cup {t}
      /\ \A front : Leads(left, front) => Leads(new, front \cup {t})
  <2>1. t \notin Elements(left)
    BY <1>5
  <2> QED
    BY <1>4, <1>5, <2>1, DistinctPrepend
<1> HIDE DEF new
<1>8. Elements(new) = tiles
  BY <1>1, <1>5, <1>7
<1>9. Consistent(Resident)'
  BY <1>1, <1>3, <1>7, <1>8 DEF Consistent, Resident
<1>10. fetch.kept /\ Affordable(fetch.view) => Passed(fetch) \cup {t} \subseteq tiles /\ Leads(new, Passed(fetch) \cup {t})
  BY <1>1, <1>2, <1>6, <1>7 DEF Fetching
<1>11. fetch' = [fetch EXCEPT !.next = fetch.next + 1, !.analysed = None]
  BY <1>1, <1>2 DEF Fetching, t
<1>12. Fetching(fetch', tiles, new)
  BY <1>1, <1>2, <1>10, <1>11, NextTile DEF t
<1> QED
  BY <1>1, <1>2, <1>9, <1>12 DEF DetailInv

\* One that is not is analysed, while others may come and go.
LEMMA analyseTileKeeps == ASSUME DetailInv, analyseTile PROVE DetailInv'
<1>1. /\ fetch # None /\ fetch.next \in Wanted(fetch.view) /\ fetch.next \notin tiles
      /\ fetch' = [fetch EXCEPT !.analysed = fetch.next] /\ UNCHANGED <<tiles, order, residentBytes, fetched>>
  BY DEF analyseTile, Unseen
<1>2. Fetching(fetch, tiles, order) /\ fetched = None
  BY <1>1 DEF DetailInv
<1>3. /\ fetch' \in [view : Views, next : Nat, analysed : {None} \cup Nat, kept : BOOLEAN]
      /\ fetch'.view = fetch.view /\ fetch'.next = fetch.next /\ fetch'.analysed = fetch.next /\ fetch'.kept = fetch.kept
  BY <1>1, <1>2 DEF Fetching
<1>4. Passed(fetch') = Passed(fetch)
  BY <1>3 DEF Passed
<1>5. Fetching(fetch', tiles, order)
  BY <1>1, <1>2, <1>3, <1>4 DEF Fetching
<1>6. fetch' # None => Fetching(fetch', tiles, order) /\ fetched' = None
  BY <1>1, <1>2, <1>5
<1> QED
  BY <1>1, <1>2, <1>6, TilesStay

\* Room is made, the tile is put in front, and what the fetch came by before it stays.
LEMMA insertTileKeeps == ASSUME DetailInv, insertTile PROVE DetailInv'
<1> DEFINE t == fetch.analysed
           view == fetch.view
           front == Passed(fetch)
           limit == IF DetailBudget > Smaller(WantedBytes(view), DetailBudget) THEN DetailBudget - FramesOf[t] ELSE DetailBudget
           room == EvictTo(Resident, limit)
           more == [tiles |-> room.tiles \cup {t}, order |-> <<t>> \o room.order, bytes |-> room.bytes + FramesOf[t]]
           last == EvictTo(more, DetailBudget)
<1>1. /\ fetch # None /\ t # None /\ Keep(last) /\ fetch' = [fetch EXCEPT !.next = fetch.next + 1, !.analysed = None]
      /\ UNCHANGED fetched
  BY DEF insertTile, Inserted, Unseen
<1>2. Fetching(fetch, tiles, order) /\ fetched = None /\ Consistent(Resident)
  BY <1>1 DEF DetailInv
<1>3. t = fetch.next /\ t \in Wanted(view) /\ t \notin tiles /\ view \in Views
  BY <1>1, <1>2 DEF Fetching
<1>4. Wanted(view) \subseteq Nat /\ IsFiniteSet(Wanted(view))
  BY <1>3, WantedTiles
<1>5. t \in Nat /\ FramesOf[t] \in Int /\ FramesOf[t] <= TileFrames /\ TileFrames \in Nat /\ DetailBudget \in Nat
  BY <1>3, <1>4, FramesType, TilesAssumption
<1>6. front \subseteq Wanted(view) \ {t} /\ front \subseteq Nat
  BY <1>3, <1>4 DEF Passed
<1> DEFINE many == Cardinality(Wanted(view))
           few == Cardinality(front)
<1>7. few \in Nat /\ many \in Nat /\ few + 1 <= many /\ IsFiniteSet(front) /\ WantedBytes(view) = many * TileFrames
  <2>1. IsFiniteSet(Wanted(view) \ {t}) /\ Cardinality(Wanted(view) \ {t}) = many - 1 /\ many \in Nat
    BY <1>3, <1>4, FS_RemoveElement, FS_CardinalityType, FS_Subset
  <2> HIDE DEF front
  <2>2. IsFiniteSet(front) /\ Cardinality(front) <= Cardinality(Wanted(view) \ {t})
    BY <1>6, <2>1, FS_Subset
  <2>3. few \in Nat
    BY <2>2, FS_CardinalityType
  <2> QED
    BY <2>1, <2>2, <2>3 DEF WantedBytes
<1>8. SumFunctionOnSet(FramesOf, front) \in Int /\ SumFunctionOnSet(FramesOf, front) <= few * TileFrames
  <2>1. \A x \in front : FramesOf[x] \in Int /\ FramesOf[x] <= TileFrames
    BY <1>6, FramesType
  <2> HIDE DEF front
  <2> QED
    BY <1>5, <1>6, <1>7, <2>1, SumBound, TotalType
<1> HIDE DEF many, few
<1>9. Affordable(view) => /\ SumFunctionOnSet(FramesOf, front) <= limit
                    /\ SumFunctionOnSet(FramesOf, front) + FramesOf[t] <= DetailBudget
  <2> SUFFICES ASSUME Affordable(view)
               PROVE  /\ SumFunctionOnSet(FramesOf, front) <= limit
                      /\ SumFunctionOnSet(FramesOf, front) + FramesOf[t] <= DetailBudget
    OBVIOUS
  <2>1. few * TileFrames + TileFrames <= many * TileFrames
    BY <1>5, <1>7
  <2>2. many * TileFrames <= DetailBudget /\ many * TileFrames \in Int /\ few * TileFrames \in Int
    BY <1>5, <1>7 DEF Affordable
  <2> DEFINE s == SumFunctionOnSet(FramesOf, front)
  <2> HIDE DEF s, front
  <2>3. s + TileFrames <= DetailBudget
    BY <1>5, <1>8, <2>1, <2>2 DEF s
  <2> QED
    BY <1>5, <1>8, <2>3 DEF s
<1>10. limit \in Int
  BY <1>5
<1> HIDE DEF limit
<1>11. fetch.kept /\ Affordable(view) => front \subseteq tiles /\ Leads(order, front)
  BY <1>2 DEF Fetching
<1> DEFINE ours == IF fetch.kept /\ Affordable(view) THEN front ELSE {}
<1>12. /\ Leads(Resident.order, ours) /\ ours \subseteq tiles
       /\ SumFunctionOnSet(FramesOf, ours) <= limit \/ ~(fetch.kept /\ Affordable(view))
  <2>1. CASE fetch.kept /\ Affordable(view)
    BY <1>9, <1>11, <2>1 DEF Resident
  <2>2. CASE ~(fetch.kept /\ Affordable(view))
    BY <2>2 DEF Leads
  <2> QED
    BY <2>1, <2>2
<1>13. Resident.tiles = tiles
  BY DEF Resident
<1> HIDE DEF ours
<1>14. /\ Consistent(room) /\ room.tiles \subseteq tiles /\ Leads(room.order, ours)
       /\ ours \subseteq tiles /\ SumFunctionOnSet(FramesOf, ours) <= limit => ours \subseteq room.tiles
  BY <1>2, <1>10, <1>12, <1>13, EvictKeeps
<1>15. ours \subseteq room.tiles
  BY <1>12, <1>14 DEF ours
<1> HIDE DEF room
<1>16. /\ room.tiles \subseteq Nat /\ room.order \in Seq(Nat) /\ Distinct(room.order) /\ Elements(room.order) = room.tiles
       /\ room.bytes = SumFunctionOnSet(FramesOf, room.tiles) /\ t \notin room.tiles
  BY <1>3, <1>14 DEF Consistent
<1>17. IsFiniteSet(room.tiles)
  BY <1>16, DistinctCount
<1> DEFINE o == <<t>> \o room.order
           T == room.tiles \cup {t}
           b == room.bytes + FramesOf[t]
<1>18. o \in Seq(Nat) /\ Distinct(o) /\ Elements(o) = T /\ Leads(o, ours \cup {t})
  <2>1. t \notin Elements(room.order)
    BY <1>16
  <2> HIDE DEF t, ours
  <2>2. /\ o \in Seq(Nat) /\ Distinct(o) /\ Elements(o) = Elements(room.order) \cup {t}
        /\ \A fr : Leads(room.order, fr) => Leads(o, fr \cup {t})
    BY <1>5, <1>16, <2>1, DistinctPrepend
  <2> QED
    BY <1>14, <1>16, <2>2
<1>19. b = SumFunctionOnSet(FramesOf, T)
  <2> DEFINE ts == room.tiles
  <2> HIDE DEF t, ts
  <2>1. IsFiniteSet(ts) /\ t \notin ts /\ \A x \in ts \cup {t} : FramesOf[x] \in Int
    BY <1>5, <1>16, <1>17, FramesType DEF ts
  <2>2. SumFunctionOnSet(FramesOf, ts \cup {t}) = SumFunctionOnSet(FramesOf, ts) + FramesOf[t]
    BY <2>1, SumWith
  <2> QED
    BY <1>16, <2>2 DEF ts
<1> HIDE DEF o, b
<1>20. more.tiles = T /\ more.order = o /\ more.bytes = b
  <2> HIDE DEF t
  <2> QED
    BY DEF o, b
<1>21. T \subseteq Nat
  BY <1>5, <1>16
<1> HIDE DEF more, T
<1>22. Consistent(more)
  BY <1>18, <1>19, <1>20, <1>21 DEF Consistent
<1> DEFINE now == ours \cup {t}
<1>23. Leads(more.order, now) /\ now \subseteq more.tiles
  BY <1>15, <1>18, <1>20 DEF T
<1>24. fetch.kept /\ Affordable(view) => SumFunctionOnSet(FramesOf, now) <= DetailBudget
  <2> SUFFICES ASSUME fetch.kept, Affordable(view) PROVE SumFunctionOnSet(FramesOf, now) <= DetailBudget
    OBVIOUS
  <2>1. ours = front
    BY DEF ours
  <2> HIDE DEF t, front
  <2>2. t \notin front /\ IsFiniteSet(front) /\ \A x \in front \cup {t} : FramesOf[x] \in Int
    BY <1>5, <1>6, <1>7, FramesType
  <2>3. SumFunctionOnSet(FramesOf, front \cup {t}) = SumFunctionOnSet(FramesOf, front) + FramesOf[t]
    BY <2>2, SumWith
  <2> QED
    BY <1>9, <2>1, <2>3
<1>25. DetailBudget \in Int /\ DetailBudget >= 0
  BY <1>5
<1> HIDE DEF now
<1>26. /\ Consistent(last) /\ Leads(last.order, now) /\ last.bytes <= DetailBudget
       /\ now \subseteq more.tiles /\ SumFunctionOnSet(FramesOf, now) <= DetailBudget => now \subseteq last.tiles
  BY <1>22, <1>23, <1>25, EvictKeeps
<1> HIDE DEF last
<1>27. /\ tiles' = last.tiles /\ order' = last.order /\ residentBytes' = last.bytes
  BY <1>1 DEF Keep
<1>28. fetch.kept /\ Affordable(view) => front \cup {t} \subseteq last.tiles /\ Leads(last.order, front \cup {t})
  BY <1>23, <1>24, <1>26 DEF now, ours
<1>29. Consistent(Resident)' /\ residentBytes' <= DetailBudget
  <2>1. /\ last.tiles \subseteq Nat /\ last.order \in Seq(Nat)
        /\ Distinct(last.order) /\ Elements(last.order) = last.tiles
        /\ last.bytes = SumFunctionOnSet(FramesOf, last.tiles)
    BY <1>26 DEF Consistent
  <2> QED
    BY <1>26, <1>27, <2>1 DEF Consistent, Resident
<1>30. Fetching(fetch', last.tiles, last.order)
  BY <1>1, <1>2, <1>3, <1>28, NextTile
<1> QED
  BY <1>1, <1>2, <1>27, <1>29, <1>30 DEF DetailInv

\* A fetch has come by all of its tiles.
LEMMA detailFetchedKeeps == ASSUME DetailInv, detailFetched PROVE DetailInv'
<1>1. /\ fetch # None /\ fetch.next \notin Wanted(fetch.view) /\ fetch' = None
      /\ fetched' = (IF fetch.kept THEN fetch.view ELSE None) /\ UNCHANGED <<tiles, order, residentBytes>>
  BY DEF detailFetched, Unseen
<1>2. Fetching(fetch, tiles, order)
  BY <1>1 DEF DetailInv
<1>3. fetch.kept => fetch.view \in Views /\ (Affordable(fetch.view) => Wanted(fetch.view) \subseteq tiles)
  BY <1>1, <1>2 DEF Fetching
<1>4. fetched' = None \/ (fetched' \in Views /\ (Affordable(fetched') => Wanted(fetched') \subseteq tiles))
  BY <1>1, <1>3
<1> QED
  BY <1>1, <1>4, TilesStay

\* No tile is left, and a fetch under way has not kept what it came by.
LEMMA clearDetailKeeps == ASSUME DetailInv, clearDetail PROVE DetailInv'
<1>1. /\ tiles' = {} /\ order' = <<>> /\ residentBytes' = 0 /\ fetched' = None
      /\ fetch' = IF fetch = None THEN None ELSE [fetch EXCEPT !.kept = FALSE]
  BY DEF clearDetail, Keep, Unseen
<1>2. order' \in Seq(Nat) /\ Len(order') = 0 /\ 1..Len(order') = {}
  BY <1>1
<1>3. SumFunctionOnSet(FramesOf, {}) = 0
  BY SumOfNone
<1>4. Consistent(Resident)'
  BY <1>1, <1>2, <1>3 DEF Consistent, Resident, Distinct, Elements
<1>5. ASSUME fetch # None PROVE Fetching(fetch', {}, <<>>)
  <2>1. Fetching(fetch, tiles, order)
    BY <1>5 DEF DetailInv
  <2>2. /\ fetch' \in [view : Views, next : Nat, analysed : {None} \cup Nat, kept : BOOLEAN]
        /\ fetch'.view = fetch.view /\ fetch'.next = fetch.next /\ fetch'.analysed = fetch.analysed /\ fetch'.kept = FALSE
    BY <1>1, <1>5, <2>1 DEF Fetching
  <2>3. Passed(fetch') = Passed(fetch)
    BY <2>2 DEF Passed
  <2> QED
    BY <2>1, <2>2, <2>3 DEF Fetching
<1>6. fetch' # None => Fetching(fetch', tiles', order')
  BY <1>1, <1>5
<1> QED
  BY <1>1, <1>4, <1>6, TilesAssumption DEF DetailInv

\* Every step keeps the invariant of the detail.
LEMMA DetailStepHolds == ASSUME DetailInv, TilesNext PROVE DetailInv'
<1>1. ASSUME NEW view \in Views, ensureDetail(view) PROVE DetailInv'
  BY <1>1, ensureDetailKeeps
<1>2. CASE \/ buildOverview \/ detailGivenUp \/ \E view \in Views : \E columns \in 1..view[2] - view[1] : draw(view, columns)
  <2>1. /\ UNCHANGED <<tiles, order, residentBytes, fetched>> /\ (fetch' = fetch \/ (fetch # None /\ fetch' = None))
    BY <1>2 DEF buildOverview, detailGivenUp, draw, Unseen
  <2> QED
    BY <2>1, TilesStay DEF DetailInv
<1> QED
  BY <1>1, <1>2, touchKeeps, analyseTileKeeps, insertTileKeeps, detailFetchedKeeps, clearDetailKeeps DEF TilesNext

\* ... and so does everything that does not concern it.
LEMMA DetailStutters == ASSUME DetailInv, UNCHANGED tileVars PROVE DetailInv'
<1>1. UNCHANGED <<tiles, order, residentBytes, fetch, fetched>>
  BY DEF tileVars
<1> QED
  BY <1>1, TilesStay DEF DetailInv

\* What the invariant says of the account.
LEMMA DetailInvAddsUp == ASSUME DetailInv PROVE DetailAddsUp
<1>1. /\ tiles \subseteq Nat /\ order \in Seq(Nat) /\ Distinct(order) /\ Elements(order) = tiles
      /\ residentBytes = SumFunctionOnSet(FramesOf, tiles) /\ residentBytes <= DetailBudget
  BY ResidentIs DEF DetailInv
<1>2. Cardinality(Elements(order)) = Len(order) /\ DOMAIN order = 1..Len(order)
  BY <1>1, DistinctCount
<1> QED
  BY <1>1, <1>2 DEF DetailAddsUp, Elements

-----------------------------------------------------------------------------
(* The readers over their decoders (AudioFiles).                             *)

\* A FLAC without a length in its header is read from its beginning after every
\* seek (README, "Seen while modelling"): what follows is of the others.
LengthsAreGiven == \A f \in MediaFiles : f.kind = "flac" => f.claims # 0

\* Where the decoder stands and what the reader makes of it: a reader that never
\* lost its place knows where its decoder is.
DecoderInv ==
  /\ media \in MediaFiles /\ LengthsAreGiven /\ at \in Nat
  /\ reader \in [status : {"unopened", "open", "refused"}, count : Nat, next : Nat, lost : BOOLEAN]
  /\ reader.status = "open" => reader.count = IF Counted THEN media.holds ELSE media.claims
  /\ ~reader.lost /\ reader.status = "open" => at = reader.next
  /\ ReadsStartWhereAsked

\* Before it is opened it has been asked nothing.
LEMMA DecoderInitHolds == ASSUME LengthsAreGiven, DecoderInit PROVE DecoderInv
<1>1. /\ media \in MediaFiles /\ reader = [status |-> "unopened", count |-> 0, next |-> 0, lost |-> FALSE]
      /\ returned = [start |-> 0, wanted |-> 0, frames |-> <<>>, error |-> FALSE]
  BY DEF DecoderInit, Unopened, Unanswered
<1>2. media.holds \in Nat
  BY <1>1, ReaderAssumption
<1>3. Min({0 + 0, media.holds}) = 0
  <2>1. {0 + 0, media.holds} \subseteq Nat /\ 0 \in {0 + 0, media.holds}
    BY <1>2
  <2>2. Min({0 + 0, media.holds}) \in {0 + 0, media.holds} /\ \A y \in {0 + 0, media.holds} : Min({0 + 0, media.holds}) <= y
    BY <2>1, LeastOf
  <2> QED
    BY <2>1, <2>2
<1>4. ReadsStartWhereAsked
  BY <1>1, <1>3 DEF ReadsStartWhereAsked
<1>5. reader \in [status : {"unopened", "open", "refused"}, count : Nat, next : Nat, lost : BOOLEAN] /\ reader.status # "open"
  BY <1>1
<1>6. at \in Nat
  BY DEF DecoderInit
<1> QED
  BY <1>1, <1>4, <1>5, <1>6 DEF DecoderInv

\* The lesser of two.
LEMMA LesserOf == ASSUME NEW a \in Nat, NEW b \in Nat PROVE Min({a, b}) = IF a <= b THEN a ELSE b
<1>1. {a, b} \subseteq Nat /\ {a, b} # {}
  OBVIOUS
<1>2. Min({a, b}) \in {a, b} /\ \A y \in {a, b} : Min({a, b}) <= y
  BY <1>1, LeastOf
<1> QED
  BY <1>2

\* Opening settles how many frames there are.
LEMMA openReaderKeeps == ASSUME DecoderInv, openReader PROVE DecoderInv'
<1>1. /\ media \in MediaFiles /\ media.holds \in Nat /\ media.claims \in Nat
      /\ at' = 0 /\ media' = media /\ returned' = returned /\ ReadsStartWhereAsked
      /\ reader = [status |-> "unopened", count |-> 0, next |-> 0, lost |-> FALSE]
  BY ReaderAssumption DEF DecoderInv, openReader, Unopened
<1>2. PICK count \in Nat : count = IF Counted THEN media.holds ELSE media.claims
  BY <1>1
<1> DEFINE opened == [status |-> "open", count |-> count, next |-> 0, lost |-> FALSE]
           refused == [status |-> "refused", count |-> 0, next |-> 0, lost |-> FALSE]
<1>3. reader' = opened \/ reader' = refused
  BY <1>2 DEF openReader, Unopened
<1>4. ReadsStartWhereAsked'
  BY <1>1, <1>3 DEF ReadsStartWhereAsked
<1>5. Counted' = Counted
  BY <1>1 DEF Counted
<1>6. LengthsAreGiven'
  BY DEF DecoderInv, LengthsAreGiven
<1>7. /\ reader' \in [status : {"unopened", "open", "refused"}, count : Nat, next : Nat, lost : BOOLEAN]
      /\ reader'.status = "open" => reader'.count = count /\ reader'.next = 0
  <2>1. CASE reader' = opened
    BY <2>1
  <2>2. CASE reader' = refused
    BY <2>2
  <2> QED
    BY <1>3, <2>1, <2>2
<1> QED
  BY <1>1, <1>2, <1>4, <1>5, <1>6, <1>7 DEF DecoderInv

\* Where a seek may leave the decoder.
LEMMA SoughtIs == ASSUME DecoderInv, NEW start \in Nat PROVE Sought(start).at \subseteq Nat
<1>1. media.holds \in Nat /\ media.claims \in Nat /\ at \in Nat
  BY ReaderAssumption DEF DecoderInv
<1> DEFINE clamped == IF media.kind = "flac" THEN Min({start, media.claims}) ELSE start
           failed == IF media.kind = "flac" THEN {0, at, media.holds} ELSE {media.holds}
<1>2. clamped \in Nat /\ failed \subseteq Nat
  BY <1>1, LesserOf
<1>3. Sought(start).at \in {{at}, {clamped}, failed}
  BY DEF Sought
<1> QED
  BY <1>1, <1>2, <1>3

\* A seek that could not be made is never forgotten.
LEMMA seekFailsKeeps == ASSUME DecoderInv, NEW start \in Nat, NEW n \in Nat, seekFails(start, n) PROVE DecoderInv'
<1>1. /\ media' = media /\ reader' = [reader EXCEPT !.lost = TRUE] /\ reader'.lost /\ Counted' = Counted /\ LengthsAreGiven'
      /\ at' \in Sought(start).at
  BY DEF seekFails, Counted, DecoderInv, LengthsAreGiven
<1>2. ReadsStartWhereAsked'
  BY <1>1 DEF ReadsStartWhereAsked
<1>3. /\ reader' \in [status : {"unopened", "open", "refused"}, count : Nat, next : Nat, lost : BOOLEAN]
      /\ reader'.status = reader.status /\ reader'.count = reader.count
  BY <1>1 DEF DecoderInv
<1>4. at' \in Nat
  BY <1>1, SoughtIs
<1> QED
  BY <1>1, <1>2, <1>3, <1>4 DEF DecoderInv

\* A seek that was made within the count ends where it was to.
LEMMA SeeksArrive == ASSUME DecoderInv, Reading, NEW start \in Nat, start < reader.count, Sought(start).ok
  PROVE  Sought(start).at = {start}
<1>1. /\ media \in MediaFiles /\ media.holds \in Nat /\ media.claims \in Nat /\ media.plausible \in Nat
      /\ media.kind \in {"flac", "mp3"} /\ media.holds <= media.plausible /\ (media.kind = "flac" => media.claims # 0)
  BY ReaderAssumption DEF DecoderInv, LengthsAreGiven
<1>2. reader.count = IF Counted THEN media.holds ELSE media.claims
  BY DEF DecoderInv, Reading
<1>3. media.kind = "flac" => start <= media.claims
  BY <1>1, <1>2 DEF Counted
<1>4. media.kind = "flac" => Min({start, media.claims}) = start
  BY <1>1, <1>3, LesserOf
<1> DEFINE clamped == IF media.kind = "flac" THEN Min({start, media.claims}) ELSE start
<1>5. clamped = start
  BY <1>4
<1>6. CASE start = at
  BY <1>6 DEF Sought
<1>7. CASE start # at /\ start < media.holds
  <2>1. Sought(start) = [ok |-> TRUE, at |-> {clamped}]
    BY <1>5, <1>7 DEF Sought
  <2> QED
    BY <1>5, <2>1
<1>8. CASE start # at /\ ~(start < media.holds)
  <2>1. Sought(start).ok = FALSE
    BY <1>5, <1>8 DEF Sought
  <2> QED
    BY <2>1
<1> QED
  BY <1>6, <1>7, <1>8

\* A reader that knows where its decoder is gives what it was asked for.
LEMMA readKeeps == ASSUME DecoderInv, NEW start \in Nat, NEW n \in Nat, read(start, n) PROVE DecoderInv'
<1>1. /\ Reading /\ start < reader.count /\ (NeedsSeek(start) => Sought(start).ok) /\ media' = media
  BY DEF read
<1>2. PICK from \in IF NeedsSeek(start) THEN Sought(start).at ELSE {at} :
        LET got == Min({n, reader.count - start, Max({0, media.holds - from})})
        IN /\ at' = from + got
           /\ reader' = [reader EXCEPT !.next = start + got]
           /\ returned' = [start |-> start, wanted |-> Min({n, reader.count - start}),
                         frames |-> [k \in 1..got |-> from + k - 1], error |-> FALSE]
  BY DEF read
<1> DEFINE left == Max({0, media.holds - from})
           got == Min({n, reader.count - start, left})
           wanted == Min({n, reader.count - start})
<1>3. media.holds \in Nat /\ reader.count \in Nat /\ reader.count - start \in Nat
  BY <1>1, ReaderAssumption DEF DecoderInv
<1>4. wanted = IF n <= reader.count - start THEN n ELSE reader.count - start
  BY <1>3, LesserOf
<1>5. reader' = [reader EXCEPT !.next = start + got] /\ reader'.lost = reader.lost /\ reader'.status = reader.status /\ reader'.count = reader.count
  BY <1>2 DEF DecoderInv
<1>6. from \in Nat
  BY <1>2, SoughtIs DEF DecoderInv
<1>7. left = IF from <= media.holds THEN media.holds - from ELSE 0
  <2>1. media.holds - from \in Int
    BY <1>3, <1>6
  <2>2. 0 \in Int
    OBVIOUS
  <2>3. left \in {0, media.holds - from} /\ left >= 0 /\ left >= media.holds - from
    BY <2>1, <2>2, GreaterOfTwo
  <2> HIDE DEF left
  <2> QED
    BY <1>3, <1>6, <2>1, <2>3
<1> HIDE DEF left, wanted
<1>8. got \in Nat /\ got \in {n, reader.count - start, left} /\ got <= n /\ got <= reader.count - start /\ got <= left
  <2>1. {n, reader.count - start, left} \subseteq Nat
    BY <1>3, <1>6, <1>7
  <2> QED
    BY <2>1, LeastOf
<1> HIDE DEF got
<1>9. at' = from + got /\ at' \in Nat
  BY <1>2, <1>6, <1>8 DEF got, left
<1>10. returned' = [start |-> start, wanted |-> wanted, frames |-> [k \in 1..got |-> from + k - 1], error |-> FALSE]
  BY <1>2 DEF got, left, wanted
<1>11. reader' \in [status : {"unopened", "open", "refused"}, count : Nat, next : Nat, lost : BOOLEAN]
  BY <1>5, <1>8 DEF DecoderInv
<1>12. LengthsAreGiven' /\ Counted' = Counted
  BY <1>1 DEF DecoderInv, LengthsAreGiven, Counted
<1>13. ~reader.lost => from = start
  <2>1. NeedsSeek(start) => from = start
    BY <1>1, <1>2, SeeksArrive
  <2>2. ~NeedsSeek(start) /\ ~reader.lost => from = start
    BY <1>1, <1>2 DEF NeedsSeek, DecoderInv, Reading
  <2> QED
    BY <2>1, <2>2
<1>14. reader'.next = start + got
  BY <1>5 DEF DecoderInv, got, left
<1>15. ReadsStartWhereAsked'
  <2> SUFFICES ASSUME ~reader.lost
               PROVE  /\ \A k \in DOMAIN returned'.frames : returned'.frames[k] = returned'.start + k - 1
                      /\ returned'.start + Len(returned'.frames) >= Min({returned'.start + returned'.wanted, media'.holds})
    BY <1>5 DEF ReadsStartWhereAsked
  <2>1. from = start
    BY <1>13
  <2>2. returned'.frames = [k \in 1..got |-> start + k - 1] /\ returned'.start = start /\ returned'.wanted = wanted
    BY <1>10, <2>1
  <2>3. Len(returned'.frames) = got
    BY <1>8, <2>2
  <2>4. wanted \in Nat /\ (got = n \/ got = reader.count - start => got >= wanted)
    BY <1>3, <1>4
  <2>5. Min({start + wanted, media.holds}) = IF start + wanted <= media.holds THEN start + wanted ELSE media.holds
    BY <1>3, <2>4, LesserOf
  <2>6. start + got >= Min({start + wanted, media.holds})
    <3>1. CASE got = left
      <4>1. CASE from <= media.holds
        BY <1>3, <1>7, <1>8, <2>1, <2>4, <2>5, <3>1, <4>1
      <4>2. CASE ~(from <= media.holds)
        BY <1>3, <1>7, <1>8, <2>1, <2>4, <2>5, <3>1, <4>2
      <4> QED
        BY <4>1, <4>2
    <3>2. CASE got # left
      BY <1>3, <1>8, <2>4, <2>5, <3>2
    <3> QED
      BY <3>1, <3>2
  <2> QED
    BY <1>1, <2>2, <2>3, <2>6
<1>16. ~reader'.lost /\ reader'.status = "open" => at' = reader'.next
  BY <1>5, <1>9, <1>13, <1>14
<1> QED
  BY <1>1, <1>5, <1>9, <1>11, <1>12, <1>15, <1>16 DEF DecoderInv

\* Past the end there is nothing, and nothing moves.
LEMMA readPastTheEndKeeps == ASSUME DecoderInv, NEW start \in Nat, readPastTheEnd(start) PROVE DecoderInv'
<1>1. /\ UNCHANGED <<media, reader, at>>
      /\ returned' = [start |-> start, wanted |-> 0, frames |-> <<>>, error |-> FALSE]
  BY DEF readPastTheEnd, Unanswered
<1>2. media.holds \in Nat
  BY ReaderAssumption DEF DecoderInv
<1>3. Min({start + 0, media.holds}) <= start
  BY <1>2, LesserOf
<1>4. ReadsStartWhereAsked'
  BY <1>1, <1>3 DEF ReadsStartWhereAsked
<1> QED
  BY <1>1, <1>4 DEF DecoderInv, LengthsAreGiven, Counted

\* A finite set of naturals has a bound.
LEMMA BoundOf == ASSUME NEW S, IsFiniteSet(S), S \subseteq Nat PROVE \E n \in Nat : \A x \in S : x <= n
<1> DEFINE Q == {T \in SUBSET S : \E n \in Nat : \A x \in T : x <= n}
<1>1. ASSUME NEW T \in SUBSET S, \A x \in T : T \ {x} \in Q PROVE T \in Q
  <2>1. CASE T = {}
    BY <2>1
  <2>2. CASE T # {}
    <3>1. PICK x \in T : TRUE
      BY <2>2
    <3>2. PICK n \in Nat : \A y \in T \ {x} : y <= n
      BY <1>1, <3>1
    <3>3. n + x \in Nat /\ \A y \in T : y <= n + x
      <4>1. x \in Nat
        BY <3>1
      <4>2. ASSUME NEW y \in T PROVE y <= n + x
        <5>1. y \in Nat /\ (y = x \/ y <= n)
          BY <3>2
        <5> QED
          BY <4>1, <5>1
      <4> QED
        BY <4>1, <4>2
    <3> QED
      BY <3>3
  <2> QED
    BY <2>1, <2>2
<1>2. SUBSET S \subseteq Q
  <2> HIDE DEF Q
  <2> QED
    BY <1>1, InductionOnSubsets
<1> QED
  BY <1>2

\* Every call keeps it.
LEMMA DecoderStepHolds == ASSUME DecoderInv, DecoderNext PROVE DecoderInv'
<1> DEFINE Lengths == {f.holds : f \in MediaFiles}
<1>1. Lengths \subseteq Nat /\ Lengths # {} /\ IsFiniteSet(Lengths)
  <2>1. IsFiniteSet(Lengths)
    <3>1. \A f \in MediaFiles : f.holds \in Lengths
      OBVIOUS
    <3>2. [f \in MediaFiles |-> f.holds] \in Surjection(MediaFiles, Lengths)
      BY <3>1 DEF Surjection
    <3> QED
      BY <3>2, ReaderAssumption, FS_Surjection
  <2> QED
    BY <2>1, ReaderAssumption DEF DecoderInv
<1>2. Max(Lengths) \in Nat
  <2> HIDE DEF Lengths
  <2>1. PICK n \in Nat : \A x \in Lengths : x <= n
    BY <1>1, BoundOf
  <2> QED
    BY <1>1, <2>1, GreatestOf
<1>3. CASE openReader
  BY <1>3, openReaderKeeps
<1>4. CASE \E start \in 0..Max(Lengths), n \in 1..MostFramesRead : seekFails(start, n) \/ read(start, n) \/ readPastTheEnd(start)
  <2>1. PICK start \in 0..Max(Lengths), n \in 1..MostFramesRead : seekFails(start, n) \/ read(start, n) \/ readPastTheEnd(start)
    BY <1>4
  <2>2. start \in Nat /\ n \in Nat
    BY <1>2, <2>1, ReaderAssumption
  <2> QED
    BY <2>1, <2>2, seekFailsKeeps, readKeeps, readPastTheEndKeeps
<1> QED
  BY <1>3, <1>4 DEF DecoderNext

\* ... and so does everything that does not concern it.
LEMMA DecoderStutters == ASSUME DecoderInv, UNCHANGED readerVars PROVE DecoderInv'
BY DEF DecoderInv, readerVars, LengthsAreGiven, Counted, ReadsStartWhereAsked

-----------------------------------------------------------------------------
(* Which reader a file is given to (AudioFiles).                             *)

\* The fields a frame's header can have.
Header == [version : 0..3, layer : 0..3, rate : 0..3, bits : 0..15, padding : 0..1]

\* Rates of samples are natural numbers, and rates of bits in layer I multiples of
\* eight, so that the length of a frame in slots is the time it lasts.
LEMMA RatesAre == ASSUME NEW f \in Header
  PROVE  /\ SampleRate(f) \in Nat /\ BitRate(f) \in Nat /\ BitRate(f) = 8 * (BitRate(f) \div 8)
         /\ f.layer = 3 => BitRate(f) = 32 * (BitRate(f) \div 32)
<1>1. f.version \in 0..3 /\ f.layer \in 0..3 /\ f.rate + 1 \in 1..4 /\ f.bits + 1 \in 1..16
  BY DEF Header
<1>2. SampleRate(f) \in Nat
  <2> DEFINE rates == SampleRates[f.version]
  <2>1. rates \in {<<11025, 12000, 8000, 0>>, <<0, 0, 0, 0>>, <<22050, 24000, 16000, 0>>, <<44100, 48000, 32000, 0>>}
    BY <1>1 DEF SampleRates
  <2>2. \A i \in 1..4 : rates[i] \in Nat
    BY <2>1
  <2> QED
    BY <1>1, <2>2 DEF SampleRate
<1> DEFINE row == mpegBitRateRow(f.version, f.layer)
<1>3. row \in 1..5 /\ (f.layer = 3 => row \in {1, 4})
  BY <1>1 DEF mpegBitRateRow
<1>4. \A i \in 1..16 : BitRates[1][i] \in Nat /\ BitRates[1][i] = 8 * (BitRates[1][i] \div 8)
  BY DEF BitRates
<1>5. \A i \in 1..16 : BitRates[2][i] \in Nat
  BY DEF BitRates
<1>6. \A i \in 1..16 : BitRates[3][i] \in Nat
  BY DEF BitRates
<1>7. \A i \in 1..16 : BitRates[4][i] \in Nat /\ BitRates[4][i] = 8 * (BitRates[4][i] \div 8)
  BY DEF BitRates
<1>8. \A i \in 1..16 : BitRates[5][i] \in Nat
  BY DEF BitRates
<1> DEFINE kilo == BitRates[row][f.bits + 1]
           eighth == kilo \div 8
<1>9. BitRate(f) = 1000 * kilo
  BY DEF BitRate
<1> HIDE DEF row
<1>10. kilo \in Nat /\ (f.layer = 3 => kilo = 8 * eighth)
  <2>1. row = 1 \/ row = 2 \/ row = 3 \/ row = 4 \/ row = 5
    BY <1>3
  <2>2. f.layer = 3 => row = 1 \/ row = 4
    BY <1>3
  <2> QED
    BY <1>1, <1>4, <1>5, <1>6, <1>7, <1>8, <2>1, <2>2
<1> HIDE DEF kilo
<1>11. eighth \in Nat
  BY <1>10
<1> HIDE DEF eighth
<1>12. (1000 * kilo) \div 8 = 125 * kilo
  BY <1>10
<1>13. ASSUME f.layer = 3 PROVE BitRate(f) = 32 * (BitRate(f) \div 32)
  <2>1. BitRate(f) = 8000 * eighth
    BY <1>9, <1>10, <1>11, <1>13
  <2>2. (8000 * eighth) \div 32 = 250 * eighth
    BY <1>11
  <2> QED
    BY <1>11, <2>1, <2>2
<1> QED
  BY <1>2, <1>9, <1>10, <1>12, <1>13

\* ... and frames are where their lengths say.
LEMMA SpaceIs == ASSUME NEW f \in Header
  PROVE  SpaceOf(f) \in Nat /\ SpaceOf(f) > 0 /\ (IsFrame(f) => SpaceOf(f) = Length(f))
<1>1. CASE ~IsFrame(f)
  BY <1>1 DEF SpaceOf
<1>2. CASE IsFrame(f)
  <2> DEFINE rate == SampleRate(f)
             bits == BitRate(f)
  <2>1. /\ rate \in Nat /\ rate # 0 /\ bits \in Nat /\ bits = 8 * (bits \div 8)
        /\ (f.layer = 3 => bits = 32 * (bits \div 32)) /\ f.padding \in Nat /\ Length(f) >= 4
    BY <1>2, RatesAre DEF IsFrame, Header
  <2> HIDE DEF rate, bits
  <2>2. CASE f.layer = 3
    <3>1. SpaceOf(f) = 4 * ((384 * (bits \div 32)) \div rate + f.padding)
      BY <1>2, <2>2 DEF SpaceOf, SamplesIn, rate, bits
    <3>2. Length(f) = ((12 * bits) \div rate + f.padding) * 4
      BY <2>2 DEF Length, rate, bits
    <3>3. 384 * (bits \div 32) = 12 * bits
      BY <2>1, <2>2
    <3>4. (12 * bits) \div rate \in Nat
      BY <2>1
    <3> DEFINE slots == (12 * bits) \div rate
    <3> HIDE DEF slots
    <3> QED
      BY <2>1, <3>1, <3>2, <3>3, <3>4 DEF slots
  <2>3. CASE f.layer # 3
    <3> DEFINE samples == IF f.layer = 1 /\ f.version # 3 THEN 576 ELSE 1152
               factor == IF f.layer = 1 /\ f.version # 3 THEN 72 ELSE 144
    <3>1. SpaceOf(f) = (samples * (bits \div 8)) \div rate + f.padding
      BY <1>2, <2>3 DEF SpaceOf, SamplesIn, rate, bits
    <3>2. Length(f) = (factor * bits) \div rate + f.padding
      BY <2>3 DEF Length, rate, bits
    <3>3. samples * (bits \div 8) = factor * bits /\ factor * bits \in Nat
      <4>1. CASE f.layer = 1 /\ f.version # 3
        BY <2>1, <4>1
      <4>2. CASE ~(f.layer = 1 /\ f.version # 3)
        BY <2>1, <4>2
      <4> QED
        BY <4>1, <4>2
    <3> HIDE DEF samples, factor
    <3>4. (factor * bits) \div rate \in Nat
      BY <2>1, <3>3
    <3> QED
      BY <2>1, <3>1, <3>2, <3>3, <3>4
  <2> QED
    BY <2>2, <2>3
<1> QED
  BY <1>1, <1>2

\* Where frames begin: the first at the beginning, each where the one before ends.
LEMMA StartsAre == ASSUME NEW frames \in Seq(Header), NEW k \in 1..Len(frames)
  PROVE  /\ Starts(frames)[k] \in Nat /\ (k = 1 => Starts(frames)[k] = 0)
         /\ k > 1 => Starts(frames)[k] = Starts(frames)[k - 1] + SpaceOf(frames[k - 1])
<1> DEFINE space == [j \in 1..Len(frames) |-> SpaceOf(frames[j])]
<1>1. \A j \in 1..Len(frames) : Starts(frames)[j] = SumFunctionOnSet(space, 1..(j - 1))
  <2>1. DOMAIN frames = 1..Len(frames)
    OBVIOUS
  <2>2. Starts(frames) = [j \in 1..Len(frames) |-> SumFunctionOnSet(space, 1..(j - 1))]
    BY <2>1 DEF Starts
  <2> HIDE DEF space
  <2> QED
    BY <2>2
<1>2. \A j \in 1..Len(frames) : space[j] = SpaceOf(frames[j]) /\ space[j] \in Nat
  BY SpaceIs
<1>3. k \in Nat /\ k >= 1 /\ k <= Len(frames)
  OBVIOUS
<1> HIDE DEF space
<1>4. \A j \in 1..(k - 1) : j \in 1..Len(frames)
  BY <1>3
<1>5. IsFiniteSet(1..(k - 1))
  BY <1>3, FS_Interval
<1>6. SumFunctionOnSet(space, 1..(k - 1)) \in Nat
  BY <1>2, <1>4, <1>5, SumType
<1>7. ASSUME k = 1 PROVE Starts(frames)[k] = 0
  <2>1. 1..(k - 1) = {}
    BY <1>7
  <2> QED
    BY <1>1, <2>1, SumOfNone
<1>8. ASSUME k > 1 PROVE Starts(frames)[k] = Starts(frames)[k - 1] + SpaceOf(frames[k - 1])
  <2>1. k - 1 \in 1..Len(frames) /\ 1..(k - 1) = (1..((k - 1) - 1)) \cup {k - 1} /\ ~(k - 1 \in 1..((k - 1) - 1))
    BY <1>3, <1>8
  <2>2. IsFiniteSet(1..((k - 1) - 1))
    BY <2>1, FS_Interval
  <2>3. \A j \in (1..((k - 1) - 1)) \cup {k - 1} : space[j] \in Int
    BY <1>2, <1>4, <2>1
  <2>4. SumFunctionOnSet(space, (1..((k - 1) - 1)) \cup {k - 1}) = SumFunctionOnSet(space, 1..((k - 1) - 1)) + space[k - 1]
    BY <2>1, <2>2, <2>3, SumWith
  <2> QED
    BY <1>1, <1>2, <2>1, <2>4
<1> QED
  BY <1>1, <1>6, <1>7, <1>8

\* No two begin at one place.
LEMMA StartsGrow == ASSUME NEW frames \in Seq(Header)
  PROVE  \A k \in 1..Len(frames) : \A j \in 1..Len(frames) : j < k => Starts(frames)[j] < Starts(frames)[k]
<1> DEFINE begins == Starts(frames)
           Grown == {k \in Nat : k \in 1..Len(frames) => \A j \in 1..Len(frames) : j < k => begins[j] < begins[k]}
<1>1. 0 \in Grown
  OBVIOUS
<1>2. ASSUME NEW k \in Grown PROVE k + 1 \in Grown
  <2> SUFFICES ASSUME k + 1 \in 1..Len(frames), NEW j \in 1..Len(frames), j < k + 1 PROVE begins[j] < begins[k + 1]
    OBVIOUS
  <2>1. k \in 1..Len(frames) /\ k + 1 > 1 /\ (k + 1) - 1 = k
    OBVIOUS
  <2>2. begins[k + 1] = begins[k] + SpaceOf(frames[k]) /\ begins[k] \in Nat /\ begins[j] \in Nat
    BY <2>1, StartsAre
  <2>3. SpaceOf(frames[k]) \in Nat /\ SpaceOf(frames[k]) > 0
    BY <2>1, SpaceIs
  <2>4. CASE j = k
    BY <2>2, <2>3, <2>4
  <2>5. CASE j < k
    <3>1. begins[j] < begins[k]
      BY <1>2, <2>1, <2>5
    <3> HIDE DEF begins
    <3> QED
      BY <2>2, <2>3, <3>1
  <2> QED
    BY <2>1, <2>4, <2>5
<1>3. Grown = Nat
  <2> HIDE DEF Grown
  <2>1. Grown \subseteq Nat
    BY DEF Grown
  <2> QED
    BY <1>1, <1>2, <2>1, InductionOnNat
<1> HIDE DEF begins
<1>4. ASSUME NEW k \in 1..Len(frames), NEW j \in 1..Len(frames), j < k PROVE begins[j] < begins[k]
  BY <1>3, <1>4
<1> QED
  BY <1>4 DEF begins

\* So a frame is found where it begins.
LEMMA FrameIsAt == ASSUME NEW frames \in Seq(Header), NEW k \in 1..Len(frames)
  PROVE  FrameAt(frames, Starts(frames)[k]) = frames[k]
<1> DEFINE begins == Starts(frames)
           found == CHOOSE j \in 1..Len(frames) : begins[j] = begins[k]
<1>1. found \in 1..Len(frames) /\ begins[found] = begins[k]
  OBVIOUS
<1>2. begins[found] \in Nat /\ begins[k] \in Nat
  BY <1>1, StartsAre
<1>3. (found < k => begins[found] < begins[k]) /\ (k < found => begins[k] < begins[found])
  BY <1>1, StartsGrow
<1>4. FrameAt(frames, begins[k]) = frames[found]
  <2>1. DOMAIN frames = 1..Len(frames) /\ \E j \in 1..Len(frames) : Starts(frames)[j] = begins[k]
    OBVIOUS
  <2> QED
    BY <2>1 DEF FrameAt
<1> HIDE DEF begins, found
<1>5. found = k
  BY <1>1, <1>2, <1>3
<1> QED
  BY <1>4, <1>5 DEF begins

\* A chain of frames is followed from one to the next.
LEMMA ChainIs == ASSUME NEW frames \in Seq(Header), Len(frames) >= 3, NEW reach \in Nat
  PROVE  hasMpegFrameChain(frames, reach) <=>
           /\ reach >= 4 /\ IsFrame(frames[1])
           /\ \/ Length(frames[1]) + 4 > reach
              \/ /\ Alike(frames[1], frames[2])
                 /\ Length(frames[1]) + Length(frames[2]) + 4 > reach \/ Alike(frames[1], frames[3])
<1> DEFINE begins == Starts(frames)
           first == FrameAt(frames, 0)
           second == FrameAt(frames, Length(first))
           third == FrameAt(frames, Length(first) + Length(second))
<1>1. 1 \in 1..Len(frames) /\ 2 \in 1..Len(frames) /\ 3 \in 1..Len(frames) /\ 2 > 1 /\ 3 > 1 /\ 2 - 1 = 1 /\ 3 - 1 = 2
  OBVIOUS
<1>2. begins[1] = 0 /\ begins[2] = begins[1] + SpaceOf(frames[1]) /\ begins[3] = begins[2] + SpaceOf(frames[2])
  BY <1>1, StartsAre
<1>3. /\ SpaceOf(frames[1]) \in Nat /\ SpaceOf(frames[2]) \in Nat
      /\ IsFrame(frames[1]) => SpaceOf(frames[1]) = Length(frames[1])
      /\ IsFrame(frames[2]) => SpaceOf(frames[2]) = Length(frames[2])
  BY <1>1, SpaceIs
<1>4. FrameAt(frames, begins[1]) = frames[1] /\ FrameAt(frames, begins[2]) = frames[2] /\ FrameAt(frames, begins[3]) = frames[3]
  BY <1>1, FrameIsAt
<1> HIDE DEF begins
<1>5. first = frames[1]
  BY <1>2, <1>4
<1>6. ASSUME IsFrame(frames[1]) PROVE second = frames[2]
  BY <1>2, <1>3, <1>4, <1>5, <1>6
<1>7. ASSUME IsFrame(frames[1]), IsFrame(frames[2]) PROVE third = frames[3]
  BY <1>2, <1>3, <1>4, <1>5, <1>6, <1>7
<1>8. hasMpegFrameChain(frames, reach) <=>
        /\ reach >= 4 /\ IsFrame(first)
        /\ \/ Length(first) + 4 > reach
           \/ /\ Alike(first, second)
              /\ Length(first) + Length(second) + 4 > reach \/ Alike(first, third)
  BY DEF hasMpegFrameChain
<1>9. \A f : Alike(frames[1], f) => IsFrame(f)
  BY DEF Alike
<1> HIDE DEF first, second, third
<1> QED
  BY <1>5, <1>6, <1>7, <1>8, <1>9

\* Frames, or nothing but a magic and a tag, whose header alone is ten bytes: what
\* a file can be.
Tag == {0} \cup {n \in Nat : n >= 10}
Stream == [lead : {"mpeg"}, tag : Tag, frames : {frames \in Seq(Header) : Len(frames) >= 3}]
Container == [lead : {"riff", "rf64", "aiff", "aifc", "flac", "marked", "none"}, tag : Tag, frames : {<<>>}]

\* A stream of frames of one kind is an MP3 however little of it is looked at;
\* what only begins like one is not, once the window shows what follows; a FLAC is
\* one as soon as the window shows its mark, and what bears the mark alone is not
\* once it shows the first block; and what a short window calls a WAVE or an AIFF
\* the usual one calls so too.
THEOREM FilesAreRecognised == ASSUME NEW file \in Stream \cup Container, NEW reach \in Nat
  PROVE  RecognisedForWhatItIs(file, reach)
<1>1. file.tag \in Tag
  BY DEF Stream, Container
<1>2. ASSUME file.lead = "mpeg"
      PROVE  file.frames \in Seq(Header) /\ Len(file.frames) >= 3
  BY <1>2 DEF Stream, Container
<1>3. ASSUME file.lead = "mpeg", file.tag = 0
      PROVE  detectFormat(file, reach) = IF hasMpegFrameChain(file.frames, reach) THEN "MP3" ELSE "unknown"
  BY <1>3 DEF detectFormat, isFlacStream
<1>4. ASSUME file.lead = "mpeg", file.tag = 0, OneStream(file.frames), reach >= 4 PROVE detectFormat(file, reach) = "MP3"
  <2>1. 1 \in DOMAIN file.frames /\ 2 \in DOMAIN file.frames /\ 3 \in DOMAIN file.frames
    BY <1>2, <1>4
  <2>2. \A k \in 1..3 : Alike(file.frames[1], file.frames[k])
    BY <1>4, <2>1 DEF OneStream
  <2>3. IsFrame(file.frames[1])
    BY <2>2 DEF Alike
  <2>4. hasMpegFrameChain(file.frames, reach)
    BY <1>2, <1>4, <2>2, <2>3, ChainIs
  <2> QED
    BY <1>3, <1>4, <2>4
<1>5. ASSUME file.lead = "mpeg", file.tag = 0, ~OneStream(SubSeq(file.frames, 1, 3)), reach >= Starts(file.frames)[3] + 4
      PROVE  detectFormat(file, reach) = "unknown"
  <2> DEFINE frames == file.frames
  <2>0. frames \in Seq(Header) /\ Len(frames) >= 3
    BY <1>2, <1>5
  <2> HIDE DEF frames
  <2>1. 1 \in 1..Len(frames) /\ 2 \in 1..Len(frames) /\ 3 \in 1..Len(frames) /\ 2 > 1 /\ 3 > 1 /\ 2 - 1 = 1 /\ 3 - 1 = 2
    BY <2>0
  <2>2. /\ Starts(frames)[1] = 0 /\ Starts(frames)[2] = Starts(frames)[1] + SpaceOf(frames[1])
        /\ Starts(frames)[3] = Starts(frames)[2] + SpaceOf(frames[2])
    BY <2>0, <2>1, StartsAre
  <2>3. /\ SpaceOf(frames[1]) \in Nat /\ SpaceOf(frames[2]) \in Nat
        /\ IsFrame(frames[1]) => SpaceOf(frames[1]) = Length(frames[1])
        /\ IsFrame(frames[2]) => SpaceOf(frames[2]) = Length(frames[2])
    BY <2>0, <2>1, SpaceIs
  <2>4. DOMAIN SubSeq(frames, 1, 3) = 1..3 /\ \A k \in 1..3 : SubSeq(frames, 1, 3)[k] = frames[k]
    BY <2>0
  <2>5. ~(\A k \in 1..3 : Alike(frames[1], frames[k]))
    BY <1>5, <2>4 DEF OneStream, frames
  <2>6. IsFrame(frames[1]) => Alike(frames[1], frames[1])
    BY DEF Alike
  <2>7. Alike(frames[1], frames[2]) => IsFrame(frames[2])
    BY DEF Alike
  <2>8. reach >= Starts(frames)[3] + 4
    BY <1>5 DEF frames
  <2>9. \A k \in 1..3 : k = 1 \/ k = 2 \/ k = 3
    OBVIOUS
  <2>10. ~hasMpegFrameChain(frames, reach)
    BY <2>0, <2>2, <2>3, <2>5, <2>6, <2>7, <2>8, <2>9, ChainIs
  <2> QED
    BY <1>3, <1>5, <2>10 DEF frames
<1>6. detectFormat(file, reach) \in {"WAVE", "AIFF"} => detectFormat(file, 4096) = detectFormat(file, reach)
  BY <1>1 DEF detectFormat, isFlacStream, Stream, Container
<1>7. detectFormat(file, reach) # "unknown" /\ detectFormat(file, 4096) = "unknown" =>
        file.lead = "mpeg" \/ (file.lead = "marked" /\ reach < 8)
  BY <1>1 DEF detectFormat, isFlacStream, Stream, Container, Tag
<1>8. file.lead = "flac" /\ reach >= file.tag + 4 => detectFormat(file, reach) = "FLAC"
  <2> SUFFICES ASSUME file.lead = "flac", reach >= file.tag + 4 PROVE detectFormat(file, reach) = "FLAC"
    OBVIOUS
  <2>1. CASE file.tag = 0
    BY <2>1 DEF detectFormat, isFlacStream
  <2>2. CASE file.tag # 0
    <3>1. file.tag \in Nat /\ file.tag >= 10 /\ reach >= 10 /\ file.tag <= reach
      BY <1>1, <2>2 DEF Tag
    <3>2. Min({file.tag, reach}) = file.tag
      BY <3>1, LesserOf
    <3>3. isFlacStream(file, file.tag, reach) /\ ~isFlacStream(file, 0, reach)
      BY <2>2 DEF isFlacStream
    <3> QED
      BY <2>2, <3>1, <3>2, <3>3 DEF detectFormat
  <2> QED
    BY <2>1, <2>2
<1>9. detectFormat(file, reach) = "FLAC" /\ reach >= file.tag + 8 => file.lead = "flac"
  <2> SUFFICES ASSUME detectFormat(file, reach) = "FLAC", reach >= file.tag + 8 PROVE file.lead = "flac"
    OBVIOUS
  <2>1. isFlacStream(file, 0, reach) \/ isFlacStream(file, Min({file.tag, reach}), reach)
    BY DEF detectFormat
  <2> QED
    BY <2>1 DEF isFlacStream
<1> QED
  BY <1>4, <1>5, <1>6, <1>7, <1>8, <1>9 DEF RecognisedForWhatItIs

\* The files asked about are such files.
SubjectInv == /\ subject.kind = "mpeg" => subject.header \in MpegHeaders
              /\ subject.kind = "file" => subject.file \in Stream \cup Container

\* What is asked about has such headers,
LEMMA HeadersAre == MpegHeaders \subseteq Header /\ Junk \in Header
BY DEF MpegHeaders, Header, Junk

\* makes such streams of them,
LEMMA StreamsAre == ASSUME NEW g \in MpegHeaders, NEW frames \in Streams(g), NEW tag \in {0, 20}
  PROVE  [lead |-> "mpeg", tag |-> tag, frames |-> frames] \in Stream
<1>1. g \in Header /\ Junk \in Header
  BY HeadersAre
<1>2. [g EXCEPT !.rate = 1] \in Header /\ [g EXCEPT !.padding = 1] \in Header /\ [g EXCEPT !.bits = 4] \in Header
  BY <1>1 DEF Header
<1>3. PICK h \in Header, i \in Header : frames = <<g, h, i>>
  BY <1>1, <1>2 DEF Streams
<1>4. frames \in Seq(Header) /\ Len(frames) = 3
  BY <1>1, <1>3
<1>5. tag \in Tag /\ Len(frames) >= 3
  BY <1>4 DEF Tag
<1> QED
  BY <1>4, <1>5, Zenon DEF Stream

\* and nothing else is asked about.
LEMMA SubjectStepHolds == ASSUME SubjectInv, beginSubject \/ completeSubject PROVE SubjectInv'
<1>1. CASE beginSubject
  <2>1. \/ \E s \in Signals : subject' = [kind |-> "signal", samples |-> s]
        \/ \E n \in BlockSizes, hz \in FrameRates : subject' = [kind |-> "rate", count |-> n, hz |-> hz]
        \/ \E o \in 0..2, large \in {0, 5, 100000} : subject' = [kind |-> "order", order |-> o, large |-> large]
        \/ \E g \in MpegHeaders : subject' = [kind |-> "mpeg", header |-> g]
        \/ \E n \in Amplitudes : subject' = [kind |-> "sample", value |-> n]
    BY <1>1 DEF beginSubject
  <2> QED
    BY <2>1 DEF SubjectInv
<1>2. CASE completeSubject
  <2>1. \/ subject'.kind \in {"block", "header", "residual"}
        \/ /\ subject.kind = "mpeg"
           /\ \/ \E frames \in Streams(subject.header), tag \in {0, 20} :
                   subject' = [kind |-> "file", file |-> [lead |-> "mpeg", tag |-> tag, frames |-> frames]]
              \/ \E lead \in {"riff", "rf64", "aiff", "aifc", "flac", "marked", "none"} :
                   subject' = [kind |-> "file", file |-> [lead |-> lead, tag |-> 0, frames |-> <<>>]]
              \/ \E lead \in {"flac", "marked", "none"}, tag \in {10, 5000} :
                   subject' = [kind |-> "file", file |-> [lead |-> lead, tag |-> tag, frames |-> <<>>]]
    BY <1>2 DEF completeSubject
  <2>2. CASE subject'.kind \in {"block", "header", "residual"}
    BY <2>2 DEF SubjectInv
  <2>3. ASSUME subject.kind = "mpeg", NEW frames \in Streams(subject.header), NEW tag \in {0, 20},
               subject' = [kind |-> "file", file |-> [lead |-> "mpeg", tag |-> tag, frames |-> frames]]
        PROVE  SubjectInv'
    <3>1. subject'.file \in Stream
      BY <2>3, StreamsAre DEF SubjectInv
    <3>2. subject'.kind = "file"
      BY <2>3
    <3> QED
      BY <3>1, <3>2 DEF SubjectInv
  <2>4. ASSUME NEW lead \in {"riff", "rf64", "aiff", "aifc", "flac", "marked", "none"}, NEW tag \in {0, 10, 5000},
               subject' = [kind |-> "file", file |-> [lead |-> lead, tag |-> tag, frames |-> <<>>]]
        PROVE  SubjectInv'
    BY <2>4 DEF SubjectInv, Container, Tag
  <2> QED
    BY <2>1, <2>2, <2>3, <2>4
<1> QED
  BY <1>1, <1>2

-----------------------------------------------------------------------------
(* The layers of the model.                                                  *)

\* At the start both invariants hold, in every layer.
LEMMA CachesInit == ASSUME RecordingsInit PROVE StoreInv /\ DetailInv
BY StoreInitHolds, DetailInitHolds DEF RecordingsInit

\* A step of the model is a step of the directory, of the detail, or of neither.
LEMMA CachesStep == ASSUME [RecordingsNext]_<<layer, cacheVars, fileVars, subject>>
  PROVE  (StoreNext \/ UNCHANGED storeVars) /\ (TilesNext \/ UNCHANGED tileVars)
<1>1. CASE UNCHANGED cacheVars
  BY <1>1 DEF cacheVars
<1>2. CASE CacheNext
  BY <1>2 DEF CacheNext
<1> QED
  BY <1>1, <1>2 DEF RecordingsNext

\* ... so both invariants stay.
LEMMA CachesKeep == ASSUME StoreInv, DetailInv, [RecordingsNext]_<<layer, cacheVars, fileVars, subject>>
  PROVE  StoreInv' /\ DetailInv'
BY CachesStep, StoreStepHolds, StoreStutters, DetailStepHolds, DetailStutters

\* Both invariants hold of the directory and of the detail, for any number of
\* processes, names, sizes, tiles and views.
THEOREM CachesAreSound == RecordingsSpec => [](StoreInv /\ DetailInv)
<1>1. RecordingsInit => StoreInv /\ DetailInv
  BY CachesInit
<1>2. StoreInv /\ DetailInv /\ [RecordingsNext]_<<layer, cacheVars, fileVars, subject>> => (StoreInv /\ DetailInv)'
  BY CachesKeep
<1> QED
  BY <1>1, <1>2, PTL DEF RecordingsSpec

\* A read never gives out another picture than the one its name stands for: not
\* while other processes replace, evict or remove the file, not after a crash or
\* a power cut.
THEOREM NeverAnotherPicture == RecordingsSpec => []NeverTheWrongPicture
<1>1. StoreInv /\ DetailInv => NeverTheWrongPicture
  BY DEF StoreInv
<1> QED
  BY <1>1, CachesAreSound, PTL

\* A store's account is what it knows and within its budget, the directory of a
\* store that is alone is too, and so is the detail in memory.
THEOREM CachesKeepTheirBudgets == RecordingsSpec => []BudgetsHold
<1>1. StoreInv /\ DetailInv => BudgetsHold
  BY AccountsAddUp, DetailInvAddsUp DEF BudgetsHold
<1> QED
  BY <1>1, CachesAreSound, PTL

\* The readers, and what is asked of detectFormat.
ReadersInv == DecoderInv /\ SubjectInv

\* At the start, in every layer.
LEMMA ReadersInit == ASSUME LengthsAreGiven, RecordingsInit PROVE ReadersInv
<1>1. DecoderInv
  BY DecoderInitHolds DEF RecordingsInit
<1>2. SubjectInv
  BY DEF RecordingsInit, Idle, SubjectInv
<1> QED
  BY <1>1, <1>2 DEF ReadersInv

\* A step of the model is a step of the reader, of the subject, or of neither.
LEMMA ReadersStep == ASSUME [RecordingsNext]_<<layer, cacheVars, fileVars, subject>>
  PROVE  (DecoderNext \/ UNCHANGED readerVars) /\ (beginSubject \/ completeSubject \/ UNCHANGED subject)
<1>1. CASE CacheNext /\ UNCHANGED <<fileVars, subject>>
  BY <1>1 DEF fileVars
<1>2. CASE FilesNext
  BY <1>2 DEF FilesNext, fileVars
<1>3. CASE UNCHANGED <<layer, cacheVars, fileVars, subject>>
  BY <1>3 DEF fileVars
<1> QED
  BY <1>1, <1>2, <1>3 DEF RecordingsNext

\* ... so the invariant stays.
LEMMA ReadersKeep == ASSUME ReadersInv, [RecordingsNext]_<<layer, cacheVars, fileVars, subject>> PROVE ReadersInv'
<1>1. UNCHANGED subject => SubjectInv'
  BY DEF ReadersInv, SubjectInv
<1> QED
  BY <1>1, ReadersStep, DecoderStepHolds, DecoderStutters, SubjectStepHolds DEF ReadersInv

\* What it says of the files and of the reads.
LEMMA ReadersInvTells == ASSUME ReadersInv PROVE ReadersTellTheTruth
<1>1. \A n \in Windows : n \in Nat
  BY DEF Windows
<1> QED
  BY <1>1, FilesAreRecognised DEF ReadersInv, SubjectInv, DecoderInv, ReadersTellTheTruth

\* A reader gives the frames it is asked for, in whatever order that is and whatever
\* lengths headers claim, until a seek fails; and a file is given to the reader for
\* what it is.
THEOREM ReadersAlwaysTellTheTruth == LengthsAreGiven /\ RecordingsSpec => []ReadersTellTheTruth
<1>1. LengthsAreGiven /\ RecordingsInit => ReadersInv
  BY ReadersInit
<1>2. ReadersInv /\ [RecordingsNext]_<<layer, cacheVars, fileVars, subject>> => ReadersInv'
  BY ReadersKeep
<1>3. ReadersInv => ReadersTellTheTruth
  BY ReadersInvTells
<1> QED
  BY <1>1, <1>2, <1>3, PTL DEF RecordingsSpec
=============================================================================
