----------------------------- MODULE FoldProofs -----------------------------
(***************************************************************************)
(* What the folds of the community modules compute.  MapThenFoldSet is a   *)
(* recursive function on the subsets of a finite set; tlapm has no         *)
(* induction over data, but a least counterexample among the cardinalities *)
(* does the same: such a function exists, and two of them that take the    *)
(* same steps agree.                                                       *)
(***************************************************************************)
EXTENDS Integers, Sequences, FiniteSets, FiniteSetsExt, FiniteSetTheorems,
        WellFoundedInduction, TLAPS

\* The function that MapThenFoldSet defines, for the steps of a fold given as functions.
Folding(g, S, base, pick, step) ==
  g = [s \in SUBSET S |->
         IF s = {} THEN base ELSE step[pick[s]][g[s \ {pick[s]}]]]

\* A set of naturals that is not empty has a least element.
LEMMA LeastNatural ==
  ASSUME NEW T \in SUBSET Nat, T # {}
  PROVE  \E x \in T : \A y \in T : x <= y
<1>1. PICK x \in T : \A y \in T : ~ (<<y, x>> \in OpToRel(<, Nat))
  BY NatLessThanWellFounded, WFMin, Zenon
<1>2. \A y \in T : ~ (y < x)
  BY <1>1 DEF OpToRel
<1> QED BY <1>2

\* The elements are picked one after another, each from what is left.
Picks(pick, S) == \A s \in SUBSET S : s # {} => pick[s] \in s

\* With nothing, and with what is left, goes the set.
Grows(T, S, pick) ==
  {} \in T /\ \A s \in SUBSET S : s # {} /\ s \ {pick[s]} \in T => s \in T

\* What is left of a finite set without one of its elements.
LEMMA OneLess ==
  ASSUME NEW S, IsFiniteSet(S), NEW s \in SUBSET S, NEW x \in s
  PROVE  /\ s \ {x} \in SUBSET S
         /\ IsFiniteSet(s) /\ Cardinality(s) \in Nat
         /\ Cardinality(s \ {x}) = Cardinality(s) - 1
         /\ Cardinality(s \ {x}) \in Nat
<1>1. IsFiniteSet(s) /\ IsFiniteSet(s \ {x})
  BY FS_Subset
<1>2. Cardinality(s \ {x}) = Cardinality(s) - 1
  BY <1>1, FS_RemoveElement
<1> QED BY <1>1, <1>2, FS_CardinalityType

\* The subsets of at most n elements.
SmallSets(S, n) == {s \in SUBSET S : Cardinality(s) <= n}

\* A fold of the small subsets.
FoldsThese(g, n, S, V, base, pick, step) ==
  /\ g \in [SmallSets(S, n) -> V]
  /\ \A s \in SmallSets(S, n) :
       g[s] = IF s = {} THEN base ELSE step[pick[s]][g[s \ {pick[s]}]]

\* Whatever element is picked next, a fold over a finite set is defined.
LEMMA FoldExists ==
  ASSUME NEW S, IsFiniteSet(S), NEW V, NEW base \in V,
         NEW pick, Picks(pick, S),
         NEW step \in [S -> [V -> V]]
  PROVE  \E g \in [SUBSET S -> V] : Folding(g, S, base, pick, step)
<1> DEFINE Defined(n) == \E g : FoldsThese(g, n, S, V, base, pick, step)
           T == {n \in Nat : ~Defined(n)}
<1>1. Defined(0)
  <2> DEFINE g == [s \in SmallSets(S, 0) |-> base]
  <2>1. \A s \in SmallSets(S, 0) : s = {}
    BY FS_Subset, FS_EmptySet, FS_CardinalityType DEF SmallSets
  <2>2. FoldsThese(g, 0, S, V, base, pick, step)
    BY <2>1 DEF FoldsThese
  <2> QED BY <2>2
<1>2. ASSUME NEW n \in Nat, Defined(n) PROVE Defined(n + 1)
  <2>1. PICK g : FoldsThese(g, n, S, V, base, pick, step)
    BY <1>2
  <2> DEFINE rest(s) == s \ {pick[s]}
             h == [s \in SmallSets(S, n + 1) |->
                     IF s = {} THEN base ELSE step[pick[s]][g[rest(s)]]]
  <2>2. ASSUME NEW s \in SmallSets(S, n + 1), s # {}
        PROVE  pick[s] \in S /\ rest(s) \in SmallSets(S, n)
    <3>1. s \in SUBSET S /\ pick[s] \in s /\ Cardinality(s) <= n + 1
      BY <2>2 DEF SmallSets, Picks
    <3>2. PICK x \in s : x = pick[s]
      BY <2>2, <3>1 DEF Picks
    <3>3. s \ {x} \in SUBSET S /\ Cardinality(s \ {x}) = Cardinality(s) - 1
          /\ Cardinality(s) \in Nat
      BY <3>1, OneLess
    <3> QED BY <3>1, <3>2, <3>3 DEF SmallSets
  <2>3. h \in [SmallSets(S, n + 1) -> V]
    <3> SUFFICES ASSUME NEW s \in SmallSets(S, n + 1)
                 PROVE  (IF s = {} THEN base ELSE step[pick[s]][g[rest(s)]]) \in V
      OBVIOUS
    <3>1. CASE s = {}
      BY <3>1
    <3>2. CASE s # {}
      <4>1. pick[s] \in S /\ g[rest(s)] \in V
        BY <2>1, <2>2, <3>2 DEF FoldsThese
      <4> QED BY <3>2, <4>1
    <3> QED BY <3>1, <3>2
  <2>4. ASSUME NEW s \in SmallSets(S, n) PROVE s \in SmallSets(S, n + 1) /\ h[s] = g[s]
    <3>1. s \in SmallSets(S, n + 1)
      BY FS_Subset, FS_CardinalityType DEF SmallSets
    <3> QED BY <2>1, <3>1 DEF FoldsThese
  <2>5. ASSUME NEW s \in SmallSets(S, n + 1)
        PROVE  h[s] = IF s = {} THEN base ELSE step[pick[s]][h[rest(s)]]
    <3>1. CASE s = {}
      BY <3>1
    <3>2. CASE s # {}
      <4>1. h[rest(s)] = g[rest(s)]
        BY <2>2, <2>4, <3>2
      <4> QED BY <3>2, <4>1
    <3> QED BY <3>1, <3>2
  <2> HIDE DEF h
  <2>6. FoldsThese(h, n + 1, S, V, base, pick, step)
    BY <2>3, <2>5 DEF FoldsThese
  <2> QED BY <2>6
<1>3. ASSUME NEW n \in T PROVE FALSE
  <2> HIDE DEF Defined
  <2>1. PICK m \in T : \A k \in T : m <= k
    BY <1>3, LeastNatural
  <2>2. m \in Nat /\ m # 0
    BY <1>1
  <2>3. Defined(m - 1)
    BY <2>1, <2>2
  <2>4. Defined(m)
    BY <1>2, <2>2, <2>3
  <2> QED BY <2>4
<1>4. Cardinality(S) \in Nat
  BY FS_CardinalityType
<1>5. PICK g : FoldsThese(g, Cardinality(S), S, V, base, pick, step)
  <2> HIDE DEF Defined
  <2>1. Defined(Cardinality(S))
    BY <1>3, <1>4
  <2> QED BY <2>1 DEF Defined
<1>6. SmallSets(S, Cardinality(S)) = SUBSET S
  BY FS_Subset DEF SmallSets
<1>7. g \in [SUBSET S -> V]
  BY <1>5, <1>6 DEF FoldsThese
<1>8. \A s \in SUBSET S : g[s] = IF s = {} THEN base ELSE step[pick[s]][g[s \ {pick[s]}]]
  BY <1>5, <1>6 DEF FoldsThese
<1>9. Folding(g, S, base, pick, step)
  BY <1>7, <1>8 DEF Folding
<1> QED BY <1>7, <1>9

\* What holds of the empty set, and of a set once it holds without the element that is
\* picked from it, holds of every subset of a finite set.
LEMMA SubsetInduction ==
  ASSUME NEW S, IsFiniteSet(S), NEW pick, Picks(pick, S),
         NEW T, Grows(T, S, pick)
  PROVE  SUBSET S \subseteq T
<1> DEFINE missing == {s \in SUBSET S : s \notin T}
           sizes == {Cardinality(s) : s \in missing}
<1> SUFFICES ASSUME NEW u \in missing PROVE FALSE
  OBVIOUS
<1>1. \A s \in SUBSET S : Cardinality(s) \in Nat
  BY FS_Subset, FS_CardinalityType
<1>2. sizes \in SUBSET Nat /\ sizes # {}
  BY <1>1
<1>3. PICK n \in sizes : \A m \in sizes : n <= m
  BY <1>2, LeastNatural
<1>4. PICK s \in missing : n = Cardinality(s)
  BY <1>3
<1>5. s \in SUBSET S /\ s # {} /\ s \notin T
  BY <1>4 DEF Grows
<1>6. PICK x \in s : x = pick[s]
  BY <1>5 DEF Picks
<1>7. s \ {x} \in SUBSET S /\ Cardinality(s \ {x}) = Cardinality(s) - 1
  BY <1>5, <1>6, OneLess
<1>8. s \ {x} \in T
  <2> SUFFICES ASSUME s \ {x} \notin T PROVE FALSE
    OBVIOUS
  <2>1. Cardinality(s \ {x}) \in sizes
    BY <1>7
  <2>2. n <= n - 1 /\ n \in Nat
    BY <1>1, <1>3, <1>4, <1>7, <2>1
  <2> QED BY <2>2
<1> QED BY <1>5, <1>6, <1>8 DEF Grows

-----------------------------------------------------------------------------
(* Folds over a sequence, whose last place is picked first. *)

\* The greatest of some integers, none of which is above a bound.
LEMMA MaxExists ==
  ASSUME NEW S \in SUBSET Int, S # {}, NEW bound \in Int, \A x \in S : x <= bound
  PROVE  Max(S) \in S /\ \A y \in S : Max(S) >= y
<1> DEFINE short == {bound - x : x \in S}
<1>1. short \in SUBSET Nat /\ short # {}
  <2>1. \A x \in S : bound - x \in Nat
    OBVIOUS
  <2> QED BY <2>1
<1>2. PICK d \in short : \A e \in short : d <= e
  BY <1>1, LeastNatural
<1>3. PICK x \in S : d = bound - x
  BY <1>2
<1>4. \A y \in S : x >= y
  <2> TAKE y \in S
  <2>1. bound - y \in short
    OBVIOUS
  <2>2. bound - x <= bound - y
    BY <1>2, <1>3, <2>1
  <2> QED BY <2>2
<1> QED BY <1>4 DEF Max

\* The greatest of some of the places.
LEMMA MaxOfPlaces ==
  ASSUME NEW n \in Nat, NEW s \in SUBSET (1..n), s # {}
  PROVE  Max(s) \in s /\ \A y \in s : Max(s) >= y
<1>1. s \in SUBSET Int /\ n \in Int /\ \A x \in s : x <= n
  OBVIOUS
<1> QED BY <1>1, MaxExists

\* The places of a sequence of length n, folded.
FoldsPlaces(g, n, base, step) ==
  \A s \in SUBSET (1..n) :
    g[s] = IF s = {} THEN base ELSE step[Max(s)][g[s \ {Max(s)}]]

\* A function that folds them.
LEMMA SequenceFolds ==
  ASSUME NEW n \in Nat, NEW V, NEW base \in V, NEW step \in [1..n -> [V -> V]]
  PROVE  \E g \in [SUBSET (1..n) -> V] : FoldsPlaces(g, n, base, step)
<1> DEFINE pick == [s \in SUBSET (1..n) |-> Max(s)]
<1>1. Picks(pick, 1..n)
  BY MaxOfPlaces DEF Picks
<1>2. \A s \in SUBSET (1..n) : pick[s] = Max(s)
  OBVIOUS
<1> HIDE DEF pick
<1>3. IsFiniteSet(1..n)
  <2>1. 1 \in Int /\ n \in Int
    OBVIOUS
  <2> QED BY <2>1, FS_Interval
<1>4. PICK g \in [SUBSET (1..n) -> V] : Folding(g, 1..n, base, pick, step)
  BY <1>1, <1>3, FoldExists
<1>5. ASSUME NEW s \in SUBSET (1..n)
      PROVE  g[s] = IF s = {} THEN base ELSE step[Max(s)][g[s \ {Max(s)}]]
  <2>1. g[s] = IF s = {} THEN base ELSE step[pick[s]][g[s \ {pick[s]}]]
    BY <1>4 DEF Folding
  <2> QED BY <1>2, <2>1
<1> QED BY <1>5 DEF FoldsPlaces

\* Two folds start alike, and step alike.
StepAlike(f, g, n) ==
  /\ f[{}] = g[{}]
  /\ \A s \in SUBSET (1..n) : s # {} =>
       (f[s \ {Max(s)}] = g[s \ {Max(s)}] => f[s] = g[s])

\* Then they agree.
LEMMA SameFold ==
  ASSUME NEW n \in Nat, NEW f, NEW g, StepAlike(f, g, n)
  PROVE  \A s \in SUBSET (1..n) : f[s] = g[s]
<1> USE DEF StepAlike
<1> DEFINE T == {s \in SUBSET (1..n) : f[s] = g[s]}
           pick == [s \in SUBSET (1..n) |-> Max(s)]
<1>1. IsFiniteSet(1..n)
  <2>1. 1 \in Int /\ n \in Int
    OBVIOUS
  <2> QED BY <2>1, FS_Interval
<1>2. Picks(pick, 1..n) /\ \A s \in SUBSET (1..n) : pick[s] = Max(s)
  BY MaxOfPlaces DEF Picks
<1> HIDE DEF pick
<1>3. Grows(T, 1..n, pick)
  BY <1>2 DEF Grows
<1> HIDE DEF T
<1>5. SUBSET (1..n) \subseteq T
  BY <1>1, <1>2, <1>3, SubsetInduction
<1> QED BY <1>5 DEF T

\* The function that FoldLeft defines for a sequence, for an operation given as a function.
Runs(g, h, V, base, op) ==
  /\ g \in [SUBSET (1..Len(h)) -> V]
  /\ \A s \in SUBSET (1..Len(h)) :
       g[s] = IF s = {} THEN base ELSE op[g[s \ {Max(s)}]][h[Max(s)]]

\* Every sequence has such a function.
LEMMA RunExists ==
  ASSUME NEW X, NEW h \in Seq(X), NEW V, NEW base \in V, NEW op \in [V -> [X -> V]]
  PROVE  \E g : Runs(g, h, V, base, op)
<1>1. PICK n \in Nat : n = Len(h)
  OBVIOUS
<1> DEFINE step == [i \in 1..n |-> [v \in V |-> op[v][h[i]]]]
<1>2. /\ step \in [1..n -> [V -> V]]
      /\ \A i \in 1..n, v \in V : step[i][v] = op[v][h[i]]
  <2>1. \A i \in 1..n : h[i] \in X
    BY <1>1
  <2> QED BY <2>1
<1> HIDE DEF step
<1>3. PICK g \in [SUBSET (1..n) -> V] : FoldsPlaces(g, n, base, step)
  BY <1>2, SequenceFolds
<1>4. ASSUME NEW s \in SUBSET (1..n), s # {}
      PROVE  step[Max(s)][g[s \ {Max(s)}]] = op[g[s \ {Max(s)}]][h[Max(s)]]
  <2>1. Max(s) \in 1..n
    BY <1>4, MaxOfPlaces
  <2>2. g[s \ {Max(s)}] \in V
    OBVIOUS
  <2> QED BY <1>2, <2>1, <2>2
<1>5. Runs(g, h, V, base, op)
  BY <1>1, <1>3, <1>4 DEF Runs, FoldsPlaces
<1> QED BY <1>5

\* One more element is one more operation.
LEMMA RunGrows ==
  ASSUME NEW X, NEW h \in Seq(X), NEW t \in X, NEW V, NEW base, NEW op,
         NEW f, Runs(f, h, V, base, op), NEW g, Runs(g, Append(h, t), V, base, op)
  PROVE  /\ f[1..Len(h)] \in V
         /\ g[1..Len(Append(h, t))] = op[f[1..Len(h)]][t]
<1>1. PICK n \in Nat : n = Len(h)
  OBVIOUS
<1>2. Len(Append(h, t)) = n + 1 /\ Append(h, t)[n + 1] = t
      /\ \A i \in 1..n : Append(h, t)[i] = h[i]
  BY <1>1
<1>3. \A s \in SUBSET (1..n) : s \in SUBSET (1..(n + 1))
  BY <1>1
<1>4. f[{}] = g[{}]
  BY DEF Runs
<1>5. ASSUME NEW s \in SUBSET (1..n), s # {}, f[s \ {Max(s)}] = g[s \ {Max(s)}]
      PROVE  f[s] = g[s]
  <2>1. Max(s) \in 1..n
    BY <1>5, MaxOfPlaces
  <2>2. f[s] = op[f[s \ {Max(s)}]][h[Max(s)]]
    BY <1>1, <1>5 DEF Runs
  <2>3. g[s] = op[g[s \ {Max(s)}]][Append(h, t)[Max(s)]]
    BY <1>2, <1>3, <1>5 DEF Runs
  <2> QED BY <1>2, <1>5, <2>1, <2>2, <2>3
<1>6. f[1..n] = g[1..n]
  <2>0. StepAlike(f, g, n)
    BY <1>4, <1>5 DEF StepAlike
  <2>1. \A s \in SUBSET (1..n) : f[s] = g[s]
    BY <2>0, SameFold
  <2> QED BY <2>1
<1> DEFINE all == 1..(n + 1)
<1>7. Max(all) = n + 1 /\ all \ {n + 1} = 1..n /\ all # {}
  <2>1. n + 1 \in all /\ n + 1 \in Nat
    BY <1>1
  <2>2. Max(all) \in all /\ \A y \in all : Max(all) >= y
    <3>1. all \in SUBSET (1..(n + 1))
      OBVIOUS
    <3> HIDE DEF all
    <3>2. all # {}
      BY <2>1
    <3> QED BY <2>1, <3>1, <3>2, MaxOfPlaces
  <2>3. Max(all) = n + 1
    BY <2>2
  <2>4. 1..(n + 1) = (1..n) \cup {n + 1} /\ n + 1 \notin 1..n
    BY <1>1
  <2> QED BY <2>1, <2>3, <2>4
<1>8. g[all] = op[g[all \ {Max(all)}]][Append(h, t)[Max(all)]]
  BY <1>2, <1>7 DEF Runs
<1>9. f[1..n] \in V
  BY <1>1 DEF Runs
<1> QED BY <1>1, <1>2, <1>6, <1>7, <1>8, <1>9

-----------------------------------------------------------------------------
(* Sums over a finite set, whose elements are picked in any order. *)

AnyOf(s) == CHOOSE x \in s : TRUE

\* The function that MapThenSumSet defines.
Sums(g, S, f) ==
  \A s \in SUBSET S : g[s] = IF s = {} THEN 0 ELSE f[AnyOf(s)] + g[s \ {AnyOf(s)}]

\* The summands are the same, but for one.
SameBut(k, S, f, e) == \A x \in S \ {k} : e[x] = f[x]

\* One sum is the other and a difference.
Shifted(g, h, S, difference) == g[S] \in Int /\ h[S] = g[S] + difference

\* Any element is one of them, and what is left is smaller.
LEMMA AnyPicks ==
  ASSUME NEW S
  PROVE  \E pick : Picks(pick, S) /\ \A s \in SUBSET S : pick[s] = AnyOf(s)
<1> DEFINE pick == [s \in SUBSET S |-> AnyOf(s)]
<1>1. Picks(pick, S) /\ \A s \in SUBSET S : pick[s] = AnyOf(s)
  BY DEF Picks, AnyOf
<1> QED BY <1>1

\* A finite set has sums.
LEMMA SumExists ==
  ASSUME NEW S, IsFiniteSet(S), NEW f \in [S -> Int]
  PROVE  \E g \in [SUBSET S -> Int] : Sums(g, S, f)
<1>1. PICK pick : Picks(pick, S) /\ \A s \in SUBSET S : pick[s] = AnyOf(s)
  BY AnyPicks
<1> DEFINE step == [x \in S |-> [n \in Int |-> f[x] + n]]
<1>2. step \in [S -> [Int -> Int]] /\ \A x \in S, n \in Int : step[x][n] = f[x] + n
  OBVIOUS
<1> HIDE DEF step
<1>3. PICK g \in [SUBSET S -> Int] : Folding(g, S, 0, pick, step)
  <2>1. 0 \in Int
    OBVIOUS
  <2> QED BY <1>1, <1>2, <2>1, FoldExists
<1>4. ASSUME NEW s \in SUBSET S, s # {} PROVE g[s] = f[AnyOf(s)] + g[s \ {AnyOf(s)}]
  <2>1. g[s] = step[pick[s]][g[s \ {pick[s]}]]
    BY <1>3, <1>4 DEF Folding
  <2>2. pick[s] = AnyOf(s) /\ AnyOf(s) \in S /\ g[s \ {AnyOf(s)}] \in Int
    BY <1>1, <1>4 DEF Picks
  <2> QED BY <1>2, <2>1, <2>2
<1>5. g[{}] = 0
  BY <1>3 DEF Folding
<1> QED BY <1>4, <1>5 DEF Sums

\* When one summand changes, so does every sum that has it, and by as much.
LEMMA SumShifts ==
  ASSUME NEW S, IsFiniteSet(S), NEW f \in [S -> Int], NEW e \in [S -> Int], NEW k \in S,
         SameBut(k, S, f, e), NEW g, Sums(g, S, f), NEW h, Sums(h, S, e)
  PROVE  Shifted(g, h, S, e[k] - f[k])
<1>1. PICK pick : Picks(pick, S) /\ \A s \in SUBSET S : pick[s] = AnyOf(s)
  BY AnyPicks
<1> DEFINE more(s) == IF k \in s THEN e[k] - f[k] ELSE 0
           T == {s \in SUBSET S : g[s] \in Int /\ h[s] = g[s] + more(s)}
<1>2. ASSUME NEW s \in SUBSET S, s # {}, s \ {pick[s]} \in T PROVE s \in T
  <2>1. PICK x \in s : x = pick[s] /\ x = AnyOf(s)
    BY <1>1, <1>2 DEF Picks
  <2> DEFINE r == s \ {x}
  <2>2. g[r] \in Int /\ h[r] = g[r] + more(r)
    BY <1>2, <2>1
  <2>3. g[s] = f[x] + g[r] /\ h[s] = e[x] + h[r]
    BY <1>2, <2>1 DEF Sums
  <2>4. f[x] \in Int /\ e[x] \in Int
    BY <1>2, <2>1
  <2>5. CASE x = k
    <3>1. more(r) = 0 /\ more(s) = e[k] - f[k]
      BY <2>1, <2>5
    <3> HIDE DEF more, r
    <3> QED BY <2>2, <2>3, <2>4, <2>5, <3>1
  <2>6. CASE x # k
    <3>1. more(r) = more(s) /\ e[x] = f[x]
      BY <1>2, <2>1, <2>6 DEF SameBut
    <3>2. more(s) \in Int
      OBVIOUS
    <3> HIDE DEF more, r
    <3> QED BY <2>2, <2>3, <2>4, <3>1, <3>2
  <2> QED BY <2>5, <2>6
<1>3. {} \in T
  <2>1. {} \in SUBSET S /\ g[{}] = 0 /\ h[{}] = 0
    BY Zenon DEF Sums
  <2>2. more({}) = 0
    OBVIOUS
  <2> HIDE DEF more
  <2> QED BY <2>1, <2>2
<1>4. Grows(T, S, pick)
  BY <1>2, <1>3 DEF Grows
<1> HIDE DEF T
<1>5. SUBSET S \subseteq T
  BY <1>1, <1>4, SubsetInduction
<1> QED BY <1>5 DEF T, Shifted

\* A sum of equals is a product.
LEMMA SumOfEquals ==
  ASSUME NEW S, IsFiniteSet(S), NEW c \in Int, NEW f, \A x \in S : f[x] = c, NEW g, Sums(g, S, f)
  PROVE  g[S] = Cardinality(S) * c
<1>1. PICK pick : Picks(pick, S) /\ \A s \in SUBSET S : pick[s] = AnyOf(s)
  BY AnyPicks
<1> DEFINE T == {s \in SUBSET S : g[s] = Cardinality(s) * c}
<1>2. ASSUME NEW s \in SUBSET S, s # {}, s \ {pick[s]} \in T PROVE s \in T
  <2>1. PICK x \in s : x = pick[s] /\ x = AnyOf(s)
    BY <1>1, <1>2 DEF Picks
  <2>2. PICK n \in Nat : n = Cardinality(s) /\ Cardinality(s \ {x}) = n - 1
    BY <1>2, OneLess
  <2>3. g[s \ {x}] = (n - 1) * c
    BY <1>2, <2>1, <2>2
  <2>4. g[s] = f[x] + g[s \ {x}] /\ f[x] = c
    BY <1>2, <2>1 DEF Sums
  <2>5. c + (n - 1) * c = n * c
    OBVIOUS
  <2> QED BY <2>2, <2>3, <2>4, <2>5
<1>3. {} \in T
  <2>1. g[{}] = 0
    BY DEF Sums
  <2>2. Cardinality({}) = 0 /\ 0 * c = 0
    BY FS_EmptySet
  <2> QED BY <2>1, <2>2
<1>4. Grows(T, S, pick)
  BY <1>2, <1>3 DEF Grows
<1> HIDE DEF T
<1>5. SUBSET S \subseteq T
  BY <1>1, <1>4, SubsetInduction
<1> QED BY <1>5 DEF T

-----------------------------------------------------------------------------
(* Recursion on a rank: a step asks for values of lower rank only. *)

Lower(D, rank, n) == {x \in D : rank[x] < n}

\* Functions that are the same on the lower ranks make the same step.
AsksLower(D, V, rank, step) ==
  \A x \in D : \A f, g \in [D -> V] :
    (\A y \in Lower(D, rank, rank[x]) : f[y] = g[y]) => step[<<x, f>>] = step[<<x, g>>]

SolvesBelow(f, D, rank, step, n) == \A x \in Lower(D, rank, n) : f[x] = step[<<x, f>>]

\* A recursion of such steps, whose ranks are bounded.
Recursion(D, V, rank, step, bound) ==
  /\ V # {} /\ bound \in Nat
  /\ rank \in [D -> Nat] /\ \A x \in D : rank[x] < bound
  /\ step \in [D \X [D -> V] -> V] /\ AsksLower(D, V, rank, step)

SolutionOf(f, D, V, step) == f \in [D -> V] /\ \A x \in D : f[x] = step[<<x, f>>]

\* It is defined.
LEMMA RecursionExists ==
  ASSUME NEW D, NEW V, NEW rank, NEW step, NEW bound, Recursion(D, V, rank, step, bound)
  PROVE  \E f : SolutionOf(f, D, V, step)
<1> USE DEF Recursion
<1> DEFINE T == {n \in Nat : \A f \in [D -> V] : ~SolvesBelow(f, D, rank, step, n)}
<1>1. ASSUME NEW n \in Nat, n \notin T PROVE n + 1 \notin T
  <2>1. PICK f \in [D -> V] : SolvesBelow(f, D, rank, step, n)
    BY <1>1
  <2> DEFINE g == [x \in D |-> IF rank[x] < n THEN f[x] ELSE step[<<x, f>>]]
  <2>2. g \in [D -> V] /\ \A x \in D : g[x] = step[<<x, f>>]
    BY <2>1 DEF SolvesBelow, Lower
  <2>3. \A x \in D : rank[x] < n => g[x] = f[x]
    OBVIOUS
  <2> HIDE DEF g
  <2>4. ASSUME NEW x \in Lower(D, rank, n + 1) PROVE g[x] = step[<<x, g>>]
    <3>1. x \in D /\ rank[x] \in Nat /\ rank[x] <= n
      BY <2>4 DEF Lower
    <3>2. \A y \in Lower(D, rank, rank[x]) : g[y] = f[y]
      BY <2>3, <3>1 DEF Lower
    <3>3. step[<<x, g>>] = step[<<x, f>>]
      BY <2>1, <2>2, <3>1, <3>2 DEF AsksLower
    <3> QED BY <2>2, <3>1, <3>3
  <2>5. SolvesBelow(g, D, rank, step, n + 1)
    BY <2>4 DEF SolvesBelow
  <2> QED BY <2>2, <2>5
<1>2. 0 \notin T
  <2>1. PICK v \in V : TRUE
    OBVIOUS
  <2>2. [x \in D |-> v] \in [D -> V]
    BY <2>1
  <2>3. Lower(D, rank, 0) = {}
    BY DEF Lower
  <2> QED BY <2>2, <2>3 DEF SolvesBelow
<1>3. T = {}
  <2> SUFFICES ASSUME T # {} PROVE FALSE
    OBVIOUS
  <2> HIDE DEF T
  <2>1. T \in SUBSET Nat
    BY DEF T
  <2>2. PICK n \in T : \A m \in T : n <= m
    BY <2>1, LeastNatural
  <2>3. n - 1 \in Nat /\ (n - 1) + 1 = n /\ ~(n <= n - 1)
    BY <1>2, <2>1, <2>2
  <2>4. n - 1 \notin T
    BY <2>2, <2>3
  <2>5. (n - 1) + 1 \notin T
    BY <1>1, <2>3, <2>4
  <2> QED BY <2>2, <2>3, <2>5
<1>4. PICK f \in [D -> V] : SolvesBelow(f, D, rank, step, bound)
  BY <1>3
<1> QED BY <1>4 DEF SolvesBelow, Lower, SolutionOf

\* What holds of a place when it holds of all places of lower rank holds of all places.
LEMMA RankInduction ==
  ASSUME NEW D, NEW rank \in [D -> Nat], NEW good \in SUBSET D,
         \A x \in D : Lower(D, rank, rank[x]) \subseteq good => x \in good
  PROVE  good = D
<1> DEFINE T == {rank[x] : x \in D \ good}
<1>1. T \in SUBSET Nat
  OBVIOUS
<1>2. T = {}
  <2> SUFFICES ASSUME T # {} PROVE FALSE
    OBVIOUS
  <2>1. PICK n \in T : \A m \in T : n <= m
    BY <1>1, LeastNatural
  <2>2. PICK x \in D \ good : n = rank[x]
    BY <2>1
  <2>3. ASSUME NEW y \in Lower(D, rank, rank[x]) PROVE y \in good
    <3>1. y \in D /\ rank[y] \in Nat /\ rank[x] \in Nat /\ rank[y] < rank[x]
      BY <2>3 DEF Lower
    <3>2. y \notin good => rank[y] \in T
      BY <3>1
    <3> QED BY <2>1, <2>2, <3>1, <3>2
  <2> QED BY <2>2, <2>3
<1> QED BY <1>2
=============================================================================
