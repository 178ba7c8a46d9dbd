------------------------------ MODULE StakeProofs ------------------------------
(***************************************************************************)
(* Facts about finite sets and about sums of stake (Stake), which the      *)
(* proofs about the signature aggregator and about the start-up checks     *)
(* rest on.  They hold for all arguments of the stated types; no variable  *)
(* occurs.                                                                 *)
(*                                                                         *)
(* What a fold or a maximum over a finite set returns is proved by         *)
(* induction on its subsets, in the form of the least counterexample       *)
(* (MinimalSubset).                                                        *)
(***************************************************************************)
EXTENDS Stake, Sequences, FiniteSetTheorems, WellFoundedInduction, TLAPS

\* Leaves are first-order and go to Zenon; those with arithmetic, and the larger ones, name SMT.
USE Zenon

------------------------------------------------------------------------------
(* Finite sets.                                                             *)

\* Some set of a non-empty collection of subsets of a finite set has no proper
\* subset in the collection.
LEMMA MinimalSubset ==
    ASSUME NEW S, IsFiniteSet(S), NEW Bad \in SUBSET SUBSET S, Bad # {}
    PROVE  \E T \in Bad : \A U \in Bad : U \subseteq T => U = T
<1>1. FiniteSubsetsOf(S) = SUBSET S
  BY FS_FiniteSubsetsOfFinite
<1>2. IsWellFoundedOn(StrictSubsetOrdering(S), SUBSET S)
  BY <1>1, FS_StrictSubsetOrderingWellFounded
<1>3. PICK T \in Bad : \A U \in Bad : ~ (<<U, T>> \in StrictSubsetOrdering(S))
  BY <1>2, WFMin
<1> QED BY <1>3 DEF StrictSubsetOrdering

\* A finite set that is not empty has a last element in every total order.
LEMMA LastElement ==
    ASSUME NEW R, NEW S, IsFiniteSet(S), S # {},
           \A x, y \in S : <<x, y>> \in R \/ <<y, x>> \in R,
           \A x, y, z \in S : <<x, y>> \in R /\ <<y, z>> \in R => <<x, z>> \in R
    PROVE  \E x \in S : \A y \in S : <<y, x>> \in R
<1> DEFINE HasLast(T) == \E x \in T : \A y \in T : <<y, x>> \in R
           Bad == {T \in SUBSET S : T # {} /\ ~ HasLast(T)}
<1> SUFFICES ASSUME Bad # {} PROVE FALSE
  <2>1. S \notin Bad => HasLast(S)
    OBVIOUS
  <2> HIDE DEF Bad
  <2> QED BY <2>1
<1>1. Bad \in SUBSET SUBSET S
  OBVIOUS
<1>2. PICK T \in Bad : \A U \in Bad : U \subseteq T => U = T
  <2> HIDE DEF Bad
  <2> QED BY <1>1, MinimalSubset, SMT
<1>3. T \in SUBSET S /\ T # {} /\ ~ HasLast(T)
  BY <1>2
<1>4. PICK x \in T : TRUE
  BY <1>3
<1>5. x \in S /\ T \ {x} \in SUBSET S /\ T \ {x} # T
  BY <1>3, <1>4
<1>6. T \ {x} = {} \/ HasLast(T \ {x})
  <2>1. T \ {x} \notin Bad
    <3> HIDE DEF Bad
    <3> QED BY <1>2, <1>5
  <2> QED BY <1>5, <2>1
<1>7. CASE T \ {x} = {}
  <2>1. \A y \in T : y = x
    BY <1>7
  <2>2. \A y \in T : <<y, x>> \in R
    BY <1>5, <2>1
  <2> QED BY <1>3, <1>4, <2>2
<1>8. CASE HasLast(T \ {x})
  <2>1. PICK z \in T \ {x} : \A y \in T \ {x} : <<y, z>> \in R
    BY <1>8
  <2>2. z \in T /\ z \in S /\ \A y \in T : y \in S
    BY <1>3, <2>1
  <2>3. CASE <<z, x>> \in R
    <3>1. ASSUME NEW y \in T PROVE <<y, x>> \in R
      <4>1. CASE y = x
        BY <1>5, <4>1
      <4>2. CASE y # x
        <5>1. <<y, z>> \in R /\ y \in S
          BY <2>1, <2>2, <4>2
        <5> QED BY <1>5, <2>2, <2>3, <5>1
      <4> QED BY <4>1, <4>2
    <3> QED BY <1>3, <1>4, <3>1
  <2>4. CASE <<x, z>> \in R
    <3>1. \A y \in T : <<y, z>> \in R
      BY <2>1, <2>4
    <3> QED BY <1>3, <2>2, <3>1
  <2> QED BY <1>5, <2>2, <2>3, <2>4
<1> QED BY <1>6, <1>7, <1>8

\* The indices of a sequence are finitely many numbers, its elements have its type.
LEMMA Indices ==
    ASSUME NEW T, NEW s \in Seq(T)
    PROVE  /\ IsFiniteSet(DOMAIN s) /\ DOMAIN s \in SUBSET Nat
           /\ \A i \in DOMAIN s : s[i] \in T
           /\ s # <<>> => 1 \in DOMAIN s
<1>1. DOMAIN s = 1 .. Len(s) /\ Len(s) \in Nat
  BY SMT
<1>2. IsFiniteSet(1 .. Len(s))
  BY <1>1, FS_Interval, SMT
<1>3. \A i \in 1 .. Len(s) : s[i] \in T
  BY SMT
<1>4. s # <<>> => 1 \in 1 .. Len(s)
  BY SMT
<1> QED BY <1>1, <1>2, <1>3, <1>4, SMT

\* The greatest of finitely many numbers is one of them.
LEMMA MaxElement ==
    ASSUME NEW S \in SUBSET Nat, IsFiniteSet(S), S # {}
    PROVE  Max(S) \in S
<1> DEFINE R == {p \in S \X S : p[1] <= p[2]}
<1>1. \A x, y \in S : <<x, y>> \in R <=> x <= y
  OBVIOUS
<1>2. \A x, y \in S : x <= y \/ y <= x
  BY SMT
<1>3. \A x, y, z \in S : x <= y /\ y <= z => x <= z
  BY SMT
<1> HIDE DEF R
<1>4. PICK x \in S : \A y \in S : <<y, x>> \in R
  <2>1. \A x, y \in S : <<x, y>> \in R \/ <<y, x>> \in R
    BY <1>1, <1>2
  <2>2. \A x, y, z \in S : <<x, y>> \in R /\ <<y, z>> \in R => <<x, z>> \in R
    BY <1>1, <1>3
  <2> QED BY <2>1, <2>2, LastElement
<1>5. \A y \in S : x >= y
  BY <1>1, <1>4
<1> QED BY <1>5 DEF Max

------------------------------------------------------------------------------
(* StakeOf: the sum does not depend on the order in which the loops visit   *)
(* the validators.                                                          *)

\* The element the fold takes out of a set next.
Pick(s) == CHOOSE x \in s : TRUE

\* g is the recursive function of the fold over S.
Solves(w, S, g) ==
    g = [s \in SUBSET S |-> IF s = {} THEN 0 ELSE w[Pick(s)] + g[s \ {Pick(s)}]]

\* The definition of the fold, unfolded.
LEMMA StakeOfDef ==
    ASSUME NEW w, NEW S
    PROVE  StakeOf(w, S) = (CHOOSE g : Solves(w, S, g))[S]
BY DEF StakeOf, MapThenSumSet, MapThenFoldSet, Solves, Pick

\* An element taken out of a set is in it and leaves a proper subset.
LEMMA PickType ==
    ASSUME NEW s, s # {}
    PROVE  Pick(s) \in s /\ s \ {Pick(s)} \subseteq s /\ s \ {Pick(s)} # s
<1>1. Pick(s) \in s
  BY DEF Pick
<1> QED BY <1>1

\* The sum over no elements.
LEMMA SolvesEmpty ==
    ASSUME NEW w, NEW S, NEW g, Solves(w, S, g)
    PROVE  g[{}] = 0
BY DEF Solves

\* One step of the recursion on a set that is not empty.
LEMMA SolvesStep ==
    ASSUME NEW w, NEW S, NEW g, Solves(w, S, g), NEW s \in SUBSET S, s # {}
    PROVE  g[s] = w[Pick(s)] + g[s \ {Pick(s)}]
BY DEF Solves

\* The recursion has at most one solution, and the one for a set is also the one
\* for its subsets.
LEMMA SolutionsAgree ==
    ASSUME NEW w, NEW v, NEW S, NEW T \in SUBSET S, IsFiniteSet(T), \A x \in T : w[x] = v[x],
           NEW g, Solves(w, S, g), NEW h, Solves(v, T, h)
    PROVE  \A s \in SUBSET T : g[s] = h[s]
<1> DEFINE Bad == {s \in SUBSET T : g[s] # h[s]}
<1> SUFFICES ASSUME Bad # {} PROVE FALSE
  OBVIOUS
<1>1. Bad \in SUBSET SUBSET T
  OBVIOUS
<1>2. PICK s \in Bad : \A U \in Bad : U \subseteq s => U = s
  <2> HIDE DEF Bad
  <2> QED BY <1>1, MinimalSubset, SMT
<1>3. s \in SUBSET T /\ s \in SUBSET S /\ g[s] # h[s]
  BY <1>2
<1>4. CASE s = {}
  BY <1>3, <1>4, SolvesEmpty
<1>5. CASE s # {}
  <2>1. s \ {Pick(s)} \in SUBSET T /\ s \ {Pick(s)} \notin Bad /\ Pick(s) \in T
    BY <1>2, <1>3, <1>5, PickType
  <2>2. g[s \ {Pick(s)}] = h[s \ {Pick(s)}] /\ w[Pick(s)] = v[Pick(s)]
    BY <2>1
  <2>3. g[s] = w[Pick(s)] + g[s \ {Pick(s)}]
    BY <1>3, <1>5, SolvesStep, SMT
  <2>4. h[s] = v[Pick(s)] + h[s \ {Pick(s)}]
    BY <1>3, <1>5, SolvesStep, SMTT(30)
  <2> QED BY <1>3, <2>2, <2>3, <2>4
<1> QED BY <1>4, <1>5

\* What the fold chooses is a solution, where there is one.
LEMMA StakeOfSolves ==
    ASSUME NEW w, NEW S, NEW g, Solves(w, S, g), IsFiniteSet(S)
    PROVE  StakeOf(w, S) = g[S]
<1> DEFINE f == CHOOSE h : Solves(w, S, h)
<1>1. Solves(w, S, f)
  OBVIOUS
<1> HIDE DEF f
<1>2. f[S] = g[S]
  BY <1>1, SolutionsAgree, SMT
<1> QED BY <1>2, StakeOfDef DEF f

\* The recursion has a solution.  In a least set without one, the sums over the
\* proper subsets make one up.
LEMMA SolutionExists ==
    ASSUME NEW w, NEW S, IsFiniteSet(S)
    PROVE  \E g : Solves(w, S, g)
<1> DEFINE Bad == {T \in SUBSET S : ~ \E g : Solves(w, T, g)}
<1> SUFFICES ASSUME Bad # {} PROVE FALSE
  OBVIOUS
<1>1. Bad \in SUBSET SUBSET S
  OBVIOUS
<1>2. PICK T \in Bad : \A U \in Bad : U \subseteq T => U = T
  <2> HIDE DEF Bad
  <2> QED BY <1>1, MinimalSubset, SMT
<1>3. T \in SUBSET S /\ ~ \E g : Solves(w, T, g)
  BY <1>2
<1>4. \A U \in SUBSET T : U # T => \E g : Solves(w, U, g)
  BY <1>2, <1>3
<1> HIDE DEF Bad
<1> DEFINE h == [s \in SUBSET T |-> IF s = {} THEN 0 ELSE w[Pick(s)] + StakeOf(w, s \ {Pick(s)})]
<1>5. ASSUME NEW U \in SUBSET T, U # T
      PROVE  h[U] = StakeOf(w, U)
  <2>1. PICK g : Solves(w, U, g)
    BY <1>4, <1>5
  <2>2. IsFiniteSet(U) /\ U \in SUBSET U
    BY <1>3, FS_Subset
  <2>3. StakeOf(w, U) = g[U]
    BY <2>1, <2>2, StakeOfSolves
  <2>4. CASE U = {}
    <3>1. h[U] = 0
      BY <2>4
    <3> QED BY <2>1, <2>3, <2>4, <3>1, SolvesEmpty
  <2>5. CASE U # {}
    <3> DEFINE V == U \ {Pick(U)}
    <3>1. V \in SUBSET U /\ V \in SUBSET T /\ V # T
      BY <2>5, PickType
    <3>2. PICK f : Solves(w, V, f)
      BY <1>4, <3>1
    <3>3. IsFiniteSet(V)
      BY <2>2, <3>1, FS_Subset
    <3>4. StakeOf(w, V) = f[V]
      BY <3>2, <3>3, StakeOfSolves
    <3>5. g[V] = f[V]
      <4>1. \A s \in SUBSET V : g[s] = f[s]
        <5> HIDE DEF V
        <5> QED BY <2>1, <3>1, <3>2, <3>3, SolutionsAgree, SMT
      <4> QED BY <4>1
    <3>6. g[U] = w[Pick(U)] + g[V]
      BY <2>1, <2>2, <2>5, SolvesStep, SMT
    <3>7. h[U] = w[Pick(U)] + StakeOf(w, V)
      BY <2>5
    <3> QED BY <2>3, <3>4, <3>5, <3>6, <3>7
  <2> QED BY <2>4, <2>5
<1>6. Solves(w, T, h)
  <2>1. ASSUME NEW s \in SUBSET T, s # {}
        PROVE  StakeOf(w, s \ {Pick(s)}) = h[s \ {Pick(s)}]
    <3>1. s \ {Pick(s)} \in SUBSET T /\ s \ {Pick(s)} # T
      BY <2>1, PickType
    <3> HIDE DEF h
    <3> QED BY <1>5, <3>1
  <2>2. h = [s \in SUBSET T |-> IF s = {} THEN 0 ELSE w[Pick(s)] + h[s \ {Pick(s)}]]
    BY <2>1
  <2> QED BY <2>2 DEF Solves
<1> QED BY <1>3, <1>6

\* The stake of no validators is zero ...
THEOREM StakeOfEmpty ==
    ASSUME NEW w
    PROVE  StakeOf(w, {}) = 0
<1>1. IsFiniteSet({})
  BY FS_EmptySet
<1>2. PICK g : Solves(w, {}, g)
  BY <1>1, SolutionExists
<1>3. StakeOf(w, {}) = g[{}]
  BY <1>1, <1>2, StakeOfSolves
<1> QED BY <1>2, <1>3, SolvesEmpty

\* ... and the stake of others that of the one visited first and of the rest.
LEMMA StakeOfPick ==
    ASSUME NEW w, NEW S, IsFiniteSet(S), S # {}
    PROVE  StakeOf(w, S) = w[Pick(S)] + StakeOf(w, S \ {Pick(S)})
<1> DEFINE T == S \ {Pick(S)}
<1>1. T \in SUBSET S /\ IsFiniteSet(T)
  BY FS_RemoveElement
<1>2. PICK g : Solves(w, S, g)
  BY SolutionExists
<1>3. PICK h : Solves(w, T, h)
  BY <1>1, SolutionExists
<1>4. StakeOf(w, S) = g[S] /\ StakeOf(w, T) = h[T]
  BY <1>1, <1>2, <1>3, StakeOfSolves
<1>5. g[S] = w[Pick(S)] + g[T]
  BY <1>2, SolvesStep, SMT
<1>6. g[T] = h[T]
  <2> HIDE DEF T
  <2> QED BY <1>1, <1>2, <1>3, SolutionsAgree, SMT
<1> QED BY <1>4, <1>5, <1>6

\* Weights that agree on a set give it the same stake.
LEMMA StakeOfSameWeights ==
    ASSUME NEW w, NEW v, NEW S, IsFiniteSet(S), \A x \in S : w[x] = v[x]
    PROVE  StakeOf(w, S) = StakeOf(v, S)
<1>1. PICK g : Solves(w, S, g)
  BY SolutionExists
<1>2. PICK h : Solves(v, S, h)
  BY SolutionExists
<1>3. g[S] = h[S]
  <2>1. S \in SUBSET S
    OBVIOUS
  <2>2. ASSUME NEW T \in SUBSET S, T = S
        PROVE  \A s \in SUBSET T : g[s] = h[s]
    <3>1. IsFiniteSet(T) /\ Solves(v, T, h) /\ \A x \in T : w[x] = v[x]
      BY <1>2, <2>2
    <3> QED BY <1>1, <3>1, SolutionsAgree, SMT
  <2> QED BY <2>1, <2>2
<1>4. StakeOf(w, S) = g[S] /\ StakeOf(v, S) = h[S]
  BY <1>1, <1>2, StakeOfSolves
<1> QED BY <1>3, <1>4

\* Stake is a natural number.
THEOREM StakeOfType ==
    ASSUME NEW w, NEW S, IsFiniteSet(S), \A x \in S : w[x] \in Nat
    PROVE  StakeOf(w, S) \in Nat
<1> DEFINE Bad == {T \in SUBSET S : StakeOf(w, T) \notin Nat}
<1> SUFFICES ASSUME Bad # {} PROVE FALSE
  OBVIOUS
<1>1. Bad \in SUBSET SUBSET S
  OBVIOUS
<1>2. PICK T \in Bad : \A U \in Bad : U \subseteq T => U = T
  <2> HIDE DEF Bad
  <2> QED BY <1>1, MinimalSubset, SMT
<1>3. T \in SUBSET S /\ StakeOf(w, T) \notin Nat /\ IsFiniteSet(T)
  BY <1>2, FS_Subset
<1>4. T # {}
  BY <1>3, StakeOfEmpty, SMT
<1>5. Pick(T) \in S /\ T \ {Pick(T)} \in SUBSET S /\ T \ {Pick(T)} \notin Bad
  BY <1>2, <1>3, <1>4, PickType
<1>6. w[Pick(T)] \in Nat /\ StakeOf(w, T \ {Pick(T)}) \in Nat
  BY <1>5
<1>7. StakeOf(w, T) = w[Pick(T)] + StakeOf(w, T \ {Pick(T)})
  BY <1>3, <1>4, StakeOfPick
<1> QED BY <1>3, <1>6, <1>7, SMT

\* The stake does not depend on the order of the visits: any element may be taken
\* out first.
LEMMA StakeOfRemove ==
    ASSUME NEW w, NEW S, IsFiniteSet(S), \A x \in S : w[x] \in Nat
    PROVE  \A y \in S : StakeOf(w, S) = w[y] + StakeOf(w, S \ {y})
<1> DEFINE Good(T) == \A y \in T : StakeOf(w, T) = w[y] + StakeOf(w, T \ {y})
           Bad == {T \in SUBSET S : ~ Good(T)}
<1> SUFFICES ASSUME Bad # {} PROVE FALSE
  OBVIOUS
<1>1. Bad \in SUBSET SUBSET S
  OBVIOUS
<1>2. PICK T \in Bad : \A U \in Bad : U \subseteq T => U = T
  <2> HIDE DEF Bad
  <2> QED BY <1>1, MinimalSubset, SMT
<1>3. T \in SUBSET S /\ ~ Good(T) /\ IsFiniteSet(T)
  BY <1>2, FS_Subset
<1>4. PICK y \in T : StakeOf(w, T) # w[y] + StakeOf(w, T \ {y})
  BY <1>3
<1> DEFINE x == Pick(T)
<1>5. x \in T /\ StakeOf(w, T) = w[x] + StakeOf(w, T \ {x})
  BY <1>3, <1>4, PickType, StakeOfPick
<1> HIDE DEF x
<1>6. x # y
  BY <1>4, <1>5
<1>7. Good(T \ {x}) /\ Good(T \ {y})
  <2>1. T \ {x} \in SUBSET S /\ T \ {x} \subseteq T /\ T \ {x} # T
    BY <1>3, <1>5
  <2>2. T \ {y} \in SUBSET S /\ T \ {y} \subseteq T /\ T \ {y} # T
    BY <1>3, <1>4
  <2> HIDE DEF Good
  <2> QED BY <1>2, <2>1, <2>2
<1>8. StakeOf(w, T \ {x}) = w[y] + StakeOf(w, (T \ {x}) \ {y})
  BY <1>6, <1>7
<1>9. StakeOf(w, T \ {y}) = w[x] + StakeOf(w, (T \ {y}) \ {x})
  BY <1>5, <1>6, <1>7
<1>10. (T \ {x}) \ {y} = (T \ {y}) \ {x}
  OBVIOUS
<1>11. w[x] \in Nat /\ w[y] \in Nat /\ StakeOf(w, (T \ {y}) \ {x}) \in Nat
  <2> DEFINE V == (T \ {y}) \ {x}
  <2>1. V \in SUBSET T /\ \A z \in V : w[z] \in Nat
    BY <1>3
  <2>2. IsFiniteSet(V)
    BY <1>3, <2>1, FS_Subset
  <2>3. StakeOf(w, V) \in Nat
    <3> HIDE DEF V
    <3> QED BY <2>1, <2>2, StakeOfType
  <2> QED BY <1>3, <1>4, <1>5, <2>3
<1> DEFINE rest == StakeOf(w, (T \ {y}) \ {x})
<1>12. StakeOf(w, T) = w[x] + (w[y] + rest) /\ StakeOf(w, T \ {y}) = w[x] + rest
  BY <1>5, <1>8, <1>9, <1>10
<1>13. StakeOf(w, T) = w[y] + StakeOf(w, T \ {y})
  <2>1. rest \in Nat
    BY <1>11
  <2> HIDE DEF rest
  <2> QED BY <1>11, <1>12, <2>1, SMT
<1> QED BY <1>4, <1>13

\* A validator more adds its weight, once.
LEMMA StakeOfAdd ==
    ASSUME NEW w, NEW S, IsFiniteSet(S), NEW y, \A x \in S \cup {y} : w[x] \in Nat
    PROVE  StakeOf(w, S \cup {y}) = IF y \in S THEN StakeOf(w, S) ELSE StakeOf(w, S) + w[y]
<1>1. CASE y \in S
  <2>1. S \cup {y} = S
    BY <1>1
  <2> QED BY <1>1, <2>1
<1>2. CASE y \notin S
  <2> DEFINE T == S \cup {y}
  <2>1. IsFiniteSet(T)
    BY FS_AddElement
  <2>2. T \ {y} = S /\ y \in T
    BY <1>2
  <2>3. StakeOf(w, T) = w[y] + StakeOf(w, T \ {y})
    <3>1. \A x \in T : w[x] \in Nat
      OBVIOUS
    <3> HIDE DEF T
    <3> QED BY <2>1, <2>2, <3>1, StakeOfRemove, SMT
  <2>4. StakeOf(w, S) \in Nat /\ w[y] \in Nat
    BY StakeOfType
  <2>5. StakeOf(w, T) = w[y] + StakeOf(w, S)
    BY <2>2, <2>3
  <2> QED BY <1>2, <2>4, <2>5, SMT
<1> QED BY <1>1, <1>2

\* A validator on its own has its weight.
THEOREM StakeOfSingleton ==
    ASSUME NEW w, NEW y, w[y] \in Nat
    PROVE  StakeOf(w, {y}) = w[y]
<1>1. IsFiniteSet({y}) /\ {y} # {} /\ Pick({y}) = y /\ {y} \ {y} = {}
  <2>1. IsFiniteSet({y})
    BY FS_Singleton
  <2>2. Pick({y}) = y
    BY PickType
  <2> QED BY <2>1, <2>2
<1>2. StakeOf(w, {y}) = w[y] + StakeOf(w, {})
  BY <1>1, StakeOfPick
<1> QED BY <1>2, StakeOfEmpty, SMT

\* A set with a validator of positive weight has stake.
THEOREM StakeOfPositive ==
    ASSUME NEW w, NEW S, IsFiniteSet(S), \A x \in S : w[x] \in Nat, NEW y \in S, w[y] > 0
    PROVE  StakeOf(w, S) > 0
<1>1. IsFiniteSet(S \ {y}) /\ \A x \in S \ {y} : w[x] \in Nat
  BY FS_RemoveElement
<1>2. StakeOf(w, S \ {y}) \in Nat
  BY <1>1, StakeOfType
<1>3. StakeOf(w, S) = w[y] + StakeOf(w, S \ {y})
  BY StakeOfRemove, SMT
<1> QED BY <1>2, <1>3, SMT

\* A larger set of validators has at least the stake of a smaller one.
THEOREM StakeOfSubset ==
    ASSUME NEW w, NEW S, IsFiniteSet(S), \A x \in S : w[x] \in Nat, NEW T \in SUBSET S
    PROVE  StakeOf(w, T) <= StakeOf(w, S)
<1> DEFINE Bad == {U \in SUBSET S : T \subseteq U /\ ~ (StakeOf(w, T) <= StakeOf(w, U))}
<1> SUFFICES ASSUME Bad # {} PROVE FALSE
  OBVIOUS
<1>1. Bad \in SUBSET SUBSET S
  OBVIOUS
<1>2. PICK U \in Bad : \A V \in Bad : V \subseteq U => V = U
  <2> HIDE DEF Bad
  <2> QED BY <1>1, MinimalSubset, SMT
<1>3. U \in SUBSET S /\ T \subseteq U /\ ~ (StakeOf(w, T) <= StakeOf(w, U))
  BY <1>2
<1>4. IsFiniteSet(U) /\ IsFiniteSet(T) /\ \A x \in U : w[x] \in Nat
  BY <1>3, FS_Subset
<1>5. StakeOf(w, T) \in Nat
  BY <1>3, <1>4, StakeOfType
<1>6. PICK y \in U : y \notin T
  <2>1. StakeOf(w, T) <= StakeOf(w, T)
    BY <1>5, SMT
  <2>2. U # T
    BY <1>3, <2>1
  <2> QED BY <1>3, <2>2
<1>7. U \ {y} \in SUBSET S /\ T \subseteq U \ {y} /\ U \ {y} # U
  BY <1>3, <1>6
<1>8. StakeOf(w, T) <= StakeOf(w, U \ {y})
  <2>1. U \ {y} \notin Bad
    <3> HIDE DEF Bad
    <3> QED BY <1>2, <1>7
  <2> QED BY <1>7, <2>1
<1>9. StakeOf(w, U) = w[y] + StakeOf(w, U \ {y})
  BY <1>4, <1>6, StakeOfRemove, SMT
<1>10. w[y] \in Nat /\ StakeOf(w, U \ {y}) \in Nat
  <2>1. IsFiniteSet(U \ {y}) /\ \A x \in U \ {y} : w[x] \in Nat
    BY <1>4, FS_RemoveElement
  <2> QED BY <1>4, <1>6, <2>1, StakeOfType
<1> QED BY <1>3, <1>5, <1>8, <1>9, <1>10, SMT

\* A quorum stays one when validators join it: once the weight of the signatures
\* passes CheckStakeWeightExceedsThreshold, more signatures cannot make it fail.
THEOREM QuorumGrows ==
    ASSUME NEW w, NEW S, IsFiniteSet(S), \A x \in S : w[x] \in Nat, NEW T \in SUBSET S,
           NEW total \in Nat, NEW numerator \in Nat, NEW denominator \in Nat,
           CheckStakeWeightExceedsThreshold(StakeOf(w, T), total, numerator, denominator)
    PROVE  CheckStakeWeightExceedsThreshold(StakeOf(w, S), total, numerator, denominator)
<1>1. StakeOf(w, T) <= StakeOf(w, S)
  BY StakeOfSubset
<1>2. StakeOf(w, S) \in Nat /\ StakeOf(w, T) \in Nat
  <2>1. IsFiniteSet(T)
    BY FS_Subset
  <2> QED BY <2>1, StakeOfType
<1>3. \A d, a, b \in Nat : a <= b => d * a <= d * b
  BY SMT
<1>4. denominator * StakeOf(w, T) <= denominator * StakeOf(w, S)
  BY <1>1, <1>2, <1>3
<1>5. /\ total * numerator \in Nat
      /\ denominator * StakeOf(w, T) \in Nat
      /\ denominator * StakeOf(w, S) \in Nat
  BY <1>2, SMT
<1>6. total * numerator <= denominator * StakeOf(w, T)
  BY DEF CheckStakeWeightExceedsThreshold
<1>7. total * numerator <= denominator * StakeOf(w, S)
  <2>1. \A a, b, c \in Nat : a <= b /\ b <= c => a <= c
    BY SMT
  <2> QED BY <1>4, <1>5, <1>6, <2>1
<1> QED BY <1>7 DEF CheckStakeWeightExceedsThreshold
================================================================================
