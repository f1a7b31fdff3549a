----------------------------- MODULE SumTheorems -----------------------------
(***************************************************************************)
(* What SumFunctionOnSet of module Functions computes for every function   *)
(* of natural numbers and every finite set of arguments. The operator is   *)
(* a fold, defined by a recursive function over the subsets of the set;    *)
(* the facts are proved by induction over those subsets, in the form "no   *)
(* subset is a minimal counterexample".                                    *)
(***************************************************************************)
EXTENDS Functions, FiniteSetTheorems, TLAPS

\* Induction over the subsets of a finite set, for a property given by the
\* set Q of the subsets that have it.
LEMMA SubsetInduction ==
  ASSUME NEW S, IsFiniteSet(S), NEW Q,
         \A s \in SUBSET S : (\A t \in SUBSET s : t # s => t \in Q) => s \in Q
  PROVE  S \in Q
<1> SUFFICES ASSUME S \notin Q
             PROVE  FALSE
  OBVIOUS
<1> DEFINE Bad == {s \in SUBSET S : s \notin Q}
<1>1. FiniteSubsetsOf(S) = SUBSET S
  BY FS_FiniteSubsetsOfFinite
<1>2. Bad \subseteq FiniteSubsetsOf(S) /\ Bad # {}
  BY <1>1
<1>3. IsWellFoundedOn(StrictSubsetOrdering(S), FiniteSubsetsOf(S))
  BY FS_StrictSubsetOrderingWellFounded
<1> HIDE DEF Bad
<1>4. \E s \in Bad : \A t \in Bad : ~ (<<t, s>> \in StrictSubsetOrdering(S))
  BY <1>2, <1>3, WFMin
<1> USE DEF Bad
<1>5. PICK s \in Bad : \A t \in Bad : ~ (<<t, s>> \in StrictSubsetOrdering(S))
  BY <1>4, Zenon
<1>6. \A t \in SUBSET s : t # s => t \in Q
  BY <1>5 DEF StrictSubsetOrdering
<1> QED
  BY <1>5, <1>6

-----------------------------------------------------------------------------
(* The recursive function behind the operator.                             *)

Pick(s) == CHOOSE x \in s : TRUE

SumStep(f, g, s) == IF s = {} THEN 0 ELSE f[Pick(s)] + g[s \ {Pick(s)}]

IsSumOf(g, f, S) == g = [s \in SUBSET S |-> SumStep(f, g, s)]

\* At most one function satisfies the recursion, wherever it is defined.
LEMMA SumOfUnique ==
  ASSUME NEW S, IsFiniteSet(S), NEW f, NEW T, NEW U, S \subseteq T, S \subseteq U,
         NEW g, IsSumOf(g, f, T), NEW h, IsSumOf(h, f, U)
  PROVE  g[S] = h[S]
<1> DEFINE Q == {s \in SUBSET S : g[s] = h[s]}
<1>1. ASSUME NEW s \in SUBSET S, \A t \in SUBSET s : t # s => t \in Q
      PROVE  s \in Q
  <2>1. s \in SUBSET T /\ s \in SUBSET U
    OBVIOUS
  <2>2. g[s] = SumStep(f, g, s) /\ h[s] = SumStep(f, h, s)
    BY <2>1 DEF IsSumOf
  <2>3. CASE s = {}
    BY <2>2, <2>3 DEF SumStep
  <2>4. CASE s # {}
    <3>1. Pick(s) \in s
      BY <2>4 DEF Pick
    <3>2. s \ {Pick(s)} \in Q
      BY <3>1, <1>1
    <3> QED
      BY <2>2, <2>4, <3>2 DEF SumStep
  <2> QED
    BY <2>3, <2>4
<1> HIDE DEF Q
<1>2. S \in Q
  BY <1>1, SubsetInduction
<1> QED
  BY <1>2 DEF Q

\* And some function does.
LEMMA SumOfExists ==
  ASSUME NEW S, IsFiniteSet(S), NEW f
  PROVE  \E g : IsSumOf(g, f, S)
<1> DEFINE Q == {s \in SUBSET S : \E g : IsSumOf(g, f, s)}
           G(s) == CHOOSE g : IsSumOf(g, f, s)
<1>1. ASSUME NEW s \in SUBSET S, \A t \in SUBSET s : t # s => t \in Q
      PROVE  s \in Q
  <2>1. \A t \in SUBSET s : t # s => IsSumOf(G(t), f, t)
    BY <1>1
  <2> HIDE DEF G
  <2> DEFINE smaller == [t \in SUBSET s |-> IF t = s THEN 0 ELSE G(t)[t]]
             h == [t \in SUBSET s |-> SumStep(f, smaller, t)]
  <2>2. ASSUME NEW t \in SUBSET s, t # s
        PROVE  h[t] = smaller[t]
    <3>1. IsSumOf(G(t), f, t) /\ t \in SUBSET t
      BY <2>1, <2>2
    <3>2. G(t)[t] = SumStep(f, G(t), t)
      BY <3>1 DEF IsSumOf
    <3>3. CASE t = {}
      BY <3>2, <3>3, <2>2 DEF SumStep
    <3>4. CASE t # {}
      <4> DEFINE r == t \ {Pick(t)}
      <4>1. Pick(t) \in t
        BY <3>4 DEF Pick
      <4>2. r \in SUBSET s /\ r # s /\ r \subseteq t
        BY <4>1
      <4>3. IsSumOf(G(r), f, r) /\ IsFiniteSet(r)
        BY <4>2, <2>1, FS_Subset
      <4>4. G(t)[r] = G(r)[r]
        BY <4>2, <4>3, <3>1, SumOfUnique
      <4>5. smaller[r] = G(r)[r]
        BY <4>2
      <4>6. smaller[t] = G(t)[t] /\ h[t] = SumStep(f, smaller, t)
        BY <2>2
      <4> QED
        BY <4>4, <4>5, <4>6, <3>2, <3>4 DEF SumStep
    <3> QED
      BY <3>3, <3>4
  <2>3. ASSUME NEW t \in SUBSET s
        PROVE  h[t] = SumStep(f, h, t)
    <3>1. CASE t = {}
      BY <3>1 DEF SumStep
    <3>2. CASE t # {}
      <4> DEFINE r == t \ {Pick(t)}
      <4>1. Pick(t) \in t
        BY <3>2 DEF Pick
      <4>2. r \in SUBSET s /\ r # s
        BY <4>1
      <4>3. h[r] = smaller[r]
        BY <4>2, <2>2
      <4>4. h[t] = SumStep(f, smaller, t)
        OBVIOUS
      <4> HIDE DEF h, smaller
      <4> QED
        BY <4>3, <4>4, <3>2 DEF SumStep
    <3> QED
      BY <3>1, <3>2
  <2>4. h = [t \in SUBSET s |-> h[t]]
    OBVIOUS
  <2> HIDE DEF h
  <2>5. IsSumOf(h, f, s)
    BY <2>3, <2>4 DEF IsSumOf
  <2> QED
    BY <2>5
<1> HIDE DEF Q
<1>2. S \in Q
  BY <1>1, SubsetInduction
<1> QED
  BY <1>2 DEF Q

\* The operator is that function's value at the whole set.
LEMMA SumOfValue ==
  ASSUME NEW S, IsFiniteSet(S), NEW f
  PROVE  \E g : IsSumOf(g, f, S) /\ SumFunctionOnSet(f, S) = g[S]
<1>1. \E g : IsSumOf(g, f, S)
  BY SumOfExists
<1> QED
  BY <1>1 DEF IsSumOf, SumStep, Pick, SumFunctionOnSet, FoldFunctionOnSet, MapThenFoldSet

-----------------------------------------------------------------------------
(* The facts to cite.                                                      *)

\* The sum over no elements is zero.
THEOREM SumEmpty ==
  ASSUME NEW f
  PROVE  SumFunctionOnSet(f, {}) = 0
<1>1. PICK g : IsSumOf(g, f, {}) /\ SumFunctionOnSet(f, {}) = g[{}]
  BY SumOfValue, FS_EmptySet
<1> QED
  BY <1>1 DEF IsSumOf, SumStep

\* The equation of the fold, for the element it takes first.
LEMMA SumUnfold ==
  ASSUME NEW S, IsFiniteSet(S), S # {}, NEW f
  PROVE  /\ Pick(S) \in S
         /\ SumFunctionOnSet(f, S) = f[Pick(S)] + SumFunctionOnSet(f, S \ {Pick(S)})
<1> DEFINE R == S \ {Pick(S)}
<1>1. Pick(S) \in S
  BY DEF Pick
<1>2. IsFiniteSet(R)
  BY FS_Subset
<1>3. PICK g : IsSumOf(g, f, S) /\ SumFunctionOnSet(f, S) = g[S]
  BY SumOfValue
<1>4. PICK h : IsSumOf(h, f, R) /\ SumFunctionOnSet(f, R) = h[R]
  BY <1>2, SumOfValue
<1>5. g[R] = h[R]
  BY <1>2, <1>3, <1>4, SumOfUnique
<1>6. g[S] = SumStep(f, g, S)
  BY <1>3 DEF IsSumOf
<1> QED
  BY <1>1, <1>3, <1>4, <1>5, <1>6 DEF SumStep

\* A sum of natural numbers is one.
THEOREM SumType ==
  ASSUME NEW S, IsFiniteSet(S), NEW f, \A x \in S : f[x] \in Nat
  PROVE  SumFunctionOnSet(f, S) \in Nat
<1> DEFINE Q == {s \in SUBSET S : SumFunctionOnSet(f, s) \in Nat}
<1>1. ASSUME NEW s \in SUBSET S, \A t \in SUBSET s : t # s => t \in Q
      PROVE  s \in Q
  <2>1. CASE s = {}
    BY <2>1, SumEmpty
  <2>2. CASE s # {}
    <3>1. IsFiniteSet(s)
      BY FS_Subset
    <3>2. Pick(s) \in s /\ SumFunctionOnSet(f, s)
                             = f[Pick(s)] + SumFunctionOnSet(f, s \ {Pick(s)})
      BY <2>2, <3>1, SumUnfold
    <3>3. s \ {Pick(s)} \in Q
      BY <3>2, <1>1
    <3>4. f[Pick(s)] \in Nat /\ SumFunctionOnSet(f, s \ {Pick(s)}) \in Nat
      BY <3>2, <3>3
    <3> QED
      BY <3>2, <3>4
  <2> QED
    BY <2>1, <2>2
<1> HIDE DEF Q
<1>2. S \in Q
  BY <1>1, SubsetInduction
<1> QED
  BY <1>2 DEF Q

\* Any element may be taken out of the sum.
THEOREM SumRemove ==
  ASSUME NEW S, IsFiniteSet(S), NEW f, \A x \in S : f[x] \in Nat, NEW e \in S
  PROVE  SumFunctionOnSet(f, S) = f[e] + SumFunctionOnSet(f, S \ {e})
<1> DEFINE Q == {s \in SUBSET S :
                   \A x \in s : SumFunctionOnSet(f, s) = f[x] + SumFunctionOnSet(f, s \ {x})}
<1>1. ASSUME NEW s \in SUBSET S, \A t \in SUBSET s : t # s => t \in Q
      PROVE  s \in Q
  <2> SUFFICES ASSUME NEW x \in s
               PROVE  SumFunctionOnSet(f, s) = f[x] + SumFunctionOnSet(f, s \ {x})
    OBVIOUS
  <2> DEFINE p == Pick(s)
             rest == s \ {p, x}
  <2>1. IsFiniteSet(s) /\ IsFiniteSet(s \ {x}) /\ IsFiniteSet(rest)
    BY FS_Subset
  <2>2. p \in s /\ SumFunctionOnSet(f, s) = f[p] + SumFunctionOnSet(f, s \ {p})
    BY <2>1, SumUnfold
  <2>3. CASE p = x
    BY <2>2, <2>3
  <2>4. CASE p # x
    <3>1. s \ {p} \in Q /\ s \ {x} \in Q
      BY <2>2, <1>1
    <3>2. x \in s \ {p} /\ (s \ {p}) \ {x} = rest
      BY <2>4
    <3>3. p \in s \ {x} /\ (s \ {x}) \ {p} = rest
      BY <2>4, <2>2
    <3>4. SumFunctionOnSet(f, s \ {p}) = f[x] + SumFunctionOnSet(f, rest)
      BY <3>1, <3>2
    <3>5. SumFunctionOnSet(f, s \ {x}) = f[p] + SumFunctionOnSet(f, rest)
      BY <3>1, <3>3
    <3>6. f[x] \in Nat /\ f[p] \in Nat
      BY <2>2
    <3>7. SumFunctionOnSet(f, rest) \in Nat
      BY <2>1, SumType
    <3> HIDE DEF p, rest
    <3> QED
      BY <2>2, <3>4, <3>5, <3>6, <3>7
  <2> QED
    BY <2>3, <2>4
<1> HIDE DEF Q
<1>2. S \in Q
  BY <1>1, SubsetInduction
<1> QED
  BY <1>2 DEF Q

\* The sum depends on the function's values on the set, and nothing else.
THEOREM SumAgree ==
  ASSUME NEW S, IsFiniteSet(S), NEW f, NEW g, \A x \in S : f[x] = g[x]
  PROVE  SumFunctionOnSet(f, S) = SumFunctionOnSet(g, S)
<1> DEFINE Q == {s \in SUBSET S : SumFunctionOnSet(f, s) = SumFunctionOnSet(g, s)}
<1>1. ASSUME NEW s \in SUBSET S, \A t \in SUBSET s : t # s => t \in Q
      PROVE  s \in Q
  <2>1. CASE s = {}
    BY <2>1, SumEmpty
  <2>2. CASE s # {}
    <3>1. IsFiniteSet(s)
      BY FS_Subset
    <3>2. /\ Pick(s) \in s
          /\ SumFunctionOnSet(f, s) = f[Pick(s)] + SumFunctionOnSet(f, s \ {Pick(s)})
          /\ SumFunctionOnSet(g, s) = g[Pick(s)] + SumFunctionOnSet(g, s \ {Pick(s)})
      BY <2>2, <3>1, SumUnfold
    <3>3. s \ {Pick(s)} \in Q
      BY <3>2, <1>1
    <3> QED
      BY <3>2, <3>3
  <2> QED
    BY <2>1, <2>2
<1> HIDE DEF Q
<1>2. S \in Q
  BY <1>1, SubsetInduction
<1> QED
  BY <1>2 DEF Q

\* Changing the value at one argument changes the sum by the same amount.
THEOREM SumUpdate ==
  ASSUME NEW S, IsFiniteSet(S), NEW f, NEW g, NEW e \in S,
         \A x \in S : f[x] \in Nat, g[e] \in Nat, \A x \in S \ {e} : g[x] = f[x]
  PROVE  SumFunctionOnSet(g, S) + f[e] = SumFunctionOnSet(f, S) + g[e]
<1>1. \A x \in S : g[x] \in Nat
  OBVIOUS
<1>2. IsFiniteSet(S \ {e})
  BY FS_Subset
<1>3. SumFunctionOnSet(f, S \ {e}) = SumFunctionOnSet(g, S \ {e})
  BY <1>2, SumAgree
<1>4. SumFunctionOnSet(f, S) = f[e] + SumFunctionOnSet(f, S \ {e})
  BY SumRemove
<1>5. SumFunctionOnSet(g, S) = g[e] + SumFunctionOnSet(g, S \ {e})
  BY <1>1, SumRemove
<1>6. f[e] \in Nat /\ SumFunctionOnSet(f, S \ {e}) \in Nat
  BY <1>2, SumType
<1> QED
  BY <1>3, <1>4, <1>5, <1>6

\* A sum of zeros is zero.
THEOREM SumZero ==
  ASSUME NEW S, IsFiniteSet(S), NEW f, \A x \in S : f[x] = 0
  PROVE  SumFunctionOnSet(f, S) = 0
<1> DEFINE Q == {s \in SUBSET S : SumFunctionOnSet(f, s) = 0}
<1>1. ASSUME NEW s \in SUBSET S, \A t \in SUBSET s : t # s => t \in Q
      PROVE  s \in Q
  <2>1. CASE s = {}
    BY <2>1, SumEmpty
  <2>2. CASE s # {}
    <3>1. IsFiniteSet(s)
      BY FS_Subset
    <3>2. Pick(s) \in s /\ SumFunctionOnSet(f, s)
                             = f[Pick(s)] + SumFunctionOnSet(f, s \ {Pick(s)})
      BY <2>2, <3>1, SumUnfold
    <3>3. s \ {Pick(s)} \in Q
      BY <3>2, <1>1
    <3> QED
      BY <3>2, <3>3
  <2> QED
    BY <2>1, <2>2
<1> HIDE DEF Q
<1>2. S \in Q
  BY <1>1, SubsetInduction
<1> QED
  BY <1>2 DEF Q

\* The sum of the first n + 1 values is that of the first n and the next.
THEOREM SumNext ==
  ASSUME NEW n \in Nat, NEW f, \A i \in 1..(n + 1) : f[i] \in Nat
  PROVE  SumFunctionOnSet(f, 1..(n + 1)) = SumFunctionOnSet(f, 1..n) + f[n + 1]
<1>1. IsFiniteSet(1..(n + 1)) /\ IsFiniteSet(1..n)
  BY FS_Interval
<1>2. n + 1 \in 1..(n + 1) /\ (1..(n + 1)) \ {n + 1} = 1..n
  OBVIOUS
<1>3. SumFunctionOnSet(f, 1..(n + 1)) = f[n + 1] + SumFunctionOnSet(f, 1..n)
  BY <1>1, <1>2, SumRemove
<1>4. f[n + 1] \in Nat /\ SumFunctionOnSet(f, 1..n) \in Nat
  BY <1>1, <1>2, SumType
<1> QED
  BY <1>3, <1>4
=============================================================================
