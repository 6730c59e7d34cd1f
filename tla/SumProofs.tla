------------------------------ MODULE SumProofs ------------------------------
(***************************************************************************)
(* Sums over a finite set, as SumFunction of the module Functions computes *)
(* them.                                                                   *)
(*                                                                         *)
(* The code never adds up balances: it keeps a supply next to them, and    *)
(* the invariants compare the two. SumFunction is a recursive function on  *)
(* the subsets of a domain. That the recursion has a solution, and that    *)
(* the order in which it takes the elements does not matter, is proved by  *)
(* strong induction on subsets (SubsetInduction), stated with a set of     *)
(* sets where an induction rule would have a predicate.                    *)
(***************************************************************************)
EXTENDS Integers, FiniteSetsExt, FiniteSetTheorems, WellFoundedInduction, TLAPS

pick(s) == CHOOSE x \in s : TRUE

\* The sum of s, given the sums h of smaller sets.
sumStep(f, h, s) == IF s = {} THEN 0 ELSE f[pick(s)] + h[s \ {pick(s)}]

\* h gives the sum of every subset of T.
Sums(f, T, h) == h = [s \in SUBSET T |-> sumStep(f, h, s)]

sumsOf(f, T) == CHOOSE h : Sums(f, T, h)

sumOver(f, T) == sumsOf(f, T)[T]

-----------------------------------------------------------------------------
(* The recursion has one solution                                          *)

\* Strong induction: a collection G that contains a subset of S whenever it
\* contains all that is strictly smaller contains every subset of S.
LEMMA SubsetInduction ==
    ASSUME NEW S, IsFiniteSet(S), NEW G,
           \A T \in SUBSET S : (\A U \in SUBSET T : U # T => U \in G) => T \in G
    PROVE  \A T \in SUBSET S : T \in G
<1> DEFINE R   == StrictSubsetOrdering(S)
           Bad == {T \in SUBSET S : T \notin G}
<1>1. IsWellFoundedOn(R, SUBSET S)
  BY FS_StrictSubsetOrderingWellFounded, FS_FiniteSubsetsOfFinite
<1>2. SUFFICES ASSUME Bad # {} PROVE FALSE
  OBVIOUS
<1>3. PICK T \in Bad : \A U \in Bad : ~ (<<U, T>> \in R)
  <2>1. Bad \subseteq SUBSET S
    OBVIOUS
  <2> HIDE DEF Bad, R
  <2> QED
    BY <1>1, <1>2, <2>1, WFMin
<1>4. ASSUME NEW U \in SUBSET T, U # T
      PROVE  U \in G
  <2>1. <<U, T>> \in R
    BY <1>4 DEF StrictSubsetOrdering
  <2> QED
    BY <1>3, <1>4, <2>1
<1> QED
  BY <1>3, <1>4

\* An element taken out leaves a smaller set.
LEMMA PickSmaller ==
    ASSUME NEW s, s # {}
    PROVE  pick(s) \in s /\ s \ {pick(s)} \in SUBSET s /\ s \ {pick(s)} # s
  BY DEF pick

\* The sums of the subsets of T are sums of the subsets of a part of T.
LEMMA SumsOfPart ==
    ASSUME NEW f, NEW T, NEW U \in SUBSET T, NEW h, Sums(f, T, h),
           NEW k, k = [s \in SUBSET U |-> h[s]]
    PROVE  Sums(f, U, k)
<1>1. ASSUME NEW s \in SUBSET U
      PROVE  k[s] = sumStep(f, k, s)
  <2>1. s \in SUBSET T /\ k[s] = h[s]
    OBVIOUS
  <2>2. h[s] = sumStep(f, h, s)
    BY <2>1 DEF Sums
  <2>3. CASE s = {}
    BY <2>1, <2>2, <2>3 DEF sumStep
  <2>4. CASE s # {}
    <3>1. s \ {pick(s)} \in SUBSET U
      BY PickSmaller, <2>4
    <3>2. k[s \ {pick(s)}] = h[s \ {pick(s)}]
      BY <3>1
    <3> QED
      BY <2>1, <2>2, <3>2 DEF sumStep
  <2> QED
    BY <2>3, <2>4
<1>2. k = [s \in SUBSET U |-> k[s]]
  OBVIOUS
<1>3. k = [s \in SUBSET U |-> sumStep(f, k, s)]
  BY <1>1, <1>2
<1> QED
  BY <1>3 DEF Sums

\* There is at most one way to give the sums.
LEMMA SumsUnique ==
    ASSUME NEW f, NEW T, IsFiniteSet(T), NEW g, Sums(f, T, g), NEW h, Sums(f, T, h)
    PROVE  g = h
<1> DEFINE G == {s \in SUBSET T : g[s] = h[s]}
<1>1. ASSUME NEW s \in SUBSET T, \A U \in SUBSET s : U # s => U \in G
      PROVE  s \in G
  <2>1. g[s] = sumStep(f, g, s) /\ h[s] = sumStep(f, h, s)
    BY DEF Sums
  <2>2. CASE s = {}
    BY <2>1, <2>2 DEF sumStep
  <2>3. CASE s # {}
    <3>1. s \ {pick(s)} \in G
      BY <1>1, <2>3, PickSmaller
    <3> QED
      BY <2>1, <3>1 DEF sumStep
  <2> QED
    BY <2>2, <2>3
<1>2. \A s \in SUBSET T : s \in G
  <2> HIDE DEF G
  <2> QED
    BY <1>1, SubsetInduction
<1>3. g = [s \in SUBSET T |-> g[s]] /\ h = [s \in SUBSET T |-> h[s]]
  BY DEF Sums
<1> QED
  BY <1>2, <1>3

\* What the sums of T say of a part is the sum of that part.
LEMMA SumOfPart ==
    ASSUME NEW f, NEW T, NEW U \in SUBSET T, IsFiniteSet(U),
           Sums(f, T, sumsOf(f, T)), Sums(f, U, sumsOf(f, U))
    PROVE  sumsOf(f, T)[U] = sumOver(f, U)
<1> DEFINE k == [s \in SUBSET U |-> sumsOf(f, T)[s]]
<1>1. k = [s \in SUBSET U |-> sumsOf(f, T)[s]] /\ k[U] = sumsOf(f, T)[U]
  OBVIOUS
<1> HIDE DEF k
<1>2. Sums(f, U, k)
  BY <1>1, SumsOfPart
<1>3. k = sumsOf(f, U)
  BY <1>2, SumsUnique
<1> QED
  BY <1>1, <1>3 DEF sumOver

\* There is one: the sums of T from those of its parts.
LEMMA SumsExist ==
    ASSUME NEW f, NEW S, IsFiniteSet(S)
    PROVE  \A T \in SUBSET S : \E h : Sums(f, T, h)
<1> DEFINE G == {T \in SUBSET S : \E h : Sums(f, T, h)}
<1>1. ASSUME NEW T \in SUBSET S, \A U \in SUBSET T : U # T => U \in G
      PROVE  T \in G
  <2> DEFINE h == [s \in SUBSET T |-> IF s = T THEN sumStep(f, [U \in SUBSET T |-> sumOver(f, U)], T)
                                      ELSE sumOver(f, s)]
  <2>1. ASSUME NEW U \in SUBSET T, U # T
        PROVE  Sums(f, U, sumsOf(f, U)) /\ IsFiniteSet(U)
    <3>1. \E k : Sums(f, U, k)
      BY <1>1, <2>1
    <3> QED
      BY <3>1, FS_Subset DEF sumsOf
  <2>2. ASSUME NEW s \in SUBSET T
        PROVE  h[s] = sumStep(f, h, s)
    <3>1. CASE s = {} /\ s # T
      <4>1. sumOver(f, {}) = 0
        <5>1. Sums(f, {}, sumsOf(f, {}))
          BY <2>1, <3>1
        <5> QED
          BY <5>1 DEF Sums, sumOver, sumStep
      <4> QED
        BY <3>1, <4>1 DEF sumStep
    <3>2. CASE s = {} /\ s = T
      BY <3>2 DEF sumStep
    <3>3. CASE s # {}
      <4> DEFINE r == s \ {pick(s)}
      <4>1. r \in SUBSET s /\ r # s /\ r \in SUBSET T /\ r # T
        BY <3>3, PickSmaller
      <4>2. h[r] = sumOver(f, r)
        BY <4>1
      <4>3. CASE s = T
        <5>1. h[s] = f[pick(s)] + sumOver(f, r)
          BY <3>3, <4>1, <4>3 DEF sumStep
        <5> QED
          BY <3>3, <4>2, <5>1 DEF sumStep
      <4>4. CASE s # T
        <5>1. Sums(f, s, sumsOf(f, s)) /\ IsFiniteSet(s)
          BY <2>1, <4>4
        <5>2. Sums(f, r, sumsOf(f, r)) /\ IsFiniteSet(r)
          BY <2>1, <4>1
        <5>3. sumsOf(f, s)[r] = sumOver(f, r)
          BY <4>1, <5>1, <5>2, SumOfPart
        <5>4. sumOver(f, s) = sumStep(f, sumsOf(f, s), s)
          BY <5>1 DEF Sums, sumOver
        <5>5. h[s] = sumOver(f, s)
          BY <4>4
        <5> QED
          BY <3>3, <4>2, <5>3, <5>4, <5>5 DEF sumStep
      <4> QED
        BY <4>3, <4>4
    <3> QED
      BY <3>1, <3>2, <3>3
  <2>3. h = [s \in SUBSET T |-> h[s]]
    OBVIOUS
  <2> HIDE DEF h
  <2>4. h = [s \in SUBSET T |-> sumStep(f, h, s)]
    BY <2>2, <2>3
  <2> QED
    BY <2>4 DEF Sums
<1>2. \A T \in SUBSET S : T \in G
  <2> HIDE DEF G
  <2> QED
    BY <1>1, SubsetInduction
<1> QED
  BY <1>2

\* What sumOver computes: nothing adds up to zero, and one element is added to
\* the sum of the others.
LEMMA SumEquation ==
    ASSUME NEW f, NEW S, IsFiniteSet(S)
    PROVE  /\ S = {} => sumOver(f, S) = 0
           /\ S # {} => sumOver(f, S) = f[pick(S)] + sumOver(f, S \ {pick(S)})
<1>1. ASSUME NEW T \in SUBSET S
      PROVE  Sums(f, T, sumsOf(f, T)) /\ IsFiniteSet(T)
  <2>1. \E h : Sums(f, T, h)
    BY SumsExist
  <2> QED
    BY <2>1, FS_Subset DEF sumsOf
<1>2. sumOver(f, S) = sumStep(f, sumsOf(f, S), S)
  BY <1>1 DEF Sums, sumOver
<1>3. CASE S = {}
  BY <1>2, <1>3 DEF sumStep
<1>4. CASE S # {}
  <2> DEFINE r == S \ {pick(S)}
  <2>1. r \in SUBSET S
    OBVIOUS
  <2>2. sumsOf(f, S)[r] = sumOver(f, r)
    BY <1>1, <2>1, SumOfPart
  <2> QED
    BY <1>2, <1>4, <2>2 DEF sumStep
<1> QED
  BY <1>3, <1>4

-----------------------------------------------------------------------------
(* Sums of natural numbers                                                 *)

\* A sum of natural numbers is one.
LEMMA SumNat ==
    ASSUME NEW S, IsFiniteSet(S), NEW f, \A x \in S : f[x] \in Nat
    PROVE  sumOver(f, S) \in Nat
<1> DEFINE G == {T \in SUBSET S : sumOver(f, T) \in Nat}
<1>1. ASSUME NEW T \in SUBSET S, \A U \in SUBSET T : U # T => U \in G
      PROVE  T \in G
  <2>1. IsFiniteSet(T)
    BY FS_Subset
  <2>2. CASE T = {}
    <3>1. sumOver(f, T) = 0
      BY <2>1, <2>2, SumEquation
    <3> QED
      BY <3>1
  <2>3. CASE T # {}
    <3>1. pick(T) \in T /\ T \ {pick(T)} \in G
      BY <1>1, <2>3, PickSmaller
    <3> QED
      BY <2>1, <2>3, <3>1, SumEquation
  <2> QED
    BY <2>2, <2>3
<1>2. \A T \in SUBSET S : T \in G
  <2> HIDE DEF G
  <2> QED
    BY <1>1, SubsetInduction
<1> QED
  BY <1>2

\* The sums of functions that agree on a set agree.
LEMMA SumSame ==
    ASSUME NEW S, IsFiniteSet(S), NEW f, NEW g, \A x \in S : f[x] = g[x]
    PROVE  sumOver(f, S) = sumOver(g, S)
<1> DEFINE G == {T \in SUBSET S : sumOver(f, T) = sumOver(g, T)}
<1>1. ASSUME NEW T \in SUBSET S, \A U \in SUBSET T : U # T => U \in G
      PROVE  T \in G
  <2>1. IsFiniteSet(T)
    BY FS_Subset
  <2>2. CASE T = {}
    BY <2>1, <2>2, SumEquation
  <2>3. CASE T # {}
    <3>1. pick(T) \in S /\ T \ {pick(T)} \in G
      BY <1>1, <2>3, PickSmaller
    <3>2. /\ sumOver(f, T) = f[pick(T)] + sumOver(f, T \ {pick(T)})
          /\ sumOver(g, T) = g[pick(T)] + sumOver(g, T \ {pick(T)})
      BY <2>1, <2>3, SumEquation
    <3> QED
      BY <3>1, <3>2
  <2> QED
    BY <2>2, <2>3
<1>2. \A T \in SUBSET S : T \in G
  <2> HIDE DEF G
  <2> QED
    BY <1>1, SubsetInduction
<1> QED
  BY <1>2

\* Any element can be taken out of a sum first, not only the chosen one.
LEMMA SumTakes ==
    ASSUME NEW S, IsFiniteSet(S), NEW f, \A x \in S : f[x] \in Nat, NEW x \in S
    PROVE  sumOver(f, S) = f[x] + sumOver(f, S \ {x})
<1> DEFINE G == {T \in SUBSET S :
                   \A y \in T : sumOver(f, T) = f[y] + sumOver(f, T \ {y})}
<1>1. ASSUME NEW T \in SUBSET S, \A U \in SUBSET T : U # T => U \in G
      PROVE  T \in G
  <2> SUFFICES ASSUME NEW y \in T
               PROVE  sumOver(f, T) = f[y] + sumOver(f, T \ {y})
    OBVIOUS
  <2> DEFINE p == pick(T)
  <2>1. IsFiniteSet(T) /\ p \in T
    BY FS_Subset, PickSmaller
  <2>2. sumOver(f, T) = f[p] + sumOver(f, T \ {p})
    BY <2>1, SumEquation
  <2> HIDE DEF p
  <2>3. CASE y = p
    BY <2>2, <2>3
  <2>4. CASE y # p
    <3>1. T \ {p} \in G /\ T \ {y} \in G
      BY <1>1, <2>1, <2>4
    <3>2. sumOver(f, T \ {p}) = f[y] + sumOver(f, (T \ {p}) \ {y})
      BY <2>4, <3>1
    <3>3. sumOver(f, T \ {y}) = f[p] + sumOver(f, (T \ {y}) \ {p})
      BY <2>1, <2>4, <3>1
    <3>4. (T \ {p}) \ {y} = (T \ {y}) \ {p}
      OBVIOUS
    <3>5. IsFiniteSet((T \ {y}) \ {p}) /\ (T \ {y}) \ {p} \in SUBSET S
      BY FS_Subset
    <3>6. sumOver(f, (T \ {y}) \ {p}) \in Nat
      BY <3>5, SumNat
    <3>7. f[y] \in Nat /\ f[p] \in Nat
      BY <2>1
    <3> QED
      BY <2>2, <3>2, <3>3, <3>4, <3>6, <3>7
  <2> QED
    BY <2>3, <2>4
<1>2. \A T \in SUBSET S : T \in G
  <2> HIDE DEF G
  <2> QED
    BY <1>1, SubsetInduction
<1> QED
  BY <1>2

\* No element exceeds the sum.
LEMMA SumBound ==
    ASSUME NEW S, IsFiniteSet(S), NEW f, \A z \in S : f[z] \in Nat, NEW x \in S
    PROVE  f[x] <= sumOver(f, S)
<1>1. IsFiniteSet(S \ {x})
  BY FS_RemoveElement
<1>2. sumOver(f, S \ {x}) \in Nat /\ sumOver(f, S) = f[x] + sumOver(f, S \ {x})
  BY <1>1, SumNat, SumTakes
<1>3. f[x] \in Nat
  OBVIOUS
<1> QED
  BY <1>2, <1>3

\* Changing one element changes the sum by as much.
LEMMA SumUpdate ==
    ASSUME NEW S, IsFiniteSet(S), NEW f, \A z \in S : f[z] \in Nat, NEW x \in S,
           NEW g, \A z \in S : g[z] \in Nat, \A z \in S \ {x} : g[z] = f[z]
    PROVE  sumOver(g, S) = sumOver(f, S) - f[x] + g[x]
<1>1. IsFiniteSet(S \ {x})
  BY FS_RemoveElement
<1>2. sumOver(f, S \ {x}) \in Nat /\ sumOver(g, S \ {x}) = sumOver(f, S \ {x})
  BY <1>1, SumNat, SumSame
<1>3. /\ sumOver(f, S) = f[x] + sumOver(f, S \ {x})
      /\ sumOver(g, S) = g[x] + sumOver(g, S \ {x})
  BY SumTakes
<1>4. f[x] \in Nat /\ g[x] \in Nat
  OBVIOUS
<1> QED
  BY <1>2, <1>3, <1>4

\* An element that becomes zero leaves the sum of the others.
LEMMA SumDropped ==
    ASSUME NEW S, IsFiniteSet(S), NEW f, \A z \in S : f[z] \in Nat, NEW x, x \in S,
           NEW g, g[x] = 0, \A z \in S \ {x} : g[z] = f[z]
    PROVE  sumOver(g, S) = sumOver(f, S) - f[x]
<1>1. \A z \in S : g[z] \in Nat
  OBVIOUS
<1>2. sumOver(g, S) = sumOver(f, S) - f[x] + g[x]
  BY <1>1, SumUpdate
<1>3. sumOver(f, S) \in Nat /\ f[x] \in Nat
  BY SumNat
<1> QED
  BY <1>2, <1>3

\* Zeros add up to zero.
LEMMA SumZero ==
    ASSUME NEW S, IsFiniteSet(S)
    PROVE  sumOver([x \in S |-> 0], S) = 0
<1> DEFINE f == [x \in S |-> 0]
           G == {T \in SUBSET S : sumOver(f, T) = 0}
<1>1. ASSUME NEW T \in SUBSET S, \A U \in SUBSET T : U # T => U \in G
      PROVE  T \in G
  <2>1. IsFiniteSet(T)
    BY FS_Subset
  <2>2. CASE T = {}
    <3>1. sumOver(f, T) = 0
      BY <2>1, <2>2, SumEquation
    <3> QED
      BY <3>1
  <2>3. CASE T # {}
    <3>1. pick(T) \in T /\ T \ {pick(T)} \in G
      BY <1>1, <2>3, PickSmaller
    <3>2. f[pick(T)] = 0
      BY <3>1
    <3> HIDE DEF f
    <3>3. sumOver(f, T) = f[pick(T)] + sumOver(f, T \ {pick(T)})
      BY <2>1, <2>3, SumEquation
    <3> QED
      BY <3>1, <3>2, <3>3
  <2> QED
    BY <2>2, <2>3
<1>2. \A T \in SUBSET S : T \in G
  <2> HIDE DEF G
  <2> QED
    BY <1>1, SubsetInduction
<1> QED
  BY <1>2

\* Larger summands have a larger sum.
LEMMA SumMonotone ==
    ASSUME NEW S, IsFiniteSet(S), NEW f, \A x \in S : f[x] \in Nat,
           NEW g, \A x \in S : g[x] \in Nat, \A x \in S : f[x] <= g[x]
    PROVE  sumOver(f, S) <= sumOver(g, S)
<1> DEFINE G == {T \in SUBSET S : sumOver(f, T) <= sumOver(g, T)}
<1>1. ASSUME NEW T \in SUBSET S, \A U \in SUBSET T : U # T => U \in G
      PROVE  T \in G
  <2>1. IsFiniteSet(T)
    BY FS_Subset
  <2>2. CASE T = {}
    <3>1. sumOver(f, T) = 0 /\ sumOver(g, T) = 0
      BY <2>1, <2>2, SumEquation
    <3> QED
      BY <3>1
  <2>3. CASE T # {}
    <3> DEFINE p == pick(T)
               r == T \ {p}
    <3>1. p \in S /\ r \in G /\ IsFiniteSet(r) /\ r \in SUBSET S
      BY <1>1, <2>1, <2>3, PickSmaller, FS_Subset
    <3>2. sumOver(f, r) \in Nat /\ sumOver(g, r) \in Nat
      BY <3>1, SumNat
    <3>3. sumOver(f, T) = f[p] + sumOver(f, r) /\ sumOver(g, T) = g[p] + sumOver(g, r)
      BY <2>1, <2>3, SumEquation
    <3>4. f[p] \in Nat /\ g[p] \in Nat /\ f[p] <= g[p] /\ sumOver(f, r) <= sumOver(g, r)
      BY <3>1
    <3> QED
      BY <3>2, <3>3, <3>4
  <2> QED
    BY <2>2, <2>3
<1>2. \A T \in SUBSET S : T \in G
  <2> HIDE DEF G
  <2> QED
    BY <1>1, SubsetInduction
<1> QED
  BY <1>2

-----------------------------------------------------------------------------

\* sumOver is what the invariants write as SumFunction.
LEMMA SumIsSumFunction ==
    ASSUME NEW f
    PROVE  SumFunction(f) = sumOver(f, DOMAIN f)
  BY DEF SumFunction, SumFunctionOnSet, FoldFunctionOnSet, MapThenFoldSet,
         sumOver, sumsOf, Sums, sumStep, pick

=============================================================================
