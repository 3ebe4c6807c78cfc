----------------------------- MODULE SetTheorems -----------------------------
(* What three operators of the community modules return, for every finite set: *)
(* SumFunctionOnSet, the sums of grams, of amounts and of votes that the       *)
(* invariants of this project are about, and Max and Min, the last of some     *)
(* blocks and the first free row of a table.  The sum is a recursion over the  *)
(* subsets of the index set that always takes out the element CHOOSE picks.    *)
(* The proofs argue by a smallest subset for which a claim fails, since the    *)
(* subsets of a finite set are well founded.                                   *)
EXTENDS Integers, FiniteSetsExt, FiniteSetTheorems, TLAPS

\* The element the recursion takes out of s, and one step of the recursion.
SumPicked(s) == CHOOSE x \in s : TRUE
SumStep(f, g, s) == IF s = {} THEN 0 ELSE f[SumPicked(s)] + g[s \ {SumPicked(s)}]

\* g is the function the recursion defines on the subsets of S.
SumSolves(f, g, S) == g = [s \in SUBSET S |-> SumStep(f, g, s)]
SumSolution(f, S) == CHOOSE g : SumSolves(f, g, S)

-----------------------------------------------------------------------------
(* The recursion defines a function *)

\* The sum is the value at S of whatever function satisfies the recursion.
LEMMA SumIsSolution ==
  ASSUME NEW f, NEW S
  PROVE  SumFunctionOnSet(f, S) = SumSolution(f, S)[S]
BY Zenon DEF SumFunctionOnSet, FoldFunctionOnSet, MapThenFoldSet, SumSolution, SumSolves, SumStep, SumPicked

\* Of any subsets of a finite set one is smallest: it includes no other of them.
LEMMA SmallestSubset ==
  ASSUME NEW S, IsFiniteSet(S), NEW B, B \subseteq SUBSET S, B # {}
  PROVE  \E m \in B : \A n \in B : n \subseteq m => n = m
<1>1. IsWellFoundedOn(StrictSubsetOrdering(S), FiniteSubsetsOf(S))
  BY FS_StrictSubsetOrderingWellFounded
<1>2. B \subseteq FiniteSubsetsOf(S)
  BY FS_Subset DEF FiniteSubsetsOf
<1>3. PICK m \in B : \A n \in B : ~ (<<n, m>> \in StrictSubsetOrdering(S))
  BY <1>1, <1>2, WFMin
<1>4. ASSUME NEW n \in B, n \subseteq m, n # m PROVE FALSE
  <2>1. <<n, m>> \in StrictSubsetOrdering(S)
    BY <1>4 DEF StrictSubsetOrdering
  <2> QED BY <2>1, <1>3
<1> QED BY <1>4, <1>3

\* Two solutions of the recursion, on two sets, agree on the subsets they share.
LEMMA SolutionsAgree ==
  ASSUME NEW f, NEW g, NEW h, NEW S, NEW T,
         SumSolves(f, g, S), SumSolves(f, h, T),
         NEW V \in SUBSET S, V \in SUBSET T, IsFiniteSet(V)
  PROVE  g[V] = h[V]
<1> DEFINE B == {W \in SUBSET V : g[W] # h[W]}
<1> SUFFICES ASSUME B # {} PROVE FALSE
  OBVIOUS
<1>1. PICK m \in B : \A n \in B : n \subseteq m => n = m
  <2>1. B \subseteq SUBSET V /\ B # {}
    OBVIOUS
  <2> HIDE DEF B
  <2> QED BY <2>1, SmallestSubset
<1>2. g[m] = SumStep(f, g, m) /\ h[m] = SumStep(f, h, m)
  BY DEF SumSolves
<1>3. CASE m = {}
  BY <1>2, <1>3 DEF SumStep
<1>4. CASE m # {}
  <2> DEFINE c == SumPicked(m)
             n == m \ {c}
  <2>1. c \in m
    BY <1>4 DEF SumPicked
  <2>2. n \subseteq m /\ n # m
    BY <2>1
  <2> HIDE DEF c
  <2>3. n \notin B
    BY <1>1, <2>2
  <2>4. g[n] = h[n]
    BY <2>3, <2>2
  <2> QED BY <1>2, <1>4, <2>4 DEF SumStep, c
<1> QED BY <1>3, <1>4

\* The recursion has a solution on every finite set: on a smallest set without one,
\* the solutions on its parts would make one.
LEMMA SolutionExists ==
  ASSUME NEW f, NEW S, IsFiniteSet(S)
  PROVE  SumSolves(f, SumSolution(f, S), S)
<1> DEFINE Has(T) == \E g : SumSolves(f, g, T)
           B == {T \in SUBSET S : ~ Has(T)}
<1>0. \A T : Has(T) => SumSolves(f, SumSolution(f, T), T)
  BY DEF SumSolution
<1> SUFFICES ASSUME B # {} PROVE FALSE
  BY <1>0
<1>1. PICK m \in B : \A n \in B : n \subseteq m => n = m
  <2>1. B \subseteq SUBSET S /\ B # {}
    OBVIOUS
  <2> HIDE DEF B
  <2> QED BY <2>1, SmallestSubset
<1>2. \A U \in SUBSET m : U # m => SumSolves(f, SumSolution(f, U), U)
  <2>1. \A U \in SUBSET m : U # m => U \notin B /\ U \in SUBSET S
    <3> HIDE DEF Has
    <3> QED BY <1>1
  <2> QED BY <1>0, <2>1
<1> DEFINE At(U) == SumSolution(f, U)[U]
           last == m \ {SumPicked(m)}
           h == [U \in SUBSET m |->
                   IF U = m THEN IF m = {} THEN 0 ELSE f[SumPicked(m)] + At(last) ELSE At(U)]
<1>3. ASSUME NEW U \in SUBSET m
      PROVE  h[U] = SumStep(f, h, U)
  <2>1. CASE U = {}
    <3>1. CASE m = {}
      BY <2>1, <3>1 DEF SumStep
    <3>2. CASE m # {}
      BY <2>1, <3>2, <1>2 DEF SumStep, SumSolves
    <3> QED BY <3>1, <3>2
  <2>2. CASE U # {}
    <3> DEFINE c == SumPicked(U)
               n == U \ {c}
    <3>1. c \in U /\ n \in SUBSET U /\ n \in SUBSET m /\ n # m /\ n \in SUBSET n
      BY <2>2 DEF SumPicked
    <3>2. h[n] = At(n)
      BY <3>1
    <3>3. CASE U = m
      BY <2>2, <3>3, <3>2 DEF SumStep
    <3>4. CASE U # m
      <4>1. h[U] = At(U)
        BY <3>4
      <4>2. At(U) = SumStep(f, SumSolution(f, U), U)
        BY <1>2, <3>4 DEF SumSolves
      <4>3. SumSolves(f, SumSolution(f, U), U) /\ SumSolves(f, SumSolution(f, n), n)
        BY <1>2, <3>4, <3>1
      <4>4. IsFiniteSet(n)
        <5>1. n \in SUBSET S
          BY <3>1
        <5> QED BY <5>1, FS_Subset
      <4>5. SumSolution(f, U)[n] = At(n)
        <5> HIDE DEF c, n
        <5> QED BY <4>3, <4>4, <3>1, SolutionsAgree
      <4> QED BY <4>1, <4>2, <4>5, <3>2, <2>2 DEF SumStep
    <3> QED BY <3>3, <3>4
  <2> QED BY <2>1, <2>2
<1>4. h = [U \in SUBSET m |-> SumStep(f, h, U)]
  <2> DEFINE k == [U \in SUBSET m |-> SumStep(f, h, U)]
  <2>1. \A U \in SUBSET m : h[U] = k[U]
    BY <1>3
  <2>2. DOMAIN h = SUBSET m /\ h = [U \in DOMAIN h |-> h[U]]
    OBVIOUS
  <2>3. DOMAIN k = SUBSET m /\ k = [U \in DOMAIN k |-> k[U]]
    OBVIOUS
  <2> HIDE DEF h
  <2>4. [U \in SUBSET m |-> h[U]] = [U \in SUBSET m |-> k[U]]
    BY <2>1
  <2> QED BY <2>2, <2>3, <2>4
<1>5. Has(m)
  <2> HIDE DEF h
  <2> QED BY <1>4 DEF SumSolves
<1> QED BY <1>5, <1>1

-----------------------------------------------------------------------------
(* What the sum is *)

\* The equation of the recursion, now of the sum itself.
LEMMA SumUnfold ==
  ASSUME NEW f, NEW S, IsFiniteSet(S)
  PROVE  SumFunctionOnSet(f, S)
           = IF S = {} THEN 0 ELSE f[SumPicked(S)] + SumFunctionOnSet(f, S \ {SumPicked(S)})
<1>1. SumSolves(f, SumSolution(f, S), S)
  BY SolutionExists
<1>2. SumSolution(f, S)[S] = SumStep(f, SumSolution(f, S), S)
  BY <1>1 DEF SumSolves
<1>3. CASE S # {}
  <2> DEFINE n == S \ {SumPicked(S)}
  <2>1. n \in SUBSET S /\ n \in SUBSET n /\ IsFiniteSet(n)
    BY FS_Subset
  <2>2. SumSolves(f, SumSolution(f, n), n)
    BY <2>1, SolutionExists
  <2>3. SumSolution(f, S)[n] = SumSolution(f, n)[n]
    <3> HIDE DEF n
    <3> QED BY <1>1, <2>1, <2>2, SolutionsAgree
  <2> QED BY <1>2, <1>3, <2>3, SumIsSolution DEF SumStep
<1>4. CASE S = {}
  BY <1>2, <1>4, SumIsSolution DEF SumStep
<1> QED BY <1>3, <1>4

\* The sum over no index is 0.
LEMMA SumOfNone ==
  ASSUME NEW f
  PROVE  SumFunctionOnSet(f, {}) = 0
BY SumUnfold, FS_EmptySet

\* Some element can be taken out: the step the inductive arguments below make.
LEMMA SumByOne ==
  ASSUME NEW f, NEW S, IsFiniteSet(S), S # {}
  PROVE  \E c \in S : /\ IsFiniteSet(S \ {c})
                      /\ SumFunctionOnSet(f, S) = f[c] + SumFunctionOnSet(f, S \ {c})
<1>1. SumPicked(S) \in S
  BY DEF SumPicked
<1>2. IsFiniteSet(S \ {SumPicked(S)})
  BY FS_Subset
<1>3. SumFunctionOnSet(f, S) = f[SumPicked(S)] + SumFunctionOnSet(f, S \ {SumPicked(S)})
  BY SumUnfold
<1> QED BY <1>1, <1>2, <1>3

\* A sum of integers is an integer.
LEMMA SumIsInt ==
  ASSUME NEW f, NEW S, IsFiniteSet(S), \A x \in S : f[x] \in Int
  PROVE  SumFunctionOnSet(f, S) \in Int
<1> DEFINE B == {T \in SUBSET S : SumFunctionOnSet(f, T) \notin Int}
<1> SUFFICES ASSUME B # {} PROVE FALSE
  BY DEF B
<1>1. PICK m \in B : \A n \in B : n \subseteq m => n = m
  <2>1. B \subseteq SUBSET S
    OBVIOUS
  <2> HIDE DEF B
  <2> QED BY <2>1, SmallestSubset
<1>2. m # {}
  <2> SUFFICES ASSUME m = {} PROVE FALSE
    OBVIOUS
  <2> QED BY SumOfNone
<1> IsFiniteSet(m)
  BY FS_Subset
<1>3. PICK c \in m : SumFunctionOnSet(f, m) = f[c] + SumFunctionOnSet(f, m \ {c})
  BY <1>2, SumByOne
<1>4. SumFunctionOnSet(f, m \ {c}) \in Int
  BY <1>1
<1> QED BY <1>3, <1>4


\* Any element can be taken out, not only the one the recursion chooses: the order of
\* the terms does not matter.
LEMMA SumPick ==
  ASSUME NEW f, NEW S, IsFiniteSet(S), \A x \in S : f[x] \in Int, NEW x \in S
  PROVE  SumFunctionOnSet(f, S) = f[x] + SumFunctionOnSet(f, S \ {x})
<1> DEFINE Picks(T, y) == SumFunctionOnSet(f, T) = f[y] + SumFunctionOnSet(f, T \ {y})
           B == {T \in SUBSET S : \E y \in T : ~ Picks(T, y)}
<1> SUFFICES ASSUME B # {} PROVE FALSE
  <2> HIDE DEF Picks
  <2>1. S \notin B
    OBVIOUS
  <2>2. Picks(S, x)
    BY <2>1
  <2> QED BY <2>2 DEF Picks
<1>1. PICK m \in B : \A n \in B : n \subseteq m => n = m
  <2>1. B \subseteq SUBSET S
    OBVIOUS
  <2> HIDE DEF B
  <2> QED BY <2>1, SmallestSubset
<1>2. PICK y \in m : ~ Picks(m, y)
  <2> HIDE DEF Picks
  <2> QED OBVIOUS
<1> IsFiniteSet(m)
  BY FS_Subset
<1>3. PICK c \in m : Picks(m, c)
  BY <1>2, SumByOne
<1>4. c # y
  <2> HIDE DEF Picks
  <2> QED BY <1>2, <1>3
<1>5. \A n \in SUBSET S : n \subseteq m /\ n # m => \A z \in n : Picks(n, z)
  <2> HIDE DEF Picks
  <2> QED BY <1>1
<1>6. Picks(m \ {c}, y) /\ Picks(m \ {y}, c)
  <2> HIDE DEF Picks
  <2> QED BY <1>5, <1>4
<1>7. (m \ {c}) \ {y} = (m \ {y}) \ {c}
  OBVIOUS
<1> DEFINE rest == SumFunctionOnSet(f, (m \ {c}) \ {y})
<1>8. rest \in Int /\ f[c] \in Int /\ f[y] \in Int
  <2>1. IsFiniteSet((m \ {c}) \ {y}) /\ \A z \in (m \ {c}) \ {y} : f[z] \in Int
    BY FS_Subset
  <2> QED BY <2>1, SumIsInt
<1>9. SumFunctionOnSet(f, m) = f[c] + (f[y] + rest)
  BY <1>3, <1>6
<1>10. SumFunctionOnSet(f, m \ {y}) = f[c] + rest
  BY <1>6, <1>7
<1> QED BY <1>2, <1>8, <1>9, <1>10

\* An index more adds its term.
LEMMA SumAdd ==
  ASSUME NEW f, NEW S, IsFiniteSet(S), NEW x, x \notin S,
         \A y \in S \cup {x} : f[y] \in Int
  PROVE  SumFunctionOnSet(f, S \cup {x}) = f[x] + SumFunctionOnSet(f, S)
<1>1. IsFiniteSet(S \cup {x})
  BY FS_AddElement
<1>2. (S \cup {x}) \ {x} = S
  OBVIOUS
<1> QED BY <1>1, <1>2, SumPick

\* The sum depends on the function only at the indices.
LEMMA SumSame ==
  ASSUME NEW f, NEW g, NEW S, IsFiniteSet(S), \A x \in S : f[x] = g[x]
  PROVE  SumFunctionOnSet(f, S) = SumFunctionOnSet(g, S)
<1> DEFINE B == {T \in SUBSET S : SumFunctionOnSet(f, T) # SumFunctionOnSet(g, T)}
<1> SUFFICES ASSUME B # {} PROVE FALSE
  BY DEF B
<1>1. PICK m \in B : \A n \in B : n \subseteq m => n = m
  <2>1. B \subseteq SUBSET S
    OBVIOUS
  <2> HIDE DEF B
  <2> QED BY <2>1, SmallestSubset
<1> IsFiniteSet(m)
  BY FS_Subset
<1>2. m # {}
  BY SumOfNone
<1>3. SumPicked(m) \in m
  BY <1>2 DEF SumPicked
<1>4. SumFunctionOnSet(f, m \ {SumPicked(m)}) = SumFunctionOnSet(g, m \ {SumPicked(m)})
  BY <1>1, <1>3
<1>5. /\ SumFunctionOnSet(f, m) = f[SumPicked(m)] + SumFunctionOnSet(f, m \ {SumPicked(m)})
      /\ SumFunctionOnSet(g, m) = g[SumPicked(m)] + SumFunctionOnSet(g, m \ {SumPicked(m)})
  BY <1>2, SumUnfold
<1> QED BY <1>3, <1>4, <1>5

\* A change of one term changes the sum by as much.
LEMMA SumUpdate ==
  ASSUME NEW f, NEW g, NEW S, IsFiniteSet(S), NEW x \in S,
         \A y \in S : f[y] \in Int /\ g[y] \in Int,
         \A y \in S \ {x} : g[y] = f[y]
  PROVE  SumFunctionOnSet(g, S) = SumFunctionOnSet(f, S) - f[x] + g[x]
<1> DEFINE r == S \ {x}
<1>1. IsFiniteSet(r)
  BY FS_Subset
<1>2. SumFunctionOnSet(f, r) = SumFunctionOnSet(g, r)
  <2> HIDE DEF r
  <2>1. \A y \in r : f[y] = g[y]
    BY DEF r
  <2> QED BY <1>1, <2>1, SumSame
<1>3. SumFunctionOnSet(f, S) = f[x] + SumFunctionOnSet(f, r)
  BY SumPick
<1>4. SumFunctionOnSet(g, S) = g[x] + SumFunctionOnSet(g, r)
  BY SumPick
<1>5. SumFunctionOnSet(f, r) \in Int
  <2>1. \A y \in r : f[y] \in Int
    OBVIOUS
  <2> HIDE DEF r
  <2> QED BY <1>1, <2>1, SumIsInt
<1> QED BY <1>2, <1>3, <1>4, <1>5

\* A sum of naturals is a natural.
LEMMA SumIsNat ==
  ASSUME NEW f, NEW S, IsFiniteSet(S), \A x \in S : f[x] \in Nat
  PROVE  SumFunctionOnSet(f, S) \in Nat
<1> DEFINE B == {T \in SUBSET S : SumFunctionOnSet(f, T) \notin Nat}
<1> SUFFICES ASSUME B # {} PROVE FALSE
  BY DEF B
<1>1. PICK m \in B : \A n \in B : n \subseteq m => n = m
  <2>1. B \subseteq SUBSET S
    OBVIOUS
  <2> HIDE DEF B
  <2> QED BY <2>1, SmallestSubset
<1>2. m # {}
  <2> SUFFICES ASSUME m = {} PROVE FALSE
    OBVIOUS
  <2> QED BY SumOfNone
<1> IsFiniteSet(m)
  BY FS_Subset
<1>3. PICK c \in m : SumFunctionOnSet(f, m) = f[c] + SumFunctionOnSet(f, m \ {c})
  BY <1>2, SumByOne
<1>4. SumFunctionOnSet(f, m \ {c}) \in Nat
  BY <1>1
<1> QED BY <1>3, <1>4

\* Term by term at most: at most in sum.
LEMMA SumLeq ==
  ASSUME NEW f, NEW g, NEW S, IsFiniteSet(S),
         \A x \in S : f[x] \in Int /\ g[x] \in Int /\ f[x] <= g[x]
  PROVE  SumFunctionOnSet(f, S) <= SumFunctionOnSet(g, S)
<1> DEFINE B == {T \in SUBSET S : ~ (SumFunctionOnSet(f, T) <= SumFunctionOnSet(g, T))}
<1> SUFFICES ASSUME B # {} PROVE FALSE
  BY DEF B
<1>1. PICK m \in B : \A n \in B : n \subseteq m => n = m
  <2>1. B \subseteq SUBSET S
    OBVIOUS
  <2> HIDE DEF B
  <2> QED BY <2>1, SmallestSubset
<1>2. m # {}
  <2> SUFFICES ASSUME m = {} PROVE FALSE
    OBVIOUS
  <2> QED BY SumOfNone
<1>3. IsFiniteSet(m) /\ m \subseteq S
  BY FS_Subset
<1>4. PICK c \in m : SumFunctionOnSet(f, m) = f[c] + SumFunctionOnSet(f, m \ {c})
  BY <1>2, <1>3, SumByOne
<1> DEFINE n == m \ {c}
<1>5. SumFunctionOnSet(f, n) <= SumFunctionOnSet(g, n)
  BY <1>1
<1>6. SumFunctionOnSet(g, m) = g[c] + SumFunctionOnSet(g, n)
  <2>1. \A y \in m : g[y] \in Int
    BY <1>3
  <2> QED BY <1>3, <2>1, SumPick
<1>7. SumFunctionOnSet(f, n) \in Int /\ SumFunctionOnSet(g, n) \in Int
  <2>1. n \subseteq S /\ IsFiniteSet(n)
    BY <1>3, FS_Subset
  <2> HIDE DEF n
  <2>2. \A y \in n : f[y] \in Int /\ g[y] \in Int
    BY <2>1
  <2> QED BY <2>1, <2>2, SumIsInt
<1>8. f[c] <= g[c] /\ f[c] \in Int /\ g[c] \in Int
  BY <1>3
<1>9. ~ (SumFunctionOnSet(f, m) <= SumFunctionOnSet(g, m))
  OBVIOUS
<1> HIDE DEF B, n
<1> QED BY <1>4, <1>5, <1>6, <1>7, <1>8, <1>9 DEF n

\* A sum of zeros is 0: at the start nothing has been counted.
LEMMA SumOfZeros ==
  ASSUME NEW f, NEW S, IsFiniteSet(S), \A x \in S : f[x] = 0
  PROVE  SumFunctionOnSet(f, S) = 0
<1> DEFINE B == {T \in SUBSET S : SumFunctionOnSet(f, T) # 0}
<1> SUFFICES ASSUME B # {} PROVE FALSE
  BY DEF B
<1>1. PICK m \in B : \A n \in B : n \subseteq m => n = m
  <2>1. B \subseteq SUBSET S
    OBVIOUS
  <2> HIDE DEF B
  <2> QED BY <2>1, SmallestSubset
<1>2. m # {}
  <2> SUFFICES ASSUME m = {} PROVE FALSE
    OBVIOUS
  <2> QED BY SumOfNone
<1> IsFiniteSet(m)
  BY FS_Subset
<1>3. PICK c \in m : SumFunctionOnSet(f, m) = f[c] + SumFunctionOnSet(f, m \ {c})
  BY <1>2, SumByOne
<1>4. SumFunctionOnSet(f, m \ {c}) = 0
  BY <1>1
<1> QED BY <1>3, <1>4

\* Naturals over fewer indices: at most as much.
LEMMA SumSubset ==
  ASSUME NEW f, NEW S, IsFiniteSet(S), NEW R \in SUBSET S, \A x \in S : f[x] \in Nat
  PROVE  SumFunctionOnSet(f, R) <= SumFunctionOnSet(f, S)
<1> DEFINE B == {T \in SUBSET S : R \subseteq T /\ ~ (SumFunctionOnSet(f, R) <= SumFunctionOnSet(f, T))}
<1> SUFFICES ASSUME B # {} PROVE FALSE
  BY DEF B
<1>1. PICK m \in B : \A n \in B : n \subseteq m => n = m
  <2>1. B \subseteq SUBSET S
    OBVIOUS
  <2> HIDE DEF B
  <2> QED BY <2>1, SmallestSubset
<1>2. IsFiniteSet(m) /\ IsFiniteSet(R) /\ m \subseteq S
  BY FS_Subset
<1>3. SumFunctionOnSet(f, R) \in Nat
  BY <1>2, SumIsNat
<1>4. PICK c \in m : c \notin R
  BY <1>3
<1>5. IsFiniteSet(m \ {c}) /\ m \ {c} \subseteq S
  BY <1>2, FS_Subset
<1>6. SumFunctionOnSet(f, m \ {c}) \in Nat
  BY <1>5, SumIsNat
<1>7. SumFunctionOnSet(f, m) = f[c] + SumFunctionOnSet(f, m \ {c})
  <2>1. \A y \in m : f[y] \in Int
    BY <1>2
  <2> QED BY <1>2, <2>1, SumPick
<1>8. SumFunctionOnSet(f, R) <= SumFunctionOnSet(f, m \ {c})
  BY <1>1, <1>4, <1>5
<1>9. ~ (SumFunctionOnSet(f, R) <= SumFunctionOnSet(f, m)) /\ f[c] \in Nat
  BY <1>2
<1> HIDE DEF B
<1> QED BY <1>3, <1>6, <1>7, <1>8, <1>9

\* The sum of a set is the sum of a part and of the rest.
LEMMA SumSplit ==
  ASSUME NEW f, NEW S, IsFiniteSet(S), NEW R \in SUBSET S, \A x \in S : f[x] \in Int
  PROVE  SumFunctionOnSet(f, S) = SumFunctionOnSet(f, R) + SumFunctionOnSet(f, S \ R)
<1> DEFINE Splits(T) == SumFunctionOnSet(f, T) = SumFunctionOnSet(f, R) + SumFunctionOnSet(f, T \ R)
           B == {T \in SUBSET S : R \subseteq T /\ ~ Splits(T)}
<1> SUFFICES ASSUME B # {} PROVE FALSE
  <2> HIDE DEF Splits
  <2>1. Splits(S)
    OBVIOUS
  <2> QED BY <2>1 DEF Splits
<1>1. PICK m \in B : \A n \in B : n \subseteq m => n = m
  <2>1. B \subseteq SUBSET S
    OBVIOUS
  <2> HIDE DEF B
  <2> QED BY <2>1, SmallestSubset
<1>2. IsFiniteSet(m) /\ IsFiniteSet(R) /\ m \subseteq S /\ R \subseteq m /\ ~ Splits(m)
  <2> HIDE DEF Splits
  <2> QED BY FS_Subset
<1>3. SumFunctionOnSet(f, R) \in Int
  BY <1>2, SumIsInt
<1>4. PICK c \in m : c \notin R
  <2> SUFFICES ASSUME m = R PROVE FALSE
    BY <1>2
  <2>1. m \ R = {}
    OBVIOUS
  <2> QED BY <1>2, <1>3, <2>1, SumOfNone
<1>5. Splits(m \ {c})
  <2>1. m \ {c} \in SUBSET S /\ R \subseteq m \ {c} /\ m \ {c} # m
    BY <1>2, <1>4
  <2> HIDE DEF Splits
  <2> QED BY <1>1, <2>1
<1> DEFINE rest == (m \ R) \ {c}
<1>6. /\ (m \ {c}) \ R = rest
      /\ IsFiniteSet(rest) /\ IsFiniteSet(m \ R)
      /\ \A x \in rest : f[x] \in Int
      /\ \A x \in m \ R : f[x] \in Int
      /\ c \in m \ R
  BY <1>2, <1>4, FS_Subset
<1>7. SumFunctionOnSet(f, m) = f[c] + SumFunctionOnSet(f, m \ {c})
  <2>1. \A x \in m : f[x] \in Int
    BY <1>2
  <2> QED BY <1>2, <2>1, SumPick
<1>8. SumFunctionOnSet(f, m \ R) = f[c] + SumFunctionOnSet(f, rest)
  BY <1>6, SumPick
<1>9. SumFunctionOnSet(f, rest) \in Int
  <2> HIDE DEF rest
  <2> QED BY <1>6, SumIsInt
<1>10. f[c] \in Int
  BY <1>2
<1>11. SumFunctionOnSet(f, m \ {c}) = SumFunctionOnSet(f, R) + SumFunctionOnSet(f, rest)
  BY <1>5, <1>6
<1>12. SumFunctionOnSet(f, m) # SumFunctionOnSet(f, R) + SumFunctionOnSet(f, m \ R)
  BY <1>2
<1> HIDE DEF B, rest, Splits
<1> QED BY <1>3, <1>7, <1>8, <1>9, <1>10, <1>11, <1>12

-----------------------------------------------------------------------------
(* Largest, smallest, at most one *)

\* A set of numbers up to n has a largest one.
LEMMA MaxIsIn ==
    ASSUME NEW n \in Nat, NEW D, D \subseteq 1..n, D # {}
    PROVE  Max(D) \in D /\ \A x \in D: Max(D) >= x
<1> DEFINE Above == {x..n: x \in D}
           S == 1..n
<1>1. Above \subseteq SUBSET S /\ Above # {}
  <2>1. \A x \in D: x..n \in SUBSET (1..n)
    OBVIOUS
  <2>2. QED
    BY <2>1
<1>0. IsFiniteSet(S)
  BY FS_Interval
<1>2. PICK m \in Above: \A k \in Above: k \subseteq m => k = m
  <2> HIDE DEF Above, S
  <2>1. QED
    BY <1>0, <1>1, SmallestSubset
<1>3. PICK x \in D: m = x..n
  BY <1>2
<1>4. ASSUME NEW y \in D PROVE x >= y
  <2>1. x \in 1..n /\ y \in 1..n /\ y..n \in Above
    OBVIOUS
  <2>2. y > x => y..n \subseteq x..n /\ x \in x..n /\ x \notin y..n
    BY <2>1
  <2>3. y..n \subseteq x..n => y..n = x..n
    BY <1>2, <1>3, <2>1
  <2>4. QED
    BY <2>1, <2>2, <2>3
<1>5. QED
  BY <1>4 DEF Max

\* A set of numbers up to n has a smallest one, too.
LEMMA MinIsIn ==
    ASSUME NEW n \in Nat, NEW D, D \subseteq 1..n, D # {}
    PROVE  Min(D) \in D /\ \A x \in D: Min(D) <= x
<1> DEFINE Below == {1..x: x \in D}
           S == 1..n
<1>1. Below \subseteq SUBSET S /\ Below # {}
  <2>1. \A x \in D: 1..x \in SUBSET (1..n)
    OBVIOUS
  <2>2. QED
    BY <2>1
<1>0. IsFiniteSet(S)
  BY FS_Interval
<1>2. PICK m \in Below: \A k \in Below: k \subseteq m => k = m
  <2> HIDE DEF Below, S
  <2>1. QED
    BY <1>0, <1>1, SmallestSubset
<1>3. PICK x \in D: m = 1..x
  BY <1>2
<1>4. ASSUME NEW y \in D PROVE x <= y
  <2>1. x \in 1..n /\ y \in 1..n /\ 1..y \in Below
    OBVIOUS
  <2>2. y < x => 1..y \subseteq 1..x /\ x \in 1..x /\ x \notin 1..y
    BY <2>1
  <2>3. 1..y \subseteq 1..x => 1..y = 1..x
    BY <1>2, <1>3, <2>1
  <2>4. QED
    BY <2>1, <2>2, <2>3
<1>5. QED
  BY <1>4 DEF Min

\* A set without two different elements has at most one.
LEMMA AtMostOne ==
    ASSUME NEW S, \A x, y \in S: x = y
    PROVE  Cardinality(S) <= 1
<1>1. CASE S = {}
  BY <1>1, FS_EmptySet
<1>2. CASE S # {}
  <2>1. PICK x \in S: S = {x}
    BY <1>2
  <2>2. QED
    BY <2>1, FS_Singleton
<1>3. QED
  BY <1>1, <1>2

\* A sum counts the elements that each add at least one to it.
LEMMA CardinalityLeqSum ==
    ASSUME NEW f, NEW S, IsFiniteSet(S), NEW R \in SUBSET S,
           \A x \in S: f[x] \in Nat, \A x \in R: f[x] >= 1
    PROVE  Cardinality(R) <= SumFunctionOnSet(f, S)
<1> DEFINE B == {T \in SUBSET R : ~ (Cardinality(T) <= SumFunctionOnSet(f, T))}
<1>1. IsFiniteSet(R)
  BY FS_Subset
<1>2. B = {}
  <2> SUFFICES ASSUME B # {} PROVE FALSE
    OBVIOUS
  <2>1. PICK m \in B : \A n \in B : n \subseteq m => n = m
    <3>1. B \subseteq SUBSET R
      OBVIOUS
    <3> HIDE DEF B
    <3>2. QED
      BY <1>1, <3>1, SmallestSubset
  <2>2. IsFiniteSet(m) /\ m \subseteq R
    BY <1>1, FS_Subset
  <2>3. m # {}
    BY FS_EmptySet, SumOfNone
  <2>4. PICK c \in m : /\ IsFiniteSet(m \ {c})
                       /\ SumFunctionOnSet(f, m) = f[c] + SumFunctionOnSet(f, m \ {c})
    BY <2>2, <2>3, SumByOne
  <2>5. Cardinality(m \ {c}) <= SumFunctionOnSet(f, m \ {c})
    BY <2>1, <2>2
  <2>6. Cardinality(m \ {c}) = Cardinality(m) - 1 /\ Cardinality(m) \in Nat
    BY <2>2, FS_RemoveElement, FS_CardinalityType
  <2>7. SumFunctionOnSet(f, m \ {c}) \in Nat /\ f[c] \in Nat /\ f[c] >= 1
    <3>1. \A x \in m \ {c} : f[x] \in Nat
      BY <2>2
    <3>2. QED
      BY <2>2, <2>4, <3>1, SumIsNat
  <2>8. ~ (Cardinality(m) <= SumFunctionOnSet(f, m))
    OBVIOUS
  <2> HIDE DEF B
  <2>9. QED
    BY <2>4, <2>5, <2>6, <2>7, <2>8
<1>3. Cardinality(R) <= SumFunctionOnSet(f, R)
  BY <1>2
<1>4. SumFunctionOnSet(f, R) <= SumFunctionOnSet(f, S)
  BY SumSubset
<1>5. Cardinality(R) \in Nat /\ SumFunctionOnSet(f, R) \in Nat /\ SumFunctionOnSet(f, S) \in Nat
  BY <1>1, FS_CardinalityType, SumIsNat
<1>6. QED
  BY <1>3, <1>4, <1>5
=============================================================================
