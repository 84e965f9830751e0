-------------------------------- MODULE Sums --------------------------------
(***************************************************************************)
(* Facts about SumFunctionOnSet, the sum of a function over a finite set:  *)
(* how it unfolds, changes with one value, and compares with another.  The *)
(* proofs go by induction over a finite set, put as the choice of a        *)
(* smallest counterexample.                                                *)
(***************************************************************************)
EXTENDS Functions, FiniteSetTheorems, TLAPS

\* The element that the library's recursion takes first, and what it leaves.
First(s) == CHOOSE x \in s : TRUE
Rest(s) == s \ {First(s)}

\* h sums f over every subset of S, as SumFunctionOnSet does.
Sums(h, f, S) ==
  h = [s \in SUBSET S |-> IF s = {} THEN 0 ELSE f[First(s)] + h[Rest(s)]]

\* Induction over a finite set, in the form of a set of subsets: a family of
\* subsets that is not empty has a member with no other member inside it.
LEMMA SmallestSubset ==
  ASSUME NEW S, IsFiniteSet(S), NEW T, T \subseteq SUBSET S, T # {}
  PROVE  \E x \in T : \A y \in T : y \subseteq x => y = x
<1>1. IsWellFoundedOn(StrictSubsetOrdering(S), FiniteSubsetsOf(S))
  BY FS_StrictSubsetOrderingWellFounded
<1>2. T \subseteq FiniteSubsetsOf(S)
  BY FS_FiniteSubsetsOfFinite
<1>3. \E x \in T : \A y \in T : ~(<<y, x>> \in StrictSubsetOrdering(S))
  BY <1>1, <1>2, WFMin
<1> QED
  BY <1>3 DEF StrictSubsetOrdering

\* Induction up to n, for a set.
LEMMA CountingUp ==
  ASSUME NEW n \in Nat, NEW T, 0 \in T, \A i \in 0..(n - 1) : i \in T => i + 1 \in T
  PROVE  \A i \in 0..n : i \in T
<1> DEFINE U == {i \in 0..n : i \notin T}
           Less == OpToRel(<, Nat)
<1> SUFFICES ASSUME U # {} PROVE FALSE
  OBVIOUS
<1>1. \A i, j \in Nat : i < j => <<i, j>> \in Less
  BY DEF OpToRel
<1>2. IsWellFoundedOn(Less, Nat)
  BY NatLessThanWellFounded
<1>3. U \subseteq Nat
  OBVIOUS
<1> HIDE DEF Less
<1>4. PICK i \in U : \A j \in U : ~(<<j, i>> \in Less)
  <2> HIDE DEF U
  <2> QED
    BY <1>2, <1>3, WFMin
<1>5. i # 0 /\ i - 1 \in 0..(n - 1)
  OBVIOUS
<1>6. i \in Nat /\ i - 1 \in Nat /\ i - 1 < i
  BY <1>5
<1>7. <<i - 1, i>> \in Less
  BY <1>1, <1>6
<1>8. i - 1 \notin U
  BY <1>4, <1>7
<1> QED
  BY <1>5, <1>8

\* The library's sum is the value at S of a function that sums every subset.
LEMMA SumIsChosen ==
  ASSUME NEW f, NEW S
  PROVE  SumFunctionOnSet(f, S) = (CHOOSE h : Sums(h, f, S))[S]
BY Zenon DEF SumFunctionOnSet, FoldFunctionOnSet, MapThenFoldSet, Sums, First, Rest

\* The element a sum takes first.
LEMMA FirstIsIn == ASSUME NEW s, s # {} PROVE First(s) \in s
BY DEF First

\* What such a function is at a subset.
LEMMA SumsAt ==
  ASSUME NEW f, NEW S, NEW h, Sums(h, f, S), NEW s, s \subseteq S
  PROVE  h[s] = IF s = {} THEN 0 ELSE f[First(s)] + h[Rest(s)]
BY Zenon DEF Sums

\* It does not matter over which larger set a subset is summed.
LEMMA SumsAgree ==
  ASSUME NEW f, NEW S, IsFiniteSet(S), NEW h, Sums(h, f, S),
         NEW U, U \subseteq S, NEW g, Sums(g, f, U), NEW s, s \subseteq U
  PROVE  h[s] = g[s]
<1> SUFFICES ASSUME h[s] # g[s] PROVE FALSE
  OBVIOUS
<1> DEFINE T == {t \in SUBSET U : h[t] # g[t]}
<1>1. PICK t \in T : \A y \in T : y \subseteq t => y = t
  <2>1. T \subseteq SUBSET S /\ T # {}
    OBVIOUS
  <2> HIDE DEF T
  <2> QED
    BY <2>1, SmallestSubset
<1>2. t \subseteq S /\ t \subseteq U
  OBVIOUS
<1>3. CASE t = {}
  BY <1>2, <1>3, SumsAt
<1>4. CASE t # {}
  <2>1. Rest(t) \subseteq t /\ Rest(t) # t
    BY <1>4, FirstIsIn DEF Rest
  <2>2. h[Rest(t)] = g[Rest(t)]
    BY <1>1, <2>1
  <2>3. h[t] = f[First(t)] + h[Rest(t)] /\ g[t] = f[First(t)] + g[Rest(t)]
    BY <1>2, <1>4, SumsAt
  <2> QED
    BY <2>2, <2>3
<1> QED
  BY <1>3, <1>4

\* There is such a function: it is built from those of the smaller subsets.
LEMMA SumsExist ==
  ASSUME NEW f, NEW S, IsFiniteSet(S)
  PROVE  \E h : Sums(h, f, S)
<1> DEFINE T == {t \in SUBSET S : ~ \E h : Sums(h, f, t)}
           G(t) == CHOOSE h : Sums(h, f, t)
<1> SUFFICES ASSUME T # {} PROVE FALSE
  OBVIOUS
<1>1. PICK U \in T : \A y \in T : y \subseteq U => y = U
  <2>1. T \subseteq SUBSET S
    OBVIOUS
  <2> HIDE DEF T
  <2> QED
    BY <2>1, SmallestSubset
<1>2. ASSUME NEW t, t \subseteq U, t # U PROVE Sums(G(t), f, t)
  <2>1. \E h : Sums(h, f, t)
    BY <1>1, <1>2
  <2> QED
    BY <2>1
<1> DEFINE h == [s \in SUBSET U |-> IF s = {} THEN 0 ELSE f[First(s)] + G(Rest(s))[Rest(s)]]
<1>3. ASSUME NEW s, s \subseteq U, s # {} PROVE h[Rest(s)] = G(Rest(s))[Rest(s)]
  <2> DEFINE t == Rest(s)
  <2>1. t \subseteq U /\ t # U
    BY <1>3, FirstIsIn DEF Rest
  <2>2. Sums(G(t), f, t) /\ IsFiniteSet(t)
    BY <1>2, <2>1, FS_Subset
  <2> HIDE DEF G
  <2>3. CASE t = {}
    BY <2>1, <2>2, <2>3, SumsAt
  <2>4. CASE t # {}
    <3> DEFINE r == Rest(t)
    <3>1. r \subseteq t /\ r \subseteq U /\ r # U
      BY <2>1 DEF Rest
    <3>2. Sums(G(r), f, r)
      BY <1>2, <3>1
    <3>3. G(t)[r] = G(r)[r]
      BY <2>2, <3>1, <3>2, SumsAgree
    <3>4. G(t)[t] = f[First(t)] + G(t)[r]
      BY <2>2, <2>4, SumsAt
    <3>5. h[t] = f[First(t)] + G(r)[r]
      BY <2>1, <2>4
    <3> QED
      BY <3>3, <3>4, <3>5
  <2> QED
    BY <2>3, <2>4
<1>4. Sums(h, f, U)
  <2> HIDE DEF G
  <2>1. h = [s \in SUBSET U |-> IF s = {} THEN 0 ELSE f[First(s)] + h[Rest(s)]]
    BY <1>3
  <2> HIDE DEF h
  <2> QED
    BY <2>1 DEF Sums
<1> QED
  BY <1>1, <1>4

\* So the sum is what its recursion says.
LEMMA SumUnfolds ==
  ASSUME NEW f, NEW S, IsFiniteSet(S)
  PROVE  SumFunctionOnSet(f, S) =
           IF S = {} THEN 0 ELSE f[First(S)] + SumFunctionOnSet(f, Rest(S))
<1> DEFINE h == CHOOSE h : Sums(h, f, S)
           g == CHOOSE g : Sums(g, f, Rest(S))
<1>1. Rest(S) \subseteq S
  BY DEF Rest
<1>2. IsFiniteSet(Rest(S))
  BY <1>1, FS_Subset
<1>3. Sums(h, f, S) /\ Sums(g, f, Rest(S))
  BY <1>2, SumsExist
<1>4. h[Rest(S)] = g[Rest(S)]
  <2> HIDE DEF h, g
  <2> QED
    BY <1>1, <1>3, SumsAgree
<1>5. h[S] = IF S = {} THEN 0 ELSE f[First(S)] + h[Rest(S)]
  <2> HIDE DEF h
  <2> QED
    BY <1>3, SumsAt
<1>6. SumFunctionOnSet(f, S) = h[S] /\ SumFunctionOnSet(f, Rest(S)) = g[Rest(S)]
  BY SumIsChosen
<1> QED
  BY <1>4, <1>5, <1>6

-----------------------------------------------------------------------------
\* The sum over the empty set.
LEMMA SumOfNothing == ASSUME NEW f PROVE SumFunctionOnSet(f, {}) = 0
BY SumUnfolds, FS_EmptySet

\* A sum of integers is an integer.
LEMMA SumIsInt ==
  ASSUME NEW f, NEW S, IsFiniteSet(S), \A x \in S : f[x] \in Int
  PROVE  SumFunctionOnSet(f, S) \in Int
<1> DEFINE T == {t \in SUBSET S : SumFunctionOnSet(f, t) \notin Int}
<1> SUFFICES ASSUME T # {} PROVE FALSE
  OBVIOUS
<1>1. PICK t \in T : \A y \in T : y \subseteq t => y = t
  <2>1. T \subseteq SUBSET S
    OBVIOUS
  <2> HIDE DEF T
  <2> QED
    BY <2>1, SmallestSubset
<1>2. t # {}
  BY SumOfNothing
<1>3. First(t) \in t /\ Rest(t) \subseteq t /\ Rest(t) # t
  BY <1>2, FirstIsIn DEF Rest
<1>4. SumFunctionOnSet(f, Rest(t)) \in Int
  BY <1>1, <1>3
<1>5. SumFunctionOnSet(f, t) = f[First(t)] + SumFunctionOnSet(f, Rest(t))
  BY <1>2, SumUnfolds, FS_Subset
<1>6. f[First(t)] \in Int
  BY <1>3
<1> QED
  BY <1>4, <1>5, <1>6

\* Any element may be taken first.
LEMMA SumTakesAny ==
  ASSUME NEW f, NEW S, IsFiniteSet(S), \A x \in S : f[x] \in Int, NEW x \in S
  PROVE  SumFunctionOnSet(f, S) = f[x] + SumFunctionOnSet(f, S \ {x})
<1> DEFINE Sum(t) == SumFunctionOnSet(f, t)
           T == {t \in SUBSET S : \E y \in t : Sum(t) # f[y] + Sum(t \ {y})}
<1> SUFFICES ASSUME T # {} PROVE FALSE
  OBVIOUS
<1>1. PICK t \in T : \A y \in T : y \subseteq t => y = t
  <2>1. T \subseteq SUBSET S
    OBVIOUS
  <2> HIDE DEF T
  <2> QED
    BY <2>1, SmallestSubset
<1>2. PICK y \in t : Sum(t) # f[y] + Sum(t \ {y})
  OBVIOUS
<1> DEFINE c == First(t)
<1>3. c \in t
  BY FirstIsIn
<1>4. \A u \in SUBSET S : IsFiniteSet(u) /\ Sum(u) \in Int
  <2> TAKE u \in SUBSET S
  <2>1. IsFiniteSet(u)
    BY FS_Subset
  <2> QED
    BY <2>1, SumIsInt
<1>5. Sum(t) = f[c] + Sum(t \ {c})
  BY <1>4, SumUnfolds DEF Rest
<1>6. y # c
  BY <1>2, <1>5
<1>7. ASSUME NEW u, u \subseteq t, u # t, NEW z \in u PROVE Sum(u) = f[z] + Sum(u \ {z})
  <2>1. u \notin T
    BY <1>1, <1>7
  <2>2. u \in SUBSET S
    BY <1>7
  <2> QED
    BY <2>1, <2>2
<1>8. /\ Sum(t \ {c}) = f[y] + Sum((t \ {c}) \ {y})
      /\ Sum(t \ {y}) = f[c] + Sum((t \ {y}) \ {c})
  <2> HIDE DEF T, Sum, c
  <2>1. y \in t \ {c} /\ c \in t \ {y}
    BY <1>3, <1>6
  <2>2. t \ {c} # t /\ t \ {y} # t
    BY <1>3
  <2> QED
    BY <1>7, <2>1, <2>2
<1>9. (t \ {y}) \ {c} = (t \ {c}) \ {y}
  OBVIOUS
<1>10. f[c] \in Int /\ f[y] \in Int
  BY <1>3
<1>11. Sum((t \ {c}) \ {y}) \in Int
  BY <1>4
<1>13. /\ Sum(t) = f[c] + Sum(t \ {c})
       /\ Sum(t \ {c}) = f[y] + Sum((t \ {c}) \ {y})
       /\ Sum(t \ {y}) = f[c] + Sum((t \ {c}) \ {y})
  BY <1>5, <1>8, <1>9
<1>14. Sum(t) \in Int /\ Sum(t \ {c}) \in Int /\ Sum(t \ {y}) \in Int
  BY <1>4
<1> HIDE DEF c, Sum, T
<1>15. Sum(t) = f[y] + Sum(t \ {y})
  BY <1>10, <1>11, <1>13, <1>14
<1> QED
  BY <1>2, <1>15

\* A new element adds its value.
LEMMA SumGainsElement ==
  ASSUME NEW f, NEW S, IsFiniteSet(S), NEW x, x \notin S, \A y \in S \cup {x} : f[y] \in Int
  PROVE  SumFunctionOnSet(f, S \cup {x}) = SumFunctionOnSet(f, S) + f[x]
<1>1. IsFiniteSet(S \cup {x}) /\ (S \cup {x}) \ {x} = S /\ x \in S \cup {x}
  BY FS_AddElement
<1>2. SumFunctionOnSet(f, S \cup {x}) = f[x] + SumFunctionOnSet(f, (S \cup {x}) \ {x})
  BY <1>1, SumTakesAny
<1>3. SumFunctionOnSet(f, S) \in Int /\ f[x] \in Int
  BY SumIsInt
<1>4. SumFunctionOnSet(f, S \cup {x}) = f[x] + SumFunctionOnSet(f, S)
  BY <1>1, <1>2
<1> QED
  BY <1>3, <1>4

\* The sum over one more index.
LEMMA SumGoesOn ==
  ASSUME NEW f, NEW j \in Nat, \A i \in 1..(j + 1) : f[i] \in Int
  PROVE  SumFunctionOnSet(f, 1..(j + 1)) = SumFunctionOnSet(f, 1..j) + f[j + 1]
<1>1. 1..(j + 1) = (1..j) \cup {j + 1} /\ j + 1 \notin 1..j
  OBVIOUS
<1>2. IsFiniteSet(1..j)
  BY FS_Interval
<1> DEFINE S == 1..j
           x == j + 1
<1>3. \A y \in S \cup {x} : f[y] \in Int
  BY <1>1
<1>4. x \notin S /\ IsFiniteSet(S)
  BY <1>1, <1>2
<1> HIDE DEF S, x
<1>5. SumFunctionOnSet(f, S \cup {x}) = SumFunctionOnSet(f, S) + f[x]
  BY <1>3, <1>4, SumGainsElement
<1> QED
  BY <1>1, <1>5 DEF S, x

\* Smaller values have a smaller sum.
LEMMA SumIsMonotonic ==
  ASSUME NEW f, NEW g, NEW S, IsFiniteSet(S),
         \A x \in S : f[x] \in Int /\ g[x] \in Int /\ f[x] <= g[x]
  PROVE  SumFunctionOnSet(f, S) <= SumFunctionOnSet(g, S)
<1> DEFINE T == {t \in SUBSET S : ~(SumFunctionOnSet(f, t) <= SumFunctionOnSet(g, t))}
<1> SUFFICES ASSUME T # {} PROVE FALSE
  OBVIOUS
<1>1. PICK t \in T : \A y \in T : y \subseteq t => y = t
  <2>1. T \subseteq SUBSET S
    OBVIOUS
  <2> HIDE DEF T
  <2> QED
    BY <2>1, SmallestSubset
<1>2. t # {}
  BY SumOfNothing
<1>3. First(t) \in t /\ Rest(t) \subseteq t /\ Rest(t) # t
  BY <1>2, FirstIsIn DEF Rest
<1>4. IsFiniteSet(t) /\ IsFiniteSet(Rest(t))
  BY <1>3, FS_Subset
<1>5. SumFunctionOnSet(f, Rest(t)) <= SumFunctionOnSet(g, Rest(t))
  BY <1>1, <1>3
<1>6. /\ SumFunctionOnSet(f, t) = f[First(t)] + SumFunctionOnSet(f, Rest(t))
      /\ SumFunctionOnSet(g, t) = g[First(t)] + SumFunctionOnSet(g, Rest(t))
  BY <1>2, <1>4, SumUnfolds
<1>7. SumFunctionOnSet(f, Rest(t)) \in Int /\ SumFunctionOnSet(g, Rest(t)) \in Int
  BY <1>3, <1>4, SumIsInt
<1>8. f[First(t)] \in Int /\ g[First(t)] \in Int /\ f[First(t)] <= g[First(t)]
  BY <1>3
<1>9. SumFunctionOnSet(f, t) <= SumFunctionOnSet(g, t)
  BY <1>5, <1>6, <1>7, <1>8
<1> QED
  BY <1>9

\* Equal values have equal sums.
LEMMA SumOfEquals ==
  ASSUME NEW f, NEW g, NEW S, IsFiniteSet(S), \A x \in S : f[x] \in Int /\ f[x] = g[x]
  PROVE  SumFunctionOnSet(f, S) = SumFunctionOnSet(g, S)
<1>1. SumFunctionOnSet(f, S) <= SumFunctionOnSet(g, S)
  BY SumIsMonotonic
<1>2. SumFunctionOnSet(g, S) <= SumFunctionOnSet(f, S)
  BY SumIsMonotonic
<1>3. SumFunctionOnSet(f, S) \in Int /\ SumFunctionOnSet(g, S) \in Int
  BY SumIsInt
<1> QED
  BY <1>1, <1>2, <1>3

\* A sum of naturals is a natural.
LEMMA SumIsNat ==
  ASSUME NEW f, NEW S, IsFiniteSet(S), \A x \in S : f[x] \in Nat
  PROVE  SumFunctionOnSet(f, S) \in Nat
<1> DEFINE zero == [x \in S |-> 0]
           T == {t \in SUBSET S : ~(SumFunctionOnSet(f, t) >= 0)}
<1>1. SumFunctionOnSet(f, S) \in Int
  BY SumIsInt
<1> SUFFICES ASSUME T # {} PROVE FALSE
  BY <1>1
<1>2. PICK t \in T : \A y \in T : y \subseteq t => y = t
  <2>1. T \subseteq SUBSET S
    OBVIOUS
  <2> HIDE DEF T
  <2> QED
    BY <2>1, SmallestSubset
<1>3. t # {}
  BY SumOfNothing
<1>4. First(t) \in t /\ Rest(t) \subseteq t /\ Rest(t) # t
  BY <1>3, FirstIsIn DEF Rest
<1>5. IsFiniteSet(t) /\ IsFiniteSet(Rest(t))
  BY <1>4, FS_Subset
<1>6. SumFunctionOnSet(f, Rest(t)) >= 0
  BY <1>2, <1>4
<1>7. SumFunctionOnSet(f, t) = f[First(t)] + SumFunctionOnSet(f, Rest(t))
  BY <1>3, <1>5, SumUnfolds
<1>8. SumFunctionOnSet(f, Rest(t)) \in Int /\ f[First(t)] \in Nat
  BY <1>4, <1>5, SumIsInt
<1>9. SumFunctionOnSet(f, t) >= 0
  BY <1>6, <1>7, <1>8
<1> QED
  BY <1>9

\* One term changes, or is added to a sum or taken from it as its new or old value is zero.
LEMMA SumChangesOnce ==
  ASSUME NEW f, NEW g, NEW S, IsFiniteSet(S), NEW x \in S,
         \A y \in S : f[y] \in Int /\ g[y] \in Int,
         \A y \in S \ {x} : f[y] = g[y]
  PROVE  SumFunctionOnSet(g, S) = SumFunctionOnSet(f, S) - f[x] + g[x]
<1>1. IsFiniteSet(S \ {x})
  BY FS_RemoveElement
<1>2. SumFunctionOnSet(f, S \ {x}) = SumFunctionOnSet(g, S \ {x})
  BY <1>1, SumOfEquals
<1>3. /\ SumFunctionOnSet(f, S) = f[x] + SumFunctionOnSet(f, S \ {x})
      /\ SumFunctionOnSet(g, S) = g[x] + SumFunctionOnSet(g, S \ {x})
  BY SumTakesAny
<1>4. SumFunctionOnSet(f, S \ {x}) \in Int
  BY <1>1, SumIsInt
<1> QED
  BY <1>2, <1>3, <1>4

\* A sum of zeros.
LEMMA SumOfZeros ==
  ASSUME NEW f, NEW S, IsFiniteSet(S), \A x \in S : f[x] = 0
  PROVE  SumFunctionOnSet(f, S) = 0
<1> DEFINE T == {t \in SUBSET S : SumFunctionOnSet(f, t) # 0}
<1> SUFFICES ASSUME T # {} PROVE FALSE
  OBVIOUS
<1>1. PICK t \in T : \A y \in T : y \subseteq t => y = t
  <2>1. T \subseteq SUBSET S
    OBVIOUS
  <2> HIDE DEF T
  <2> QED
    BY <2>1, SmallestSubset
<1>2. t # {}
  BY SumOfNothing
<1>3. First(t) \in t /\ Rest(t) \subseteq t /\ Rest(t) # t
  BY <1>2, FirstIsIn DEF Rest
<1>4. IsFiniteSet(t)
  BY FS_Subset
<1>5. SumFunctionOnSet(f, Rest(t)) = 0
  BY <1>1, <1>3
<1>6. SumFunctionOnSet(f, t) = f[First(t)] + SumFunctionOnSet(f, Rest(t))
  BY <1>2, <1>4, SumUnfolds
<1> QED
  BY <1>3, <1>5, <1>6

\* The terms outside a subset are zero.
LEMMA SumOfSubset ==
  ASSUME NEW f, NEW S, IsFiniteSet(S), NEW T, T \subseteq S,
         \A x \in S : f[x] \in Int, \A x \in S \ T : f[x] = 0
  PROVE  SumFunctionOnSet(f, S) = SumFunctionOnSet(f, T)
<1> DEFINE U == {u \in SUBSET S : T \subseteq u /\ SumFunctionOnSet(f, u) # SumFunctionOnSet(f, T)}
<1> SUFFICES ASSUME U # {} PROVE FALSE
  OBVIOUS
<1>1. PICK u \in U : \A y \in U : y \subseteq u => y = u
  <2>1. U \subseteq SUBSET S
    OBVIOUS
  <2> HIDE DEF U
  <2> QED
    BY <2>1, SmallestSubset
<1>2. PICK x \in u : x \notin T
  OBVIOUS
<1>3. IsFiniteSet(u)
  BY FS_Subset
<1>4. SumFunctionOnSet(f, u) = f[x] + SumFunctionOnSet(f, u \ {x})
  BY <1>3, SumTakesAny
<1>5. SumFunctionOnSet(f, u \ {x}) \in Int
  BY <1>3, FS_RemoveElement, SumIsInt
<1>6. SumFunctionOnSet(f, u \ {x}) = SumFunctionOnSet(f, T)
  BY <1>1, <1>2
<1>7. f[x] = 0
  BY <1>2
<1> QED
  BY <1>4, <1>5, <1>6, <1>7

\* The sum of the opposite values.
LEMMA SumOfOpposites ==
  ASSUME NEW f, NEW g, NEW S, IsFiniteSet(S),
         \A x \in S : f[x] \in Int /\ g[x] \in Int /\ f[x] + g[x] = 0
  PROVE  SumFunctionOnSet(g, S) = -SumFunctionOnSet(f, S)
<1> DEFINE T == {t \in SUBSET S : SumFunctionOnSet(g, t) # -SumFunctionOnSet(f, t)}
<1> SUFFICES ASSUME T # {} PROVE FALSE
  OBVIOUS
<1>1. PICK t \in T : \A y \in T : y \subseteq t => y = t
  <2>1. T \subseteq SUBSET S
    OBVIOUS
  <2> HIDE DEF T
  <2> QED
    BY <2>1, SmallestSubset
<1>2. t # {}
  <2>1. SumFunctionOnSet(f, {}) = 0 /\ SumFunctionOnSet(g, {}) = 0
    BY SumOfNothing
  <2>2. SumFunctionOnSet(g, {}) = -SumFunctionOnSet(f, {})
    BY <2>1
  <2>3. SumFunctionOnSet(g, t) # -SumFunctionOnSet(f, t)
    OBVIOUS
  <2> HIDE DEF T
  <2> QED
    BY <2>2, <2>3
<1>3. First(t) \in t /\ Rest(t) \subseteq t /\ Rest(t) # t
  BY <1>2, FirstIsIn DEF Rest
<1>4. IsFiniteSet(t) /\ IsFiniteSet(Rest(t))
  BY <1>3, FS_Subset
<1>5. SumFunctionOnSet(g, Rest(t)) = -SumFunctionOnSet(f, Rest(t))
  BY <1>1, <1>3
<1>6. /\ SumFunctionOnSet(f, t) = f[First(t)] + SumFunctionOnSet(f, Rest(t))
      /\ SumFunctionOnSet(g, t) = g[First(t)] + SumFunctionOnSet(g, Rest(t))
  BY <1>2, <1>4, SumUnfolds
<1>7. SumFunctionOnSet(f, Rest(t)) \in Int
  BY <1>3, <1>4, SumIsInt
<1>8. f[First(t)] \in Int /\ g[First(t)] \in Int /\ f[First(t)] + g[First(t)] = 0
  BY <1>3
<1>9. SumFunctionOnSet(g, t) = -SumFunctionOnSet(f, t)
  BY <1>5, <1>6, <1>7, <1>8
<1> QED
  BY <1>9

\* whole[i] sums, for each i in E and K, the terms of f whose index h sends to i
\* (part[i]); kept has the terms of f whose index it sends to K.
Splits(whole, kept, part, f, h, D, E, K) ==
  /\ \A x \in D : f[x] \in Int /\ h[x] \in E
  /\ \A i \in E, x \in D : part[i][x] = IF h[x] = i THEN f[x] ELSE 0
  /\ \A i \in E : whole[i] = IF i \in K THEN SumFunctionOnSet(part[i], D) ELSE 0
  /\ \A x \in D : kept[x] = IF h[x] \in K THEN f[x] ELSE 0

\* Sums by parts make up the sum.
LEMMA SumByParts ==
  ASSUME NEW D, NEW E, IsFiniteSet(D), IsFiniteSet(E), NEW K, NEW f, NEW h,
         NEW part, NEW whole, NEW kept, Splits(whole, kept, part, f, h, D, E, K)
  PROVE  SumFunctionOnSet(whole, E) = SumFunctionOnSet(kept, D)
<1> USE DEF Splits
<1> DEFINE parts(t) == [i \in E |-> IF i \in K THEN SumFunctionOnSet(part[i], t) ELSE 0]
           T == {t \in SUBSET D : SumFunctionOnSet(parts(t), E) # SumFunctionOnSet(kept, t)}
<1>0. \A i \in E, x \in D : part[i][x] \in Int
  OBVIOUS
<1> SUFFICES ASSUME T # {} PROVE FALSE
  <2> SUFFICES SumFunctionOnSet(parts(D), E) = SumFunctionOnSet(kept, D)
    <3>1. \A i \in E : parts(D)[i] = whole[i] /\ whole[i] \in Int
      <4>1. \A i \in E : SumFunctionOnSet(part[i], D) \in Int
        BY <1>0, SumIsInt
      <4> QED
        BY <4>1
    <3> DEFINE all == parts(D)
    <3> HIDE DEF all
    <3>2. SumFunctionOnSet(all, E) = SumFunctionOnSet(whole, E)
      BY <3>1, SumOfEquals DEF all
    <3> QED
      BY <3>2 DEF all
  <2> QED
    OBVIOUS
<1>1. PICK t \in T : \A y \in T : y \subseteq t => y = t
  <2>1. T \subseteq SUBSET D
    OBVIOUS
  <2> HIDE DEF T
  <2> QED
    BY <2>1, SmallestSubset
<1>2. \A i \in E, x \in D : part[i][x] = (IF h[x] = i THEN f[x] ELSE 0) /\ part[i][x] \in Int
  OBVIOUS
<1>3. \A x \in D : kept[x] = (IF h[x] \in K THEN f[x] ELSE 0) /\ kept[x] \in Int
  OBVIOUS
<1>4. t \in SUBSET D /\ SumFunctionOnSet(parts(t), E) # SumFunctionOnSet(kept, t)
  OBVIOUS
<1>5. \A s \in SUBSET D, i \in E : parts(s)[i] = IF i \in K THEN SumFunctionOnSet(part[i], s) ELSE 0
  OBVIOUS
<1>6. \A s \in SUBSET D : SumFunctionOnSet(parts(s), E) = SumFunctionOnSet(kept, s) \/ s \in T
  OBVIOUS
<1> HIDE DEF T, parts
<1>7. \A s \in SUBSET D : IsFiniteSet(s)
  BY FS_Subset
<1>8. \A s \in SUBSET D, i \in E : SumFunctionOnSet(part[i], s) \in Int
  <2> TAKE s \in SUBSET D, i \in E
  <2>1. IsFiniteSet(s) /\ \A x \in s : part[i][x] \in Int
    BY <1>2, <1>7
  <2> QED
    BY <2>1, SumIsInt
<1>9. t # {}
  <2>1. SumFunctionOnSet(kept, {}) = 0 /\ \A i \in E : SumFunctionOnSet(part[i], {}) = 0
    BY SumOfNothing
  <2>2. \A i \in E : parts({})[i] = 0
    BY <1>5, <2>1
  <2>3. SumFunctionOnSet(parts({}), E) = 0
    BY <2>2, SumOfZeros
  <2> QED
    BY <1>4, <2>1, <2>3
<1>10. PICK x : x \in t
  BY <1>9
<1> DEFINE s == t \ {x}
           e == h[x]
<1>11. /\ x \in D /\ e \in E /\ f[x] \in Int /\ s \in SUBSET D
       /\ SumFunctionOnSet(parts(s), E) = SumFunctionOnSet(kept, s)
  BY <1>1, <1>4, <1>6, <1>10
<1>12. SumFunctionOnSet(kept, t) = kept[x] + SumFunctionOnSet(kept, s)
  <2>1. IsFiniteSet(t) /\ \A y \in t : kept[y] \in Int
    BY <1>3, <1>4, <1>7
  <2> QED
    BY <1>10, <2>1, SumTakesAny
<1>13. ASSUME NEW i \in E
       PROVE  SumFunctionOnSet(part[i], t) = part[i][x] + SumFunctionOnSet(part[i], s)
  <2>1. IsFiniteSet(t) /\ \A y \in t : part[i][y] \in Int
    BY <1>2, <1>4, <1>7
  <2> QED
    BY <1>10, <2>1, SumTakesAny
<1>14. SumFunctionOnSet(parts(t), E)
         = SumFunctionOnSet(parts(s), E) - parts(s)[e] + parts(t)[e]
  <2>1. \A i \in E : parts(s)[i] \in Int /\ parts(t)[i] \in Int
    <3>1. ASSUME NEW u \in SUBSET D, NEW i \in E PROVE parts(u)[i] \in Int
      BY <1>5, <1>8
    <3> QED
      BY <1>4, <1>11, <3>1
  <2>2. ASSUME NEW i \in E \ {e} PROVE parts(s)[i] = parts(t)[i]
    <3>1. part[i][x] = 0
      BY <1>2, <1>11
    <3>2. SumFunctionOnSet(part[i], t) = SumFunctionOnSet(part[i], s)
      <4>1. SumFunctionOnSet(part[i], t) = 0 + SumFunctionOnSet(part[i], s)
        BY <1>13, <3>1
      <4>2. SumFunctionOnSet(part[i], s) \in Int
        BY <1>8, <1>11
      <4> HIDE DEF s
      <4> QED
        BY <4>1, <4>2
    <3> QED
      BY <1>4, <1>5, <1>11, <3>2
  <2> HIDE DEF s, e
  <2> QED
    BY <1>11, <2>1, <2>2, SumChangesOnce
<1>15. parts(t)[e] = parts(s)[e] + kept[x]
  <2>1. SumFunctionOnSet(part[e], t) = f[x] + SumFunctionOnSet(part[e], s)
    BY <1>2, <1>11, <1>13
  <2>2. SumFunctionOnSet(part[e], s) \in Int
    BY <1>8, <1>11
  <2> HIDE DEF s, e
  <2>3. CASE e \in K
    BY <1>3, <1>4, <1>5, <1>11, <2>1, <2>2, <2>3 DEF e
  <2>4. CASE e \notin K
    BY <1>3, <1>4, <1>5, <1>11, <2>4 DEF e
  <2> QED
    BY <2>3, <2>4
<1>16. SumFunctionOnSet(kept, s) \in Int /\ kept[x] \in Int /\ parts(s)[e] \in Int
  <2>1. IsFiniteSet(s) /\ \A y \in s : kept[y] \in Int
    BY <1>3, <1>7, <1>11
  <2>2. SumFunctionOnSet(kept, s) \in Int
    BY <2>1, SumIsInt
  <2>3. parts(s)[e] \in Int
    BY <1>5, <1>8, <1>11
  <2> QED
    BY <1>3, <1>11, <2>2, <2>3
<1> HIDE DEF s, e
<1>17. SumFunctionOnSet(parts(t), E) = SumFunctionOnSet(kept, t)
  BY <1>11, <1>12, <1>14, <1>15, <1>16
<1> QED
  BY <1>4, <1>17

\* A sum over some of the elements is one over all of them in which the others count
\* for nothing.
LEMMA SumOfChosen ==
  ASSUME NEW f, NEW g, NEW S, IsFiniteSet(S), NEW C, C \subseteq S,
         \A x \in C : f[x] \in Int /\ g[x] = f[x], \A x \in S \ C : g[x] = 0
  PROVE  SumFunctionOnSet(f, C) = SumFunctionOnSet(g, S)
<1> DEFINE T == {t \in SUBSET S : SumFunctionOnSet(f, C \cap t) # SumFunctionOnSet(g, t)}
<1> SUFFICES ASSUME T # {} PROVE FALSE
  <2>1. S \in SUBSET S /\ C \cap S = C
    OBVIOUS
  <2> QED
    BY <2>1
<1>1. PICK t \in T : \A y \in T : y \subseteq t => y = t
  <2>1. T \subseteq SUBSET S
    OBVIOUS
  <2> HIDE DEF T
  <2> QED
    BY <2>1, SmallestSubset
<1>2. t # {}
  BY SumOfNothing
<1>3. PICK x \in t : x \in S
  BY <1>2
<1>4. IsFiniteSet(t) /\ IsFiniteSet(C \cap t)
  BY FS_Subset
<1>5. SumFunctionOnSet(f, C \cap (t \ {x})) = SumFunctionOnSet(g, t \ {x})
  BY <1>1, <1>3
<1>6. SumFunctionOnSet(g, t) = g[x] + SumFunctionOnSet(g, t \ {x})
  <2>1. \A y \in t : g[y] \in Int
    OBVIOUS
  <2> QED
    BY ONLY <1>3, <1>4, <2>1, SumTakesAny
<1>7. SumFunctionOnSet(g, t \ {x}) \in Int
  <2>1. IsFiniteSet(t \ {x}) /\ \A y \in t \ {x} : g[y] \in Int
    BY <1>4, FS_Subset
  <2> QED
    BY <2>1, SumIsInt
<1>8. CASE x \in C
  <2>1. (C \cap t) \ {x} = C \cap (t \ {x}) /\ x \in C \cap t /\ \A y \in C \cap t : f[y] \in Int
    BY <1>8
  <2>2. SumFunctionOnSet(f, C \cap t) = f[x] + SumFunctionOnSet(f, (C \cap t) \ {x})
    BY ONLY <1>4, <2>1, SumTakesAny
  <2> QED
    BY <1>5, <1>6, <1>8, <2>1, <2>2
<1>9. CASE x \notin C
  <2>1. C \cap (t \ {x}) = C \cap t /\ g[x] = 0
    BY <1>3, <1>9
  <2>2. SumFunctionOnSet(g, t) = SumFunctionOnSet(g, t \ {x})
    BY <1>6, <1>7, <2>1
  <2>3. SumFunctionOnSet(f, C \cap t) = SumFunctionOnSet(g, t)
    BY <1>5, <2>1, <2>2
  <2> QED
    BY <2>3
<1> QED
  BY <1>8, <1>9

\* The sum of two functions' sums.
LEMMA SumOfBoth ==
  ASSUME NEW f, NEW g, NEW h, NEW S, IsFiniteSet(S),
         \A x \in S : f[x] \in Int /\ g[x] \in Int /\ h[x] = f[x] + g[x]
  PROVE  SumFunctionOnSet(h, S) = SumFunctionOnSet(f, S) + SumFunctionOnSet(g, S)
<1> DEFINE T == {t \in SUBSET S : SumFunctionOnSet(h, t)
                                    # SumFunctionOnSet(f, t) + SumFunctionOnSet(g, t)}
<1> SUFFICES ASSUME T # {} PROVE FALSE
  OBVIOUS
<1>1. PICK t \in T : \A y \in T : y \subseteq t => y = t
  <2>1. T \subseteq SUBSET S
    OBVIOUS
  <2> HIDE DEF T
  <2> QED
    BY <2>1, SmallestSubset
<1>2. t # {}
  <2>1. SumFunctionOnSet(h, t) # SumFunctionOnSet(f, t) + SumFunctionOnSet(g, t)
    OBVIOUS
  <2>2. /\ SumFunctionOnSet(f, {}) = 0 /\ SumFunctionOnSet(g, {}) = 0
        /\ SumFunctionOnSet(h, {}) = 0
    BY SumOfNothing
  <2> QED
    BY ONLY <2>1, <2>2
<1>3. First(t) \in t /\ Rest(t) \subseteq t /\ Rest(t) # t
  BY <1>2, FirstIsIn DEF Rest
<1>4. IsFiniteSet(t) /\ IsFiniteSet(Rest(t))
  BY <1>3, FS_Subset
<1>5. SumFunctionOnSet(h, Rest(t)) =
        SumFunctionOnSet(f, Rest(t)) + SumFunctionOnSet(g, Rest(t))
  BY <1>1, <1>3
<1>6. /\ SumFunctionOnSet(f, t) = f[First(t)] + SumFunctionOnSet(f, Rest(t))
      /\ SumFunctionOnSet(g, t) = g[First(t)] + SumFunctionOnSet(g, Rest(t))
      /\ SumFunctionOnSet(h, t) = h[First(t)] + SumFunctionOnSet(h, Rest(t))
  BY <1>2, <1>4, SumUnfolds
<1>7. SumFunctionOnSet(f, Rest(t)) \in Int /\ SumFunctionOnSet(g, Rest(t)) \in Int
  BY <1>3, <1>4, SumIsInt
<1>8. f[First(t)] \in Int /\ g[First(t)] \in Int /\ h[First(t)] = f[First(t)] + g[First(t)]
  BY <1>3
<1>9. SumFunctionOnSet(h, t) = SumFunctionOnSet(f, t) + SumFunctionOnSet(g, t)
  BY <1>5, <1>6, <1>7, <1>8
<1> QED
  BY <1>9

\* A sum over two sets that have nothing in common.
LEMMA SumOfTwoSets ==
  ASSUME NEW f, NEW S, NEW T, IsFiniteSet(S), IsFiniteSet(T), S \cap T = {},
         \A x \in S \cup T : f[x] \in Int
  PROVE  SumFunctionOnSet(f, S \cup T) = SumFunctionOnSet(f, S) + SumFunctionOnSet(f, T)
<1> DEFINE g == [x \in S \cup T |-> IF x \in S THEN f[x] ELSE 0]
           h == [x \in S \cup T |-> IF x \in T THEN f[x] ELSE 0]
<1>1. IsFiniteSet(S \cup T)
  BY FS_Union
<1>2. S \subseteq S \cup T /\ T \subseteq S \cup T
  OBVIOUS
<1>3. /\ \A x \in S : f[x] \in Int /\ g[x] = f[x]
      /\ \A x \in (S \cup T) \ S : g[x] = 0
  OBVIOUS
<1>4. /\ \A x \in T : f[x] \in Int /\ h[x] = f[x]
      /\ \A x \in (S \cup T) \ T : h[x] = 0
  OBVIOUS
<1>5. \A x \in S \cup T : g[x] \in Int /\ h[x] \in Int /\ f[x] = g[x] + h[x]
  OBVIOUS
<1> HIDE DEF g, h
<1>6. SumFunctionOnSet(f, S) = SumFunctionOnSet(g, S \cup T)
  BY ONLY <1>1, <1>2, <1>3, SumOfChosen
<1>7. SumFunctionOnSet(f, T) = SumFunctionOnSet(h, S \cup T)
  BY ONLY <1>1, <1>2, <1>4, SumOfChosen
<1>8. SumFunctionOnSet(f, S \cup T) = SumFunctionOnSet(g, S \cup T) + SumFunctionOnSet(h, S \cup T)
  BY ONLY <1>1, <1>5, SumOfBoth
<1> QED
  BY <1>6, <1>7, <1>8

\* The sum of a multiple is a multiple of the sum.
LEMMA SumOfMultiples ==
  ASSUME NEW f, NEW g, NEW c \in Int, NEW S, IsFiniteSet(S),
         \A x \in S : f[x] \in Int /\ g[x] = c * f[x]
  PROVE  SumFunctionOnSet(g, S) = c * SumFunctionOnSet(f, S)
<1> DEFINE T == {t \in SUBSET S : SumFunctionOnSet(g, t) # c * SumFunctionOnSet(f, t)}
<1> SUFFICES ASSUME T # {} PROVE FALSE
  OBVIOUS
<1>1. PICK t \in T : \A y \in T : y \subseteq t => y = t
  <2>1. T \subseteq SUBSET S
    OBVIOUS
  <2> HIDE DEF T
  <2> QED
    BY <2>1, SmallestSubset
<1>2. t # {}
  <2>1. SumFunctionOnSet(g, t) # c * SumFunctionOnSet(f, t)
    OBVIOUS
  <2>2. SumFunctionOnSet(f, {}) = 0 /\ SumFunctionOnSet(g, {}) = 0 /\ c * 0 = 0
    BY SumOfNothing
  <2> QED
    BY ONLY <2>1, <2>2
<1>3. First(t) \in t /\ Rest(t) \subseteq t /\ Rest(t) # t
  BY <1>2, FirstIsIn DEF Rest
<1>4. IsFiniteSet(t) /\ IsFiniteSet(Rest(t))
  BY <1>3, FS_Subset
<1>5. SumFunctionOnSet(g, Rest(t)) = c * SumFunctionOnSet(f, Rest(t))
  BY <1>1, <1>3
<1>6. /\ SumFunctionOnSet(f, t) = f[First(t)] + SumFunctionOnSet(f, Rest(t))
      /\ SumFunctionOnSet(g, t) = g[First(t)] + SumFunctionOnSet(g, Rest(t))
  BY <1>2, <1>4, SumUnfolds
<1>7. SumFunctionOnSet(f, Rest(t)) \in Int
  BY <1>3, <1>4, SumIsInt
<1>8. f[First(t)] \in Int /\ g[First(t)] = c * f[First(t)]
  BY <1>3
<1>9. \A i, j \in Int : c * i + c * j = c * (i + j)
  OBVIOUS
<1>10. SumFunctionOnSet(g, t) = c * SumFunctionOnSet(f, t)
  BY ONLY <1>5, <1>6, <1>7, <1>8, <1>9
<1> QED
  BY <1>10

\* A sum of equal terms.
LEMMA SumOfConstants ==
  ASSUME NEW f, NEW c \in Int, NEW S, IsFiniteSet(S), \A x \in S : f[x] = c
  PROVE  SumFunctionOnSet(f, S) = c * Cardinality(S)
<1> DEFINE T == {t \in SUBSET S : SumFunctionOnSet(f, t) # c * Cardinality(t)}
<1> SUFFICES ASSUME T # {} PROVE FALSE
  OBVIOUS
<1>1. PICK t \in T : \A y \in T : y \subseteq t => y = t
  <2>1. T \subseteq SUBSET S
    OBVIOUS
  <2> HIDE DEF T
  <2> QED
    BY <2>1, SmallestSubset
<1>2. t # {}
  <2>1. SumFunctionOnSet(f, t) # c * Cardinality(t)
    OBVIOUS
  <2>2. SumFunctionOnSet(f, {}) = 0 /\ Cardinality({}) = 0 /\ c * 0 = 0
    BY SumOfNothing, FS_EmptySet
  <2> QED
    BY ONLY <2>1, <2>2
<1>3. First(t) \in t /\ Rest(t) \subseteq t /\ Rest(t) # t /\ Rest(t) = t \ {First(t)}
  BY <1>2, FirstIsIn DEF Rest
<1>4. IsFiniteSet(t) /\ IsFiniteSet(Rest(t))
  BY <1>3, FS_Subset
<1>5. SumFunctionOnSet(f, Rest(t)) = c * Cardinality(Rest(t))
  BY <1>1, <1>3
<1>6. SumFunctionOnSet(f, t) = f[First(t)] + SumFunctionOnSet(f, Rest(t))
  BY <1>2, <1>4, SumUnfolds
<1>7. Cardinality(Rest(t)) \in Nat /\ Cardinality(t) \in Nat
  BY <1>4, FS_CardinalityType
<1>8. Cardinality(Rest(t)) = Cardinality(t) - 1
  BY ONLY <1>3, <1>4, FS_RemoveElement
<1>9. f[First(t)] = c
  BY <1>3
<1>10. \A n \in Int : c + c * (n - 1) = c * n
  OBVIOUS
<1>11. SumFunctionOnSet(f, t) = c * Cardinality(t)
  BY ONLY <1>5, <1>6, <1>7, <1>8, <1>9, <1>10
<1> QED
  BY <1>11

\* A sum over D by groups that have nothing in common, if what is in none counts for nothing.
LEMMA SumByGroups ==
  ASSUME NEW f, NEW D, IsFiniteSet(D), \A x \in D : f[x] \in Int,
         NEW E, IsFiniteSet(E), NEW group, NEW h,
         \A i \in E : group[i] \subseteq D /\ h[i] = SumFunctionOnSet(f, group[i]),
         \A i, j \in E : i # j => group[i] \cap group[j] = {},
         \A x \in D : f[x] = 0 \/ \E i \in E : x \in group[i]
  PROVE  SumFunctionOnSet(f, D) = SumFunctionOnSet(h, E)
<1> DEFINE U(t) == {x \in D : \E i \in t : x \in group[i]}
           T == {t \in SUBSET E : SumFunctionOnSet(f, U(t)) # SumFunctionOnSet(h, t)}
<1>1. SumFunctionOnSet(f, D) = SumFunctionOnSet(f, U(E))
  <2>1. U(E) \subseteq D /\ \A x \in D \ U(E) : f[x] = 0
    OBVIOUS
  <2> HIDE DEF U
  <2> QED
    BY ONLY <2>1, IsFiniteSet(D), \A x \in D : f[x] \in Int, SumOfSubset
<1> SUFFICES ASSUME T # {} PROVE FALSE
  BY <1>1
<1>2. PICK t \in T : \A y \in T : y \subseteq t => y = t
  <2>1. T \subseteq SUBSET E
    OBVIOUS
  <2> HIDE DEF T
  <2> QED
    BY <2>1, SmallestSubset
<1>3. t # {}
  <2>1. SumFunctionOnSet(f, U(t)) # SumFunctionOnSet(h, t)
    OBVIOUS
  <2>2. t = {} => U(t) = {}
    OBVIOUS
  <2>3. SumFunctionOnSet(f, {}) = 0 /\ SumFunctionOnSet(h, {}) = 0
    BY SumOfNothing
  <2> QED
    BY ONLY <2>1, <2>2, <2>3
<1> PICK i : i = First(t)
  OBVIOUS
<1>4. i \in t /\ i \in E /\ Rest(t) \subseteq t /\ Rest(t) # t /\ Rest(t) = t \ {i} /\ t \subseteq E
  BY <1>3, FirstIsIn DEF Rest
<1>5. SumFunctionOnSet(f, U(Rest(t))) = SumFunctionOnSet(h, Rest(t))
  BY <1>2, <1>4
<1>6. SumFunctionOnSet(h, t) = h[i] + SumFunctionOnSet(h, Rest(t))
  <2>1. IsFiniteSet(t)
    BY <1>4, FS_Subset
  <2> QED
    BY <1>3, <2>1, SumUnfolds
<1>7. U(t) = U(Rest(t)) \cup group[i] /\ U(Rest(t)) \cap group[i] = {}
  BY <1>4
<1>8. U(Rest(t)) \subseteq D /\ group[i] \subseteq D
  BY <1>4
<1> HIDE DEF U
<1>9. IsFiniteSet(U(Rest(t))) /\ IsFiniteSet(group[i])
  BY <1>8, FS_Subset
<1>10. \A x \in U(Rest(t)) \cup group[i] : f[x] \in Int
  BY <1>8
<1>11. SumFunctionOnSet(f, U(t)) = SumFunctionOnSet(f, U(Rest(t))) + SumFunctionOnSet(f, group[i])
  BY ONLY <1>7, <1>9, <1>10, SumOfTwoSets
<1>12. SumFunctionOnSet(f, U(Rest(t))) \in Int /\ SumFunctionOnSet(f, group[i]) \in Int
  BY ONLY <1>9, <1>10, SumIsInt
<1>13. SumFunctionOnSet(f, U(t)) = SumFunctionOnSet(h, t)
  BY <1>4, <1>5, <1>6, <1>11, <1>12
<1> QED
  BY <1>13
=============================================================================
