------------------------------ MODULE SumTheorems ------------------------------
(***************************************************************************)
(* Sums over finite sets, SumFunctionOnSet of the community modules: what  *)
(* they are whichever order the elements are taken in, how they change     *)
(* when an element comes or goes, and how two of them compare.             *)
(***************************************************************************)
EXTENDS Integers, FiniteSetsExt, FiniteSetTheorems, WellFoundedInduction, TLAPS

Any(S) == CHOOSE x \in S : TRUE

\* g sums f over the subsets of S in D, taking the elements in the order of CHOOSE.
SumsOn(g, f, D) ==
  g = [T \in D |-> IF T = {} THEN 0 ELSE f[Any(T)] + g[T \ {Any(T)}]]

-----------------------------------------------------------------------------
(* The recursion has a solution, and only one. *)

LEMMA SumDef ==
  ASSUME NEW f, NEW S
  PROVE  SumFunctionOnSet(f, S) = (CHOOSE g : SumsOn(g, f, SUBSET S))[S]
BY DEF SumFunctionOnSet, FoldFunctionOnSet, MapThenFoldSet, SumsOn, Any

\* Every non-empty set of subsets of a finite set has a smallest member.
LEMMA SmallestSubset ==
  ASSUME NEW S, IsFiniteSet(S), NEW B, B \subseteq SUBSET S, B # {}
  PROVE  \E T \in B : \A U \in B : U \subseteq T => U = T
<1>1. B \subseteq FiniteSubsetsOf(S)
  BY FS_FiniteSubsetsOfFinite
<1>2. IsWellFoundedOn(StrictSubsetOrdering(S), FiniteSubsetsOf(S))
  BY FS_StrictSubsetOrderingWellFounded
<1>3. PICK T \in B : \A U \in B : ~ (<<U, T>> \in StrictSubsetOrdering(S))
  BY <1>1, <1>2, WFMin
<1>4. ASSUME NEW U \in B, U \subseteq T, U # T PROVE FALSE
  BY <1>3, <1>4 DEF StrictSubsetOrdering
<1> QED
  BY <1>4

\* Two solutions agree on the finite sets in the reach of both.
LEMMA SumUnique ==
  ASSUME NEW f, NEW V, NEW W, NEW S, IsFiniteSet(S), S \in SUBSET V, S \in SUBSET W,
         NEW g, NEW k, SumsOn(g, f, SUBSET V), SumsOn(k, f, SUBSET W)
  PROVE  g[S] = k[S]
<1> DEFINE B == {T \in SUBSET S : g[T] # k[T]}
<1>1. SUFFICES ASSUME B # {} PROVE FALSE
  OBVIOUS
<1>2. PICK T \in B : \A U \in B : U \subseteq T => U = T
  <2> HIDE DEF B
  <2>1. B \subseteq SUBSET S
    BY DEF B
  <2> QED
    BY <1>1, <2>1, SmallestSubset
<1>3. T \in SUBSET V /\ T \in SUBSET W /\ g[T] # k[T]
  OBVIOUS
<1>4. T # {}
  BY <1>3 DEF SumsOn
<1>5. Any(T) \in T
  BY <1>4 DEF Any
<1>6. /\ T \ {Any(T)} \in SUBSET S
      /\ T \ {Any(T)} # T
      /\ T \ {Any(T)} \subseteq T
  BY <1>5
<1>7. g[T \ {Any(T)}] = k[T \ {Any(T)}]
  BY <1>2, <1>6
<1>8. /\ g[T] = f[Any(T)] + g[T \ {Any(T)}]
      /\ k[T] = f[Any(T)] + k[T \ {Any(T)}]
  BY <1>3, <1>4 DEF SumsOn
<1> QED
  BY <1>3, <1>7, <1>8

LEMMA SumExists ==
  ASSUME NEW f, NEW S, IsFiniteSet(S)
  PROVE  \E g : SumsOn(g, f, SUBSET S)
<1> DEFINE B == {T \in SUBSET S : ~ \E g : SumsOn(g, f, SUBSET T)}
<1>1. SUFFICES ASSUME B # {} PROVE FALSE
  OBVIOUS
<1>2. PICK T \in B : \A U \in B : U \subseteq T => U = T
  <2> HIDE DEF B
  <2>1. B \subseteq SUBSET S
    BY DEF B
  <2> QED
    BY <1>1, <2>1, SmallestSubset
<1>3. T \in SUBSET S /\ ~ \E g : SumsOn(g, f, SUBSET T)
  OBVIOUS
<1> DEFINE sum(U) == SumFunctionOnSet(f, U)
           h == [U \in SUBSET T |-> IF U = {} THEN 0 ELSE f[Any(U)] + sum(U \ {Any(U)})]
<1>4. ASSUME NEW V, V \subseteq T, V # T PROVE \E g : SumsOn(g, f, SUBSET V) /\ g[V] = sum(V)
  <2>1. V \in SUBSET S /\ V \notin B
    BY <1>2, <1>3, <1>4
  <2>2. \E g : SumsOn(g, f, SUBSET V)
    BY <2>1
  <2>3. SumsOn(CHOOSE g : SumsOn(g, f, SUBSET V), f, SUBSET V)
    BY <2>2
  <2> QED
    BY <2>3, SumDef
<1>5. ASSUME NEW V, V \subseteq T, V # T PROVE h[V] = sum(V)
  <2>1. PICK g : SumsOn(g, f, SUBSET V) /\ g[V] = sum(V)
    BY <1>4, <1>5
  <2>2. CASE V = {}
    <3>1. g[V] = 0
      BY <2>1, <2>2 DEF SumsOn
    <3>2. h[V] = 0
      BY <2>2, <1>5
    <3> QED
      BY <2>1, <3>1, <3>2
  <2>3. CASE V # {}
    <3> DEFINE U == V \ {Any(V)}
    <3>1. Any(V) \in V
      BY <2>3 DEF Any
    <3>2. U \subseteq V /\ U \subseteq T /\ U # T /\ U \subseteq S
      BY <1>3, <1>5, <3>1
    <3>3. PICK k : SumsOn(k, f, SUBSET U) /\ k[U] = sum(U)
      <4> HIDE DEF U, sum
      <4> QED
        BY <1>4, <3>2
    <3>4. IsFiniteSet(U)
      BY <3>2, FS_Subset
    <3>5. g[U] = k[U]
      <4> HIDE DEF U, sum, h, B
      <4>1. SumsOn(g, f, SUBSET V) /\ SumsOn(k, f, SUBSET U) /\ U \in SUBSET U /\ U \in SUBSET V
        BY <2>1, <3>2, <3>3
      <4> QED
        BY <4>1, <3>4, SumUnique
    <3>6. g[V] = f[Any(V)] + g[U]
      BY <2>1, <2>3 DEF SumsOn
    <3>7. h[V] = f[Any(V)] + sum(U)
      BY <1>5, <2>3
    <3> QED
      BY <2>1, <3>3, <3>5, <3>6, <3>7
  <2> QED
    BY <2>2, <2>3
<1>6. SumsOn(h, f, SUBSET T)
  <2>1. ASSUME NEW U \in SUBSET T, U # {} PROVE h[U \ {Any(U)}] = sum(U \ {Any(U)})
    <3>1. Any(U) \in U
      BY <2>1 DEF Any
    <3>2. U \ {Any(U)} \subseteq T /\ U \ {Any(U)} # T
      BY <3>1
    <3> HIDE DEF h, sum
    <3> QED
      BY <1>5, <3>2
  <2>2. \A U \in SUBSET T :
          (IF U = {} THEN 0 ELSE f[Any(U)] + sum(U \ {Any(U)}))
            = (IF U = {} THEN 0 ELSE f[Any(U)] + h[U \ {Any(U)}])
    <3> HIDE DEF h, sum
    <3> QED
      BY <2>1
  <2>3. h = [U \in SUBSET T |-> IF U = {} THEN 0 ELSE f[Any(U)] + h[U \ {Any(U)}]]
    <3> DEFINE rhs == [U \in SUBSET T |-> IF U = {} THEN 0 ELSE f[Any(U)] + h[U \ {Any(U)}]]
    <3>1. \A U \in SUBSET T : h[U] = rhs[U]
      BY <2>2
    <3> QED
      BY <3>1
  <2> HIDE DEF h
  <2> QED
    BY <2>3 DEF SumsOn
<1> QED
  BY <1>3, <1>6

\* The recursion of the sum, with the element that CHOOSE takes.
LEMMA SumRecursion ==
  ASSUME NEW f, NEW S, IsFiniteSet(S)
  PROVE  /\ S = {} => SumFunctionOnSet(f, S) = 0
         /\ S # {} => /\ Any(S) \in S
                      /\ SumFunctionOnSet(f, S)
                           = f[Any(S)] + SumFunctionOnSet(f, S \ {Any(S)})
<1>1. ASSUME NEW T, IsFiniteSet(T)
      PROVE  \E g : SumsOn(g, f, SUBSET T) /\ SumFunctionOnSet(f, T) = g[T]
  <2>1. SumsOn(CHOOSE g : SumsOn(g, f, SUBSET T), f, SUBSET T)
    BY <1>1, SumExists
  <2> QED
    BY <2>1, SumDef
<1>2. PICK g : SumsOn(g, f, SUBSET S) /\ SumFunctionOnSet(f, S) = g[S]
  BY <1>1
<1>3. ASSUME S = {} PROVE SumFunctionOnSet(f, S) = 0
  BY <1>2, <1>3 DEF SumsOn
<1>4. ASSUME S # {}
      PROVE  /\ Any(S) \in S
             /\ SumFunctionOnSet(f, S) = f[Any(S)] + SumFunctionOnSet(f, S \ {Any(S)})
  <2> DEFINE T == S \ {Any(S)}
  <2>1. Any(S) \in S
    BY <1>4 DEF Any
  <2>2. IsFiniteSet(T) /\ T \in SUBSET S /\ T \in SUBSET T
    BY FS_Subset
  <2>3. PICK k : SumsOn(k, f, SUBSET T) /\ SumFunctionOnSet(f, T) = k[T]
    <3> HIDE DEF T
    <3> QED
      BY <1>1, <2>2
  <2>4. g[T] = k[T]
    <3>1. IsFiniteSet(T) /\ T \in SUBSET S /\ T \in SUBSET T
      BY <2>2
    <3>2. SumsOn(g, f, SUBSET S) /\ SumsOn(k, f, SUBSET T)
      BY <1>2, <2>3
    <3> HIDE DEF T
    <3> QED
      BY ONLY <3>1, <3>2, SumUnique
  <2>5. g[S] = f[Any(S)] + g[T]
    BY <1>2, <1>4 DEF SumsOn
  <2> QED
    BY <1>2, <2>1, <2>3, <2>4, <2>5
<1> QED
  BY <1>3, <1>4

-----------------------------------------------------------------------------
(* What a sum is, whichever order is taken. *)

THEOREM SumEmpty ==
  ASSUME NEW f
  PROVE  SumFunctionOnSet(f, {}) = 0
BY SumRecursion, FS_EmptySet

\* A sum of integers is an integer.
THEOREM SumInt ==
  ASSUME NEW f, NEW S, IsFiniteSet(S), \A x \in S : f[x] \in Int
  PROVE  SumFunctionOnSet(f, S) \in Int
<1> DEFINE B == {T \in SUBSET S : SumFunctionOnSet(f, T) \notin Int}
<1>1. SUFFICES ASSUME B # {} PROVE FALSE
  BY <1>1
<1>2. PICK T \in B : \A U \in B : U \subseteq T => U = T
  <2>1. B \subseteq SUBSET S
    OBVIOUS
  <2> HIDE DEF B
  <2> QED
    BY <1>1, <2>1, SmallestSubset
<1>3. T \in SUBSET S /\ SumFunctionOnSet(f, T) \notin Int /\ IsFiniteSet(T)
  BY FS_Subset
<1>4. T # {}
  BY <1>3, SumEmpty
<1>5. Any(T) \in T /\ SumFunctionOnSet(f, T) = f[Any(T)] + SumFunctionOnSet(f, T \ {Any(T)})
  BY <1>3, <1>4, SumRecursion
<1>6. SumFunctionOnSet(f, T \ {Any(T)}) \in Int
  BY <1>2, <1>3, <1>5
<1>7. f[Any(T)] \in Int
  BY <1>3, <1>5
<1> QED
  BY <1>3, <1>5, <1>6, <1>7

\* Any element can be taken out first: the sum does not depend on the order.
THEOREM SumRemove ==
  ASSUME NEW f, NEW S, IsFiniteSet(S), \A x \in S : f[x] \in Int, NEW x \in S
  PROVE  SumFunctionOnSet(f, S) = f[x] + SumFunctionOnSet(f, S \ {x})
<1> DEFINE sum(T) == SumFunctionOnSet(f, T)
           B == {T \in SUBSET S : \E y \in T : sum(T) # f[y] + sum(T \ {y})}
<1>1. SUFFICES ASSUME B # {} PROVE FALSE
  <2> S \notin B => sum(S) = f[x] + sum(S \ {x})
    OBVIOUS
  <2> QED
    BY <1>1
<1>2. PICK T \in B : \A U \in B : U \subseteq T => U = T
  <2>1. B \subseteq SUBSET S
    OBVIOUS
  <2> HIDE DEF B
  <2> QED
    BY <1>1, <2>1, SmallestSubset
<1>3. T \in SUBSET S /\ IsFiniteSet(T)
  BY FS_Subset
<1>4. PICK y \in T : sum(T) # f[y] + sum(T \ {y})
  OBVIOUS
<1> DEFINE z == Any(T)
<1>5. z \in T /\ sum(T) = f[z] + sum(T \ {z})
  BY <1>3, <1>4, SumRecursion
<1>6. z # y
  BY <1>4, <1>5
<1>7. ASSUME NEW u \in T, NEW v \in T, u # v
      PROVE  sum(T \ {u}) = f[v] + sum(T \ {u, v})
  <2>1. T \ {u} \notin B /\ T \ {u} \in SUBSET S /\ v \in T \ {u} /\ (T \ {u}) \ {v} = T \ {u, v}
    BY <1>2, <1>3, <1>7
  <2> QED
    BY <2>1
<1>8. sum(T \ {z}) = f[y] + sum(T \ {z, y}) /\ sum(T \ {y}) = f[z] + sum(T \ {z, y})
  <2>1. {y, z} = {z, y}
    OBVIOUS
  <2> HIDE DEF B, z, sum
  <2> QED
    BY <1>5, <1>6, <1>7, <2>1
<1>9. f[y] \in Int /\ f[z] \in Int /\ sum(T \ {z, y}) \in Int
  <2>1. IsFiniteSet(T \ {z, y}) /\ \A t \in T \ {z, y} : f[t] \in Int
    BY <1>3, FS_Subset
  <2> HIDE DEF B, z
  <2> QED
    BY <1>3, <1>5, <2>1, SumInt
<1> HIDE DEF B, z, sum
<1> QED
  BY <1>4, <1>5, <1>8, <1>9

\* A sum of natural numbers is one, and at least as large as each of them.
THEOREM SumNat ==
  ASSUME NEW f, NEW S, IsFiniteSet(S), \A x \in S : f[x] \in Nat
  PROVE  /\ SumFunctionOnSet(f, S) \in Nat
         /\ \A x \in S : f[x] <= SumFunctionOnSet(f, S)
<1> DEFINE B == {T \in SUBSET S : SumFunctionOnSet(f, T) \notin Nat}
<1>1. B = {}
  <2> SUFFICES ASSUME B # {} PROVE FALSE
    OBVIOUS
  <2>1. PICK T \in B : \A U \in B : U \subseteq T => U = T
    <3>1. B \subseteq SUBSET S
      OBVIOUS
    <3> HIDE DEF B
    <3> QED
      BY <3>1, SmallestSubset
  <2>2. T \in SUBSET S /\ SumFunctionOnSet(f, T) \notin Nat /\ IsFiniteSet(T)
    BY FS_Subset
  <2>3. T # {}
    BY <2>2, SumEmpty
  <2>4. Any(T) \in T /\ SumFunctionOnSet(f, T) = f[Any(T)] + SumFunctionOnSet(f, T \ {Any(T)})
    BY <2>2, <2>3, SumRecursion
  <2>5. SumFunctionOnSet(f, T \ {Any(T)}) \in Nat
    BY <2>1, <2>2, <2>4
  <2>6. f[Any(T)] \in Nat
    BY <2>2, <2>4
  <2> QED
    BY <2>2, <2>4, <2>5, <2>6
<1>2. ASSUME NEW T \in SUBSET S PROVE SumFunctionOnSet(f, T) \in Nat
  BY <1>1
<1>3. ASSUME NEW x \in S PROVE f[x] <= SumFunctionOnSet(f, S)
  <2>1. SumFunctionOnSet(f, S) = f[x] + SumFunctionOnSet(f, S \ {x})
    BY SumRemove
  <2>2. SumFunctionOnSet(f, S \ {x}) \in Nat /\ f[x] \in Nat
    BY <1>2
  <2> QED
    BY <2>1, <2>2
<1> QED
  BY <1>2, <1>3

\* A new element adds its value.
THEOREM SumAdd ==
  ASSUME NEW f, NEW S, IsFiniteSet(S), NEW x, x \notin S, \A y \in S \cup {x} : f[y] \in Int
  PROVE  SumFunctionOnSet(f, S \cup {x}) = SumFunctionOnSet(f, S) + f[x]
<1>1. IsFiniteSet(S \cup {x}) /\ x \in S \cup {x} /\ (S \cup {x}) \ {x} = S
  BY FS_AddElement
<1>2. SumFunctionOnSet(f, S \cup {x}) = f[x] + SumFunctionOnSet(f, S)
  BY <1>1, SumRemove
<1>3. SumFunctionOnSet(f, S) \in Int /\ f[x] \in Int
  BY SumInt
<1> QED
  BY <1>2, <1>3

\* A sum looks at nothing but the values on its set.
THEOREM SumAgree ==
  ASSUME NEW f, NEW g, NEW S, IsFiniteSet(S), \A x \in S : f[x] = g[x]
  PROVE  SumFunctionOnSet(f, S) = SumFunctionOnSet(g, S)
<1> DEFINE B == {T \in SUBSET S : SumFunctionOnSet(f, T) # SumFunctionOnSet(g, T)}
<1>1. SUFFICES ASSUME B # {} PROVE FALSE
  BY <1>1
<1>2. PICK T \in B : \A U \in B : U \subseteq T => U = T
  <2>1. B \subseteq SUBSET S
    OBVIOUS
  <2> HIDE DEF B
  <2> QED
    BY <1>1, <2>1, SmallestSubset
<1>3. T \in SUBSET S /\ SumFunctionOnSet(f, T) # SumFunctionOnSet(g, T) /\ IsFiniteSet(T)
  BY FS_Subset
<1>4. T # {}
  BY <1>3, SumEmpty
<1>5. /\ Any(T) \in T
      /\ SumFunctionOnSet(f, T) = f[Any(T)] + SumFunctionOnSet(f, T \ {Any(T)})
      /\ SumFunctionOnSet(g, T) = g[Any(T)] + SumFunctionOnSet(g, T \ {Any(T)})
  BY <1>3, <1>4, SumRecursion
<1>6. SumFunctionOnSet(f, T \ {Any(T)}) = SumFunctionOnSet(g, T \ {Any(T)})
  BY <1>2, <1>3, <1>5
<1>7. f[Any(T)] = g[Any(T)]
  BY <1>3, <1>5
<1> QED
  BY <1>3, <1>5, <1>6, <1>7

\* The same, when the function changes outside the set as well.
THEOREM SumExtend ==
  ASSUME NEW f, NEW g, NEW S, IsFiniteSet(S), NEW x, x \notin S,
         \A y \in S : f[y] = g[y], \A y \in S \cup {x} : g[y] \in Int
  PROVE  /\ SumFunctionOnSet(g, S \cup {x}) = SumFunctionOnSet(f, S) + g[x]
         /\ SumFunctionOnSet(f, S) \in Int /\ g[x] \in Int
<1>1. SumFunctionOnSet(f, S) = SumFunctionOnSet(g, S)
  BY SumAgree
<1>2. SumFunctionOnSet(g, S \cup {x}) = SumFunctionOnSet(g, S) + g[x]
  BY SumAdd
<1>3. SumFunctionOnSet(g, S) \in Int
  BY SumInt
<1> QED
  BY <1>1, <1>2, <1>3

\* The sum of a pointwise sum.
THEOREM SumPlus ==
  ASSUME NEW f, NEW g, NEW h, NEW S, IsFiniteSet(S),
         \A x \in S : f[x] \in Int /\ g[x] \in Int /\ h[x] = f[x] + g[x]
  PROVE  SumFunctionOnSet(h, S) = SumFunctionOnSet(f, S) + SumFunctionOnSet(g, S)
<1> DEFINE Fits(T) == SumFunctionOnSet(h, T) = SumFunctionOnSet(f, T) + SumFunctionOnSet(g, T)
           B == {T \in SUBSET S : ~ Fits(T)}
<1>1. SUFFICES ASSUME B # {} PROVE FALSE
  BY <1>1
<1>2. PICK T \in B : \A U \in B : U \subseteq T => U = T
  <2>1. B \subseteq SUBSET S
    OBVIOUS
  <2> HIDE DEF B
  <2> QED
    BY <1>1, <2>1, SmallestSubset
<1>3. T \in SUBSET S /\ ~ Fits(T) /\ IsFiniteSet(T)
  BY FS_Subset
<1>4. T # {}
  BY <1>3, SumEmpty
<1>5. PICK x \in T : TRUE
  BY <1>4
<1> DEFINE U == T \ {x}
<1>6. Fits(U)
  BY <1>2, <1>3
<1>7. /\ SumFunctionOnSet(f, T) = f[x] + SumFunctionOnSet(f, U)
      /\ SumFunctionOnSet(g, T) = g[x] + SumFunctionOnSet(g, U)
      /\ SumFunctionOnSet(h, T) = h[x] + SumFunctionOnSet(h, U)
  <2>1. \A y \in T : f[y] \in Int /\ g[y] \in Int /\ h[y] \in Int
    BY <1>3
  <2> QED
    BY <1>3, <2>1, SumRemove
<1>8. SumFunctionOnSet(f, U) \in Int /\ SumFunctionOnSet(g, U) \in Int
  <2>1. IsFiniteSet(U) /\ \A y \in U : f[y] \in Int /\ g[y] \in Int
    BY <1>3, FS_Subset
  <2> HIDE DEF U
  <2> QED
    BY <2>1, SumInt
<1>9. f[x] \in Int /\ g[x] \in Int /\ h[x] = f[x] + g[x]
  BY <1>3
<1> HIDE DEF B, U
<1> QED
  BY <1>3, <1>6, <1>7, <1>8, <1>9

\* Only the elements that count.
THEOREM SumZero ==
  ASSUME NEW f, NEW S, IsFiniteSet(S), \A x \in S : f[x] = 0
  PROVE  SumFunctionOnSet(f, S) = 0
<1> DEFINE sum == SumFunctionOnSet(f, S)
<1>1. sum \in Int
  BY SumInt
<1>2. sum = sum + sum
  BY SumPlus
<1> HIDE DEF sum
<1>3. sum = 0
  BY ONLY <1>1, <1>2
<1> QED
  BY <1>3 DEF sum

\* Values that are each covered by a value of their own have no larger sum.
THEOREM SumCovered ==
  ASSUME NEW f, NEW S, IsFiniteSet(S), \A x \in S : f[x] \in Int,
         NEW g, NEW R, IsFiniteSet(R), \A r \in R : g[r] \in Nat,
         NEW k, \A x \in S : k[x] \in R /\ f[x] <= g[k[x]],
         \A x, y \in S : k[x] = k[y] => x = y
  PROVE  SumFunctionOnSet(f, S) <= SumFunctionOnSet(g, R)
<1> DEFINE image(T) == {k[x] : x \in T}
           B == {T \in SUBSET S : ~ \A Q \in SUBSET R : image(T) \subseteq Q
                    => SumFunctionOnSet(f, T) <= SumFunctionOnSet(g, Q)}
<1>1. SUFFICES ASSUME B # {} PROVE FALSE
  <2>1. S \notin B
    BY <1>1
  <2>2. image(S) \subseteq R /\ R \in SUBSET R
    OBVIOUS
  <2> QED
    BY <2>1, <2>2
<1>2. PICK T \in B : \A U \in B : U \subseteq T => U = T
  <2>1. B \subseteq SUBSET S
    OBVIOUS
  <2> HIDE DEF B
  <2> QED
    BY <1>1, <2>1, SmallestSubset
<1>3. T \in SUBSET S /\ IsFiniteSet(T)
  BY FS_Subset
<1>4. PICK Q \in SUBSET R :
        image(T) \subseteq Q /\ ~ (SumFunctionOnSet(f, T) <= SumFunctionOnSet(g, Q))
  BY <1>3
<1>5. IsFiniteSet(Q) /\ \A r \in Q : g[r] \in Nat
  BY FS_Subset
<1>6. T # {}
  <2> SUFFICES ASSUME T = {} PROVE FALSE
    OBVIOUS
  <2>1. SumFunctionOnSet(f, T) = 0
    BY SumEmpty
  <2> QED
    BY <1>4, <1>5, <2>1, SumNat
<1>7. PICK x \in T : TRUE
  BY <1>6
<1> DEFINE T1 == T \ {x}
           Q1 == Q \ {k[x]}
<1>8. k[x] \in Q /\ f[x] <= g[k[x]] /\ f[x] \in Int /\ g[k[x]] \in Nat
  BY <1>3, <1>4, <1>5
<1>9. T1 \in SUBSET S /\ T1 \notin B /\ Q1 \in SUBSET R
  BY <1>2, <1>3
<1>10. image(T1) \subseteq Q1
  BY <1>3, <1>4
<1>11. SumFunctionOnSet(f, T1) <= SumFunctionOnSet(g, Q1)
  BY <1>9, <1>10
<1>12. SumFunctionOnSet(f, T) = f[x] + SumFunctionOnSet(f, T1)
  BY <1>3, SumRemove
<1>13. SumFunctionOnSet(g, Q) = g[k[x]] + SumFunctionOnSet(g, Q1)
  BY <1>5, <1>8, SumRemove
<1>14. SumFunctionOnSet(f, T1) \in Int /\ SumFunctionOnSet(g, Q1) \in Int
  <2>1. IsFiniteSet(T1) /\ IsFiniteSet(Q1) /\ (\A y \in T1 : f[y] \in Int) /\ \A r \in Q1 : g[r] \in Int
    BY <1>3, <1>5, FS_Subset
  <2> HIDE DEF T1, Q1
  <2> QED
    BY <2>1, SumInt
<1> HIDE DEF B, T1, Q1
<1> QED
  BY <1>4, <1>8, <1>11, <1>12, <1>13, <1>14

-----------------------------------------------------------------------------
(* Counters: the values that are not zero. *)

Support(f, R) == {r \in R : f[r] > 0}

\* When one value of a function with finite support changes, the support stays finite and the
\* sum over it follows the change.
THEOREM SumSupport ==
  ASSUME NEW R, NEW f \in [R -> Nat], IsFiniteSet(Support(f, R)),
         NEW x \in R, NEW v \in Nat, NEW g, g = [f EXCEPT ![x] = v]
  PROVE  /\ IsFiniteSet(Support(g, R))
         /\ SumFunctionOnSet(g, Support(g, R)) = SumFunctionOnSet(f, Support(f, R)) - f[x] + v
         /\ f[x] <= SumFunctionOnSet(f, Support(f, R))
<1> DEFINE rest == Support(f, R) \ {x}
<1>1. /\ rest = Support(g, R) \ {x} /\ IsFiniteSet(rest) /\ x \notin rest
      /\ \A r \in rest : f[r] = g[r] /\ f[r] \in Nat
      /\ f[x] \in Nat /\ g[x] = v
  BY FS_Subset DEF Support
<1> HIDE DEF rest
<1>2. SumFunctionOnSet(f, rest) = SumFunctionOnSet(g, rest) /\ SumFunctionOnSet(f, rest) \in Nat
  <2>1. SumFunctionOnSet(f, rest) = SumFunctionOnSet(g, rest)
    <3>1. IsFiniteSet(rest) /\ \A r \in rest : f[r] = g[r]
      BY <1>1
    <3> QED
      BY ONLY <3>1, SumAgree
  <2>2. SumFunctionOnSet(f, rest) \in Nat
    BY <1>1, SumNat
  <2> QED
    BY <2>1, <2>2
<1>3. SumFunctionOnSet(f, Support(f, R)) = SumFunctionOnSet(f, rest) + f[x]
  <2>1. CASE f[x] = 0
    <3>1. rest = Support(f, R)
      BY <2>1 DEF rest, Support
    <3> QED
      BY <1>2, <2>1, <3>1
  <2>2. CASE f[x] > 0
    <3>1. Support(f, R) = rest \cup {x}
      BY <2>2 DEF rest, Support
    <3>2. \A y \in rest \cup {x} : f[y] \in Int
      BY <1>1
    <3>3. SumFunctionOnSet(f, rest \cup {x}) = SumFunctionOnSet(f, rest) + f[x]
      BY <1>1, <3>2, SumAdd
    <3> QED
      BY <3>1, <3>3
  <2> QED
    BY <1>1, <2>1, <2>2
<1>4. /\ IsFiniteSet(Support(g, R))
      /\ SumFunctionOnSet(g, Support(g, R)) = SumFunctionOnSet(g, rest) + v
  <2>1. CASE v = 0
    <3>1. rest = Support(g, R)
      BY <1>1, <2>1 DEF Support
    <3>2. SumFunctionOnSet(g, rest) = SumFunctionOnSet(g, rest) + v
      BY <1>2, <2>1
    <3> QED
      BY <1>1, <3>1, <3>2
  <2>2. CASE v > 0
    <3>1. Support(g, R) = rest \cup {x}
      BY <1>1, <2>2 DEF Support
    <3>2. \A y \in rest \cup {x} : g[y] \in Int
      BY <1>1
    <3>3. SumFunctionOnSet(g, rest \cup {x}) = SumFunctionOnSet(g, rest) + g[x]
      BY <1>1, <3>2, SumAdd
    <3>4. IsFiniteSet(rest \cup {x})
      BY <1>1, FS_AddElement
    <3> QED
      BY <1>1, <3>1, <3>3, <3>4
  <2> QED
    BY <2>1, <2>2
<1> QED
  BY <1>1, <1>2, <1>3, <1>4
==============================================================================
