---------------------------- MODULE SumTheorems -----------------------------
(***************************************************************************)
(* Facts about sums of functions over finite sets, SumFunctionOnSet, and    *)
(* about the least and the greatest element of a finite set of integers.    *)
(*                                                                         *)
(* They need induction over finite sets.  Its rule takes a predicate as a   *)
(* parameter, which no prover here can instantiate; instead, each proof     *)
(* takes a smallest set for which the claim fails (LEMMA Smallest) and      *)
(* refutes it.                                                             *)
(***************************************************************************)
EXTENDS FiniteSetsExt, FiniteSetTheorems, WellFoundedInduction, TLAPS

\* Among some subsets of a finite set there is one that contains no other.
LEMMA Smallest ==
    ASSUME NEW S, IsFiniteSet(S), NEW Bad, Bad \subseteq SUBSET S, Bad # {}
    PROVE  \E T \in Bad : \A U \in SUBSET T : U # T => U \notin Bad
<1>1. Bad \subseteq FiniteSubsetsOf(S)
  BY FS_FiniteSubsetsOfFinite
<1>2. IsWellFoundedOn(StrictSubsetOrdering(S), FiniteSubsetsOf(S))
  BY FS_StrictSubsetOrderingWellFounded
<1>3. \E T \in Bad : \A U \in Bad : <<U, T>> \notin StrictSubsetOrdering(S)
  BY <1>1, <1>2, WFMin
<1> QED
  BY <1>3 DEF StrictSubsetOrdering

-----------------------------------------------------------------------------
(* The recursion behind SumFunctionOnSet.                                   *)

Pick(s) == CHOOSE x \in s : TRUE
\* g adds up f over every subset of S, one element after the other.
AddsUp(f, S, g) ==
    g = [s \in SUBSET S |-> IF s = {} THEN 0 ELSE f[Pick(s)] + g[s \ {Pick(s)}]]

LEMMA SumIsSome == \A f, S : SumFunctionOnSet(f, S) = (CHOOSE g : AddsUp(f, S, g))[S]
BY DEF SumFunctionOnSet, FoldFunctionOnSet, MapThenFoldSet, AddsUp, Pick

LEMMA PickIn == \A s : s # {} => Pick(s) \in s
BY DEF Pick

\* Two of them agree where both are defined.
LEMMA AddsUpUnique ==
    ASSUME NEW f, NEW S, IsFiniteSet(S), NEW g, AddsUp(f, S, g),
           NEW T \in SUBSET S, NEW h, AddsUp(f, T, h)
    PROVE  \A s \in SUBSET T : g[s] = h[s]
<1> DEFINE Bad == {s \in SUBSET T : g[s] # h[s]}
<1> SUFFICES ASSUME Bad # {}
             PROVE  FALSE
  OBVIOUS
<1>1. IsFiniteSet(T)
  BY FS_Subset
<1>2. PICK s \in Bad : \A u \in SUBSET s : u # s => u \notin Bad
  <2>1. Bad \subseteq SUBSET T
    OBVIOUS
  <2> HIDE DEF Bad
  <2> QED
    BY <1>1, <2>1, Smallest
<1>3. CASE s = {}
  BY <1>3 DEF AddsUp
<1>4. CASE s # {}
  <2>1. s \ {Pick(s)} # s /\ s \ {Pick(s)} \in SUBSET s
    BY <1>4, PickIn
  <2>2. g[s \ {Pick(s)}] = h[s \ {Pick(s)}]
    BY <1>2, <2>1
  <2>3. g[s] = f[Pick(s)] + g[s \ {Pick(s)}] /\ h[s] = f[Pick(s)] + h[s \ {Pick(s)}]
    BY <1>2, <1>4 DEF AddsUp
  <2> QED
    BY <2>2, <2>3, <1>2
<1> QED
  BY <1>3, <1>4

LEMMA AddsUpExists ==
    ASSUME NEW f, NEW S, IsFiniteSet(S)
    PROVE  \E g : AddsUp(f, S, g)
<1> DEFINE Bad == {T \in SUBSET S : ~ \E g : AddsUp(f, T, g)}
<1> SUFFICES ASSUME Bad # {}
             PROVE  FALSE
  OBVIOUS
<1>1. PICK T \in Bad : \A U \in SUBSET T : U # T => U \notin Bad
  <2>1. Bad \subseteq SUBSET S
    OBVIOUS
  <2> HIDE DEF Bad
  <2> QED
    BY <2>1, Smallest
<1> DEFINE some(U) == CHOOSE g : AddsUp(f, U, g)
           h == [s \in SUBSET T |-> IF s = {} THEN 0
                                    ELSE f[Pick(s)] + some(s \ {Pick(s)})[s \ {Pick(s)}]]
<1>2. ASSUME NEW U \in SUBSET T, U # T
      PROVE  AddsUp(f, U, some(U)) /\ IsFiniteSet(U)
  <2>1. U \in SUBSET S
    OBVIOUS
  <2>2. \E g : AddsUp(f, U, g)
    BY <1>1, <1>2, <2>1
  <2>3. AddsUp(f, U, some(U))
    BY <2>2
  <2>4. IsFiniteSet(U)
    BY <2>1, FS_Subset
  <2> QED
    BY <2>3, <2>4
<1>3. ASSUME NEW s \in SUBSET T, s # {}
      PROVE  h[s \ {Pick(s)}] = some(s \ {Pick(s)})[s \ {Pick(s)}]
  <2> DEFINE u == s \ {Pick(s)}
             v == u \ {Pick(u)}
  <2>1. u \in SUBSET T /\ u # T
    BY <1>3, PickIn
  <2>2. AddsUp(f, u, some(u)) /\ IsFiniteSet(u)
    BY <1>2, <2>1
  <2>3. CASE u = {}
    <3>1. some(u)[u] = 0
      BY <2>2, <2>3 DEF AddsUp
    <3>2. h[u] = 0
      BY <2>1, <2>3
    <3> QED
      BY <3>1, <3>2
  <2>4. CASE u # {}
    <3>1. v \in SUBSET u /\ v \in SUBSET T /\ v # T
      BY <2>1, <2>4, PickIn
    <3>2. AddsUp(f, v, some(v))
      BY <1>2, <3>1
    <3> HIDE DEF some
    <3> HIDE DEF v, u, h, Bad
    <3>3. some(u)[v] = some(v)[v]
      BY <2>2, <3>1, <3>2, AddsUpUnique
    <3> USE DEF v, u, h
    <3>4. some(u)[u] = f[Pick(u)] + some(u)[v]
      BY <2>2, <2>4 DEF AddsUp
    <3>5. h[u] = f[Pick(u)] + some(v)[v]
      BY <2>1, <2>4
    <3> QED
      BY <3>3, <3>4, <3>5
  <2> QED
    BY <2>3, <2>4
<1>4. AddsUp(f, T, h)
  <2> HIDE DEF some
  <2>1. ASSUME NEW s \in SUBSET T
        PROVE  h[s] = IF s = {} THEN 0 ELSE f[Pick(s)] + h[s \ {Pick(s)}]
    BY <1>3
  <2>2. h = [s \in SUBSET T |-> h[s]]
    OBVIOUS
  <2> HIDE DEF h
  <2> QED
    BY <2>1, <2>2 DEF AddsUp
<1> QED
  BY <1>1, <1>4

\* A sum is 0 or the value at some element and the sum over the others.
LEMMA SumUnfolds ==
    ASSUME NEW f, NEW S, IsFiniteSet(S)
    PROVE  SumFunctionOnSet(f, S) =
               IF S = {} THEN 0 ELSE f[Pick(S)] + SumFunctionOnSet(f, S \ {Pick(S)})
<1> DEFINE some(U) == CHOOSE g : AddsUp(f, U, g)
           R == S \ {Pick(S)}
<1>1. AddsUp(f, S, some(S)) /\ SumFunctionOnSet(f, S) = some(S)[S]
  BY AddsUpExists, SumIsSome
<1>2. IsFiniteSet(R) /\ R \in SUBSET S
  BY FS_Subset
<1>3. AddsUp(f, R, some(R)) /\ SumFunctionOnSet(f, R) = some(R)[R]
  BY <1>2, AddsUpExists, SumIsSome
<1> HIDE DEF some
<1>4. some(S)[R] = some(R)[R]
  <2> HIDE DEF R
  <2> QED
    BY <1>1, <1>2, <1>3, AddsUpUnique
<1>5. some(S)[S] = IF S = {} THEN 0 ELSE f[Pick(S)] + some(S)[R]
  BY <1>1 DEF AddsUp
<1> QED
  BY <1>1, <1>3, <1>4, <1>5

-----------------------------------------------------------------------------
(* What a sum is.                                                           *)

LEMMA SumEmpty == \A f : SumFunctionOnSet(f, {}) = 0
BY SumUnfolds, FS_EmptySet

\* A sum is an integer, and any element can be taken out of it first.
LEMMA SumRemove ==
    ASSUME NEW f, NEW S, IsFiniteSet(S), \A x \in S : f[x] \in Int
    PROVE  /\ SumFunctionOnSet(f, S) \in Int
           /\ \A x \in S : SumFunctionOnSet(f, S) = f[x] + SumFunctionOnSet(f, S \ {x})
<1> DEFINE sum(U) == SumFunctionOnSet(f, U)
           Fine(U) == sum(U) \in Int /\ \A x \in U : sum(U) = f[x] + sum(U \ {x})
           Bad == {U \in SUBSET S : ~Fine(U)}
<1> SUFFICES ASSUME Bad # {}
             PROVE  FALSE
  OBVIOUS
<1>1. PICK T \in Bad : \A U \in SUBSET T : U # T => U \notin Bad
  <2>1. Bad \subseteq SUBSET S
    OBVIOUS
  <2> HIDE DEF Bad
  <2> QED
    BY <2>1, Smallest
<1>2. ASSUME NEW U \in SUBSET T, U # T
      PROVE  Fine(U)
  <2>1. U \in SUBSET S /\ U \notin Bad
    BY <1>1, <1>2
  <2> QED
    BY <2>1
<1>3. ASSUME NEW U \in SUBSET T
      PROVE  sum(U) = IF U = {} THEN 0 ELSE f[Pick(U)] + sum(U \ {Pick(U)})
  <2>1. IsFiniteSet(U)
    BY FS_Subset
  <2> QED
    BY <2>1, SumUnfolds
<1> HIDE DEF sum
<1>4. CASE T = {}
  BY <1>1, <1>3, <1>4
<1>5. CASE T # {}
  <2> DEFINE a == Pick(T)
             R == T \ {a}
  <2>1. a \in T /\ R \in SUBSET T /\ R # T
    BY <1>5, PickIn
  <2>2. Fine(R) /\ f[a] \in Int /\ sum(T) = f[a] + sum(R)
    BY <1>2, <1>3, <1>5, <2>1
  <2>3. sum(T) \in Int
    BY <2>2
  <2>4. ASSUME NEW x \in T
        PROVE  sum(T) = f[x] + sum(T \ {x})
    <3>1. CASE x = a
      BY <2>2, <3>1
    <3>2. CASE x # a
      <4> DEFINE Q == T \ {x}
                 B == R \ {x}
      <4>1. Q \in SUBSET T /\ Q # T /\ a \in Q /\ Q \ {a} = B /\ x \in R
        BY <2>1, <3>2
      <4>2. B \in SUBSET T /\ B # T
        BY <2>1
      <4>3. sum(R) = f[x] + sum(B)
        BY <2>2, <4>1
      <4>4. sum(Q) = f[a] + sum(B)
        BY <1>2, <4>1
      <4>5. sum(B) \in Int /\ f[x] \in Int
        BY <1>2, <4>2
      <4> QED
        BY <2>2, <4>3, <4>4, <4>5
    <3> QED
      BY <3>1, <3>2
  <2> QED
    BY <1>1, <2>3, <2>4
<1> QED
  BY <1>4, <1>5

LEMMA SumIsInt ==
    ASSUME NEW f, NEW S, IsFiniteSet(S), \A x \in S : f[x] \in Int
    PROVE  SumFunctionOnSet(f, S) \in Int
BY SumRemove

LEMMA SumAdd ==
    ASSUME NEW f, NEW S, IsFiniteSet(S), NEW a, a \notin S, \A x \in S \cup {a} : f[x] \in Int
    PROVE  SumFunctionOnSet(f, S \cup {a}) = f[a] + SumFunctionOnSet(f, S)
<1>1. IsFiniteSet(S \cup {a}) /\ (S \cup {a}) \ {a} = S
  BY FS_AddElement
<1> QED
  BY <1>1, SumRemove

LEMMA SumSingleton ==
    ASSUME NEW f, NEW a, f[a] \in Int
    PROVE  SumFunctionOnSet(f, {a}) = f[a]
<1>1. SumFunctionOnSet(f, {} \cup {a}) = f[a] + SumFunctionOnSet(f, {})
  BY SumAdd, FS_EmptySet
<1> QED
  BY <1>1, SumEmpty

\* If every value of h is that of f and that of g together, so are the sums.
LEMMA SumOfTwo ==
    ASSUME NEW S, IsFiniteSet(S), NEW f, NEW g, NEW h,
           \A x \in S : f[x] \in Int /\ g[x] \in Int /\ h[x] = f[x] + g[x]
    PROVE  SumFunctionOnSet(h, S) = SumFunctionOnSet(f, S) + SumFunctionOnSet(g, S)
<1> DEFINE Bad == {U \in SUBSET S : SumFunctionOnSet(h, U) #
                                        SumFunctionOnSet(f, U) + SumFunctionOnSet(g, U)}
<1> SUFFICES ASSUME Bad # {}
             PROVE  FALSE
  OBVIOUS
<1>1. PICK T \in Bad : \A U \in SUBSET T : U # T => U \notin Bad
  <2>1. Bad \subseteq SUBSET S
    OBVIOUS
  <2> HIDE DEF Bad
  <2> QED
    BY <2>1, Smallest
<1>2. T # {}
  <2>1. /\ SumFunctionOnSet(f, {}) = 0 /\ SumFunctionOnSet(g, {}) = 0
        /\ SumFunctionOnSet(h, {}) = 0 /\ 0 + 0 = 0
    BY SumEmpty
  <2>2. {} \notin Bad
    BY <2>1
  <2> QED
    BY <1>1, <2>2
<1>3. PICK a \in T : TRUE
  BY <1>2
<1> DEFINE R == T \ {a}
<1>4. IsFiniteSet(T) /\ IsFiniteSet(R) /\ R \in SUBSET T /\ R # T /\ R \in SUBSET S
  BY <1>3, FS_Subset
<1>5. SumFunctionOnSet(h, R) = SumFunctionOnSet(f, R) + SumFunctionOnSet(g, R)
  BY <1>1, <1>4
<1>6. \A x \in S : h[x] \in Int
  OBVIOUS
<1>7. /\ SumFunctionOnSet(f, T) = f[a] + SumFunctionOnSet(f, R)
      /\ SumFunctionOnSet(g, T) = g[a] + SumFunctionOnSet(g, R)
      /\ SumFunctionOnSet(h, T) = h[a] + SumFunctionOnSet(h, R)
      /\ SumFunctionOnSet(f, R) \in Int /\ SumFunctionOnSet(g, R) \in Int
  BY <1>3, <1>4, <1>6, SumRemove
<1>8. f[a] \in Int /\ g[a] \in Int /\ h[a] = f[a] + g[a]
  BY <1>3
<1>9. SumFunctionOnSet(h, T) = SumFunctionOnSet(f, T) + SumFunctionOnSet(g, T)
  <2> HIDE DEF R
  <2> QED
    BY <1>5, <1>7, <1>8
<1> QED
  BY <1>1, <1>9

\* Sums compare as the functions do.
LEMMA SumMonotone ==
    ASSUME NEW S, IsFiniteSet(S), NEW f, NEW g,
           \A x \in S : f[x] \in Int /\ g[x] \in Int /\ f[x] <= g[x]
    PROVE  SumFunctionOnSet(f, S) <= SumFunctionOnSet(g, S)
<1> DEFINE Bad == {U \in SUBSET S : ~(SumFunctionOnSet(f, U) <= SumFunctionOnSet(g, U))}
<1> SUFFICES ASSUME Bad # {}
             PROVE  FALSE
  OBVIOUS
<1>1. PICK T \in Bad : \A U \in SUBSET T : U # T => U \notin Bad
  <2>1. Bad \subseteq SUBSET S
    OBVIOUS
  <2> HIDE DEF Bad
  <2> QED
    BY <2>1, Smallest
<1>2. T # {}
  <2>1. SumFunctionOnSet(f, {}) = 0 /\ SumFunctionOnSet(g, {}) = 0
    BY SumEmpty
  <2>2. {} \notin Bad
    BY <2>1
  <2> QED
    BY <1>1, <2>2
<1>3. PICK a \in T : TRUE
  BY <1>2
<1> DEFINE R == T \ {a}
<1>4. IsFiniteSet(T) /\ IsFiniteSet(R) /\ R \in SUBSET T /\ R # T /\ R \in SUBSET S
  BY <1>3, FS_Subset
<1>5. SumFunctionOnSet(f, R) <= SumFunctionOnSet(g, R)
  BY <1>1, <1>4
<1>6. /\ SumFunctionOnSet(f, T) = f[a] + SumFunctionOnSet(f, R)
      /\ SumFunctionOnSet(g, T) = g[a] + SumFunctionOnSet(g, R)
      /\ SumFunctionOnSet(f, R) \in Int /\ SumFunctionOnSet(g, R) \in Int
  BY <1>3, <1>4, SumRemove
<1>7. f[a] \in Int /\ g[a] \in Int /\ f[a] <= g[a]
  BY <1>3
<1>8. SumFunctionOnSet(f, T) <= SumFunctionOnSet(g, T)
  <2> HIDE DEF R
  <2> QED
    BY <1>5, <1>6, <1>7
<1> QED
  BY <1>1, <1>8

LEMMA SumEqual ==
    ASSUME NEW S, IsFiniteSet(S), NEW f, NEW g, \A x \in S : f[x] \in Int /\ g[x] = f[x]
    PROVE  SumFunctionOnSet(g, S) = SumFunctionOnSet(f, S)
<1>1. /\ SumFunctionOnSet(f, S) <= SumFunctionOnSet(g, S)
      /\ SumFunctionOnSet(g, S) <= SumFunctionOnSet(f, S)
  BY SumMonotone
<1> QED
  BY <1>1, SumIsInt

LEMMA SumZero ==
    ASSUME NEW S, IsFiniteSet(S), NEW f, \A x \in S : f[x] = 0
    PROVE  SumFunctionOnSet(f, S) = 0
<1>1. SumFunctionOnSet(f, S) = SumFunctionOnSet(f, S) + SumFunctionOnSet(f, S)
  BY SumOfTwo
<1> QED
  BY <1>1, SumIsInt

\* A sum of naturals is one, and at least each of its terms.
LEMMA SumOfNaturals ==
    ASSUME NEW S, IsFiniteSet(S), NEW f, \A x \in S : f[x] \in Nat
    PROVE  /\ SumFunctionOnSet(f, S) \in Nat
           /\ \A x \in S : f[x] <= SumFunctionOnSet(f, S)
           /\ \A x, y \in S : x # y => f[x] + f[y] <= SumFunctionOnSet(f, S)
<1> DEFINE zero == [x \in S |-> 0]
<1>1. ASSUME NEW U \in SUBSET S
      PROVE  SumFunctionOnSet(f, U) \in Nat
  <2>1. IsFiniteSet(U)
    BY FS_Subset
  <2>2. SumFunctionOnSet(zero, U) = 0
    BY <2>1, SumZero
  <2>3. SumFunctionOnSet(zero, U) <= SumFunctionOnSet(f, U)
    BY <2>1, SumMonotone
  <2>4. SumFunctionOnSet(f, U) \in Int
    BY <2>1, SumIsInt
  <2> QED
    BY <2>2, <2>3, <2>4
<1>2. ASSUME NEW x \in S
      PROVE  SumFunctionOnSet(f, S) = f[x] + SumFunctionOnSet(f, S \ {x})
  BY SumRemove
<1>3. ASSUME NEW x \in S, NEW y \in S, x # y
      PROVE  SumFunctionOnSet(f, S \ {x}) = f[y] + SumFunctionOnSet(f, (S \ {x}) \ {y})
  <2>1. IsFiniteSet(S \ {x}) /\ y \in S \ {x}
    BY <1>3, FS_RemoveElement
  <2> QED
    BY <2>1, SumRemove
<1>4. \A x \in S : SumFunctionOnSet(f, S \ {x}) \in Nat
  BY <1>1
<1>5. \A x, y \in S : SumFunctionOnSet(f, (S \ {x}) \ {y}) \in Nat
  BY <1>1
<1>6. SumFunctionOnSet(f, S) \in Nat
  BY <1>1
<1>7. ASSUME NEW x \in S
      PROVE  f[x] <= SumFunctionOnSet(f, S)
  <2>1. f[x] \in Nat /\ SumFunctionOnSet(f, S \ {x}) \in Nat
    BY <1>4
  <2>2. SumFunctionOnSet(f, S) = f[x] + SumFunctionOnSet(f, S \ {x})
    BY <1>2
  <2> QED
    BY <2>1, <2>2
<1>8. ASSUME NEW x \in S, NEW y \in S, x # y
      PROVE  f[x] + f[y] <= SumFunctionOnSet(f, S)
  <2>1. f[x] \in Nat /\ f[y] \in Nat /\ SumFunctionOnSet(f, (S \ {x}) \ {y}) \in Nat
    BY <1>5
  <2>2. SumFunctionOnSet(f, S) = f[x] + SumFunctionOnSet(f, S \ {x})
    BY <1>2
  <2>3. SumFunctionOnSet(f, S \ {x}) = f[y] + SumFunctionOnSet(f, (S \ {x}) \ {y})
    BY <1>3, <1>8
  <2> QED
    BY <2>1, <2>2, <2>3
<1> QED
  BY <1>6, <1>7, <1>8

\* The sum over two sets that have no element in common.
LEMMA SumUnion ==
    ASSUME NEW S, IsFiniteSet(S), NEW T, IsFiniteSet(T), S \cap T = {},
           NEW f, \A x \in S \cup T : f[x] \in Int
    PROVE  SumFunctionOnSet(f, S \cup T) = SumFunctionOnSet(f, S) + SumFunctionOnSet(f, T)
<1> DEFINE Bad == {U \in SUBSET T : SumFunctionOnSet(f, S \cup U) #
                                        SumFunctionOnSet(f, S) + SumFunctionOnSet(f, U)}
<1> SUFFICES ASSUME Bad # {}
             PROVE  FALSE
  OBVIOUS
<1>1. PICK V \in Bad : \A U \in SUBSET V : U # V => U \notin Bad
  <2>1. Bad \subseteq SUBSET T
    OBVIOUS
  <2> HIDE DEF Bad
  <2> QED
    BY <2>1, Smallest
<1>2. SumFunctionOnSet(f, S) \in Int
  BY SumIsInt
<1>3. V # {}
  <2>1. SumFunctionOnSet(f, S \cup {}) = SumFunctionOnSet(f, S) /\ SumFunctionOnSet(f, {}) = 0
    BY SumEmpty
  <2>2. {} \notin Bad
    BY <1>2, <2>1
  <2> QED
    BY <1>1, <2>2
<1>4. PICK a \in V : TRUE
  BY <1>3
<1> DEFINE R == V \ {a}
<1>5. IsFiniteSet(V) /\ IsFiniteSet(R) /\ R \in SUBSET V /\ R # V /\ R \in SUBSET T
  BY <1>4, FS_Subset
<1>6. SumFunctionOnSet(f, S \cup R) = SumFunctionOnSet(f, S) + SumFunctionOnSet(f, R)
  BY <1>1, <1>5
<1>7. /\ SumFunctionOnSet(f, V) = f[a] + SumFunctionOnSet(f, R)
      /\ SumFunctionOnSet(f, R) \in Int
  BY <1>4, <1>5, SumRemove
<1>8. SumFunctionOnSet(f, S \cup V) = f[a] + SumFunctionOnSet(f, S \cup R)
  <2>1. a \notin S \cup R /\ (S \cup R) \cup {a} = S \cup V
    BY <1>4
  <2>2. IsFiniteSet(S \cup R)
    BY <1>5, FS_Union
  <2>3. \A x \in (S \cup R) \cup {a} : f[x] \in Int
    BY <1>4, <1>5
  <2> HIDE DEF R
  <2> QED
    BY <2>1, <2>2, <2>3, SumAdd
<1>9. f[a] \in Int
  BY <1>4
<1>10. SumFunctionOnSet(f, S \cup V) = SumFunctionOnSet(f, S) + SumFunctionOnSet(f, V)
  <2> HIDE DEF R
  <2> QED
    BY <1>2, <1>6, <1>7, <1>8, <1>9
<1> QED
  BY <1>1, <1>10

\* What lies outside a part of S adds nothing if it is 0 there.
LEMMA SumSupport ==
    ASSUME NEW S, IsFiniteSet(S), NEW T \in SUBSET S, NEW f, \A x \in S : f[x] \in Int,
           \A x \in S \ T : f[x] = 0
    PROVE  SumFunctionOnSet(f, S) = SumFunctionOnSet(f, T)
<1>1. IsFiniteSet(T) /\ IsFiniteSet(S \ T) /\ T \cap (S \ T) = {} /\ T \cup (S \ T) = S
  BY FS_Subset
<1>2. SumFunctionOnSet(f, S) = SumFunctionOnSet(f, T) + SumFunctionOnSet(f, S \ T)
  BY <1>1, SumUnion
<1>3. SumFunctionOnSet(f, S \ T) = 0
  BY <1>1, SumZero
<1> QED
  BY <1>1, <1>2, <1>3, SumIsInt

\* f and g differ at a at most.
LEMMA SumChange ==
    ASSUME NEW S, IsFiniteSet(S), NEW f, NEW g, NEW a \in S,
           \A x \in S : f[x] \in Int /\ g[x] \in Int,
           \A x \in S \ {a} : g[x] = f[x]
    PROVE  SumFunctionOnSet(g, S) = SumFunctionOnSet(f, S) - f[a] + g[a]
<1>1. IsFiniteSet(S \ {a})
  BY FS_RemoveElement
<1>2. SumFunctionOnSet(g, S \ {a}) = SumFunctionOnSet(f, S \ {a})
  BY <1>1, SumEqual
<1>3. /\ SumFunctionOnSet(f, S) = f[a] + SumFunctionOnSet(f, S \ {a})
      /\ SumFunctionOnSet(g, S) = g[a] + SumFunctionOnSet(g, S \ {a})
      /\ SumFunctionOnSet(f, S \ {a}) \in Int
  BY <1>1, SumRemove, SumIsInt
<1> QED
  BY <1>2, <1>3

-----------------------------------------------------------------------------
(* The least and the greatest element.                                      *)

LEMMA FiniteHasBounds ==
    ASSUME NEW S, IsFiniteSet(S), S \subseteq Int, S # {}
    PROVE  /\ Min(S) \in S /\ \A x \in S : Min(S) <= x
           /\ Max(S) \in S /\ \A x \in S : x <= Max(S)
<1> DEFINE Bounded(U) == /\ \E x \in U : \A y \in U : x <= y
                         /\ \E x \in U : \A y \in U : y <= x
           Bad == {U \in SUBSET S : U # {} /\ ~Bounded(U)}
<1>1. Bad = {}
  <2> SUFFICES ASSUME Bad # {}
               PROVE  FALSE
    OBVIOUS
  <2>1. PICK T \in Bad : \A U \in SUBSET T : U # T => U \notin Bad
    <3>1. Bad \subseteq SUBSET S
      OBVIOUS
    <3> HIDE DEF Bad
    <3> QED
      BY <3>1, Smallest
  <2>2. PICK a \in T : TRUE
    BY <2>1
  <2>3. CASE T \ {a} = {}
    BY <2>1, <2>2, <2>3
  <2>4. CASE T \ {a} # {}
    <3>1. T \ {a} \in SUBSET T /\ T \ {a} # T
      BY <2>2
    <3>2. Bounded(T \ {a})
      BY <2>1, <2>4, <3>1
    <3>3. PICK x \in T \ {a}, y \in T \ {a} : \A z \in T \ {a} : x <= z /\ z <= y
      BY <3>2
    <3>4. a \in Int /\ x \in Int /\ y \in Int /\ \A z \in T : z \in Int
      BY <2>1
    <3>5. \E u \in T : \A z \in T : u <= z
      <4>1. CASE x <= a
        BY <3>3, <3>4, <4>1
      <4>2. CASE a <= x
        BY <3>3, <3>4, <4>2
      <4> QED
        BY <3>4, <4>1, <4>2
    <3>6. \E u \in T : \A z \in T : z <= u
      <4>1. CASE a <= y
        BY <3>3, <3>4, <4>1
      <4>2. CASE y <= a
        BY <3>3, <3>4, <4>2
      <4> QED
        BY <3>4, <4>1, <4>2
    <3> QED
      BY <2>1, <3>5, <3>6
  <2> QED
    BY <2>3, <2>4
<1>2. Bounded(S)
  BY <1>1
<1>3. Min(S) \in S /\ \A x \in S : Min(S) <= x
  BY <1>2 DEF Min
<1>4. Max(S) \in S /\ \A x \in S : Max(S) >= x
  <2>1. \E x \in S : \A y \in S : x >= y
    BY <1>2
  <2> QED
    BY <2>1 DEF Max
<1> QED
  BY <1>3, <1>4

\* Among some naturals there is a least one.
LEMMA LeastNatural ==
    ASSUME NEW S, S \subseteq Nat, S # {}
    PROVE  \E n \in S : \A k \in S : n <= k
<1>1. PICK b \in S : TRUE
  OBVIOUS
<1> DEFINE low == {k \in S : k <= b}
<1>2. low \subseteq 0 .. b /\ low \subseteq Int /\ b \in low
  <2>1. b \in Nat /\ \A k \in S : k \in Nat
    OBVIOUS
  <2>2. b <= b /\ \A k \in Nat : k <= b => k \in 0 .. b
    BY <2>1
  <2>3. b \in low /\ low \subseteq Int
    <3>1. b \in low
      BY <2>2, Zenon
    <3>2. \A k \in low : k \in Int
      BY <2>1
    <3> HIDE DEF low
    <3> QED
      BY <3>1, <3>2
  <2>4. low \subseteq 0 .. b
    BY <2>1, <2>2, Zenon
  <2> QED
    BY <2>3, <2>4
<1>3. IsFiniteSet(low)
  <2>1. IsFiniteSet(0 .. b)
    BY FS_Interval
  <2> QED
    BY <1>2, <2>1, FS_Subset
<1>4. Min(low) \in low /\ \A k \in low : Min(low) <= k
  <2> HIDE DEF low
  <2> QED
    BY <1>2, <1>3, FiniteHasBounds
<1>5. ASSUME NEW k \in S
      PROVE  Min(low) <= k
  <2>1. b \in Nat /\ k \in Nat /\ Min(low) \in Nat /\ Min(low) <= b
    BY <1>2, <1>4
  <2>2. CASE k \in low
    BY <1>4, <2>2
  <2>3. CASE k \notin low
    <3>1. ~(k <= b)
      BY <2>3
    <3> QED
      BY <2>1, <3>1
  <2> QED
    BY <2>2, <2>3
<1> QED
  BY <1>4, <1>5

-----------------------------------------------------------------------------
(* Sums over the indices of a sequence.                                     *)

LEMMA SumInterval ==
    ASSUME NEW f, NEW n \in Nat, \A k \in 1 .. n + 1 : f[k] \in Int
    PROVE  SumFunctionOnSet(f, 1 .. n + 1) = SumFunctionOnSet(f, 1 .. n) + f[n + 1]
<1>1. 1 .. n + 1 = (1 .. n) \cup {n + 1} /\ n + 1 \notin 1 .. n
  OBVIOUS
<1>2. IsFiniteSet(1 .. n)
  BY FS_Interval
<1>3. \A k \in (1 .. n) \cup {n + 1} : f[k] \in Int
  OBVIOUS
<1>4. SumFunctionOnSet(f, (1 .. n) \cup {n + 1}) = f[n + 1] + SumFunctionOnSet(f, 1 .. n)
  BY <1>1, <1>2, <1>3, SumAdd
<1>5. SumFunctionOnSet(f, 1 .. n) \in Int
  <2>1. \A k \in 1 .. n : f[k] \in Int
    BY <1>3
  <2> QED
    BY <1>2, <2>1, SumIsInt
<1>6. f[n + 1] \in Int
  BY <1>3
<1>7. SumFunctionOnSet(f, 1 .. n + 1) = SumFunctionOnSet(f, (1 .. n) \cup {n + 1})
  BY <1>1, Zenon
<1> QED
  BY <1>4, <1>5, <1>6, <1>7

\* h goes through the m values of f and then through the n of g.
Continues(h, f, m, g, n) ==
    /\ \A k \in 1 .. m : f[k] \in Int /\ h[k] = f[k]
    /\ \A k \in 1 .. n : g[k] \in Int /\ h[m + k] = g[k]

LEMMA SumConcatenation ==
    ASSUME NEW f, NEW g, NEW h, NEW m \in Nat, NEW n \in Nat, Continues(h, f, m, g, n)
    PROVE  SumFunctionOnSet(h, 1 .. m + n) =
               SumFunctionOnSet(f, 1 .. m) + SumFunctionOnSet(g, 1 .. n)
<1> USE DEF Continues
<1> DEFINE P(k) == SumFunctionOnSet(h, 1 .. m + k) =
                       SumFunctionOnSet(f, 1 .. m) + SumFunctionOnSet(g, 1 .. k)
           Bad == {k \in 0 .. n : ~P(k)}
<1> SUFFICES ASSUME Bad # {}
             PROVE  FALSE
  OBVIOUS
<1>1. PICK k \in Bad : \A l \in Bad : k <= l
  <2>1. Bad \subseteq Nat
    OBVIOUS
  <2> HIDE DEF Bad
  <2> QED
    BY <2>1, LeastNatural
<1>2. IsFiniteSet(1 .. m) /\ SumFunctionOnSet(f, 1 .. m) \in Int
  <2>1. IsFiniteSet(1 .. m) /\ \A i \in 1 .. m : f[i] \in Int
    BY FS_Interval
  <2> QED
    BY <2>1, SumIsInt
<1>3. P(0)
  <2>1. SumFunctionOnSet(h, 1 .. m) = SumFunctionOnSet(f, 1 .. m)
    BY <1>2, SumEqual
  <2>2. 1 .. 0 = {} /\ m + 0 = m
    OBVIOUS
  <2> QED
    BY <1>2, <2>1, <2>2, SumEmpty
<1>4. PICK j \in 0 .. n : k = j + 1 /\ P(j)
  <2>1. k # 0 /\ k \in 0 .. n
    BY <1>1, <1>3
  <2>2. k - 1 \in 0 .. n /\ k - 1 < k
    BY <2>1
  <2>3. P(k - 1)
    BY <1>1, <2>2
  <2> HIDE DEF P
  <2> QED
    BY <2>1, <2>2, <2>3
<1>5. j + 1 \in 1 .. n /\ m + j \in Nat
  BY <1>1, <1>4
<1>6. SumFunctionOnSet(g, 1 .. j + 1) = SumFunctionOnSet(g, 1 .. j) + g[j + 1]
  BY <1>5, SumInterval
<1>7. SumFunctionOnSet(h, 1 .. (m + j) + 1) = SumFunctionOnSet(h, 1 .. m + j) + h[(m + j) + 1]
  <2>1. ASSUME NEW i \in 1 .. (m + j) + 1
        PROVE  h[i] \in Int
    <3>1. CASE i \in 1 .. m
      BY <3>1
    <3>2. CASE i \notin 1 .. m
      <4>1. i - m \in 1 .. n /\ m + (i - m) = i
        BY <1>5, <3>2
      <4> QED
        BY <4>1
    <3> QED
      BY <3>1, <3>2
  <2> QED
    BY <1>5, <2>1, SumInterval
<1>8. (m + j) + 1 = m + (j + 1) /\ h[m + (j + 1)] = g[j + 1] /\ g[j + 1] \in Int
  BY <1>5
<1>9. SumFunctionOnSet(g, 1 .. j) \in Int
  <2>1. IsFiniteSet(1 .. j)
    BY FS_Interval
  <2>2. 1 .. j \subseteq 1 .. n
    BY <1>5
  <2>3. \A i \in 1 .. j : g[i] \in Int
    BY <2>2
  <2> QED
    BY <2>1, <2>3, SumIsInt
<1>10. P(k)
  BY <1>2, <1>4, <1>6, <1>7, <1>8, <1>9
<1> QED
  BY <1>1, <1>10

=============================================================================
