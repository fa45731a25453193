----------------------------- MODULE FiniteSums -----------------------------
(***************************************************************************)
(* What the sum of a function over a finite set does when one value or one *)
(* element changes.  The specifications say with SumFunctionOnSet that     *)
(* money and units are conserved; the library states no fact about it that *)
(* the provers can instantiate, so the facts are proved here, each from a  *)
(* smallest set on which it would fail.                                    *)
(***************************************************************************)
EXTENDS FiniteSetTheorems, TLAPS

Chosen(T) == CHOOSE x \in T : TRUE
Rest(T)   == T \ {Chosen(T)}

\* g maps every subset of S to the sum of f over it.
Sums(g, f, S) ==
  g = [T \in SUBSET S |-> IF T = {} THEN 0 ELSE f[Chosen(T)] + g[Rest(T)]]

\* One such function, and the one the library's fold chooses.
SumsOf(f, S) == CHOOSE g : Sums(g, f, S)

LEMMA RestIsSmaller ==
  ASSUME NEW T, T # {}
  PROVE  /\ Chosen(T) \in T /\ Chosen(T) \notin Rest(T)
         /\ Rest(T) \subseteq T /\ Rest(T) # T
BY DEF Chosen, Rest

(* A set of subsets of a finite set has a member that includes no other.   *)
LEMMA SmallestSubset ==
  ASSUME NEW S, IsFiniteSet(S), NEW B, B \subseteq SUBSET S, B # {}
  PROVE  \E T \in B : \A U \in B : U \subseteq T => U = T
<1>1. IsWellFoundedOn(StrictSubsetOrdering(S), SUBSET S)
  BY FS_StrictSubsetOrderingWellFounded, FS_FiniteSubsetsOfFinite
<1>2. PICK T \in B : \A U \in B : ~ (<<U, T>> \in StrictSubsetOrdering(S))
  BY <1>1, WFMin
<1>3. ASSUME NEW U \in B, U \subseteq T, U # T
      PROVE  <<U, T>> \in StrictSubsetOrdering(S)
  BY <1>3 DEF StrictSubsetOrdering
<1>4. \A U \in B : U \subseteq T => U = T
  BY <1>2, <1>3
<1> QED BY <1>4

-----------------------------------------------------------------------------
(* The sum exists and is unique.                                           *)

LEMMA SumsAgree ==
  ASSUME NEW f, NEW S, IsFiniteSet(S), NEW S2, NEW g, NEW h,
         Sums(g, f, S), Sums(h, f, S2), NEW T \in SUBSET S, T \subseteq S2
  PROVE  g[T] = h[T]
<1> DEFINE Bad == {U \in SUBSET S : U \subseteq S2 /\ g[U] # h[U]}
<1> SUFFICES ASSUME Bad # {} PROVE FALSE
  OBVIOUS
<1>1. PICK U \in Bad : \A V \in Bad : V \subseteq U => V = U
  <2>1. Bad \subseteq SUBSET S
    OBVIOUS
  <2> HIDE DEF Bad
  <2> QED BY <2>1, SmallestSubset
<1>2. g[U] = (IF U = {} THEN 0 ELSE f[Chosen(U)] + g[Rest(U)])
  BY DEF Sums
<1>3. h[U] = (IF U = {} THEN 0 ELSE f[Chosen(U)] + h[Rest(U)])
  BY DEF Sums
<1>4. U # {}
  BY <1>2, <1>3
<1>5. Rest(U) \subseteq U /\ Rest(U) # U
  BY <1>4, RestIsSmaller
<1>6. g[Rest(U)] = h[Rest(U)]
  BY <1>1, <1>5
<1> QED BY <1>2, <1>3, <1>4, <1>6

LEMMA SumsExist ==
  ASSUME NEW f, NEW S, IsFiniteSet(S)
  PROVE  Sums(SumsOf(f, S), f, S)
<1> DEFINE Bad == {U \in SUBSET S : ~ \E g : Sums(g, f, U)}
<1>1. CASE Bad = {}
  <2>1. \E g : Sums(g, f, S)
    BY <1>1
  <2> QED BY <2>1 DEF SumsOf
<1>2. CASE Bad # {}
  <2>1. PICK U \in Bad : \A V \in Bad : V \subseteq U => V = U
    <3>1. Bad \subseteq SUBSET S
      OBVIOUS
    <3> HIDE DEF Bad
    <3> QED BY <1>2, <3>1, SmallestSubset
  <2> DEFINE G(V) == SumsOf(f, V)[V]
             g    == [T \in SUBSET U |-> IF T = {} THEN 0 ELSE f[Chosen(T)] + G(Rest(T))]
  <2>2. ASSUME NEW V, V \subseteq U, V # U
        PROVE  Sums(SumsOf(f, V), f, V) /\ IsFiniteSet(V)
    <3>1. \E x : Sums(x, f, V)
      BY <2>1, <2>2
    <3>2. IsFiniteSet(V)
      BY <2>2, FS_Subset
    <3> QED BY <3>1, <3>2 DEF SumsOf
  <2>3. ASSUME NEW V, V \subseteq U, V # U, V # {}
        PROVE  G(V) = f[Chosen(V)] + G(Rest(V))
    <3>1. Rest(V) \subseteq V /\ Rest(V) # V
      BY <2>3, RestIsSmaller
    <3>2. Sums(SumsOf(f, V), f, V) /\ Sums(SumsOf(f, Rest(V)), f, Rest(V)) /\ IsFiniteSet(V)
      BY <2>2, <2>3, <3>1
    <3>3. SumsOf(f, V)[V] = f[Chosen(V)] + SumsOf(f, V)[Rest(V)]
      BY <2>3, <3>2 DEF Sums
    <3>4. SumsOf(f, V)[Rest(V)] = SumsOf(f, Rest(V))[Rest(V)]
      BY <3>1, <3>2, SumsAgree
    <3> QED BY <3>3, <3>4
  <2>4. ASSUME {} # U PROVE G({}) = 0
    <3>1. Sums(SumsOf(f, {}), f, {})
      BY <2>2, <2>4
    <3> QED BY <3>1 DEF Sums
  <2>5. ASSUME NEW T \in SUBSET U, T # {}
        PROVE  g[Rest(T)] = G(Rest(T))
    <3>1. Rest(T) \subseteq U /\ Rest(T) # U
      BY <2>5, RestIsSmaller
    <3> HIDE DEF G
    <3>2. g[Rest(T)] = IF Rest(T) = {} THEN 0 ELSE f[Chosen(Rest(T))] + G(Rest(Rest(T)))
      BY <3>1
    <3> QED BY <2>3, <2>4, <3>1, <3>2
  <2>6. Sums(g, f, U)
    <3> HIDE DEF G
    <3>1. ASSUME NEW T \in SUBSET U
          PROVE  (IF T = {} THEN 0 ELSE f[Chosen(T)] + G(Rest(T)))
                   = (IF T = {} THEN 0 ELSE f[Chosen(T)] + g[Rest(T)])
      BY <2>5, <3>1
    <3>2. g = [T \in SUBSET U |-> IF T = {} THEN 0 ELSE f[Chosen(T)] + g[Rest(T)]]
      BY <3>1
    <3> HIDE DEF g
    <3> QED BY <3>2 DEF Sums
  <2> QED BY <2>1, <2>6
<1> QED BY <1>1, <1>2

LEMMA SumIsChosen ==
  ASSUME NEW f, NEW S
  PROVE  SumFunctionOnSet(f, S) = SumsOf(f, S)[S]
BY DEF SumFunctionOnSet, FoldFunctionOnSet, MapThenFoldSet, SumsOf, Sums, Chosen, Rest
-----------------------------------------------------------------------------
(* The facts a specification needs.                                        *)

LEMMA SumUnfolds ==
  ASSUME NEW f, NEW S, IsFiniteSet(S), S # {}
  PROVE  SumFunctionOnSet(f, S) = f[Chosen(S)] + SumFunctionOnSet(f, Rest(S))
<1>1. Rest(S) \subseteq S /\ IsFiniteSet(Rest(S))
  BY RestIsSmaller, FS_Subset
<1>2. Sums(SumsOf(f, S), f, S) /\ Sums(SumsOf(f, Rest(S)), f, Rest(S))
  BY <1>1, SumsExist
<1>3. SumsOf(f, S)[S] = f[Chosen(S)] + SumsOf(f, S)[Rest(S)]
  BY <1>2 DEF Sums
<1>4. SumsOf(f, S)[Rest(S)] = SumsOf(f, Rest(S))[Rest(S)]
  BY <1>1, <1>2, SumsAgree
<1> QED BY <1>3, <1>4, SumIsChosen

(* The sum over no element is zero.                                        *)
LEMMA SumEmpty ==
  ASSUME NEW f
  PROVE  SumFunctionOnSet(f, {}) = 0
<1>1. Sums(SumsOf(f, {}), f, {})
  BY SumsExist, FS_EmptySet
<1> QED BY <1>1, SumIsChosen DEF Sums

(* A sum of integers is an integer.                                        *)
LEMMA SumInt ==
  ASSUME NEW f, NEW S, IsFiniteSet(S), \A x \in S : f[x] \in Int
  PROVE  SumFunctionOnSet(f, S) \in Int
<1> DEFINE Bad == {U \in SUBSET S : SumFunctionOnSet(f, U) \notin Int}
<1> SUFFICES ASSUME Bad # {} PROVE FALSE
  OBVIOUS
<1>1. PICK U \in Bad : \A V \in Bad : V \subseteq U => V = U
  <2>1. Bad \subseteq SUBSET S
    OBVIOUS
  <2> HIDE DEF Bad
  <2> QED BY <2>1, SmallestSubset
<1>2. U # {}
  <2>1. SumFunctionOnSet(f, U) \notin Int
    OBVIOUS
  <2>2. SumFunctionOnSet(f, {}) = 0
    BY SumEmpty
  <2> HIDE DEF Bad
  <2> QED BY <2>1, <2>2
<1>3. IsFiniteSet(U)
  BY <1>1, FS_Subset
<1>4. Chosen(U) \in U /\ Rest(U) \subseteq U /\ Rest(U) # U
  BY <1>2, RestIsSmaller
<1>5. SumFunctionOnSet(f, Rest(U)) \in Int /\ f[Chosen(U)] \in Int
  BY <1>1, <1>4
<1>6. SumFunctionOnSet(f, U) = f[Chosen(U)] + SumFunctionOnSet(f, Rest(U))
  BY <1>2, <1>3, SumUnfolds
<1>7. SumFunctionOnSet(f, U) \notin Int
  OBVIOUS
<1> QED BY <1>5, <1>6, <1>7

(* Any element can be taken out of the sum.                                *)
LEMMA SumWithout ==
  ASSUME NEW f, NEW S, IsFiniteSet(S), \A x \in S : f[x] \in Int, NEW e \in S
  PROVE  SumFunctionOnSet(f, S) = f[e] + SumFunctionOnSet(f, S \ {e})
<1> DEFINE Wrong(U, z) ==
             SumFunctionOnSet(f, U) # f[z] + SumFunctionOnSet(f, U \ {z})
           Bad == {U \in SUBSET S : \E z \in U : Wrong(U, z)}
<1> SUFFICES ASSUME Bad # {} PROVE FALSE
  OBVIOUS
<1>1. PICK U \in Bad : \A V \in Bad : V \subseteq U => V = U
  <2>1. Bad \subseteq SUBSET S
    OBVIOUS
  <2> HIDE DEF Bad
  <2> QED BY <2>1, SmallestSubset
<1>2. PICK z \in U : Wrong(U, z)
  OBVIOUS
<1> DEFINE y == Chosen(U)
           W == (U \ {y}) \ {z}
<1>3. U \subseteq S /\ IsFiniteSet(U)
  BY FS_Subset
<1>4. y \in U /\ SumFunctionOnSet(f, U) = f[y] + SumFunctionOnSet(f, U \ {y})
  BY <1>3, RestIsSmaller, SumUnfolds DEF Rest
<1>5. y # z
  BY <1>2, <1>4
<1>6. SumFunctionOnSet(f, U \ {y}) = f[z] + SumFunctionOnSet(f, W)
  <2>1. U \ {y} \in SUBSET S /\ U \ {y} \notin Bad /\ z \in U \ {y}
    BY <1>1, <1>3, <1>4, <1>5
  <2> QED BY <2>1
<1>7. SumFunctionOnSet(f, U \ {z}) = f[y] + SumFunctionOnSet(f, W)
  <2>1. U \ {z} \in SUBSET S /\ U \ {z} \notin Bad /\ y \in U \ {z}
    BY <1>1, <1>2, <1>3, <1>4, <1>5
  <2>2. (U \ {z}) \ {y} = W
    OBVIOUS
  <2> QED BY <2>1, <2>2
<1>8. f[y] \in Int /\ f[z] \in Int /\ SumFunctionOnSet(f, W) \in Int
  <2>1. W \subseteq S
    BY <1>3
  <2>2. IsFiniteSet(W)
    BY <2>1, FS_Subset
  <2> HIDE DEF W
  <2> QED BY <1>2, <1>3, <1>4, <2>1, <2>2, SumInt
<1> QED BY <1>2, <1>4, <1>6, <1>7, <1>8

(* The sum is that of the values on the set, and of nothing else.          *)
LEMMA SumSame ==
  ASSUME NEW f, NEW g, NEW S, IsFiniteSet(S), \A x \in S : f[x] = g[x]
  PROVE  SumFunctionOnSet(f, S) = SumFunctionOnSet(g, S)
<1> DEFINE Bad == {U \in SUBSET S : SumFunctionOnSet(f, U) # SumFunctionOnSet(g, U)}
<1> SUFFICES ASSUME Bad # {} PROVE FALSE
  OBVIOUS
<1>1. PICK U \in Bad : \A V \in Bad : V \subseteq U => V = U
  <2>1. Bad \subseteq SUBSET S
    OBVIOUS
  <2> HIDE DEF Bad
  <2> QED BY <2>1, SmallestSubset
<1>2. U # {}
  BY <1>1, SumEmpty
<1>3. IsFiniteSet(U)
  BY <1>1, FS_Subset
<1>4. Chosen(U) \in U /\ Rest(U) \subseteq U /\ Rest(U) # U
  BY <1>2, RestIsSmaller
<1>5. SumFunctionOnSet(f, Rest(U)) = SumFunctionOnSet(g, Rest(U))
      /\ f[Chosen(U)] = g[Chosen(U)]
  BY <1>1, <1>4
<1> QED BY <1>1, <1>2, <1>3, <1>5, SumUnfolds

(* One value changes.                                                      *)
LEMMA SumChanges ==
  ASSUME NEW f, NEW g, NEW S, IsFiniteSet(S), NEW e \in S,
         \A x \in S : f[x] \in Int, g[e] \in Int,
         \A x \in S \ {e} : g[x] = f[x]
  PROVE  SumFunctionOnSet(g, S) = SumFunctionOnSet(f, S) + (g[e] - f[e])
<1>1. IsFiniteSet(S \ {e})
  BY FS_Subset
<1>2. \A x \in S : g[x] \in Int
  OBVIOUS
<1>3. SumFunctionOnSet(g, S \ {e}) = SumFunctionOnSet(f, S \ {e})
  BY <1>1, SumSame
<1>4. SumFunctionOnSet(f, S \ {e}) \in Int
  BY <1>1, SumInt
<1>5. SumFunctionOnSet(f, S) = f[e] + SumFunctionOnSet(f, S \ {e})
  BY SumWithout
<1>6. SumFunctionOnSet(g, S) = g[e] + SumFunctionOnSet(g, S \ {e})
  BY <1>2, SumWithout
<1>7. f[e] \in Int /\ g[e] \in Int
  OBVIOUS
<1> QED BY <1>3, <1>4, <1>5, <1>6, <1>7
-----------------------------------------------------------------------------
(* The same of a function summed over its whole domain.                    *)

LEMMA TotalChanges ==
  ASSUME NEW S, IsFiniteSet(S), NEW f \in [S -> Int], NEW g \in [S -> Int], NEW e \in S,
         \A x \in S \ {e} : g[x] = f[x]
  PROVE  /\ SumFunction(f) \in Int
         /\ SumFunction(g) = SumFunction(f) + (g[e] - f[e])
<1>1. SumFunction(f) = SumFunctionOnSet(f, S) /\ SumFunction(g) = SumFunctionOnSet(g, S)
  BY DEF SumFunction
<1>2. SumFunctionOnSet(f, S) \in Int
  BY SumInt
<1>3. SumFunctionOnSet(g, S) = SumFunctionOnSet(f, S) + (g[e] - f[e])
  BY SumChanges
<1> QED BY <1>1, <1>2, <1>3

LEMMA TotalOfZeros ==
  ASSUME NEW S, IsFiniteSet(S), NEW f \in [S -> {0}]
  PROVE  SumFunction(f) = 0
<1> DEFINE Bad == {U \in SUBSET S : SumFunctionOnSet(f, U) # 0}
<1>1. SumFunction(f) = SumFunctionOnSet(f, S)
  BY DEF SumFunction
<1> SUFFICES ASSUME Bad # {} PROVE FALSE
  BY <1>1
<1>2. PICK U \in Bad : \A V \in Bad : V \subseteq U => V = U
  <2>1. Bad \subseteq SUBSET S
    OBVIOUS
  <2> HIDE DEF Bad
  <2> QED BY <2>1, SmallestSubset
<1>3. U \subseteq S /\ SumFunctionOnSet(f, U) # 0
  OBVIOUS
<1>4. U # {}
  <2>1. SumFunctionOnSet(f, {}) = 0
    BY SumEmpty
  <2> HIDE DEF Bad
  <2> QED BY <1>3, <2>1
<1>5. IsFiniteSet(U)
  BY <1>3, FS_Subset
<1>6. Chosen(U) \in U /\ Rest(U) \subseteq U /\ Rest(U) # U
  BY <1>4, RestIsSmaller
<1>7. SumFunctionOnSet(f, Rest(U)) = 0
  BY <1>2, <1>6
<1>8. f[Chosen(U)] = 0
  BY <1>3, <1>6
<1>9. SumFunctionOnSet(f, U) = f[Chosen(U)] + SumFunctionOnSet(f, Rest(U))
  BY <1>4, <1>5, SumUnfolds
<1> QED BY <1>3, <1>7, <1>8, <1>9
=============================================================================
