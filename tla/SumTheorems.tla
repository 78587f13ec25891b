---------------------------- MODULE SumTheorems ----------------------------
(***************************************************************************)
(* Sums over finite sets, as Functions defines them: SumFunctionOnSet folds*)
(* a recursive function over the subsets of a set and picks the elements   *)
(* in an order of its own.  The theorems say that the order does not       *)
(* matter.  Induction is by minimal counterexamples: strict inclusion is   *)
(* well-founded on the subsets of a finite set.                            *)
(***************************************************************************)
EXTENDS Functions, FiniteSetTheorems, TLAPS

Pick(s) == CHOOSE x \in s : TRUE

(* g is the recursive function behind the sum of f over the subsets of S.  *)
Summing(g, f, S) ==
    g = [s \in SUBSET S |-> IF s = {} THEN 0 ELSE f[Pick(s)] + g[s \ {Pick(s)}]]

LEMMA SumUnfolded ==
  ASSUME NEW f, NEW S
  PROVE  SumFunctionOnSet(f, S) = (CHOOSE g : Summing(g, f, S))[S]
  BY DEF SumFunctionOnSet, FoldFunctionOnSet, MapThenFoldSet, Summing, Pick

(* A nonempty set of subsets of a finite set has a minimal one.            *)
LEMMA Minimal ==
  ASSUME NEW S, IsFiniteSet(S), NEW T, T \subseteq SUBSET S, T # {}
  PROVE  \E x \in T : \A y \in SUBSET x : y # x => y \notin T
<1>1. IsWellFoundedOn(StrictSubsetOrdering(S), SUBSET S)
  BY FS_StrictSubsetOrderingWellFounded, FS_FiniteSubsetsOfFinite
<1>2. PICK x \in T : \A y \in T : ~ (<<y, x>> \in StrictSubsetOrdering(S))
  BY <1>1, WFMin
<1>3. ASSUME NEW y \in SUBSET x, y # x PROVE y \notin T
  BY <1>2, <1>3 DEF StrictSubsetOrdering
<1> QED BY <1>3

(* A nonempty set of naturals has a least element.                        *)
LEMMA LeastNatural ==
  ASSUME NEW T, T \subseteq Nat, T # {}
  PROVE  \E m \in T : \A n \in T : m <= n
<1>1. PICK n \in T : TRUE
  OBVIOUS
<1> DEFINE Downs == {0..k : k \in {j \in T : j <= n}}
<1>2. IsFiniteSet(0..n) /\ Downs \subseteq SUBSET (0..n) /\ Downs # {}
  <2>1. \A k \in Nat : k <= n => 0..k \in SUBSET (0..n)
    OBVIOUS
  <2>2. 0..n \in Downs
    BY <1>1
  <2>3. Downs \subseteq SUBSET (0..n)
    BY <2>1
  <2>4. IsFiniteSet(0..n)
    BY <1>1, FS_Interval
  <2> HIDE DEF Downs
  <2> QED BY <2>2, <2>3, <2>4
<1>3. PICK d \in Downs : \A y \in SUBSET d : y # d => y \notin Downs
  <2> HIDE DEF Downs
  <2> QED BY <1>2, Minimal
<1>4. PICK m \in T : m <= n /\ d = 0..m
  OBVIOUS
<1>5. ASSUME NEW k \in T, k < m PROVE FALSE
  <2>1. 0..k \in SUBSET d /\ 0..k # d
    BY <1>4, <1>5
  <2>2. 0..k \in Downs
    BY <1>4, <1>5
  <2> QED BY <1>3, <2>1, <2>2
<1>6. m \in T /\ \A k \in T : m <= k
  BY <1>5
<1> QED BY <1>6, Zenon

LEMMA PickIn == ASSUME NEW s, s # {} PROVE Pick(s) \in s
  BY DEF Pick

(* Two such functions agree.                                               *)
LEMMA SummingUnique ==
  ASSUME NEW f, NEW S, NEW R, IsFiniteSet(S), R \subseteq S, NEW g, NEW h,
         Summing(g, f, S), Summing(h, f, R)
  PROVE  \A s \in SUBSET R : g[s] = h[s]
<1> DEFINE T == {s \in SUBSET R : g[s] # h[s]}
<1> SUFFICES ASSUME T # {} PROVE FALSE
  OBVIOUS
<1>0. IsFiniteSet(R)
  BY FS_Subset
<1>1. PICK s \in T : \A y \in SUBSET s : y # s => y \notin T
  <2>1. T \subseteq SUBSET R
    OBVIOUS
  <2> HIDE DEF T
  <2> QED BY <1>0, <2>1, Minimal
<1>2. s \in SUBSET R /\ s \in SUBSET S
  OBVIOUS
<1>3. CASE s = {}
  <2>1. g[s] = 0
    BY <1>2, <1>3 DEF Summing
  <2>2. h[s] = 0
    BY <1>2, <1>3 DEF Summing
  <2> QED BY <2>1, <2>2
<1>4. CASE s # {}
  <2> DEFINE r == s \ {Pick(s)}
  <2>1. r \in SUBSET s /\ r # s
    BY <1>4, PickIn
  <2>2. g[r] = h[r]
    BY <1>1, <1>2, <2>1
  <2>3. g[s] = f[Pick(s)] + g[r]
    BY <1>2, <1>4 DEF Summing
  <2>4. h[s] = f[Pick(s)] + h[r]
    BY <1>2, <1>4 DEF Summing
  <2> QED BY <2>2, <2>3, <2>4
<1> QED BY <1>3, <1>4

LEMMA SummingExists ==
  ASSUME NEW f, NEW S, IsFiniteSet(S)
  PROVE  \E g : Summing(g, f, S)
<1> DEFINE T == {s \in SUBSET S : ~ \E g : Summing(g, f, s)}
<1> SUFFICES ASSUME T # {} PROVE FALSE
  OBVIOUS
<1>1. PICK s \in T : \A y \in SUBSET s : y # s => y \notin T
  <2>1. T \subseteq SUBSET S
    OBVIOUS
  <2> HIDE DEF T
  <2> QED BY <2>1, Minimal
<1>2. \A y \in SUBSET s : y # s => \E g : Summing(g, f, y)
  BY <1>1
<1> DEFINE G(y) == CHOOSE g : Summing(g, f, y)
           V(y) == IF y = {} THEN 0 ELSE f[Pick(y)] + G(y \ {Pick(y)})[y \ {Pick(y)}]
           h == [y \in SUBSET s |-> V(y)]
<1>3. \A y \in SUBSET s : y # s => Summing(G(y), f, y)
  BY <1>2
<1>4. ASSUME NEW y \in SUBSET s, y # {}
      PROVE  G(y \ {Pick(y)})[y \ {Pick(y)}] = h[y \ {Pick(y)}]
  <2> DEFINE r == y \ {Pick(y)}
  <2>1. r \in SUBSET s /\ r # s
    BY <1>4, PickIn
  <2>2. Summing(G(r), f, r)
    BY <1>3, <2>1
  <2>3. h[r] = V(r)
    BY <2>1
  <2>4. CASE r = {}
    <3>1. G(r)[r] = 0
      BY <2>2, <2>4 DEF Summing
    <3> QED BY <2>3, <2>4, <3>1
  <2>5. CASE r # {}
    <3> DEFINE q == r \ {Pick(r)}
    <3>1. q \in SUBSET s /\ q # s /\ q \subseteq r
      BY <2>1, <2>5, PickIn
    <3>2. Summing(G(q), f, q)
      BY <1>3, <3>1
    <3>3. G(r)[r] = f[Pick(r)] + G(r)[q]
      BY <2>2, <2>5 DEF Summing
    <3>4. IsFiniteSet(r)
      BY <2>1, FS_Subset
    <3>5. G(r)[q] = G(q)[q]
      <4> HIDE DEF G
      <4> QED BY <2>2, <3>1, <3>2, <3>4, SummingUnique
    <3> QED BY <2>3, <2>5, <3>3, <3>5
  <2> QED BY <2>4, <2>5
<1>5. \A y \in SUBSET s :
         V(y) = IF y = {} THEN 0 ELSE f[Pick(y)] + h[y \ {Pick(y)}]
  <2> SUFFICES ASSUME NEW y \in SUBSET s
               PROVE  V(y) = IF y = {} THEN 0 ELSE f[Pick(y)] + h[y \ {Pick(y)}]
    OBVIOUS
  <2>1. y # {} => G(y \ {Pick(y)})[y \ {Pick(y)}] = h[y \ {Pick(y)}]
    BY <1>4
  <2> HIDE DEF h, G
  <2> QED BY <2>1
<1>6. Summing(h, f, s)
  <2>1. h = [y \in SUBSET s |-> IF y = {} THEN 0 ELSE f[Pick(y)] + h[y \ {Pick(y)}]]
    <3>1. h = [y \in SUBSET s |-> V(y)]
      OBVIOUS
    <3> HIDE DEF V, h
    <3> QED BY <1>5, <3>1
  <2> HIDE DEF h
  <2> QED BY <2>1 DEF Summing
<1> QED BY <1>6

-----------------------------------------------------------------------------
(* The recursion of the sum.                                               *)
LEMMA SumRecursion ==
  ASSUME NEW f, NEW S, IsFiniteSet(S)
  PROVE  /\ SumFunctionOnSet(f, {}) = 0
         /\ S # {} => SumFunctionOnSet(f, S)
                        = f[Pick(S)] + SumFunctionOnSet(f, S \ {Pick(S)})
<1> DEFINE G(y) == CHOOSE g : Summing(g, f, y)
<1>1. ASSUME NEW y, IsFiniteSet(y)
      PROVE  Summing(G(y), f, y) /\ SumFunctionOnSet(f, y) = G(y)[y]
  BY <1>1, SumUnfolded, SummingExists
<1> HIDE DEF G
<1>2. SumFunctionOnSet(f, {}) = 0
  <2>1. IsFiniteSet({})
    BY FS_EmptySet
  <2>2. Summing(G({}), f, {}) /\ SumFunctionOnSet(f, {}) = G({})[{}]
    BY <1>1, <2>1
  <2> QED BY <2>2 DEF Summing
<1>3. ASSUME S # {}
      PROVE  SumFunctionOnSet(f, S) = f[Pick(S)] + SumFunctionOnSet(f, S \ {Pick(S)})
  <2> DEFINE r == S \ {Pick(S)}
  <2>1. r \in SUBSET S /\ IsFiniteSet(r)
    BY FS_Subset
  <2>2. Summing(G(S), f, S) /\ SumFunctionOnSet(f, S) = G(S)[S]
    BY <1>1
  <2>3. Summing(G(r), f, r) /\ SumFunctionOnSet(f, r) = G(r)[r]
    BY <1>1, <2>1
  <2>4. G(S)[S] = f[Pick(S)] + G(S)[r]
    BY <1>3, <2>2 DEF Summing
  <2>5. G(S)[r] = G(r)[r]
    BY <2>1, <2>2, <2>3, SummingUnique
  <2> QED BY <2>2, <2>3, <2>4, <2>5
<1> QED BY <1>2, <1>3

(* The sum of integers is one, the sum of naturals is one.                 *)
LEMMA SumType ==
  ASSUME NEW f, NEW S, IsFiniteSet(S), NEW N, N \in {Int, Nat}, \A x \in S : f[x] \in N
  PROVE  SumFunctionOnSet(f, S) \in N
<1> DEFINE T == {s \in SUBSET S : SumFunctionOnSet(f, s) \notin N}
<1> SUFFICES ASSUME T # {} PROVE FALSE
  OBVIOUS
<1>1. PICK s \in T : \A y \in SUBSET s : y # s => y \notin T
  <2>1. T \subseteq SUBSET S
    OBVIOUS
  <2> HIDE DEF T
  <2> QED BY <2>1, Minimal
<1>2. IsFiniteSet(s)
  BY FS_Subset
<1>3. CASE s = {}
  BY <1>2, <1>3, SumRecursion
<1>4. CASE s # {}
  <2> DEFINE r == s \ {Pick(s)}
  <2>1. Pick(s) \in s /\ r \in SUBSET s /\ r # s
    BY <1>4, PickIn
  <2>2. SumFunctionOnSet(f, r) \in N /\ f[Pick(s)] \in N
    BY <1>1, <2>1
  <2>3. SumFunctionOnSet(f, s) = f[Pick(s)] + SumFunctionOnSet(f, r)
    BY <1>2, <1>4, SumRecursion
  <2>4. SumFunctionOnSet(f, s) \in N
    BY <2>2, <2>3
  <2> QED BY <2>4
<1> QED BY <1>3, <1>4

(* Any element may be taken out of a sum.                                  *)
LEMMA SumTakeOut ==
  ASSUME NEW f, NEW S, IsFiniteSet(S), \A x \in S : f[x] \in Int, NEW e \in S
  PROVE  SumFunctionOnSet(f, S) = f[e] + SumFunctionOnSet(f, S \ {e})
<1> DEFINE Wrong(s) == \E x \in s :
               SumFunctionOnSet(f, s) # f[x] + SumFunctionOnSet(f, s \ {x})
           T == {s \in SUBSET S : Wrong(s)}
<1> SUFFICES ASSUME T # {} PROVE FALSE
  OBVIOUS
<1>1. PICK s \in T : \A y \in SUBSET s : y # s => y \notin T
  <2>1. T \subseteq SUBSET S
    OBVIOUS
  <2> HIDE DEF T
  <2> QED BY <2>1, Minimal
<1>2. PICK x \in s : SumFunctionOnSet(f, s) # f[x] + SumFunctionOnSet(f, s \ {x})
  BY <1>1
<1>3. \A y \in SUBSET s : IsFiniteSet(y) /\ SumFunctionOnSet(f, y) \in Int
  <2> SUFFICES ASSUME NEW y \in SUBSET s
               PROVE  IsFiniteSet(y) /\ SumFunctionOnSet(f, y) \in Int
    OBVIOUS
  <2>1. y \in SUBSET S
    OBVIOUS
  <2>2. IsFiniteSet(y)
    BY <2>1, FS_Subset
  <2>3. \A z \in y : f[z] \in Int
    BY <2>1
  <2> QED BY <2>2, <2>3, SumType
<1>4. \A y \in SUBSET s : y # s =>
         \A z \in y : SumFunctionOnSet(f, y) = f[z] + SumFunctionOnSet(f, y \ {z})
  BY <1>1
<1> DEFINE p == Pick(s)
<1>5. p \in s /\ f[p] \in Int /\ f[x] \in Int
  BY <1>2, PickIn
<1>6. SumFunctionOnSet(f, s) = f[p] + SumFunctionOnSet(f, s \ {p})
  BY <1>2, <1>3, SumRecursion
<1> HIDE DEF p, T
<1>7. CASE p = x
  BY <1>2, <1>6, <1>7
<1>8. CASE p # x
  <2>1. SumFunctionOnSet(f, s \ {p}) = f[x] + SumFunctionOnSet(f, (s \ {p}) \ {x})
    <3>1. s \ {p} \in SUBSET s /\ s \ {p} # s /\ x \in s \ {p}
      BY <1>2, <1>5, <1>8
    <3> QED BY <1>4, <3>1
  <2>2. SumFunctionOnSet(f, s \ {x}) = f[p] + SumFunctionOnSet(f, (s \ {x}) \ {p})
    <3>1. s \ {x} \in SUBSET s /\ s \ {x} # s /\ p \in s \ {x}
      BY <1>2, <1>5, <1>8
    <3> QED BY <1>4, <3>1
  <2>3. (s \ {x}) \ {p} = (s \ {p}) \ {x}
    OBVIOUS
  <2> DEFINE rest == SumFunctionOnSet(f, (s \ {p}) \ {x})
  <2>4. rest \in Int
    BY <1>3
  <2>5. SumFunctionOnSet(f, s \ {x}) = f[p] + rest
    BY <2>2, <2>3, Zenon
  <2>6. SumFunctionOnSet(f, s) = f[p] + (f[x] + rest)
    BY <1>6, <2>1, Zenon
  <2>7. f[p] + (f[x] + rest) = f[x] + (f[p] + rest)
    <3> HIDE DEF rest
    <3> QED BY <1>5, <2>4
  <2> QED BY <1>2, <2>5, <2>6, <2>7, Zenon
<1> QED BY <1>7, <1>8

(* A sum is of the values on the set only.                                 *)
LEMMA SumSame ==
  ASSUME NEW f, NEW g, NEW S, IsFiniteSet(S), \A x \in S : f[x] = g[x]
  PROVE  SumFunctionOnSet(f, S) = SumFunctionOnSet(g, S)
<1> DEFINE T == {s \in SUBSET S : SumFunctionOnSet(f, s) # SumFunctionOnSet(g, s)}
<1> SUFFICES ASSUME T # {} PROVE FALSE
  OBVIOUS
<1>1. PICK s \in T : \A y \in SUBSET s : y # s => y \notin T
  <2>1. T \subseteq SUBSET S
    OBVIOUS
  <2> HIDE DEF T
  <2> QED BY <2>1, Minimal
<1>2. IsFiniteSet(s)
  BY FS_Subset
<1>3. CASE s = {}
  <2>1. SumFunctionOnSet(f, s) = 0
    BY <1>2, <1>3, SumRecursion
  <2>2. SumFunctionOnSet(g, s) = 0
    BY <1>2, <1>3, SumRecursion
  <2> QED BY <2>1, <2>2
<1>4. CASE s # {}
  <2> DEFINE r == s \ {Pick(s)}
  <2>1. Pick(s) \in s /\ r \in SUBSET s /\ r # s
    BY <1>4, PickIn
  <2>2. SumFunctionOnSet(f, r) = SumFunctionOnSet(g, r) /\ f[Pick(s)] = g[Pick(s)]
    BY <1>1, <2>1
  <2>3. SumFunctionOnSet(f, s) = f[Pick(s)] + SumFunctionOnSet(f, r)
    BY <1>2, <1>4, SumRecursion
  <2>4. SumFunctionOnSet(g, s) = g[Pick(s)] + SumFunctionOnSet(g, r)
    BY <1>2, <1>4, SumRecursion
  <2> QED BY <2>2, <2>3, <2>4
<1> QED BY <1>3, <1>4

(* One value changes.                                                      *)
LEMMA SumChanged ==
  ASSUME NEW f, NEW g, NEW S, IsFiniteSet(S), NEW e \in S,
         \A x \in S : f[x] \in Int /\ g[x] \in Int,
         \A x \in S \ {e} : f[x] = g[x]
  PROVE  SumFunctionOnSet(g, S) = SumFunctionOnSet(f, S) - f[e] + g[e]
<1>1. IsFiniteSet(S \ {e})
  BY FS_Subset
<1>2. SumFunctionOnSet(f, S) = f[e] + SumFunctionOnSet(f, S \ {e})
  BY SumTakeOut
<1>3. SumFunctionOnSet(g, S) = g[e] + SumFunctionOnSet(g, S \ {e})
  BY SumTakeOut
<1>4. SumFunctionOnSet(f, S \ {e}) = SumFunctionOnSet(g, S \ {e})
  BY <1>1, SumSame
<1>5. SumFunctionOnSet(f, S \ {e}) \in Int
  BY <1>1, SumType
<1> QED BY <1>2, <1>3, <1>4, <1>5

(* One element is added, and the others keep their values.                 *)
LEMMA SumAdded ==
  ASSUME NEW f, NEW g, NEW S, IsFiniteSet(S), NEW e, e \notin S,
         \A x \in S : f[x] = g[x] /\ g[x] \in Int, g[e] \in Int
  PROVE  SumFunctionOnSet(g, S \cup {e}) = SumFunctionOnSet(f, S) + g[e]
<1>1. IsFiniteSet(S \cup {e}) /\ (S \cup {e}) \ {e} = S
  BY FS_AddElement
<1>2. SumFunctionOnSet(g, S \cup {e}) = g[e] + SumFunctionOnSet(g, (S \cup {e}) \ {e})
  BY <1>1, SumTakeOut
<1>3. SumFunctionOnSet(g, S \cup {e}) = g[e] + SumFunctionOnSet(g, S)
  BY <1>1, <1>2, Zenon
<1>4. SumFunctionOnSet(g, S) = SumFunctionOnSet(f, S)
  BY SumSame, Zenon
<1>5. SumFunctionOnSet(f, S) \in Int
  BY SumType
<1> QED BY <1>3, <1>4, <1>5

(* Nothing is added up, or only zeros are.                                 *)
LEMMA SumZero ==
  ASSUME NEW f, NEW S, IsFiniteSet(S), \A x \in S : f[x] = 0
  PROVE  SumFunctionOnSet(f, S) = 0
<1> DEFINE T == {s \in SUBSET S : SumFunctionOnSet(f, s) # 0}
<1> SUFFICES ASSUME T # {} PROVE FALSE
  OBVIOUS
<1>1. PICK s \in T : \A y \in SUBSET s : y # s => y \notin T
  <2>1. T \subseteq SUBSET S
    OBVIOUS
  <2> HIDE DEF T
  <2> QED BY <2>1, Minimal
<1>2. IsFiniteSet(s)
  BY FS_Subset
<1>3. CASE s = {}
  BY <1>2, <1>3, SumRecursion
<1>4. CASE s # {}
  <2> DEFINE r == s \ {Pick(s)}
  <2>1. Pick(s) \in s /\ r \in SUBSET s /\ r # s
    BY <1>4, PickIn
  <2>2. SumFunctionOnSet(f, r) = 0 /\ f[Pick(s)] = 0
    BY <1>1, <2>1
  <2>3. SumFunctionOnSet(f, s) = f[Pick(s)] + SumFunctionOnSet(f, r)
    BY <1>2, <1>4, SumRecursion
  <2> QED BY <2>2, <2>3
<1> QED BY <1>3, <1>4

(* No value is over k.                                                     *)
LEMMA SumAtMost ==
  ASSUME NEW f, NEW S, IsFiniteSet(S), NEW k \in Nat, \A x \in S : f[x] \in Nat /\ f[x] <= k
  PROVE  SumFunctionOnSet(f, S) <= k * Cardinality(S)
<1> DEFINE T == {s \in SUBSET S : ~(SumFunctionOnSet(f, s) <= k * Cardinality(s))}
<1> SUFFICES ASSUME T # {} PROVE FALSE
  BY FS_Subset
<1>1. PICK s \in T : \A y \in SUBSET s : y # s => y \notin T
  <2>1. T \subseteq SUBSET S
    OBVIOUS
  <2> HIDE DEF T
  <2> QED BY <2>1, Minimal
<1>2. IsFiniteSet(s)
  BY FS_Subset
<1>3. CASE s = {}
  <2>1. SumFunctionOnSet(f, s) = 0 /\ Cardinality(s) = 0
    BY <1>2, <1>3, SumRecursion, FS_EmptySet
  <2> QED BY <2>1
<1>4. CASE s # {}
  <2> DEFINE r == s \ {Pick(s)}
  <2>1. Pick(s) \in s /\ r \in SUBSET s /\ r # s
    BY <1>4, PickIn
  <2>2. SumFunctionOnSet(f, r) <= k * Cardinality(r) /\ f[Pick(s)] \in Nat /\ f[Pick(s)] <= k
    BY <1>1, <2>1
  <2>3. SumFunctionOnSet(f, s) = f[Pick(s)] + SumFunctionOnSet(f, r)
    BY <1>2, <1>4, SumRecursion
  <2>4. /\ IsFiniteSet(r) /\ Cardinality(r) = Cardinality(s) - 1
        /\ Cardinality(r) \in Nat /\ Cardinality(s) \in Nat
    BY <1>2, <2>1, FS_RemoveElement, FS_CardinalityType
  <2>5. SumFunctionOnSet(f, r) \in Nat
    BY <2>1, <2>4, SumType
  <2> HIDE DEF r
  <2>6. k * Cardinality(s) = k * Cardinality(r) + k
    BY <2>4
  <2> HIDE DEF T
  <2>7. k * Cardinality(r) \in Nat
    BY <2>4
  <2>8. SumFunctionOnSet(f, s) <= k * Cardinality(s)
    BY <2>2, <2>3, <2>5, <2>6, <2>7
  <2> QED BY <2>8 DEF T
<1> QED BY <1>3, <1>4

=============================================================================
