------------------------------ MODULE FiniteSums ------------------------------
(***************************************************************************)
(* What summation over a finite set does, for the proofs about amounts,    *)
(* points and days.                                                        *)
(*                                                                         *)
(* SumFunctionOnSet of the community modules is a fold, written with a     *)
(* recursive function on the subsets of the set.  First that function is   *)
(* shown to exist and not to depend on the whole set it is taken over;     *)
(* then any member may be taken out of a sum, and the rest follows by      *)
(* induction over the subsets.  Induction is over the members of a set,    *)
(* which the provers can instantiate, not over an operator.                *)
(***************************************************************************)
EXTENDS Integers, FiniteSetsExt, FiniteSetTheorems, WellFoundedInduction, TLAPS

\* One step of the fold that sums f over s, given the sums of the parts.
Folded(f, s, sums) ==
    IF s = {} THEN 0 ELSE LET x == CHOOSE x \in s : TRUE IN f[x] + sums[s \ {x}]

\* The sums of all parts of S.
Sums(f, S) == CHOOSE sums : sums = [s \in SUBSET S |-> Folded(f, s, sums)]

\* The sum of a function is the value of the recursive function that folds it.
LEMMA SumIsFold ==
  ASSUME NEW f, NEW S
  PROVE  SumFunctionOnSet(f, S) = Sums(f, S)[S]
BY DEF SumFunctionOnSet, FoldFunctionOnSet, MapThenFoldSet, Sums, Folded

\* Induction over the numbers, for the members of a set.
LEMMA NumberInduction ==
  ASSUME NEW G, 0 \in G, \A n \in Nat : n \in G => n + 1 \in G
  PROVE  Nat \subseteq G
<1> DEFINE Bad == Nat \ G
<1> SUFFICES ASSUME Bad # {} PROVE FALSE
  OBVIOUS
<1>1. PICK m \in Bad : \A n \in Bad : ~(<<n, m>> \in OpToRel(<, Nat))
  <2>1. IsWellFoundedOn(OpToRel(<, Nat), Nat)
    BY NatLessThanWellFounded
  <2> QED
    BY <2>1, WFMin
<1>2. m \in Nat /\ m \notin G /\ m # 0
  OBVIOUS
<1>3. m - 1 \in Nat /\ m - 1 < m /\ m = (m - 1) + 1
  BY <1>2
<1>4. m - 1 \in G
  BY <1>1, <1>2, <1>3 DEF OpToRel
<1> QED
  BY <1>2, <1>3, <1>4

\* Induction over the subsets of a finite set, for the members of a set.
LEMMA PartInduction ==
  ASSUME NEW S, IsFiniteSet(S), NEW G,
         \A T \in SUBSET S : (\A x \in T : T \ {x} \in G) => T \in G
  PROVE  SUBSET S \subseteq G
<1> DEFINE N == {n \in Nat : \A T \in SUBSET S : Cardinality(T) <= n => T \in G}
<1>0. \A T \in SUBSET S : IsFiniteSet(T) /\ Cardinality(T) \in Nat
  BY FS_Subset, FS_CardinalityType
<1>1. 0 \in N
  <2> SUFFICES ASSUME NEW T \in SUBSET S, Cardinality(T) <= 0 PROVE T \in G
    OBVIOUS
  <2>1. T = {}
    BY <1>0, FS_EmptySet
  <2> QED
    BY <2>1
<1>2. ASSUME NEW n \in Nat, n \in N PROVE n + 1 \in N
  <2> SUFFICES ASSUME NEW T \in SUBSET S, Cardinality(T) <= n + 1 PROVE T \in G
    BY <1>2
  <2>1. ASSUME NEW x \in T PROVE T \ {x} \in G
    <3>1. Cardinality(T \ {x}) = Cardinality(T) - 1
      BY <1>0, FS_RemoveElement
    <3>2. T \ {x} \in SUBSET S /\ Cardinality(T \ {x}) <= n
      BY <3>1, <1>0
    <3> QED
      BY <3>2, <1>2
  <2> QED
    BY <2>1
<1>3. Nat \subseteq N
  <2> HIDE DEF N
  <2> QED
    BY <1>1, <1>2, NumberInduction
<1> QED
  BY <1>0, <1>3

\* The recursive function that sums over the parts of a finite set exists.
LEMMA SumsExist ==
  ASSUME NEW f, NEW S, IsFiniteSet(S)
  PROVE  \E g : g = [s \in SUBSET S |-> Folded(f, s, g)]
<1> DEFINE Small(n) == {s \in SUBSET S : Cardinality(s) <= n}
           Summed(n) == \E g : g = [s \in Small(n) |-> Folded(f, s, g)]
           N == {n \in Nat : Summed(n)}
<1>0. \A T \in SUBSET S : IsFiniteSet(T) /\ Cardinality(T) \in Nat
  BY FS_Subset, FS_CardinalityType
<1>1. 0 \in N
  <2>1. \A s \in Small(0) : s = {}
    BY <1>0, FS_EmptySet
  <2> DEFINE g == [s \in Small(0) |-> 0]
  <2>2. g = [s \in Small(0) |-> Folded(f, s, g)]
    BY <2>1 DEF Folded
  <2> QED
    BY <2>2
<1>2. ASSUME NEW n \in Nat, n \in N PROVE n + 1 \in N
  <2>1. PICK g : g = [s \in Small(n) |-> Folded(f, s, g)]
    BY <1>2
  <2> DEFINE h == [s \in Small(n + 1) |-> Folded(f, s, g)]
  <2>2. ASSUME NEW s \in Small(n + 1) PROVE Folded(f, s, h) = Folded(f, s, g)
    <3>1. CASE s = {}
      BY <3>1 DEF Folded
    <3>2. CASE s # {}
      <4> DEFINE x == CHOOSE x \in s : TRUE
                 r == s \ {x}
      <4>1. x \in s
        BY <3>2
      <4>2. Cardinality(r) = Cardinality(s) - 1
        BY <4>1, <1>0, FS_RemoveElement
      <4>3. r \in Small(n) /\ r \in Small(n + 1)
        BY <4>2, <1>0
      <4> HIDE DEF Small
      <4>4. h[r] = g[r]
        BY <2>1, <4>3
      <4> QED
        BY <3>2, <4>4 DEF Folded
    <3> QED
      BY <3>1, <3>2
  <2>3. h = [s \in Small(n + 1) |-> Folded(f, s, h)]
    BY <2>2
  <2>4. Summed(n + 1)
    <3> HIDE DEF h, Small
    <3> QED
      BY <2>3
  <2> QED
    <3> HIDE DEF Sums
    <3> QED
      BY <2>4
<1>3. Cardinality(S) \in N
  <2> HIDE DEF N
  <2> QED
    BY <1>0, <1>1, <1>2, NumberInduction
<1>4. Small(Cardinality(S)) = SUBSET S
  BY <1>0, FS_Subset
<1> QED
  BY <1>3, <1>4

\* It is a sum of every part.
LEMMA SumsFold ==
  ASSUME NEW f, NEW S, IsFiniteSet(S), NEW s \in SUBSET S
  PROVE  Sums(f, S)[s] = Folded(f, s, Sums(f, S))
<1>1. Sums(f, S) = [t \in SUBSET S |-> Folded(f, t, Sums(f, S))]
  BY SumsExist DEF Sums
<1> QED
  BY <1>1

\* Its value for a part does not depend on the whole.
LEMMA SumsOfPart ==
  ASSUME NEW f, NEW S, IsFiniteSet(S), NEW T \in SUBSET S
  PROVE  Sums(f, S)[T] = SumFunctionOnSet(f, T)
<1>0. IsFiniteSet(T)
  BY FS_Subset
<1> DEFINE G == {U \in SUBSET T : Sums(f, S)[U] = Sums(f, T)[U]}
<1>1. ASSUME NEW U \in SUBSET T, \A x \in U : U \ {x} \in G
      PROVE  U \in G
  <2>1. Folded(f, U, Sums(f, S)) = Folded(f, U, Sums(f, T))
    <3>1. CASE U = {}
      BY <3>1 DEF Folded
    <3>2. CASE U # {}
      <4> DEFINE x == CHOOSE x \in U : TRUE
      <4>1. x \in U
        BY <3>2
      <4>2. Sums(f, S)[U \ {x}] = Sums(f, T)[U \ {x}]
        BY <1>1, <4>1
      <4> QED
        BY <3>2, <4>2 DEF Folded
    <3> QED
      BY <3>1, <3>2
  <2> QED
    BY <2>1, <1>0, SumsFold
<1>2. SUBSET T \subseteq G
  <2> HIDE DEF G
  <2> QED
    BY <1>0, <1>1, PartInduction
<1> QED
  BY <1>2, SumIsFold

\* One member of a sum, and the rest.
LEMMA SumChoose ==
  ASSUME NEW f, NEW S, IsFiniteSet(S), S # {}
  PROVE  LET x == CHOOSE x \in S : TRUE
         IN  SumFunctionOnSet(f, S) = f[x] + SumFunctionOnSet(f, S \ {x})
<1> DEFINE x == CHOOSE x \in S : TRUE
<1>1. S \in SUBSET S /\ S \ {x} \in SUBSET S
  OBVIOUS
<1>2. Sums(f, S)[S] = Folded(f, S, Sums(f, S))
  BY <1>1, SumsFold
<1>3. Sums(f, S)[S \ {x}] = SumFunctionOnSet(f, S \ {x})
  BY <1>1, SumsOfPart
<1>4. Folded(f, S, Sums(f, S)) = f[x] + Sums(f, S)[S \ {x}]
  BY DEF Folded
<1> QED
  BY <1>2, <1>3, <1>4, SumIsFold

\* The empty sum.
LEMMA SumEmpty ==
  ASSUME NEW f
  PROVE  SumFunctionOnSet(f, {}) = 0
BY SumIsFold, SumsFold, FS_EmptySet DEF Folded

\* A sum of integers is one.
LEMMA SumInt ==
  ASSUME NEW f, NEW S, IsFiniteSet(S), \A x \in S : f[x] \in Int
  PROVE  SumFunctionOnSet(f, S) \in Int
<1> DEFINE G == {T \in SUBSET S : SumFunctionOnSet(f, T) \in Int}
<1>1. ASSUME NEW T \in SUBSET S, \A x \in T : T \ {x} \in G
      PROVE  T \in G
  <2>0. IsFiniteSet(T)
    BY FS_Subset
  <2>1. CASE T = {}
    BY <2>1, SumEmpty
  <2>2. CASE T # {}
    <3> DEFINE x == CHOOSE x \in T : TRUE
    <3>1. x \in T /\ f[x] \in Int /\ SumFunctionOnSet(f, T \ {x}) \in Int
      BY <1>1, <2>2
    <3>2. SumFunctionOnSet(f, T) = f[x] + SumFunctionOnSet(f, T \ {x})
      BY <2>0, <2>2, SumChoose
    <3> QED
      BY <3>1, <3>2
  <2> QED
    BY <2>1, <2>2
<1>2. SUBSET S \subseteq G
  <2> HIDE DEF G
  <2> QED
    BY <1>1, PartInduction
<1> QED
  BY <1>2

\* Any member may be taken out of a sum.
LEMMA SumMember ==
  ASSUME NEW f, NEW S, IsFiniteSet(S), \A x \in S : f[x] \in Int, NEW y \in S
  PROVE  SumFunctionOnSet(f, S) = f[y] + SumFunctionOnSet(f, S \ {y})
<1> DEFINE Add(T) == SumFunctionOnSet(f, T)
           G == {T \in SUBSET S : \A z \in T : Add(T) = f[z] + Add(T \ {z})}
<1>0. \A T \in SUBSET S : IsFiniteSet(T) /\ Add(T) \in Int
  BY FS_Subset, SumInt
<1>1. ASSUME NEW T \in SUBSET S, \A x \in T : T \ {x} \in G
      PROVE  T \in G
  <2> SUFFICES ASSUME NEW z \in T PROVE Add(T) = f[z] + Add(T \ {z})
    OBVIOUS
  <2> DEFINE x == CHOOSE x \in T : TRUE
  <2>1. x \in T /\ Add(T) = f[x] + Add(T \ {x})
    BY <1>0, SumChoose
  <2>2. CASE z = x
    BY <2>1, <2>2
  <2>3. CASE z # x
    <3>1. Add(T \ {x}) = f[z] + Add((T \ {x}) \ {z})
      BY <1>1, <2>1, <2>3
    <3>2. Add(T \ {z}) = f[x] + Add((T \ {z}) \ {x})
      BY <1>1, <2>1, <2>3
    <3>3. (T \ {x}) \ {z} = (T \ {z}) \ {x}
      OBVIOUS
    <3>4. Add((T \ {x}) \ {z}) \in Int /\ f[x] \in Int /\ f[z] \in Int
      BY <1>0, <2>1
    <3>5. /\ Add(T) = f[x] + (f[z] + Add((T \ {x}) \ {z}))
          /\ Add(T \ {z}) = f[x] + Add((T \ {x}) \ {z})
      BY <2>1, <3>1, <3>2, <3>3
    <3>6. \A i, j, k \in Int : i + (j + k) = j + (i + k)
      OBVIOUS
    <3>7. f[x] + (f[z] + Add((T \ {x}) \ {z})) = f[z] + (f[x] + Add((T \ {x}) \ {z}))
      <4> HIDE DEF x, Add
      <4> QED
        BY <3>4, <3>6
    <3> QED
      BY <3>5, <3>7
  <2> QED
    BY <2>2, <2>3
<1>2. SUBSET S \subseteq G
  <2> HIDE DEF G
  <2> QED
    BY <1>1, PartInduction
<1> QED
  BY <1>2

\* Sums of differences.
LEMMA SumDifference ==
  ASSUME NEW f, NEW g, NEW h, NEW S, IsFiniteSet(S),
         \A x \in S : f[x] \in Int /\ g[x] \in Int /\ h[x] = f[x] - g[x]
  PROVE  SumFunctionOnSet(h, S) = SumFunctionOnSet(f, S) - SumFunctionOnSet(g, S)
<1> DEFINE Add(k, T) == SumFunctionOnSet(k, T)
           G == {T \in SUBSET S : Add(h, T) = Add(f, T) - Add(g, T)}
<1>1. ASSUME NEW T \in SUBSET S, \A x \in T : T \ {x} \in G
      PROVE  T \in G
  <2>0. IsFiniteSet(T)
    BY FS_Subset
  <2>1. CASE T = {}
    BY <2>1, SumEmpty
  <2>2. CASE T # {}
    <3> DEFINE x == CHOOSE x \in T : TRUE
    <3>1. x \in T /\ f[x] \in Int /\ g[x] \in Int /\ h[x] = f[x] - g[x]
      BY <1>1, <2>2
    <3>2. IsFiniteSet(T \ {x}) /\ Add(f, T \ {x}) \in Int /\ Add(g, T \ {x}) \in Int
      BY FS_Subset, SumInt
    <3>3. /\ Add(f, T) = f[x] + Add(f, T \ {x})
          /\ Add(g, T) = g[x] + Add(g, T \ {x})
          /\ Add(h, T) = h[x] + Add(h, T \ {x})
      BY <2>0, <2>2, SumChoose
    <3>4. Add(h, T \ {x}) = Add(f, T \ {x}) - Add(g, T \ {x})
      BY <1>1, <3>1
    <3> HIDE DEF Add, x
    <3>5. Add(h, T) = Add(f, T) - Add(g, T)
      BY <3>1, <3>2, <3>3, <3>4
    <3> QED
      BY <3>5
  <2> QED
    BY <2>1, <2>2
<1>2. SUBSET S \subseteq G
  <2> HIDE DEF G
  <2> QED
    BY <1>1, PartInduction
<1> QED
  BY <1>2

\* What is zero does not count.
LEMMA SumNonzero ==
  ASSUME NEW f, NEW g, NEW S, IsFiniteSet(S), NEW T \in SUBSET S,
         \A x \in S : f[x] \in Int,
         \A x \in T : g[x] = f[x], \A x \in S \ T : f[x] = 0
  PROVE  SumFunctionOnSet(f, S) = SumFunctionOnSet(g, T)
<1> DEFINE Add(k, U) == SumFunctionOnSet(k, U)
           G == {U \in SUBSET S : Add(f, U) = Add(g, U \cap T)}
<1>1. ASSUME NEW U \in SUBSET S, \A x \in U : U \ {x} \in G
      PROVE  U \in G
  <2>0. IsFiniteSet(U) /\ IsFiniteSet(U \cap T)
    BY FS_Subset
  <2>1. CASE U = {}
    <3>1. U \cap T = {}
      BY <2>1
    <3> QED
      BY <2>1, <3>1, SumEmpty
  <2>2. CASE U # {}
    <3>1. PICK x \in U : TRUE
      BY <2>2
    <3>2. Add(f, U) = f[x] + Add(f, U \ {x})
      BY <2>0, SumMember
    <3>3. Add(f, U \ {x}) = Add(g, (U \ {x}) \cap T)
      BY <1>1
    <3>4. CASE x \in T
      <4>1. Add(g, U \cap T) = g[x] + Add(g, (U \cap T) \ {x})
        BY <2>0, <3>4, SumMember
      <4>2. (U \cap T) \ {x} = (U \ {x}) \cap T
        OBVIOUS
      <4>3. g[x] = f[x]
        BY <3>4
      <4>4. Add(f, U) = Add(g, U \cap T)
        <5> HIDE DEF Add
        <5> QED
          BY <3>2, <3>3, <4>1, <4>2, <4>3
      <4> QED
        BY <4>4
    <3>5. CASE x \notin T
      <4>1. (U \ {x}) \cap T = U \cap T /\ f[x] = 0
        BY <3>5
      <4>2. IsFiniteSet(U \ {x}) /\ Add(f, U \ {x}) \in Int
        BY FS_Subset, SumInt
      <4> HIDE DEF Add
      <4>3. Add(f, U) = Add(f, U \ {x})
        BY <3>2, <4>1, <4>2
      <4>4. Add(f, U) = Add(g, U \cap T)
        BY <3>3, <4>1, <4>3
      <4> QED
        BY <4>4
    <3> QED
      BY <3>4, <3>5
  <2> QED
    BY <2>1, <2>2
<1>2. SUBSET S \subseteq G
  <2> HIDE DEF G
  <2> QED
    BY <1>1, PartInduction
<1>3. S \cap T = T
  OBVIOUS
<1> QED
  BY <1>2, <1>3

\* A sum of natural numbers is one.
LEMMA SumNat ==
  ASSUME NEW f, NEW S, IsFiniteSet(S), \A x \in S : f[x] \in Nat
  PROVE  SumFunctionOnSet(f, S) \in Nat
<1> DEFINE G == {T \in SUBSET S : SumFunctionOnSet(f, T) \in Nat}
<1>1. ASSUME NEW T \in SUBSET S, \A x \in T : T \ {x} \in G
      PROVE  T \in G
  <2>0. IsFiniteSet(T)
    BY FS_Subset
  <2>1. CASE T = {}
    BY <2>1, SumEmpty
  <2>2. CASE T # {}
    <3> DEFINE x == CHOOSE x \in T : TRUE
    <3>1. x \in T /\ f[x] \in Nat /\ SumFunctionOnSet(f, T \ {x}) \in Nat
      BY <1>1, <2>2
    <3>2. SumFunctionOnSet(f, T) = f[x] + SumFunctionOnSet(f, T \ {x})
      BY <2>0, <2>2, SumChoose
    <3> QED
      BY <3>1, <3>2
  <2> QED
    BY <2>1, <2>2
<1>2. SUBSET S \subseteq G
  <2> HIDE DEF G
  <2> QED
    BY <1>1, PartInduction
<1> QED
  BY <1>2

\* Sums of functions that agree.
LEMMA SumSame ==
  ASSUME NEW f, NEW g, NEW S, IsFiniteSet(S),
         \A x \in S : f[x] \in Int /\ g[x] = f[x]
  PROVE  SumFunctionOnSet(f, S) = SumFunctionOnSet(g, S)
BY SumNonzero

\* A sum with one member more.
LEMMA SumMore ==
  ASSUME NEW f, NEW S, IsFiniteSet(S), \A x \in S : f[x] \in Int, NEW y, y \notin S, f[y] \in Int
  PROVE  SumFunctionOnSet(f, S \cup {y}) = SumFunctionOnSet(f, S) + f[y]
<1>1. IsFiniteSet(S \cup {y}) /\ (S \cup {y}) \ {y} = S
  BY FS_AddElement
<1>2. SumFunctionOnSet(f, S \cup {y}) = f[y] + SumFunctionOnSet(f, (S \cup {y}) \ {y})
  BY <1>1, SumMember
<1>3. SumFunctionOnSet(f, S) \in Int
  BY SumInt
<1>4. SumFunctionOnSet(f, S \cup {y}) = f[y] + SumFunctionOnSet(f, S)
  BY <1>1, <1>2
<1>5. \A i, j \in Int : i + j = j + i
  OBVIOUS
<1> QED
  BY <1>3, <1>4, <1>5

\* A part of natural numbers sums up to no more than the whole.
LEMMA SumPart ==
  ASSUME NEW f, NEW S, IsFiniteSet(S), \A x \in S : f[x] \in Nat, NEW T \in SUBSET S
  PROVE  SumFunctionOnSet(f, T) <= SumFunctionOnSet(f, S)
<1> DEFINE G == {U \in SUBSET S : SumFunctionOnSet(f, U \cap T) <= SumFunctionOnSet(f, U)}
<1>1. ASSUME NEW U \in SUBSET S, \A x \in U : U \ {x} \in G
      PROVE  U \in G
  <2>0. IsFiniteSet(U) /\ IsFiniteSet(U \cap T)
    BY FS_Subset
  <2>1. CASE U \subseteq T
    <3>1. U \cap T = U /\ SumFunctionOnSet(f, U) \in Nat
      BY <2>0, <2>1, SumNat
    <3> QED
      BY <3>1
  <2>2. CASE ~(U \subseteq T)
    <3>1. PICK x \in U : x \notin T
      BY <2>2
    <3>2. (U \ {x}) \cap T = U \cap T
      BY <3>1
    <3>3. SumFunctionOnSet(f, U \cap T) <= SumFunctionOnSet(f, U \ {x})
      BY <1>1, <3>2
    <3>4. IsFiniteSet(U \ {x})
      BY FS_Subset
    <3>5. SumFunctionOnSet(f, U) = f[x] + SumFunctionOnSet(f, U \ {x})
      BY <2>0, SumMember
    <3>6. /\ SumFunctionOnSet(f, U \ {x}) \in Nat /\ SumFunctionOnSet(f, U \cap T) \in Nat
          /\ f[x] \in Nat
      BY <2>0, <3>4, SumNat
    <3> HIDE DEF G
    <3>7. SumFunctionOnSet(f, U \cap T) <= SumFunctionOnSet(f, U)
      BY <3>3, <3>5, <3>6
    <3> QED
      BY <3>7 DEF G
  <2> QED
    BY <2>1, <2>2
<1>2. SUBSET S \subseteq G
  <2> HIDE DEF G
  <2> QED
    BY <1>1, PartInduction
<1>3. S \cap T = T
  OBVIOUS
<1> QED
  BY <1>2, <1>3
=============================================================================
