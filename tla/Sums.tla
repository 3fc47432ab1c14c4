-------------------------------- MODULE Sums --------------------------------
(***************************************************************************)
(* Sums of the values of a function over a finite set, as                  *)
(* SumFunctionOnSet of the module Functions defines them: a sum is         *)
(* computed by removing one chosen element after the other.                *)
(*                                                                         *)
(* Induction on the size of a set is done with a smallest counterexample,  *)
(* which exists because the natural numbers are well-founded.              *)
(***************************************************************************)
EXTENDS Integers, Functions, FiniteSets, FiniteSetTheorems, WellFoundedInduction, TLAPS

\* A non-empty set of natural numbers has a least element.
LEMMA LeastNat ==
    ASSUME NEW T, T \subseteq Nat, T # {}
    PROVE  \E m \in T : \A k \in T : m <= k
<1> DEFINE R == {ss \in Nat \X Nat : ss[1] < ss[2]}
<1>1. IsWellFoundedOn(R, Nat)
  BY NatLessThanWellFounded DEF OpToRel
<1>2. \A y, x \in Nat : y < x => <<y, x>> \in R
  OBVIOUS
<1> HIDE DEF R
<1>3. PICK x \in T : \A y \in T : ~ (<<y, x>> \in R)
  BY <1>1, WFMin
<1>4. \A y \in T : ~(y < x)
  BY <1>2, <1>3
<1> QED BY <1>3, <1>4

\* A non-empty set of finite sets has a smallest one.
LEMMA SmallestSet ==
    ASSUME NEW B, B # {}, \A T \in B : IsFiniteSet(T)
    PROVE  \E T \in B : \A U \in B : ~(Cardinality(U) < Cardinality(T))
<1> DEFINE N == {Cardinality(T) : T \in B}
<1>1. N \subseteq Nat /\ N # {}
  BY FS_CardinalityType
<1>2. PICK m \in N : \A k \in N : m <= k
  BY <1>1, LeastNat
<1>3. PICK T \in B : m = Cardinality(T)
  BY <1>2
<1>4. \A U \in B : m <= Cardinality(U) /\ Cardinality(U) \in Nat /\ m \in Nat
  BY <1>1, <1>2
<1> QED BY <1>3, <1>4

-----------------------------------------------------------------------------
(* The function that SumFunctionOnSet applies to the set.                  *)

Pick(T) == CHOOSE x \in T : TRUE

IsAdder(it, f, S) ==
    it = [T \in SUBSET S |-> IF T = {} THEN 0 ELSE f[Pick(T)] + it[T \ {Pick(T)}]]

Adder(f, S) ==
    CHOOSE it : it = [T \in SUBSET S |->
                         IF T = {} THEN 0
                         ELSE f[CHOOSE x \in T : TRUE] + it[T \ {CHOOSE x \in T : TRUE}]]

\* The library defines its sum as some function that adds this way.
LEMMA SumIsAdder ==
    ASSUME NEW f, NEW S
    PROVE  SumFunctionOnSet(f, S) = Adder(f, S)[S]
BY DEF SumFunctionOnSet, FoldFunctionOnSet, MapThenFoldSet, Adder

\* The element that is added first is one of the set.
LEMMA PickIn ==
    ASSUME NEW T, T # {}
    PROVE  Pick(T) \in T
BY DEF Pick

\* What is left of a finite set without one element is smaller.
LEMMA Smaller ==
    ASSUME NEW T, IsFiniteSet(T), NEW x \in T
    PROVE  /\ IsFiniteSet(T \ {x})
           /\ Cardinality(T \ {x}) < Cardinality(T)
           /\ Cardinality(T \ {x}) = Cardinality(T) - 1
           /\ Cardinality(T) \in Nat /\ Cardinality(T \ {x}) \in Nat
<1>1. IsFiniteSet(T \ {x}) /\ Cardinality(T \ {x}) = Cardinality(T) - 1
  BY FS_RemoveElement
<1>2. Cardinality(T) \in Nat /\ Cardinality(T \ {x}) \in Nat
  BY <1>1, FS_CardinalityType
<1> QED BY <1>1, <1>2

\* The recursion has a solution.
LEMMA AdderExists ==
    ASSUME NEW f, NEW S, IsFiniteSet(S)
    PROVE  \E it : IsAdder(it, f, S)
<1> DEFINE D(n) == {T \in SUBSET S : Cardinality(T) <= n}
           Solves(g, n) ==
             \A T \in D(n) : g[T] = IF T = {} THEN 0 ELSE f[Pick(T)] + g[T \ {Pick(T)}]
           Bad == {n \in Nat : ~ \E g : Solves(g, n)}
<1>1. \A T \in SUBSET S : IsFiniteSet(T) /\ Cardinality(T) \in Nat
  BY FS_Subset, FS_CardinalityType
<1>2. Bad = {}
  <2> SUFFICES ASSUME Bad # {} PROVE FALSE
    OBVIOUS
  <2>1. PICK m \in Bad : \A k \in Bad : m <= k
    <3>1. Bad \subseteq Nat
      OBVIOUS
    <3> HIDE DEF Bad
    <3> QED BY <3>1, LeastNat
  <2>2. CASE m = 0
    <3>1. \A T \in D(0) : T = {}
      BY <1>1, FS_EmptySet
    <3>2. Solves([T \in SUBSET S |-> 0], 0)
      BY <3>1
    <3> QED BY <2>1, <2>2, <3>2
  <2>3. CASE m # 0
    <3>1. m \in Nat /\ m - 1 \in Nat /\ m - 1 \notin Bad
      <4>1. m \in Nat
        BY <2>1
      <4> HIDE DEF Bad
      <4> QED BY <2>1, <2>3, <4>1
    <3>2. PICK g : Solves(g, m - 1)
      BY <3>1
    <3> DEFINE h == [T \in SUBSET S |-> IF T = {} THEN 0 ELSE f[Pick(T)] + g[T \ {Pick(T)}]]
    <3>3. \A T \in D(m - 1) : h[T] = g[T]
      BY <3>2
    <3>4. \A T \in D(m) : T # {} => T \ {Pick(T)} \in D(m - 1)
      <4> SUFFICES ASSUME NEW T \in D(m), T # {} PROVE T \ {Pick(T)} \in D(m - 1)
        OBVIOUS
      <4>1. Cardinality(T \ {Pick(T)}) = Cardinality(T) - 1 /\ Cardinality(T) \in Nat
        BY <1>1, PickIn, Smaller
      <4> QED BY <3>1, <4>1
    <3>5. Solves(h, m)
      <4> SUFFICES ASSUME NEW T \in D(m)
                   PROVE  h[T] = IF T = {} THEN 0 ELSE f[Pick(T)] + h[T \ {Pick(T)}]
        OBVIOUS
      <4>1. CASE T = {}
        BY <4>1
      <4>2. CASE T # {}
        <5>1. h[T \ {Pick(T)}] = g[T \ {Pick(T)}]
          BY <3>3, <3>4, <4>2
        <5>2. h[T] = f[Pick(T)] + g[T \ {Pick(T)}]
          BY <4>2
        <5> QED BY <4>2, <5>1, <5>2
      <4> QED BY <4>1, <4>2
    <3> QED BY <2>1, <3>5
  <2> QED BY <2>2, <2>3
<1>3. PICK g : Solves(g, Cardinality(S))
  BY <1>1, <1>2
<1>4. \A T \in SUBSET S : T \in D(Cardinality(S))
  BY FS_Subset
<1> DEFINE it == [T \in SUBSET S |-> g[T]]
<1>5. \A T \in SUBSET S : it[T] = IF T = {} THEN 0 ELSE f[Pick(T)] + it[T \ {Pick(T)}]
  <2> SUFFICES ASSUME NEW T \in SUBSET S
               PROVE  it[T] = IF T = {} THEN 0 ELSE f[Pick(T)] + it[T \ {Pick(T)}]
    OBVIOUS
  <2>1. g[T] = IF T = {} THEN 0 ELSE f[Pick(T)] + g[T \ {Pick(T)}]
    BY <1>3, <1>4
  <2>2. T \ {Pick(T)} \in SUBSET S
    OBVIOUS
  <2> QED BY <2>1, <2>2
<1>6. IsAdder(it, f, S)
  BY <1>5 DEF IsAdder
<1> QED BY <1>6

\* The recursion has a solution, and CHOOSE returns one.
LEMMA AdderIsAdder ==
    ASSUME NEW f, NEW S, IsFiniteSet(S)
    PROVE  IsAdder(Adder(f, S), f, S)
<1>1. Adder(f, S) = CHOOSE it : IsAdder(it, f, S)
  BY DEF Adder, IsAdder, Pick
<1> QED BY <1>1, AdderExists

\* Adders of functions that agree on a set agree on the set's sum.
LEMMA AddersAgree ==
    ASSUME NEW f, NEW S, IsFiniteSet(S), NEW g, NEW R, IsFiniteSet(R),
           NEW T, T \subseteq S, T \subseteq R, \A x \in T : f[x] = g[x]
    PROVE  Adder(f, S)[T] = Adder(g, R)[T]
<1> DEFINE a == Adder(f, S)
           b == Adder(g, R)
<1>0. IsAdder(a, f, S) /\ IsAdder(b, g, R)
  BY AdderIsAdder
<1> HIDE DEF a, b
<1> SUFFICES a[T] = b[T]
  BY DEF a, b
<1> DEFINE Bad == {U \in SUBSET T : a[U] # b[U]}
<1> SUFFICES ASSUME Bad # {} PROVE FALSE
  OBVIOUS
<1>1. \A U \in Bad : IsFiniteSet(U) /\ U \subseteq T /\ a[U] # b[U]
  BY FS_Subset
<1>2. \A U \in SUBSET T : U \notin Bad => a[U] = b[U]
  OBVIOUS
<1> HIDE DEF Bad
<1>3. PICK U \in Bad : \A V \in Bad : ~(Cardinality(V) < Cardinality(U))
  BY <1>1, SmallestSet
<1>4. /\ a[U] = IF U = {} THEN 0 ELSE f[Pick(U)] + a[U \ {Pick(U)}]
      /\ b[U] = IF U = {} THEN 0 ELSE g[Pick(U)] + b[U \ {Pick(U)}]
  <2>1. U \in SUBSET S /\ U \in SUBSET R
    BY <1>1, <1>3
  <2> QED BY <1>0, <2>1 DEF IsAdder
<1>5. U # {}
  BY <1>1, <1>3, <1>4
<1>6. Pick(U) \in U
  BY <1>5, PickIn
<1>7. a[U \ {Pick(U)}] = b[U \ {Pick(U)}]
  BY <1>1, <1>2, <1>3, <1>6, Smaller
<1>8. f[Pick(U)] = g[Pick(U)]
  BY <1>1, <1>3, <1>6
<1> QED BY <1>1, <1>3, <1>4, <1>5, <1>7, <1>8

-----------------------------------------------------------------------------
(* Sums.                                                                   *)

\* A sum depends on the values at the elements of the set only.
LEMMA SumSame ==
    ASSUME NEW f, NEW g, NEW S, IsFiniteSet(S), \A x \in S : f[x] = g[x]
    PROVE  SumFunctionOnSet(f, S) = SumFunctionOnSet(g, S)
<1>1. Adder(f, S)[S] = Adder(g, S)[S]
  BY AddersAgree
<1> QED BY <1>1, SumIsAdder

\* Nothing adds up to zero.
LEMMA SumEmpty ==
    ASSUME NEW f
    PROVE  SumFunctionOnSet(f, {}) = 0
<1>1. IsAdder(Adder(f, {}), f, {})
  BY AdderIsAdder, FS_EmptySet
<1>2. Adder(f, {})[{}] = 0
  BY <1>1 DEF IsAdder
<1> QED BY <1>2, SumIsAdder

\* The chosen element comes first.
LEMMA SumPick ==
    ASSUME NEW f, NEW S, IsFiniteSet(S), S # {}
    PROVE  SumFunctionOnSet(f, S) = f[Pick(S)] + SumFunctionOnSet(f, S \ {Pick(S)})
<1> DEFINE R == S \ {Pick(S)}
<1>1. IsFiniteSet(R) /\ R \subseteq S
  BY FS_Subset
<1>2. IsAdder(Adder(f, S), f, S) /\ IsAdder(Adder(f, R), f, R)
  BY <1>1, AdderIsAdder
<1>3. Adder(f, S)[S] = f[Pick(S)] + Adder(f, S)[R]
  <2>1. S \in SUBSET S
    OBVIOUS
  <2> QED BY <1>2, <2>1 DEF IsAdder
<1>4. Adder(f, S)[R] = Adder(f, R)[R]
  <2> HIDE DEF R
  <2> QED BY <1>1, AddersAgree
<1> QED BY <1>3, <1>4, SumIsAdder

\* A sum of integers is an integer.
LEMMA SumInt ==
    ASSUME NEW f, NEW S, IsFiniteSet(S), \A x \in S : f[x] \in Int
    PROVE  SumFunctionOnSet(f, S) \in Int
<1> DEFINE Bad == {U \in SUBSET S : SumFunctionOnSet(f, U) \notin Int}
<1> SUFFICES ASSUME Bad # {} PROVE FALSE
  OBVIOUS
<1>1. \A U \in Bad : IsFiniteSet(U) /\ U \subseteq S /\ SumFunctionOnSet(f, U) \notin Int
  BY FS_Subset
<1>2. \A U \in SUBSET S : U \notin Bad => SumFunctionOnSet(f, U) \in Int
  OBVIOUS
<1> HIDE DEF Bad
<1>3. PICK U \in Bad : \A V \in Bad : ~(Cardinality(V) < Cardinality(U))
  BY <1>1, SmallestSet
<1>4. U # {}
  <2>1. SumFunctionOnSet(f, {}) \in Int
    BY SumEmpty
  <2> QED BY <1>1, <1>3, <2>1
<1>5. Pick(U) \in U /\ f[Pick(U)] \in Int
  BY <1>1, <1>3, <1>4, PickIn
<1>6. SumFunctionOnSet(f, U \ {Pick(U)}) \in Int
  BY <1>1, <1>2, <1>3, <1>5, Smaller
<1>7. SumFunctionOnSet(f, U) = f[Pick(U)] + SumFunctionOnSet(f, U \ {Pick(U)})
  BY <1>1, <1>3, <1>4, SumPick
<1> QED BY <1>1, <1>3, <1>5, <1>6, <1>7

\* Any element may come first.
LEMMA SumRemove ==
    ASSUME NEW f, NEW S, IsFiniteSet(S), \A y \in S : f[y] \in Int, NEW x \in S
    PROVE  SumFunctionOnSet(f, S) = f[x] + SumFunctionOnSet(f, S \ {x})
<1> DEFINE Splits(U) ==
             \A y \in U : SumFunctionOnSet(f, U) = f[y] + SumFunctionOnSet(f, U \ {y})
           Bad == {U \in SUBSET S : ~Splits(U)}
<1> SUFFICES ASSUME Bad # {} PROVE FALSE
  OBVIOUS
<1>1. \A U \in Bad : IsFiniteSet(U) /\ U \subseteq S /\ ~Splits(U)
  BY FS_Subset
<1>2. \A U \in SUBSET S : U \notin Bad => Splits(U)
  OBVIOUS
<1> HIDE DEF Bad
<1>3. PICK U \in Bad : \A V \in Bad : ~(Cardinality(V) < Cardinality(U))
  BY <1>1, SmallestSet
<1>4. PICK y \in U : SumFunctionOnSet(f, U) # f[y] + SumFunctionOnSet(f, U \ {y})
  BY <1>1, <1>3
<1> DEFINE z == Pick(U)
<1>5. z \in U /\ z \in S /\ y \in S /\ f[y] \in Int /\ f[z] \in Int
  BY <1>1, <1>3, <1>4, PickIn
<1>6. SumFunctionOnSet(f, U) = f[z] + SumFunctionOnSet(f, U \ {z})
  BY <1>1, <1>3, <1>4, SumPick
<1>7. z # y
  BY <1>4, <1>6
<1> HIDE DEF z
<1>8. Splits(U \ {z}) /\ Splits(U \ {y})
  BY <1>1, <1>2, <1>3, <1>4, <1>5, Smaller
<1>9. /\ SumFunctionOnSet(f, U \ {z}) = f[y] + SumFunctionOnSet(f, (U \ {z}) \ {y})
      /\ SumFunctionOnSet(f, U \ {y}) = f[z] + SumFunctionOnSet(f, (U \ {y}) \ {z})
  BY <1>4, <1>5, <1>7, <1>8
<1>10. (U \ {z}) \ {y} = (U \ {y}) \ {z}
  OBVIOUS
<1>11. SumFunctionOnSet(f, (U \ {y}) \ {z}) \in Int
  <2>1. IsFiniteSet((U \ {y}) \ {z}) /\ (U \ {y}) \ {z} \subseteq S
    BY <1>1, <1>3, FS_Subset
  <2> QED BY <2>1, SumInt
<1>12. /\ SumFunctionOnSet(f, U) = f[z] + (f[y] + SumFunctionOnSet(f, (U \ {y}) \ {z}))
       /\ f[y] + SumFunctionOnSet(f, U \ {y})
            = f[y] + (f[z] + SumFunctionOnSet(f, (U \ {y}) \ {z}))
  BY <1>6, <1>9, <1>10
<1>13. SumFunctionOnSet(f, U) = f[y] + SumFunctionOnSet(f, U \ {y})
  BY <1>5, <1>11, <1>12
<1> QED BY <1>4, <1>13

\* If one value changes, the sum changes by as much.
LEMMA SumUpdate ==
    ASSUME NEW S, IsFiniteSet(S), NEW f \in [S -> Int], NEW g \in [S -> Int],
           NEW x \in S, NEW d \in Int,
           \A y \in S : y # x => g[y] = f[y], g[x] = f[x] + d
    PROVE  SumFunctionOnSet(g, S) = SumFunctionOnSet(f, S) + d
<1>1. IsFiniteSet(S \ {x})
  BY FS_Subset
<1>2. SumFunctionOnSet(f, S \ {x}) = SumFunctionOnSet(g, S \ {x})
  BY <1>1, SumSame
<1>3. SumFunctionOnSet(f, S \ {x}) \in Int
  BY <1>1, SumInt
<1>4. /\ SumFunctionOnSet(f, S) = f[x] + SumFunctionOnSet(f, S \ {x})
      /\ SumFunctionOnSet(g, S) = g[x] + SumFunctionOnSet(g, S \ {x})
  BY SumRemove
<1> QED BY <1>2, <1>3, <1>4

\* An element is added.
LEMMA SumAdd ==
    ASSUME NEW f, NEW S, IsFiniteSet(S), NEW x, x \notin S,
           \A y \in S \union {x} : f[y] \in Int
    PROVE  SumFunctionOnSet(f, S \union {x}) = SumFunctionOnSet(f, S) + f[x]
<1>1. IsFiniteSet(S \union {x}) /\ (S \union {x}) \ {x} = S
  BY FS_AddElement
<1>2. SumFunctionOnSet(f, S \union {x}) = f[x] + SumFunctionOnSet(f, (S \union {x}) \ {x})
  BY <1>1, SumRemove
<1>3. SumFunctionOnSet(f, S) \in Int /\ f[x] \in Int
  BY SumInt
<1>4. SumFunctionOnSet(f, S \union {x}) = f[x] + SumFunctionOnSet(f, S)
  BY <1>1, <1>2
<1> QED BY <1>3, <1>4

\* A sum of natural numbers is one.
LEMMA SumNat ==
    ASSUME NEW f, NEW S, IsFiniteSet(S), \A x \in S : f[x] \in Nat
    PROVE  SumFunctionOnSet(f, S) \in Nat
<1> DEFINE Bad == {U \in SUBSET S : SumFunctionOnSet(f, U) \notin Nat}
<1> SUFFICES ASSUME Bad # {} PROVE FALSE
  OBVIOUS
<1>1. \A U \in Bad : IsFiniteSet(U) /\ U \subseteq S /\ SumFunctionOnSet(f, U) \notin Nat
  BY FS_Subset
<1>2. \A U \in SUBSET S : U \notin Bad => SumFunctionOnSet(f, U) \in Nat
  OBVIOUS
<1> HIDE DEF Bad
<1>3. PICK U \in Bad : \A V \in Bad : ~(Cardinality(V) < Cardinality(U))
  BY <1>1, SmallestSet
<1>4. U # {}
  BY <1>1, <1>3, SumEmpty
<1>5. Pick(U) \in U /\ f[Pick(U)] \in Nat
  BY <1>1, <1>3, <1>4, PickIn
<1>6. SumFunctionOnSet(f, U \ {Pick(U)}) \in Nat
  BY <1>1, <1>2, <1>3, <1>5, Smaller
<1>7. SumFunctionOnSet(f, U) = f[Pick(U)] + SumFunctionOnSet(f, U \ {Pick(U)})
  BY <1>1, <1>3, <1>4, SumPick
<1> QED BY <1>1, <1>3, <1>5, <1>6, <1>7

\* Zeros add up to zero.
LEMMA SumZero ==
    ASSUME NEW f, NEW S, IsFiniteSet(S), \A x \in S : f[x] = 0
    PROVE  SumFunctionOnSet(f, S) = 0
<1> DEFINE Bad == {U \in SUBSET S : SumFunctionOnSet(f, U) # 0}
<1> SUFFICES ASSUME Bad # {} PROVE FALSE
  OBVIOUS
<1>1. \A U \in Bad : IsFiniteSet(U) /\ U \subseteq S /\ SumFunctionOnSet(f, U) # 0
  BY FS_Subset
<1>2. \A U \in SUBSET S : U \notin Bad => SumFunctionOnSet(f, U) = 0
  OBVIOUS
<1> HIDE DEF Bad
<1>3. PICK U \in Bad : \A V \in Bad : ~(Cardinality(V) < Cardinality(U))
  BY <1>1, SmallestSet
<1>4. U # {}
  BY <1>1, <1>3, SumEmpty
<1>5. Pick(U) \in U /\ f[Pick(U)] = 0
  BY <1>1, <1>3, <1>4, PickIn
<1>6. SumFunctionOnSet(f, U \ {Pick(U)}) = 0
  BY <1>1, <1>2, <1>3, <1>5, Smaller
<1>7. SumFunctionOnSet(f, U) = f[Pick(U)] + SumFunctionOnSet(f, U \ {Pick(U)})
  BY <1>1, <1>3, <1>4, SumPick
<1> QED BY <1>1, <1>3, <1>5, <1>6, <1>7

\* Larger terms have a larger sum.
LEMMA SumMonotone ==
    ASSUME NEW S, IsFiniteSet(S), NEW f \in [S -> Int], NEW g \in [S -> Int],
           \A x \in S : f[x] <= g[x]
    PROVE  SumFunctionOnSet(f, S) <= SumFunctionOnSet(g, S)
<1> DEFINE F(U) == SumFunctionOnSet(f, U)
           G(U) == SumFunctionOnSet(g, U)
           Bad == {U \in SUBSET S : ~(F(U) <= G(U))}
<1> SUFFICES ASSUME Bad # {} PROVE FALSE
  OBVIOUS
<1>1. \A U \in Bad : IsFiniteSet(U) /\ U \subseteq S /\ ~(F(U) <= G(U))
  BY FS_Subset
<1>2. \A U \in SUBSET S : U \notin Bad => F(U) <= G(U)
  OBVIOUS
<1> HIDE DEF Bad
<1>3. PICK U \in Bad : \A V \in Bad : ~(Cardinality(V) < Cardinality(U))
  BY <1>1, SmallestSet
<1>4. U # {}
  <2>1. U = {} => F(U) = 0 /\ G(U) = 0
    BY SumEmpty
  <2> QED BY <1>1, <1>3, <2>1
<1> DEFINE x == Pick(U)
           V == U \ {x}
<1>5. x \in U /\ f[x] <= g[x] /\ f[x] \in Int /\ g[x] \in Int
  BY <1>1, <1>3, <1>4, PickIn
<1>6. F(V) <= G(V)
  BY <1>1, <1>2, <1>3, <1>5, Smaller
<1>7. F(U) = f[x] + F(V) /\ G(U) = g[x] + G(V)
  BY <1>1, <1>3, <1>4, SumPick
<1>8. F(V) \in Int /\ G(V) \in Int
  <2>1. IsFiniteSet(V) /\ \A y \in V : f[y] \in Int /\ g[y] \in Int
    BY <1>1, <1>3, <1>5, Smaller
  <2> QED BY <2>1, SumInt
<1> HIDE DEF F, G
<1> QED BY <1>1, <1>3, <1>5, <1>6, <1>7, <1>8

-----------------------------------------------------------------------------
(* The same for the sum of all values of a function.                       *)

\* The sum of a function is its sum over its domain.
LEMMA TotalOnSet ==
    ASSUME NEW S, NEW f, DOMAIN f = S
    PROVE  SumFunction(f) = SumFunctionOnSet(f, S)
BY DEF SumFunction

\* The total of natural numbers is one.
LEMMA TotalNat ==
    ASSUME NEW S, IsFiniteSet(S), NEW f \in [S -> Nat]
    PROVE  SumFunction(f) \in Nat
BY SumNat, TotalOnSet

\* One value changes.
LEMMA TotalUpdate ==
    ASSUME NEW S, IsFiniteSet(S), NEW f \in [S -> Nat], NEW g \in [S -> Nat],
           NEW x \in S, NEW d \in Int,
           \A y \in S : y # x => g[y] = f[y], g[x] = f[x] + d
    PROVE  SumFunction(g) = SumFunction(f) + d
<1>1. f \in [S -> Int] /\ g \in [S -> Int]
  OBVIOUS
<1>2. SumFunctionOnSet(g, S) = SumFunctionOnSet(f, S) + d
  BY <1>1, SumUpdate
<1> QED BY <1>2, TotalOnSet

\* All values grow.
LEMMA TotalMonotone ==
    ASSUME NEW S, IsFiniteSet(S), NEW f \in [S -> Nat], NEW g \in [S -> Nat],
           \A x \in S : f[x] <= g[x]
    PROVE  SumFunction(f) <= SumFunction(g)
<1>1. f \in [S -> Int] /\ g \in [S -> Int]
  OBVIOUS
<1>2. SumFunctionOnSet(f, S) <= SumFunctionOnSet(g, S)
  BY <1>1, SumMonotone
<1> QED BY <1>2, TotalOnSet

\* Multiplication by a natural number is monotone.
LEMMA TimesMonotone ==
    ASSUME NEW k \in Nat, NEW m \in Nat, NEW n \in Nat, m <= n
    PROVE  k * m <= k * n /\ k * m \in Nat /\ k * n \in Nat
<1>1. PICK d \in Nat : n = m + d
  <2>1. n - m \in Nat /\ n = m + (n - m)
    OBVIOUS
  <2> QED BY <2>1
<1>2. k * n = k * m + k * d
  BY <1>1
<1>3. k * m \in Nat /\ k * d \in Nat
  BY <1>1
<1> QED BY <1>2, <1>3

=============================================================================
