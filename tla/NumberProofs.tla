---------------------------- MODULE NumberProofs -----------------------------
(***************************************************************************)
(* Facts about numbers that the proofs share: division, least and greatest *)
(* elements, and sums of the values of a function over a finite set,       *)
(* SumFunctionOnSet of the community modules.  The queries of the pages    *)
(* and the statistics of the baselines job are such sums.                  *)
(***************************************************************************)
EXTENDS Integers, FiniteSets, Functions, FiniteSetTheorems, TLAPS
-----------------------------------------------------------------------------
(* Division by a positive number, whatever it is. *)
LEMMA DivNat ==
    ASSUME NEW a \in Nat, NEW d \in Nat \ {0}
    PROVE  a \div d \in Nat
OBVIOUS

LEMMA DivMono ==
    ASSUME NEW a \in Int, NEW b \in Int, a <= b, NEW d \in Nat \ {0}
    PROVE  a \div d <= b \div d
OBVIOUS

LEMMA DivStep ==
    ASSUME NEW a \in Int, NEW d \in Nat \ {0}
    PROVE  (a + d) \div d = (a \div d) + 1
OBVIOUS

LEMMA DivIs ==
    ASSUME NEW k \in Int, NEW d \in Nat \ {0}, NEW r \in 0 .. d - 1
    PROVE  (d * k + r) \div d = k /\ (d * k + r) % d = r
OBVIOUS

LEMMA DivMod ==
    ASSUME NEW a \in Int, NEW d \in Nat \ {0}
    PROVE  /\ a \div d \in Int /\ a % d \in 0 .. d - 1
           /\ a = d * (a \div d) + (a % d)
<1>1. a \div d \in Int
  OBVIOUS
<1>2. a % d \in Int
  OBVIOUS
<1>3. 0 <= a % d /\ a % d <= d - 1
  OBVIOUS
<1>4. a % d \in 0 .. d - 1
  BY <1>2, <1>3
<1>5. a = d * (a \div d) + (a % d)
  OBVIOUS
<1> QED
  BY <1>1, <1>4, <1>5

LEMMA DivAtLeast ==
    ASSUME NEW t \in Int, NEW k \in Int, NEW d \in Nat \ {0}
    PROVE  k <= t \div d <=> d * k <= t
<1> DEFINE q == t \div d
           r == t % d
<1>1. q \in Int /\ r \in 0 .. d - 1 /\ t = d * q + r
  BY DivMod
<1> HIDE DEF q, r
<1>2. k <= q => d * k <= t
  <2>1. k <= q => d * k <= d * q
    BY <1>1
  <2> QED
    BY <1>1, <2>1
<1>3. q < k => t < d * k
  <2>1. q < k => d * (q + 1) <= d * k
    BY <1>1
  <2>2. d * (q + 1) = d * q + d
    BY <1>1
  <2> QED
    BY <1>1, <2>1, <2>2
<1> QED
  BY <1>1, <1>2, <1>3 DEF q

(* A nonempty set of natural numbers has a least element. *)
LEMMA LeastNat ==
    ASSUME NEW S \in SUBSET Nat, S # {}
    PROVE  \E i \in S : \A j \in S : i <= j
<1> DEFINE R == {p \in Nat \X Nat : p[1] < p[2]}
<1>1. IsWellFoundedOn(R, Nat)
  BY NatLessThanWellFounded DEF OpToRel
<1>2. PICK i \in S : \A j \in S : ~(<<j, i>> \in R)
  <2> HIDE DEF R
  <2> QED BY <1>1, WFMin
<1>3. ASSUME NEW j \in S
      PROVE  i <= j
  <2>1. i \in Nat /\ j \in Nat
    BY <1>2
  <2>2. j < i => <<j, i>> \in R
    BY <2>1
  <2> HIDE DEF R
  <2> QED BY <1>2, <2>1, <2>2
<1> QED
  BY <1>2, <1>3

-----------------------------------------------------------------------------
(* g adds up f over the subsets of S, one element at a time. *)
Pick(s) == CHOOSE x \in s : TRUE
Adds(f, S, g) ==
    \A s \in SUBSET S :
        g[s] = IF s = {} THEN 0 ELSE f[Pick(s)] + g[s \ {Pick(s)}]
-----------------------------------------------------------------------------
(* Induction on the subsets of a finite set: C holds those with a property.*)
LEMMA SubsetInduction ==
    ASSUME NEW S, IsFiniteSet(S), NEW C \in SUBSET SUBSET S,
           \A T \in SUBSET S : (\A U \in SUBSET T : U # T => U \in C) => T \in C
    PROVE  \A T \in SUBSET S : T \in C
<1> DEFINE R == StrictSubsetOrdering(S)
           bad == (SUBSET S) \ C
<1>1. IsWellFoundedOn(R, SUBSET S)
  BY FS_StrictSubsetOrderingWellFounded, FS_FiniteSubsetsOfFinite
<1>2. ASSUME bad # {}
      PROVE  FALSE
  <2>1. PICK T \in bad : \A U \in bad : ~(<<U, T>> \in R)
    <3>1. bad \subseteq SUBSET S
      OBVIOUS
    <3> HIDE DEF R, bad
    <3> QED BY <1>1, <1>2, <3>1, WFMin
  <2>2. \A U \in SUBSET T : U # T => U \in C
    BY <2>1 DEF StrictSubsetOrdering
  <2> QED
    BY <2>1, <2>2
<1> QED
  BY <1>2

(* A nonempty finite set of integers has a greatest element. *)
LEMMA GreatestInt ==
    ASSUME NEW S \in SUBSET Int, IsFiniteSet(S), S # {}
    PROVE  \E i \in S : \A j \in S : j <= i
<1> DEFINE C == {T \in SUBSET S : T # {} => \E i \in T : \A j \in T : j <= i}
<1>1. ASSUME NEW T \in SUBSET S, \A U \in SUBSET T : U # T => U \in C, T # {}
      PROVE  \E i \in T : \A j \in T : j <= i
  <2>1. PICK x \in T : TRUE
    BY <1>1
  <2> DEFINE U == T \ {x}
  <2>2. U \in C
    BY <1>1, <2>1
  <2>3. CASE U = {}
    BY <2>3
  <2>4. CASE U # {}
    <3>1. PICK i \in U : \A j \in U : j <= i
      BY <2>2, <2>4
    <3>2. \A j \in T : j \in Int /\ (j = x \/ j \in U)
      OBVIOUS
    <3>3. CASE x <= i
      BY <3>1, <3>2, <3>3
    <3>4. CASE ~(x <= i)
      BY <3>1, <3>2, <3>4
    <3> QED
      BY <3>3, <3>4
  <2> QED
    BY <2>3, <2>4
<1>2. C \in SUBSET SUBSET S
  OBVIOUS
<1>3. \A T \in SUBSET S : (\A U \in SUBSET T : U # T => U \in C) => T \in C
  BY <1>1
<1>4. \A T \in SUBSET S : T \in C
  <2> HIDE DEF C
  <2> QED BY <1>2, <1>3, SubsetInduction
<1> QED
  BY <1>4

LEMMA PickIn ==
    ASSUME NEW s, s # {}
    PROVE  Pick(s) \in s
BY DEF Pick

(* Two ways to add up agree where both do. *)
LEMMA AddsAgree ==
    ASSUME NEW f, NEW S, IsFiniteSet(S), NEW g, NEW h,
           Adds(f, S, g), Adds(f, S, h)
    PROVE  g[S] = h[S]
<1> DEFINE C == {T \in SUBSET S : g[T] = h[T]}
<1>1. ASSUME NEW T \in SUBSET S, \A U \in SUBSET T : U # T => U \in C
      PROVE  T \in C
  <2>1. CASE T = {}
    BY <2>1 DEF Adds
  <2>2. CASE T # {}
    <3> DEFINE U == T \ {Pick(T)}
    <3>1. U \in SUBSET T /\ U # T
      BY <2>2, PickIn
    <3>2. g[U] = h[U]
      BY <1>1, <3>1
    <3>3. g[T] = f[Pick(T)] + g[U] /\ h[T] = f[Pick(T)] + h[U]
      BY <2>2 DEF Adds
    <3> QED
      BY <3>2, <3>3
  <2> QED
    BY <2>1, <2>2
<1>2. \A T \in SUBSET S : T \in C
  <2> HIDE DEF C
  <2>1. C \in SUBSET SUBSET S
    BY DEF C
  <2> QED
    BY <1>1, <2>1, SubsetInduction
<1> QED
  BY <1>2

LEMMA AddsLess ==
    ASSUME NEW f, NEW S, NEW T \in SUBSET S, NEW g, Adds(f, S, g)
    PROVE  Adds(f, T, g)
BY DEF Adds

(* There is a way. *)
LEMMA AddsExists ==
    ASSUME NEW f, NEW S, IsFiniteSet(S)
    PROVE  \E g : Adds(f, S, g)
<1> DEFINE C == {T \in SUBSET S : \E g : Adds(f, T, g)}
           G(T) == CHOOSE g : Adds(f, T, g)
           rest(s) == s \ {Pick(s)}
           val(s) == IF s = {} THEN 0 ELSE f[Pick(s)] + G(rest(s))[rest(s)]
<1>1. ASSUME NEW T \in SUBSET S, \A U \in SUBSET T : U # T => U \in C
      PROVE  Adds(f, T, [s \in SUBSET T |-> val(s)])
  <2> DEFINE h == [s \in SUBSET T |-> val(s)]
  <2>1. \A U \in SUBSET T : U # T => Adds(f, U, G(U))
    BY <1>1
  <2>2. ASSUME NEW U \in SUBSET T, U # T
        PROVE  G(U)[U] = val(U)
    <3>1. CASE U = {}
      <4>1. Adds(f, U, G(U)) /\ U \in SUBSET U
        BY <2>1, <2>2
      <4> HIDE DEF G
      <4> QED BY <3>1, <4>1 DEF Adds
    <3>2. CASE U # {}
      <4>1. rest(U) \in SUBSET U /\ rest(U) # T /\ U \in SUBSET U
        BY <2>2
      <4>2. Adds(f, U, G(U)) /\ Adds(f, rest(U), G(rest(U)))
        BY <2>1, <2>2, <4>1
      <4>3. IsFiniteSet(rest(U))
        BY <4>1, FS_Subset
      <4> HIDE DEF G
      <4>4. G(U)[U] = f[Pick(U)] + G(U)[rest(U)]
        BY <3>2, <4>1, <4>2 DEF Adds
      <4>5. Adds(f, rest(U), G(U))
        BY <4>1, <4>2, AddsLess
      <4> HIDE DEF rest
      <4>6. G(U)[rest(U)] = G(rest(U))[rest(U)]
        BY <4>2, <4>3, <4>5, AddsAgree
      <4> QED
        BY <3>2, <4>4, <4>6
    <3> QED
      BY <3>1, <3>2
  <2>3. ASSUME NEW s \in SUBSET T
        PROVE  h[s] = IF s = {} THEN 0 ELSE f[Pick(s)] + h[rest(s)]
    <3>1. CASE s = {}
      BY <3>1
    <3>2. CASE s # {}
      <4>1. rest(s) \in SUBSET T /\ rest(s) # T
        BY <3>2, PickIn
      <4> HIDE DEF rest, G
      <4>2. h[rest(s)] = G(rest(s))[rest(s)]
        <5> HIDE DEF val
        <5> QED BY <2>2, <4>1
      <4> QED
        BY <3>2, <4>2
    <3> QED
      BY <3>1, <3>2
  <2> HIDE DEF h
  <2> QED
    BY <2>3 DEF Adds, h
<1>2. \A T \in SUBSET S : T \in C
  <2> HIDE DEF val
  <2>1. \A T \in SUBSET S : (\A U \in SUBSET T : U # T => U \in C) => T \in C
    BY <1>1
  <2>2. C \in SUBSET SUBSET S
    OBVIOUS
  <2> HIDE DEF C
  <2> QED
    BY <2>1, <2>2, SubsetInduction
<1>3. Adds(f, S, [s \in SUBSET S |-> val(s)])
  <2> HIDE DEF val, C
  <2> QED BY <1>1, <1>2
<1> HIDE DEF val
<1> QED
  BY <1>3

(* The sum is what any way of adding up gives. *)
LEMMA SumIs ==
    ASSUME NEW f, NEW S, IsFiniteSet(S), NEW g, Adds(f, S, g)
    PROVE  SumFunctionOnSet(f, S) = g[S]
<1> DEFINE F(p) == [s \in SUBSET S |->
              IF s = {} THEN 0 ELSE LET x == CHOOSE x \in s : TRUE IN f[x] + p[s \ {x}]]
           it == CHOOSE p : p = F(p)
<1>1. SumFunctionOnSet(f, S) = it[S]
  BY Zenon DEF SumFunctionOnSet, FoldFunctionOnSet, MapThenFoldSet
<1>2. PICK h : Adds(f, S, h)
  BY AddsExists
<1>3. \E p : p = F(p)
  <2> DEFINE k == [s \in SUBSET S |-> h[s]]
  <2>1. \A s \in SUBSET S : k[s] = F(k)[s]
    BY <1>2, PickIn DEF Adds, Pick
  <2>2. k = F(k)
    <3> HIDE DEF k
    <3>1. k = [s \in SUBSET S |-> k[s]]
      BY DEF k
    <3> QED BY <2>1, <3>1
  <2> QED BY <2>2
<1>4. it = F(it)
  <2> HIDE DEF F
  <2> QED BY <1>3
<1>5. Adds(f, S, it)
  <2> HIDE DEF it
  <2> QED BY <1>4 DEF Adds, Pick
<1> HIDE DEF it
<1> QED
  BY <1>1, <1>5, AddsAgree
-----------------------------------------------------------------------------
LEMMA SumEmpty ==
    ASSUME NEW f
    PROVE  SumFunctionOnSet(f, {}) = 0
<1>1. IsFiniteSet({})
  BY FS_EmptySet
<1>2. PICK g : Adds(f, {}, g)
  BY <1>1, AddsExists
<1>3. SumFunctionOnSet(f, {}) = g[{}]
  BY <1>1, <1>2, SumIs
<1> QED
  BY <1>2, <1>3 DEF Adds

LEMMA SumPick ==
    ASSUME NEW f, NEW S, IsFiniteSet(S), S # {}
    PROVE  /\ Pick(S) \in S
           /\ SumFunctionOnSet(f, S) = f[Pick(S)] + SumFunctionOnSet(f, S \ {Pick(S)})
<1> DEFINE T == S \ {Pick(S)}
<1>1. PICK g : Adds(f, S, g)
  BY AddsExists
<1>2. Adds(f, T, g) /\ IsFiniteSet(T)
  BY <1>1, AddsLess, FS_Subset
<1>3. SumFunctionOnSet(f, S) = g[S]
  BY <1>1, SumIs
<1>4. SumFunctionOnSet(f, T) = g[T]
  <2> HIDE DEF T
  <2> QED BY <1>2, SumIs
<1>5. g[S] = f[Pick(S)] + g[T]
  BY <1>1 DEF Adds
<1> QED
  BY <1>3, <1>4, <1>5, PickIn

LEMMA SumInt ==
    ASSUME NEW f, NEW S, IsFiniteSet(S), \A x \in S : f[x] \in Int
    PROVE  SumFunctionOnSet(f, S) \in Int
<1> DEFINE C == {T \in SUBSET S : SumFunctionOnSet(f, T) \in Int}
<1>1. ASSUME NEW T \in SUBSET S, \A U \in SUBSET T : U # T => U \in C
      PROVE  T \in C
  <2>1. CASE T = {}
    BY <2>1, SumEmpty
  <2>2. CASE T # {}
    <3>1. IsFiniteSet(T)
      BY FS_Subset
    <3>2. /\ Pick(T) \in T
          /\ SumFunctionOnSet(f, T) = f[Pick(T)] + SumFunctionOnSet(f, T \ {Pick(T)})
      BY <2>2, <3>1, SumPick
    <3>3. SumFunctionOnSet(f, T \ {Pick(T)}) \in Int
      BY <1>1, <3>2
    <3> QED
      BY <3>2, <3>3
  <2> QED
    BY <2>1, <2>2
<1>2. C \in SUBSET SUBSET S
  OBVIOUS
<1>3. \A T \in SUBSET S : T \in C
  <2> HIDE DEF C
  <2> QED BY <1>1, <1>2, SubsetInduction
<1> QED
  BY <1>3

LEMMA SumNat ==
    ASSUME NEW f, NEW S, IsFiniteSet(S), \A x \in S : f[x] \in Nat
    PROVE  SumFunctionOnSet(f, S) \in Nat
<1> DEFINE C == {T \in SUBSET S : SumFunctionOnSet(f, T) \in Nat}
<1>1. ASSUME NEW T \in SUBSET S, \A U \in SUBSET T : U # T => U \in C
      PROVE  T \in C
  <2>1. CASE T = {}
    BY <2>1, SumEmpty
  <2>2. CASE T # {}
    <3>1. IsFiniteSet(T)
      BY FS_Subset
    <3>2. /\ Pick(T) \in T
          /\ SumFunctionOnSet(f, T) = f[Pick(T)] + SumFunctionOnSet(f, T \ {Pick(T)})
      BY <2>2, <3>1, SumPick
    <3>3. SumFunctionOnSet(f, T \ {Pick(T)}) \in Nat
      BY <1>1, <3>2
    <3> QED
      BY <3>2, <3>3
  <2> QED
    BY <2>1, <2>2
<1>2. C \in SUBSET SUBSET S
  OBVIOUS
<1>3. \A T \in SUBSET S : T \in C
  <2> HIDE DEF C
  <2> QED BY <1>1, <1>2, SubsetInduction
<1> QED
  BY <1>3

(* Only the values on the set count. *)
LEMMA SumSame ==
    ASSUME NEW f, NEW h, NEW S, IsFiniteSet(S), \A x \in S : f[x] = h[x]
    PROVE  SumFunctionOnSet(f, S) = SumFunctionOnSet(h, S)
<1> DEFINE C == {T \in SUBSET S : SumFunctionOnSet(f, T) = SumFunctionOnSet(h, T)}
<1>1. ASSUME NEW T \in SUBSET S, \A U \in SUBSET T : U # T => U \in C
      PROVE  T \in C
  <2>1. CASE T = {}
    BY <2>1, SumEmpty
  <2>2. CASE T # {}
    <3>1. IsFiniteSet(T)
      BY FS_Subset
    <3>2. /\ Pick(T) \in T
          /\ SumFunctionOnSet(f, T) = f[Pick(T)] + SumFunctionOnSet(f, T \ {Pick(T)})
          /\ SumFunctionOnSet(h, T) = h[Pick(T)] + SumFunctionOnSet(h, T \ {Pick(T)})
      BY <2>2, <3>1, SumPick
    <3>3. SumFunctionOnSet(f, T \ {Pick(T)}) = SumFunctionOnSet(h, T \ {Pick(T)})
      BY <1>1, <3>2
    <3> QED
      BY <3>2, <3>3
  <2> QED
    BY <2>1, <2>2
<1>2. C \in SUBSET SUBSET S
  OBVIOUS
<1>3. \A T \in SUBSET S : T \in C
  <2> HIDE DEF C
  <2> QED BY <1>1, <1>2, SubsetInduction
<1> QED
  BY <1>3

(* Any element may be taken first. *)
LEMMA SumRemove ==
    ASSUME NEW f, NEW S, IsFiniteSet(S), \A x \in S : f[x] \in Int, NEW x \in S
    PROVE  SumFunctionOnSet(f, S) = f[x] + SumFunctionOnSet(f, S \ {x})
<1> DEFINE sum(T) == SumFunctionOnSet(f, T)
           C == {T \in SUBSET S : \A y \in T : sum(T) = f[y] + sum(T \ {y})}
<1>0. \A T \in SUBSET S : IsFiniteSet(T) /\ sum(T) \in Int
  <2>1. ASSUME NEW T \in SUBSET S
        PROVE  IsFiniteSet(T) /\ sum(T) \in Int
    <3>1. IsFiniteSet(T)
      BY FS_Subset
    <3> QED
      BY <3>1, SumInt
  <2> QED
    BY <2>1
<1>1. ASSUME NEW T \in SUBSET S, \A U \in SUBSET T : U # T => U \in C
      PROVE  T \in C
  <2>1. ASSUME NEW y \in T
        PROVE  sum(T) = f[y] + sum(T \ {y})
    <3> DEFINE p == Pick(T)
    <3>1. p \in T /\ sum(T) = f[p] + sum(T \ {p})
      BY <1>0, SumPick
    <3>2. CASE y = p
      BY <3>1, <3>2
    <3>3. CASE y # p
      <4> HIDE DEF p, sum
      <4>1. T \ {p} \in C /\ T \ {y} \in C
        BY <1>1, <3>1
      <4>2. y \in T \ {p} /\ p \in T \ {y}
        BY <3>1, <3>3
      <4>3. sum(T \ {p}) = f[y] + sum((T \ {p}) \ {y})
        BY <4>1, <4>2
      <4>4. sum(T \ {y}) = f[p] + sum((T \ {y}) \ {p})
        BY <4>1, <4>2
      <4>5. (T \ {p}) \ {y} = (T \ {y}) \ {p}
        OBVIOUS
      <4>6. sum((T \ {p}) \ {y}) = sum((T \ {y}) \ {p})
        BY <4>5
      <4>7. f[p] \in Int /\ f[y] \in Int
        BY <3>1
      <4>8. sum((T \ {y}) \ {p}) \in Int
        BY <1>0
      <4> QED
        BY <3>1, <4>3, <4>4, <4>6, <4>7, <4>8
    <3> QED
      BY <3>2, <3>3
  <2> QED
    BY <2>1
<1>2. C \in SUBSET SUBSET S
  OBVIOUS
<1>3. \A T \in SUBSET S : T \in C
  <2> HIDE DEF C
  <2> QED BY <1>1, <1>2, SubsetInduction
<1> QED
  BY <1>3

LEMMA SumSingleton ==
    ASSUME NEW f, NEW x, f[x] \in Int
    PROVE  SumFunctionOnSet(f, {x}) = f[x]
<1>1. IsFiniteSet({x})
  BY FS_Singleton
<1>2. SumFunctionOnSet(f, {x}) = f[x] + SumFunctionOnSet(f, {x} \ {x})
  BY <1>1, SumRemove
<1>3. {x} \ {x} = {}
  OBVIOUS
<1> QED
  BY <1>2, <1>3, SumEmpty

(* Sums over disjoint sets add up. *)
LEMMA SumUnion ==
    ASSUME NEW f, NEW S, IsFiniteSet(S), \A x \in S : f[x] \in Int,
           NEW A \in SUBSET S, NEW B \in SUBSET S, A \cap B = {}
    PROVE  SumFunctionOnSet(f, A \cup B) = SumFunctionOnSet(f, A) + SumFunctionOnSet(f, B)
<1> DEFINE sum(T) == SumFunctionOnSet(f, T)
           C == {T \in SUBSET A : sum(T \cup B) = sum(T) + sum(B)}
<1>0. \A T \in SUBSET S : IsFiniteSet(T) /\ sum(T) \in Int
  <2>1. ASSUME NEW T \in SUBSET S
        PROVE  IsFiniteSet(T) /\ sum(T) \in Int
    <3>1. IsFiniteSet(T)
      BY FS_Subset
    <3> QED
      BY <3>1, SumInt
  <2> QED
    BY <2>1
<1>1. ASSUME NEW T \in SUBSET A, \A U \in SUBSET T : U # T => U \in C
      PROVE  T \in C
  <2>1. CASE T = {}
    <3>1. sum(T) = 0 /\ T \cup B = B
      BY <2>1, SumEmpty
    <3>2. sum(B) \in Int
      BY <1>0
    <3>3. sum(T \cup B) = sum(B)
      BY <3>1
    <3> HIDE DEF sum
    <3> QED
      BY <3>1, <3>2, <3>3
  <2>2. CASE T # {}
    <3>1. PICK y \in T : TRUE
      BY <2>2
    <3> DEFINE U == T \ {y}
    <3>2. U \in C
      BY <1>1, <3>1
    <3>3. sum(T) = f[y] + sum(U)
      <4>1. IsFiniteSet(T) /\ \A x \in T : f[x] \in Int
        BY <1>0
      <4> QED BY <4>1, SumRemove
    <3>4. sum(T \cup B) = f[y] + sum(U \cup B)
      <4>1. IsFiniteSet(T \cup B) /\ \A x \in T \cup B : f[x] \in Int
        BY <1>0
      <4>2. (T \cup B) \ {y} = U \cup B /\ y \in T \cup B
        BY <3>1
      <4>3. sum(T \cup B) = f[y] + sum((T \cup B) \ {y})
        BY <4>1, <4>2, SumRemove
      <4> QED BY <4>2, <4>3
    <3>5. f[y] \in Int /\ sum(U) \in Int /\ sum(B) \in Int
      BY <1>0
    <3> HIDE DEF sum, U
    <3> QED
      BY <3>2, <3>3, <3>4, <3>5
  <2> QED
    BY <2>1, <2>2
<1>2. C \in SUBSET SUBSET A
  OBVIOUS
<1>3. \A T \in SUBSET A : T \in C
  <2>1. IsFiniteSet(A)
    BY <1>0
  <2> HIDE DEF C
  <2> QED BY <1>1, <1>2, <2>1, SubsetInduction
<1> QED
  BY <1>3

LEMMA SumMonotone ==
    ASSUME NEW f, NEW S, IsFiniteSet(S), \A x \in S : f[x] \in Nat, NEW A \in SUBSET S
    PROVE  SumFunctionOnSet(f, A) <= SumFunctionOnSet(f, S)
<1> DEFINE B == S \ A
<1>1. IsFiniteSet(A) /\ IsFiniteSet(B)
  BY FS_Subset
<1>2. SumFunctionOnSet(f, A) \in Nat /\ SumFunctionOnSet(f, B) \in Nat
  BY <1>1, SumNat
<1>3. SumFunctionOnSet(f, A \cup B) = SumFunctionOnSet(f, A) + SumFunctionOnSet(f, B)
  BY SumUnion
<1>4. SumFunctionOnSet(f, A \cup B) = SumFunctionOnSet(f, S)
  <2>1. A \cup B = S
    OBVIOUS
  <2> QED BY <2>1
<1> DEFINE a == SumFunctionOnSet(f, A)
           b == SumFunctionOnSet(f, B)
           c == SumFunctionOnSet(f, S)
<1>5. a \in Nat /\ b \in Nat /\ c = a + b
  BY <1>2, <1>3, <1>4
<1> HIDE DEF a, b, c
<1>6. a <= c
  BY <1>5
<1> QED
  BY <1>6 DEF a, c

(* Zeros do not count. *)
LEMMA SumZeros ==
    ASSUME NEW f, NEW S, IsFiniteSet(S), \A x \in S : f[x] \in Int,
           NEW A \in SUBSET S, \A x \in S \ A : f[x] = 0
    PROVE  SumFunctionOnSet(f, S) = SumFunctionOnSet(f, A)
<1> DEFINE B == S \ A
           C == {T \in SUBSET B : SumFunctionOnSet(f, T) = 0}
<1>1. ASSUME NEW T \in SUBSET B, \A U \in SUBSET T : U # T => U \in C
      PROVE  T \in C
  <2>1. CASE T = {}
    BY <2>1, SumEmpty
  <2>2. CASE T # {}
    <3>1. IsFiniteSet(T)
      BY FS_Subset
    <3>2. /\ Pick(T) \in T
          /\ SumFunctionOnSet(f, T) = f[Pick(T)] + SumFunctionOnSet(f, T \ {Pick(T)})
      BY <2>2, <3>1, SumPick
    <3>3. SumFunctionOnSet(f, T \ {Pick(T)}) = 0
      BY <1>1, <3>2
    <3> QED
      BY <3>2, <3>3
  <2> QED
    BY <2>1, <2>2
<1>2. C \in SUBSET SUBSET B /\ IsFiniteSet(B) /\ IsFiniteSet(A)
  BY FS_Subset
<1>3. \A T \in SUBSET B : T \in C
  <2> HIDE DEF C, B
  <2> QED BY <1>1, <1>2, SubsetInduction
<1>4. SumFunctionOnSet(f, B) = 0 /\ SumFunctionOnSet(f, A \cup B) = SumFunctionOnSet(f, S)
  <2>1. A \cup B = S /\ B \in SUBSET B
    OBVIOUS
  <2> QED BY <1>3, <2>1
<1>5. SumFunctionOnSet(f, A \cup B) = SumFunctionOnSet(f, A) + SumFunctionOnSet(f, B)
  BY SumUnion
<1>6. SumFunctionOnSet(f, A) \in Int
  BY <1>2, SumInt
<1> DEFINE a == SumFunctionOnSet(f, A)
           b == SumFunctionOnSet(f, B)
           c == SumFunctionOnSet(f, S)
<1>7. a \in Int /\ b = 0 /\ c = a + b
  BY <1>4, <1>5, <1>6
<1> HIDE DEF a, b, c
<1>8. c = a
  BY <1>7
<1> QED
  BY <1>8 DEF a, c

(* The elements with a key, or one of some keys. *)
Having(S, K, k) == {i \in S : K[i] = k}
HavingAny(S, K, D) == {i \in S : K[i] \in D}
KeysOf(S, K) == {K[i] : i \in S}

(* Sums by key add up to the sum: a page that groups loses nothing, as     *)
(* long as it shows every key there is.                                    *)
LEMMA SumGroups ==
    ASSUME NEW f, NEW S, IsFiniteSet(S), \A i \in S : f[i] \in Int,
           NEW K, NEW D, IsFiniteSet(D), \A i \in S : K[i] \in D,
           NEW g, \A k \in D : g[k] = SumFunctionOnSet(f, Having(S, K, k))
    PROVE  SumFunctionOnSet(g, D) = SumFunctionOnSet(f, S)
<1> DEFINE sum(T) == SumFunctionOnSet(f, T)
           of(E) == {i \in S : K[i] \in E}
           C == {E \in SUBSET D : SumFunctionOnSet(g, E) = sum(of(E))}
<1>0. \A T \in SUBSET S : sum(T) \in Int
  <2>1. ASSUME NEW T \in SUBSET S
        PROVE  sum(T) \in Int
    <3>1. IsFiniteSet(T)
      BY FS_Subset
    <3> QED
      BY <3>1, SumInt
  <2> QED
    BY <2>1
<1>1. ASSUME NEW E \in SUBSET D, \A U \in SUBSET E : U # E => U \in C
      PROVE  E \in C
  <2>1. CASE E = {}
    <3>1. of(E) = {}
      BY <2>1
    <3> QED
      BY <2>1, <3>1, SumEmpty
  <2>2. CASE E # {}
    <3>1. IsFiniteSet(E)
      BY FS_Subset
    <3> DEFINE p == Pick(E)
               U == E \ {p}
               one == {i \in S : K[i] = p}
    <3>2. p \in E /\ SumFunctionOnSet(g, E) = g[p] + SumFunctionOnSet(g, U)
      BY <2>2, <3>1, SumPick
    <3> HIDE DEF p
    <3>3. SumFunctionOnSet(g, U) = sum(of(U))
      BY <1>1, <3>2
    <3>4. g[p] = sum(one)
      BY <3>2 DEF Having
    <3>5. one \cup of(U) = of(E) /\ one \cap of(U) = {}
      BY <3>2
    <3>6. one \in SUBSET S /\ of(U) \in SUBSET S
      OBVIOUS
    <3> HIDE DEF one, of
    <3>7. sum(one \cup of(U)) = sum(one) + sum(of(U))
      <4> DEFINE o == of(U)
      <4>1. one \in SUBSET S /\ o \in SUBSET S /\ one \cap o = {}
        BY <3>5, <3>6
      <4> HIDE DEF o
      <4>2. SumFunctionOnSet(f, one \cup o) = SumFunctionOnSet(f, one) + SumFunctionOnSet(f, o)
        BY <4>1, SumUnion
      <4> QED BY <4>2 DEF o
    <3> HIDE DEF U, sum
    <3>8. SumFunctionOnSet(g, E) = sum(of(E))
      BY <3>2, <3>3, <3>4, <3>5, <3>7
    <3> QED
      BY <3>8
  <2> QED
    BY <2>1, <2>2
<1>2. C \in SUBSET SUBSET D
  OBVIOUS
<1>3. \A E \in SUBSET D : E \in C
  <2> HIDE DEF C
  <2> QED BY <1>1, <1>2, SubsetInduction
<1>4. of(D) = S
  OBVIOUS
<1>5. D \in C
  <2> HIDE DEF C
  <2> QED BY <1>3
<1> HIDE DEF of
<1> QED
  BY <1>4, <1>5

(* Larger values have the larger sum. *)
LEMMA SumOfLarger ==
    ASSUME NEW f, NEW h, NEW S, IsFiniteSet(S),
           \A x \in S : f[x] \in Int /\ h[x] \in Int /\ f[x] <= h[x]
    PROVE  SumFunctionOnSet(f, S) <= SumFunctionOnSet(h, S)
<1> DEFINE C == {T \in SUBSET S : SumFunctionOnSet(f, T) <= SumFunctionOnSet(h, T)}
<1>1. ASSUME NEW T \in SUBSET S, \A U \in SUBSET T : U # T => U \in C
      PROVE  T \in C
  <2>1. CASE T = {}
    BY <2>1, SumEmpty
  <2>2. CASE T # {}
    <3> DEFINE U == T \ {Pick(T)}
    <3>1. IsFiniteSet(T) /\ IsFiniteSet(U)
      BY FS_Subset
    <3>2. /\ Pick(T) \in T
          /\ SumFunctionOnSet(f, T) = f[Pick(T)] + SumFunctionOnSet(f, U)
          /\ SumFunctionOnSet(h, T) = h[Pick(T)] + SumFunctionOnSet(h, U)
      BY <2>2, <3>1, SumPick
    <3>3. SumFunctionOnSet(f, U) <= SumFunctionOnSet(h, U)
      BY <1>1, <3>2
    <3>4. SumFunctionOnSet(f, U) \in Int /\ SumFunctionOnSet(h, U) \in Int
      BY <3>1, SumInt
    <3> HIDE DEF U
    <3> QED
      BY <3>2, <3>3, <3>4
  <2> QED
    BY <2>1, <2>2
<1>2. C \in SUBSET SUBSET S
  OBVIOUS
<1>3. \A T \in SUBSET S : T \in C
  <2> HIDE DEF C
  <2> QED BY <1>1, <1>2, SubsetInduction
<1> QED
  BY <1>3

(* What is c at least for each is c times their number at least for all.   *)
LEMMA SumAtLeast ==
    ASSUME NEW f, NEW h, NEW S, IsFiniteSet(S), NEW c \in Nat,
           \A x \in S : f[x] \in Int /\ h[x] \in Int /\ f[x] + h[x] >= c
    PROVE  SumFunctionOnSet(f, S) + SumFunctionOnSet(h, S) >= c * Cardinality(S)
<1> DEFINE C == {T \in SUBSET S :
                    SumFunctionOnSet(f, T) + SumFunctionOnSet(h, T) >= c * Cardinality(T)}
<1>1. ASSUME NEW T \in SUBSET S, \A U \in SUBSET T : U # T => U \in C
      PROVE  T \in C
  <2>1. CASE T = {}
    <3>1. Cardinality(T) = 0
      BY <2>1, FS_EmptySet
    <3> QED
      BY <2>1, <3>1, SumEmpty
  <2>2. CASE T # {}
    <3> DEFINE U == T \ {Pick(T)}
    <3>1. IsFiniteSet(T) /\ IsFiniteSet(U)
      BY FS_Subset
    <3>2. /\ Pick(T) \in T
          /\ SumFunctionOnSet(f, T) = f[Pick(T)] + SumFunctionOnSet(f, U)
          /\ SumFunctionOnSet(h, T) = h[Pick(T)] + SumFunctionOnSet(h, U)
      BY <2>2, <3>1, SumPick
    <3>3. SumFunctionOnSet(f, U) + SumFunctionOnSet(h, U) >= c * Cardinality(U)
      BY <1>1, <3>2
    <3>4. SumFunctionOnSet(f, U) \in Int /\ SumFunctionOnSet(h, U) \in Int
      BY <3>1, SumInt
    <3>5. Cardinality(T) = Cardinality(U) + 1 /\ Cardinality(U) \in Nat
      BY <3>1, <3>2, FS_RemoveElement, FS_CardinalityType
    <3> DEFINE n == Cardinality(U)
               m == c * n
    <3>6. c * Cardinality(T) = m + c /\ m \in Nat
      BY <3>5
    <3> HIDE DEF m, U
    <3>7. SumFunctionOnSet(f, T) + SumFunctionOnSet(h, T) >= m + c
      BY <3>2, <3>3, <3>4, <3>6 DEF m
    <3> QED
      BY <3>6, <3>7
  <2> QED
    BY <2>1, <2>2
<1>2. C \in SUBSET SUBSET S
  OBVIOUS
<1>3. \A T \in SUBSET S : T \in C
  <2> HIDE DEF C
  <2> QED BY <1>1, <1>2, SubsetInduction
<1> QED
  BY <1>3
=============================================================================
