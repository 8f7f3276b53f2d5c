-------------------------- MODULE SumsAndEstimates --------------------------
(***************************************************************************)
(* Numbers, sums over finite sets, and the estimate: what the proofs about *)
(* several components rest on.  Induction is stated for a set instead of a *)
(* predicate, a form that first-order provers can apply.                   *)
(***************************************************************************)
EXTENDS Estimation, Functions, FiniteSetTheorems, TLAPS

(***************************************************************************)
(* Smallest and largest numbers, and induction.                            *)
(***************************************************************************)

\* A set of numbers that is not empty has a smallest element.
LEMMA SmallestOf ==
    ASSUME NEW S \in SUBSET Nat, S # {}
    PROVE  \E m \in S : \A n \in S : m <= n
<1>1. PICK m \in S : \A n \in S : ~ (<<n, m>> \in OpToRel(<, Nat))
  BY WFMin, NatLessThanWellFounded
<1>2. \A n \in S : ~ (n < m)
  BY <1>1 DEF OpToRel
<1>. QED
  BY <1>2

\* A bounded set of numbers that is not empty has a largest element.
LEMMA LargestOf ==
    ASSUME NEW bound \in Nat, NEW S \in SUBSET (0 .. bound), S # {}
    PROVE  \E m \in S : \A n \in S : n <= m
<1> DEFINE R == {k \in Nat : bound - k \in S}
<1>1. R # {}
  <2>1. PICK n \in S : TRUE
    OBVIOUS
  <2>2. bound - n \in Nat /\ bound - (bound - n) = n
    BY <2>1
  <2>. QED
    BY <2>1, <2>2
<1>2. PICK k \in R : \A j \in R : k <= j
  BY <1>1, SmallestOf
<1>3. bound - k \in S
  OBVIOUS
<1>4. ASSUME NEW n \in S
      PROVE  n <= bound - k
  <2>1. bound - n \in Nat /\ bound - (bound - n) = n
    OBVIOUS
  <2>2. k <= bound - n
    BY <1>2, <2>1
  <2>. QED
    BY <2>2
<1>. QED
  BY <1>3, <1>4

\* Induction over the natural numbers.
LEMMA NatSetInduction ==
    ASSUME NEW A, 0 \in A, \A n \in Nat : n \in A => n + 1 \in A
    PROVE  Nat \subseteq A
<1>1. SUFFICES ASSUME Nat \ A # {} PROVE FALSE
  OBVIOUS
<1>2. PICK n \in Nat \ A : \A m \in Nat \ A : n <= m
  BY <1>1, SmallestOf
<1>3. n # 0 /\ n - 1 \in Nat /\ n - 1 \in A
  BY <1>2
<1>. QED
  BY <1>3

\* Induction over the subsets of a finite set.
LEMMA FiniteSetInduction ==
    ASSUME NEW S, IsFiniteSet(S), NEW A, {} \in A,
           \A T \in SUBSET S : \A x \in S \ T : T \in A => T \cup {x} \in A
    PROVE  S \in A
<1>1. SUFFICES ASSUME S \notin A PROVE FALSE
  OBVIOUS
<1> DEFINE Missing == (SUBSET S) \ A
<1>2. PICK T \in Missing :
         \A U \in Missing : ~(<<U, T>> \in StrictSubsetOrdering(S))
  <2>1. IsWellFoundedOn(StrictSubsetOrdering(S), FiniteSubsetsOf(S))
    BY FS_StrictSubsetOrderingWellFounded
  <2>2. Missing \subseteq FiniteSubsetsOf(S) /\ Missing # {}
    BY <1>1, FS_FiniteSubsetsOfFinite
  <2>. QED
    BY <2>1, <2>2, WFMin, Zenon
<1>3. PICK x : x \in T
  OBVIOUS
<1>4. T \ {x} \in A
  <2>1. <<T \ {x}, T>> \in StrictSubsetOrdering(S)
    BY <1>3 DEF StrictSubsetOrdering
  <2>. QED
    BY <1>2, <2>1
<1>5. (T \ {x}) \cup {x} = T
  BY <1>3
<1>. QED
  BY <1>3, <1>4, <1>5

\* A quotient is as large as its dividend makes it.
LEMMA QuotientAtLeast ==
  ASSUME NEW d \in Nat \ {0}, NEW n \in Nat, NEW k \in Nat, k * d <= n
  PROVE  n \div d >= k
<1> DEFINE q == n \div d
           r == n % d
<1>1. q \in Int /\ r \in 0 .. (d - 1) /\ n = d * q + r
  OBVIOUS
<1> HIDE DEF q, r
<1>2. ASSUME q < k
      PROVE  FALSE
  <2>1. q + 1 <= k
    BY <1>1, <1>2
  <2>2. d * (q + 1) <= d * k
    BY <1>1, <2>1
  <2>3. d * (q + 1) = d * q + d /\ d * k = k * d
    BY <1>1
  <2> QED
    BY <1>1, <2>2, <2>3
<1> QED
  BY <1>1, <1>2 DEF q

(***************************************************************************)
(* SumFunctionOnSet(f, S), the sum of f[x] for x in S.                     *)
(***************************************************************************)

\* The member that a sum takes first.
Leading(s) == CHOOSE x \in s : TRUE

LEMMA LeadingIsIn ==
    ASSUME NEW s, s # {}
    PROVE  Leading(s) \in s
BY DEF Leading

\* g adds up f over the subsets of S.
SumsUp(g, f, S) ==
    g = [s \in SUBSET S |-> IF s = {} THEN 0 ELSE f[Leading(s)] + g[s \ {Leading(s)}]]

\* There is such a function for a finite set.
LEMMA SumExists ==
    ASSUME NEW f, NEW S, IsFiniteSet(S)
    PROVE  \E g : SumsUp(g, f, S)
<1> DEFINE Value(g, s) == IF s = {} THEN 0 ELSE f[Leading(s)] + g[s \ {Leading(s)}]
           UpTo(n) == \E g : /\ g = [s \in SUBSET S |-> g[s]]
                             /\ \A s \in SUBSET S :
                                    Cardinality(s) <= n => g[s] = Value(g, s)
<1>1. \A s \in SUBSET S : /\ IsFiniteSet(s) /\ Cardinality(s) \in Nat
                          /\ Cardinality(s) <= Cardinality(S)
                          /\ Cardinality(s) = 0 <=> s = {}
  BY FS_Subset, FS_CardinalityType, FS_EmptySet
<1>2. UpTo(0)
  <2> DEFINE g == [s \in SUBSET S |-> 0]
  <2>1. g = [s \in SUBSET S |-> g[s]]
    OBVIOUS
  <2>2. ASSUME NEW s \in SUBSET S, Cardinality(s) <= 0
        PROVE  g[s] = Value(g, s)
    BY <1>1, <2>2
  <2>. QED
    BY <2>1, <2>2
<1>3. ASSUME NEW n \in Nat, UpTo(n)
      PROVE  UpTo(n + 1)
  <2>1. PICK g : /\ g = [s \in SUBSET S |-> g[s]]
                 /\ \A s \in SUBSET S : Cardinality(s) <= n => g[s] = Value(g, s)
    BY <1>3
  <2> DEFINE h == [s \in SUBSET S |-> IF Cardinality(s) <= n THEN g[s] ELSE Value(g, s)]
  <2>2. h = [s \in SUBSET S |-> h[s]]
    OBVIOUS
  <2>3. ASSUME NEW s \in SUBSET S, Cardinality(s) <= n + 1
        PROVE  h[s] = Value(h, s)
    <3>1. CASE s = {}
      BY <1>1, <2>1, <3>1
    <3>2. CASE s # {}
      <4> DEFINE r == s \ {Leading(s)}
      <4>1. r \in SUBSET S /\ Cardinality(r) = Cardinality(s) - 1
        BY <1>1, <3>2, LeadingIsIn, FS_RemoveElement
      <4>2. h[r] = g[r]
        BY <1>1, <2>3, <4>1
      <4>3. h[s] = f[Leading(s)] + g[r]
        BY <2>1, <3>2
      <4>. QED
        BY <3>2, <4>2, <4>3
    <3>. QED
      BY <3>1, <3>2
  <2>. HIDE DEF h
  <2>. QED
    BY <2>2, <2>3
<1>. HIDE DEF UpTo
<1>4. UpTo(Cardinality(S))
  <2> DEFINE A == {n \in Nat : UpTo(n)}
  <2>1. Nat \subseteq A
    <3>1. 0 \in A
      BY <1>2
    <3>2. \A n \in Nat : n \in A => n + 1 \in A
      BY <1>3
    <3>. HIDE DEF A
    <3>. QED
      BY <3>1, <3>2, NatSetInduction
  <2>. QED
    BY <1>1, <2>1
<1>5. PICK g : /\ g = [s \in SUBSET S |-> g[s]]
               /\ \A s \in SUBSET S :
                      Cardinality(s) <= Cardinality(S) => g[s] = Value(g, s)
  BY <1>4 DEF UpTo
<1>6. SumsUp(g, f, S)
  BY <1>1, <1>5 DEF SumsUp
<1>. QED
  BY <1>6

\* There is only one: two that add up f agree on the sets that both know.
LEMMA SumUnique ==
    ASSUME NEW f, NEW S, NEW T, NEW g, NEW h, NEW U,
           IsFiniteSet(U), U \in SUBSET S, U \in SUBSET T,
           SumsUp(g, f, S), SumsUp(h, f, T)
    PROVE  g[U] = h[U]
<1> DEFINE Differ == {s \in SUBSET U : g[s] # h[s]}
<1>1. SUFFICES ASSUME Differ # {} PROVE FALSE
  OBVIOUS
<1>2. PICK s \in Differ : \A r \in Differ : ~(<<r, s>> \in StrictSubsetOrdering(U))
  <2>1. IsWellFoundedOn(StrictSubsetOrdering(U), FiniteSubsetsOf(U))
    BY FS_StrictSubsetOrderingWellFounded
  <2>2. Differ \subseteq FiniteSubsetsOf(U)
    BY FS_FiniteSubsetsOfFinite
  <2>. QED
    BY <1>1, <2>1, <2>2, WFMin, Zenon
<1>3. g[s] = IF s = {} THEN 0 ELSE f[Leading(s)] + g[s \ {Leading(s)}]
  BY DEF SumsUp
<1>4. h[s] = IF s = {} THEN 0 ELSE f[Leading(s)] + h[s \ {Leading(s)}]
  BY DEF SumsUp
<1>5. s # {}
  BY <1>3, <1>4
<1>6. g[s \ {Leading(s)}] = h[s \ {Leading(s)}]
  <2>1. <<s \ {Leading(s)}, s>> \in StrictSubsetOrdering(U)
    BY <1>5, LeadingIsIn DEF StrictSubsetOrdering
  <2>. QED
    BY <1>2, <2>1
<1>. QED
  BY <1>3, <1>4, <1>5, <1>6

\* The definition of the sum of a finite set, as a recursive equation.
LEMMA SumOfLeading ==
    ASSUME NEW f, NEW S, IsFiniteSet(S)
    PROVE  SumFunctionOnSet(f, S) =
               IF S = {} THEN 0
               ELSE f[Leading(S)] + SumFunctionOnSet(f, S \ {Leading(S)})
<1> DEFINE G(T) == CHOOSE g : SumsUp(g, f, T)
<1>1. ASSUME NEW T, IsFiniteSet(T)
      PROVE  SumsUp(G(T), f, T) /\ SumFunctionOnSet(f, T) = G(T)[T]
  <2>1. \E g : SumsUp(g, f, T)
    BY <1>1, SumExists
  <2>2. SumsUp(G(T), f, T)
    BY <2>1, Zenon
  <2>3. SumFunctionOnSet(f, T) = G(T)[T]
    BY DEF SumFunctionOnSet, FoldFunctionOnSet, MapThenFoldSet, SumsUp, Leading
  <2>. QED
    BY <2>2, <2>3
<1>. HIDE DEF G
<1>2. CASE S = {}
  BY <1>1, <1>2 DEF SumsUp
<1>3. CASE S # {}
  <2> DEFINE R == S \ {Leading(S)}
  <2>1. IsFiniteSet(R)
    BY FS_RemoveElement
  <2>2. G(S)[S] = f[Leading(S)] + G(S)[R]
    BY <1>1, <1>3 DEF SumsUp
  <2>3. G(S)[R] = G(R)[R]
    <3>1. SumsUp(G(S), f, S) /\ SumsUp(G(R), f, R)
      BY <1>1, <2>1
    <3>2. R \in SUBSET S /\ R \in SUBSET R
      OBVIOUS
    <3>. HIDE DEF R
    <3>. QED
      BY <2>1, <3>1, <3>2, SumUnique
  <2>. QED
    BY <1>1, <1>3, <2>1, <2>2, <2>3
<1>. QED
  BY <1>2, <1>3

\* Any member may be taken first; and sums of integers are integers.
LEMMA SumOfMember ==
    ASSUME NEW S, IsFiniteSet(S), NEW f, \A x \in S : f[x] \in Int
    PROVE  /\ SumFunctionOnSet(f, S) \in Int
           /\ \A x \in S : SumFunctionOnSet(f, S) = f[x] + SumFunctionOnSet(f, S \ {x})
<1> DEFINE Good(T) ==
      /\ SumFunctionOnSet(f, T) \in Int
      /\ \A x \in T : SumFunctionOnSet(f, T) = f[x] + SumFunctionOnSet(f, T \ {x})
    Bad == {T \in SUBSET S : ~Good(T)}
<1>1. SUFFICES ASSUME Bad # {} PROVE FALSE
  OBVIOUS
<1>2. PICK T \in Bad : \A R \in Bad : ~(<<R, T>> \in StrictSubsetOrdering(S))
  <2>1. IsWellFoundedOn(StrictSubsetOrdering(S), FiniteSubsetsOf(S))
    BY FS_StrictSubsetOrderingWellFounded
  <2>2. Bad \subseteq FiniteSubsetsOf(S)
    BY FS_FiniteSubsetsOfFinite
  <2>. QED
    BY <1>1, <2>1, <2>2, WFMin, Zenon
<1>3. ASSUME NEW x \in T
      PROVE  Good(T \ {x})
  <2>1. <<T \ {x}, T>> \in StrictSubsetOrdering(S)
    BY DEF StrictSubsetOrdering
  <2>. QED
    BY <1>2, <2>1
<1>4. IsFiniteSet(T) /\ \A x \in T : IsFiniteSet(T \ {x})
  BY FS_Subset, FS_RemoveElement
<1>5. CASE T = {}
  <2>1. SumFunctionOnSet(f, T) = 0
    BY <1>4, <1>5, SumOfLeading
  <2>. QED
    BY <1>5, <2>1
<1>6. CASE T # {}
  <2> DEFINE y == Leading(T)
  <2>1. y \in T /\ SumFunctionOnSet(f, T) = f[y] + SumFunctionOnSet(f, T \ {y})
    BY <1>4, <1>6, LeadingIsIn, SumOfLeading
  <2>2. SumFunctionOnSet(f, T) \in Int
    BY <1>3, <2>1
  <2>3. ASSUME NEW x \in T
        PROVE  SumFunctionOnSet(f, T) = f[x] + SumFunctionOnSet(f, T \ {x})
    <3>1. CASE x = y
      BY <2>1, <3>1
    <3>2. CASE x # y
      <4> DEFINE R == (T \ {x}) \ {y}
      <4>1. R = (T \ {y}) \ {x}
        OBVIOUS
      <4>2. SumFunctionOnSet(f, T \ {x}) = f[y] + SumFunctionOnSet(f, R)
        BY <1>3, <2>1, <3>2
      <4>3. SumFunctionOnSet(f, T \ {y}) = f[x] + SumFunctionOnSet(f, R)
        BY <1>3, <2>1, <3>2, <4>1
      <4>4. SumFunctionOnSet(f, R) \in Int
        <5>1. <<R, T>> \in StrictSubsetOrdering(S)
          BY DEF StrictSubsetOrdering
        <5>. QED
          BY <1>2, <5>1
      <4>5. f[x] \in Int /\ f[y] \in Int
        BY <2>1
      <4>. HIDE DEF R, y
      <4>. QED
        BY <2>1, <4>2, <4>3, <4>4, <4>5
    <3>. QED
      BY <3>1, <3>2
  <2>. QED
    BY <2>2, <2>3
<1>. QED
  BY <1>5, <1>6

LEMMA SumOfNone ==
    ASSUME NEW f
    PROVE  SumFunctionOnSet(f, {}) = 0
BY SumOfLeading, FS_EmptySet

LEMMA SumWithMember ==
    ASSUME NEW S, IsFiniteSet(S), NEW x, x \notin S,
           NEW f, \A y \in S \cup {x} : f[y] \in Int
    PROVE  SumFunctionOnSet(f, S \cup {x}) = f[x] + SumFunctionOnSet(f, S)
<1>1. IsFiniteSet(S \cup {x}) /\ (S \cup {x}) \ {x} = S
  BY FS_AddElement
<1>. QED
  BY <1>1, SumOfMember

(***************************************************************************)
(* Sums of two functions, by induction over the set.                       *)
(***************************************************************************)

\* The sum goes by the values on the set alone.
LEMMA SumSame ==
    ASSUME NEW S, IsFiniteSet(S), NEW f, NEW g,
           \A x \in S : f[x] \in Int /\ g[x] = f[x]
    PROVE  SumFunctionOnSet(g, S) = SumFunctionOnSet(f, S)
<1> DEFINE A == {T \in SUBSET S : SumFunctionOnSet(g, T) = SumFunctionOnSet(f, T)}
<1>1. {} \in A
  BY SumOfNone
<1>2. ASSUME NEW T \in SUBSET S, NEW x \in S \ T, T \in A
      PROVE  T \cup {x} \in A
  <2>1. IsFiniteSet(T)
    BY FS_Subset
  <2>. QED
    BY <1>2, <2>1, SumWithMember
<1>. HIDE DEF A
<1>3. S \in A
  BY <1>1, <1>2, FiniteSetInduction
<1>. QED
  BY <1>3 DEF A

\* The sum of a sum.
LEMMA SumOfPlus ==
    ASSUME NEW S, IsFiniteSet(S), NEW f, NEW g, NEW h,
           \A x \in S : f[x] \in Int /\ g[x] \in Int /\ h[x] = f[x] + g[x]
    PROVE  SumFunctionOnSet(h, S) = SumFunctionOnSet(f, S) + SumFunctionOnSet(g, S)
<1> DEFINE A == {T \in SUBSET S : SumFunctionOnSet(h, T)
                    = SumFunctionOnSet(f, T) + SumFunctionOnSet(g, T)}
<1>1. {} \in A
  BY SumOfNone
<1>2. ASSUME NEW T \in SUBSET S, NEW x \in S \ T, T \in A
      PROVE  T \cup {x} \in A
  <2>1. IsFiniteSet(T)
    BY FS_Subset
  <2>2. /\ SumFunctionOnSet(f, T) \in Int /\ SumFunctionOnSet(g, T) \in Int
        /\ f[x] \in Int /\ g[x] \in Int
    BY <2>1, SumOfMember
  <2>3. /\ SumFunctionOnSet(f, T \cup {x}) = f[x] + SumFunctionOnSet(f, T)
        /\ SumFunctionOnSet(g, T \cup {x}) = g[x] + SumFunctionOnSet(g, T)
        /\ SumFunctionOnSet(h, T \cup {x}) = h[x] + SumFunctionOnSet(h, T)
    <3>1. \A y \in T \cup {x} : f[y] \in Int /\ g[y] \in Int /\ h[y] \in Int
      OBVIOUS
    <3>. QED
      BY <2>1, <3>1, SumWithMember
  <2>. QED
    BY <1>2, <2>2, <2>3
<1>. HIDE DEF A
<1>3. S \in A
  BY <1>1, <1>2, FiniteSetInduction
<1>. QED
  BY <1>3 DEF A

\* A smaller function has a smaller sum.
LEMMA SumMonotone ==
    ASSUME NEW S, IsFiniteSet(S), NEW f, NEW g,
           \A x \in S : f[x] \in Int /\ g[x] \in Int /\ f[x] <= g[x]
    PROVE  SumFunctionOnSet(f, S) <= SumFunctionOnSet(g, S)
<1> DEFINE A == {T \in SUBSET S : SumFunctionOnSet(f, T) <= SumFunctionOnSet(g, T)}
<1>1. {} \in A
  BY SumOfNone
<1>2. ASSUME NEW T \in SUBSET S, NEW x \in S \ T, T \in A
      PROVE  T \cup {x} \in A
  <2>1. IsFiniteSet(T)
    BY FS_Subset
  <2>2. /\ SumFunctionOnSet(f, T) \in Int /\ SumFunctionOnSet(g, T) \in Int
        /\ f[x] \in Int /\ g[x] \in Int
    BY <2>1, SumOfMember
  <2>3. /\ SumFunctionOnSet(f, T \cup {x}) = f[x] + SumFunctionOnSet(f, T)
        /\ SumFunctionOnSet(g, T \cup {x}) = g[x] + SumFunctionOnSet(g, T)
    BY <2>1, SumWithMember
  <2>. QED
    BY <1>2, <2>2, <2>3
<1>. HIDE DEF A
<1>3. S \in A
  BY <1>1, <1>2, FiniteSetInduction
<1>. QED
  BY <1>3 DEF A

\* A function between low and high has a sum between as many of them.
LEMMA SumBetween ==
    ASSUME NEW S, IsFiniteSet(S), NEW f, NEW low \in Int, NEW high \in Int,
           \A x \in S : f[x] \in Int /\ low <= f[x] /\ f[x] <= high
    PROVE  /\ low * Cardinality(S) <= SumFunctionOnSet(f, S)
           /\ SumFunctionOnSet(f, S) <= high * Cardinality(S)
<1> DEFINE A == {T \in SUBSET S :
                   /\ low * Cardinality(T) <= SumFunctionOnSet(f, T)
                   /\ SumFunctionOnSet(f, T) <= high * Cardinality(T)}
<1>1. {} \in A
  BY SumOfNone, FS_EmptySet
<1>2. ASSUME NEW T \in SUBSET S, NEW x \in S \ T, T \in A
      PROVE  T \cup {x} \in A
  <2>1. IsFiniteSet(T)
    BY FS_Subset
  <2>2. Cardinality(T) \in Nat /\ Cardinality(T \cup {x}) = Cardinality(T) + 1
    BY <2>1, FS_CardinalityType, FS_AddElement
  <2>3. SumFunctionOnSet(f, T) \in Int /\ f[x] \in Int
    BY <2>1, SumOfMember
  <2>4. SumFunctionOnSet(f, T \cup {x}) = f[x] + SumFunctionOnSet(f, T)
    BY <2>1, SumWithMember
  <2>. QED
    BY <1>2, <2>2, <2>3, <2>4
<1>. HIDE DEF A
<1>3. S \in A
  BY <1>1, <1>2, FiniteSetInduction
<1>. QED
  BY <1>3 DEF A

LEMMA SumIsNat ==
    ASSUME NEW S, IsFiniteSet(S), NEW f, \A x \in S : f[x] \in Nat
    PROVE  SumFunctionOnSet(f, S) \in Nat
<1> DEFINE A == {T \in SUBSET S : SumFunctionOnSet(f, T) \in Nat}
<1>1. {} \in A
  BY SumOfNone
<1>2. ASSUME NEW T \in SUBSET S, NEW x \in S \ T, T \in A
      PROVE  T \cup {x} \in A
  <2>1. IsFiniteSet(T)
    BY FS_Subset
  <2>2. SumFunctionOnSet(f, T \cup {x}) = f[x] + SumFunctionOnSet(f, T)
    <3>1. \A y \in T \cup {x} : f[y] \in Int
      OBVIOUS
    <3>. QED
      BY <2>1, <3>1, SumWithMember
  <2>. QED
    BY <1>2, <2>2
<1>. HIDE DEF A
<1>3. S \in A
  BY <1>1, <1>2, FiniteSetInduction
<1>. QED
  BY <1>3 DEF A

\* The sum over two sets without a common member.
LEMMA SumOfUnion ==
    ASSUME NEW S, IsFiniteSet(S), NEW R, IsFiniteSet(R), S \cap R = {},
           NEW f, \A x \in S \cup R : f[x] \in Int
    PROVE  SumFunctionOnSet(f, S \cup R) = SumFunctionOnSet(f, S) + SumFunctionOnSet(f, R)
<1> DEFINE A == {T \in SUBSET S : SumFunctionOnSet(f, T \cup R)
                    = SumFunctionOnSet(f, T) + SumFunctionOnSet(f, R)}
<1>0. SumFunctionOnSet(f, R) \in Int
  BY SumOfMember
<1>1. {} \in A
  <2>1. {} \cup R = R
    OBVIOUS
  <2>. QED
    BY <1>0, <2>1, SumOfNone
<1>2. ASSUME NEW T \in SUBSET S, NEW x \in S \ T, T \in A
      PROVE  T \cup {x} \in A
  <2>1. IsFiniteSet(T) /\ IsFiniteSet(T \cup R)
    BY FS_Subset, FS_Union
  <2>2. SumFunctionOnSet(f, T) \in Int /\ f[x] \in Int
    BY <2>1, SumOfMember
  <2>3. SumFunctionOnSet(f, T \cup {x}) = f[x] + SumFunctionOnSet(f, T)
    BY <2>1, SumWithMember
  <2>4. SumFunctionOnSet(f, (T \cup R) \cup {x}) = f[x] + SumFunctionOnSet(f, T \cup R)
    BY <2>1, SumWithMember
  <2>5. (T \cup R) \cup {x} = (T \cup {x}) \cup R
    OBVIOUS
  <2>6. SumFunctionOnSet(f, T \cup R)
            = SumFunctionOnSet(f, T) + SumFunctionOnSet(f, R)
    BY <1>2
  <2>7. SumFunctionOnSet(f, (T \cup {x}) \cup R)
            = SumFunctionOnSet(f, T \cup {x}) + SumFunctionOnSet(f, R)
    <3>1. SumFunctionOnSet(f, (T \cup {x}) \cup R) = f[x] + SumFunctionOnSet(f, T \cup R)
      BY <2>4, <2>5, Zenon
    <3>. QED
      BY <1>0, <2>2, <2>3, <2>6, <3>1
  <2>8. T \cup {x} \in SUBSET S
    OBVIOUS
  <2>. QED
    BY <2>7, <2>8
<1>. HIDE DEF A
<1>3. S \in A
  BY <1>1, <1>2, FiniteSetInduction
<1>. QED
  BY <1>3 DEF A

\* The sum of multiples.
LEMMA SumOfMultiples ==
    ASSUME NEW S, IsFiniteSet(S), NEW f, NEW g, NEW k \in Int,
           \A x \in S : f[x] \in Int /\ g[x] = k * f[x]
    PROVE  SumFunctionOnSet(g, S) = k * SumFunctionOnSet(f, S)
<1> DEFINE A == {T \in SUBSET S : SumFunctionOnSet(g, T) = k * SumFunctionOnSet(f, T)}
<1>1. {} \in A
  BY SumOfNone
<1>2. ASSUME NEW T \in SUBSET S, NEW x \in S \ T, T \in A
      PROVE  T \cup {x} \in A
  <2>1. IsFiniteSet(T)
    BY FS_Subset
  <2>2. SumFunctionOnSet(f, T) \in Int /\ f[x] \in Int
    BY <2>1, SumOfMember
  <2>3. /\ SumFunctionOnSet(f, T \cup {x}) = f[x] + SumFunctionOnSet(f, T)
        /\ SumFunctionOnSet(g, T \cup {x}) = g[x] + SumFunctionOnSet(g, T)
    <3>1. \A y \in T \cup {x} : f[y] \in Int /\ g[y] \in Int
      OBVIOUS
    <3>. QED
      BY <2>1, <3>1, SumWithMember
  <2>. QED
    BY <1>2, <2>2, <2>3
<1>. HIDE DEF A
<1>3. S \in A
  BY <1>1, <1>2, FiniteSetInduction
<1>. QED
  BY <1>3 DEF A

\* A sum over parts: every member is in the part of its kind, every part has
\* its sum.
LEMMA SumOfParts ==
    ASSUME NEW S, IsFiniteSet(S), NEW C, IsFiniteSet(C), NEW kind, NEW part,
           \A x \in S : kind[x] \in C,
           \A c \in C : part[c] \in SUBSET S,
           \A c \in C : \A x \in S : x \in part[c] <=> kind[x] = c,
           NEW f, \A x \in S : f[x] \in Int,
           NEW h, \A c \in C : h[c] = SumFunctionOnSet(f, part[c])
    PROVE  SumFunctionOnSet(h, C) = SumFunctionOnSet(f, S)
<1> DEFINE Parts(T) == {x \in S : kind[x] \in T}
           A == {T \in SUBSET C : SumFunctionOnSet(h, T) = SumFunctionOnSet(f, Parts(T))}
<1>1. \A T \in SUBSET C : IsFiniteSet(Parts(T)) /\ IsFiniteSet(T)
  BY FS_Subset
<1>2. ASSUME NEW c \in C
      PROVE  IsFiniteSet(part[c]) /\ h[c] \in Int
  <2>1. IsFiniteSet(part[c])
    BY FS_Subset
  <2>2. \A x \in part[c] : f[x] \in Int
    OBVIOUS
  <2> QED
    BY <2>1, <2>2, SumOfMember
<1>3. {} \in A
  <2>1. Parts({}) = {}
    OBVIOUS
  <2>. QED
    BY <2>1, SumOfNone
<1>4. ASSUME NEW T \in SUBSET C, NEW c \in C \ T, T \in A
      PROVE  T \cup {c} \in A
  <2>1. SumFunctionOnSet(h, T \cup {c}) = h[c] + SumFunctionOnSet(h, T)
    <3>1. \A y \in T \cup {c} : h[y] \in Int
      BY <1>2
    <3>. QED
      BY <1>1, <3>1, SumWithMember
  <2>2. Parts(T \cup {c}) = part[c] \cup Parts(T) /\ part[c] \cap Parts(T) = {}
    OBVIOUS
  <2>3. SumFunctionOnSet(f, part[c] \cup Parts(T))
          = SumFunctionOnSet(f, part[c]) + SumFunctionOnSet(f, Parts(T))
    <3>1. \A x \in part[c] \cup Parts(T) : f[x] \in Int
      OBVIOUS
    <3> HIDE DEF Parts
    <3>. QED
      BY <1>1, <1>2, <2>2, <3>1, SumOfUnion
  <2>4. /\ h[c] = SumFunctionOnSet(f, part[c])
        /\ SumFunctionOnSet(h, T) = SumFunctionOnSet(f, Parts(T))
    BY <1>4
  <2> HIDE DEF Parts
  <2>5. SumFunctionOnSet(h, T \cup {c}) = SumFunctionOnSet(f, Parts(T \cup {c}))
    BY <2>1, <2>2, <2>3, <2>4
  <2>. QED
    BY <2>5
<1>. HIDE DEF A
<1>5. C \in A
  BY <1>3, <1>4, FiniteSetInduction
<1>6. Parts(C) = S
  OBVIOUS
<1>. QED
  BY <1>5, <1>6 DEF A

\* The sum of all values.
LEMMA SumOfAll ==
    ASSUME NEW f
    PROVE  SumFunction(f) = SumFunctionOnSet(f, DOMAIN f)
BY DEF SumFunction

\* Nothing adds up to nothing.
LEMMA SumOfZeros ==
    ASSUME NEW S, IsFiniteSet(S), NEW f, \A x \in S : f[x] = 0
    PROVE  SumFunctionOnSet(f, S) = 0
<1> DEFINE A == {T \in SUBSET S : SumFunctionOnSet(f, T) = 0}
<1>1. {} \in A
  BY SumOfNone
<1>2. ASSUME NEW T \in SUBSET S, NEW x \in S \ T, T \in A
      PROVE  T \cup {x} \in A
  <2>1. IsFiniteSet(T) /\ \A y \in T \cup {x} : f[y] \in Int
    BY FS_Subset
  <2>2. SumFunctionOnSet(f, T \cup {x}) = f[x] + SumFunctionOnSet(f, T)
    BY <2>1, SumWithMember
  <2>. QED
    BY <1>2, <2>2
<1>. HIDE DEF A
<1>3. S \in A
  BY <1>1, <1>2, FiniteSetInduction
<1>. QED
  BY <1>3 DEF A

\* A sum of natural numbers is positive when one of them is.
LEMMA SumPositive ==
    ASSUME NEW S, IsFiniteSet(S), NEW f, \A x \in S : f[x] \in Nat
    PROVE  SumFunctionOnSet(f, S) > 0 <=> \E x \in S : f[x] > 0
<1>1. ASSUME NEW x \in S, f[x] > 0
      PROVE  SumFunctionOnSet(f, S) > 0
  <2>1. IsFiniteSet(S \ {x}) /\ \A y \in S \ {x} : f[y] \in Nat
    BY FS_RemoveElement
  <2>2. SumFunctionOnSet(f, S \ {x}) \in Nat
    BY <2>1, SumIsNat
  <2>3. SumFunctionOnSet(f, S) = f[x] + SumFunctionOnSet(f, S \ {x})
    BY SumOfMember
  <2>. QED
    BY <1>1, <2>2, <2>3
<1>2. ASSUME \A x \in S : ~(f[x] > 0)
      PROVE  SumFunctionOnSet(f, S) = 0
  <2>1. \A x \in S : f[x] = 0
    BY <1>2
  <2>. QED
    BY <2>1, SumOfZeros
<1>. QED
  BY <1>1, <1>2

\* Members whose value is 0 do not count.
LEMMA SumWithoutZeros ==
    ASSUME NEW S, IsFiniteSet(S), NEW R \in SUBSET S,
           NEW f, \A x \in S : f[x] \in Int, \A x \in S \ R : f[x] = 0
    PROVE  SumFunctionOnSet(f, S) = SumFunctionOnSet(f, R)
<1>1. IsFiniteSet(R) /\ IsFiniteSet(S \ R) /\ R \cap (S \ R) = {} /\ R \cup (S \ R) = S
  BY FS_Subset
<1>2. SumFunctionOnSet(f, S \ R) = 0
  BY <1>1, SumOfZeros
<1>3. SumFunctionOnSet(f, R) \in Int
  BY <1>1, SumOfMember
<1>4. SumFunctionOnSet(f, R \cup (S \ R)) = SumFunctionOnSet(f, R) + SumFunctionOnSet(f, S \ R)
  <2>1. \A x \in R \cup (S \ R) : f[x] \in Int
    OBVIOUS
  <2> QED
    BY <1>1, <2>1, SumOfUnion
<1>5. SumFunctionOnSet(f, S) = SumFunctionOnSet(f, R) + SumFunctionOnSet(f, S \ R)
  BY <1>1, <1>4
<1>. QED
  BY <1>2, <1>3, <1>5

(***************************************************************************)
(* What estimate_on_scale returns, for every total and every count.        *)
(***************************************************************************)

\* The search by distance that the code performs and the rule by midpoints
\* agree, for all totals and all positive counts: ties go to the larger card
\* and a positive total never yields the card 0 (models.py:67-79).
THEOREM EstimateIsReference ==
    ASSUME NEW total \in Nat, NEW count \in Nat \ {0}
    PROVE  EstimateOnScale(total, count) = ReferenceEstimate(total, count)
<1> DEFINE R == ReferenceEstimate(total, count)
<1>1. CASE total = 0
  BY <1>1 DEF EstimateOnScale, ReferenceEstimate
<1>2. CASE total > 0
  <2>1. R \in PositiveCards
    BY <1>2 DEF ReferenceEstimate, PositiveCards, Scale
  <2>2. \A w \in PositiveCards : Preferred(R, w, total, count)
    BY <1>2 DEF ReferenceEstimate, PositiveCards, Scale, Preferred, Distance,
                ReachesMidpoint
  <2>3. ASSUME NEW v \in PositiveCards,
               \A w \in PositiveCards : Preferred(v, w, total, count)
        PROVE  v = R
    <3>1. Preferred(v, R, total, count) /\ Preferred(R, v, total, count)
      BY <2>1, <2>2, <2>3
    <3>2. v \in Int /\ R \in Int
      BY <2>1 DEF PositiveCards, Scale
    <3>3. Distance(v, total, count) \in Int /\ Distance(R, total, count) \in Int
      BY <2>1 DEF PositiveCards, Scale, Distance
    <3>. QED
      BY <3>1, <3>2, <3>3 DEF Preferred
  <2>. QED
    BY <1>2, <2>1, <2>2, <2>3 DEF EstimateOnScale
<1>. QED
  BY <1>1, <1>2

\* "Nothing to do" is the estimate exactly when every vote said so
\* (user-guide.md:18): the estimate is 0 only for a total of 0.
THEOREM ZeroOnlyForZero ==
    ASSUME NEW total \in Nat, NEW count \in Nat \ {0}
    PROVE  EstimateOnScale(total, count) = 0 <=> total = 0
<1>1. EstimateOnScale(total, count) = ReferenceEstimate(total, count)
  BY EstimateIsReference
<1>. QED
  BY <1>1 DEF ReferenceEstimate

\* More hours voted by as many participants never give a smaller estimate.
THEOREM EstimateMonotone ==
    ASSUME NEW less \in Nat, NEW more \in Nat, NEW count \in Nat \ {0},
           less <= more
    PROVE  EstimateOnScale(less, count) <= EstimateOnScale(more, count)
<1>1. /\ EstimateOnScale(less, count) = ReferenceEstimate(less, count)
      /\ EstimateOnScale(more, count) = ReferenceEstimate(more, count)
  BY EstimateIsReference
<1>. QED
  BY <1>1 DEF ReferenceEstimate, ReachesMidpoint

\* The estimate lies between the lowest and the highest card voted: when all
\* votes, and so their average, are between two cards, so is the estimate.
THEOREM EstimateBetween ==
    ASSUME NEW total \in Nat, NEW count \in Nat \ {0},
           NEW low \in Scale, NEW high \in Scale,
           low * count <= total, total <= high * count
    PROVE  /\ low <= EstimateOnScale(total, count)
           /\ EstimateOnScale(total, count) <= high
<1>1. EstimateOnScale(total, count) = ReferenceEstimate(total, count)
  BY EstimateIsReference
<1>2. low <= ReferenceEstimate(total, count)
  BY DEF Scale, ReferenceEstimate, ReachesMidpoint
<1>3. ReferenceEstimate(total, count) <= high
  BY DEF Scale, ReferenceEstimate, ReachesMidpoint
<1>. QED
  BY <1>1, <1>2, <1>3

=============================================================================
