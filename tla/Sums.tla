-------------------------------- MODULE Sums ---------------------------------
(***************************************************************************)
(* Sums of functions over finite sets, for the proofs about ledgers,       *)
(* accounts and bags.  SumFunctionOnSet of the community modules adds by a *)
(* function on the subsets that takes some element out first.  What is     *)
(* needed of it is that any element may be taken out first (SumSplits) and *)
(* that only the values count (SumSame); both are refuted at the least     *)
(* size at which they could fail (LeastNumber).                            *)
(***************************************************************************)
EXTENDS Integers, FiniteSets, Functions, FiniteSetTheorems, WellFoundedInduction, TLAPS

Some(S) == CHOOSE x \in S : TRUE

\* The total of f over s, one element at a time.
Added(it, f, s) == IF s = {} THEN 0 ELSE f[Some(s)] + it[s \ {Some(s)}]

Adds(it, f, T) == it = [s \in SUBSET T |-> Added(it, f, s)]

\* A set of numbers has a least one: what stands in for induction below.
LEMMA LeastNumber ==
  ASSUME NEW Q, Q \subseteq Nat, Q # {}
  PROVE  \E n \in Q : \A m \in Q : n <= m
<1>1. PICK n \in Q : \A m \in Q : ~(<<m, n>> \in OpToRel(<, Nat))
  BY WFMin, NatLessThanWellFounded
<1>2. \A m \in Q : ~(m < n)
  BY <1>1 DEF OpToRel
<1> QED
  BY <1>2

\* The parts of a finite set, one element less at a time.
LEMMA SmallerSet ==
  ASSUME NEW S, IsFiniteSet(S), NEW s \in SUBSET S
  PROVE  /\ IsFiniteSet(s) /\ Cardinality(s) \in Nat
         /\ Cardinality(s) = 0 <=> s = {}
         /\ \A x \in s : /\ s \ {x} \in SUBSET S
                         /\ Cardinality(s \ {x}) = Cardinality(s) - 1
         /\ s # {} => Some(s) \in s
<1>1. IsFiniteSet(s)
  BY FS_Subset
<1>2. Cardinality(s) \in Nat /\ (Cardinality(s) = 0 <=> s = {})
  BY <1>1, FS_CardinalityType, FS_EmptySet
<1>3. \A x \in s : Cardinality(s \ {x}) = Cardinality(s) - 1
  BY <1>1, FS_RemoveElement
<1>4. s # {} => Some(s) \in s
  BY DEF Some
<1> QED
  BY <1>1, <1>2, <1>3, <1>4

\* A way of adding exists: the least size at which it would fail can be
\* extended.
LEMMA SumExists ==
  ASSUME NEW S, IsFiniteSet(S), NEW f \in [S -> Int]
  PROVE  \E it : Adds(it, f, S)
<1> DEFINE Upto(it, k) == \A s \in SUBSET S : Cardinality(s) <= k => it[s] = Added(it, f, s)
<1> DEFINE Q == {k \in Nat : ~\E it \in [SUBSET S -> Int] : Upto(it, k)}
<1>1. Q = {}
  <2> SUFFICES ASSUME Q # {} PROVE FALSE
    OBVIOUS
  <2>1. PICK k \in Q : \A m \in Q : k <= m
    <3>1. Q \subseteq Nat
      OBVIOUS
    <3> HIDE DEF Q
    <3> QED
      BY <3>1, LeastNumber
  <2>2. k \in Nat /\ ~\E it \in [SUBSET S -> Int] : Upto(it, k)
    OBVIOUS
  <2>3. CASE k = 0
    <3> DEFINE z == [s \in SUBSET S |-> 0]
    <3>1. z \in [SUBSET S -> Int]
      OBVIOUS
    <3>2. Upto(z, 0)
      <4> SUFFICES ASSUME NEW s \in SUBSET S, Cardinality(s) <= 0
                   PROVE  z[s] = Added(z, f, s)
        OBVIOUS
      <4>1. s = {}
        BY SmallerSet
      <4> QED
        BY <4>1 DEF Added
    <3> QED
      BY <2>2, <2>3, <3>1, <3>2
  <2>4. CASE k # 0
    <3>1. k - 1 \in Nat /\ k - 1 \notin Q
      <4> HIDE DEF Q
      <4> QED
        BY <2>1, <2>2, <2>4
    <3>2. PICK g \in [SUBSET S -> Int] : Upto(g, k - 1)
      BY <3>1
    <3> DEFINE h == [s \in SUBSET S |-> IF Cardinality(s) <= k - 1 THEN g[s] ELSE Added(g, f, s)]
    <3>3. h \in [SUBSET S -> Int]
      <4>1. \A s \in SUBSET S : Added(g, f, s) \in Int
        BY SmallerSet DEF Added
      <4> QED
        BY <4>1
    <3>4. Upto(h, k)
      <4> SUFFICES ASSUME NEW s \in SUBSET S, Cardinality(s) <= k
                   PROVE  h[s] = Added(h, f, s)
        OBVIOUS
      <4>1. CASE s = {}
        <5>1. Cardinality(s) = 0
          BY <4>1, SmallerSet
        <5>2. h[s] = g[s] /\ g[s] = Added(g, f, s)
          BY <3>1, <3>2, <5>1
        <5> QED
          BY <4>1, <5>2 DEF Added
      <4>2. CASE s # {}
        <5> DEFINE r == s \ {Some(s)}
        <5>1. r \in SUBSET S /\ Cardinality(r) = Cardinality(s) - 1 /\ Cardinality(s) \in Nat
          BY <4>2, SmallerSet
        <5>2. h[r] = g[r]
          BY <2>2, <5>1
        <5>3. h[s] = Added(g, f, s)
          BY <3>2
        <5> HIDE DEF h
        <5> QED
          BY <4>2, <5>2, <5>3 DEF Added
      <4> QED
        BY <4>1, <4>2
    <3> HIDE DEF h
    <3> QED
      BY <2>2, <3>3, <3>4
  <2> QED
    BY <2>3, <2>4
<1>2. Cardinality(S) \in Nat
  BY FS_CardinalityType
<1>3. PICK it \in [SUBSET S -> Int] : Upto(it, Cardinality(S))
  BY <1>1, <1>2
<1>4. \A s \in SUBSET S : it[s] = Added(it, f, s)
  <2>1. \A s \in SUBSET S : Cardinality(s) <= Cardinality(S)
    BY FS_Subset
  <2> QED
    BY <1>3, <2>1
<1> QED
  BY <1>4 DEF Adds

\* The library adds by just such a function.
LEMMA SumIs ==
  ASSUME NEW f, NEW T
  PROVE  SumFunctionOnSet(f, T) = (CHOOSE it : Adds(it, f, T))[T]
BY DEF SumFunctionOnSet, FoldFunctionOnSet, MapThenFoldSet, Adds, Added, Some

\* Two ways of adding agree wherever the functions do.
LEMMA SumAgrees ==
  ASSUME NEW S, IsFiniteSet(S), NEW T, IsFiniteSet(T), NEW f, NEW g, NEW i, NEW j,
         Adds(i, f, S), Adds(j, g, T), NEW R, R \subseteq S, R \subseteq T,
         \A x \in R : f[x] = g[x]
  PROVE  i[R] = j[R]
<1> DEFINE Q == {n \in Nat : \E s \in SUBSET R : Cardinality(s) = n /\ i[s] # j[s]}
<1>0. IsFiniteSet(R)
  BY FS_Subset
<1>1. Q = {}
  <2> SUFFICES ASSUME Q # {} PROVE FALSE
    OBVIOUS
  <2>1. PICK n \in Q : \A m \in Q : n <= m
    <3>1. Q \subseteq Nat
      OBVIOUS
    <3> HIDE DEF Q
    <3> QED
      BY <3>1, LeastNumber
  <2>2. PICK s \in SUBSET R : Cardinality(s) = n /\ i[s] # j[s]
    OBVIOUS
  <2>3. i[s] = Added(i, f, s) /\ j[s] = Added(j, g, s)
    BY DEF Adds
  <2>4. s # {}
    BY <2>2, <2>3 DEF Added
  <2> DEFINE r == s \ {Some(s)}
  <2>5. Some(s) \in s /\ r \in SUBSET R /\ Cardinality(r) = Cardinality(s) - 1
        /\ Cardinality(s) \in Nat
    BY <1>0, <2>4, SmallerSet
  <2>6. i[r] # j[r]
    BY <2>2, <2>3, <2>4, <2>5 DEF Added
  <2>7. s # {} => Cardinality(s) # 0
    BY <1>0, SmallerSet
  <2>8. n - 1 \in Q
    BY <2>2, <2>4, <2>5, <2>6, <2>7
  <2> QED
    BY <2>1, <2>8
<1>2. Cardinality(R) \in Nat
  BY <1>0, FS_CardinalityType
<1> QED
  BY <1>1, <1>2

\* What the sum of a finite function is, one element at a time.
LEMMA SumUnfolds ==
  ASSUME NEW S, IsFiniteSet(S), NEW f \in [S -> Int], NEW s \in SUBSET S
  PROVE  SumFunctionOnSet(f, s) =
             IF s = {} THEN 0 ELSE f[Some(s)] + SumFunctionOnSet(f, s \ {Some(s)})
<1> DEFINE It(T) == CHOOSE it : Adds(it, f, T)
<1>1. ASSUME NEW T \in SUBSET S
      PROVE  Adds(It(T), f, T) /\ SumFunctionOnSet(f, T) = It(T)[T] /\ IsFiniteSet(T)
  <2> DEFINE g == [x \in T |-> f[x]]
  <2>1. IsFiniteSet(T) /\ g \in [T -> Int]
    BY FS_Subset
  <2>2. PICK it : Adds(it, g, T)
    <3> HIDE DEF g
    <3> QED
      BY <2>1, SumExists
  <2>3. Adds(it, f, T)
    <3>1. \A t \in SUBSET T : Added(it, g, t) = Added(it, f, t)
      BY <2>1, SmallerSet DEF Added
    <3> HIDE DEF g
    <3>2. [t \in SUBSET T |-> Added(it, g, t)] = [t \in SUBSET T |-> Added(it, f, t)]
      BY <3>1
    <3> QED
      BY <2>2, <3>2 DEF Adds
  <2> QED
    BY <2>1, <2>3, SumIs
<1>2. It(s)[s] = Added(It(s), f, s)
  <2>1. Adds(It(s), f, s)
    BY <1>1
  <2> HIDE DEF It
  <2> QED
    BY <2>1 DEF Adds
<1>3. CASE s = {}
  BY <1>1, <1>2, <1>3 DEF Added
<1>4. CASE s # {}
  <2> DEFINE r == s \ {Some(s)}
  <2>1. r \in SUBSET S
    OBVIOUS
  <2>2. Adds(It(s), f, s) /\ Adds(It(r), f, r) /\ IsFiniteSet(s) /\ IsFiniteSet(r)
        /\ SumFunctionOnSet(f, r) = It(r)[r] /\ SumFunctionOnSet(f, s) = It(s)[s]
    BY <1>1, <2>1
  <2>3. r \subseteq s
    OBVIOUS
  <2> HIDE DEF It, r
  <2>4. It(s)[r] = It(r)[r]
    BY <2>2, <2>3, SumAgrees
  <2> QED
    BY <1>2, <1>4, <2>2, <2>4 DEF Added, r
<1> QED
  BY <1>3, <1>4

\* A sum of integers is an integer.
LEMMA SumType ==
  ASSUME NEW S, IsFiniteSet(S), NEW f \in [S -> Int]
  PROVE  \A s \in SUBSET S : SumFunctionOnSet(f, s) \in Int
<1> DEFINE Q == {n \in Nat : \E s \in SUBSET S : Cardinality(s) = n
                                                /\ SumFunctionOnSet(f, s) \notin Int}
<1>1. Q = {}
  <2> SUFFICES ASSUME Q # {} PROVE FALSE
    OBVIOUS
  <2>1. PICK n \in Q : \A m \in Q : n <= m
    <3>1. Q \subseteq Nat
      OBVIOUS
    <3> HIDE DEF Q
    <3> QED
      BY <3>1, LeastNumber
  <2>2. PICK s \in SUBSET S : Cardinality(s) = n /\ SumFunctionOnSet(f, s) \notin Int
    OBVIOUS
  <2>3. s # {}
    <3> SUFFICES ASSUME s = {} PROVE FALSE
      OBVIOUS
    <3>1. SumFunctionOnSet(f, s) = 0
      BY SumUnfolds
    <3> HIDE DEF Q
    <3> QED
      BY <2>2, <3>1
  <2> DEFINE r == s \ {Some(s)}
  <2>4. Some(s) \in s /\ r \in SUBSET S /\ Cardinality(r) = Cardinality(s) - 1
        /\ Cardinality(s) \in Nat /\ Cardinality(s) # 0
    BY <2>3, SmallerSet
  <2>5. SumFunctionOnSet(f, r) \notin Int
    BY <2>2, <2>3, <2>4, SumUnfolds
  <2>6. n - 1 \in Q
    BY <2>2, <2>4, <2>5
  <2> HIDE DEF Q
  <2> QED
    BY <2>1, <2>2, <2>4, <2>6
<1> SUFFICES ASSUME NEW s \in SUBSET S PROVE SumFunctionOnSet(f, s) \in Int
  OBVIOUS
<1>2. Cardinality(s) \in Nat
  BY SmallerSet
<1> QED
  BY <1>1, <1>2

\* Any one element may be taken out first.
LEMMA SumSplits ==
  ASSUME NEW S, IsFiniteSet(S), NEW f \in [S -> Int]
  PROVE  \A s \in SUBSET S : \A x \in s :
             SumFunctionOnSet(f, s) = f[x] + SumFunctionOnSet(f, s \ {x})
<1> DEFINE Splits(s) ==
        \A x \in s : SumFunctionOnSet(f, s) = f[x] + SumFunctionOnSet(f, s \ {x})
<1> DEFINE Q == {n \in Nat : \E s \in SUBSET S : Cardinality(s) = n /\ ~Splits(s)}
<1>1. Q = {}
  <2> SUFFICES ASSUME Q # {} PROVE FALSE
    OBVIOUS
  <2>1. PICK n \in Q : \A m \in Q : n <= m
    <3>1. Q \subseteq Nat
      OBVIOUS
    <3> HIDE DEF Q
    <3> QED
      BY <3>1, LeastNumber
  <2>2. PICK s \in SUBSET S : n \in Nat /\ Cardinality(s) = n /\ ~Splits(s)
    OBVIOUS
  <2>3. PICK x \in s : SumFunctionOnSet(f, s) # f[x] + SumFunctionOnSet(f, s \ {x})
    BY <2>2
  <2> DEFINE y == Some(s)
  <2>4. y \in s /\ s \ {x} \in SUBSET S /\ s \ {y} \in SUBSET S
        /\ Cardinality(s \ {y}) = n - 1 /\ Cardinality(s \ {x}) = n - 1
        /\ n - 1 \in Nat
    BY <2>2, <2>3, SmallerSet
  <2>5. SumFunctionOnSet(f, s) = f[y] + SumFunctionOnSet(f, s \ {y})
    BY <2>3, SumUnfolds
  <2>6. x # y
    BY <2>3, <2>5
  <2>7. Splits(s \ {x}) /\ Splits(s \ {y})
    <3>1. n - 1 \notin Q
      <4> HIDE DEF Q
      <4> QED
        BY <2>1, <2>2, <2>4
    <3> QED
      BY <2>4, <3>1
  <2> DEFINE r == (s \ {x}) \ {y}
  <2>8. r = (s \ {y}) \ {x} /\ r \in SUBSET S
    OBVIOUS
  <2>9. SumFunctionOnSet(f, s \ {x}) = f[y] + SumFunctionOnSet(f, r)
    BY <2>4, <2>6, <2>7
  <2>10. SumFunctionOnSet(f, s \ {y}) = f[x] + SumFunctionOnSet(f, r)
    BY <2>3, <2>6, <2>7, <2>8
  <2>11. SumFunctionOnSet(f, r) \in Int /\ f[x] \in Int /\ f[y] \in Int
    BY <2>3, <2>4, <2>8, SumType
  <2> HIDE DEF r, Q, y
  <2> QED
    BY <2>3, <2>5, <2>9, <2>10, <2>11
<1> SUFFICES ASSUME NEW s \in SUBSET S PROVE Splits(s)
  OBVIOUS
<1>2. Cardinality(s) \in Nat
  BY SmallerSet
<1> QED
  BY <1>1, <1>2

\* Functions that agree have the same sum.
LEMMA SumSame ==
  ASSUME NEW S, IsFiniteSet(S), NEW f \in [S -> Int],
         NEW T, IsFiniteSet(T), NEW g \in [T -> Int],
         NEW R, R \subseteq S, R \subseteq T, \A x \in R : f[x] = g[x]
  PROVE  SumFunctionOnSet(f, R) = SumFunctionOnSet(g, R)
<1> DEFINE Q == {n \in Nat : \E s \in SUBSET R : Cardinality(s) = n
                    /\ SumFunctionOnSet(f, s) # SumFunctionOnSet(g, s)}
<1>1. Q = {}
  <2> SUFFICES ASSUME Q # {} PROVE FALSE
    OBVIOUS
  <2>1. PICK n \in Q : \A m \in Q : n <= m
    <3>1. Q \subseteq Nat
      OBVIOUS
    <3> HIDE DEF Q
    <3> QED
      BY <3>1, LeastNumber
  <2>2. PICK s \in SUBSET R : n \in Nat /\ Cardinality(s) = n
                              /\ SumFunctionOnSet(f, s) # SumFunctionOnSet(g, s)
    OBVIOUS
  <2> DEFINE r == s \ {Some(s)}
  <2>3. s \in SUBSET S /\ s \in SUBSET T
    OBVIOUS
  <2>4. s # {}
    BY <2>2, <2>3, SumUnfolds
  <2>5. Some(s) \in s /\ r \in SUBSET R /\ Cardinality(r) = n - 1 /\ n - 1 \in Nat
    BY <2>2, <2>3, <2>4, SmallerSet
  <2>6. SumFunctionOnSet(f, r) # SumFunctionOnSet(g, r)
    BY <2>2, <2>3, <2>4, <2>5, SumUnfolds
  <2>7. n - 1 \in Q
    BY <2>5, <2>6
  <2> HIDE DEF Q
  <2> QED
    BY <2>1, <2>2, <2>5, <2>7
<1>2. Cardinality(R) \in Nat
  <2>1. R \in SUBSET S
    OBVIOUS
  <2> QED
    BY <2>1, SmallerSet
<1>3. R \in SUBSET R
  OBVIOUS
<1> QED
  BY <1>1, <1>2, <1>3

\* The sum of all values of a function.
LEMMA SumIsInteger ==
  ASSUME NEW S, IsFiniteSet(S), NEW f \in [S -> Int]
  PROVE  SumFunction(f) \in Int /\ (S = {} => SumFunction(f) = 0)
<1>1. SumFunction(f) = SumFunctionOnSet(f, S)
  BY DEF SumFunction
<1>2. S \in SUBSET S
  OBVIOUS
<1>3. SumFunctionOnSet(f, S) \in Int
  BY <1>2, SumType
<1>4. S = {} => SumFunctionOnSet(f, S) = 0
  BY <1>2, SumUnfolds
<1> QED
  BY <1>1, <1>3, <1>4

\* f has one argument more than g.
Extends(f, g, x) == SumFunction(f) = SumFunction(g) + f[x]

\* One argument more adds its value.
LEMMA SumGrows ==
  ASSUME NEW S, IsFiniteSet(S), NEW f \in [S -> Int], NEW x \in S,
         NEW g \in [S \ {x} -> Int], \A y \in S \ {x} : g[y] = f[y]
  PROVE  SumFunction(f) = SumFunction(g) + f[x]
<1>1. SumFunction(f) = SumFunctionOnSet(f, S) /\ SumFunction(g) = SumFunctionOnSet(g, S \ {x})
  BY DEF SumFunction
<1>2. S \in SUBSET S /\ S \ {x} \subseteq S /\ S \ {x} \subseteq S \ {x}
      /\ S \ {x} \in SUBSET S /\ IsFiniteSet(S \ {x})
  BY FS_Subset
<1>3. SumFunctionOnSet(f, S) = f[x] + SumFunctionOnSet(f, S \ {x})
  BY <1>2, SumSplits
<1>4. SumFunctionOnSet(f, S \ {x}) = SumFunctionOnSet(g, S \ {x})
  BY <1>2, SumSame
<1>5. SumFunctionOnSet(f, S \ {x}) \in Int /\ f[x] \in Int
  BY <1>2, SumType
<1> QED
  BY <1>1, <1>3, <1>4, <1>5

\* The same, as one operator.
LEMMA SumExtends ==
  ASSUME NEW S, IsFiniteSet(S), NEW f \in [S -> Int], NEW x \in S,
         NEW g \in [S \ {x} -> Int], \A y \in S \ {x} : g[y] = f[y]
  PROVE  Extends(f, g, x)
BY SumGrows DEF Extends

\* A function with one value changed.
LEMMA SumChanges ==
  ASSUME NEW S, IsFiniteSet(S), NEW f \in [S -> Int], NEW g \in [S -> Int], NEW x \in S,
         \A y \in S \ {x} : g[y] = f[y]
  PROVE  SumFunction(g) = SumFunction(f) + g[x] - f[x]
<1> DEFINE r == [y \in S \ {x} |-> f[y]]
<1>1. r \in [S \ {x} -> Int] /\ \A y \in S \ {x} : r[y] = f[y] /\ r[y] = g[y]
  OBVIOUS
<1>2. IsFiniteSet(S \ {x})
  BY FS_Subset
<1> HIDE DEF r
<1>3. SumFunction(f) = SumFunction(r) + f[x]
  <2>1. r \in [S \ {x} -> Int] /\ \A y \in S \ {x} : r[y] = f[y]
    BY <1>1
  <2> QED
    BY <2>1, SumGrows, SMTT(30)
<1>4. SumFunction(g) = SumFunction(r) + g[x]
  <2>1. r \in [S \ {x} -> Int] /\ \A y \in S \ {x} : r[y] = g[y]
    BY <1>1
  <2> QED
    BY <2>1, SumGrows
<1>5. SumFunction(r) \in Int
  BY <1>1, <1>2, SumIsInteger
<1> QED
  BY <1>3, <1>4, <1>5
\* Parts that share nothing add up.
LEMMA SumOfParts ==
  ASSUME NEW S, IsFiniteSet(S), NEW f \in [S -> Int], NEW R \in SUBSET S
  PROVE  \A s \in SUBSET (S \ R) :
             SumFunctionOnSet(f, R \cup s) = SumFunctionOnSet(f, R) + SumFunctionOnSet(f, s)
<1> DEFINE Apart(s) ==
        SumFunctionOnSet(f, R \cup s) = SumFunctionOnSet(f, R) + SumFunctionOnSet(f, s)
<1> DEFINE Q == {n \in Nat : \E s \in SUBSET (S \ R) : Cardinality(s) = n /\ ~Apart(s)}
<1>0. SumFunctionOnSet(f, R) \in Int
  BY SumType
<1>1. Q = {}
  <2> SUFFICES ASSUME Q # {} PROVE FALSE
    OBVIOUS
  <2>1. PICK n \in Q : \A m \in Q : n <= m
    <3>1. Q \subseteq Nat
      OBVIOUS
    <3> HIDE DEF Q
    <3> QED
      BY <3>1, LeastNumber
  <2>2. PICK s \in SUBSET (S \ R) : n \in Nat /\ Cardinality(s) = n /\ ~Apart(s)
    OBVIOUS
  <2>3. s \in SUBSET S /\ R \cup s \in SUBSET S
    OBVIOUS
  <2>4. s # {}
    <3>1. ASSUME s = {} PROVE Apart(s)
      <4>1. SumFunctionOnSet(f, s) = 0 /\ R \cup s = R
        BY <2>3, <3>1, SumUnfolds
      <4> QED
        BY <1>0, <4>1
    <3> QED
      BY <2>2, <3>1
  <2>5. PICK x \in s : TRUE
    BY <2>4
  <2> DEFINE r == s \ {x}
  <2>6. r \in SUBSET (S \ R) /\ r \in SUBSET S /\ Cardinality(r) = n - 1 /\ n - 1 \in Nat
        /\ (R \cup s) \ {x} = R \cup r /\ x \in R \cup s
    <3>1. IsFiniteSet(s) /\ Cardinality(r) = Cardinality(s) - 1 /\ Cardinality(r) \in Nat
      BY <2>3, SmallerSet
    <3> QED
      BY <2>2, <3>1
  <2>7. SumFunctionOnSet(f, s) = f[x] + SumFunctionOnSet(f, r)
        /\ SumFunctionOnSet(f, R \cup s) = f[x] + SumFunctionOnSet(f, R \cup r)
    <3>1. SumFunctionOnSet(f, s) = f[x] + SumFunctionOnSet(f, r)
      BY <2>3, SumSplits
    <3>2. SumFunctionOnSet(f, R \cup s) = f[x] + SumFunctionOnSet(f, (R \cup s) \ {x})
      BY <2>3, <2>6, SumSplits
    <3> QED
      BY <2>6, <3>1, <3>2
  <2>8. Apart(r)
    <3>1. n - 1 \notin Q
      <4> HIDE DEF Q
      <4> QED
        BY <2>1, <2>2, <2>6
    <3> QED
      BY <2>6, <3>1
  <2>9. SumFunctionOnSet(f, r) \in Int /\ f[x] \in Int
    BY <2>3, <2>6, SumType
  <2> HIDE DEF r, Q
  <2> QED
    BY <1>0, <2>2, <2>7, <2>8, <2>9
<1> SUFFICES ASSUME NEW s \in SUBSET (S \ R) PROVE Apart(s)
  OBVIOUS
<1>2. s \in SUBSET S
  OBVIOUS
<1>3. Cardinality(s) \in Nat
  BY <1>2, SmallerSet
<1> QED
  BY <1>1, <1>3

\* What is nowhere negative adds up to no less than zero, and what is zero to
\* zero.
LEMMA SumNotNegative ==
  ASSUME NEW S, IsFiniteSet(S), NEW f \in [S -> Int]
  PROVE  \A s \in SUBSET S :
             /\ (\A x \in s : f[x] >= 0) => SumFunctionOnSet(f, s) >= 0
             /\ (\A x \in s : f[x] = 0) => SumFunctionOnSet(f, s) = 0
<1> DEFINE Fair(s) == /\ (\A x \in s : f[x] >= 0) => SumFunctionOnSet(f, s) >= 0
                      /\ (\A x \in s : f[x] = 0) => SumFunctionOnSet(f, s) = 0
<1> DEFINE Q == {n \in Nat : \E s \in SUBSET S : Cardinality(s) = n /\ ~Fair(s)}
<1>1. Q = {}
  <2> SUFFICES ASSUME Q # {} PROVE FALSE
    OBVIOUS
  <2>1. PICK n \in Q : \A m \in Q : n <= m
    <3>1. Q \subseteq Nat
      OBVIOUS
    <3> HIDE DEF Q
    <3> QED
      BY <3>1, LeastNumber
  <2>2. PICK s \in SUBSET S : n \in Nat /\ Cardinality(s) = n /\ ~Fair(s)
    OBVIOUS
  <2>3. s # {}
    <3>1. ASSUME s = {} PROVE Fair(s)
      <4>1. SumFunctionOnSet(f, s) = 0
        BY <3>1, SumUnfolds
      <4> QED
        BY <4>1
    <3> QED
      BY <2>2, <3>1
  <2>4. PICK x \in s : TRUE
    BY <2>3
  <2> DEFINE r == s \ {x}
  <2>5. r \in SUBSET S /\ Cardinality(r) = n - 1 /\ n - 1 \in Nat /\ r \subseteq s
    <3>1. IsFiniteSet(s) /\ Cardinality(r) = Cardinality(s) - 1 /\ Cardinality(r) \in Nat
      BY SmallerSet
    <3> QED
      BY <2>2, <3>1
  <2>6. SumFunctionOnSet(f, s) = f[x] + SumFunctionOnSet(f, r)
    BY SumSplits
  <2>7. Fair(r)
    <3>1. n - 1 \notin Q
      <4> HIDE DEF Q
      <4> QED
        BY <2>1, <2>2, <2>5
    <3> QED
      BY <2>5, <3>1
  <2>8. SumFunctionOnSet(f, r) \in Int /\ f[x] \in Int
    BY <2>5, SumType
  <2> HIDE DEF r, Q
  <2> QED
    BY <2>2, <2>5, <2>6, <2>7, <2>8
<1> SUFFICES ASSUME NEW s \in SUBSET S PROVE Fair(s)
  OBVIOUS
<1>2. Cardinality(s) \in Nat
  BY SmallerSet
<1> QED
  BY <1>1, <1>2

\* A part of what is nowhere negative is at most the whole.
LEMMA SumOfPart ==
  ASSUME NEW S, IsFiniteSet(S), NEW f \in [S -> Int], NEW T \in SUBSET S, NEW R \in SUBSET T,
         \A x \in T : f[x] >= 0
  PROVE  SumFunctionOnSet(f, R) <= SumFunctionOnSet(f, T)
<1> DEFINE s == T \ R
<1>1. s \in SUBSET (S \ R) /\ s \in SUBSET S /\ R \in SUBSET S /\ R \cup s = T
  OBVIOUS
<1> HIDE DEF s
<1>2. SumFunctionOnSet(f, R \cup s) = SumFunctionOnSet(f, R) + SumFunctionOnSet(f, s)
  BY <1>1, SumOfParts
<1>3. SumFunctionOnSet(f, s) >= 0
  BY <1>1, SumNotNegative
<1>4. SumFunctionOnSet(f, R) \in Int /\ SumFunctionOnSet(f, s) \in Int
  BY <1>1, SumType
<1>5. SumFunctionOnSet(f, T) = SumFunctionOnSet(f, R \cup s)
  BY <1>1, Zenon
<1> QED
  BY <1>2, <1>3, <1>4, <1>5
\* One element more in the set.
LEMMA SumAdds ==
  ASSUME NEW S, IsFiniteSet(S), NEW f \in [S -> Int], NEW s \in SUBSET S, NEW x \in S, x \notin s
  PROVE  SumFunctionOnSet(f, s \cup {x}) = SumFunctionOnSet(f, s) + f[x]
<1> DEFINE t == s \cup {x}
<1>1. t \in SUBSET S /\ x \in t /\ t \ {x} = s
  OBVIOUS
<1> HIDE DEF t
<1>2. SumFunctionOnSet(f, t) = f[x] + SumFunctionOnSet(f, t \ {x})
  BY <1>1, SumSplits
<1>3. SumFunctionOnSet(f, t \ {x}) = SumFunctionOnSet(f, s)
  BY <1>1, Zenon
<1>4. SumFunctionOnSet(f, s) \in Int /\ f[x] \in Int
  BY SumType
<1>5. SumFunctionOnSet(f, t) = SumFunctionOnSet(f, s) + f[x]
  BY <1>2, <1>3, <1>4
<1> QED
  BY <1>5 DEF t
=============================================================================
