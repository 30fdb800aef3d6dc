------------------------------ MODULE SetLemmas ------------------------------
(***************************************************************************)
(* What the proofs need of numbers and finite sets: least and greatest     *)
(* members, sums over a finite set (MapThenSumSet of FiniteSetsExt),       *)
(* runs of a step function and remainders.                                 *)
(*                                                                         *)
(* Induction is by a least counterexample (WFMin), so that no lemma has an *)
(* operator as a parameter: what is summed is a function.                  *)
(***************************************************************************)
EXTENDS Integers, FiniteSets, FiniteSetsExt, FiniteSetTheorems,
        WellFoundedInduction, TLAPS

----------------------------------------------------------------------------
(* Least and greatest members.                                             *)

\* A nonempty set of naturals has a least member.
LEMMA LeastNatural ==
    ASSUME NEW T, T \subseteq Nat, T # {}
    PROVE  \E x \in T : \A y \in T : x <= y
<1> DEFINE R == OpToRel(<, Nat)
<1>1. IsWellFoundedOn(R, Nat)
  BY NatLessThanWellFounded
<1>2. R = {p \in Nat \X Nat : p[1] < p[2]}
  BY DEF OpToRel
<1> HIDE DEF R
<1>3. PICK x \in T : \A y \in T : <<y, x>> \notin R
  BY <1>1, WFMin
<1>4. ASSUME NEW y \in T, y < x PROVE FALSE
  <2>1. x \in Nat /\ y \in Nat
    OBVIOUS
  <2>2. <<y, x>> \in Nat \X Nat /\ <<y, x>>[1] = y /\ <<y, x>>[2] = x
    BY <2>1
  <2>3. <<y, x>> \in R
    BY <1>2, <1>4, <2>2
  <2> QED
    BY <1>3, <2>3
<1>5. \A y \in T : y \in Nat /\ x \in Nat
  OBVIOUS
<1> QED
  BY <1>4, <1>5

\* Induction: a set of naturals that holds n whenever it holds all before n.
LEMMA NaturalsReached ==
    ASSUME NEW T, \A n \in Nat : (\A m \in Nat : m < n => m \in T) => n \in T
    PROVE  Nat \subseteq T
<1> DEFINE Missing == {n \in Nat : n \notin T}
<1> SUFFICES ASSUME Missing # {} PROVE FALSE
  OBVIOUS
<1>1. PICK x \in Missing : \A y \in Missing : x <= y
  <2> HIDE DEF Missing
  <2>1. Missing \subseteq Nat
    BY DEF Missing
  <2> QED
    BY <2>1, LeastNatural
<1>2. \A m \in Nat : m < x => m \in T
  BY <1>1
<1> QED
  BY <1>1, <1>2

LEMMA MinIsThere ==
    ASSUME NEW S, S \subseteq Nat, S # {}
    PROVE  Min(S) \in S /\ \A y \in S : Min(S) <= y
<1>1. \E x \in S : \A y \in S : x <= y
  BY LeastNatural
<1> QED
  BY <1>1 DEF Min

LEMMA MaxIsThere ==
    ASSUME NEW S, S \subseteq Int, S # {}, NEW b \in Int, \A x \in S : x <= b
    PROVE  Max(S) \in S /\ \A y \in S : y <= Max(S)
<1> DEFINE T == {b - x : x \in S}
<1>1. T \subseteq Nat /\ T # {}
  <2>1. ASSUME NEW x \in S PROVE b - x \in Nat
    BY x \in Int /\ x <= b
  <2> QED
    BY <2>1
<1>2. PICK d \in T : \A e \in T : d <= e
  <2> HIDE DEF T
  <2> QED
    BY <1>1, LeastNatural
<1>3. PICK x \in S : d = b - x
  BY <1>2
<1>4. \A y \in S : x >= y
  <2>1. ASSUME NEW y \in S PROVE x >= y
    <3>1. b - y \in T
      OBVIOUS
    <3>2. b - x <= b - y
      BY <1>2, <1>3, <3>1
    <3> QED
      BY <3>2
  <2> QED
    BY <2>1
<1>5. Max(S) \in S /\ \A y \in S : Max(S) >= y
  BY <1>4 DEF Max
<1>6. Max(S) \in Int /\ \A y \in S : y \in Int
  BY <1>5
<1> QED
  BY <1>5, <1>6

----------------------------------------------------------------------------
(* Sums.                                                                   *)

Picked(s) == CHOOSE x \in s : TRUE

\* The value of a sum at a set, given its values at smaller ones.
Term(w, g, s) == IF s = {} THEN 0 ELSE w[Picked(s)] + g[s \ {Picked(s)}]

Sums(w, S, g) == g = [s \in SUBSET S |-> Term(w, g, s)]

SumTable(w, S) == CHOOSE g : Sums(w, S, g)

\* The sum of w over S.
Sigma(w, S) == MapThenSumSet(LAMBDA x : w[x], S)

LEMMA SigmaIs == ASSUME NEW w, NEW S PROVE Sigma(w, S) = SumTable(w, S)[S]
  BY DEF Sigma, MapThenSumSet, MapThenFoldSet, SumTable, Sums, Term, Picked

LEMMA PickedIsThere == ASSUME NEW s, s # {} PROVE Picked(s) \in s
  BY DEF Picked

\* The subsets of S that have at most n elements.
Small(S, n) == {s \in SUBSET S : Cardinality(s) <= n}

SumsUpTo(w, S, n) ==
    \E g \in [Small(S, n) -> Int] : \A s \in Small(S, n) : g[s] = Term(w, g, s)

LEMMA SmallerByOne ==
    ASSUME NEW S, IsFiniteSet(S), NEW s \in SUBSET S, s # {}
    PROVE  /\ Picked(s) \in s /\ s \ {Picked(s)} \in SUBSET S
           /\ IsFiniteSet(s) /\ Cardinality(s) \in Nat /\ Cardinality(s) >= 1
           /\ Cardinality(s \ {Picked(s)}) = Cardinality(s) - 1
<1>1. IsFiniteSet(s) /\ Picked(s) \in s
  BY FS_Subset, PickedIsThere
<1>2. Cardinality(s) \in Nat /\ Cardinality(s) # 0
  BY <1>1, FS_CardinalityType, FS_EmptySet
<1>3. Cardinality(s \ {Picked(s)}) = Cardinality(s) - 1
  BY <1>1, FS_RemoveElement
<1> QED
  BY <1>1, <1>2, <1>3

\* Sums can be built up by size.
LEMMA SumsGrow ==
    ASSUME NEW S, IsFiniteSet(S), NEW w, \A x \in S : w[x] \in Int, NEW n \in Nat, SumsUpTo(w, S, n)
    PROVE  SumsUpTo(w, S, n + 1)
<1>1. PICK g \in [Small(S, n) -> Int] : \A s \in Small(S, n) : g[s] = Term(w, g, s)
  BY DEF SumsUpTo
<1> DEFINE h == [s \in Small(S, n + 1) |-> IF s \in Small(S, n) THEN g[s] ELSE Term(w, g, s)]
<1>2. Small(S, n) \subseteq Small(S, n + 1)
  <2>1. \A s \in SUBSET S : Cardinality(s) \in Nat
    BY FS_Subset, FS_CardinalityType
  <2> QED
    BY <2>1 DEF Small
<1>3. \A s \in Small(S, n + 1) : s # {} => /\ s \ {Picked(s)} \in Small(S, n)
                                          /\ w[Picked(s)] \in Int
  BY SmallerByOne DEF Small
<1>4. h \in [Small(S, n + 1) -> Int]
  <2>1. \A s \in Small(S, n + 1) : Term(w, g, s) \in Int
    BY <1>3 DEF Term
  <2> QED
    BY <2>1
<1>5. \A s \in Small(S, n) : h[s] = g[s]
  BY <1>2
<1>6. ASSUME NEW s \in Small(S, n + 1) PROVE h[s] = Term(w, h, s)
  <2>1. h[s] = Term(w, g, s)
    BY <1>1
  <2> HIDE DEF h
  <2>2. Term(w, g, s) = Term(w, h, s)
    BY <1>3, <1>5 DEF Term
  <2> QED
    BY <2>1, <2>2
<1> HIDE DEF h
<1> QED
  BY <1>4, <1>6 DEF SumsUpTo

\* Every finite set has its sums.
LEMMA SumsExist ==
    ASSUME NEW S, IsFiniteSet(S), NEW w, \A x \in S : w[x] \in Int
    PROVE  \E g \in [SUBSET S -> Int] : Sums(w, S, g)
<1> DEFINE T == {n \in Nat : SumsUpTo(w, S, n)}
<1>1. 0 \in T
  <2> DEFINE g == [s \in Small(S, 0) |-> 0]
  <2>1. \A s \in Small(S, 0) : s = {}
    <3>1. ASSUME NEW s \in Small(S, 0) PROVE s = {}
      <4>1. IsFiniteSet(s) /\ Cardinality(s) \in Nat /\ Cardinality(s) <= 0
        BY FS_Subset, FS_CardinalityType DEF Small
      <4> QED
        BY <4>1, FS_EmptySet
    <3> QED
      BY <3>1
  <2>2. g \in [Small(S, 0) -> Int] /\ \A s \in Small(S, 0) : g[s] = Term(w, g, s)
    BY <2>1 DEF Term
  <2> HIDE DEF g
  <2> QED
    BY <2>2 DEF SumsUpTo
<1>2. \A n \in Nat : (\A m \in Nat : m < n => m \in T) => n \in T
  <2>1. ASSUME NEW n \in Nat, \A m \in Nat : m < n => m \in T PROVE n \in T
    <3>1. CASE n = 0
      BY <1>1, <3>1
    <3>2. CASE n # 0
      <4>1. n - 1 \in Nat /\ n - 1 < n /\ (n - 1) + 1 = n
        BY <3>2
      <4>2. SumsUpTo(w, S, n - 1)
        BY <2>1, <4>1
      <4>3. SumsUpTo(w, S, (n - 1) + 1)
        BY <4>1, <4>2, SumsGrow
      <4> QED
        BY <4>1, <4>3
    <3> QED
      BY <3>1, <3>2
  <2> QED
    BY <2>1
<1>3. Nat \subseteq T
  <2> HIDE DEF T
  <2> QED
    BY <1>2, NaturalsReached
<1>4. Cardinality(S) \in Nat
  BY FS_CardinalityType
<1>5. Small(S, Cardinality(S)) = SUBSET S
  BY FS_Subset DEF Small
<1>6. PICK g \in [SUBSET S -> Int] : \A s \in SUBSET S : g[s] = Term(w, g, s)
  BY <1>3, <1>4, <1>5 DEF SumsUpTo
<1> QED
  BY <1>6 DEF Sums

LEMMA SumTableSums ==
    ASSUME NEW S, IsFiniteSet(S), NEW w, \A x \in S : w[x] \in Int
    PROVE  Sums(w, S, SumTable(w, S))
  BY SumsExist DEF SumTable

\* They are the only ones, and depend on nothing but the set.
LEMMA SumsAgree ==
    ASSUME NEW S, NEW w, NEW g, Sums(w, S, g),
           NEW R, NEW v, NEW h, Sums(v, R, h),
           NEW T \in SUBSET S, T \in SUBSET R, IsFiniteSet(T), \A x \in T : w[x] = v[x]
    PROVE  g[T] = h[T]
<1> DEFINE N == {n \in Nat : \A s \in SUBSET T : Cardinality(s) = n => g[s] = h[s]}
<1>1. \A n \in Nat : (\A m \in Nat : m < n => m \in N) => n \in N
  <2>1. ASSUME NEW n \in Nat, \A m \in Nat : m < n => m \in N,
               NEW s \in SUBSET T, Cardinality(s) = n
        PROVE  g[s] = h[s]
    <3>1. g[s] = Term(w, g, s) /\ h[s] = Term(v, h, s)
      BY DEF Sums
    <3>2. CASE s = {}
      BY <3>1, <3>2 DEF Term
    <3>3. CASE s # {}
      <4> DEFINE r == s \ {Picked(s)}
      <4>1. Picked(s) \in T /\ r \in SUBSET T /\ Cardinality(r) = n - 1 /\ n >= 1
        BY <2>1, <3>3, SmallerByOne
      <4>2. g[r] = h[r]
        BY <2>1, <4>1
      <4> QED
        BY <3>1, <3>3, <4>1, <4>2 DEF Term
    <3> QED
      BY <3>2, <3>3
  <2> QED
    BY <2>1
<1>2. Nat \subseteq N
  <2> HIDE DEF N
  <2> QED
    BY <1>1, NaturalsReached
<1>3. Cardinality(T) \in Nat
  BY FS_CardinalityType
<1> QED
  BY <1>2, <1>3

LEMMA SumTableTypes ==
    ASSUME NEW S, IsFiniteSet(S), NEW w, \A x \in S : w[x] \in Int, NEW T \in SUBSET S
    PROVE  SumTable(w, S)[T] \in Int /\ SumTable(w, S)[T] = Sigma(w, T)
<1>1. PICK g \in [SUBSET S -> Int] : Sums(w, S, g)
  BY SumsExist
<1>2. IsFiniteSet(T) /\ T \in SUBSET T /\ \A x \in T : w[x] \in Int
  BY FS_Subset
<1>3. SumTable(w, S)[T] = g[T]
  BY <1>1, <1>2, SumTableSums, SumsAgree
<1>4. SumTable(w, S)[T] = SumTable(w, T)[T]
  BY <1>2, SumTableSums, SumsAgree
<1> QED
  BY <1>1, <1>3, <1>4, SigmaIs

\* A sum depends on what is summed over its set only.
LEMMA SigmaSame ==
    ASSUME NEW S, IsFiniteSet(S), NEW w, \A x \in S : w[x] \in Int,
           NEW v, \A x \in S : v[x] = w[x]
    PROVE  Sigma(v, S) = Sigma(w, S)
<1>1. Sums(w, S, SumTable(w, S)) /\ Sums(v, S, SumTable(v, S))
  BY SumTableSums
<1>2. SumTable(v, S)[S] = SumTable(w, S)[S]
  BY <1>1, SumsAgree
<1> QED
  BY <1>2, SigmaIs

LEMMA SigmaType ==
    ASSUME NEW S, IsFiniteSet(S), NEW w, \A x \in S : w[x] \in Int
    PROVE  Sigma(w, S) \in Int
  BY SumTableTypes, SigmaIs

LEMMA SigmaEmpty == \A w : Sigma(w, {}) = 0
<1> TAKE w
<1>1. IsFiniteSet({})
  BY FS_EmptySet
<1>2. Sums(w, {}, SumTable(w, {}))
  BY <1>1, SumTableSums
<1>3. SumTable(w, {})[{}] = 0
  BY <1>2 DEF Sums, Term
<1> QED
  BY <1>3, SigmaIs

LEMMA SigmaPicked ==
    ASSUME NEW S, IsFiniteSet(S), NEW w, \A x \in S : w[x] \in Int, S # {}
    PROVE  Sigma(w, S) = w[Picked(S)] + Sigma(w, S \ {Picked(S)})
<1>1. Sums(w, S, SumTable(w, S)) /\ S \in SUBSET S /\ S \ {Picked(S)} \in SUBSET S
  BY SumTableSums
<1>2. SumTable(w, S)[S] = w[Picked(S)] + SumTable(w, S)[S \ {Picked(S)}]
  BY <1>1 DEF Sums, Term
<1> QED
  BY <1>1, <1>2, SumTableTypes

\* Any member of a set may be the one that is counted last.
LEMMA SigmaRemove ==
    ASSUME NEW S, IsFiniteSet(S), NEW w, \A x \in S : w[x] \in Int, NEW a \in S
    PROVE  Sigma(w, S) = w[a] + Sigma(w, S \ {a})
<1> DEFINE N == {n \in Nat : \A s \in SUBSET S : Cardinality(s) = n =>
                               \A x \in s : Sigma(w, s) = w[x] + Sigma(w, s \ {x})}
<1>1. \A n \in Nat : (\A m \in Nat : m < n => m \in N) => n \in N
  <2>1. ASSUME NEW n \in Nat, \A m \in Nat : m < n => m \in N,
               NEW s \in SUBSET S, Cardinality(s) = n, NEW x \in s
        PROVE  Sigma(w, s) = w[x] + Sigma(w, s \ {x})
    <3> DEFINE p == Picked(s)
               r == s \ {p}
               t == s \ {x}
               both == s \ {p, x}
    <3>1. /\ p \in s /\ r \in SUBSET S /\ Cardinality(r) = n - 1 /\ n >= 1
          /\ IsFiniteSet(s) /\ Cardinality(s) \in Nat
      BY <2>1, SmallerByOne
    <3>2. Sigma(w, s) = w[p] + Sigma(w, r)
      BY <3>1, SigmaPicked
    <3>3. CASE x = p
      BY <3>2, <3>3
    <3>4. CASE x # p
      <4>1. x \in r /\ r \ {x} = both /\ p \in t /\ t \ {p} = both /\ t \in SUBSET S
        BY <3>1, <3>4
      <4>2. Sigma(w, r) = w[x] + Sigma(w, both)
        BY <2>1, <3>1, <4>1
      <4>3. Cardinality(t) = n - 1
        BY <2>1, <3>1, FS_RemoveElement
      <4>4. Sigma(w, t) = w[p] + Sigma(w, both)
        BY <2>1, <3>1, <4>1, <4>3
      <4>5. w[p] \in Int /\ w[x] \in Int /\ Sigma(w, both) \in Int
        <5>1. both \in SUBSET S /\ IsFiniteSet(both)
          BY FS_Subset
        <5> QED
          BY <3>1, <5>1, SigmaType
      <4> HIDE DEF p, r, t, both
      <4>6. Sigma(w, s) = w[x] + Sigma(w, t)
        BY <3>2, <4>2, <4>4, <4>5
      <4> QED
        BY <4>6 DEF t
    <3> QED
      BY <3>3, <3>4
  <2> QED
    BY <2>1
<1>2. Nat \subseteq N
  <2> HIDE DEF N
  <2> QED
    BY <1>1, NaturalsReached
<1>3. Cardinality(S) \in Nat
  BY FS_CardinalityType
<1> QED
  BY <1>2, <1>3

LEMMA SigmaAdd ==
    ASSUME NEW S, IsFiniteSet(S), NEW w, \A x \in S : w[x] \in Int,
           NEW a, a \notin S, w[a] \in Int
    PROVE  Sigma(w, S \cup {a}) = w[a] + Sigma(w, S)
<1>1. IsFiniteSet(S \cup {a}) /\ (S \cup {a}) \ {a} = S /\ a \in S \cup {a}
  BY FS_AddElement
<1> QED
  BY <1>1, SigmaRemove

-----------------------------------------------------------------------------
\* Induction over the subsets of a finite set: what holds of the empty set and
\* survives the addition of one member holds of all of them.
LEMMA SubsetsReached ==
    ASSUME NEW S, IsFiniteSet(S), NEW T, {} \in T,
           \A s \in SUBSET S : s \in T => \A x \in S \ s : s \cup {x} \in T
    PROVE  SUBSET S \subseteq T
<1> DEFINE N == {n \in Nat : \A s \in SUBSET S : Cardinality(s) = n => s \in T}
<1>1. \A n \in Nat : (\A m \in Nat : m < n => m \in N) => n \in N
  <2>1. ASSUME NEW n \in Nat, \A m \in Nat : m < n => m \in N,
               NEW s \in SUBSET S, Cardinality(s) = n
        PROVE  s \in T
    <3>1. CASE s = {}
      BY <3>1
    <3>2. CASE s # {}
      <4> DEFINE p == Picked(s)
                 r == s \ {p}
      <4>1. /\ p \in s /\ r \in SUBSET S /\ Cardinality(r) = n - 1 /\ n >= 1
        BY <2>1, <3>2, SmallerByOne
      <4>2. n - 1 \in Nat /\ n - 1 < n
        BY <4>1
      <4>3. r \in T
        BY <2>1, <4>1, <4>2
      <4>4. r \cup {p} = s /\ p \in S \ r
        BY <4>1
      <4> HIDE DEF p, r
      <4> QED
        BY <4>1, <4>3, <4>4
    <3> QED
      BY <3>1, <3>2
  <2> QED
    BY <2>1
<1>2. Nat \subseteq N
  <2> HIDE DEF N
  <2> QED
    BY <1>1, NaturalsReached
<1>3. \A s \in SUBSET S : Cardinality(s) \in Nat
  BY FS_Subset, FS_CardinalityType
<1> QED
  BY <1>2, <1>3

\* A sum over two disjoint sets.
LEMMA SigmaUnion ==
    ASSUME NEW S, IsFiniteSet(S), NEW w, \A x \in S : w[x] \in Int,
           NEW A \in SUBSET S, NEW B \in SUBSET S, A \cap B = {}
    PROVE  Sigma(w, A \cup B) = Sigma(w, A) + Sigma(w, B)
<1> DEFINE T == {s \in SUBSET A : Sigma(w, s \cup B) = Sigma(w, s) + Sigma(w, B)}
<1>1. IsFiniteSet(A) /\ IsFiniteSet(B) /\ Sigma(w, B) \in Int
  BY FS_Subset, SigmaType
<1>2. {} \in T
  BY <1>1, SigmaEmpty
<1>3. ASSUME NEW s \in SUBSET A, s \in T, NEW x \in A \ s PROVE s \cup {x} \in T
  <2>1. IsFiniteSet(s) /\ IsFiniteSet(s \cup B) /\ x \notin s \cup B /\ w[x] \in Int
    BY <1>1, FS_Subset, FS_Union
  <2>2. Sigma(w, s \cup {x}) = w[x] + Sigma(w, s) /\ Sigma(w, s) \in Int
    BY <2>1, SigmaAdd, SigmaType
  <2>3. Sigma(w, (s \cup B) \cup {x}) = w[x] + Sigma(w, s \cup B)
    BY <2>1, SigmaAdd
  <2>4. (s \cup {x}) \cup B = (s \cup B) \cup {x}
    OBVIOUS
  <2>5. Sigma(w, s \cup B) = Sigma(w, s) + Sigma(w, B)
    BY <1>3
  <2>6. Sigma(w, (s \cup {x}) \cup B) = w[x] + Sigma(w, s \cup B)
    BY <2>3, <2>4, Zenon
  <2>7. w[x] + (Sigma(w, s) + Sigma(w, B)) = (w[x] + Sigma(w, s)) + Sigma(w, B)
    BY <1>1, <2>1, <2>2
  <2>8. Sigma(w, (s \cup {x}) \cup B) = Sigma(w, s \cup {x}) + Sigma(w, B)
    BY <2>2, <2>5, <2>6, <2>7, Zenon
  <2> QED
    BY <2>8
<1>4. SUBSET A \subseteq T
  <2> HIDE DEF T
  <2> QED
    BY <1>1, <1>2, <1>3, SubsetsReached
<1> QED
  BY <1>4

\* A sum of naturals is one, and no term exceeds it.
LEMMA SigmaNat ==
    ASSUME NEW S, IsFiniteSet(S), NEW w, \A x \in S : w[x] \in Nat
    PROVE  Sigma(w, S) \in Nat /\ \A x \in S : w[x] <= Sigma(w, S)
<1> DEFINE T == {s \in SUBSET S : Sigma(w, s) \in Nat}
<1>1. {} \in T
  BY SigmaEmpty
<1>2. ASSUME NEW s \in SUBSET S, s \in T, NEW x \in S \ s PROVE s \cup {x} \in T
  <2>1. Sigma(w, s \cup {x}) = w[x] + Sigma(w, s)
    BY FS_Subset, SigmaAdd
  <2> QED
    BY <1>2, <2>1
<1>3. SUBSET S \subseteq T
  <2> HIDE DEF T
  <2> QED
    BY <1>1, <1>2, SubsetsReached
<1>4. ASSUME NEW x \in S PROVE w[x] <= Sigma(w, S)
  <2>1. Sigma(w, S) = w[x] + Sigma(w, S \ {x})
    BY SigmaRemove
  <2>2. Sigma(w, S \ {x}) \in Nat
    BY <1>3
  <2> QED
    BY <2>1, <2>2
<1> QED
  BY <1>3, <1>4

LEMMA SigmaZero ==
    ASSUME NEW S, IsFiniteSet(S), NEW w, \A x \in S : w[x] = 0
    PROVE  Sigma(w, S) = 0
<1> DEFINE T == {s \in SUBSET S : Sigma(w, s) = 0}
<1>1. {} \in T
  BY SigmaEmpty
<1>2. ASSUME NEW s \in SUBSET S, s \in T, NEW x \in S \ s PROVE s \cup {x} \in T
  <2>1. IsFiniteSet(s) /\ w[x] \in Int /\ \A y \in s : w[y] \in Int
    BY FS_Subset
  <2>2. Sigma(w, s \cup {x}) = w[x] + Sigma(w, s)
    BY <2>1, SigmaAdd
  <2> QED
    BY <1>2, <2>2
<1>3. SUBSET S \subseteq T
  <2> HIDE DEF T
  <2> QED
    BY <1>1, <1>2, SubsetsReached
<1> QED
  BY <1>3

\* A sum over disjoint parts, part by part.
LEMMA SigmaParts ==
    ASSUME NEW S, IsFiniteSet(S), NEW w, \A x \in S : w[x] \in Int,
           NEW K, IsFiniteSet(K), NEW part, \A k \in K : part[k] \in SUBSET S,
           \A k, l \in K : k # l => part[k] \cap part[l] = {},
           NEW total, \A k \in K : total[k] = Sigma(w, part[k])
    PROVE  Sigma(total, K) = Sigma(w, UNION {part[k] : k \in K})
<1> DEFINE Whole(s) == UNION {part[k] : k \in s}
           T == {s \in SUBSET K : Sigma(total, s) = Sigma(w, Whole(s))}
<1>1. {} \in T
  BY SigmaEmpty
<1>2. ASSUME NEW s \in SUBSET K, s \in T, NEW x \in K \ s PROVE s \cup {x} \in T
  <2>1. ASSUME NEW k \in K PROVE IsFiniteSet(part[k]) /\ total[k] \in Int
    <3>1. IsFiniteSet(part[k]) /\ \A y \in part[k] : w[y] \in Int
      BY FS_Subset
    <3> QED
      BY <3>1, SigmaType
  <2>2. IsFiniteSet(s)
    BY FS_Subset
  <2>3. Sigma(total, s \cup {x}) = total[x] + Sigma(total, s)
    BY <2>1, <2>2, SigmaAdd
  <2>4. Whole(s) \in SUBSET S /\ part[x] \in SUBSET S /\ part[x] \cap Whole(s) = {}
    OBVIOUS
  <2>5. Sigma(w, part[x] \cup Whole(s)) = Sigma(w, part[x]) + Sigma(w, Whole(s))
    <3> HIDE DEF Whole
    <3> QED
      BY <2>4, SigmaUnion
  <2>6. Whole(s \cup {x}) = part[x] \cup Whole(s)
    OBVIOUS
  <2>7. Sigma(total, s) = Sigma(w, Whole(s)) /\ total[x] = Sigma(w, part[x])
    BY <1>2
  <2> HIDE DEF Whole
  <2> QED
    BY <2>3, <2>5, <2>6, <2>7
<1>3. SUBSET K \subseteq T
  <2> HIDE DEF T
  <2> QED
    BY <1>1, <1>2, SubsetsReached
<1>4. K \in T
  <2> HIDE DEF T
  <2> QED
    BY <1>3
<1> QED
  BY <1>4

\* A sum over a part of the set is not larger.
LEMMA SigmaPart ==
    ASSUME NEW S, IsFiniteSet(S), NEW w, \A x \in S : w[x] \in Nat, NEW A \in SUBSET S
    PROVE  Sigma(w, A) \in Nat /\ Sigma(w, A) <= Sigma(w, S)
<1>1. IsFiniteSet(A) /\ IsFiniteSet(S \ A)
  BY FS_Subset
<1>2. Sigma(w, A) \in Nat /\ Sigma(w, S \ A) \in Nat
  BY <1>1, SigmaNat
<1>3. A \cup (S \ A) = S /\ A \cap (S \ A) = {} /\ S \ A \in SUBSET S
  OBVIOUS
<1>4. Sigma(w, A \cup (S \ A)) = Sigma(w, A) + Sigma(w, S \ A)
  <2>1. \A x \in S : w[x] \in Int
    OBVIOUS
  <2> QED
    BY <1>3, <2>1, SigmaUnion
<1>5. Sigma(w, S) = Sigma(w, A) + Sigma(w, S \ A)
  BY <1>3, <1>4, Zenon
<1> QED
  BY <1>2, <1>5

\* A sum over the image of a set, when no two members have the same image.
LEMMA SigmaImage ==
    ASSUME NEW S, IsFiniteSet(S), NEW f, \A x, y \in S : f[x] = f[y] => x = y,
           NEW w, \A x \in S : w[f[x]] \in Int, NEW v, \A x \in S : v[x] = w[f[x]]
    PROVE  IsFiniteSet({f[x] : x \in S}) /\ Sigma(w, {f[x] : x \in S}) = Sigma(v, S)
<1> DEFINE Image(s) == {f[x] : x \in s}
           T == {s \in SUBSET S : IsFiniteSet(Image(s)) /\ Sigma(w, Image(s)) = Sigma(v, s)}
<1>1. {} \in T
  <2>1. Image({}) = {}
    OBVIOUS
  <2> QED
    BY <2>1, FS_EmptySet, SigmaEmpty
<1>2. ASSUME NEW s \in SUBSET S, s \in T, NEW x \in S \ s PROVE s \cup {x} \in T
  <2>1. Image(s \cup {x}) = Image(s) \cup {f[x]} /\ f[x] \notin Image(s)
    OBVIOUS
  <2>2. IsFiniteSet(Image(s)) /\ Sigma(w, Image(s)) = Sigma(v, s) /\ \A y \in Image(s) : w[y] \in Int
    BY <1>2
  <2>3. /\ IsFiniteSet(s) /\ v[x] = w[f[x]] /\ v[x] \in Int /\ w[f[x]] \in Int
        /\ \A y \in s : v[y] \in Int
    BY FS_Subset
  <2> HIDE DEF Image
  <2>4. Sigma(w, Image(s) \cup {f[x]}) = w[f[x]] + Sigma(w, Image(s))
    BY <2>1, <2>2, <2>3, SigmaAdd
  <2>5. Sigma(v, s \cup {x}) = v[x] + Sigma(v, s)
    BY <2>3, SigmaAdd
  <2>6. IsFiniteSet(Image(s) \cup {f[x]})
    BY <2>2, FS_AddElement
  <2> QED
    BY <2>1, <2>2, <2>3, <2>4, <2>5, <2>6
<1>3. SUBSET S \subseteq T
  <2> HIDE DEF T
  <2> QED
    BY <1>1, <1>2, SubsetsReached
<1> QED
  BY <1>3

\* Sums add up term by term.
LEMMA SigmaPlus ==
    ASSUME NEW S, IsFiniteSet(S), NEW v, \A x \in S : v[x] \in Int,
           NEW w, \A x \in S : w[x] \in Int, NEW u, \A x \in S : u[x] = v[x] + w[x]
    PROVE  Sigma(u, S) = Sigma(v, S) + Sigma(w, S)
<1> DEFINE T == {s \in SUBSET S : Sigma(u, s) = Sigma(v, s) + Sigma(w, s)}
<1>1. {} \in T
  BY SigmaEmpty
<1>2. ASSUME NEW s \in SUBSET S, s \in T, NEW x \in S \ s PROVE s \cup {x} \in T
  <2>1. /\ IsFiniteSet(s) /\ \A y \in s : u[y] \in Int /\ v[y] \in Int /\ w[y] \in Int
        /\ u[x] \in Int /\ v[x] \in Int /\ w[x] \in Int /\ u[x] = v[x] + w[x]
    BY FS_Subset
  <2>2. /\ Sigma(u, s \cup {x}) = u[x] + Sigma(u, s)
        /\ Sigma(v, s \cup {x}) = v[x] + Sigma(v, s)
        /\ Sigma(w, s \cup {x}) = w[x] + Sigma(w, s)
    BY <2>1, SigmaAdd
  <2>3. Sigma(v, s) \in Int /\ Sigma(w, s) \in Int /\ Sigma(u, s) = Sigma(v, s) + Sigma(w, s)
    BY <1>2, <2>1, SigmaType
  <2> QED
    BY <2>1, <2>2, <2>3
<1>3. SUBSET S \subseteq T
  <2> HIDE DEF T
  <2> QED
    BY <1>1, <1>2, SubsetsReached
<1> QED
  BY <1>3

\* Changing one term changes the sum by as much, if the term is in it.
LEMMA SigmaAt ==
    ASSUME NEW S, IsFiniteSet(S), NEW w, \A x \in S : w[x] \in Int, NEW a, NEW n \in Int,
           NEW v, \A x \in S : v[x] = w[x] + (IF x = a THEN n ELSE 0)
    PROVE  Sigma(v, S) = Sigma(w, S) + (IF a \in S THEN n ELSE 0)
<1>1. CASE a \notin S
  <2>1. \A x \in S : v[x] = w[x]
    BY <1>1
  <2>2. Sigma(v, S) = Sigma(w, S) /\ Sigma(w, S) \in Int
    BY <2>1, SigmaSame, SigmaType
  <2> QED
    BY <1>1, <2>2
<1>2. CASE a \in S
  <2>1. \A x \in S : v[x] \in Int
    OBVIOUS
  <2>2. \A x \in S \ {a} : v[x] = w[x] /\ w[x] \in Int
    OBVIOUS
  <2>3. IsFiniteSet(S \ {a})
    BY FS_Subset
  <2>4. Sigma(v, S) = v[a] + Sigma(v, S \ {a})
    BY <1>2, <2>1, SigmaRemove
  <2>5. Sigma(w, S) = w[a] + Sigma(w, S \ {a})
    BY <1>2, SigmaRemove
  <2>6. Sigma(v, S \ {a}) = Sigma(w, S \ {a}) /\ Sigma(w, S \ {a}) \in Int
    BY <2>2, <2>3, SigmaSame, SigmaType
  <2>7. w[a] \in Int /\ v[a] = w[a] + n
    BY <1>2
  <2> QED
    BY <1>2, <2>4, <2>5, <2>6, <2>7
<1> QED
  BY <1>1, <1>2

\* The sum of the first k terms.
LEMMA SigmaFirst ==
    ASSUME NEW n \in Nat, NEW w, \A i \in 1 .. n : w[i] \in Int, NEW k \in 1 .. n
    PROVE  /\ Sigma(w, 1 .. k) = w[k] + Sigma(w, 1 .. k - 1)
           /\ Sigma(w, 1 .. k) \in Int /\ Sigma(w, 1 .. k - 1) \in Int
<1>1. /\ 1 .. k = (1 .. k - 1) \cup {k} /\ k \notin 1 .. k - 1
      /\ 1 .. k - 1 \subseteq 1 .. n /\ 1 .. k \subseteq 1 .. n
  OBVIOUS
<1>2. IsFiniteSet(1 .. k - 1) /\ IsFiniteSet(1 .. k)
  BY FS_Interval
<1>3. Sigma(w, (1 .. k - 1) \cup {k}) = w[k] + Sigma(w, 1 .. k - 1)
  BY <1>1, <1>2, SigmaAdd
<1>4. Sigma(w, 1 .. k) \in Int /\ Sigma(w, 1 .. k - 1) \in Int
  BY <1>1, <1>2, SigmaType
<1> QED
  BY <1>1, <1>3, <1>4, Zenon

\* The sums of the module Functions are sums in this sense.
LEMMA SumFunctionIs == ASSUME NEW w PROVE SumFunction(w) = Sigma(w, DOMAIN w)
  BY DEF SumFunction, SumFunctionOnSet, FoldFunctionOnSet, Sigma, MapThenSumSet

\* The sum of one.
LEMMA SigmaOne == ASSUME NEW w, NEW a, w[a] \in Int PROVE Sigma(w, {a}) = w[a]
<1>1. IsFiniteSet({}) /\ {} \cup {a} = {a} /\ a \notin {}
  BY FS_EmptySet
<1>2. Sigma(w, {} \cup {a}) = w[a] + Sigma(w, {})
  <2>1. \A x \in {} : w[x] \in Int
    OBVIOUS
  <2> QED
    BY <1>1, <2>1, SigmaAdd
<1> QED
  BY <1>1, <1>2, SigmaEmpty

\* A sum of what is nowhere more is not more.
LEMMA SigmaAtMost ==
    ASSUME NEW S, IsFiniteSet(S), NEW v, \A x \in S : v[x] \in Int,
           NEW w, \A x \in S : w[x] \in Int /\ v[x] <= w[x]
    PROVE  Sigma(v, S) <= Sigma(w, S) /\ Sigma(v, S) \in Int /\ Sigma(w, S) \in Int
<1> DEFINE u == [x \in S |-> w[x] - v[x]]
<1>1. \A x \in S : u[x] \in Nat /\ u[x] \in Int /\ w[x] = v[x] + u[x]
  OBVIOUS
<1> HIDE DEF u
<1>2. Sigma(u, S) \in Nat
  BY <1>1, SigmaNat
<1>3. Sigma(w, S) = Sigma(v, S) + Sigma(u, S)
  BY <1>1, SigmaPlus
<1>4. Sigma(v, S) \in Int /\ Sigma(w, S) \in Int
  BY SigmaType
<1> QED
  BY <1>2, <1>3, <1>4

\* A sum of differences is the difference of the ends.
LEMMA SigmaTelescopes ==
    ASSUME NEW p \in Int, NEW n \in Nat, NEW g, \A d \in p - 1 .. p + n - 1 : g[d] \in Int,
           NEW w, \A d \in p .. p + n - 1 : w[d] = g[d] - g[d - 1]
    PROVE  Sigma(w, p .. p + n - 1) = g[p + n - 1] - g[p - 1]
<1> DEFINE T == {k \in Nat : k <= n => Sigma(w, p .. p + k - 1) = g[p + k - 1] - g[p - 1]}
<1>1. ASSUME NEW k \in Nat, \A m \in Nat : m < k => m \in T PROVE k \in T
  <2> SUFFICES ASSUME k <= n PROVE Sigma(w, p .. p + k - 1) = g[p + k - 1] - g[p - 1]
    OBVIOUS
  <2>1. CASE k = 0
    <3>1. p .. p + k - 1 = {} /\ p + k - 1 = p - 1 /\ g[p - 1] \in Int
      BY <2>1
    <3> QED
      BY <3>1, SigmaEmpty
  <2>2. CASE k # 0
    <3>1. k - 1 \in T /\ k - 1 \in Nat /\ k - 1 <= n
      BY <1>1, <2>2
    <3>2. Sigma(w, p .. p + (k - 1) - 1) = g[p + (k - 1) - 1] - g[p - 1]
      BY <3>1
    <3> DEFINE d == p + k - 1
               S == p .. d - 1
    <3>3. d \in p .. p + n - 1 /\ d - 1 \in p - 1 .. p + n - 1 /\ d - 1 = p + (k - 1) - 1
      BY <2>2
    <3>4. /\ p .. d = S \cup {d} /\ d \notin S
          /\ \A e \in S : e \in p .. p + n - 1 /\ e \in p - 1 .. p + n - 1 /\ e - 1 \in p - 1 .. p + n - 1
      BY <3>3
    <3>5. IsFiniteSet(S)
      BY <3>3, FS_Interval
    <3>6. (\A e \in S : w[e] \in Int) /\ w[d] = g[d] - g[d - 1] /\ g[d] \in Int /\ g[d - 1] \in Int
      BY <3>3, <3>4
    <3>7. g[p - 1] \in Int
      OBVIOUS
    <3> HIDE DEF S, d
    <3>8. Sigma(w, S \cup {d}) = w[d] + Sigma(w, S)
      BY <3>4, <3>5, <3>6, SigmaAdd
    <3>9. Sigma(w, S) = g[d - 1] - g[p - 1]
      BY <3>2, <3>3 DEF S
    <3>10. Sigma(w, p .. d) = w[d] + Sigma(w, S)
      BY <3>4, <3>8, Zenon
    <3>11. Sigma(w, p .. d) = g[d] - g[p - 1]
      BY <3>6, <3>7, <3>9, <3>10
    <3> QED
      BY <3>11 DEF d
  <2> QED
    BY <2>1, <2>2
<1>2. Nat \subseteq T
  <2> HIDE DEF T
  <2> QED
    BY <1>1, NaturalsReached
<1> QED
  BY <1>2

-----------------------------------------------------------------------------
(* What is computed step by step.                                          *)

\* f runs n steps of F from x, in X.
Stepwise(f, x, F, n, X) ==
    f \in [0 .. n -> X] /\ f[0] = x /\ \A i \in 1 .. n : f[i] = F[<<i, f[i - 1]>>]

\* What is computed step by step from a start exists.
LEMMA StepsExist ==
    ASSUME NEW X, NEW x \in X, NEW F \in [Nat \X X -> X], NEW n \in Nat
    PROVE  \E f : Stepwise(f, x, F, n, X)
<1> DEFINE Upto(k) == \E f : Stepwise(f, x, F, k, X)
           T == {k \in Nat : Upto(k)}
<1>1. ASSUME NEW k \in Nat, \A m \in Nat : m < k => m \in T PROVE k \in T
  <2>1. CASE k = 0
    <3>1. [i \in 0 .. k |-> x] \in [0 .. k -> X] /\ [i \in 0 .. k |-> x][0] = x /\ 1 .. k = {}
      BY <2>1
    <3> QED
      BY <3>1 DEF Stepwise
  <2>2. CASE k # 0
    <3>1. k - 1 \in Nat /\ Upto(k - 1)
      BY <1>1, <2>2
    <3>2. PICK f \in [0 .. k - 1 -> X] :
            f[0] = x /\ \A i \in 1 .. k - 1 : f[i] = F[<<i, f[i - 1]>>]
      BY <3>1 DEF Stepwise
    <3> DEFINE h == [i \in 0 .. k |-> IF i = k THEN F[<<k, f[k - 1]>>] ELSE f[i]]
    <3>3. k - 1 \in 0 .. k - 1 /\ f[k - 1] \in X /\ F[<<k, f[k - 1]>>] \in X
      BY <3>1
    <3>4. h \in [0 .. k -> X] /\ h[0] = x
      BY <2>2, <3>2, <3>3
    <3>5. ASSUME NEW i \in 1 .. k PROVE h[i] = F[<<i, h[i - 1]>>]
      <4>1. i - 1 \in 0 .. k - 1 /\ i - 1 # k /\ h[i - 1] = f[i - 1]
        OBVIOUS
      <4>2. CASE i = k
        <5>1. h[k] = F[<<k, f[k - 1]>>]
          BY <2>2
        <5> QED
          BY <4>1, <4>2, <5>1, Zenon
      <4>3. CASE i # k
        <5>1. i \in 1 .. k - 1 /\ h[i] = f[i]
          BY <4>3
        <5> QED
          BY <3>2, <4>1, <5>1
      <4> QED
        BY <4>2, <4>3
    <3> HIDE DEF h
    <3> QED
      BY <3>4, <3>5 DEF Stepwise
  <2> QED
    BY <2>1, <2>2
<1>2. Nat \subseteq T
  <2> HIDE DEF T
  <2> QED
    BY <1>1, NaturalsReached
<1> QED
  BY <1>2

-----------------------------------------------------------------------------
(* Remainders.                                                             *)

LEMMA ModIs ==
    ASSUME NEW W \in Nat \ {0}, NEW a \in Int
    PROVE  a % W \in 0 .. W - 1 /\ a \div W \in Int /\ a = W * (a \div W) + (a % W)
  OBVIOUS

\* A multiple that is less than one is zero.
LEMMA NoMultiple ==
    ASSUME NEW W \in Nat \ {0}, NEW m \in Int, -W < m * W, m * W < W
    PROVE  m = 0
<1>1. CASE m >= 1
  <2>1. m * W >= W
    BY <1>1
  <2> QED
    BY <2>1
<1>2. CASE m <= -1
  <2>1. m * W <= -W
    BY <1>2
  <2> QED
    BY <2>1
<1> QED
  BY <1>1, <1>2

\* Quotient and remainder are unique.
LEMMA ModUnique ==
  ASSUME NEW W \in Nat \ {0}, NEW q \in Int, NEW r \in 0 .. W - 1
  PROVE  (W * q + r) % W = r /\ (W * q + r) \div W = q
<1> DEFINE a == W * q + r
<1>1. a \in Int
  OBVIOUS
<1>2. a % W \in 0 .. W - 1 /\ a \div W \in Int /\ a = W * (a \div W) + (a % W)
  BY <1>1, ModIs
<1>3. PICK e \in 0 .. W - 1, d \in Int : e = a % W /\ d = a \div W /\ a = W * d + e
  BY <1>2
<1>4. (d - q) * W = W * d - W * q
  OBVIOUS
<1> DEFINE x == W * q
           y == W * d
<1>5. (d - q) * W = r - e
  <2>1. x \in Int /\ y \in Int /\ (d - q) * W = y - x /\ x + r = y + e
    BY <1>3, <1>4
  <2> HIDE DEF x, y
  <2> QED
    BY <2>1
<1>6. d - q = 0
  BY <1>5, NoMultiple, d - q \in Int
<1> QED
  BY <1>3, <1>5, <1>6
----------------------------------------------------------------------------
(* Images of finite sets, and their sizes as sums. *)

\* The image of a finite set under a function is finite, and as large when no
\* two members have the same image.
LEMMA ImageIsFinite ==
    ASSUME NEW S, IsFiniteSet(S), NEW f
    PROVE  /\ IsFiniteSet({f[x] : x \in S})
           /\ (\A x, y \in S : f[x] = f[y] => x = y)
                => Cardinality({f[x] : x \in S}) = Cardinality(S)
<1> DEFINE T == {f[x] : x \in S}
           g == [x \in S |-> f[x]]
<1>1. g \in Surjection(S, T)
  BY DEF Surjection
<1>2. (\A x, y \in S : f[x] = f[y] => x = y) => g \in Injection(S, T)
  <2>1. g \in [S -> T] /\ \A x \in S : g[x] = f[x]
    OBVIOUS
  <2> HIDE DEF T, g
  <2> QED
    BY <2>1 DEF Injection, IsInjective
<1> HIDE DEF T, g
<1>3. /\ IsFiniteSet(T)
      /\ Cardinality(T) = Cardinality(S) <=> g \in Injection(S, T)
  BY <1>1, FS_Surjection
<1> QED
  BY <1>2, <1>3 DEF T

\* The size of a set as a sum.
LEMMA SigmaCounts ==
    ASSUME NEW S, IsFiniteSet(S), NEW w, \A x \in S : w[x] = 1
    PROVE  Sigma(w, S) = Cardinality(S)
<1> DEFINE T == {s \in SUBSET S : Sigma(w, s) = Cardinality(s)}
<1>1. {} \in T
  BY FS_EmptySet, SigmaEmpty
<1>2. ASSUME NEW s \in SUBSET S, s \in T, NEW x \in S \ s PROVE s \cup {x} \in T
  <2>1. IsFiniteSet(s) /\ \A y \in s : w[y] \in Int
    BY FS_Subset
  <2>2. Sigma(w, s \cup {x}) = 1 + Sigma(w, s)
    <3>1. w[x] = 1 /\ w[x] \in Int /\ x \notin s
      OBVIOUS
    <3> QED
      BY <2>1, <3>1, SigmaAdd
  <2>3. Cardinality(s \cup {x}) = Cardinality(s) + 1 /\ Cardinality(s) \in Nat
    BY <2>1, FS_AddElement, FS_CardinalityType
  <2>4. Sigma(w, s) = Cardinality(s)
    BY <1>2
  <2> QED
    BY <2>2, <2>3, <2>4
<1>3. SUBSET S \subseteq T
  <2> HIDE DEF T
  <2> QED
    BY <1>1, <1>2, SubsetsReached
<1> QED
  BY <1>3

\* The sizes of the parts of a set add up to the size of their union.
LEMMA CountParts ==
    ASSUME NEW S, IsFiniteSet(S), NEW K, IsFiniteSet(K),
           NEW part, \A k \in K : part[k] \in SUBSET S,
           \A k, l \in K : k # l => part[k] \cap part[l] = {},
           NEW total, \A k \in K : total[k] = Cardinality(part[k])
    PROVE  Sigma(total, K) = Cardinality(UNION {part[k] : k \in K})
<1> DEFINE one == [x \in S |-> 1]
           Whole == UNION {part[k] : k \in K}
<1>1. \A s \in SUBSET S : IsFiniteSet(s) /\ \A x \in s : one[x] = 1
  BY FS_Subset
<1>2. \A x \in S : one[x] \in Int
  OBVIOUS
<1> HIDE DEF one
<1>3. \A s \in SUBSET S : Sigma(one, s) = Cardinality(s)
  BY <1>1, SigmaCounts
<1>4. \A k \in K : total[k] = Sigma(one, part[k])
  BY <1>3
<1>5. Sigma(total, K) = Sigma(one, Whole)
  BY <1>2, <1>4, SigmaParts
<1>6. Whole \in SUBSET S
  OBVIOUS
<1> QED
  BY <1>3, <1>5, <1>6

\* A nonempty finite set of integers has a greatest member.
LEMMA FiniteMax ==
    ASSUME NEW S, IsFiniteSet(S), S \subseteq Int, S # {}
    PROVE  Max(S) \in S /\ \A y \in S : y <= Max(S)
<1> DEFINE T == {s \in SUBSET S : \E n \in Int : \A y \in s : y <= n}
<1>1. {} \in T
  OBVIOUS
<1>2. ASSUME NEW s \in SUBSET S, s \in T, NEW x \in S \ s PROVE s \cup {x} \in T
  <2>1. PICK n \in Int : \A y \in s : y <= n
    BY <1>2
  <2>2. PICK m \in Int : m >= n /\ m >= x
    <3>1. x \in Int
      OBVIOUS
    <3>2. CASE x <= n
      BY <3>1, <3>2
    <3>3. CASE n <= x
      BY <3>1, <3>3
    <3> QED
      BY <3>1, <3>2, <3>3
  <2>3. \A y \in s \cup {x} : y <= m
    <3>1. \A y \in s : y \in Int
      OBVIOUS
    <3> QED
      BY <2>1, <2>2, <3>1
  <2> QED
    BY <2>3
<1>3. SUBSET S \subseteq T
  <2> HIDE DEF T
  <2> QED
    BY <1>1, <1>2, SubsetsReached
<1>4. PICK n \in Int : \A y \in S : y <= n
  BY <1>3
<1> QED
  BY <1>4, MaxIsThere

=============================================================================
