----------------------------- MODULE SumLemmas -----------------------------
(***************************************************************************)
(* What MapThenSumSet of the community modules computes: the sum of the    *)
(* values of a function over a finite set, whichever element its CHOOSE    *)
(* takes first.  The amounts of the models are added up with it.           *)
(*                                                                         *)
(* The induction theorems of the library take an operator as a parameter   *)
(* and cannot be instantiated here; NatInduct says the same of a set, from *)
(* the least element of what the set leaves out.                           *)
(***************************************************************************)
EXTENDS Integers, FiniteSetsExt, FiniteSetTheorems, WellFoundedInduction, NaturalsInduction, TLAPS

\* The sum of f over S.
SumOf(f, S) == MapThenSumSet(LAMBDA x : f[x], S)

\* A set that holds zero and the successor of each of its elements is all of Nat.
LEMMA NatInduct ==
    ASSUME NEW S \in SUBSET Nat, 0 \in S, \A n \in S : n + 1 \in S
    PROVE  S = Nat
<1> SUFFICES ASSUME S # Nat PROVE FALSE
  OBVIOUS
<1> DEFINE T == Nat \ S
           R == {p \in Nat \X Nat : p[1] < p[2]}
<1>1. IsWellFoundedOn(R, Nat)
  BY NatLessThanWellFounded DEF OpToRel
<1>2. T # {} /\ T \subseteq Nat
  OBVIOUS
<1>3. PICK x \in T : \A y \in T : ~ (<<y, x>> \in R)
  BY <1>1, <1>2, WFMin
<1>4. x \in Nat /\ x # 0 /\ x - 1 \in Nat
  OBVIOUS
<1>5. <<x - 1, x>> \in R
  BY <1>4
<1>6. x - 1 \in S
  BY <1>3, <1>4, <1>5
<1>7. QED BY <1>4, <1>6

-----------------------------------------------------------------------------
(***************************************************************************)
(* The recursion that the fold runs.                                       *)
(***************************************************************************)
Chosen(s) == CHOOSE x \in s : TRUE
Adds(g, f, S) ==
    g = [s \in SUBSET S |-> IF s = {} THEN 0 ELSE f[Chosen(s)] + g[s \ {Chosen(s)}]]

LEMMA ChosenIn == ASSUME NEW s, s # {} PROVE Chosen(s) \in s
BY DEF Chosen

LEMMA SumIsRecursion ==
    ASSUME NEW f, NEW S
    PROVE  SumOf(f, S) = (CHOOSE g : Adds(g, f, S))[S]
BY DEF SumOf, MapThenSumSet, MapThenFoldSet, Adds, Chosen

\* Subsets of S with at most n elements.
UpTo(S, n) == {s \in SUBSET S : IsFiniteSet(s) /\ Cardinality(s) <= n}

LEMMA Smaller ==
    ASSUME NEW S, NEW n \in Nat, NEW s \in UpTo(S, n + 1), NEW x \in s
    PROVE  /\ s \ {x} \in UpTo(S, n) /\ s # {}
           /\ IsFiniteSet(s) /\ Cardinality(s) \in Nat /\ Cardinality(s \ {x}) = Cardinality(s) - 1
<1>1. IsFiniteSet(s) /\ Cardinality(s) \in Nat /\ Cardinality(s) <= n + 1
  BY FS_CardinalityType DEF UpTo
<1>2. IsFiniteSet(s \ {x}) /\ Cardinality(s \ {x}) = Cardinality(s) - 1
  BY <1>1, FS_RemoveElement
<1>3. QED BY <1>1, <1>2 DEF UpTo

LEMMA OnlyEmpty == ASSUME NEW S PROVE UpTo(S, 0) = {{}}
<1>1. \A s \in UpTo(S, 0) : s = {}
  BY FS_CardinalityType, FS_EmptySet DEF UpTo
<1>2. {} \in UpTo(S, 0)
  BY FS_EmptySet DEF UpTo
<1>3. QED BY <1>1, <1>2

LEMMA AllUpTo ==
    ASSUME NEW S, IsFiniteSet(S), NEW s \in SUBSET S
    PROVE  /\ Cardinality(S) \in Nat
           /\ s \in UpTo(S, Cardinality(S))
<1>1. IsFiniteSet(s) /\ Cardinality(s) <= Cardinality(S)
  BY FS_Subset
<1>2. QED BY <1>1, FS_CardinalityType DEF UpTo

\* Over a finite set the recursion has a solution.
LEMMA AddsExists ==
    ASSUME NEW S, IsFiniteSet(S), NEW f
    PROVE  \E g : Adds(g, f, S)
<1> DEFINE Solves(g, n) ==
              g = [s \in UpTo(S, n) |-> IF s = {} THEN 0 ELSE f[Chosen(s)] + g[s \ {Chosen(s)}]]
           Good == {n \in Nat : \E g : Solves(g, n)}
<1>1. 0 \in Good
  <2> DEFINE g == [s \in UpTo(S, 0) |-> 0]
  <2>1. Solves(g, 0)
    BY OnlyEmpty
  <2> HIDE DEF g
  <2>2. QED BY <2>1
<1>2. ASSUME NEW n \in Good PROVE n + 1 \in Good
  <2>1. PICK g : Solves(g, n)
    OBVIOUS
  <2> DEFINE h == [s \in UpTo(S, n + 1) |-> IF s = {} THEN 0 ELSE f[Chosen(s)] + g[s \ {Chosen(s)}]]
  <2>2. \A s \in UpTo(S, n) : s \in UpTo(S, n + 1) /\ h[s] = g[s]
    <3>1. \A s \in UpTo(S, n) : s \in UpTo(S, n + 1)
      <4>1. n \in Nat
        OBVIOUS
      <4> HIDE DEF Good, Solves, h
      <4>2. ASSUME NEW s \in UpTo(S, n) PROVE s \in UpTo(S, n + 1)
        <5>1. Cardinality(s) \in Nat
          BY FS_CardinalityType DEF UpTo
        <5>2. QED BY <4>1, <5>1 DEF UpTo
      <4>3. QED BY <4>2
    <3> HIDE DEF h
    <3>2. \A s \in UpTo(S, n + 1) : h[s] = IF s = {} THEN 0 ELSE f[Chosen(s)] + g[s \ {Chosen(s)}]
      BY DEF h
    <3>3. \A s \in UpTo(S, n) : g[s] = IF s = {} THEN 0 ELSE f[Chosen(s)] + g[s \ {Chosen(s)}]
      BY <2>1
    <3>4. QED BY <3>1, <3>2, <3>3
  <2>3. ASSUME NEW s \in UpTo(S, n + 1), s # {}
        PROVE  h[s \ {Chosen(s)}] = g[s \ {Chosen(s)}]
    <3>1. s \ {Chosen(s)} \in UpTo(S, n)
      BY <2>3, ChosenIn, Smaller
    <3> HIDE DEF h
    <3>2. QED BY <3>1, <2>2
  <2> DEFINE e(s) == IF s = {} THEN 0 ELSE f[Chosen(s)] + g[s \ {Chosen(s)}]
             d(s) == IF s = {} THEN 0 ELSE f[Chosen(s)] + h[s \ {Chosen(s)}]
  <2>4. h = [s \in UpTo(S, n + 1) |-> e(s)]
    OBVIOUS
  <2>5. \A s \in UpTo(S, n + 1) : e(s) = d(s)
    <3> HIDE DEF h
    <3>1. QED BY <2>3
  <2>6. h = [s \in UpTo(S, n + 1) |-> d(s)]
    <3> HIDE DEF h, e, d
    <3>1. QED BY <2>4, <2>5
  <2>7. Solves(h, n + 1)
    <3> HIDE DEF h
    <3>1. QED BY <2>6
  <2> HIDE DEF h, Solves
  <2>8. QED BY <2>7
<1> HIDE DEF Solves
<1>3. Good = Nat
  <2> DEFINE G == Good
  <2>1. G \in SUBSET Nat /\ 0 \in G /\ \A n \in G : n + 1 \in G
    BY <1>1, <1>2
  <2> HIDE DEF G
  <2>2. G = Nat
    BY <2>1, NatInduct
  <2>3. QED BY <2>2 DEF G
<1>4. UpTo(S, Cardinality(S)) = SUBSET S /\ Cardinality(S) \in Nat
  BY AllUpTo DEF UpTo
<1>5. PICK g : Solves(g, Cardinality(S))
  BY <1>3, <1>4
<1>6. Adds(g, f, S)
  BY <1>4, <1>5 DEF Solves, Adds
<1>7. QED BY <1>6

LEMMA SumSolves ==
    ASSUME NEW S, IsFiniteSet(S), NEW f
    PROVE  \E g : Adds(g, f, S) /\ SumOf(f, S) = g[S]
<1>1. Adds(CHOOSE g : Adds(g, f, S), f, S)
  BY AddsExists
<1>2. QED BY <1>1, SumIsRecursion

\* Two solutions, for functions that agree, agree on the subsets they share.
LEMMA AddsAgree ==
    ASSUME NEW S, NEW T, NEW f, NEW e, NEW g, NEW h, Adds(g, f, S), Adds(h, e, T),
           NEW s \in SUBSET (S \cap T), IsFiniteSet(s), \A x \in s : f[x] = e[x]
    PROVE  g[s] = h[s]
<1> DEFINE Good == {n \in Nat : \A r \in UpTo(s, n) : g[r] = h[r]}
<1>1. 0 \in Good
  BY OnlyEmpty DEF Adds
<1>2. ASSUME NEW n \in Good PROVE n + 1 \in Good
  <2>1. n \in Nat /\ \A r \in UpTo(s, n) : g[r] = h[r]
    OBVIOUS
  <2> HIDE DEF Good
  <2>2. ASSUME NEW r \in UpTo(s, n + 1) PROVE g[r] = h[r]
    <3>1. r \in SUBSET S /\ r \in SUBSET T /\ r \subseteq s
      BY DEF UpTo
    <3>2. CASE r = {}
      BY <3>1, <3>2 DEF Adds
    <3>3. CASE r # {}
      <4>1. Chosen(r) \in r
        BY <3>3, ChosenIn
      <4>2. r \ {Chosen(r)} \in UpTo(s, n)
        BY <2>1, <4>1, Smaller
      <4>3. g[r \ {Chosen(r)}] = h[r \ {Chosen(r)}] /\ f[Chosen(r)] = e[Chosen(r)]
        BY <2>1, <3>1, <4>1, <4>2
      <4>4. g[r] = f[Chosen(r)] + g[r \ {Chosen(r)}]
        BY <3>1, <3>3 DEF Adds
      <4>5. h[r] = e[Chosen(r)] + h[r \ {Chosen(r)}]
        BY <3>1, <3>3 DEF Adds
      <4>6. QED BY <4>3, <4>4, <4>5
    <3>4. QED BY <3>2, <3>3
  <2>3. QED BY <2>1, <2>2 DEF Good
<1>3. Good = Nat
  <2>1. Good \in SUBSET Nat
    OBVIOUS
  <2> HIDE DEF Good
  <2>2. QED BY <1>1, <1>2, <2>1, NatInduct
<1>4. Cardinality(s) \in Nat /\ s \in UpTo(s, Cardinality(s))
  BY AllUpTo
<1>5. QED BY <1>3, <1>4

\* The values of a solution are integers, and natural numbers where the addends are.
LEMMA AddsType ==
    ASSUME NEW S, NEW f, NEW g, Adds(g, f, S), IsFiniteSet(S), NEW V \in {Nat, Int},
           \A x \in S : f[x] \in V, NEW s \in SUBSET S
    PROVE  g[s] \in V
<1> DEFINE Good == {n \in Nat : \A r \in UpTo(S, n) : g[r] \in V}
<1>1. 0 \in Good
  BY OnlyEmpty DEF Adds
<1>2. ASSUME NEW n \in Good PROVE n + 1 \in Good
  <2>1. n \in Nat /\ \A r \in UpTo(S, n) : g[r] \in V
    OBVIOUS
  <2> HIDE DEF Good
  <2>2. ASSUME NEW r \in UpTo(S, n + 1) PROVE g[r] \in V
    <3>1. r \in SUBSET S
      BY DEF UpTo
    <3>2. CASE r = {}
      BY <3>1, <3>2 DEF Adds
    <3>3. CASE r # {}
      <4>1. Chosen(r) \in r
        BY <3>3, ChosenIn
      <4>2. r \ {Chosen(r)} \in UpTo(S, n)
        BY <2>1, <4>1, Smaller
      <4>3. g[r \ {Chosen(r)}] \in V /\ f[Chosen(r)] \in V
        BY <2>1, <3>1, <4>1, <4>2
      <4>4. g[r] = f[Chosen(r)] + g[r \ {Chosen(r)}]
        BY <3>1, <3>3 DEF Adds
      <4>5. QED BY <4>3, <4>4
    <3>4. QED BY <3>2, <3>3
  <2>3. QED BY <2>1, <2>2 DEF Good
<1>3. Good = Nat
  <2>1. Good \in SUBSET Nat
    OBVIOUS
  <2> HIDE DEF Good
  <2>2. QED BY <1>1, <1>2, <2>1, NatInduct
<1>4. Cardinality(S) \in Nat /\ s \in UpTo(S, Cardinality(S))
  BY AllUpTo
<1>5. QED BY <1>3, <1>4

\* The recursion may take any element first.
LEMMA AddsAny ==
    ASSUME NEW S, NEW f, NEW g, Adds(g, f, S), IsFiniteSet(S), \A x \in S : f[x] \in Int,
           NEW s \in SUBSET S, NEW x \in s
    PROVE  g[s] = f[x] + g[s \ {x}]
<1> DEFINE Good == {n \in Nat : \A r \in UpTo(S, n) : \A y \in r : g[r] = f[y] + g[r \ {y}]}
<1>1. 0 \in Good
  BY OnlyEmpty
<1>2. ASSUME NEW n \in Good PROVE n + 1 \in Good
  <2>1. n \in Nat /\ \A r \in UpTo(S, n) : \A y \in r : g[r] = f[y] + g[r \ {y}]
    OBVIOUS
  <2> HIDE DEF Good
  <2>2. ASSUME NEW r \in UpTo(S, n + 1), NEW y \in r PROVE g[r] = f[y] + g[r \ {y}]
    <3> DEFINE c == Chosen(r)
    <3>1. r \in SUBSET S /\ r # {}
      BY DEF UpTo
    <3>2. c \in r
      BY <3>1, ChosenIn
    <3>3. g[r] = f[c] + g[r \ {c}]
      BY <3>1 DEF Adds
    <3> HIDE DEF c
    <3>4. CASE y = c
      BY <3>3, <3>4
    <3>5. CASE y # c
      <4>1. r \ {c} \in UpTo(S, n) /\ r \ {y} \in UpTo(S, n)
        BY <2>1, <3>2, Smaller
      <4>2. y \in r \ {c} /\ c \in r \ {y}
        BY <3>2, <3>5
      <4>3. g[r \ {c}] = f[y] + g[(r \ {c}) \ {y}]
        BY <2>1, <4>1, <4>2
      <4>4. g[r \ {y}] = f[c] + g[(r \ {y}) \ {c}]
        BY <2>1, <4>1, <4>2
      <4>5. (r \ {c}) \ {y} = (r \ {y}) \ {c}
        OBVIOUS
      <4>6. f[y] \in Int /\ f[c] \in Int /\ g[(r \ {y}) \ {c}] \in Int
        <5>1. y \in S /\ c \in S /\ (r \ {y}) \ {c} \in SUBSET S
          BY <3>1, <3>2
        <5>2. QED BY <5>1, AddsType
      <4> DEFINE a == f[y]
                 b == f[c]
                 z == g[(r \ {y}) \ {c}]
      <4>7. b + (a + z) = a + (b + z)
        <5> HIDE DEF a, b, z
        <5>1. a \in Int /\ b \in Int /\ z \in Int
          BY <4>6 DEF a, b, z
        <5>2. QED BY <5>1
      <4>8. g[r \ {c}] = a + z /\ g[r \ {y}] = b + z
        BY <4>3, <4>4, <4>5
      <4> HIDE DEF a, b, z
      <4>9. g[r] = b + (a + z)
        BY <3>3, <4>8 DEF b
      <4>10. f[y] + g[r \ {y}] = a + (b + z)
        BY <4>8 DEF a
      <4>11. QED BY <4>7, <4>9, <4>10
    <3>6. QED BY <3>4, <3>5
  <2>3. QED BY <2>1, <2>2 DEF Good
<1>3. Good = Nat
  <2>1. Good \in SUBSET Nat
    OBVIOUS
  <2> HIDE DEF Good
  <2>2. QED BY <1>1, <1>2, <2>1, NatInduct
<1>4. Cardinality(S) \in Nat /\ s \in UpTo(S, Cardinality(S))
  BY AllUpTo
<1>5. QED BY <1>3, <1>4

-----------------------------------------------------------------------------
(***************************************************************************)
(* The facts to cite.                                                      *)
(***************************************************************************)
LEMMA SumEmpty == ASSUME NEW f PROVE SumOf(f, {}) = 0
<1>1. PICK g : Adds(g, f, {}) /\ SumOf(f, {}) = g[{}]
  BY SumSolves, FS_EmptySet
<1>2. QED BY <1>1 DEF Adds

LEMMA SumType ==
    ASSUME NEW S, IsFiniteSet(S), NEW f
    PROVE  /\ (\A x \in S : f[x] \in Nat) => SumOf(f, S) \in Nat
           /\ (\A x \in S : f[x] \in Int) => SumOf(f, S) \in Int
<1>1. PICK g : Adds(g, f, S) /\ SumOf(f, S) = g[S]
  BY SumSolves
<1>2. QED BY <1>1, AddsType

\* A sum of nothing but zeros.
LEMMA SumZero ==
    ASSUME NEW S, IsFiniteSet(S), NEW f, \A x \in S : f[x] = 0
    PROVE  SumOf(f, S) = 0
<1>1. PICK g : Adds(g, f, S) /\ SumOf(f, S) = g[S]
  BY SumSolves
<1> DEFINE Good == {n \in Nat : \A r \in UpTo(S, n) : g[r] = 0}
<1>3. 0 \in Good
  BY <1>1, OnlyEmpty DEF Adds
<1>4. ASSUME NEW n \in Good PROVE n + 1 \in Good
  <2>1. n \in Nat /\ \A r \in UpTo(S, n) : g[r] = 0
    OBVIOUS
  <2> HIDE DEF Good
  <2>2. ASSUME NEW r \in UpTo(S, n + 1) PROVE g[r] = 0
    <3>1. r \in SUBSET S
      BY DEF UpTo
    <3>2. CASE r = {}
      BY <1>1, <3>1, <3>2 DEF Adds
    <3>3. CASE r # {}
      <4>1. Chosen(r) \in r
        BY <3>3, ChosenIn
      <4>2. g[r \ {Chosen(r)}] = 0 /\ f[Chosen(r)] = 0
        BY <2>1, <3>1, <4>1, Smaller
      <4>3. g[r] = f[Chosen(r)] + g[r \ {Chosen(r)}]
        BY <1>1, <3>1, <3>3 DEF Adds
      <4>4. QED BY <4>2, <4>3
    <3>4. QED BY <3>2, <3>3
  <2>3. QED BY <2>1, <2>2 DEF Good
<1>5. Good = Nat
  <2>1. Good \in SUBSET Nat
    OBVIOUS
  <2> HIDE DEF Good
  <2>2. QED BY <1>3, <1>4, <2>1, NatInduct
<1>6. Cardinality(S) \in Nat /\ S \in UpTo(S, Cardinality(S))
  BY AllUpTo
<1>7. QED BY <1>1, <1>5, <1>6

\* A sum depends on the function's values over the set only.
LEMMA SumSame ==
    ASSUME NEW S, IsFiniteSet(S), NEW f, NEW e, \A x \in S : f[x] = e[x]
    PROVE  SumOf(f, S) = SumOf(e, S)
<1>1. PICK g : Adds(g, f, S) /\ SumOf(f, S) = g[S]
  BY SumSolves
<1>2. PICK h : Adds(h, e, S) /\ SumOf(e, S) = h[S]
  BY SumSolves
<1>3. QED BY <1>1, <1>2, AddsAgree

\* Any element may be taken out of a sum.
LEMMA SumTake ==
    ASSUME NEW S, IsFiniteSet(S), NEW f, \A x \in S : f[x] \in Int, NEW x \in S
    PROVE  SumOf(f, S) = f[x] + SumOf(f, S \ {x})
<1>1. PICK g : Adds(g, f, S) /\ SumOf(f, S) = g[S]
  BY SumSolves
<1>2. IsFiniteSet(S \ {x})
  BY FS_RemoveElement
<1>3. PICK h : Adds(h, f, S \ {x}) /\ SumOf(f, S \ {x}) = h[S \ {x}]
  BY <1>2, SumSolves
<1>4. g[S \ {x}] = h[S \ {x}]
  <2>1. S \ {x} \in SUBSET (S \cap (S \ {x}))
    OBVIOUS
  <2>2. QED BY <1>1, <1>2, <1>3, <2>1, AddsAgree
<1>5. QED BY <1>1, <1>3, <1>4, AddsAny

\* One value changed.
LEMMA SumChange ==
    ASSUME NEW S, IsFiniteSet(S), NEW f, NEW e, \A y \in S : f[y] \in Int /\ e[y] \in Int,
           NEW x \in S, \A y \in S \ {x} : f[y] = e[y]
    PROVE  SumOf(e, S) = SumOf(f, S) + (e[x] - f[x])
<1>1. IsFiniteSet(S \ {x})
  BY FS_RemoveElement
<1>2. SumOf(f, S) = f[x] + SumOf(f, S \ {x}) /\ SumOf(e, S) = e[x] + SumOf(e, S \ {x})
  BY SumTake
<1>3. SumOf(f, S \ {x}) = SumOf(e, S \ {x}) /\ SumOf(f, S \ {x}) \in Int
  BY <1>1, SumSame, SumType
<1>4. QED BY <1>2, <1>3

\* An amount moved from one place to another.
LEMMA SumMoved ==
    ASSUME NEW S, IsFiniteSet(S), NEW f, NEW e, \A y \in S : f[y] \in Int, NEW n \in Int,
           NEW x \in S, NEW z \in S, x # z,
           e[x] = f[x] - n, e[z] = f[z] + n, \A y \in S \ {x, z} : e[y] = f[y]
    PROVE  SumOf(e, S) = SumOf(f, S)
<1> DEFINE R == S \ {x}
<1>1. IsFiniteSet(R) /\ z \in R /\ R \subseteq S
  BY FS_RemoveElement
<1>2. \A y \in S : e[y] \in Int
  <2>1. e[x] \in Int /\ e[z] \in Int
    OBVIOUS
  <2>2. QED BY <2>1
<1>3. SumOf(f, S) = f[x] + SumOf(f, R) /\ SumOf(e, S) = e[x] + SumOf(e, R)
  BY <1>2, SumTake
<1>4. \A y \in R \ {z} : f[y] = e[y]
  OBVIOUS
<1>5. SumOf(e, R) = SumOf(f, R) + (e[z] - f[z]) /\ SumOf(f, R) \in Int
  <2> HIDE DEF R
  <2>1. \A y \in R : f[y] \in Int /\ e[y] \in Int
    BY <1>1, <1>2
  <2>2. SumOf(e, R) = SumOf(f, R) + (e[z] - f[z])
    BY <1>1, <1>4, <2>1, SumChange
  <2>3. SumOf(f, R) \in Int
    BY <1>1, <2>1, SumType
  <2>4. QED BY <2>2, <2>3
<1> HIDE DEF R
<1>6. QED BY <1>3, <1>5

\* A sum over fewer places, or of smaller addends, is not larger.
LEMMA SumPart ==
    ASSUME NEW S, IsFiniteSet(S), NEW f, \A y \in S : f[y] \in Nat, NEW T \in SUBSET S
    PROVE  SumOf(f, T) <= SumOf(f, S)
<1> DEFINE Good == {n \in Nat : \A r \in UpTo(S, n) : SumOf(f, T \cap r) <= SumOf(f, r)}
<1>1. 0 \in Good
  <2>1. \A r \in UpTo(S, 0) : T \cap r = r /\ r = {}
    BY OnlyEmpty
  <2>2. SumOf(f, {}) <= SumOf(f, {})
    BY SumEmpty
  <2>3. QED BY <2>1, <2>2
<1>2. ASSUME NEW n \in Good PROVE n + 1 \in Good
  <2>1. n \in Nat /\ \A r \in UpTo(S, n) : SumOf(f, T \cap r) <= SumOf(f, r)
    OBVIOUS
  <2> HIDE DEF Good
  <2>2. ASSUME NEW r \in UpTo(S, n + 1) PROVE SumOf(f, T \cap r) <= SumOf(f, r)
    <3>1. r \in SUBSET S /\ IsFiniteSet(r) /\ IsFiniteSet(T \cap r)
      BY FS_Subset DEF UpTo
    <3>2. CASE r = {}
      <4>1. T \cap r = {}
        BY <3>2
      <4>2. QED BY <3>2, <4>1, SumEmpty
    <3>3. CASE r # {}
      <4> DEFINE c == Chosen(r)
      <4>1. c \in r /\ c \in S
        BY <3>1, <3>3, ChosenIn
      <4> HIDE DEF c
      <4>2. r \ {c} \in UpTo(S, n) /\ IsFiniteSet(r \ {c}) /\ IsFiniteSet(T \cap (r \ {c}))
        BY <2>1, <4>1, Smaller, FS_Subset DEF UpTo
      <4>3. SumOf(f, r) = f[c] + SumOf(f, r \ {c})
        BY <3>1, <4>1, SumTake
      <4>4. SumOf(f, T \cap (r \ {c})) <= SumOf(f, r \ {c})
        BY <2>1, <4>2
      <4>5. /\ SumOf(f, T \cap (r \ {c})) \in Nat /\ SumOf(f, r \ {c}) \in Nat /\ f[c] \in Nat
        BY <3>1, <4>1, <4>2, SumType
      <4>6. CASE c \in T
        <5>1. c \in T \cap r /\ (T \cap r) \ {c} = T \cap (r \ {c})
          BY <4>1, <4>6
        <5>2. SumOf(f, T \cap r) = f[c] + SumOf(f, T \cap (r \ {c}))
          BY <3>1, <5>1, SumTake
        <5>3. QED BY <4>3, <4>4, <4>5, <5>2
      <4>7. CASE c \notin T
        <5>1. T \cap r = T \cap (r \ {c})
          BY <4>7
        <5>2. SumOf(f, T \cap r) = SumOf(f, T \cap (r \ {c}))
          BY <5>1
        <5>3. QED BY <4>3, <4>4, <4>5, <5>2
      <4>8. QED BY <4>6, <4>7
    <3>4. QED BY <3>2, <3>3
  <2>3. QED BY <2>1, <2>2 DEF Good
<1>3. Good = Nat
  <2>1. Good \in SUBSET Nat
    OBVIOUS
  <2> HIDE DEF Good
  <2>2. QED BY <1>1, <1>2, <2>1, NatInduct
<1>4. Cardinality(S) \in Nat /\ S \in UpTo(S, Cardinality(S)) /\ T \cap S = T
  BY AllUpTo
<1>5. QED BY <1>3, <1>4

\* A sum of what is nowhere more is not more.
LEMMA SumAtMost ==
    ASSUME NEW S, IsFiniteSet(S), NEW f, NEW e, \A y \in S : f[y] \in Int /\ e[y] \in Int /\ f[y] <= e[y]
    PROVE  SumOf(f, S) <= SumOf(e, S)
<1> DEFINE Good == {n \in Nat : \A r \in UpTo(S, n) : SumOf(f, r) <= SumOf(e, r)}
<1>1. 0 \in Good
  <2>1. SumOf(f, {}) <= SumOf(e, {})
    BY SumEmpty
  <2>2. QED BY <2>1, OnlyEmpty
<1>2. ASSUME NEW n \in Good PROVE n + 1 \in Good
  <2>1. n \in Nat /\ \A r \in UpTo(S, n) : SumOf(f, r) <= SumOf(e, r)
    OBVIOUS
  <2> HIDE DEF Good
  <2>2. ASSUME NEW r \in UpTo(S, n + 1) PROVE SumOf(f, r) <= SumOf(e, r)
    <3>1. r \in SUBSET S /\ IsFiniteSet(r)
      BY DEF UpTo
    <3>2. CASE r = {}
      BY <3>2, SumEmpty
    <3>3. CASE r # {}
      <4> DEFINE c == Chosen(r)
      <4>1. c \in r /\ c \in S
        BY <3>1, <3>3, ChosenIn
      <4> HIDE DEF c
      <4>2. r \ {c} \in UpTo(S, n) /\ IsFiniteSet(r \ {c})
        BY <2>1, <4>1, Smaller DEF UpTo
      <4>3. SumOf(f, r) = f[c] + SumOf(f, r \ {c}) /\ SumOf(e, r) = e[c] + SumOf(e, r \ {c})
        BY <3>1, <4>1, SumTake
      <4>4. SumOf(f, r \ {c}) <= SumOf(e, r \ {c})
        BY <2>1, <4>2
      <4>5. SumOf(f, r \ {c}) \in Int /\ SumOf(e, r \ {c}) \in Int
        BY <3>1, <4>2, SumType
      <4>6. f[c] \in Int /\ e[c] \in Int /\ f[c] <= e[c]
        BY <4>1
      <4>7. QED BY <4>3, <4>4, <4>5, <4>6
    <3>4. QED BY <3>2, <3>3
  <2>3. QED BY <2>1, <2>2 DEF Good
<1>3. Good = Nat
  <2>1. Good \in SUBSET Nat
    OBVIOUS
  <2> HIDE DEF Good
  <2>2. QED BY <1>1, <1>2, <2>1, NatInduct
<1>4. Cardinality(S) \in Nat /\ S \in UpTo(S, Cardinality(S))
  BY AllUpTo
<1>5. QED BY <1>3, <1>4

-----------------------------------------------------------------------------
(***************************************************************************)
(* Sums over growing sets.                                                 *)
(***************************************************************************)
\* A family of subsets of S with the empty set and, with a set, the set with one
\* more element, has S.
LEMMA SetInduct ==
    ASSUME NEW S, IsFiniteSet(S), NEW G \in SUBSET (SUBSET S), {} \in G,
           \A r \in G, x \in S : x \notin r => r \cup {x} \in G
    PROVE  S \in G
<1> DEFINE Good == {n \in Nat : \A r \in UpTo(S, n) : r \in G}
<1>1. 0 \in Good
  BY OnlyEmpty
<1>2. ASSUME NEW n \in Good PROVE n + 1 \in Good
  <2>1. n \in Nat /\ \A r \in UpTo(S, n) : r \in G
    OBVIOUS
  <2> HIDE DEF Good
  <2>2. ASSUME NEW r \in UpTo(S, n + 1) PROVE r \in G
    <3>1. CASE r = {}
      BY <3>1
    <3>2. ASSUME NEW x \in r PROVE r \in G
      <4>1. r \ {x} \in G /\ x \in S
        BY <2>1, <3>2, Smaller DEF UpTo
      <4>2. (r \ {x}) \cup {x} = r
        BY <3>2
      <4>3. QED BY <4>1, <4>2
    <3>3. QED BY <3>1, <3>2
  <2>3. QED BY <2>1, <2>2 DEF Good
<1>3. Good = Nat
  <2>1. Good \in SUBSET Nat
    OBVIOUS
  <2> HIDE DEF Good
  <2>2. QED BY <1>1, <1>2, <2>1, NatInduct
<1>4. QED BY <1>3, AllUpTo

\* One more addend.
LEMMA SumMore ==
    ASSUME NEW S, IsFiniteSet(S), NEW x, x \notin S, NEW f, \A y \in S \cup {x} : f[y] \in Int
    PROVE  SumOf(f, S \cup {x}) = f[x] + SumOf(f, S) /\ SumOf(f, S) \in Int
<1>1. IsFiniteSet(S \cup {x}) /\ x \in S \cup {x} /\ (S \cup {x}) \ {x} = S
  BY FS_AddElement
<1>2. SumOf(f, S \cup {x}) = f[x] + SumOf(f, (S \cup {x}) \ {x})
  BY <1>1, SumTake
<1>3. QED BY <1>1, <1>2, SumType

\* Two sets apart.
LEMMA SumApart ==
    ASSUME NEW A, IsFiniteSet(A), NEW B, IsFiniteSet(B), A \cap B = {},
           NEW f, \A y \in A \cup B : f[y] \in Int
    PROVE  SumOf(f, A \cup B) = SumOf(f, A) + SumOf(f, B)
<1> DEFINE G == {r \in SUBSET B : SumOf(f, A \cup r) = SumOf(f, A) + SumOf(f, r)}
<1>1. {} \in G
  <2>1. SumOf(f, A) \in Int /\ A \cup {} = A
    BY SumType
  <2>2. SumOf(f, {}) = 0
    BY SumEmpty
  <2>3. QED BY <2>1, <2>2
<1>2. ASSUME NEW r \in G, NEW x \in B, x \notin r PROVE r \cup {x} \in G
  <2>1. r \in SUBSET B /\ SumOf(f, A \cup r) = SumOf(f, A) + SumOf(f, r)
    OBVIOUS
  <2> HIDE DEF G
  <2>2. IsFiniteSet(r) /\ IsFiniteSet(A \cup r) /\ x \notin A \cup r /\ f[x] \in Int
    BY <1>2, <2>1, FS_Subset, FS_Union
  <2>3. SumOf(f, (A \cup r) \cup {x}) = f[x] + SumOf(f, A \cup r)
    BY <2>1, <2>2, SumMore
  <2>4. SumOf(f, r \cup {x}) = f[x] + SumOf(f, r) /\ SumOf(f, r) \in Int
    BY <1>2, <2>1, <2>2, SumMore
  <2>5. SumOf(f, A) \in Int /\ (A \cup r) \cup {x} = A \cup (r \cup {x})
    BY SumType
  <2>6. r \cup {x} \in SUBSET B
    BY <2>1
  <2>7. SumOf(f, A \cup (r \cup {x})) = f[x] + SumOf(f, A \cup r)
    BY <2>3, <2>5
  <2>8. SumOf(f, A \cup (r \cup {x})) = SumOf(f, A) + SumOf(f, r \cup {x})
    BY <2>1, <2>2, <2>4, <2>5, <2>7
  <2>9. QED BY <2>6, <2>8 DEF G
<1>3. G \in SUBSET (SUBSET B)
  OBVIOUS
<1> HIDE DEF G
<1>4. B \in G
  BY <1>1, <1>2, <1>3, SetInduct
<1>5. QED BY <1>4 DEF G

\* Values found again among those of another set, each at a place of its own.
LEMMA SumInjected ==
    ASSUME NEW A, IsFiniteSet(A), NEW B, IsFiniteSet(B), NEW f, NEW h, NEW k,
           \A y \in B : h[y] \in Nat, \A x \in A : k[x] \in B /\ f[x] = h[k[x]],
           \A x, z \in A : k[x] = k[z] => x = z
    PROVE  SumOf(f, A) <= SumOf(h, B)
<1> DEFINE Image(r) == {y \in B : \E x \in r : y = k[x]}
           G == {r \in SUBSET A : SumOf(f, r) = SumOf(h, Image(r))}
<1>1. {} \in G
  <2>1. Image({}) = {}
    OBVIOUS
  <2>2. SumOf(f, {}) = 0 /\ SumOf(h, {}) = 0
    BY SumEmpty
  <2>3. QED BY <2>1, <2>2
<1>2. ASSUME NEW r \in G, NEW x \in A, x \notin r PROVE r \cup {x} \in G
  <2>1. r \in SUBSET A /\ SumOf(f, r) = SumOf(h, Image(r))
    OBVIOUS
  <2>2. Image(r \cup {x}) = Image(r) \cup {k[x]} /\ k[x] \notin Image(r) /\ Image(r) \in SUBSET B
    BY <1>2, <2>1
  <2> HIDE DEF G, Image
  <2>3. IsFiniteSet(r) /\ IsFiniteSet(Image(r))
    BY <2>1, <2>2, FS_Subset
  <2>4. \A y \in Image(r) \cup {k[x]} : h[y] \in Int
    BY <2>2
  <2>5. SumOf(h, Image(r) \cup {k[x]}) = h[k[x]] + SumOf(h, Image(r))
    BY <2>2, <2>3, <2>4, SumMore
  <2>6. \A y \in r \cup {x} : f[y] \in Int
    BY <2>1
  <2>7. SumOf(f, r \cup {x}) = f[x] + SumOf(f, r)
    BY <1>2, <2>3, <2>6, SumMore
  <2>8. r \cup {x} \in SUBSET A
    BY <2>1
  <2>9. QED BY <2>1, <2>2, <2>5, <2>7, <2>8 DEF G
<1>3. G \in SUBSET (SUBSET A) /\ Image(A) \in SUBSET B
  OBVIOUS
<1> HIDE DEF G, Image
<1>4. A \in G
  BY <1>1, <1>2, <1>3, SetInduct
<1>5. SumOf(h, Image(A)) <= SumOf(h, B)
  BY <1>3, SumPart
<1>6. QED BY <1>4, <1>5 DEF G

LEMMA SizeOfTwo ==
    ASSUME NEW A, IsFiniteSet(A), NEW B, IsFiniteSet(B)
    PROVE  /\ Cardinality(A \cup B) <= Cardinality(A) + Cardinality(B)
           /\ A \cap B = {} => Cardinality(A \cup B) = Cardinality(A) + Cardinality(B)
<1>1. IsFiniteSet(A \cap B)
  BY FS_Intersection
<1>2. Cardinality(A) \in Nat /\ Cardinality(B) \in Nat /\ Cardinality(A \cap B) \in Nat
  BY <1>1, FS_CardinalityType
<1>3. Cardinality(A \cup B) = Cardinality(A) + Cardinality(B) - Cardinality(A \cap B)
  BY FS_Union
<1>4. A \cap B = {} => Cardinality(A \cap B) = 0
  BY FS_EmptySet
<1>5. QED BY <1>2, <1>3, <1>4

\* Subsets of X and their sizes: together they have at most the sum of them, and
\* just that when no two meet.
HitBy(X, R, r) == {x \in X : \E n \in r : x \in R[n]}

LEMMA SumCovers ==
    ASSUME NEW S, IsFiniteSet(S), NEW X, IsFiniteSet(X), NEW R, \A n \in S : R[n] \in SUBSET X,
           NEW c, \A n \in S : c[n] \in Nat /\ Cardinality(R[n]) <= c[n]
    PROVE  Cardinality(HitBy(X, R, S)) <= SumOf(c, S)
<1> DEFINE G == {r \in SUBSET S : Cardinality(HitBy(X, R, r)) <= SumOf(c, r)}
<1>1. {} \in G
  <2>1. HitBy(X, R, {}) = {}
    BY DEF HitBy
  <2>2. QED BY <2>1, SumEmpty, FS_EmptySet
<1>2. ASSUME NEW r \in G, NEW x \in S, x \notin r PROVE r \cup {x} \in G
  <2>1. r \in SUBSET S /\ Cardinality(HitBy(X, R, r)) <= SumOf(c, r)
    OBVIOUS
  <2> HIDE DEF G
  <2>2. HitBy(X, R, r \cup {x}) = HitBy(X, R, r) \cup R[x]
    BY DEF HitBy
  <2>3. HitBy(X, R, r) \in SUBSET X /\ R[x] \in SUBSET X
    BY DEF HitBy
  <2>4. IsFiniteSet(HitBy(X, R, r)) /\ IsFiniteSet(R[x]) /\ IsFiniteSet(HitBy(X, R, r) \cap R[x])
    BY <2>3, FS_Subset, FS_Intersection
  <2>5. Cardinality(HitBy(X, R, r) \cup R[x]) <= Cardinality(HitBy(X, R, r)) + Cardinality(R[x])
    BY <2>4, SizeOfTwo
  <2>6. IsFiniteSet(r) /\ \A y \in r \cup {x} : c[y] \in Int
    BY <2>1, FS_Subset
  <2>7. SumOf(c, r \cup {x}) = c[x] + SumOf(c, r) /\ SumOf(c, r) \in Int
    BY <1>2, <2>6, SumMore
  <2>8. Cardinality(HitBy(X, R, r)) \in Nat /\ Cardinality(R[x]) \in Nat
        /\ Cardinality(HitBy(X, R, r) \cup R[x]) \in Nat
    BY <2>4, FS_Union, FS_CardinalityType
  <2>9. Cardinality(R[x]) <= c[x] /\ c[x] \in Nat /\ r \cup {x} \in SUBSET S
    BY <2>1
  <2>10. Cardinality(HitBy(X, R, r) \cup R[x]) <= c[x] + SumOf(c, r)
    BY <2>1, <2>5, <2>7, <2>8, <2>9
  <2>11. QED BY <2>2, <2>7, <2>9, <2>10 DEF G
<1>3. G \in SUBSET (SUBSET S)
  OBVIOUS
<1> HIDE DEF G
<1>4. S \in G
  BY <1>1, <1>2, <1>3, SetInduct
<1>5. QED BY <1>4 DEF G

LEMMA SumPacks ==
    ASSUME NEW S, IsFiniteSet(S), NEW X, IsFiniteSet(X), NEW R, \A n \in S : R[n] \in SUBSET X,
           NEW c, \A n \in S : c[n] = Cardinality(R[n]), \A n, m \in S : n # m => R[n] \cap R[m] = {}
    PROVE  SumOf(c, S) = Cardinality(HitBy(X, R, S))
<1> DEFINE G == {r \in SUBSET S : SumOf(c, r) = Cardinality(HitBy(X, R, r))}
<1>0. \A n \in S : IsFiniteSet(R[n]) /\ c[n] \in Nat
  BY FS_Subset, FS_CardinalityType
<1>1. {} \in G
  <2>1. HitBy(X, R, {}) = {}
    BY DEF HitBy
  <2>2. QED BY <2>1, SumEmpty, FS_EmptySet
<1>2. ASSUME NEW r \in G, NEW x \in S, x \notin r PROVE r \cup {x} \in G
  <2>1. r \in SUBSET S /\ SumOf(c, r) = Cardinality(HitBy(X, R, r))
    OBVIOUS
  <2> HIDE DEF G
  <2>2. HitBy(X, R, r \cup {x}) = HitBy(X, R, r) \cup R[x]
    BY DEF HitBy
  <2>3. HitBy(X, R, r) \in SUBSET X /\ HitBy(X, R, r) \cap R[x] = {}
    <3>1. \A n \in r : n \in S /\ n # x
      BY <1>2, <2>1
    <3>2. \A n \in r : R[n] \cap R[x] = {}
      BY <3>1
    <3>3. QED BY <3>2 DEF HitBy
  <2>4. IsFiniteSet(HitBy(X, R, r)) /\ IsFiniteSet(R[x])
    BY <1>0, <2>3, FS_Subset
  <2>5. Cardinality(HitBy(X, R, r) \cup R[x]) = Cardinality(HitBy(X, R, r)) + Cardinality(R[x])
    BY <2>3, <2>4, SizeOfTwo
  <2>6. IsFiniteSet(r) /\ \A y \in r \cup {x} : c[y] \in Int
    BY <1>0, <2>1, FS_Subset
  <2>7. SumOf(c, r \cup {x}) = c[x] + SumOf(c, r)
    BY <1>2, <2>6, SumMore
  <2>8. r \cup {x} \in SUBSET S /\ c[x] = Cardinality(R[x]) /\ Cardinality(R[x]) \in Nat
        /\ Cardinality(HitBy(X, R, r)) \in Nat
    BY <2>1, <2>4, FS_CardinalityType
  <2>9. c[x] + SumOf(c, r) = Cardinality(HitBy(X, R, r) \cup R[x])
    BY <2>1, <2>5, <2>8
  <2>10. SumOf(c, r \cup {x}) = Cardinality(HitBy(X, R, r \cup {x}))
    BY <2>2, <2>7, <2>9
  <2>11. QED BY <2>8, <2>10 DEF G
<1>3. G \in SUBSET (SUBSET S)
  OBVIOUS
<1> HIDE DEF G
<1>4. S \in G
  BY <1>1, <1>2, <1>3, SetInduct
<1>5. QED BY <1>4 DEF G

\* A sum over some of the elements is one over all of them, of zero for the others.
LEMMA SumFiltered ==
    ASSUME NEW S, IsFiniteSet(S), NEW T \in SUBSET S, NEW f, NEW h, \A x \in S : f[x] \in Int,
           \A x \in S : h[x] = IF x \in T THEN f[x] ELSE 0
    PROVE  SumOf(f, T) = SumOf(h, S)
<1>1. IsFiniteSet(T) /\ IsFiniteSet(S \ T) /\ T \cup (S \ T) = S /\ T \cap (S \ T) = {}
  BY FS_Subset, FS_Difference
<1>2. \A x \in T \cup (S \ T) : h[x] \in Int
  OBVIOUS
<1>3. SumOf(h, S) = SumOf(h, T) + SumOf(h, S \ T)
  BY <1>1, <1>2, SumApart
<1>4. SumOf(h, S \ T) = 0
  BY <1>1, SumZero
<1>5. SumOf(h, T) = SumOf(f, T) /\ SumOf(f, T) \in Int
  BY <1>1, SumSame, SumType
<1>6. QED BY <1>3, <1>4, <1>5
=============================================================================
