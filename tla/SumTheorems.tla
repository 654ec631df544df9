---------------------------- MODULE SumTheorems ----------------------------
(***************************************************************************)
(* What SumFunctionOnSet does with a finite set of terms.  The models add  *)
(* up amounts of refunds, days of vacations and counted payments with it;  *)
(* it is a fold, defined by CHOOSE over the subsets of its set.  Its facts *)
(* are proved by induction on the size of a set, and that induction from   *)
(* the least element of a set of naturals, so no scheme is instantiated.   *)
(***************************************************************************)
EXTENDS Integers, FiniteSets, Functions, FiniteSetTheorems, WellFoundedInduction, TLAPS

(* What holds of zero and of the successor holds of every natural.           *)
LEMMA SetInduction ==
    ASSUME NEW T \in SUBSET Nat, 0 \in T, \A n \in T : n + 1 \in T
    PROVE  T = Nat
<1> SUFFICES ASSUME Nat \ T # {} PROVE FALSE
  OBVIOUS
<1>1. PICK m \in Nat \ T : \A n \in Nat \ T : ~(n < m)
  <2>1. IsWellFoundedOn(OpToRel(<, Nat), Nat)
    BY NatLessThanWellFounded
  <2>2. PICK m \in Nat \ T : \A n \in Nat \ T : <<n, m>> \notin OpToRel(<, Nat)
    BY <2>1, WFMin, Zenon
  <2>3. ASSUME NEW n \in Nat \ T, n < m PROVE <<n, m>> \in OpToRel(<, Nat)
    BY <2>3, Zenon DEF OpToRel
  <2> QED
    BY <2>2, <2>3, Zenon
<1>2. m # 0 /\ m - 1 \in Nat
  BY <1>1
<1>3. m - 1 \in T
  BY <1>1, <1>2
<1> QED
  BY <1>1, <1>2, <1>3

(* The fold takes one element out of a set and adds it to what the fold of    *)
(* the others gives: a family of sums, one for each subset.                  *)
First(s) == CHOOSE x \in s : TRUE

Rest(s) == s \ {First(s)}

IsSum(f, S, g) ==
  g = [s \in SUBSET S |-> IF s = {} THEN 0 ELSE f[First(s)] + g[Rest(s)]]

(* A sum is the last of the family the fold chooses. *)
LEMMA SumUnfolds ==
    ASSUME NEW f, NEW S
    PROVE  SumFunctionOnSet(f, S) = (CHOOSE g : IsSum(f, S, g))[S]
  BY Zenon DEF SumFunctionOnSet, FoldFunctionOnSet, MapThenFoldSet, IsSum, First, Rest

(* A set of subsets that has whatever it has all of but one element of has   *)
(* every finite set.                                                         *)
LEMMA SubsetInduction ==
    ASSUME NEW S, IsFiniteSet(S), NEW C,
           \A s \in SUBSET S : (\A x \in s : s \ {x} \in C) => s \in C
    PROVE  \A s \in SUBSET S : s \in C
<1> DEFINE Of(n) == {s \in SUBSET S : Cardinality(s) = n}
           T == {n \in Nat : Of(n) \subseteq C}
<1>1. \A s \in SUBSET S : IsFiniteSet(s) /\ Cardinality(s) \in Nat
  BY FS_Subset, FS_CardinalityType
<1>2. 0 \in T
  <2>1. ASSUME NEW s \in Of(0) PROVE s \in C
    <3>1. s = {}
      BY <1>1, FS_EmptySet
    <3> QED
      BY <3>1
  <2> QED
    BY <2>1
<1>3. ASSUME NEW n \in T PROVE n + 1 \in T
  <2>1. ASSUME NEW s \in Of(n + 1) PROVE s \in C
    <3>1. ASSUME NEW x \in s PROVE s \ {x} \in C
      <4>1. Cardinality(s \ {x}) = Cardinality(s) - 1
        BY <1>1, FS_RemoveElement
      <4>2. Cardinality(s \ {x}) = n
        BY <4>1
      <4> QED
        BY <4>2
    <3> QED
      BY <3>1
  <2> QED
    BY <2>1
<1>4. T = Nat
  <2> HIDE DEF T
  <2>1. T \in SUBSET Nat
    BY DEF T
  <2> QED
    BY <1>2, <1>3, <2>1, SetInduction
<1> QED
  BY <1>1, <1>4

(* The element taken out is one of the set. *)
LEMMA FirstOf ==
    ASSUME NEW s, s # {}
    PROVE  First(s) \in s
BY DEF First

(* The sum over every subset exists: it is given by the sums over the smaller *)
(* ones.                                                                     *)
LEMMA SumExists ==
    ASSUME NEW S, IsFiniteSet(S), NEW f, \A x \in S : f[x] \in Int
    PROVE  \E g : IsSum(f, S, g)
<1> DEFINE UpTo(n) == {s \in SUBSET S : Cardinality(s) <= n}
           Next(g, s) == IF s = {} THEN 0 ELSE f[First(s)] + g[Rest(s)]
           Sums(n) == {g \in [UpTo(n) -> Int] : \A s \in UpTo(n) : g[s] = Next(g, s)}
           T == {n \in Nat : Sums(n) # {}}
<1>1. \A s \in SUBSET S : IsFiniteSet(s) /\ Cardinality(s) \in Nat
  BY FS_Subset, FS_CardinalityType
<1>2. ASSUME NEW s \in SUBSET S, s # {}
      PROVE  /\ First(s) \in s /\ f[First(s)] \in Int
             /\ Rest(s) \in SUBSET S /\ Cardinality(Rest(s)) = Cardinality(s) - 1
  BY <1>1, <1>2, FirstOf, FS_RemoveElement DEF Rest
<1>3. 0 \in T
  <2>1. UpTo(0) = {{}}
    BY <1>1, FS_EmptySet
  <2> DEFINE g == [s \in UpTo(0) |-> 0]
  <2>2. g \in [UpTo(0) -> Int] /\ \A s \in UpTo(0) : g[s] = Next(g, s)
    BY <2>1
  <2> QED
    BY <2>2
<1>4. ASSUME NEW n \in T PROVE n + 1 \in T
  <2>1. PICK g \in [UpTo(n) -> Int] : \A s \in UpTo(n) : g[s] = Next(g, s)
    OBVIOUS
  <2> DEFINE h == [s \in UpTo(n + 1) |-> IF s \in UpTo(n) THEN g[s] ELSE Next(g, s)]
  <2>2. ASSUME NEW s \in UpTo(n + 1), s # {} PROVE Rest(s) \in UpTo(n)
    BY <1>1, <1>2, <2>2
  <2>3. UpTo(n) \subseteq UpTo(n + 1)
    BY <1>1
  <2>4. ASSUME NEW s \in UpTo(n + 1) PROVE h[s] \in Int /\ h[s] = Next(h, s)
    <3>1. s # {} => h[Rest(s)] = g[Rest(s)] /\ g[Rest(s)] \in Int
      BY <2>1, <2>2, <2>3
    <3>2. h[s] = Next(g, s)
      BY <2>1
    <3> QED
      BY <1>2, <3>1, <3>2
  <2>5. h \in [UpTo(n + 1) -> Int]
    BY <2>4
  <2>6. h \in Sums(n + 1)
    BY <2>4, <2>5
  <2> HIDE DEF Sums
  <2> QED
    BY <2>6
<1>5. T = Nat
  <2> HIDE DEF T
  <2>1. T \in SUBSET Nat
    BY DEF T
  <2> QED
    BY <1>3, <1>4, <2>1, SetInduction
<1>6. UpTo(Cardinality(S)) = SUBSET S
  BY FS_Subset, FS_CardinalityType
<1>7. PICK g \in [SUBSET S -> Int] : \A s \in SUBSET S : g[s] = Next(g, s)
  <2>1. Cardinality(S) \in T
    BY <1>1, <1>5
  <2>2. Sums(Cardinality(S)) # {}
    BY <2>1
  <2> HIDE DEF UpTo
  <2> QED
    BY <1>6, <2>2
<1>8. g = [s \in SUBSET S |-> Next(g, s)]
  BY <1>7
<1> QED
  BY <1>8 DEF IsSum

(* Finitely many integer terms. *)
Summable(f, S) == IsFiniteSet(S) /\ \A x \in S : f[x] \in Int

(* The sum is the last of such a family. *)
LEMMA SumOfFamily ==
    ASSUME NEW S, NEW f, Summable(f, S)
    PROVE  \E g : IsSum(f, S, g) /\ SumFunctionOnSet(f, S) = g[S]
<1>1. \E g : IsSum(f, S, g)
  BY SumExists DEF Summable
<1>2. IsSum(f, S, CHOOSE g : IsSum(f, S, g))
  BY <1>1, Zenon
<1> QED
  BY <1>2, SumUnfolds, Zenon

(* Two families agree on what they both sum. *)
LEMMA FamiliesAgree ==
    ASSUME NEW S, NEW T, NEW f, NEW h, NEW fS, NEW hT,
           IsFiniteSet(T), T \subseteq S, \A x \in T : f[x] = h[x],
           IsSum(f, S, fS), IsSum(h, T, hT)
    PROVE  \A s \in SUBSET T : fS[s] = hT[s]
<1> DEFINE C == {s \in SUBSET T : fS[s] = hT[s]}
<1>1. ASSUME NEW s \in SUBSET T, \A x \in s : s \ {x} \in C PROVE s \in C
  <2>1. /\ fS[s] = IF s = {} THEN 0 ELSE f[First(s)] + fS[Rest(s)]
        /\ hT[s] = IF s = {} THEN 0 ELSE h[First(s)] + hT[Rest(s)]
    BY DEF IsSum
  <2>2. s # {} => First(s) \in T /\ Rest(s) \in C
    BY <1>1, FirstOf DEF Rest
  <2> QED
    BY <2>1, <2>2
<1> QED
  BY <1>1, SubsetInduction

(* Some of the terms are terms. *)
LEMMA SummableSubset ==
    ASSUME NEW S, NEW T \in SUBSET S, NEW f, Summable(f, S)
    PROVE  Summable(f, T)
BY FS_Subset DEF Summable

(* Nothing adds up to zero. *)
LEMMA SumEmpty == ASSUME NEW f PROVE SumFunctionOnSet(f, {}) = 0
<1>1. Summable(f, {})
  BY FS_EmptySet DEF Summable
<1>2. PICK g : IsSum(f, {}, g) /\ SumFunctionOnSet(f, {}) = g[{}]
  BY <1>1, SumOfFamily
<1>3. g[{}] = 0
  BY <1>2 DEF IsSum
<1> QED
  BY <1>2, <1>3

(* Equal terms have equal sums. *)
LEMMA SumSame ==
    ASSUME NEW S, NEW f, NEW h, Summable(f, S), \A x \in S : f[x] = h[x]
    PROVE  SumFunctionOnSet(f, S) = SumFunctionOnSet(h, S)
<1>1. Summable(h, S)
  BY DEF Summable
<1>2. PICK fS : IsSum(f, S, fS) /\ SumFunctionOnSet(f, S) = fS[S]
  BY SumOfFamily
<1>3. PICK hS : IsSum(h, S, hS) /\ SumFunctionOnSet(h, S) = hS[S]
  BY <1>1, SumOfFamily
<1>4. \A s \in SUBSET S : fS[s] = hS[s]
  BY <1>2, <1>3, FamiliesAgree DEF Summable
<1> QED
  BY <1>2, <1>3, <1>4

(* The first element and the sum of the others. *)
LEMMA SumFirst ==
    ASSUME NEW S, NEW f, Summable(f, S), S # {}
    PROVE  SumFunctionOnSet(f, S) = f[First(S)] + SumFunctionOnSet(f, Rest(S))
<1>1. Rest(S) \in SUBSET S /\ Summable(f, Rest(S))
  BY SummableSubset DEF Rest
<1>2. PICK g : IsSum(f, S, g) /\ SumFunctionOnSet(f, S) = g[S]
  BY SumOfFamily
<1>3. PICK h : IsSum(f, Rest(S), h) /\ SumFunctionOnSet(f, Rest(S)) = h[Rest(S)]
  BY <1>1, SumOfFamily
<1>4. g[Rest(S)] = h[Rest(S)]
  BY <1>1, <1>2, <1>3, FamiliesAgree DEF Summable
<1>5. g[S] = f[First(S)] + g[Rest(S)]
  BY <1>2 DEF IsSum
<1> QED
  BY <1>2, <1>3, <1>4, <1>5

(* A sum of integers is an integer. *)
LEMMA SumIsInt ==
    ASSUME NEW S, NEW f, Summable(f, S)
    PROVE  SumFunctionOnSet(f, S) \in Int
<1> DEFINE C == {s \in SUBSET S : SumFunctionOnSet(f, s) \in Int}
<1>1. ASSUME NEW s \in SUBSET S, \A x \in s : s \ {x} \in C PROVE s \in C
  <2>1. CASE s = {}
    BY <2>1, SumEmpty
  <2>2. CASE s # {}
    <3>1. Rest(s) \in C /\ f[First(s)] \in Int
      BY <1>1, <2>2, FirstOf DEF Rest, Summable
    <3>2. SumFunctionOnSet(f, s) = f[First(s)] + SumFunctionOnSet(f, Rest(s))
      BY <2>2, SumFirst, SummableSubset
    <3> QED
      BY <3>1, <3>2
  <2> QED
    BY <2>1, <2>2
<1>2. IsFiniteSet(S) /\ S \in SUBSET S
  BY DEF Summable
<1>3. \A s \in SUBSET S : s \in C
  <2> HIDE DEF C
  <2> QED
    BY <1>1, <1>2, SubsetInduction
<1> QED
  BY <1>2, <1>3

(* Any element may be taken out: the order does not matter. *)
LEMMA SumWithout ==
    ASSUME NEW S, NEW f, Summable(f, S), NEW x \in S
    PROVE  SumFunctionOnSet(f, S) = f[x] + SumFunctionOnSet(f, S \ {x})
<1> DEFINE Out(s) == \A y \in s : SumFunctionOnSet(f, s) = f[y] + SumFunctionOnSet(f, s \ {y})
           C == {s \in SUBSET S : Out(s)}
<1>1. ASSUME NEW s \in SUBSET S, \A y \in s : s \ {y} \in C PROVE s \in C
  <2> SUFFICES ASSUME NEW y \in s, y # First(s)
               PROVE  SumFunctionOnSet(f, s) = f[y] + SumFunctionOnSet(f, s \ {y})
    BY SumFirst, SummableSubset DEF Rest
  <2> DEFINE z == First(s)
             both == s \ {y, z}
  <2>1. z \in s /\ f[z] \in Int /\ f[y] \in Int
    BY FirstOf DEF Summable
  <2>2. SumFunctionOnSet(f, s) = f[z] + SumFunctionOnSet(f, s \ {z})
    BY SumFirst, SummableSubset DEF Rest
  <2>3. /\ (s \ {z}) \ {y} = both /\ y \in s \ {z}
        /\ (s \ {y}) \ {z} = both /\ z \in s \ {y}
    BY <2>1
  <2>4. SumFunctionOnSet(f, s \ {z}) = f[y] + SumFunctionOnSet(f, both)
    BY <1>1, <2>1, <2>3
  <2>5. SumFunctionOnSet(f, s \ {y}) = f[z] + SumFunctionOnSet(f, both)
    BY <1>1, <2>1, <2>3
  <2>6. SumFunctionOnSet(f, both) \in Int
    BY SumIsInt, SummableSubset
  <2> QED
    BY <2>1, <2>2, <2>4, <2>5, <2>6
<1>2. \A s \in SUBSET S : s \in C
  <2> HIDE DEF C
  <2> QED
    BY <1>1, SubsetInduction DEF Summable
<1> QED
  BY <1>2

(* One element more. *)
LEMMA SumWith ==
    ASSUME NEW S, NEW f, Summable(f, S), NEW x, x \notin S, f[x] \in Int
    PROVE  SumFunctionOnSet(f, S \cup {x}) = f[x] + SumFunctionOnSet(f, S)
<1>1. Summable(f, S \cup {x}) /\ (S \cup {x}) \ {x} = S
  BY FS_AddElement DEF Summable
<1> QED
  BY <1>1, SumWithout

(* Two sums that may only differ in one element differ by what it is in each. *)
LEMMA SumChanges ==
    ASSUME NEW S, NEW T, NEW f, NEW g, Summable(f, S), Summable(g, T),
           NEW u, S \ {u} = T \ {u}, \A x \in S \ {u} : f[x] = g[x]
    PROVE  SumFunctionOnSet(g, T) - (IF u \in T THEN g[u] ELSE 0)
             = SumFunctionOnSet(f, S) - (IF u \in S THEN f[u] ELSE 0)
<1> DEFINE Others(h, R) == SumFunctionOnSet(h, R \ {u})
<1>1. ASSUME NEW h, NEW R, Summable(h, R)
      PROVE  /\ Summable(h, R \ {u}) /\ Others(h, R) \in Int
             /\ SumFunctionOnSet(h, R) - (IF u \in R THEN h[u] ELSE 0) = Others(h, R)
  <2>1. Summable(h, R \ {u})
    BY <1>1, SummableSubset
  <2>2. SumFunctionOnSet(h, R) \in Int /\ Others(h, R) \in Int
    BY <1>1, <2>1, SumIsInt
  <2>3. CASE u \in R
    <3>1. SumFunctionOnSet(h, R) = h[u] + Others(h, R) /\ h[u] \in Int
      BY <1>1, <2>3, SumWithout DEF Summable
    <3> QED
      BY <2>1, <2>2, <2>3, <3>1
  <2>4. CASE u \notin R
    <3>1. R \ {u} = R
      BY <2>4
    <3> QED
      BY <2>1, <2>2, <2>4, <3>1
  <2> QED
    BY <2>3, <2>4
<1>2. Others(f, S) = Others(g, T)
  BY <1>1, SumSame
<1> QED
  BY <1>1, <1>2

(* A sum of naturals is a natural, and no term or part of it is larger. *)
LEMMA SumIsNat ==
    ASSUME NEW S, NEW f, IsFiniteSet(S), \A x \in S : f[x] \in Nat
    PROVE  /\ SumFunctionOnSet(f, S) \in Nat
           /\ \A x \in S : f[x] <= SumFunctionOnSet(f, S)
<1> DEFINE C == {s \in SUBSET S : SumFunctionOnSet(f, s) \in Nat}
<1>1. \A s \in SUBSET S : Summable(f, s)
  BY FS_Subset DEF Summable
<1>2. ASSUME NEW s \in SUBSET S, \A x \in s : s \ {x} \in C PROVE s \in C
  <2>1. CASE s = {}
    BY <2>1, SumEmpty
  <2>2. CASE s # {}
    <3>1. PICK x \in s : TRUE
      BY <2>2
    <3>2. SumFunctionOnSet(f, s) = f[x] + SumFunctionOnSet(f, s \ {x})
      BY <1>1, SumWithout
    <3> QED
      BY <1>2, <3>2
  <2> QED
    BY <2>1, <2>2
<1>3. \A s \in SUBSET S : s \in C
  <2> HIDE DEF C
  <2> QED
    BY <1>2, SubsetInduction
<1>4. ASSUME NEW x \in S PROVE f[x] <= SumFunctionOnSet(f, S)
  <2>1. SumFunctionOnSet(f, S) = f[x] + SumFunctionOnSet(f, S \ {x})
    BY <1>1, SumWithout
  <2> QED
    BY <1>3, <2>1
<1> QED
  BY <1>3, <1>4

(* A part of a sum of naturals is not larger than the whole. *)
LEMMA SumOfSubset ==
    ASSUME NEW S, NEW T, NEW f, IsFiniteSet(S), T \subseteq S, \A x \in S : f[x] \in Nat
    PROVE  SumFunctionOnSet(f, T) <= SumFunctionOnSet(f, S)
<1> DEFINE Whole(s) == SumFunctionOnSet(f, T) <= SumFunctionOnSet(f, T \cup s)
           C == {s \in SUBSET (S \ T) : Whole(s)}
<1>1. ASSUME NEW s \in SUBSET S
      PROVE  Summable(f, s) /\ SumFunctionOnSet(f, s) \in Nat
  <2>1. IsFiniteSet(s)
    BY FS_Subset
  <2> QED
    BY <2>1, SumIsNat DEF Summable
<1>2. ASSUME NEW s \in SUBSET (S \ T), \A x \in s : s \ {x} \in C PROVE s \in C
  <2>1. CASE s = {}
    <3>1. T \cup s = T /\ SumFunctionOnSet(f, T) \in Nat
      BY <1>1, <2>1
    <3> QED
      BY <3>1
  <2>2. CASE s # {}
    <3>1. PICK x \in s : TRUE
      BY <2>2
    <3>2. (T \cup s) \ {x} = T \cup (s \ {x}) /\ x \in T \cup s /\ f[x] \in Nat
          /\ T \cup s \in SUBSET S /\ T \cup (s \ {x}) \in SUBSET S
      OBVIOUS
    <3>3. SumFunctionOnSet(f, T \cup s) = f[x] + SumFunctionOnSet(f, T \cup (s \ {x}))
      BY <1>1, <3>2, SumWithout
    <3>4. SumFunctionOnSet(f, T) <= SumFunctionOnSet(f, T \cup (s \ {x}))
      BY <1>2
    <3>5. SumFunctionOnSet(f, T) \in Nat /\ SumFunctionOnSet(f, T \cup (s \ {x})) \in Nat
      BY <1>1, <3>2
    <3> QED
      BY <3>2, <3>3, <3>4, <3>5
  <2> QED
    BY <2>1, <2>2
<1>3. IsFiniteSet(S \ T)
  BY FS_Subset
<1>4. \A s \in SUBSET (S \ T) : s \in C
  <2> DEFINE Others == S \ T
  <2>1. IsFiniteSet(Others) /\ \A s \in SUBSET Others : (\A x \in s : s \ {x} \in C) => s \in C
    BY <1>2, <1>3
  <2>2. \A s \in SUBSET Others : s \in C
    <3> HIDE DEF C, Others
    <3> QED
      BY <2>1, SubsetInduction
  <2> QED
    BY <2>2
<1>5. S \ T \in C /\ T \cup (S \ T) = S
  BY <1>4
<1> QED
  BY <1>5

=============================================================================
