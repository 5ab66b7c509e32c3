----------------------------- MODULE Sums_proofs -----------------------------
(***************************************************************************)
(* Facts about least elements and about Sum that the proofs of the         *)
(* components cite: what a sum becomes when an element is added, when a    *)
(* value changes, and along a sequence that grows at its end and shrinks   *)
(* at its head.                                                            *)
(*                                                                         *)
(* Sum is a recursive function, and a proof about it an induction.  Both   *)
(* are reduced to facts that the library has: that a finite set has finitely *)
(* many subsets to go down to (MinimalSet), and that Nat is well founded   *)
(* (SmallestOf).                                                           *)
(***************************************************************************)
EXTENDS Sums, Sequences, FiniteSetTheorems, TLAPS

\* A nonempty set of naturals has a least element.  Induction on numbers is
\* replaced by the well-founded ordering of finite sets: 0 .. x grows with x.
LEMMA SmallestOf ==
  ASSUME NEW T \in SUBSET Nat, T # {}
  PROVE  \E x \in T : \A y \in T : x <= y
<1> DEFINE F == {0 .. x : x \in T}
<1> DEFINE R == StrictSubsetOrdering(Nat)
<1> DEFINE S == FiniteSubsetsOf(Nat)
<1>1. \A x \in T : 0 .. x \in S
  <2> TAKE x \in T
  <2>1. IsFiniteSet(0 .. x)
    BY FS_Interval
  <2>2. 0 .. x \in SUBSET Nat
    OBVIOUS
  <2> QED
    BY <2>1, <2>2 DEF FiniteSubsetsOf
<1>2. F \subseteq S /\ F # {}
  BY <1>1
<1>3. IsWellFoundedOn(R, S)
  BY FS_StrictSubsetOrderingWellFounded
<1>4. \E I \in F : \A J \in F : ~(<<J, I>> \in R)
  <2> HIDE DEF F, R, S
  <2> QED
    BY <1>2, <1>3, WFMin
<1>5. PICK x \in T : \A J \in F : ~(<<J, 0 .. x>> \in R)
  BY <1>4
<1>6. ASSUME NEW y \in T, y < x
      PROVE  FALSE
  <2>1. 0 .. y \subseteq 0 .. x /\ x \in 0 .. x /\ x \notin 0 .. y
    BY <1>6
  <2>2. 0 .. y # 0 .. x
    BY <2>1
  <2>3. <<0 .. y, 0 .. x>> \in (SUBSET Nat) \X (SUBSET Nat)
    BY <1>1 DEF FiniteSubsetsOf
  <2>4. <<0 .. y, 0 .. x>> \in R
    BY <2>1, <2>2, <2>3 DEF StrictSubsetOrdering
  <2> QED
    BY <1>5, <2>4
<1> QED
  BY <1>6


\* A nonempty family of subsets of a finite set has a minimal member.
LEMMA MinimalSet ==
  ASSUME NEW S, IsFiniteSet(S), NEW F \in SUBSET (SUBSET S), F # {}
  PROVE  \E s \in F : \A t \in F : t \subseteq s => t = s
<1> DEFINE R == StrictSubsetOrdering(S)
<1> DEFINE Sub == FiniteSubsetsOf(S)
<1>1. F \subseteq Sub
  BY FS_Subset DEF FiniteSubsetsOf
<1>2. IsWellFoundedOn(R, Sub)
  BY FS_StrictSubsetOrderingWellFounded
<1>3. PICK s \in F : \A t \in F : ~(<<t, s>> \in R)
  <2> HIDE DEF R, Sub
  <2> QED
    BY <1>1, <1>2, WFMin
<1>4. ASSUME NEW t \in F, t \subseteq s, t # s
      PROVE  FALSE
  <2>1. <<t, s>> \in (SUBSET S) \X (SUBSET S)
    BY <1>3
  <2>2. <<t, s>> \in R
    BY <1>4, <2>1 DEF StrictSubsetOrdering
  <2> QED
    BY <1>3, <2>2
<1> QED
  BY <1>3, <1>4

-----------------------------------------------------------------------------
(***************************************************************************)
(* The recursion behind Sum: g gives the sum over every subset of S.       *)
(***************************************************************************)
Choice(s) == CHOOSE x \in s : TRUE
Partial(f, s, g) == IF s = {} THEN 0 ELSE f[Choice(s)] + g[s \ {Choice(s)}]
SubsetSums(f, S, g) == g = [s \in SUBSET S |-> Partial(f, s, g)]

LEMMA ChoiceIn ==
  ASSUME NEW s, s # {}
  PROVE  Choice(s) \in s
BY DEF Choice

LEMMA SumDefined == \A f, S : Sum(f, S) = (CHOOSE g : SubsetSums(f, S, g))[S]
BY DEF Sum, MapThenFoldSet, SubsetSums, Partial, Choice

\* There is such a function: one for the subsets of at most n elements gives one for
\* those of n + 1.
LEMMA SumsExist ==
  ASSUME NEW f, NEW S, IsFiniteSet(S)
  PROVE  \E g : SubsetSums(f, S, g)
<1> DEFINE Level(n) == {s \in SUBSET S : Cardinality(s) <= n}
<1> DEFINE IsLevel(n, g) == g = [s \in Level(n) |-> Partial(f, s, g)]
<1> DEFINE Bad == {n \in Nat : ~\E g : IsLevel(n, g)}
<1>1. \A s \in SUBSET S : /\ IsFiniteSet(s) /\ Cardinality(s) \in Nat
                          /\ Cardinality(s) <= Cardinality(S)
                          /\ s = {} <=> Cardinality(s) = 0
  BY FS_Subset, FS_CardinalityType, FS_EmptySet
<1>2. ASSUME NEW s \in SUBSET S, s # {}
      PROVE  /\ s \ {Choice(s)} \in SUBSET S
             /\ Cardinality(s \ {Choice(s)}) = Cardinality(s) - 1
  BY <1>1, <1>2, ChoiceIn, FS_RemoveElement
<1>3. Bad = {}
  <2> SUFFICES ASSUME Bad # {} PROVE FALSE
    OBVIOUS
  <2>1. PICK m \in Bad : \A n \in Bad : m <= n
    <3>1. Bad \in SUBSET Nat
      OBVIOUS
    <3> HIDE DEF Bad
    <3> QED
      BY <3>1, SmallestOf
  <2>2. m # 0
    <3>1. IsLevel(0, [s \in Level(0) |-> 0])
      BY <1>1 DEF Partial
    <3> QED
      BY <3>1
  <2>3. m - 1 \in Nat /\ m - 1 \notin Bad
    <3>1. m \in Nat
      OBVIOUS
    <3> HIDE DEF Bad
    <3> QED
      BY <2>1, <2>2, <3>1
  <2>4. PICK g : IsLevel(m - 1, g)
    BY <2>3
  <2> DEFINE e == [s \in Level(m) |-> Partial(f, s, g)]
  <2>5. ASSUME NEW s \in Level(m - 1)
        PROVE  s \in Level(m) /\ e[s] = g[s]
    BY <1>1, <2>3, <2>4
  <2>6. ASSUME NEW s \in Level(m), s # {}
        PROVE  s \ {Choice(s)} \in Level(m - 1)
    BY <1>1, <1>2, <2>3, <2>6
  <2>7. \A s \in Level(m) : Partial(f, s, g) = Partial(f, s, e)
    <3> HIDE DEF e, Level
    <3> QED
      BY <2>5, <2>6 DEF Partial
  <2>8. IsLevel(m, e)
    <3> HIDE DEF Level
    <3> QED
      BY <2>7
  <2> HIDE DEF e, IsLevel
  <2> QED
    BY <2>1, <2>8
<1>4. Cardinality(S) \in Nat /\ Level(Cardinality(S)) = SUBSET S
  BY <1>1
<1>5. PICK g : IsLevel(Cardinality(S), g)
  BY <1>3, <1>4
<1> QED
  BY <1>4, <1>5 DEF SubsetSums

\* Sums of functions that agree on T agree on every subset of T, whatever the larger
\* set they were defined over.
LEMMA SumsAgree ==
  ASSUME NEW S, NEW T \in SUBSET S, IsFiniteSet(S), NEW f, NEW e, NEW g, NEW d,
         SubsetSums(f, S, g), SubsetSums(e, T, d), \A x \in T : f[x] = e[x]
  PROVE  \A s \in SUBSET T : g[s] = d[s]
<1> DEFINE Bad == {s \in SUBSET T : g[s] # d[s]}
<1> SUFFICES ASSUME Bad # {} PROVE FALSE
  OBVIOUS
<1>1. IsFiniteSet(T)
  BY FS_Subset
<1>2. PICK s \in Bad : \A t \in Bad : t \subseteq s => t = s
  <2>1. Bad \in SUBSET (SUBSET T) /\ Bad # {}
    OBVIOUS
  <2> HIDE DEF Bad
  <2> QED
    BY <1>1, <2>1, MinimalSet
<1>3. g[s] = Partial(f, s, g) /\ d[s] = Partial(e, s, d)
  BY <1>2 DEF SubsetSums
<1>4. CASE s = {}
  BY <1>2, <1>3, <1>4 DEF Partial
<1>5. CASE s # {}
  <2>1. Choice(s) \in s /\ f[Choice(s)] = e[Choice(s)]
    BY <1>2, <1>5, ChoiceIn
  <2>2. g[s \ {Choice(s)}] = d[s \ {Choice(s)}]
    BY <1>2, <2>1
  <2> QED
    BY <1>2, <1>3, <1>5, <2>1, <2>2 DEF Partial
<1> QED
  BY <1>4, <1>5

LEMMA SumOverSubsets ==
  ASSUME NEW f, NEW S, IsFiniteSet(S)
  PROVE  \E g : SubsetSums(f, S, g) /\ \A s \in SUBSET S : Sum(f, s) = g[s]
<1>1. PICK g : g = (CHOOSE k : SubsetSums(f, S, k))
  OBVIOUS
<1>2. SubsetSums(f, S, g)
  BY <1>1, SumsExist
<1>3. ASSUME NEW s \in SUBSET S
      PROVE  Sum(f, s) = g[s]
  <2>1. PICK d : d = (CHOOSE k : SubsetSums(f, s, k))
    OBVIOUS
  <2>2. IsFiniteSet(s)
    BY FS_Subset
  <2>3. SubsetSums(f, s, d)
    BY <2>1, <2>2, SumsExist
  <2>4. Sum(f, s) = d[s]
    BY <2>1, SumDefined
  <2> QED
    BY <1>2, <2>3, <2>4, SumsAgree
<1> QED
  BY <1>2, <1>3

-----------------------------------------------------------------------------
(***************************************************************************)
(* Sums over sets.                                                         *)
(***************************************************************************)
LEMMA SumChoice ==
  ASSUME NEW f, NEW S, IsFiniteSet(S)
  PROVE  Sum(f, S) = IF S = {} THEN 0 ELSE f[Choice(S)] + Sum(f, S \ {Choice(S)})
<1>1. PICK g : SubsetSums(f, S, g) /\ \A s \in SUBSET S : Sum(f, s) = g[s]
  BY SumOverSubsets
<1>2. Sum(f, S) = Partial(f, S, g)
  BY <1>1 DEF SubsetSums
<1>3. Sum(f, S \ {Choice(S)}) = g[S \ {Choice(S)}]
  BY <1>1
<1> QED
  BY <1>2, <1>3 DEF Partial

LEMMA SumEmpty == \A f : Sum(f, {}) = 0
BY SumChoice, FS_EmptySet

\* The sum depends on the values over the set alone.
LEMMA SumSame ==
  ASSUME NEW f, NEW e, NEW S, IsFiniteSet(S), \A x \in S : f[x] = e[x]
  PROVE  Sum(f, S) = Sum(e, S)
<1>1. PICK g : SubsetSums(f, S, g) /\ \A s \in SUBSET S : Sum(f, s) = g[s]
  BY SumOverSubsets
<1>2. PICK d : SubsetSums(e, S, d) /\ \A s \in SUBSET S : Sum(e, s) = d[s]
  BY SumOverSubsets
<1>3. \A s \in SUBSET S : g[s] = d[s]
  BY <1>1, <1>2, SumsAgree
<1> QED
  BY <1>1, <1>2, <1>3

\* Any element can be split off, not only the one that is chosen.
LEMMA SumSplit ==
  ASSUME NEW S, IsFiniteSet(S), NEW f, \A x \in S : f[x] \in Int
  PROVE  /\ Sum(f, S) \in Int
         /\ \A x \in S : Sum(f, S) = f[x] + Sum(f, S \ {x})
<1> DEFINE Good(s) == /\ Sum(f, s) \in Int
                      /\ \A x \in s : Sum(f, s) = f[x] + Sum(f, s \ {x})
<1> DEFINE Bad == {s \in SUBSET S : ~Good(s)}
<1> SUFFICES ASSUME Bad # {} PROVE FALSE
  OBVIOUS
<1>1. PICK s \in Bad : \A t \in Bad : t \subseteq s => t = s
  <2>1. Bad \in SUBSET (SUBSET S) /\ Bad # {}
    OBVIOUS
  <2> HIDE DEF Bad
  <2> QED
    BY <2>1, MinimalSet
<1>2. \A t \in SUBSET S : IsFiniteSet(t)
  BY FS_Subset
<1>3. s # {}
  <2>1. ~Good(s)
    OBVIOUS
  <2>2. s = {} => Good(s)
    BY SumEmpty
  <2> QED
    BY <2>1, <2>2
<1> DEFINE c == Choice(s)
<1>4. c \in s /\ f[c] \in Int /\ Good(s \ {c})
  BY <1>1, <1>3, ChoiceIn
<1>5. Sum(f, s) = f[c] + Sum(f, s \ {c})
  BY <1>1, <1>2, <1>3, SumChoice
<1> HIDE DEF c
<1>6. ASSUME NEW x \in s, x # c
      PROVE  Sum(f, s) = f[x] + Sum(f, s \ {x})
  <2>1. x \in s \ {c} /\ c \in s \ {x} /\ f[x] \in Int
    BY <1>1, <1>4, <1>6
  <2>2. Sum(f, s \ {c}) = f[x] + Sum(f, (s \ {c}) \ {x})
    BY <1>4, <2>1
  <2>3. Good(s \ {x}) /\ Good((s \ {c}) \ {x})
    BY <1>1, <1>4, <2>1
  <2>4. Sum(f, s \ {x}) = f[c] + Sum(f, (s \ {x}) \ {c})
    BY <2>1, <2>3
  <2>5. (s \ {x}) \ {c} = (s \ {c}) \ {x}
    OBVIOUS
  <2> DEFINE rest == Sum(f, (s \ {c}) \ {x})
  <2>6. rest \in Int
    BY <2>3
  <2>7. Sum(f, s \ {c}) = f[x] + rest /\ Sum(f, s \ {x}) = f[c] + rest
    BY <2>2, <2>4, <2>5
  <2> HIDE DEF rest
  <2> QED
    BY <1>4, <1>5, <2>1, <2>6, <2>7
<1>7. Good(s)
  <2>1. Sum(f, s) \in Int
    BY <1>4, <1>5
  <2> QED
    BY <2>1, <1>5, <1>6
<1> QED
  BY <1>1, <1>7

LEMMA SumAdd ==
  ASSUME NEW S, IsFiniteSet(S), NEW x, x \notin S, NEW f, \A y \in S \cup {x} : f[y] \in Int
  PROVE  Sum(f, S \cup {x}) = f[x] + Sum(f, S)
<1>1. IsFiniteSet(S \cup {x}) /\ (S \cup {x}) \ {x} = S
  BY FS_AddElement
<1> QED
  BY <1>1, SumSplit

\* A sum of naturals is a natural number, and no smaller than any of them.
LEMMA SumNat ==
  ASSUME NEW S, IsFiniteSet(S), NEW f, \A x \in S : f[x] \in Nat
  PROVE  Sum(f, S) \in Nat /\ \A x \in S : f[x] <= Sum(f, S)
<1> DEFINE Bad == {s \in SUBSET S : ~(Sum(f, s) \in Nat)}
<1>1. Bad = {}
  <2> SUFFICES ASSUME Bad # {} PROVE FALSE
    OBVIOUS
  <2>1. PICK s \in Bad : \A t \in Bad : t \subseteq s => t = s
    <3>1. Bad \in SUBSET (SUBSET S) /\ Bad # {}
      OBVIOUS
    <3> HIDE DEF Bad
    <3> QED
      BY <3>1, MinimalSet
  <2>2. IsFiniteSet(s)
    BY FS_Subset
  <2>3. s # {}
    <3>1. ~(Sum(f, s) \in Nat)
      BY <2>1
    <3> QED
      BY <3>1, SumEmpty
  <2>4. PICK x \in s : TRUE
    BY <2>3
  <2>5. Sum(f, s) = f[x] + Sum(f, s \ {x}) /\ Sum(f, s \ {x}) \in Nat
    BY <2>1, <2>2, <2>4, SumSplit
  <2> QED
    BY <2>1, <2>4, <2>5
<1>2. \A s \in SUBSET S : Sum(f, s) \in Nat
  BY <1>1
<1>3. ASSUME NEW x \in S
      PROVE  f[x] <= Sum(f, S)
  <2>1. Sum(f, S) = f[x] + Sum(f, S \ {x}) /\ Sum(f, S \ {x}) \in Nat
    BY <1>2, SumSplit
  <2> QED
    BY <2>1
<1> QED
  BY <1>2, <1>3

\* A sum of naturals that are all zero is zero.
LEMMA SumZero ==
  ASSUME NEW S, IsFiniteSet(S), NEW f, \A x \in S : f[x] = 0
  PROVE  Sum(f, S) = 0
<1> DEFINE Bad == {s \in SUBSET S : Sum(f, s) # 0}
<1> SUFFICES ASSUME Bad # {} PROVE FALSE
  OBVIOUS
<1>1. PICK s \in Bad : \A t \in Bad : t \subseteq s => t = s
  <2>1. Bad \in SUBSET (SUBSET S) /\ Bad # {}
    OBVIOUS
  <2> HIDE DEF Bad
  <2> QED
    BY <2>1, MinimalSet
<1>2. IsFiniteSet(s)
  BY FS_Subset
<1>3. s # {}
  <2>1. Sum(f, s) # 0
    BY <1>1
  <2> QED
    BY <2>1, SumEmpty
<1>4. PICK x \in s : TRUE
  BY <1>3
<1>5. Sum(f, s) = f[x] + Sum(f, s \ {x}) /\ f[x] = 0 /\ Sum(f, s \ {x}) = 0
  BY <1>1, <1>2, <1>4, SumSplit
<1> QED
  BY <1>1, <1>5

\* When one value changes, the sum changes by as much.
LEMMA SumUpdate ==
  ASSUME NEW S, IsFiniteSet(S), NEW x \in S, NEW f, NEW e,
         \A y \in S : f[y] \in Int /\ e[y] \in Int, \A y \in S \ {x} : f[y] = e[y]
  PROVE  Sum(e, S) = Sum(f, S) + e[x] - f[x]
<1>1. IsFiniteSet(S \ {x})
  BY FS_RemoveElement
<1>2. /\ Sum(e, S) = e[x] + Sum(e, S \ {x}) /\ Sum(f, S) = f[x] + Sum(f, S \ {x})
      /\ Sum(f, S \ {x}) \in Int
  BY <1>1, SumSplit
<1>3. Sum(e, S \ {x}) = Sum(f, S \ {x})
  BY <1>1, SumSame
<1> QED
  BY <1>2, <1>3

-----------------------------------------------------------------------------
(***************************************************************************)
(* Sums along an interval, from its last element and from its first.       *)
(***************************************************************************)
LEMMA SumLast ==
  ASSUME NEW n \in Nat, NEW f, \A i \in 1 .. n + 1 : f[i] \in Int
  PROVE  Sum(f, 1 .. n + 1) = Sum(f, 1 .. n) + f[n + 1]
<1> DEFINE I == 1 .. n
<1>1. IsFiniteSet(I) /\ 1 .. n + 1 = I \cup {n + 1} /\ n + 1 \notin I
  BY FS_Interval
<1>2. f[n + 1] \in Int /\ \A i \in I \cup {n + 1} : f[i] \in Int
  OBVIOUS
<1> HIDE DEF I
<1>3. Sum(f, I) \in Int
  BY <1>1, <1>2, SumSplit
<1>4. Sum(f, I \cup {n + 1}) = f[n + 1] + Sum(f, I)
  BY <1>1, <1>2, SumAdd
<1>5. Sum(f, 1 .. n + 1) = Sum(f, I) + f[n + 1]
  <2>1. Sum(f, 1 .. n + 1) = f[n + 1] + Sum(f, I)
    BY <1>1, <1>4
  <2> QED
    BY <1>2, <1>3, <2>1
<1> QED
  BY <1>5 DEF I

LEMMA SumFirst ==
  ASSUME NEW n \in Nat, NEW f, NEW e, \A i \in 1 .. n + 1 : f[i] \in Int,
         \A i \in 1 .. n : e[i] = f[i + 1]
  PROVE  Sum(f, 1 .. n + 1) = f[1] + Sum(e, 1 .. n)
<1> DEFINE Good(m) == Sum(f, 1 .. m + 1) = f[1] + Sum(e, 1 .. m)
<1> DEFINE Bad == {m \in 0 .. n : ~Good(m)}
<1> SUFFICES ASSUME Bad # {} PROVE FALSE
  OBVIOUS
<1>1. PICK m \in Bad : \A k \in Bad : m <= k
  <2>1. Bad \in SUBSET Nat /\ Bad # {}
    OBVIOUS
  <2> HIDE DEF Bad
  <2> QED
    BY <2>1, SmallestOf
<1>2. CASE m = 0
  <2>1. 1 .. 0 = {} /\ 0 + 1 = 1 /\ f[1] \in Int
    OBVIOUS
  <2>2. Sum(f, 1 .. 0) = 0 /\ Sum(e, 1 .. 0) = 0
    BY <2>1, SumEmpty
  <2>3. Sum(f, 1 .. 0 + 1) = Sum(f, 1 .. 0) + f[0 + 1]
    <3>1. 0 \in Nat /\ \A i \in 1 .. 0 + 1 : f[i] \in Int
      OBVIOUS
    <3> QED
      BY <3>1, SumLast
  <2> QED
    BY <1>1, <1>2, <2>1, <2>2, <2>3
<1>3. CASE m # 0
  <2>1. m - 1 \in Nat /\ m \in Nat /\ (m - 1) + 1 = m /\ m \in 1 .. n /\ m + 1 \in 1 .. n + 1
    BY <1>1, <1>3
  <2>2. Good(m - 1)
    BY <1>1, <1>3
  <2>3. \A i \in 1 .. m + 1 : f[i] \in Int
    BY <2>1
  <2>4. Sum(f, 1 .. m + 1) = Sum(f, 1 .. m) + f[m + 1]
    BY <2>1, <2>3, SumLast
  <2>5. Sum(e, 1 .. m) = Sum(e, 1 .. m - 1) + e[m]
    <3>1. \A i \in 1 .. (m - 1) + 1 : e[i] \in Int
      BY <2>1
    <3> QED
      BY <2>1, <3>1, SumLast
  <2>6. e[m] = f[m + 1] /\ e[m] \in Int /\ f[1] \in Int
    BY <2>1
  <2>7. Sum(e, 1 .. m - 1) \in Int
    <3>1. m - 1 \in Int /\ \A i \in 1 .. m - 1 : e[i] \in Int
      BY <2>1
    <3>2. IsFiniteSet(1 .. m - 1)
      BY <3>1, FS_Interval
    <3> QED
      BY <3>1, <3>2, SumSplit
  <2> QED
    BY <1>1, <2>1, <2>2, <2>4, <2>5, <2>6, <2>7
<1> QED
  BY <1>2, <1>3

-----------------------------------------------------------------------------
(***************************************************************************)
(* Sums along a sequence of elements of P, where W gives the weight of an  *)
(* element: the first n elements together.                                 *)
(***************************************************************************)
Weight(W, l, n) == Sum([i \in 1 .. n |-> W[l[i]]], 1 .. n)

LEMMA WeightNat ==
  ASSUME NEW P, NEW W, \A p \in P : W[p] \in Nat, NEW l \in Seq(P), NEW n \in 0 .. Len(l)
  PROVE  Weight(W, l, n) \in Nat
<1> DEFINE f == [i \in 1 .. n |-> W[l[i]]]
<1>1. \A i \in 1 .. n : f[i] \in Nat
  <2>1. \A i \in 1 .. n : l[i] \in P
    OBVIOUS
  <2> QED
    BY <2>1
<1>2. IsFiniteSet(1 .. n)
  BY FS_Interval
<1> HIDE DEF f
<1>3. Sum(f, 1 .. n) \in Nat
  BY <1>1, <1>2, SumNat
<1> QED
  BY <1>3 DEF Weight, f

LEMMA WeightZero == \A W, l : Weight(W, l, 0) = 0
<1>1. 1 .. 0 = {}
  OBVIOUS
<1> QED
  BY <1>1, SumEmpty DEF Weight

\* One element further.
LEMMA WeightNext ==
  ASSUME NEW P, NEW W, \A p \in P : W[p] \in Nat, NEW l \in Seq(P), NEW n \in 1 .. Len(l)
  PROVE  Weight(W, l, n) = Weight(W, l, n - 1) + W[l[n]]
<1> DEFINE f == [i \in 1 .. n |-> W[l[i]]]
<1> DEFINE e == [i \in 1 .. n - 1 |-> W[l[i]]]
<1>1. \A i \in 1 .. n : f[i] \in Int
  <2>1. \A i \in 1 .. n : l[i] \in P
    OBVIOUS
  <2> QED
    BY <2>1
<1>2. n - 1 \in Nat /\ (n - 1) + 1 = n
  OBVIOUS
<1>3. \A i \in 1 .. n - 1 : f[i] = e[i]
  OBVIOUS
<1>4. f[n] = W[l[n]]
  OBVIOUS
<1> HIDE DEF f, e
<1>5. Sum(f, 1 .. n) = Sum(f, 1 .. n - 1) + f[n]
  BY <1>1, <1>2, SumLast
<1>6. IsFiniteSet(1 .. n - 1)
  BY <1>2, FS_Interval
<1>7. Sum(f, 1 .. n - 1) = Sum(e, 1 .. n - 1)
  BY <1>3, <1>6, SumSame
<1> QED
  BY <1>4, <1>5, <1>7 DEF Weight, f, e

\* What is appended does not weigh on what is before it.
LEMMA WeightAppend ==
  ASSUME NEW P, NEW W, \A p \in P : W[p] \in Nat, NEW l \in Seq(P), NEW q \in P
  PROVE  /\ \A n \in 0 .. Len(l) : Weight(W, Append(l, q), n) = Weight(W, l, n)
         /\ Weight(W, Append(l, q), Len(l) + 1) = Weight(W, l, Len(l)) + W[q]
<1>1. ASSUME NEW n \in 0 .. Len(l)
      PROVE  Weight(W, Append(l, q), n) = Weight(W, l, n)
  <2>1. \A i \in 1 .. n : Append(l, q)[i] = l[i]
    OBVIOUS
  <2>2. [i \in 1 .. n |-> W[Append(l, q)[i]]] = [i \in 1 .. n |-> W[l[i]]]
    BY <2>1
  <2> QED
    BY <2>2 DEF Weight
<1>2. /\ Append(l, q) \in Seq(P) /\ Len(Append(l, q)) = Len(l) + 1 /\ Len(l) \in Nat
      /\ Append(l, q)[Len(l) + 1] = q /\ (Len(l) + 1) - 1 = Len(l)
  OBVIOUS
<1>3. Weight(W, Append(l, q), Len(l) + 1) =
        Weight(W, Append(l, q), (Len(l) + 1) - 1) + W[Append(l, q)[Len(l) + 1]]
  <2>1. Len(l) + 1 \in 1 .. Len(Append(l, q))
    BY <1>2
  <2> QED
    BY <1>2, <2>1, WeightNext
<1>4. Weight(W, Append(l, q), Len(l) + 1) = Weight(W, l, Len(l)) + W[q]
  BY <1>1, <1>2, <1>3
<1> QED
  BY <1>1, <1>4

\* What is taken from the head is missing from every sum.
LEMMA WeightTail ==
  ASSUME NEW P, NEW W, \A p \in P : W[p] \in Nat, NEW l \in Seq(P), l # <<>>,
         NEW n \in 0 .. Len(l) - 1
  PROVE  Weight(W, l, n + 1) = W[l[1]] + Weight(W, Tail(l), n)
<1> DEFINE f == [i \in 1 .. n + 1 |-> W[l[i]]]
<1> DEFINE e == [i \in 1 .. n |-> W[Tail(l)[i]]]
<1>1. Len(l) \in Nat /\ n \in Nat /\ n + 1 <= Len(l)
  OBVIOUS
<1>2. \A i \in 1 .. n + 1 : l[i] \in P
  BY <1>1
<1>3. \A i \in 1 .. n : Tail(l)[i] = l[i + 1]
  BY <1>1
<1>4. \A i \in 1 .. n + 1 : f[i] \in Int
  BY <1>2
<1>5. \A i \in 1 .. n : e[i] = f[i + 1]
  BY <1>1, <1>3
<1>6. f[1] = W[l[1]]
  BY <1>1
<1> HIDE DEF f, e
<1>7. Sum(f, 1 .. n + 1) = f[1] + Sum(e, 1 .. n)
  BY <1>1, <1>4, <1>5, SumFirst
<1> QED
  BY <1>6, <1>7 DEF Weight, f, e
=============================================================================
