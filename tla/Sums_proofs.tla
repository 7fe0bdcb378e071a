----------------------------- MODULE Sums_proofs -----------------------------
(***************************************************************************)
(* Sums over finite sets, for the proofs about what is conserved: what     *)
(* SumFunctionOnSet is, by an induction that ranges over sets of numbers,  *)
(* and what becomes of a sum when a term, two terms or all of them change, *)
(* when terms are left out, and when they are gathered.                    *)
(***************************************************************************)
EXTENDS Integers, FiniteSets, FiniteSetsExt, Functions, FiniteSetTheorems, WellFoundedInduction, TLAPS

\* Min picks an element of every non-empty set of natural numbers.
LEMMA MinOfNaturals ==
  ASSUME NEW S \in SUBSET Nat, S # {}
  PROVE  Min(S) \in S /\ \A s \in S : Min(S) <= s
<1> DEFINE R == OpToRel(<, Nat)
<1>1. IsWellFoundedOn(R, Nat)
  BY NatLessThanWellFounded
<1>2. PICK least \in S : \A s \in S : ~ (<<s, least>> \in R)
  <2> HIDE DEF R
  <2> QED BY <1>1, WFMin, Zenon
<1>3. \A s \in S : least <= s
  <2> TAKE s \in S
  <2>1. s \in Nat /\ least \in Nat
    OBVIOUS
  <2>2. ~ (s < least)
    BY <1>2, <2>1 DEF OpToRel
  <2> QED BY <2>1, <2>2
<1> QED BY <1>3 DEF Min

-----------------------------------------------------------------------------
(* Sums *)

\* Induction, with a set in the place of a predicate.
LEMMA Induction ==
  ASSUME NEW T \in SUBSET Nat, 0 \in T, \A n \in T : n + 1 \in T
  PROVE  T = Nat
<1> SUFFICES ASSUME Nat \ T # {} PROVE FALSE
  OBVIOUS
<1> DEFINE least == Min(Nat \ T)
<1>1. least \in Nat \ T /\ \A y \in Nat \ T : least <= y
  BY MinOfNaturals
<1> HIDE DEF least
<1>2. least \in Nat /\ least # 0 /\ least - 1 \in Nat
  BY <1>1
<1>3. least - 1 \in T
  BY <1>1, <1>2
<1> QED BY <1>1, <1>2, <1>3

\* How SumFunctionOnSet goes over the subsets of S.
Summing(g, F, S) ==
  g = [s \in SUBSET S |-> IF s = {} THEN 0
                          ELSE F[CHOOSE x \in s : TRUE] + g[s \ {CHOOSE x \in s : TRUE}]]

LEMMA SumIs ==
  ASSUME NEW F, NEW S
  PROVE  SumFunctionOnSet(F, S) = (CHOOSE g : Summing(g, F, S))[S]
BY DEF SumFunctionOnSet, FoldFunctionOnSet, MapThenFoldSet, Summing

\* The element it takes first.
FirstTaken(s) == CHOOSE x \in s : TRUE

\* The clause for one subset, read off and put together.
LEMMA SummingIs ==
  ASSUME NEW g, NEW F, NEW S, Summing(g, F, S)
  PROVE  /\ g[{}] = 0
         /\ \A s \in SUBSET S : s # {} => g[s] = F[FirstTaken(s)] + g[s \ {FirstTaken(s)}]
BY DEF Summing, FirstTaken

LEMMA FirstTakenIs == \A s : s # {} => FirstTaken(s) \in s
BY DEF FirstTaken

\* A set with n + 1 elements without its chosen element has n.
LEMMA OneLess ==
  ASSUME NEW S, IsFiniteSet(S), NEW x \in S
  PROVE  /\ IsFiniteSet(S \ {x}) /\ Cardinality(S \ {x}) \in Nat
         /\ Cardinality(S) = Cardinality(S \ {x}) + 1 /\ Cardinality(S) \in Nat \ {0}
<1>1. IsFiniteSet(S \ {x}) /\ Cardinality(S \ {x}) = Cardinality(S) - 1
  BY FS_RemoveElement
<1>2. Cardinality(S) \in Nat /\ Cardinality(S \ {x}) \in Nat
  BY <1>1, FS_CardinalityType
<1> QED BY <1>1, <1>2

\* The recursion has a solution on a finite set.
LEMMA SummingExists ==
  ASSUME NEW F, NEW S, IsFiniteSet(S)
  PROVE  \E g : Summing(g, F, S)
<1> DEFINE Small(n) == {s \in SUBSET S : Cardinality(s) <= n}
           Value(g, s) == IF s = {} THEN 0 ELSE F[FirstTaken(s)] + g[s \ {FirstTaken(s)}]
           UpTo(n) == \E g : \A s \in Small(n) : g[s] = Value(g, s)
           T == {n \in Nat : UpTo(n)}
<1>0. \A s \in SUBSET S : IsFiniteSet(s) /\ Cardinality(s) \in Nat
  BY FS_Subset, FS_CardinalityType
<1>1. 0 \in T
  <2> DEFINE g == [s \in SUBSET S |-> 0]
  <2>1. \A s \in Small(0) : s = {}
    BY <1>0, FS_EmptySet
  <2>2. \A s \in Small(0) : g[s] = Value(g, s)
    BY <2>1
  <2> QED BY <2>2
<1>2. ASSUME NEW n \in T PROVE n + 1 \in T
  <2>1. n \in Nat /\ UpTo(n)
    OBVIOUS
  <2>2. PICK g : \A s \in Small(n) : g[s] = Value(g, s)
    BY <2>1
  <2> DEFINE h == [s \in SUBSET S |-> IF s \in Small(n) THEN g[s] ELSE Value(g, s)]
  <2>3. ASSUME NEW s \in Small(n + 1) PROVE h[s] = Value(h, s)
    <3>1. CASE s = {}
      BY <3>1, <2>2, <1>0, FS_EmptySet
    <3>2. CASE s # {}
      <4> DEFINE r == s \ {FirstTaken(s)}
      <4>1. r \in Small(n)
        BY <1>0, <2>1, <3>2, FirstTakenIs, OneLess
      <4>2. h[r] = g[r]
        BY <4>1
      <4>3. h[s] = Value(g, s)
        BY <2>2
      <4> QED BY <3>2, <4>2, <4>3
    <3> QED BY <3>1, <3>2
  <2> HIDE DEF h
  <2> QED BY <2>1, <2>3
<1>3. T = Nat
  <2> HIDE DEF T
  <2>1. T \in SUBSET Nat
    BY DEF T
  <2> QED BY <1>1, <1>2, <2>1, Induction
<1>4. Cardinality(S) \in T
  BY <1>0, <1>3
<1>5. PICK g : \A s \in Small(Cardinality(S)) : g[s] = Value(g, s)
  BY <1>4
<1>6. Small(Cardinality(S)) = SUBSET S
  <2>1. \A s \in SUBSET S : Cardinality(s) <= Cardinality(S)
    BY FS_Subset
  <2> QED BY <2>1
<1> DEFINE h == [s \in SUBSET S |-> g[s]]
<1>7. h = [s \in SUBSET S |-> Value(h, s)]
  <2>1. \A s \in SUBSET S : h[s] = Value(h, s)
    BY <1>5, <1>6
  <2> QED BY <2>1
<1> QED BY <1>7 DEF Summing, FirstTaken

\* Two summings agree on every finite set that both go over.
LEMMA SummingUnique ==
  ASSUME NEW F, NEW R, NEW S, NEW g, NEW h,
         S \in SUBSET R, IsFiniteSet(S), Summing(g, F, S), Summing(h, F, R)
  PROVE  g[S] = h[S]
<1>4. \A s \in SUBSET S : s # {} => g[s] = F[FirstTaken(s)] + g[s \ {FirstTaken(s)}]
  BY SummingIs, Zenon
<1>5. \A s \in SUBSET R : s # {} => h[s] = F[FirstTaken(s)] + h[s \ {FirstTaken(s)}]
  BY SummingIs, Zenon
<1> DEFINE T == {n \in Nat : \A s \in SUBSET S : Cardinality(s) = n => g[s] = h[s]}
<1>0. \A s \in SUBSET S : IsFiniteSet(s) /\ Cardinality(s) \in Nat
  BY FS_Subset, FS_CardinalityType
<1>1. 0 \in T
  <2>1. \A s \in SUBSET S : Cardinality(s) = 0 => s = {}
    BY <1>0, FS_EmptySet
  <2> QED BY <2>1, SummingIs
<1>2. ASSUME NEW n \in T PROVE n + 1 \in T
  <2>1. ASSUME NEW s \in SUBSET S, Cardinality(s) = n + 1 PROVE g[s] = h[s]
    <3>1. s # {}
      <4>1. n + 1 # 0
        OBVIOUS
      <4> QED BY <2>1, <4>1, FS_EmptySet
    <3>2. FirstTaken(s) \in s /\ FirstTaken(s) \in S
      BY <3>1, FirstTakenIs
    <3>3. Cardinality(s \ {FirstTaken(s)}) = n
      BY <1>0, <2>1, <3>2, OneLess
    <3>4. g[s \ {FirstTaken(s)}] = h[s \ {FirstTaken(s)}]
      BY <3>3
    <3>5. s \in SUBSET R
      OBVIOUS
    <3>6. g[s] = F[FirstTaken(s)] + g[s \ {FirstTaken(s)}]
      BY <3>1, <1>4
    <3>7. h[s] = F[FirstTaken(s)] + h[s \ {FirstTaken(s)}]
      BY <3>1, <3>5, <1>5
    <3> QED BY <3>2, <3>4, <3>6, <3>7
  <2> QED BY <2>1
<1>3. T = Nat
  <2> HIDE DEF T
  <2>1. T \in SUBSET Nat
    BY DEF T
  <2> QED BY <1>1, <1>2, <2>1, Induction
<1> QED BY <1>0, <1>3

\* That solution is the sum.
LEMMA SumOfSumming ==
  ASSUME NEW F, NEW S, IsFiniteSet(S), NEW g, Summing(g, F, S)
  PROVE  \A s \in SUBSET S : SumFunctionOnSet(F, s) = g[s]
<1> SUFFICES ASSUME NEW s \in SUBSET S PROVE SumFunctionOnSet(F, s) = g[s]
  OBVIOUS
<1>1. IsFiniteSet(s)
  BY FS_Subset
<1>2. \E h : Summing(h, F, s)
  BY <1>1, SummingExists
<1>3. PICK h : Summing(h, F, s) /\ h = CHOOSE f : Summing(f, F, s)
  BY <1>2
<1>4. SumFunctionOnSet(F, s) = h[s]
  BY <1>3, SumIs
<1>5. h[s] = g[s]
  <2>1. Summing(h, F, s) /\ Summing(g, F, S) /\ s \in SUBSET S /\ IsFiniteSet(s)
    BY <1>1, <1>3
  <2>2. \A Big, Small, f1, f2 : Small \in SUBSET Big /\ IsFiniteSet(Small) /\ Summing(f1, F, Small) /\ Summing(f2, F, Big)
            => f1[Small] = f2[Small]
    BY ONLY SummingUnique
  <2> QED BY ONLY <2>1, <2>2, Zenon
<1> QED BY <1>4, <1>5

\* Sums over sets of equal values are equal.
LEMMA SumAgrees ==
  ASSUME NEW F, NEW G, NEW S, IsFiniteSet(S), \A x \in S : F[x] = G[x]
  PROVE  SumFunctionOnSet(F, S) = SumFunctionOnSet(G, S)
<1>1. PICK g : Summing(g, F, S)
  BY SummingExists
<1>2. \A s \in SUBSET S : s # {} => (CHOOSE x \in s : TRUE) \in s
  OBVIOUS
<1>3. Summing(g, G, S)
  BY <1>1, <1>2 DEF Summing
<1>4. S \in SUBSET S
  OBVIOUS
<1>5. SumFunctionOnSet(F, S) = g[S]
  BY <1>1, <1>4, SumOfSumming
<1>6. SumFunctionOnSet(G, S) = g[S]
  BY <1>3, <1>4, SumOfSumming
<1> QED BY <1>5, <1>6

LEMMA SumOfNone ==
  ASSUME NEW F
  PROVE  SumFunctionOnSet(F, {}) = 0
<1>1. IsFiniteSet({})
  BY FS_EmptySet
<1>2. PICK g : Summing(g, F, {})
  BY <1>1, SummingExists
<1> QED BY <1>1, <1>2, SumOfSumming, SummingIs

LEMMA SumOfFirst ==
  ASSUME NEW F, NEW S, IsFiniteSet(S), S # {}
  PROVE  /\ SumFunctionOnSet(F, S) = F[FirstTaken(S)] + SumFunctionOnSet(F, S \ {FirstTaken(S)})
         /\ FirstTaken(S) \in S
<1>1. PICK g : Summing(g, F, S)
  BY SummingExists
<1> QED BY <1>1, SumOfSumming, SummingIs, FirstTakenIs

LEMMA SumType ==
  ASSUME NEW S, IsFiniteSet(S), NEW F, \A x \in S : F[x] \in Int
  PROVE  SumFunctionOnSet(F, S) \in Int
<1> DEFINE T == {n \in Nat : \A s \in SUBSET S : Cardinality(s) = n => SumFunctionOnSet(F, s) \in Int}
<1>0. \A s \in SUBSET S : IsFiniteSet(s) /\ Cardinality(s) \in Nat
  BY FS_Subset, FS_CardinalityType
<1>1. 0 \in T
  <2>1. \A s \in SUBSET S : Cardinality(s) = 0 => s = {}
    BY <1>0, FS_EmptySet
  <2> QED BY <2>1, SumOfNone
<1>2. ASSUME NEW n \in T PROVE n + 1 \in T
  <2>1. ASSUME NEW s \in SUBSET S, Cardinality(s) = n + 1 PROVE SumFunctionOnSet(F, s) \in Int
    <3>1. s # {}
      <4>1. n + 1 # 0
        OBVIOUS
      <4> QED BY <2>1, <4>1, FS_EmptySet
    <3>2. FirstTaken(s) \in s /\ FirstTaken(s) \in S
      BY <3>1, FirstTakenIs
    <3>3. Cardinality(s \ {FirstTaken(s)}) = n
      BY <1>0, <2>1, <3>2, OneLess
    <3>4. SumFunctionOnSet(F, s \ {FirstTaken(s)}) \in Int
      BY <3>3
    <3> QED BY <1>0, <3>1, <3>2, <3>4, SumOfFirst
  <2> QED BY <2>1
<1>3. T = Nat
  <2> HIDE DEF T
  <2>1. T \in SUBSET Nat
    BY DEF T
  <2> QED BY <1>1, <1>2, <2>1, Induction
<1> QED BY <1>0, <1>3

\* Whichever element is taken out of the set.
LEMMA SumTakes ==
  ASSUME NEW S, IsFiniteSet(S), NEW F, \A x \in S : F[x] \in Int, NEW e \in S
  PROVE  /\ SumFunctionOnSet(F, S) = F[e] + SumFunctionOnSet(F, S \ {e})
         /\ SumFunctionOnSet(F, S) \in Int /\ SumFunctionOnSet(F, S \ {e}) \in Int
<1> DEFINE Sum(s) == SumFunctionOnSet(F, s)
           T == {n \in Nat : \A s \in SUBSET S : Cardinality(s) = n =>
                                \A x \in s : Sum(s) = F[x] + Sum(s \ {x})}
<1>0. \A s \in SUBSET S : IsFiniteSet(s) /\ Cardinality(s) \in Nat
  BY FS_Subset, FS_CardinalityType
<1>5. \A s \in SUBSET S : Sum(s) \in Int
  BY <1>0, SumType
<1>6. \A s \in SUBSET S : s # {} => Sum(s) = F[FirstTaken(s)] + Sum(s \ {FirstTaken(s)}) /\ FirstTaken(s) \in s
  BY <1>0, SumOfFirst
<1>7. \A s \in SUBSET S : \A x \in s : Cardinality(s \ {x}) \in Nat /\ Cardinality(s) = Cardinality(s \ {x}) + 1
  BY <1>0, OneLess
<1> HIDE DEF Sum
<1>1. 0 \in T
  <2>1. \A s \in SUBSET S : Cardinality(s) = 0 => s = {}
    BY <1>0, FS_EmptySet
  <2> QED BY <2>1
<1>2. ASSUME NEW n \in T PROVE n + 1 \in T
  <2>1. ASSUME NEW s \in SUBSET S, Cardinality(s) = n + 1, NEW x \in s
        PROVE  Sum(s) = F[x] + Sum(s \ {x})
    <3> DEFINE c == FirstTaken(s)
    <3>1. c \in s /\ Sum(s) = F[c] + Sum(s \ {c})
      BY <1>6
    <3> HIDE DEF c
    <3>2. CASE c = x
      BY <3>1, <3>2
    <3>3. CASE c # x
      <4>1. Cardinality(s \ {c}) = n /\ Cardinality(s \ {x}) = n
        BY <1>7, <2>1, <3>1
      <4>2. Sum(s \ {c}) = F[x] + Sum((s \ {c}) \ {x})
        BY <3>3, <4>1
      <4>3. Sum(s \ {x}) = F[c] + Sum((s \ {x}) \ {c})
        BY <3>1, <3>3, <4>1
      <4>4. (s \ {x}) \ {c} = (s \ {c}) \ {x}
        OBVIOUS
      <4>5. Sum(s \ {x}) = F[c] + Sum((s \ {c}) \ {x})
        BY <4>3, <4>4
      <4> DEFINE rest == Sum((s \ {c}) \ {x})
      <4>6. F[c] \in Int /\ F[x] \in Int /\ rest \in Int
        BY <1>5, <3>1
      <4>7. Sum(s) = F[c] + (F[x] + rest) /\ Sum(s \ {x}) = F[c] + rest
        BY <3>1, <4>2, <4>5
      <4> HIDE DEF rest
      <4>8. F[c] + (F[x] + rest) = F[x] + (F[c] + rest)
        BY <4>6
      <4> QED BY <4>7, <4>8
    <3> QED BY <3>2, <3>3
  <2> QED BY <2>1
<1>3. T = Nat
  <2> HIDE DEF T
  <2>1. T \in SUBSET Nat
    BY DEF T
  <2> QED BY <1>1, <1>2, <2>1, Induction
<1>4. Sum(S) = F[e] + Sum(S \ {e}) /\ Sum(S) \in Int /\ Sum(S \ {e}) \in Int
  BY <1>0, <1>3, <1>5
<1> QED BY <1>4 DEF Sum

\* What one element adds to or takes from a sum.
LEMMA SumChanged ==
  ASSUME NEW S, IsFiniteSet(S), NEW F, NEW G, NEW e \in S,
         \A x \in S : F[x] \in Int /\ G[x] \in Int,
         \A x \in S \ {e} : F[x] = G[x]
  PROVE  SumFunctionOnSet(G, S) = SumFunctionOnSet(F, S) + (G[e] - F[e])
<1>1. IsFiniteSet(S \ {e})
  BY FS_Subset
<1>2. SumFunctionOnSet(F, S \ {e}) = SumFunctionOnSet(G, S \ {e})
  BY <1>1, SumAgrees
<1>3. /\ SumFunctionOnSet(F, S) = F[e] + SumFunctionOnSet(F, S \ {e})
      /\ SumFunctionOnSet(F, S \ {e}) \in Int
  BY SumTakes
<1>4. /\ SumFunctionOnSet(G, S) = G[e] + SumFunctionOnSet(G, S \ {e})
      /\ SumFunctionOnSet(G, S \ {e}) \in Int
  BY SumTakes
<1> QED BY <1>2, <1>3, <1>4

\* What passes between two elements leaves the sum as it is, but for what is
\* lost or made on the way.
LEMMA SumPassed ==
  ASSUME NEW S, IsFiniteSet(S), NEW F, NEW G, NEW a \in S, NEW b \in S, a # b,
         \A x \in S : F[x] \in Int /\ G[x] \in Int,
         \A x \in S \ {a, b} : F[x] = G[x]
  PROVE  SumFunctionOnSet(G, S) = SumFunctionOnSet(F, S) + ((G[a] - F[a]) + (G[b] - F[b]))
<1> DEFINE H == [x \in S |-> IF x = a THEN G[x] ELSE F[x]]
<1>1. \A x \in S : H[x] \in Int /\ F[x] \in Int /\ G[x] \in Int
  OBVIOUS
<1>2. \A x \in S \ {a} : F[x] = H[x]
  OBVIOUS
<1>3. \A x \in S \ {b} : H[x] = G[x]
  OBVIOUS
<1>4. H[a] = G[a] /\ H[b] = F[b]
  OBVIOUS
<1> HIDE DEF H
<1>5. SumFunctionOnSet(H, S) = SumFunctionOnSet(F, S) + (H[a] - F[a])
  BY <1>1, <1>2, SumChanged
<1>6. SumFunctionOnSet(G, S) = SumFunctionOnSet(H, S) + (G[b] - H[b])
  BY <1>1, <1>3, SumChanged
<1>7. SumFunctionOnSet(F, S) \in Int /\ SumFunctionOnSet(H, S) \in Int
  BY <1>1, SumType
<1> QED BY <1>1, <1>4, <1>5, <1>6, <1>7

\* Sums keep the order of what is summed.
LEMMA SumMonotone ==
  ASSUME NEW S, IsFiniteSet(S), NEW F, NEW G,
         \A x \in S : F[x] \in Int /\ G[x] \in Int /\ F[x] <= G[x]
  PROVE  SumFunctionOnSet(F, S) <= SumFunctionOnSet(G, S)
<1> DEFINE T == {n \in Nat : \A s \in SUBSET S : Cardinality(s) = n =>
                                SumFunctionOnSet(F, s) <= SumFunctionOnSet(G, s)}
<1>0. \A s \in SUBSET S : IsFiniteSet(s) /\ Cardinality(s) \in Nat
  BY FS_Subset, FS_CardinalityType
<1>1. 0 \in T
  <2>1. \A s \in SUBSET S : Cardinality(s) = 0 => s = {}
    BY <1>0, FS_EmptySet
  <2>2. SumFunctionOnSet(F, {}) <= SumFunctionOnSet(G, {})
    <3>1. SumFunctionOnSet(F, {}) = 0 /\ SumFunctionOnSet(G, {}) = 0
      BY SumOfNone
    <3> QED BY <3>1
  <2>3. \A s \in SUBSET S : Cardinality(s) = 0 => SumFunctionOnSet(F, s) <= SumFunctionOnSet(G, s)
    BY ONLY <2>1, <2>2, Zenon
  <2> QED BY <2>3
<1>2. ASSUME NEW n \in T PROVE n + 1 \in T
  <2>1. ASSUME NEW s \in SUBSET S, Cardinality(s) = n + 1
        PROVE  SumFunctionOnSet(F, s) <= SumFunctionOnSet(G, s)
    <3>1. s # {}
      <4>1. n + 1 # 0
        OBVIOUS
      <4> QED BY <2>1, <4>1, FS_EmptySet
    <3>2. PICK e : e \in s
      BY <3>1
    <3>3. Cardinality(s \ {e}) = n /\ s \ {e} \in SUBSET S
      BY <1>0, <2>1, <3>2, OneLess
    <3>4. /\ SumFunctionOnSet(F, s) = F[e] + SumFunctionOnSet(F, s \ {e})
          /\ SumFunctionOnSet(F, s \ {e}) \in Int
      BY <1>0, <3>2, SumTakes
    <3>5. /\ SumFunctionOnSet(G, s) = G[e] + SumFunctionOnSet(G, s \ {e})
          /\ SumFunctionOnSet(G, s \ {e}) \in Int
      BY <1>0, <3>2, SumTakes
    <3>6. SumFunctionOnSet(F, s \ {e}) <= SumFunctionOnSet(G, s \ {e})
      BY <3>3
    <3>7. F[e] \in Int /\ G[e] \in Int /\ F[e] <= G[e]
      BY <3>2
    <3> QED BY <3>4, <3>5, <3>6, <3>7
  <2> QED BY <2>1
<1>3. T = Nat
  <2> HIDE DEF T
  <2>1. T \in SUBSET Nat
    BY DEF T
  <2> QED BY <1>1, <1>2, <2>1, Induction
<1> QED BY <1>0, <1>3

\* The sum of sums, element by element.
LEMMA SumOfBoth ==
  ASSUME NEW S, IsFiniteSet(S), NEW F, NEW G, NEW H,
         \A x \in S : F[x] \in Int /\ G[x] \in Int /\ H[x] \in Int /\ H[x] = F[x] + G[x]
  PROVE  SumFunctionOnSet(H, S) = SumFunctionOnSet(F, S) + SumFunctionOnSet(G, S)
<1> DEFINE Both(s) == SumFunctionOnSet(H, s) = SumFunctionOnSet(F, s) + SumFunctionOnSet(G, s)
           T == {n \in Nat : \A s \in SUBSET S : Cardinality(s) = n => Both(s)}
<1>0. \A s \in SUBSET S : IsFiniteSet(s) /\ Cardinality(s) \in Nat
  BY FS_Subset, FS_CardinalityType
<1>1. 0 \in T
  <2>1. \A s \in SUBSET S : Cardinality(s) = 0 => s = {}
    BY <1>0, FS_EmptySet
  <2>2. Both({})
    <3>1. SumFunctionOnSet(F, {}) = 0 /\ SumFunctionOnSet(G, {}) = 0 /\ SumFunctionOnSet(H, {}) = 0
      BY SumOfNone
    <3> QED BY <3>1
  <2>3. \A s \in SUBSET S : Cardinality(s) = 0 => Both(s)
    BY ONLY <2>1, <2>2, Zenon
  <2> QED BY <2>3
<1>2. ASSUME NEW n \in T PROVE n + 1 \in T
  <2>1. ASSUME NEW s \in SUBSET S, Cardinality(s) = n + 1
        PROVE  Both(s)
    <3>1. s # {}
      <4>1. n + 1 # 0
        OBVIOUS
      <4> QED BY <2>1, <4>1, FS_EmptySet
    <3>2. PICK e : e \in s
      BY <3>1
    <3>3. Cardinality(s \ {e}) = n /\ s \ {e} \in SUBSET S
      BY <1>0, <2>1, <3>2, OneLess
    <3>4. /\ SumFunctionOnSet(F, s) = F[e] + SumFunctionOnSet(F, s \ {e})
          /\ SumFunctionOnSet(F, s \ {e}) \in Int
      BY <1>0, <3>2, SumTakes
    <3>5. /\ SumFunctionOnSet(G, s) = G[e] + SumFunctionOnSet(G, s \ {e})
          /\ SumFunctionOnSet(G, s \ {e}) \in Int
      BY <1>0, <3>2, SumTakes
    <3>6. /\ SumFunctionOnSet(H, s) = H[e] + SumFunctionOnSet(H, s \ {e})
          /\ SumFunctionOnSet(H, s \ {e}) \in Int
      BY <1>0, <3>2, SumTakes
    <3>7. Both(s \ {e})
      BY <3>3
    <3>8. F[e] \in Int /\ G[e] \in Int /\ H[e] = F[e] + G[e]
      BY <3>2
    <3> QED BY <3>4, <3>5, <3>6, <3>7, <3>8
  <2> QED BY <2>1
<1>3. T = Nat
  <2> HIDE DEF T
  <2>1. T \in SUBSET Nat
    BY DEF T
  <2> QED BY <1>1, <1>2, <2>1, Induction
<1> QED BY <1>0, <1>3

\* A sum of natural numbers is one.
LEMMA SumNat ==
  ASSUME NEW S, IsFiniteSet(S), NEW F, \A x \in S : F[x] \in Nat
  PROVE  SumFunctionOnSet(F, S) \in Nat
<1> DEFINE T == {n \in Nat : \A s \in SUBSET S : Cardinality(s) = n => SumFunctionOnSet(F, s) \in Nat}
<1>0. \A s \in SUBSET S : IsFiniteSet(s) /\ Cardinality(s) \in Nat
  BY FS_Subset, FS_CardinalityType
<1>1. 0 \in T
  <2>1. \A s \in SUBSET S : Cardinality(s) = 0 => s = {}
    BY <1>0, FS_EmptySet
  <2> QED BY <2>1, SumOfNone
<1>2. ASSUME NEW n \in T PROVE n + 1 \in T
  <2>1. ASSUME NEW s \in SUBSET S, Cardinality(s) = n + 1 PROVE SumFunctionOnSet(F, s) \in Nat
    <3>1. s # {}
      <4>1. n + 1 # 0
        OBVIOUS
      <4> QED BY <2>1, <4>1, FS_EmptySet
    <3>2. FirstTaken(s) \in s /\ FirstTaken(s) \in S
      BY <3>1, FirstTakenIs
    <3>3. Cardinality(s \ {FirstTaken(s)}) = n
      BY <1>0, <2>1, <3>2, OneLess
    <3>4. SumFunctionOnSet(F, s \ {FirstTaken(s)}) \in Nat
      BY <3>3
    <3> QED BY <1>0, <3>1, <3>2, <3>4, SumOfFirst
  <2> QED BY <2>1
<1>3. T = Nat
  <2> HIDE DEF T
  <2>1. T \in SUBSET Nat
    BY DEF T
  <2> QED BY <1>1, <1>2, <2>1, Induction
<1> QED BY <1>0, <1>3


\* Sums over disjoint sets add up.
LEMMA SumSplit ==
  ASSUME NEW R, IsFiniteSet(R), NEW S, IsFiniteSet(S), S \cap R = {}, NEW F, \A x \in R \cup S : F[x] \in Int
  PROVE  SumFunctionOnSet(F, R \cup S) = SumFunctionOnSet(F, R) + SumFunctionOnSet(F, S)
<1> DEFINE Both(s) == SumFunctionOnSet(F, R \cup s) = SumFunctionOnSet(F, R) + SumFunctionOnSet(F, s)
           T == {n \in Nat : \A s \in SUBSET S : Cardinality(s) = n => Both(s)}
<1>0. \A s \in SUBSET S : IsFiniteSet(s) /\ Cardinality(s) \in Nat
  BY FS_Subset, FS_CardinalityType
<1>u. \A s \in SUBSET S : IsFiniteSet(R \cup s)
  BY <1>0, FS_Union
<1>r. SumFunctionOnSet(F, R) \in Int
  BY SumType
<1>1. 0 \in T
  <2>1. \A s \in SUBSET S : Cardinality(s) = 0 => s = {}
    BY <1>0, FS_EmptySet
  <2>2. Both({})
    <3>1. SumFunctionOnSet(F, {}) = 0 /\ R \cup {} = R
      BY SumOfNone
    <3> QED BY <3>1, <1>r
  <2>3. \A s \in SUBSET S : Cardinality(s) = 0 => Both(s)
    BY ONLY <2>1, <2>2, Zenon
  <2> QED BY <2>3
<1>2. ASSUME NEW n \in T PROVE n + 1 \in T
  <2>1. ASSUME NEW s \in SUBSET S, Cardinality(s) = n + 1
        PROVE  Both(s)
    <3>1. s # {}
      <4>1. n + 1 # 0
        OBVIOUS
      <4> QED BY <2>1, <4>1, FS_EmptySet
    <3>2. PICK e : e \in s
      BY <3>1
    <3>a. IsFiniteSet(s) /\ n \in Nat /\ \A x \in s : F[x] \in Int
      BY <1>0
    <3>b. Cardinality(s) = Cardinality(s \ {e}) + 1 /\ Cardinality(s \ {e}) \in Nat
      BY <3>2, <3>a, OneLess
    <3>3. Cardinality(s \ {e}) = n /\ s \ {e} \in SUBSET S
      BY <2>1, <3>a, <3>b
    <3>4. /\ SumFunctionOnSet(F, s) = F[e] + SumFunctionOnSet(F, s \ {e})
          /\ SumFunctionOnSet(F, s \ {e}) \in Int
      BY <3>a, <3>2, SumTakes
    <3>5. SumFunctionOnSet(F, R \cup s) = F[e] + SumFunctionOnSet(F, R \cup (s \ {e}))
      <4>1. e \in R \cup s /\ (R \cup s) \ {e} = R \cup (s \ {e})
        BY <3>2
      <4>2. IsFiniteSet(R \cup s) /\ \A x \in R \cup s : F[x] \in Int
        BY <1>u
      <4>3. SumFunctionOnSet(F, R \cup s) = F[e] + SumFunctionOnSet(F, (R \cup s) \ {e})
        BY <4>1, <4>2, SumTakes
      <4> QED BY <4>1, <4>3
    <3>6. Both(s \ {e})
      BY <3>3
    <3>7. F[e] \in Int
      BY <3>2
    <3> QED BY <1>r, <3>4, <3>5, <3>6, <3>7
  <2> QED BY <2>1
<1>3. T = Nat
  <2> HIDE DEF T
  <2>1. T \in SUBSET Nat
    BY DEF T
  <2> QED BY <1>1, <1>2, <2>1, Induction
<1> QED BY <1>0, <1>3

\* The terms of S that f takes to t.
FromTo(f, S, t) == {s \in S : f[s] = t}

\* Terms gathered by where f takes them: the sum of the sums is the sum.
LEMMA SumGathered ==
  ASSUME NEW S, IsFiniteSet(S), NEW f, NEW F, \A s \in S : F[s] \in Int,
         NEW Q, IsFiniteSet(Q), NEW G, \A t \in Q : G[t] = SumFunctionOnSet(F, FromTo(f, S, t))
  PROVE  SumFunctionOnSet(G, Q) = SumFunctionOnSet(F, {s \in S : f[s] \in Q})
<1> DEFINE All(q) == {s \in S : f[s] \in q}
           Same(q) == SumFunctionOnSet(G, q) = SumFunctionOnSet(F, All(q))
           T == {n \in Nat : \A q \in SUBSET Q : Cardinality(q) = n => Same(q)}
<1>0. \A q \in SUBSET Q : IsFiniteSet(q) /\ Cardinality(q) \in Nat
  BY FS_Subset, FS_CardinalityType
<1>f. \A P \in SUBSET S : IsFiniteSet(P) /\ (\A s \in P : F[s] \in Int) /\ SumFunctionOnSet(F, P) \in Int
  BY FS_Subset, SumType
<1>g. \A t \in Q : G[t] \in Int
  BY <1>f DEF FromTo
<1>1. 0 \in T
  <2>1. \A q \in SUBSET Q : Cardinality(q) = 0 => q = {}
    BY <1>0, FS_EmptySet
  <2>2. Same({})
    <3>1. All({}) = {}
      OBVIOUS
    <3> QED BY <3>1, SumOfNone
  <2>3. \A q \in SUBSET Q : Cardinality(q) = 0 => Same(q)
    BY ONLY <2>1, <2>2, Zenon
  <2> QED BY <2>3
<1>2. ASSUME NEW n \in T PROVE n + 1 \in T
  <2>1. ASSUME NEW q \in SUBSET Q, Cardinality(q) = n + 1
        PROVE  Same(q)
    <3>1. q # {}
      <4>1. n + 1 # 0
        OBVIOUS
      <4> QED BY <2>1, <4>1, FS_EmptySet
    <3>2. PICK t : t \in q
      BY <3>1
    <3>3. Cardinality(q \ {t}) = n /\ q \ {t} \in SUBSET Q
      BY <1>0, <2>1, <3>2, OneLess
    <3>4. /\ SumFunctionOnSet(G, q) = G[t] + SumFunctionOnSet(G, q \ {t})
          /\ SumFunctionOnSet(G, q \ {t}) \in Int
      BY <1>0, <1>g, <3>2, SumTakes
    <3>5. Same(q \ {t})
      BY <3>3
    <3>6. G[t] = SumFunctionOnSet(F, FromTo(f, S, t))
      BY <3>2
    <3> DEFINE A == All(q \ {t})
               B == FromTo(f, S, t)
    <3>7. A \cup B = All(q) /\ B \cap A = {} /\ A \in SUBSET S /\ B \in SUBSET S
      BY <3>2 DEF FromTo
    <3>a. A = All(q \ {t}) /\ B = FromTo(f, S, t)
      OBVIOUS
    <3> HIDE DEF A, B
    <3>8. SumFunctionOnSet(F, A \cup B) = SumFunctionOnSet(F, A) + SumFunctionOnSet(F, B)
      <4>1. IsFiniteSet(A) /\ IsFiniteSet(B) /\ \A x \in A \cup B : F[x] \in Int
        BY <1>f, <3>7
      <4> QED BY <3>7, <4>1, SumSplit
    <3>9. SumFunctionOnSet(F, A) \in Int /\ SumFunctionOnSet(F, B) \in Int
      BY <1>f, <3>7
    <3>b. SumFunctionOnSet(G, q \ {t}) = SumFunctionOnSet(F, A) /\ G[t] = SumFunctionOnSet(F, B)
      BY <3>5, <3>6, <3>a
    <3>c. SumFunctionOnSet(G, q) = SumFunctionOnSet(F, A \cup B)
      BY <3>4, <3>8, <3>9, <3>b
    <3> QED BY <3>7, <3>c
  <2> QED BY <2>1
<1>3. T = Nat
  <2> HIDE DEF T
  <2>1. T \in SUBSET Nat
    BY DEF T
  <2> QED BY <1>1, <1>2, <2>1, Induction
<1> QED BY <1>0, <1>3
=============================================================================
