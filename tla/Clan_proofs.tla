----------------------------- MODULE Clan_proofs -----------------------------
(***************************************************************************)
(* Proofs about ClanRoster and ClanBank, for any characters and clans.     *)
(* First lists of members: taking one out, and the rows of a clan in the   *)
(* order of their ranks.  Then what the packets on their way to the world  *)
(* server promise about the players there, one packet sent or taken at a   *)
(* time; from it the invariant, and from that the properties.  Last the    *)
(* bank: what one command does to the sums of wallets and of mails.        *)
(***************************************************************************)
EXTENDS ClanRoster, ClanBank, Sums_proofs, SequenceTheorems

(* Lists of members *)

\* Nobody is in the list twice.
Once(s) == \A i, j \in DOMAIN s : s[i] = s[j] => i = j

LEMMA ListFacts ==
  ASSUME NEW S, NEW s \in Seq(S)
  PROVE  /\ Len(s) \in Nat /\ DOMAIN s = 1..Len(s)
         /\ \A i \in DOMAIN s : s[i] \in S
         /\ \A e : e \in ToSet(s) <=> \E i \in DOMAIN s : s[i] = e
BY DEF ToSet

\* The two parts of a list around a place of it.
LEMMA Parts ==
  ASSUME NEW S, NEW s \in Seq(S), NEW k \in DOMAIN s
  PROVE  /\ SubSeq(s, 1, k - 1) \in Seq(S) /\ Len(SubSeq(s, 1, k - 1)) = k - 1
         /\ \A i \in 1..k - 1 : SubSeq(s, 1, k - 1)[i] = s[i]
         /\ SubSeq(s, k + 1, Len(s)) \in Seq(S) /\ Len(SubSeq(s, k + 1, Len(s))) = Len(s) - k
         /\ \A i \in 1..Len(s) - k : SubSeq(s, k + 1, Len(s))[i] = s[k + i]
<1>1. Len(s) \in Nat /\ k \in 1..Len(s) /\ \A i \in 1..Len(s) : s[i] \in S
  BY ListFacts
<1>2. /\ SubSeq(s, 1, k - 1) \in Seq(S)
      /\ Len(SubSeq(s, 1, k - 1)) = IF 1 <= k - 1 THEN (k - 1) - 1 + 1 ELSE 0
      /\ \A i \in 1..(k - 1) - 1 + 1 : SubSeq(s, 1, k - 1)[i] = s[1 + i - 1]
  <2>1. 1 \in Int /\ k - 1 \in Int /\ \A i \in 1..k - 1 : s[i] \in S
    BY <1>1
  <2> QED BY <2>1, SubSeqProperties
<1>3. /\ SubSeq(s, k + 1, Len(s)) \in Seq(S)
      /\ Len(SubSeq(s, k + 1, Len(s))) = IF k + 1 <= Len(s) THEN Len(s) - (k + 1) + 1 ELSE 0
      /\ \A i \in 1..Len(s) - (k + 1) + 1 : SubSeq(s, k + 1, Len(s))[i] = s[(k + 1) + i - 1]
  <2>1. k + 1 \in Int /\ Len(s) \in Int /\ \A i \in k + 1..Len(s) : s[i] \in S
    BY <1>1
  <2> QED BY <2>1, SubSeqProperties
<1>4. \A i \in Nat : 1 + i - 1 = i /\ (k + 1) + i - 1 = k + i
  BY <1>1
<1>5. (k - 1) - 1 + 1 = k - 1 /\ Len(s) - (k + 1) + 1 = Len(s) - k
  BY <1>1
<1>6. Len(SubSeq(s, 1, k - 1)) = k - 1
  BY <1>1, <1>2
<1>7. Len(SubSeq(s, k + 1, Len(s))) = Len(s) - k
  BY <1>1, <1>3
<1>8. \A i \in 1..k - 1 : i \in Nat
  BY <1>1
<1>9. \A i \in 1..Len(s) - k : i \in Nat
  BY <1>1
<1> QED BY <1>2, <1>3, <1>4, <1>5, <1>6, <1>7, <1>8, <1>9

\* A list without one of its places: every other entry stays.
LEMMA PlaceRemoved ==
  ASSUME NEW S, NEW s \in Seq(S), NEW k \in DOMAIN s
  PROVE  /\ RemoveAt(s, k) \in Seq(S)
         /\ DOMAIN RemoveAt(s, k) = 1..Len(s) - 1
         /\ \A i \in 1..Len(s) - 1 : RemoveAt(s, k)[i] = s[IF i < k THEN i ELSE i + 1]
<1> DEFINE a == SubSeq(s, 1, k - 1)
           b == SubSeq(s, k + 1, Len(s))
<1>1. Len(s) \in Nat /\ k \in 1..Len(s)
  BY ListFacts
<1>2. /\ a \in Seq(S) /\ Len(a) = k - 1 /\ b \in Seq(S) /\ Len(b) = Len(s) - k
      /\ \A i \in 1..k - 1 : a[i] = s[i]
      /\ \A i \in 1..Len(s) - k : b[i] = s[k + i]
  BY Parts
<1>3. RemoveAt(s, k) = a \o b
  BY DEF RemoveAt
<1> HIDE DEF a, b
<1>4. /\ a \o b \in Seq(S) /\ Len(a \o b) = Len(a) + Len(b)
      /\ \A i \in 1..Len(a) + Len(b) : (a \o b)[i] = IF i <= Len(a) THEN a[i] ELSE b[i - Len(a)]
  BY <1>2, ConcatProperties
<1>5. Len(a) + Len(b) = Len(s) - 1
  BY <1>1, <1>2
<1>6. DOMAIN (a \o b) = 1..Len(s) - 1
  BY <1>4, <1>5, LenProperties
<1>7. \A i \in 1..Len(s) - 1 : (a \o b)[i] = s[IF i < k THEN i ELSE i + 1]
  <2> TAKE i \in 1..Len(s) - 1
  <2>1. CASE i < k
    <3>1. i <= Len(a) /\ i \in 1..k - 1
      BY <1>1, <1>2, <2>1
    <3> QED BY <1>2, <1>4, <1>5, <2>1, <3>1
  <2>2. CASE ~(i < k)
    <3>1. ~(i <= Len(a)) /\ i - (k - 1) \in 1..Len(s) - k /\ k + (i - (k - 1)) = i + 1
      BY <1>1, <1>2, <2>2
    <3> QED BY <1>2, <1>4, <1>5, <2>2, <3>1
  <2> QED BY <2>1, <2>2
<1> QED BY <1>3, <1>4, <1>6, <1>7

\* RemoveFirst finds a place of the element.
LEMMA FirstIsAPlace ==
  ASSUME NEW S, NEW s \in Seq(S), NEW x, x \in ToSet(s)
  PROVE  \E k \in DOMAIN s : s[k] = x /\ RemoveFirst(s, x) = RemoveAt(s, k)
<1> DEFINE I == {i \in 1..Len(s) : s[i] = x}
<1>1. DOMAIN s = 1..Len(s) /\ Len(s) \in Nat /\ I # {} /\ I \in SUBSET Nat
  BY ListFacts
<1>2. Min(I) \in I
  BY <1>1, MinOfNaturals
<1>3. SelectInSeq(s, LAMBDA v : v = x) = Min(I)
  BY <1>1 DEF SelectInSeq
<1>4. \E i \in 1..Len(s) : s[i] = x
  BY <1>1
<1>5. RemoveFirst(s, x) = RemoveAt(s, Min(I))
  BY <1>3, <1>4 DEF RemoveFirst
<1> HIDE DEF I
<1>6. Min(I) \in DOMAIN s /\ s[Min(I)] = x
  BY <1>1, <1>2 DEF I
<1> QED BY <1>5, <1>6

\* A list that has everyone once, without one of them.
LEMMA TakenOut ==
  ASSUME NEW S, NEW s \in Seq(S), NEW x, x \in ToSet(s), Once(s)
  PROVE  /\ RemoveFirst(s, x) \in Seq(S)
         /\ Once(RemoveFirst(s, x))
         /\ ToSet(RemoveFirst(s, x)) = ToSet(s) \ {x}
<1>1. PICK k \in DOMAIN s : s[k] = x /\ RemoveFirst(s, x) = RemoveAt(s, k)
  BY FirstIsAPlace
<1> DEFINE w == RemoveAt(s, k)
           at(i) == IF i < k THEN i ELSE i + 1
<1>2. Len(s) \in Nat /\ DOMAIN s = 1..Len(s) /\ \A e : e \in ToSet(s) <=> \E i \in DOMAIN s : s[i] = e
  BY ListFacts
<1>3. /\ w \in Seq(S) /\ DOMAIN w = 1..Len(s) - 1
      /\ \A i \in 1..Len(s) - 1 : w[i] = s[at(i)]
  BY PlaceRemoved
<1>4. \A e : e \in ToSet(w) <=> \E i \in DOMAIN w : w[i] = e
  BY DEF ToSet
<1> HIDE DEF w
<1>5. \A i \in 1..Len(s) - 1 : at(i) \in 1..Len(s) /\ at(i) # k
  BY <1>2
<1>6. \A i, j \in 1..Len(s) - 1 : at(i) = at(j) => i = j
  BY <1>2
<1>7. \A i \in 1..Len(s) : i # k => \E j \in 1..Len(s) - 1 : at(j) = i
  <2> TAKE i \in 1..Len(s)
  <2>1. i < k => i \in 1..Len(s) - 1 /\ at(i) = i
    BY <1>2
  <2>2. i > k => i - 1 \in 1..Len(s) - 1 /\ at(i - 1) = i
    BY <1>2
  <2> HIDE DEF at
  <2> QED BY <1>2, <2>1, <2>2
<1> HIDE DEF at
<1>8. Once(w)
  BY <1>2, <1>3, <1>5, <1>6 DEF Once
<1>9. \A e : e \in ToSet(w) => e \in ToSet(s) \ {x}
  BY <1>1, <1>2, <1>3, <1>4, <1>5 DEF Once
<1>10. \A e : e \in ToSet(s) \ {x} => e \in ToSet(w)
  <2> TAKE e
  <2> HAVE e \in ToSet(s) \ {x}
  <2>1. PICK i \in DOMAIN s : s[i] = e
    BY <1>2
  <2>2. PICK j \in 1..Len(s) - 1 : at(j) = i
    BY <1>1, <1>2, <1>7, <2>1
  <2> QED BY <1>3, <1>4, <2>1, <2>2
<1>11. ToSet(w) = ToSet(s) \ {x}
  BY <1>9, <1>10
<1> QED BY <1>1, <1>3, <1>8, <1>11 DEF w

\* And with one more.
LEMMA PutIn ==
  ASSUME NEW S, NEW s \in Seq(S), NEW x \in S
  PROVE  /\ Append(s, x) \in Seq(S)
         /\ ToSet(Append(s, x)) = ToSet(s) \cup {x}
         /\ Once(s) /\ x \notin ToSet(s) => Once(Append(s, x))
<1> DEFINE w == Append(s, x)
<1>1. Len(s) \in Nat /\ DOMAIN s = 1..Len(s) /\ \A e : e \in ToSet(s) <=> \E i \in DOMAIN s : s[i] = e
  BY ListFacts
<1>2. /\ w \in Seq(S) /\ DOMAIN w = 1..Len(s) + 1
      /\ \A i \in 1..Len(s) : w[i] = s[i]
      /\ w[Len(s) + 1] = x
  BY <1>1, AppendProperties, LenProperties
<1>3. \A e : e \in ToSet(w) <=> \E i \in DOMAIN w : w[i] = e
  BY DEF ToSet
<1> HIDE DEF w
<1>4. DOMAIN w = DOMAIN s \cup {Len(s) + 1}
  BY <1>1, <1>2
<1>5. ToSet(w) = ToSet(s) \cup {x}
  BY <1>1, <1>2, <1>3, <1>4
<1>6. Once(s) /\ x \notin ToSet(s) => Once(w)
  BY <1>1, <1>2, <1>4 DEF Once
<1> QED BY <1>2, <1>5, <1>6 DEF w


\* Such a list is as long as the set of its members is large.
LEMMA LenOfOnce ==
  ASSUME NEW S, NEW s \in Seq(S), Once(s)
  PROVE  IsFiniteSet(ToSet(s)) /\ Cardinality(ToSet(s)) = Len(s)
<1> DEFINE D == 1..Len(s)
<1>1. Len(s) \in Nat /\ DOMAIN s = D /\ \A e : e \in ToSet(s) <=> \E i \in DOMAIN s : s[i] = e
  BY ListFacts
<1>2. IsFiniteSet(D) /\ Cardinality(D) = Len(s)
  BY <1>1, FS_Interval
<1>3. s \in [D -> ToSet(s)]
  BY <1>1
<1> HIDE DEF D
<1>4. s \in Surjection(D, ToSet(s)) /\ s \in Injection(D, ToSet(s))
  BY <1>1, <1>3 DEF Surjection, Injection, IsInjective, Once
<1>5. ExistsBijection(D, ToSet(s))
  BY <1>4 DEF ExistsBijection, Bijection
<1> QED BY <1>2, <1>5, FS_Bijection

-----------------------------------------------------------------------------
(* The rows of a clan *)

\* An enumeration of a set has everyone of it once.
LEMMA Enumerated ==
  ASSUME NEW S, IsFiniteSet(S), NEW rows \in SetToSeqs(S)
  PROVE  rows \in Seq(S) /\ Once(rows) /\ ToSet(rows) = S
<1> DEFINE D == 1..Cardinality(S)
<1>1. Cardinality(S) \in Nat
  BY FS_CardinalityType
<1>2. rows \in [D -> S] /\ \A i, j \in D : i # j => rows[i] # rows[j]
  BY DEF SetToSeqs
<1>3. IsFiniteSet(D) /\ Cardinality(D) = Cardinality(S)
  BY <1>1, FS_Interval
<1>4. rows \in Seq(S)
  BY <1>1, <1>2
<1> HIDE DEF D
<1>5. Once(rows)
  BY <1>2 DEF Once
<1>6. rows \in Injection(D, S)
  BY <1>2 DEF Injection, IsInjective
<1>7. rows \in Surjection(D, S)
  BY <1>3, <1>6, FS_Injection
<1>8. ToSet(rows) = S
  BY <1>2, <1>7 DEF ToSet, Surjection
<1> QED BY <1>4, <1>5, <1>8

\* Everyone once, in this order, is an enumeration.
LEMMA Enumerates ==
  ASSUME NEW S, NEW rows \in Seq(S), Once(rows), ToSet(rows) = S
  PROVE  IsFiniteSet(S) /\ rows \in SetToSeqs(S)
<1>1. IsFiniteSet(S) /\ Cardinality(S) = Len(rows)
  BY LenOfOnce
<1>2. rows \in [1..Len(rows) -> S] /\ DOMAIN rows = 1..Len(rows)
  BY LenProperties
<1> QED BY <1>1, <1>2 DEF SetToSeqs, Once

\* A finite set of characters has one whose row has the highest rank.
LEMMA Highest ==
  ASSUME Master \in Nat, NEW r \in [Chars -> Places], NEW S \in SUBSET Chars, S # {}
  PROVE  \E x \in S : \A y \in S : r[y].rank <= r[x].rank
<1> DEFINE below(x) == Master - r[x].rank
           T == {below(x) : x \in S}
<1>1. \A x \in S : r[x].rank \in 0..Master
  BY DEF Places
<1>2. \A x \in S : below(x) \in Nat
  BY <1>1
<1>3. T \in SUBSET Nat /\ T # {}
  BY <1>2
<1>4. Min(T) \in T /\ \A t \in T : Min(T) <= t
  <2> HIDE DEF T
  <2> QED BY <1>3, MinOfNaturals
<1>5. PICK x \in S : Min(T) = below(x)
  BY <1>4
<1>6. \A y \in S : below(x) <= below(y)
  BY <1>4, <1>5
<1>7. \A y \in S : r[y].rank <= r[x].rank
  BY <1>1, <1>6
<1> QED BY <1>7

Sorted(S, r) == \E rows \in SetToSeqs(S) : ByRank(rows, r)

\* With it at the end the others can be put in order first.
LEMMA SortedWith ==
  ASSUME NEW r \in [Chars -> Places], NEW S \in SUBSET Chars, IsFiniteSet(S),
         NEW x \in S, \A y \in S : r[y].rank <= r[x].rank, Sorted(S \ {x}, r)
  PROVE  Sorted(S, r)
<1>1. PICK rows \in SetToSeqs(S \ {x}) : ByRank(rows, r)
  BY DEF Sorted
<1>2. IsFiniteSet(S \ {x})
  BY FS_RemoveElement
<1>3. rows \in Seq(S \ {x}) /\ Once(rows) /\ ToSet(rows) = S \ {x}
  BY <1>2, Enumerated
<1>4. rows \in Seq(S)
  BY <1>3, SeqMonotonic
<1> DEFINE w == Append(rows, x)
<1>5. w \in Seq(S) /\ Once(w) /\ ToSet(w) = S
  <2>1. (S \ {x}) \cup {x} = S /\ x \notin ToSet(rows)
    BY <1>3
  <2>2. w \in Seq(S) /\ ToSet(w) = ToSet(rows) \cup {x} /\ Once(w)
    BY <1>3, <1>4, <2>1, PutIn
  <2> QED BY <1>3, <2>1, <2>2
<1>6. /\ Len(rows) \in Nat /\ DOMAIN rows = 1..Len(rows) /\ DOMAIN w = 1..Len(rows) + 1
      /\ \A i \in 1..Len(rows) : w[i] = rows[i] /\ rows[i] \in S
      /\ w[Len(rows) + 1] = x
  BY <1>4, AppendProperties, ListFacts, LenProperties
<1> HIDE DEF w
<1>7. w \in SetToSeqs(S)
  BY <1>5, Enumerates
<1>8. ByRank(w, r)
  <2> SUFFICES ASSUME NEW i \in DOMAIN w, NEW j \in DOMAIN w, i < j
               PROVE  r[w[i]].rank <= r[w[j]].rank
    BY DEF ByRank
  <2>1. i \in 1..Len(rows)
    BY <1>6
  <2>2. CASE j \in 1..Len(rows)
    BY <1>1, <1>6, <2>1, <2>2 DEF ByRank
  <2>3. CASE j = Len(rows) + 1
    BY <1>6, <2>1, <2>3
  <2> QED BY <1>6, <2>2, <2>3
<1> QED BY <1>7, <1>8 DEF Sorted

LEMMA SortedNone == ASSUME NEW r PROVE Sorted({}, r)
<1>1. IsFiniteSet({}) /\ Cardinality({}) = 0
  BY FS_EmptySet
<1>2. <<>> \in [1..0 -> {}]
  OBVIOUS
<1>3. <<>> \in SetToSeqs({})
  BY <1>1, <1>2 DEF SetToSeqs
<1>4. ByRank(<<>>, r)
  BY DEF ByRank
<1> QED BY <1>3, <1>4 DEF Sorted

\* Every set of characters can be put in the order of the ranks.
LEMMA AllSorted ==
  ASSUME Master \in Nat, NEW r \in [Chars -> Places], NEW S \in SUBSET Chars, IsFiniteSet(S)
  PROVE  Sorted(S, r)
<1> DEFINE T == {n \in Nat : \A U \in SUBSET Chars : IsFiniteSet(U) /\ Cardinality(U) = n => Sorted(U, r)}
<1>1. 0 \in T
  BY FS_EmptySet, SortedNone
<1>2. ASSUME NEW n \in T PROVE n + 1 \in T
  <2> SUFFICES ASSUME NEW U \in SUBSET Chars, IsFiniteSet(U), Cardinality(U) = n + 1
               PROVE  Sorted(U, r)
    OBVIOUS
  <2>1. U # {}
    BY <1>2, FS_EmptySet
  <2>2. PICK x \in U : \A y \in U : r[y].rank <= r[x].rank
    BY <2>1, Highest
  <2>3. IsFiniteSet(U \ {x}) /\ Cardinality(U \ {x}) = n
    BY <1>2, OneLess
  <2>4. Sorted(U \ {x}, r)
    BY <1>2, <2>3
  <2> HIDE DEF T
  <2> QED BY <2>2, <2>4, SortedWith
<1>3. T \in SUBSET Nat
  OBVIOUS
<1>4. T = Nat
  <2> HIDE DEF T
  <2> QED BY <1>1, <1>2, <1>3, Induction
<1>5. Cardinality(S) \in T
  BY <1>4, FS_CardinalityType
<1> QED BY <1>5

\* What is read is everyone whose row names the clan, once.
LEMMA RowsFacts ==
  ASSUME NEW r \in [Chars -> Places], NEW k
  PROVE  /\ RowsOf(k, r) \in Seq(Chars) /\ Once(RowsOf(k, r))
         /\ ToSet(RowsOf(k, r)) = InClan(k, r)
         /\ IsFiniteSet(InClan(k, r))
<1>1. InClan(k, r) \in SUBSET Chars
  BY DEF InClan
<1>2. IsFiniteSet(InClan(k, r))
  BY <1>1, ClanAssumption, FS_Subset
<1>3. Sorted(InClan(k, r), r)
  BY <1>1, <1>2, ClanAssumption, AllSorted
<1>4. RowsOf(k, r) \in SetToSeqs(InClan(k, r))
  BY <1>3 DEF Sorted, RowsOf
<1>5. RowsOf(k, r) \in Seq(InClan(k, r)) /\ Once(RowsOf(k, r)) /\ ToSet(RowsOf(k, r)) = InClan(k, r)
  BY <1>2, <1>4, Enumerated
<1> QED BY <1>1, <1>2, <1>5, SeqMonotonic


-----------------------------------------------------------------------------
(* What the packets to the world server promise *)

\* What a notice says of a character that is in a clan by now.
Told_(n, d) == Says(IF n.kind = "rank" THEN Place(d.clan, n.to.rank) ELSE n.to)
LastAbout(tw, i, x) == \A j \in DOMAIN tw : j > i => tw[j].who # x
OnlyRanks(tw, i, x) == \A j \in DOMAIN tw : j > i /\ tw[j].who = x => tw[j].kind = "rank"

\* The last notice about x says d, what was decided about x, and the last one
\* that is not about a rank names the clan of d.
Following(tw, d, x) ==
  \A i \in DOMAIN tw : tw[i].who = x =>
    /\ LastAbout(tw, i, x) => Told_(tw[i], d) = d
    /\ tw[i].kind # "rank" /\ OnlyRanks(tw, i, x) => tw[i].to.clan = d.clan

\* The player x, who has p: without a notice about a clan it is in the clan of
\* d, without any notice it has all of d.
Current(tw, d, p, x) ==
  /\ OnlyRanks(tw, 0, x) => p.clan = d.clan
  /\ LastAbout(tw, 0, x) => Says(p) = d

\* Nobody joins no clan.
JoinsSome(tw) == \A i \in DOMAIN tw : tw[i].kind = "joined" => tw[i].to.clan # NoClan

LEMMA AppendFacts ==
  ASSUME NEW tw \in Seq(Notices), NEW n \in Notices
  PROVE  /\ Append(tw, n) \in Seq(Notices)
         /\ Len(tw) \in Nat /\ DOMAIN tw = 1..Len(tw) /\ DOMAIN Append(tw, n) = 1..Len(tw) + 1
         /\ \A i \in 1..Len(tw) : Append(tw, n)[i] = tw[i]
         /\ Append(tw, n)[Len(tw) + 1] = n
BY AppendProperties, LenProperties, ListFacts

LEMMA TailFacts ==
  ASSUME NEW tw \in Seq(Notices), tw # <<>>
  PROVE  /\ Tail(tw) \in Seq(Notices) /\ Head(tw) \in Notices /\ Head(tw) = tw[1]
         /\ Len(tw) \in Nat \ {0} /\ DOMAIN tw = 1..Len(tw) /\ DOMAIN Tail(tw) = 1..Len(tw) - 1
         /\ \A i \in 1..Len(tw) - 1 : Tail(tw)[i] = tw[i + 1]
<1>1. Len(tw) \in Nat \ {0} /\ DOMAIN tw = 1..Len(tw)
  BY EmptySeq, ListFacts
<1>2. /\ Tail(tw) \in Seq(Notices) /\ Head(tw) \in Notices /\ Len(Tail(tw)) = Len(tw) - 1
      /\ \A i \in 1..Len(tw) - 1 : Tail(tw)[i] = tw[i + 1]
  BY HeadTailProperties
<1>3. DOMAIN Tail(tw) = 1..Len(tw) - 1
  BY <1>2, ListFacts
<1>4. Head(tw) = tw[1]
  BY <1>1
<1> QED BY <1>1, <1>2, <1>3, <1>4

\* A notice about somebody else changes nothing.
LEMMA OtherSent ==
  ASSUME NEW tw \in Seq(Notices), NEW n \in Notices, NEW x, n.who # x, NEW d, NEW p
  PROVE  /\ Following(tw, d, x) => Following(Append(tw, n), d, x)
         /\ Current(tw, d, p, x) => Current(Append(tw, n), d, p, x)
<1> DEFINE w == Append(tw, n)
<1>1. /\ Len(tw) \in Nat /\ DOMAIN tw = 1..Len(tw) /\ DOMAIN w = 1..Len(tw) + 1
      /\ \A i \in 1..Len(tw) : w[i] = tw[i]
      /\ w[Len(tw) + 1] = n
  BY AppendFacts
<1> HIDE DEF w
<1>2. DOMAIN w = DOMAIN tw \cup {Len(tw) + 1} /\ \A i \in DOMAIN tw : w[i] = tw[i]
  BY <1>1
<1>3. \A i \in DOMAIN tw \cup {0} :
        /\ LastAbout(w, i, x) => LastAbout(tw, i, x)
        /\ OnlyRanks(w, i, x) => OnlyRanks(tw, i, x)
  BY <1>2 DEF LastAbout, OnlyRanks
<1>4. Following(tw, d, x) => Following(w, d, x)
  BY <1>1, <1>2, <1>3 DEF Following
<1>5. Current(tw, d, p, x) => Current(w, d, p, x)
  BY <1>3 DEF Current
<1> QED BY <1>4, <1>5 DEF w

\* A notice of a clan says all there is to know.
LEMMA ClanSent ==
  ASSUME NEW tw \in Seq(Notices), NEW n \in Notices, n.kind # "rank", NEW d, Says(n.to) = d
  PROVE  /\ Following(Append(tw, n), d, n.who)
         /\ \A p : Current(Append(tw, n), d, p, n.who)
<1> DEFINE w == Append(tw, n)
<1>1. /\ Len(tw) \in Nat /\ DOMAIN tw = 1..Len(tw) /\ DOMAIN w = 1..Len(tw) + 1
      /\ \A i \in 1..Len(tw) : w[i] = tw[i]
      /\ w[Len(tw) + 1] = n
  BY AppendFacts
<1> HIDE DEF w
<1>2. \A i \in 0..Len(tw) : ~LastAbout(w, i, n.who) /\ ~OnlyRanks(w, i, n.who)
  BY <1>1 DEF LastAbout, OnlyRanks
<1>3. Told_(n, d) = d /\ n.to.clan = d.clan
  BY DEF Told_, Says
<1>4. Following(w, d, n.who)
  <2> SUFFICES ASSUME NEW i \in DOMAIN w, w[i].who = n.who
               PROVE  /\ LastAbout(w, i, n.who) => Told_(w[i], d) = d
                      /\ w[i].kind # "rank" /\ OnlyRanks(w, i, n.who) => w[i].to.clan = d.clan
    BY DEF Following
  <2>1. i \in 0..Len(tw) \/ i = Len(tw) + 1
    BY <1>1
  <2> QED BY <1>1, <1>2, <1>3, <2>1
<1>5. \A p : Current(w, d, p, n.who)
  BY <1>1, <1>2 DEF Current
<1> QED BY <1>4, <1>5 DEF w

\* A notice of a rank says what was decided of a character whose clan stays.
LEMMA RankSent ==
  ASSUME NEW tw \in Seq(Notices), NEW n \in Notices, n.kind = "rank", NEW d0, NEW d,
         d.clan = d0.clan, Says(Place(d.clan, n.to.rank)) = d
  PROVE  /\ Following(tw, d0, n.who) => Following(Append(tw, n), d, n.who)
         /\ \A p : Current(tw, d0, p, n.who) => Current(Append(tw, n), d, p, n.who)
<1> DEFINE w == Append(tw, n)
<1>1. /\ Len(tw) \in Nat /\ DOMAIN tw = 1..Len(tw) /\ DOMAIN w = 1..Len(tw) + 1
      /\ \A i \in 1..Len(tw) : w[i] = tw[i]
      /\ w[Len(tw) + 1] = n
  BY AppendFacts
<1> HIDE DEF w
<1>2. \A i \in 0..Len(tw) : ~LastAbout(w, i, n.who)
  BY <1>1 DEF LastAbout
<1>3. \A i \in 0..Len(tw) : OnlyRanks(w, i, n.who) => OnlyRanks(tw, i, n.who)
  BY <1>1 DEF OnlyRanks
<1>4. Told_(n, d) = d
  BY DEF Told_
<1>5. Following(tw, d0, n.who) => Following(w, d, n.who)
  <2> SUFFICES ASSUME Following(tw, d0, n.who), NEW i \in DOMAIN w, w[i].who = n.who
               PROVE  /\ LastAbout(w, i, n.who) => Told_(w[i], d) = d
                      /\ w[i].kind # "rank" /\ OnlyRanks(w, i, n.who) => w[i].to.clan = d.clan
    BY DEF Following
  <2>1. CASE i \in 1..Len(tw)
    BY <1>1, <1>2, <1>3, <2>1 DEF Following
  <2>2. CASE i = Len(tw) + 1
    BY <1>1, <1>4, <2>2
  <2> QED BY <1>1, <2>1, <2>2
<1>6. \A p : Current(tw, d0, p, n.who) => Current(w, d, p, n.who)
  BY <1>1, <1>2, <1>3 DEF Current
<1> QED BY <1>5, <1>6 DEF w

\* Without a notice about x there is nothing to follow.
LEMMA NothingSent ==
  ASSUME NEW tw \in Seq(Notices), NEW x, \A i \in DOMAIN tw : tw[i].who # x
  PROVE  /\ \A d : Following(tw, d, x)
         /\ \A d, p : Says(p) = d => Current(tw, d, p, x)
<1>1. \A d, p : Says(p) = d => p.clan = d.clan
  BY DEF Says
<1> QED BY <1>1 DEF Following, Current

\* What the player x has when the notice n is handled.
Handled(n, known, p) ==
  IF n.kind = "joined" /\ n.to.clan \notin known THEN p
  ELSE IF n.kind = "rank" THEN Place(p.clan, n.to.rank) ELSE n.to

\* A notice about x taken off the packets and handled.
LEMMA NoticeTaken ==
  ASSUME NEW tw \in Seq(Notices), tw # <<>>, NEW x \in Chars, JoinsSome(tw), NEW d, NEW known,
         d.clan \in known \/ d.clan = NoClan, Following(tw, d, x)
  PROVE  /\ Following(Tail(tw), d, x)
         /\ \A p : Head(tw).who # x /\ Current(tw, d, p, x) => Current(Tail(tw), d, p, x)
         /\ \A p \in Places : Head(tw).who = x /\ Current(tw, d, p, x) =>
              Current(Tail(tw), d, Handled(Head(tw), known, p), x)
<1> DEFINE w == Tail(tw)
<1>1. /\ w \in Seq(Notices) /\ Head(tw) \in Notices /\ Head(tw) = tw[1]
      /\ Len(tw) \in Nat \ {0} /\ DOMAIN tw = 1..Len(tw) /\ DOMAIN w = 1..Len(tw) - 1
      /\ \A i \in 1..Len(tw) - 1 : w[i] = tw[i + 1]
  BY TailFacts
<1> HIDE DEF w
<1>2. \A i \in 0..Len(tw) - 1 : /\ LastAbout(w, i, x) => LastAbout(tw, i + 1, x)
                                /\ OnlyRanks(w, i, x) => OnlyRanks(tw, i + 1, x)
  <2> SUFFICES ASSUME NEW i \in 0..Len(tw) - 1, NEW j \in DOMAIN tw, j > i + 1
               PROVE  j - 1 \in DOMAIN w /\ j - 1 > i /\ w[j - 1] = tw[j]
    BY DEF LastAbout, OnlyRanks
  <2>1. j - 1 \in 1..Len(tw) - 1 /\ j - 1 > i /\ (j - 1) + 1 = j
    BY <1>1
  <2> QED BY <1>1, <2>1
<1>3. Following(w, d, x)
  <2> SUFFICES ASSUME NEW i \in DOMAIN w, w[i].who = x
               PROVE  /\ LastAbout(w, i, x) => Told_(w[i], d) = d
                      /\ w[i].kind # "rank" /\ OnlyRanks(w, i, x) => w[i].to.clan = d.clan
    BY DEF Following
  <2>1. i \in 0..Len(tw) - 1 /\ i + 1 \in DOMAIN tw /\ w[i] = tw[i + 1]
    BY <1>1
  <2> QED BY <1>2, <2>1 DEF Following
<1>4. /\ LastAbout(w, 0, x) => LastAbout(tw, 1, x)
      /\ OnlyRanks(w, 0, x) => OnlyRanks(tw, 1, x)
  BY <1>1, <1>2
<1>5. ASSUME NEW p, Head(tw).who # x, Current(tw, d, p, x) PROVE Current(w, d, p, x)
  BY <1>1, <1>4, <1>5 DEF Current, LastAbout, OnlyRanks
<1>6. ASSUME NEW p \in Places, Head(tw).who = x, Current(tw, d, p, x)
      PROVE  Current(w, d, Handled(Head(tw), known, p), x)
  <2> DEFINE n == Head(tw)
  <2>1. /\ LastAbout(w, 0, x) => Told_(n, d) = d
        /\ n.kind # "rank" /\ OnlyRanks(w, 0, x) => n.to.clan = d.clan
    BY <1>1, <1>4, <1>6 DEF Following
  <2>2. n.kind = "joined" => n.to.clan # NoClan
    BY <1>1 DEF JoinsSome
  <2>3. LastAbout(w, 0, x) => OnlyRanks(w, 0, x)
    BY DEF LastAbout, OnlyRanks
  <2>4. CASE n.kind = "rank"
    <3>1. OnlyRanks(w, 0, x) => OnlyRanks(tw, 0, x)
      BY <1>1, <1>4, <2>4 DEF OnlyRanks
    <3>2. Handled(n, known, p) = Place(p.clan, n.to.rank)
      BY <2>4 DEF Handled
    <3>3. Place(p.clan, n.to.rank).clan = p.clan
      BY DEF Place
    <3>4. OnlyRanks(w, 0, x) => p.clan = d.clan
      BY <1>6, <3>1 DEF Current
    <3>5. LastAbout(w, 0, x) => Says(Place(p.clan, n.to.rank)) = d
      BY <2>1, <2>3, <2>4, <3>4 DEF Told_
    <3> QED BY <3>2, <3>3, <3>4, <3>5 DEF Current
  <2>5. CASE n.kind = "joined" /\ n.to.clan \notin known
    <3>1. ~OnlyRanks(w, 0, x)
      BY <2>1, <2>2, <2>5
    <3> QED BY <2>3, <3>1 DEF Current
  <2>6. CASE n.kind # "rank" /\ ~(n.kind = "joined" /\ n.to.clan \notin known)
    <3>1. Handled(n, known, p) = n.to
      BY <2>6 DEF Handled
    <3> QED BY <2>1, <2>6, <3>1 DEF Current, Told_
  <2> QED BY <2>4, <2>5, <2>6
<1> QED BY <1>3, <1>5, <1>6 DEF w


-----------------------------------------------------------------------------
(* Types *)

LEMMA Ranks ==
  /\ TopRank \in 1..Master /\ ExMaster \in 0..Master /\ Master \in Nat /\ Master >= 2
  /\ \A r \in 0..TopRank : r < Master /\ r \in 0..Master
  /\ ExMaster < Master /\ NoClan \notin Clans /\ 1 \in 0..Master
BY ClanAssumption DEF Clans, NoClan

LEMMA PlaceFacts ==
  /\ \A k \in Clans \cup {NoClan}, r \in 0..Master :
       Place(k, r) \in Places /\ Place(k, r).clan = k /\ Place(k, r).rank = r
  /\ \A p \in Places : p.clan \in Clans \cup {NoClan} /\ p.rank \in 0..Master /\ p = Place(p.clan, p.rank)
  /\ Outside \in Places /\ Unset \in Places
  /\ Outside.clan = NoClan /\ Unset.clan = NoClan
BY Ranks DEF Place, Places, Outside, Unset

Standings == [clan : Clans \cup {NoClan}, leads : BOOLEAN]

LEMMA SaysFacts ==
  /\ \A p \in Places : Says(p) \in Standings
  /\ \A p : Says(p).clan = p.clan /\ Says(p).leads = (p.clan # NoClan /\ p.rank = Master)
  /\ \A p : p.clan = NoClan => Says(p) = Says(Outside)
<1>1. \A p : Says(p).clan = p.clan
  BY DEF Says
<1>2. \A p : Says(p).leads = (p.clan # NoClan /\ p.rank = Master)
  BY DEF Says
<1>3. \A p \in Places : Says(p) \in Standings
  BY DEF Says, Standings, Places
<1>4. \A p : p.clan = NoClan => Says(p) = Says(Outside)
  <2> TAKE p
  <2> HAVE p.clan = NoClan
  <2>1. Outside.clan = NoClan
    BY PlaceFacts
  <2> QED BY <2>1 DEF Says
<1> QED BY <1>1, <1>2, <1>3, <1>4

Note(x, place, kind) == [who |-> x, to |-> place, kind |-> kind]

\* Whoever has an entry is told while the world server is linked.
LEMMA ToldFacts ==
  ASSUME NEW tw \in Seq(Notices), NEW x \in Chars, NEW place \in Places,
         NEW kind \in {"joined", "out", "rank"}
  PROVE  /\ Note(x, place, kind) \in Notices
         /\ Note(x, place, kind).who = x /\ Note(x, place, kind).to = place
         /\ Note(x, place, kind).kind = kind
         /\ Told(x, place, kind) \in Seq(Notices)
         /\ tw \o Told(x, place, kind) \in Seq(Notices)
         /\ x \in online /\ linked => tw \o Told(x, place, kind) = Append(tw, Note(x, place, kind))
         /\ ~(x \in online /\ linked) => tw \o Told(x, place, kind) = tw
<1>1. /\ Note(x, place, kind) \in Notices
      /\ Note(x, place, kind).who = x /\ Note(x, place, kind).to = place
      /\ Note(x, place, kind).kind = kind
  BY DEF Note, Notices
<1>2. CASE x \in online /\ linked
  <2>1. Told(x, place, kind) = <<Note(x, place, kind)>>
    BY <1>2 DEF Told, Note
  <2>2. tw \o <<Note(x, place, kind)>> = Append(tw, Note(x, place, kind))
    BY <1>1, AppendIsConcat
  <2>3. Append(tw, Note(x, place, kind)) \in Seq(Notices) /\ <<Note(x, place, kind)>> \in Seq(Notices)
    BY <1>1, AppendProperties
  <2> QED BY <1>1, <1>2, <2>1, <2>2, <2>3
<1>3. CASE ~(x \in online /\ linked)
  <2>1. Told(x, place, kind) = <<>>
    BY <1>3 DEF Told
  <2> QED BY <1>1, <1>3, <2>1, ConcatEmptySeq, EmptySeq
<1> QED BY <1>2, <1>3

LEMMA NobodyTold ==
  ASSUME NEW tw \in Seq(Notices), ~linked, NEW x, NEW place, NEW kind
  PROVE  tw \o Told(x, place, kind) = tw
<1>1. Told(x, place, kind) = <<>>
  BY DEF Told
<1> QED BY <1>1, ConcatEmptySeq

\* The first n of some notices.
LEMMA FirstOnes ==
  ASSUME NEW q \in Seq(Notices), NEW n \in 0..Len(q)
  PROVE  /\ SubSeq(q, 1, n) \in Seq(Notices) /\ DOMAIN SubSeq(q, 1, n) = 1..n
         /\ \A i \in 1..n : SubSeq(q, 1, n)[i] = q[i]
         /\ Len(q) \in Nat /\ DOMAIN q = 1..Len(q) /\ n \in Nat /\ n <= Len(q)
<1> DEFINE w == SubSeq(q, 1, n)
<1>1. Len(q) \in Nat /\ DOMAIN q = 1..Len(q) /\ \A i \in 1..Len(q) : q[i] \in Notices
  BY ListFacts
<1>2. n \in Nat /\ n <= Len(q) /\ 1 \in Int /\ n \in Int /\ \A i \in 1..n : q[i] \in Notices
  BY <1>1
<1>3. /\ w \in Seq(Notices) /\ Len(w) = IF 1 <= n THEN n - 1 + 1 ELSE 0
      /\ \A i \in 1..n - 1 + 1 : w[i] = q[1 + i - 1]
  BY <1>2, SubSeqProperties
<1> HIDE DEF w
<1>4. Len(w) = n /\ n - 1 + 1 = n /\ \A i \in 1..n : 1 + i - 1 = i
  BY <1>2, <1>3
<1>5. DOMAIN w = 1..n /\ \A i \in 1..n : w[i] = q[i]
  BY <1>3, <1>4, ListFacts
<1> QED BY <1>1, <1>2, <1>3, <1>5 DEF w

\* A list is as long after it is overwritten by as many rows, and is these rows.
LEMMA RefreshedFacts ==
  ASSUME NEW r \in [Chars -> Places], NEW k \in Clans, members[k] \in Seq(Chars)
  PROVE  /\ Refreshed(k, r) \in Seq(Chars)
         /\ Len(members[k]) = Cardinality(InClan(k, r)) => Refreshed(k, r) = RowsOf(k, r)
<1> DEFINE rows == RowsOf(k, r)
           s == members[k]
           rest == SubSeq(s, Len(rows) + 1, Len(s))
<1>1. rows \in Seq(Chars) /\ Once(rows) /\ ToSet(rows) = InClan(k, r)
  BY RowsFacts
<1>2. Cardinality(InClan(k, r)) = Len(rows)
  BY <1>1, LenOfOnce
<1> HIDE DEF rows
<1>3. Len(rows) \in Nat /\ Len(s) \in Nat /\ \A i \in 1..Len(s) : s[i] \in Chars
  BY <1>1, ListFacts
<1>4. rest \in Seq(Chars)
  <2>1. Len(rows) + 1 \in Int /\ Len(s) \in Int /\ \A i \in Len(rows) + 1..Len(s) : s[i] \in Chars
    BY <1>3
  <2> QED BY <2>1, SubSeqProperties
<1>5. Len(s) = Len(rows) => rest = <<>>
  <2>1. Len(s) = Len(rows) => Len(s) < Len(rows) + 1 /\ Len(rows) + 1 \in Int /\ Len(s) \in Int
    BY <1>3
  <2> QED BY <2>1, SubSeqEmpty
<1>6. Refreshed(k, r) = rows \o rest
  BY DEF Refreshed, rows
<1> HIDE DEF rest
<1>7. rows \o rest \in Seq(Chars)
  BY <1>1, <1>4, ConcatProperties
<1>8. rest = <<>> => rows \o rest = rows
  BY <1>1, ConcatEmptySeq
<1> QED BY <1>2, <1>5, <1>6, <1>7, <1>8 DEF rows

LEMMA NotRemoved ==
  ASSUME NEW s \in Seq(Chars), NEW x, x \notin ToSet(s)
  PROVE  RemoveFirst(s, x) = s
<1>1. ~(\E i \in 1..Len(s) : s[i] = x)
  BY ListFacts
<1> QED BY <1>1 DEF RemoveFirst

LEMMA RemovedType ==
  ASSUME NEW s \in Seq(Chars), NEW x
  PROVE  RemoveFirst(s, x) \in Seq(Chars)
<1>1. CASE x \in ToSet(s)
  BY <1>1, FirstIsAPlace, PlaceRemoved
<1>2. CASE x \notin ToSet(s)
  BY <1>2, NotRemoved
<1> QED BY <1>1, <1>2


LEMMA ReadFacts ==
  ASSUME NEW r, NEW xs, NEW d, RowsRead(r, xs, d), drifted \in BOOLEAN
  PROVE  drifted' \in BOOLEAN /\ (~drifted' => ~drifted /\ RowsSay(r, xs, d))
<1>1. drifted' = (drifted \/ ~RowsSay(r, xs, d))
  BY DEF RowsRead
<1>2. RowsSay(r, xs, d) \in BOOLEAN
  BY DEF RowsSay
<1> HIDE DEF RowsSay
<1> QED BY <1>1, <1>2, Zenon

LEMMA DecidedFacts ==
  ASSUME decided \in [Chars -> Standings], NEW x \in Chars, NEW p \in Places
  PROVE  /\ Decided(x, p) \in [Chars -> Standings]
         /\ Decided(x, p)[x] = Says(p)
         /\ \A y \in Chars \ {x} : Decided(x, p)[y] = decided[y]
BY SaysFacts DEF Decided

LEMMA NewRank ==
  ASSUME NEW f \in [Chars -> Places], NEW x \in Chars, NEW n \in 0..Master
  PROVE  /\ [f EXCEPT ![x].rank = n] \in [Chars -> Places]
         /\ [f EXCEPT ![x].rank = n][x] = Place(f[x].clan, n)
         /\ \A y \in Chars \ {x} : [f EXCEPT ![x].rank = n][y] = f[y]
         /\ \A y \in Chars : [f EXCEPT ![x].rank = n][y].clan = f[y].clan
<1>1. [f[x] EXCEPT !.rank = n] = Place(f[x].clan, n) /\ Place(f[x].clan, n) \in Places
  BY PlaceFacts DEF Places, Place
<1> QED BY <1>1, PlaceFacts

LEMMA NewClanOf ==
  ASSUME NEW f \in [Chars -> Places], NEW x \in Chars, NEW n \in Clans \cup {NoClan}
  PROVE  [f EXCEPT ![x].clan = n] \in [Chars -> Places]
<1>1. [f[x] EXCEPT !.clan = n] \in Places
  BY DEF Places
<1> QED BY <1>1

LEMMA TypeInit == Init => TypeOK
<1>1. Says(Outside) \in Standings /\ Unset \in Places
  BY SaysFacts, PlaceFacts
<1>2. <<>> \in Seq(Chars) /\ <<>> \in Seq(Notices) /\ <<>> \in Seq(News)
  BY EmptySeq
<1> SUFFICES ASSUME Init PROVE TypeOK
  OBVIOUS
<1>3. decided \in [Chars -> Standings]
  BY <1>1 DEF Init
<1>4. members \in [Clans -> Seq(Chars)]
  BY <1>2 DEF Init
<1>5. row \in [Chars -> Places] /\ entry \in [Chars -> Places] /\ player \in [Chars -> Places]
  BY <1>1 DEF Init
<1>6. founded \in 0..MaxClan /\ crashes \in 0..MaxCrashes
  BY ClanAssumption DEF Init
<1>7. linked \in BOOLEAN /\ drifted \in BOOLEAN
  BY DEF Init
<1> QED BY <1>2, <1>3, <1>4, <1>5, <1>6, <1>7 DEF Init, TypeOK, Standings

\* Whom the history notes are characters.
LEMMA SomeChars ==
  /\ \A xs \in SUBSET Chars : \A there, q : StillExposed(xs, there, q) \in SUBSET Chars
  /\ \A xs \in SUBSET Chars : Untold(xs) \in SUBSET Chars
BY DEF StillExposed, Untold

\* Coming, going and founding.
LEMMA TypeComing ==
  ASSUME TypeOK, NEW x \in Chars,
         \/ pakRequestWorld(x) \/ loaddata(x) \/ savedata(x) \/ LeaveWorld(x)
         \/ OnClientDisconnect(x) \/ pakCreateClan(x) \/ NewClan
  PROVE  TypeOK'
<1> USE ClanAssumption
<1>1. CASE pakRequestWorld(x)
  <2>1. drifted' \in BOOLEAN
    BY <1>1, ReadFacts DEF pakRequestWorld, TypeOK
  <2> QED BY <1>1, <2>1 DEF pakRequestWorld, TypeOK, table, worldSide
<1>2. CASE loaddata(x)
  <2>1. drifted' \in BOOLEAN
    BY <1>2, ReadFacts DEF loaddata, TypeOK
  <2>2. player' \in [Chars -> Places]
    BY <1>2, PlaceFacts DEF loaddata, TypeOK
  <2> QED BY <1>2, <2>1, <2>2 DEF loaddata, TypeOK, table, charSide
<1>3. CASE savedata(x)
  BY <1>3 DEF savedata, TypeOK, charSide, worldSide, history
<1>4. CASE LeaveWorld(x)
  <2>1. missed' \in SUBSET Chars
    BY <1>4, SomeChars DEF LeaveWorld, TypeOK
  <2> QED BY <1>4, <2>1, PlaceFacts DEF LeaveWorld, TypeOK, charSide
<1>5. CASE OnClientDisconnect(x)
  BY <1>5, PlaceFacts DEF OnClientDisconnect, TypeOK, table, worldSide, history
<1>6. CASE pakCreateClan(x)
  <2> DEFINE k == founded + 1
  <2>1. k \in Clans /\ k \in 0..MaxClan
    BY <1>6 DEF pakCreateClan, TypeOK, Clans
  <2>2. Place(k, Master) \in Places
    BY <2>1, PlaceFacts, Ranks
  <2>3. Append(toChar, [who |-> x, clan |-> k]) \in Seq(News)
    BY <2>1, AppendProperties DEF News, TypeOK
  <2>4. decided' \in [Chars -> Standings]
    BY <1>6, <2>2, DecidedFacts DEF pakCreateClan, TypeOK, Standings
  <2> HIDE DEF k
  <2>5. /\ founded' = k /\ inTable' = inTable \cup {k} /\ player' = [player EXCEPT ![x] = Place(k, Master)]
        /\ row' = [row EXCEPT ![x] = Place(k, Master)]
        /\ toChar' = IF linked THEN Append(toChar, [who |-> x, clan |-> k]) ELSE toChar
        /\ missed' = IF Notified(x) THEN missed \cup {x} ELSE missed
        /\ UNCHANGED <<charSide, inWorld, toWorld, crashes, usurped>>
    BY <1>6 DEF pakCreateClan, k
  <2>6. drifted' \in BOOLEAN
    BY <1>6 DEF pakCreateClan
  <2>7. toChar' \in Seq(News) /\ missed' \in SUBSET Chars
    BY <2>3, <2>5 DEF TypeOK
  <2> QED BY <2>1, <2>2, <2>4, <2>5, <2>6, <2>7 DEF TypeOK, Standings, charSide
<1>7. CASE NewClan
  <2>1. toChar # <<>> /\ toChar' = Tail(toChar)
    BY <1>7 DEF NewClan
  <2>2. Head(toChar) \in News /\ toChar' \in Seq(News)
    BY <2>1, HeadTailProperties DEF TypeOK
  <2>3. Head(toChar).who \in Chars /\ Head(toChar).clan \in Clans
    BY <2>2 DEF News
  <2>4. Place(Head(toChar).clan, Master) \in Places /\ <<Head(toChar).who>> \in Seq(Chars)
    BY <2>3, PlaceFacts, Ranks
  <2>5. /\ listed' \in SUBSET Clans /\ members' \in [Clans -> Seq(Chars)]
        /\ entry' \in [Chars -> Places]
    BY <1>7, <2>3, <2>4 DEF NewClan, TypeOK
  <2>6. drifted' \in BOOLEAN
    BY <1>7 DEF NewClan
  <2> QED BY <1>7, <2>2, <2>5, <2>6 DEF NewClan, TypeOK, table, worldSide
<1> QED BY <1>1, <1>2, <1>3, <1>4, <1>5, <1>6, <1>7

\* Joining, leaving, kicks and disbanding.
LEMMA TypeLeaving ==
  ASSUME TypeOK, NEW a \in Chars, NEW x \in Chars,
         Accept(a, x) \/ LeaveClan(x) \/ Kick(a, x) \/ Disband(x)
  PROVE  TypeOK'
<1> USE ClanAssumption
<1>1. Outside \in Places /\ \A k \in Clans \cup {NoClan} : Place(k, 1) \in Places
  BY PlaceFacts, Ranks
<1>2. /\ Decided(x, Outside) \in [Chars -> Standings]
      /\ \A k \in Clans \cup {NoClan} : Decided(x, Place(k, 1)) \in [Chars -> Standings]
  BY <1>1, DecidedFacts DEF TypeOK, Standings
<1>3. toWorld \o Told(x, Outside, "out") \in Seq(Notices)
  BY <1>1, ToldFacts DEF TypeOK
<1>4. entry[x].clan \in Clans \cup {NoClan} /\ entry[a].clan \in Clans \cup {NoClan}
  BY PlaceFacts DEF TypeOK
<1>5. Untold({x}) \in SUBSET Chars
  BY SomeChars
<1>6. CASE Accept(a, x)
  <2> DEFINE k == entry[a].clan
  <2>1. toWorld \o Told(x, Place(k, 1), "joined") \in Seq(Notices)
    BY <1>1, <1>4, ToldFacts DEF TypeOK
  <2>2. toWorld' \in Seq(Notices) /\ missed' \in SUBSET Chars
    BY <1>5, <1>6, <2>1 DEF Accept, TypeOK, SendAll
  <2>3. k \in listed => Append(members[k], x) \in Seq(Chars)
    BY AppendProperties DEF TypeOK
  <2>4. row' \in [Chars -> Places]
    <3> DEFINE c == IF k # NoClan /\ row[x].rank = 1 THEN 1 ELSE NoClan
    <3>1. row' = [row EXCEPT ![x].clan = c]
      BY <1>6 DEF Accept
    <3>2. c \in Clans \cup {NoClan}
      BY <1>4 DEF NoClan, Clans
    <3> HIDE DEF c
    <3> QED BY <3>1, <3>2, NewClanOf DEF TypeOK
  <2>5. entry' \in [Chars -> Places] /\ decided' \in [Chars -> Standings]
    BY <1>1, <1>2, <1>4, <1>6 DEF Accept, TypeOK
  <2>6. members' \in [Clans -> Seq(Chars)]
    BY <1>6, <2>3 DEF Accept, TypeOK
  <2>7. drifted' \in BOOLEAN
    BY <1>6 DEF Accept
  <2> QED BY <1>6, <2>2, <2>4, <2>5, <2>6, <2>7 DEF Accept, TypeOK, Standings, worldSide
<1>7. CASE LeaveClan(x)
  <2>1. members' \in [Clans -> Seq(Chars)]
    BY <1>7, RemovedType DEF LeaveClan, TypeOK
  <2>2. row' \in [Chars -> Places]
    BY <1>7, NewClanOf DEF LeaveClan, TypeOK
  <2>3. entry' \in [Chars -> Places] /\ missed' \in SUBSET Chars
    BY <1>1, <1>5, <1>7 DEF LeaveClan, TypeOK
  <2> QED BY <1>2, <1>3, <1>7, <2>1, <2>2, <2>3 DEF LeaveClan, SendAll, TypeOK, Standings, worldSide
<1>8. CASE Kick(a, x)
  <2>1. members' \in [Clans -> Seq(Chars)]
    BY <1>8, RemovedType DEF Kick, TypeOK
  <2>2. row' \in [Chars -> Places] /\ entry' \in [Chars -> Places] /\ missed' \in SUBSET Chars
    BY <1>1, <1>5, <1>8 DEF Kick, TypeOK
  <2>3. drifted' \in BOOLEAN
    BY <1>8 DEF Kick
  <2> QED BY <1>2, <1>3, <1>8, <2>1, <2>2, <2>3 DEF Kick, SendAll, TypeOK, Standings, worldSide
<1>9. CASE Disband(x)
  <2>1. row' \in [Chars -> Places]
    BY <1>9, PlaceFacts DEF Disband, TypeOK
  <2>2. members' \in [Clans -> Seq(Chars)]
    BY <1>9, EmptySeq DEF Disband, TypeOK
  <2>3. entry' \in [Chars -> Places] /\ missed' \in SUBSET Chars
    BY <1>1, <1>9 DEF Disband, TypeOK
  <2> QED BY <1>2, <1>9, <2>1, <2>2, <2>3 DEF Disband, TypeOK, Standings, worldSide
<1> QED BY <1>6, <1>7, <1>8, <1>9

\* The type of a new start of the char server.
LEMMA RestartedType ==
  ASSUME TypeOK, NEW r \in [Chars -> Places], NEW q \in Seq(Notices), NEW d,
         NEW m \in SUBSET Chars, Restarted(r, q, d, m),
         row' = r, decided' \in [Chars -> Standings], usurped' \in SUBSET Clans,
         UNCHANGED <<inTable, founded, worldSide>>
  PROVE  TypeOK'
<1>1. PICK n \in 0..Len(q) :
        /\ toWorld' = SubSeq(q, 1, n)
        /\ missed' = StillExposed(m \cup {q[i].who : i \in n+1..Len(q)}, inWorld, SubSeq(q, 1, n))
  BY DEF Restarted
<1>2. toWorld' \in Seq(Notices)
  BY <1>1, FirstOnes
<1>3. missed' \in SUBSET Chars
  <2>1. \A i \in n+1..Len(q) : q[i].who \in Chars
    <3>1. Len(q) \in Nat /\ DOMAIN q = 1..Len(q) /\ n \in Nat
      BY FirstOnes
    <3>2. \A i \in n+1..Len(q) : i \in DOMAIN q
      BY <3>1
    <3>3. \A i \in DOMAIN q : q[i] \in Notices
      BY ListFacts
    <3> QED BY <3>2, <3>3 DEF Notices
  <2>2. m \cup {q[i].who : i \in n+1..Len(q)} \in SUBSET Chars
    BY <2>1
  <2> QED BY <1>1, <2>2, SomeChars
<1>4. drifted' \in BOOLEAN
  <2>1. RowsRead(r, Chars, d)
    BY DEF Restarted
  <2> QED BY <2>1, ReadFacts DEF TypeOK
<1>5. members' \in [Clans -> Seq(Chars)]
  BY RowsFacts, EmptySeq DEF Restarted, TypeOK
<1>6. /\ crashes' \in 0..MaxCrashes /\ online' = {} /\ listed' = inTable /\ toChar' \in Seq(News)
      /\ linked' \in BOOLEAN /\ entry' \in [Chars -> Places]
  <2>1. <<>> \in Seq(News) /\ Unset \in Places
    BY EmptySeq, PlaceFacts
  <2>2. crashes' \in 0..MaxCrashes
    BY ClanAssumption DEF Restarted, TypeOK
  <2>3. online' = {} /\ listed' = inTable /\ linked' = FALSE /\ toChar' = <<>>
    BY DEF Restarted
  <2>4. entry' \in [Chars -> Places]
    BY <2>1 DEF Restarted
  <2> QED BY <2>1, <2>2, <2>3, <2>4
<1> QED BY <1>2, <1>3, <1>4, <1>5, <1>6 DEF TypeOK, Standings, worldSide

\* The type of a rank's change, whether the server stops over it or not.
LEMMA RankedType ==
  ASSUME TypeOK, NEW k \in Clans \cup {NoClan}, NEW e \in [Chars -> Places],
         NEW r \in [Chars -> Places], NEW d \in [Chars -> Standings],
         NEW told, toWorld \o told \in Seq(Notices), NEW m \in SUBSET Chars, NEW read,
         Ranked(k, e, r, d, told, m, read), usurped' \in SUBSET Clans
  PROVE  TypeOK'
<1>1. row' = r /\ decided' = d /\ UNCHANGED <<inTable, founded, worldSide>>
  BY DEF Ranked
<1>2. CASE k \in listed /\ ~Overrun(k, r)
  <2>1. /\ members' = [members EXCEPT ![k] = Refreshed(k, r)] /\ entry' = e /\ missed' = m
        /\ SendAll(told) /\ UNCHANGED <<online, listed, linked, toChar, crashes>>
        /\ RowsRead(r, read \cup {y \in Chars : k \in {r[y].clan, d[y].clan}}, d)
    BY <1>2 DEF Ranked
  <2>2. k \in Clans /\ members[k] \in Seq(Chars)
    BY <1>2 DEF TypeOK
  <2>3. Refreshed(k, r) \in Seq(Chars)
    BY <2>2, RefreshedFacts
  <2>4. members' \in [Clans -> Seq(Chars)]
    BY <2>1, <2>2, <2>3 DEF TypeOK
  <2>5. drifted' \in BOOLEAN
    BY <2>1, ReadFacts DEF TypeOK
  <2>6. toWorld' \in Seq(Notices)
    BY <2>1 DEF SendAll
  <2> QED BY <1>1, <2>1, <2>4, <2>5, <2>6 DEF TypeOK, Standings, worldSide
<1>3. CASE ~(k \in listed /\ ~Overrun(k, r))
  <2>1. Restarted(r, toWorld \o told, d, m)
    BY <1>3 DEF Ranked
  <2> QED BY <1>1, <2>1, RestartedType
<1> QED BY <1>2, <1>3

-----------------------------------------------------------------------------
(* Ranks *)

\* What Promote and Demote have in common: x gets the rank new in its row, the
\* entries are then e, and d is decided.
Reranked(a, x, new, e, d) ==
  /\ new \in 0..Master /\ e \in [Chars -> Places] /\ d \in [Chars -> Standings]
  /\ Ranked(entry[a].clan, e, [row EXCEPT ![x].rank = new], d,
            Told(x, Place(NoClan, new), "rank"), missed \cup Untold({x}), {x} \ online)
  /\ \A y \in Chars \ {x} : d[y] = decided[y] /\ e[y] = entry[y]
  /\ e[x].clan = entry[x].clan
  /\ d[x].clan = decided[x].clan /\ (d[x].leads => decided[x].leads)
  /\ x \in online => d[x] = Says(Place(decided[x].clan, new)) /\ new < Master /\ e[x].rank < Master
  /\ usurped' = usurped

\* Promote and Demote decide about x that it has the rank new, or nothing.
LEMMA DecidesRank ==
  ASSUME TypeOK, NEW x \in Chars, NEW old \in 0..Master, NEW new \in 0..Master,
         x \in online => new < Master, x \notin online => old = row[x].rank,
         new = Master => old = Master
  PROVE  LET d == IF RowsSay(row, {x} \ online, decided)
                  THEN Decided(x, Place(decided[x].clan, new)) ELSE decided
         IN /\ d \in [Chars -> Standings]
            /\ \A y \in Chars \ {x} : d[y] = decided[y]
            /\ d[x].clan = decided[x].clan /\ (d[x].leads => decided[x].leads)
            /\ x \in online => d[x] = Says(Place(decided[x].clan, new))
<1> DEFINE e == Decided(x, Place(decided[x].clan, new))
<1>1. decided \in [Chars -> Standings] /\ decided[x].clan \in Clans \cup {NoClan}
  BY DEF TypeOK, Standings
<1>2. Place(decided[x].clan, new) \in Places
  BY <1>1, PlaceFacts
<1>3. e \in [Chars -> Standings] /\ e[x] = Says(Place(decided[x].clan, new))
      /\ \A y \in Chars \ {x} : e[y] = decided[y]
  BY <1>1, <1>2, DecidedFacts
<1> HIDE DEF e
<1>4. e[x].clan = decided[x].clan /\ e[x].leads = (decided[x].clan # NoClan /\ new = Master)
  <2> DEFINE p == Place(decided[x].clan, new)
  <2>1. p.clan = decided[x].clan /\ p.rank = new
    BY <1>1, PlaceFacts
  <2>2. e[x] = Says(p)
    BY <1>3
  <2> HIDE DEF p
  <2>3. Says(p).clan = p.clan /\ Says(p).leads = (p.clan # NoClan /\ p.rank = Master)
    BY SaysFacts
  <2> QED BY <2>1, <2>2, <2>3
<1>5. x \in online => RowsSay(row, {x} \ online, decided)
  BY DEF RowsSay
<1>6. RowsSay(row, {x} \ online, decided) /\ new = Master /\ decided[x].clan # NoClan => decided[x].leads
  <2> SUFFICES ASSUME RowsSay(row, {x} \ online, decided), new = Master, decided[x].clan # NoClan
               PROVE  decided[x].leads
    OBVIOUS
  <2>1. x \notin online /\ row[x].rank = Master
    BY Ranks
  <2>2. Says(row[x]) = decided[x]
    BY <2>1 DEF RowsSay
  <2>3. decided[x].clan = row[x].clan /\ decided[x].leads = (row[x].clan # NoClan /\ row[x].rank = Master)
    BY <2>2, SaysFacts
  <2> QED BY <2>1, <2>3
<1> QED BY <1>1, <1>3, <1>4, <1>5, <1>6 DEF e


LEMMA PromoteDoes ==
  ASSUME TypeOK, NEW a \in Chars, NEW x \in Chars, Promote(a, x)
  PROVE  \E new, e, d : Reranked(a, x, new, e, d)
<1> DEFINE old == IF x \in online THEN entry[x].rank ELSE row[x].rank
           new == IF old < TopRank THEN old + 1 ELSE old
           e == IF x \in online THEN [entry EXCEPT ![x].rank = old + 1] ELSE entry
           d == IF RowsSay(row, {x} \ online, decided)
                THEN Decided(x, Place(decided[x].clan, new)) ELSE decided
<1>1. old \in 0..Master
  BY PlaceFacts DEF TypeOK
<1>2. x \in online => old < TopRank
  BY DEF Promote
<1>3. x \notin online => old = row[x].rank
  OBVIOUS
<1>4. Ranked(entry[a].clan, e, [row EXCEPT ![x].rank = new], d,
             Told(x, Place(NoClan, new), "rank"), missed \cup Untold({x}), {x} \ online)
  BY DEF Promote
<1>5. usurped' = usurped
  BY DEF Promote
<1> HIDE DEF old
<1>6. new \in 0..Master /\ (x \in online => old + 1 \in 0..Master /\ old + 1 < Master /\ new < Master)
  BY <1>1, <1>2, Ranks
<1>7. new = Master => old = Master
  BY <1>1, Ranks
<1>8. /\ e \in [Chars -> Places] /\ \A y \in Chars \ {x} : e[y] = entry[y]
      /\ e[x].clan = entry[x].clan /\ (x \in online => e[x].rank < Master)
  <2>1. entry \in [Chars -> Places]
    BY DEF TypeOK
  <2>2. CASE x \in online
    <3> DEFINE g == [entry EXCEPT ![x].rank = old + 1]
    <3>1. old + 1 \in 0..Master /\ old + 1 < Master
      BY <1>6, <2>2
    <3>2. /\ g \in [Chars -> Places] /\ g[x] = Place(entry[x].clan, old + 1)
          /\ \A y \in Chars \ {x} : g[y] = entry[y]
      BY <2>1, <3>1, NewRank
    <3>3. e = g
      BY <2>2
    <3> HIDE DEF g, e
    <3>4. g[x].clan = entry[x].clan /\ g[x].rank = old + 1
      BY <3>2 DEF Place
    <3> QED BY <3>1, <3>2, <3>3, <3>4
  <2>3. CASE x \notin online
    BY <2>1, <2>3
  <2> QED BY <2>2, <2>3
<1> HIDE DEF e, new
<1>9. /\ d \in [Chars -> Standings] /\ \A y \in Chars \ {x} : d[y] = decided[y]
      /\ d[x].clan = decided[x].clan /\ (d[x].leads => decided[x].leads)
      /\ x \in online => d[x] = Says(Place(decided[x].clan, new))
  BY <1>1, <1>3, <1>6, <1>7, DecidesRank
<1> HIDE DEF d
<1>10. Reranked(a, x, new, e, d)
  BY <1>4, <1>5, <1>6, <1>8, <1>9 DEF Reranked
<1> QED BY <1>10

LEMMA DemoteDoes ==
  ASSUME TypeOK, NEW a \in Chars, NEW x \in Chars, Demote(a, x)
  PROVE  \E new, e, d : Reranked(a, x, new, e, d)
<1> DEFINE old == IF x \in online THEN entry[x].rank ELSE row[x].rank
           new == IF old > 1 THEN old - 1 ELSE old
           e == IF x \in online THEN [entry EXCEPT ![x].rank = old - 1] ELSE entry
           d == IF RowsSay(row, {x} \ online, decided)
                THEN Decided(x, Place(decided[x].clan, new)) ELSE decided
<1>1. old \in 0..Master
  BY PlaceFacts DEF TypeOK
<1>2. x \in online => old > 0
  BY DEF Demote
<1>3. x \notin online => old = row[x].rank
  OBVIOUS
<1>4. Ranked(entry[a].clan, e, [row EXCEPT ![x].rank = new], d,
             Told(x, Place(NoClan, new), "rank"), missed \cup Untold({x}), {x} \ online)
  BY DEF Demote
<1>5. usurped' = usurped
  BY DEF Demote
<1> HIDE DEF old
<1>6. new \in 0..Master /\ (x \in online => old - 1 \in 0..Master /\ old - 1 < Master /\ new < Master)
  BY <1>1, <1>2, Ranks
<1>7. new = Master => old = Master
  BY <1>1, Ranks
<1>8. /\ e \in [Chars -> Places] /\ \A y \in Chars \ {x} : e[y] = entry[y]
      /\ e[x].clan = entry[x].clan /\ (x \in online => e[x].rank < Master)
  <2>1. entry \in [Chars -> Places]
    BY DEF TypeOK
  <2>2. CASE x \in online
    <3> DEFINE g == [entry EXCEPT ![x].rank = old - 1]
    <3>1. old - 1 \in 0..Master /\ old - 1 < Master
      BY <1>6, <2>2
    <3>2. /\ g \in [Chars -> Places] /\ g[x] = Place(entry[x].clan, old - 1)
          /\ \A y \in Chars \ {x} : g[y] = entry[y]
      BY <2>1, <3>1, NewRank
    <3>3. e = g
      BY <2>2
    <3> HIDE DEF g, e
    <3>4. g[x].clan = entry[x].clan /\ g[x].rank = old - 1
      BY <3>2 DEF Place
    <3> QED BY <3>1, <3>2, <3>3, <3>4
  <2>3. CASE x \notin online
    BY <2>1, <2>3
  <2> QED BY <2>2, <2>3
<1> HIDE DEF e, new
<1>9. /\ d \in [Chars -> Standings] /\ \A y \in Chars \ {x} : d[y] = decided[y]
      /\ d[x].clan = decided[x].clan /\ (d[x].leads => decided[x].leads)
      /\ x \in online => d[x] = Says(Place(decided[x].clan, new))
  BY <1>1, <1>3, <1>6, <1>7, DecidesRank
<1> HIDE DEF d
<1>10. Reranked(a, x, new, e, d)
  BY <1>4, <1>5, <1>6, <1>8, <1>9 DEF Reranked
<1> QED BY <1>10

GivenRows(a, x)    == [row EXCEPT ![x].rank = Master, ![a].rank = ExMaster]
GivenEntries(a, x) ==
  [y \in Chars |-> CASE y = a -> Place(entry[a].clan, ExMaster)
                     [] y = x /\ x \in online -> Place(entry[x].clan, Master)
                     [] OTHER -> entry[y]]
GivenSay(a, x)     == [decided EXCEPT ![x] = Says(Place(@.clan, Master)), ![a].leads = FALSE]
GivenTold(a, x)    == Told(x, Place(NoClan, Master), "rank") \o Told(a, Place(NoClan, ExMaster), "rank")

\* What GiveMaster writes and decides.
LEMMA GivesFacts ==
  ASSUME TypeOK, NEW a \in Chars, NEW x \in Chars, a # x
  PROVE  /\ GivenRows(a, x) \in [Chars -> Places] /\ GivenSay(a, x) \in [Chars -> Standings]
         /\ \A y \in Chars : GivenSay(a, x)[y].clan = decided[y].clan
         /\ GivenSay(a, x)[x] = Says(Place(decided[x].clan, Master))
         /\ GivenSay(a, x)[a] = [clan |-> decided[a].clan, leads |-> FALSE]
         /\ \A y \in Chars \ {a, x} : GivenSay(a, x)[y] = decided[y]
<1> DEFINE r0 == [row EXCEPT ![x].rank = Master]
           r == [r0 EXCEPT ![a].rank = ExMaster]
           new == Says(Place(decided[x].clan, Master))
           d0 == [decided EXCEPT ![x] = new]
           d == [d0 EXCEPT ![a].leads = FALSE]
<1>1. r0 \in [Chars -> Places]
  <2>1. row \in [Chars -> Places] /\ Master \in 0..Master
    BY Ranks DEF TypeOK
  <2> QED BY <2>1, NewRank
<1>2. r \in [Chars -> Places]
  <2> HIDE DEF r0
  <2> QED BY <1>1, Ranks, NewRank
<1>3. GivenRows(a, x) = r
  BY DEF GivenRows
<1>4. decided \in [Chars -> Standings] /\ \A s \in Standings : s.clan \in Clans \cup {NoClan}
  BY DEF TypeOK, Standings
<1>5. decided[x].clan \in Clans \cup {NoClan} /\ decided[a].clan \in Clans \cup {NoClan}
  BY <1>4
<1>6. new \in Standings /\ new.clan = decided[x].clan
  <2>1. Place(decided[x].clan, Master) \in Places /\ Place(decided[x].clan, Master).clan = decided[x].clan
    BY <1>5, PlaceFacts, Ranks
  <2> QED BY <2>1, SaysFacts
<1>7. GivenSay(a, x) = d
  BY DEF GivenSay
<1> HIDE DEF new
<1>8. d0 \in [Chars -> Standings] /\ d0[x] = new /\ \A y \in Chars \ {x} : d0[y] = decided[y]
  BY <1>4, <1>6
<1> HIDE DEF d0
<1>9. [d0[a] EXCEPT !.leads = FALSE] = [clan |-> decided[a].clan, leads |-> FALSE]
  <2>1. \A v : \A s \in Standings : [s EXCEPT !.leads = v] = [clan |-> s.clan, leads |-> v]
    BY DEF Standings
  <2>2. d0[a] = decided[a] /\ decided[a] \in Standings
    BY <1>4, <1>8
  <2> QED BY <2>1, <2>2
<1>10. d[a] = [clan |-> decided[a].clan, leads |-> FALSE] /\ \A y \in Chars \ {a} : d[y] = d0[y]
  BY <1>8, <1>9
<1>11. [clan |-> decided[a].clan, leads |-> FALSE] \in Standings
  BY <1>5 DEF Standings
<1>12. d \in [Chars -> Standings]
  BY <1>8, <1>9, <1>11
<1> HIDE DEF d, r
<1>13. d[x] = new /\ \A y \in Chars \ {a, x} : d[y] = decided[y]
  BY <1>8, <1>10
<1>14. \A y \in Chars : d[y].clan = decided[y].clan
  BY <1>6, <1>10, <1>13
<1> QED BY <1>2, <1>3, <1>7, <1>10, <1>12, <1>13, <1>14 DEF new

\* GiveMaster by its parts.
LEMMA GivesBy ==
  ASSUME NEW a \in Chars, NEW x \in Chars, GiveMaster(a, x)
  PROVE  /\ a \in online /\ a # x
         /\ Ranked(entry[a].clan, GivenEntries(a, x), GivenRows(a, x), GivenSay(a, x),
                   GivenTold(a, x), missed \cup Untold({a, x}), {})
         /\ usurped' = IF Usurps(a, x) THEN usurped \cup {decided[x].clan} ELSE usurped
BY DEF GiveMaster, GivenEntries, GivenRows, GivenSay, GivenTold

LEMMA GivenTypes ==
  ASSUME TypeOK, NEW a \in Chars, NEW x \in Chars
  PROVE  /\ GivenEntries(a, x) \in [Chars -> Places]
         /\ Place(NoClan, Master) \in Places /\ Place(NoClan, ExMaster) \in Places
         /\ toWorld \o Told(x, Place(NoClan, Master), "rank") \in Seq(Notices)
         /\ toWorld \o GivenTold(a, x) =
              (toWorld \o Told(x, Place(NoClan, Master), "rank"))
                \o Told(a, Place(NoClan, ExMaster), "rank")
         /\ toWorld \o GivenTold(a, x) \in Seq(Notices)
<1> DEFINE t == Told(x, Place(NoClan, Master), "rank")
           u == Told(a, Place(NoClan, ExMaster), "rank")
<1>1. Place(NoClan, Master) \in Places /\ Place(NoClan, ExMaster) \in Places
  BY PlaceFacts, Ranks
<1>2. toWorld \in Seq(Notices)
  BY DEF TypeOK
<1>3. t \in Seq(Notices) /\ toWorld \o t \in Seq(Notices)
  BY <1>1, <1>2, ToldFacts
<1>4. u \in Seq(Notices)
  BY <1>1, <1>2, ToldFacts
<1>5. (toWorld \o t) \o u \in Seq(Notices)
  <2> HIDE DEF t
  <2> QED BY <1>1, <1>3, ToldFacts
<1>6. toWorld \o GivenTold(a, x) = toWorld \o (t \o u)
  BY DEF GivenTold
<1> HIDE DEF t, u
<1>7. (toWorld \o t) \o u = toWorld \o (t \o u)
  BY <1>2, <1>3, <1>4, ConcatAssociative
<1>8. GivenEntries(a, x) \in [Chars -> Places]
  <2>1. \A y \in Chars : entry[y] \in Places /\ entry[y].clan \in Clans \cup {NoClan}
    BY PlaceFacts DEF TypeOK
  <2>2. Place(entry[a].clan, ExMaster) \in Places /\ Place(entry[x].clan, Master) \in Places
    BY <2>1, PlaceFacts, Ranks
  <2> QED BY <2>1, <2>2 DEF GivenEntries
<1> QED BY <1>1, <1>3, <1>5, <1>6, <1>7, <1>8 DEF t, u

LEMMA TypeRanks ==
  ASSUME TypeOK, NEW a \in Chars, NEW x \in Chars, Promote(a, x) \/ Demote(a, x) \/ GiveMaster(a, x)
  PROVE  TypeOK'
<1>1. entry[a].clan \in Clans \cup {NoClan} /\ usurped \in SUBSET Clans /\ missed \in SUBSET Chars
  BY PlaceFacts DEF TypeOK
<1>2. missed \cup Untold({x}) \in SUBSET Chars /\ missed \cup Untold({a, x}) \in SUBSET Chars
  <2>1. Untold({x}) \in SUBSET Chars /\ Untold({a, x}) \in SUBSET Chars
    BY SomeChars
  <2> QED BY <1>1, <2>1
<1>3. CASE Promote(a, x) \/ Demote(a, x)
  <2>1. PICK new, e, d : Reranked(a, x, new, e, d)
    BY <1>3, PromoteDoes, DemoteDoes
  <2> DEFINE r == [row EXCEPT ![x].rank = new]
             told == Told(x, Place(NoClan, new), "rank")
  <2>2. /\ new \in 0..Master /\ e \in [Chars -> Places] /\ d \in [Chars -> Standings]
        /\ Ranked(entry[a].clan, e, r, d, told, missed \cup Untold({x}), {x} \ online)
        /\ usurped' \in SUBSET Clans
    BY <1>1, <2>1 DEF Reranked
  <2>3. r \in [Chars -> Places]
    BY <2>2, NewRank DEF TypeOK
  <2>4. Place(NoClan, new) \in Places
    BY <2>2, PlaceFacts
  <2>5. toWorld \o told \in Seq(Notices)
    BY <2>4, ToldFacts DEF TypeOK
  <2> HIDE DEF r, told
  <2> QED BY <1>1, <1>2, <2>2, <2>3, <2>5, RankedType
<1>4. CASE GiveMaster(a, x)
  <2>1. /\ a # x
        /\ Ranked(entry[a].clan, GivenEntries(a, x), GivenRows(a, x), GivenSay(a, x),
                  GivenTold(a, x), missed \cup Untold({a, x}), {})
        /\ usurped' = IF Usurps(a, x) THEN usurped \cup {decided[x].clan} ELSE usurped
    BY <1>4, GivesBy
  <2>2. usurped' \in SUBSET Clans
    <3>1. Usurps(a, x) => decided[x].clan \in Clans
      BY DEF Usurps, TypeOK
    <3> QED BY <1>1, <2>1, <3>1
  <2>3. GivenRows(a, x) \in [Chars -> Places] /\ GivenSay(a, x) \in [Chars -> Standings]
    BY <2>1, GivesFacts
  <2>4. GivenEntries(a, x) \in [Chars -> Places] /\ toWorld \o GivenTold(a, x) \in Seq(Notices)
    BY GivenTypes
  <2> QED BY <1>1, <1>2, <2>1, <2>2, <2>3, <2>4, RankedType
<1> QED BY <1>3, <1>4

LEMMA HandledIs ==
  ASSUME TypeOK, Notice
  PROVE  /\ toWorld # <<>> /\ toWorld' = Tail(toWorld) /\ Head(toWorld) \in Notices
         /\ Head(toWorld).who \in Chars
         /\ \A y \in Chars : player'[y] = IF y = Head(toWorld).who /\ y \in inWorld
                                          THEN Handled(Head(toWorld), inTable, player[y]) ELSE player[y]
         /\ \A p \in Places : Handled(Head(toWorld), inTable, p) \in Places
         /\ player' \in [Chars -> Places]
         /\ missed' = StillExposed(missed, inWorld, Tail(toWorld))
         /\ UNCHANGED <<table, charSide, inWorld, toChar, crashes, decided, usurped, drifted>>
<1> DEFINE n == Head(toWorld)
<1>1. /\ toWorld # <<>> /\ toWorld' = Tail(toWorld)
      /\ missed' = StillExposed(missed, inWorld, Tail(toWorld))
         /\ UNCHANGED <<table, charSide, inWorld, toChar, crashes, decided, usurped, drifted>>
  BY DEF Notice
<1>2. n \in Notices
  BY <1>1, HeadTailProperties DEF TypeOK
<1>3. player' = IF n.who \notin inWorld \/ (n.kind = "joined" /\ n.to.clan \notin inTable)
                THEN player
                ELSE [player EXCEPT ![n.who] = IF n.kind = "rank" THEN Place(@.clan, n.to.rank) ELSE n.to]
  BY DEF Notice
<1> HIDE DEF n
<1>4. n.who \in Chars /\ n.to \in Places /\ n.kind \in {"joined", "out", "rank"} /\ n.to.rank \in 0..Master
  BY <1>2, PlaceFacts DEF Notices
<1>5. \A p \in Places : Place(p.clan, n.to.rank) \in Places
  BY <1>4, PlaceFacts
<1>6. \A p \in Places : Handled(n, inTable, p) \in Places
  BY <1>4, <1>5 DEF Handled
<1>7. player \in [Chars -> Places]
  BY DEF TypeOK
<1>8. \A y \in Chars : player'[y] = IF y = n.who /\ y \in inWorld
                                    THEN Handled(n, inTable, player[y]) ELSE player[y]
  <2> TAKE y \in Chars
  <2> DEFINE h == IF n.kind = "rank" THEN Place(player[n.who].clan, n.to.rank) ELSE n.to
  <2>1. CASE n.who \notin inWorld \/ (n.kind = "joined" /\ n.to.clan \notin inTable)
    <3>1. player' = player
      BY <1>3, <2>1
    <3>2. n.who \in inWorld => Handled(n, inTable, player[y]) = player[y]
      BY <2>1 DEF Handled
    <3> QED BY <3>1, <3>2
  <2>2. CASE ~(n.who \notin inWorld \/ (n.kind = "joined" /\ n.to.clan \notin inTable))
    <3>1. player' = [player EXCEPT ![n.who] = h]
      BY <1>3, <2>2
    <3>2. Handled(n, inTable, player[n.who]) = h
      BY <2>2 DEF Handled
    <3> HIDE DEF h
    <3>3. n.who \in inWorld
      BY <2>2
    <3>4. player'[n.who] = h /\ (y # n.who => player'[y] = player[y])
      BY <1>4, <1>7, <3>1
    <3>5. CASE y = n.who
      BY <3>2, <3>3, <3>4, <3>5
    <3>6. CASE y # n.who
      BY <3>4, <3>6
    <3> QED BY <3>5, <3>6
  <2> QED BY <2>1, <2>2
<1>9. player' \in [Chars -> Places]
  BY <1>3, <1>4, <1>5, <1>7
<1> QED BY <1>1, <1>2, <1>4, <1>6, <1>8, <1>9 DEF n

LEMMA TypeRest ==
  ASSUME TypeOK, Notice \/ Crash \/ WorldRestart \/ UNCHANGED vars
  PROVE  TypeOK'
<1>1. CASE Notice
  <2>1. toWorld' \in Seq(Notices)
    BY <1>1, HeadTailProperties DEF Notice, TypeOK
  <2>2. missed' \in SUBSET Chars
    BY <1>1, SomeChars DEF Notice, TypeOK
  <2> QED BY <1>1, <2>1, <2>2, HandledIs DEF TypeOK, table, charSide
<1>2. CASE Crash
  <2>1. Restarted(row, toWorld, decided, missed) /\ UNCHANGED <<table, worldSide, decided, usurped>>
    BY <1>2 DEF Crash
  <2>2. /\ row \in [Chars -> Places] /\ toWorld \in Seq(Notices) /\ missed \in SUBSET Chars
        /\ decided \in [Chars -> Standings] /\ usurped \in SUBSET Clans
    BY DEF TypeOK, Standings
  <2>3. /\ row' = row /\ decided' \in [Chars -> Standings] /\ usurped' \in SUBSET Clans
        /\ UNCHANGED <<inTable, founded, worldSide>>
    BY <2>1, <2>2 DEF table
  <2> QED BY <2>1, <2>2, <2>3, RestartedType
<1>3. CASE WorldRestart
  <2>1. <<>> \in Seq(Notices) /\ Unset \in Places
    BY EmptySeq, PlaceFacts
  <2>2. crashes' \in 0..MaxCrashes
    BY <1>3, ClanAssumption DEF WorldRestart, TypeOK
  <2>3. player' \in [Chars -> Places] /\ toWorld' \in Seq(Notices) /\ inWorld' = {} /\ missed' = {} /\ linked' = TRUE
    BY <1>3, <2>1 DEF WorldRestart
  <2> QED BY <1>3, <2>2, <2>3 DEF WorldRestart, TypeOK, table
<1>4. CASE UNCHANGED vars
  BY <1>4 DEF vars, TypeOK, table, charSide, worldSide, history
<1> QED BY <1>1, <1>2, <1>3, <1>4

LEMMA TypeStep == TypeOK /\ [Next]_vars => TypeOK'
<1> SUFFICES ASSUME TypeOK, [Next]_vars PROVE TypeOK'
  OBVIOUS
<1>1. CASE CharSteps
  <2>1. ASSUME NEW x \in Chars, pakRequestWorld(x) \/ OnClientDisconnect(x) PROVE TypeOK'
    BY <2>1, TypeComing
  <2>2. ASSUME NEW x \in Chars, LeaveClan(x) \/ Disband(x) PROVE TypeOK'
    BY <2>2, TypeLeaving
  <2>3. ASSUME NEW a \in Chars, NEW x \in Chars, Accept(a, x) \/ Kick(a, x) PROVE TypeOK'
    BY <2>3, TypeLeaving
  <2>4. ASSUME NEW a \in Chars, NEW x \in Chars, GiveMaster(a, x) \/ Promote(a, x) \/ Demote(a, x)
        PROVE  TypeOK'
    BY <2>4, TypeRanks
  <2>5. ASSUME NewClan PROVE TypeOK'
    <3>1. \A x \in Chars : TypeOK'
      BY <2>5, TypeComing
    <3>2. Head(toChar).who \in Chars
      <4>1. toChar \in Seq(News) /\ toChar # <<>>
        BY <2>5 DEF NewClan, TypeOK
      <4>2. Head(toChar) \in News
        BY <4>1, HeadTailProperties
      <4> QED BY <4>2 DEF News
    <3> QED BY <3>1, <3>2
  <2> QED BY <1>1, <2>1, <2>2, <2>3, <2>4, <2>5 DEF CharSteps
<1>2. CASE WorldSteps
  BY <1>2, TypeComing, TypeRest DEF WorldSteps
<1>3. CASE Crash \/ WorldRestart \/ UNCHANGED vars
  BY <1>3, TypeRest
<1> QED BY <1>1, <1>2, <1>3 DEF Next

\* Rows, entries, players, lists of members and packets keep their types:
\* ranks stay in 0..Master through every promotion and demotion of copies.
THEOREM RosterTypeCorrect == Spec => []TypeOK
<1>1. Init => TypeOK
  BY TypeInit
<1>2. TypeOK /\ [Next]_vars => TypeOK'
  BY TypeStep
<1> QED BY <1>1, <1>2, PTL DEF Spec


-----------------------------------------------------------------------------
(* The invariant *)

\* News on its way is of a clan the char server does not list yet, whose only
\* member is its founder.  The founder's entry names no clan, or, read from
\* the row since, this one.
NewsRight ==
  /\ \A i \in DOMAIN toChar :
       /\ toChar[i].clan \in inTable \ listed
       /\ decided[toChar[i].who].clan = toChar[i].clan
       /\ toChar[i].who \in online => entry[toChar[i].who].clan \in {NoClan, toChar[i].clan}
       /\ \A x \in Chars : decided[x].clan = toChar[i].clan => x = toChar[i].who
  /\ \A i, j \in DOMAIN toChar : toChar[i].clan = toChar[j].clan => i = j

\* By d everybody is in one of the clans ks or in none, and these have one
\* master each, but for those of u.
DecisionsRight(d, u, ks) ==
  /\ \A x \in Chars : d[x].clan \in ks \/ d[x].clan = NoClan
  /\ \A x \in Chars : d[x].leads => d[x].clan # NoClan
  /\ \A x, y \in Chars : d[x].leads /\ d[y] = d[x] /\ d[x].clan \notin u => x = y

\* Clans are numbered in their order; the char server lists those of the table
\* it has heard of.
ClansRight ==
  /\ \A k \in inTable : k <= founded
  /\ \A k \in inTable : k \in listed \/ \E i \in DOMAIN toChar : toChar[i].clan = k
  /\ listed \subseteq inTable
  /\ DecisionsRight(decided, usurped, inTable)

EntriesFollow == \A x \in online : Says(entry[x]) = decided[x] \/ Founding(x)

MembersRight ==
  \A k \in listed :
    /\ Once(members[k])
    /\ \A x \in Chars : x \in ToSet(members[k]) <=> decided[x].clan = k

\* The notices tw fit what d says, and so do the players p of those who are
\* there, but for the characters ms.
Agreed(tw, d, ms, there, p) ==
  /\ JoinsSome(tw)
  /\ \A x \in Chars \ ms : Following(tw, d[x], x)
  /\ \A x \in there \ ms : Current(tw, d[x], p[x], x)

Fits == Agreed(toWorld, decided, missed, inWorld, player)

Right == NewsRight /\ ClansRight /\ EntriesFollow /\ MembersRight /\ Fits

IInv == TypeOK /\ (drifted \/ Right)

-----------------------------------------------------------------------------
(* Telling the world server *)

LEMMA JoinsSent ==
  ASSUME NEW tw \in Seq(Notices), NEW n \in Notices, JoinsSome(tw),
         n.kind = "joined" => n.to.clan # NoClan
  PROVE  JoinsSome(Append(tw, n))
<1> DEFINE w == Append(tw, n)
<1>1. /\ Len(tw) \in Nat /\ DOMAIN tw = 1..Len(tw) /\ DOMAIN w = 1..Len(tw) + 1
      /\ \A i \in 1..Len(tw) : w[i] = tw[i]
      /\ w[Len(tw) + 1] = n
  BY AppendFacts
<1> HIDE DEF w
<1>2. JoinsSome(w)
  BY <1>1 DEF JoinsSome
<1> QED BY <1>2 DEF w

\* Nobody but x may have been decided about anew.
OnlyOf(x, d, d2) == \A y \in Chars \ {x} : d2[y] = d[y]

\* Nobody is told of x, whom the world server has nothing of, or who is missed.
LEMMA NotTold ==
  ASSUME NEW tw \in Seq(Notices), NEW d, NEW d2, NEW ms, NEW ms2, ms \subseteq ms2, NEW x \in Chars,
         NEW there \in SUBSET Chars, NEW p,
         Agreed(tw, d, ms, there, p), OnlyOf(x, d, d2),
         x \in ms2 \/ (x \notin there /\ ~About(x, tw))
  PROVE  Agreed(tw, d2, ms2, there, p)
<1>1. JoinsSome(tw) /\ \A y \in Chars \ ms2 : y \in Chars \ ms
  BY DEF Agreed
<1>2. ASSUME NEW y \in Chars \ ms2 PROVE Following(tw, d2[y], y)
  <2>1. CASE y # x
    BY <1>1, <2>1 DEF Agreed, OnlyOf
  <2>2. CASE y = x
    <3>1. \A i \in DOMAIN tw : tw[i].who # y
      BY <2>2 DEF About
    <3> QED BY <3>1, NothingSent
  <2> QED BY <2>1, <2>2
<1>3. ASSUME NEW y \in there \ ms2 PROVE Current(tw, d2[y], p[y], y)
  BY <1>1, <1>3 DEF Agreed, OnlyOf
<1> QED BY <1>1, <1>2, <1>3 DEF Agreed

\* A notice to x about its clan, if the world server gets it.
LEMMA TellClan ==
  ASSUME NEW tw \in Seq(Notices), NEW d, NEW d2, NEW ms, NEW ms2, ms \subseteq ms2, NEW x \in Chars,
         NEW place \in Places, NEW kind \in {"joined", "out"}, kind = "joined" => place.clan # NoClan,
         NEW there \in SUBSET Chars, NEW p,
         Agreed(tw, d, ms, there, p), \A y \in Chars \ {x} : d2[y] = d[y], d2[x] = Says(place),
         x \in ms2 \/ (x \in online /\ linked) \/ (x \notin there /\ ~About(x, tw))
  PROVE  Agreed(tw \o Told(x, place, kind), d2, ms2, there, p)
<1>4. x \in ms2 \/ (x \notin there /\ ~About(x, tw)) => Agreed(tw, d2, ms2, there, p)
  <2>1. OnlyOf(x, d, d2)
    BY DEF OnlyOf
  <2> QED BY <2>1, NotTold
<1> DEFINE n == Note(x, place, kind)
<1>1. /\ n \in Notices /\ n.who = x /\ n.to = place /\ n.kind = kind /\ kind # "rank"
      /\ x \in online /\ linked => tw \o Told(x, place, kind) = Append(tw, n)
      /\ ~(x \in online /\ linked) => tw \o Told(x, place, kind) = tw
  BY ToldFacts
<1> HIDE DEF n
<1>2. CASE x \in online /\ linked
  <2> DEFINE w == Append(tw, n)
  <2>1. JoinsSome(w)
    BY <1>1, JoinsSent DEF Agreed
  <2>2. Following(w, d2[x], x) /\ \A q : Current(w, d2[x], q, x)
    BY <1>1, ClanSent
  <2>3. \A y \in Chars \ {x} : \A q : /\ Following(tw, d[y], y) => Following(w, d2[y], y)
                                      /\ Current(tw, d[y], q, y) => Current(w, d2[y], q, y)
    BY <1>1, OtherSent
  <2> HIDE DEF w
  <2>4. Agreed(w, d2, ms2, there, p)
    BY <2>1, <2>2, <2>3 DEF Agreed
  <2> QED BY <1>1, <1>2, <2>4 DEF w
<1>3. CASE ~(x \in online /\ linked)
  BY <1>1, <1>3, <1>4
<1> QED BY <1>2, <1>3

\* A notice to x about its rank, if the world server gets it.
LEMMA TellRank ==
  ASSUME NEW tw \in Seq(Notices), NEW d, NEW d2, NEW ms, NEW ms2, ms \subseteq ms2, NEW x \in Chars,
         NEW r \in 0..Master, NEW there \in SUBSET Chars, NEW p,
         Agreed(tw, d, ms, there, p), \A y \in Chars \ {x} : d2[y] = d[y], d2[x].clan = d[x].clan,
         x \in online => d2[x] = Says(Place(d2[x].clan, r)),
         x \in ms2 \/ (x \in online /\ linked) \/ (x \notin there /\ ~About(x, tw))
  PROVE  Agreed(tw \o Told(x, Place(NoClan, r), "rank"), d2, ms2, there, p)
<1>4. x \in ms2 \/ (x \notin there /\ ~About(x, tw)) => Agreed(tw, d2, ms2, there, p)
  <2>1. OnlyOf(x, d, d2)
    BY DEF OnlyOf
  <2> QED BY <2>1, NotTold
<1> DEFINE n == Note(x, Place(NoClan, r), "rank")
<1>0. Place(NoClan, r) \in Places /\ Place(NoClan, r).rank = r
  BY PlaceFacts
<1>1. /\ n \in Notices /\ n.who = x /\ n.to.rank = r /\ n.kind = "rank"
      /\ x \in online /\ linked => tw \o Told(x, Place(NoClan, r), "rank") = Append(tw, n)
      /\ ~(x \in online /\ linked) => tw \o Told(x, Place(NoClan, r), "rank") = tw
  BY <1>0, ToldFacts
<1> HIDE DEF n
<1>2. CASE x \in online /\ linked
  <2> DEFINE w == Append(tw, n)
  <2>1. JoinsSome(w)
    BY <1>1, JoinsSent DEF Agreed
  <2>2. /\ Following(tw, d[x], x) => Following(w, d2[x], x)
        /\ \A q : Current(tw, d[x], q, x) => Current(w, d2[x], q, x)
    BY <1>1, <1>2, RankSent
  <2>3. \A y \in Chars \ {x} : \A q : /\ Following(tw, d[y], y) => Following(w, d2[y], y)
                                      /\ Current(tw, d[y], q, y) => Current(w, d2[y], q, y)
    BY <1>1, OtherSent
  <2> HIDE DEF w
  <2>4. Agreed(w, d2, ms2, there, p)
    BY <2>1, <2>2, <2>3 DEF Agreed
  <2> QED BY <1>1, <1>2, <2>4 DEF w
<1>3. CASE ~(x \in online /\ linked)
  BY <1>1, <1>3, <1>4
<1> QED BY <1>2, <1>3

\* Whoever is not told of by Untold needs not be.
LEMMA UntoldEnough ==
  ASSUME NEW xs, NEW x \in xs
  PROVE  x \in missed \cup Untold(xs) \/ (x \in online /\ linked) \/ (x \notin inWorld /\ ~About(x, toWorld))
BY DEF Untold, Exposed, Notified

\* Notices are lost from some one on.
LEMMA Cut ==
  ASSUME NEW q \in Seq(Notices), NEW n \in 0..Len(q), NEW d, NEW ms, NEW there \in SUBSET Chars, NEW p,
         Agreed(q, d, ms, there, p)
  PROVE  Agreed(SubSeq(q, 1, n), d, ms \cup {q[i].who : i \in n+1..Len(q)}, there, p)
<1> DEFINE w == SubSeq(q, 1, n)
           lost == {q[i].who : i \in n+1..Len(q)}
<1>1. /\ w \in Seq(Notices) /\ DOMAIN w = 1..n /\ \A i \in 1..n : w[i] = q[i]
      /\ Len(q) \in Nat /\ DOMAIN q = 1..Len(q) /\ n \in Nat /\ n <= Len(q)
  BY FirstOnes
<1>2. \A x : x \notin lost => \A i \in DOMAIN q : q[i].who = x => i \in 1..n
  BY <1>1
<1> HIDE DEF w, lost
<1>3. \A i \in 1..n : i \in DOMAIN q
  BY <1>1
<1>4. JoinsSome(w)
  BY <1>1, <1>3 DEF Agreed, JoinsSome
<1>5. ASSUME NEW x, x \notin lost, NEW i \in 0..n
      PROVE  /\ LastAbout(w, i, x) => LastAbout(q, i, x)
             /\ OnlyRanks(w, i, x) => OnlyRanks(q, i, x)
  <2>1. \A j \in DOMAIN q : q[j].who = x => j \in DOMAIN w /\ w[j] = q[j]
    BY <1>1, <1>2, <1>5
  <2> QED BY <2>1 DEF LastAbout, OnlyRanks
<1>6. ASSUME NEW x \in Chars \ (ms \cup lost) PROVE Following(w, d[x], x)
  <2> SUFFICES ASSUME NEW i \in DOMAIN w, w[i].who = x
               PROVE  /\ LastAbout(w, i, x) => Told_(w[i], d[x]) = d[x]
                      /\ w[i].kind # "rank" /\ OnlyRanks(w, i, x) => w[i].to.clan = d[x].clan
    BY DEF Following
  <2>1. i \in 0..n /\ i \in DOMAIN q /\ w[i] = q[i]
    BY <1>1, <1>3
  <2>2. Following(q, d[x], x)
    BY DEF Agreed
  <2>3. /\ LastAbout(w, i, x) => LastAbout(q, i, x)
        /\ OnlyRanks(w, i, x) => OnlyRanks(q, i, x)
    BY <1>5, <2>1
  <2> QED BY <2>1, <2>2, <2>3 DEF Following
<1>7. ASSUME NEW x \in there \ (ms \cup lost) PROVE Current(w, d[x], p[x], x)
  <2>1. Current(q, d[x], p[x], x)
    BY DEF Agreed
  <2>2. /\ LastAbout(w, 0, x) => LastAbout(q, 0, x)
        /\ OnlyRanks(w, 0, x) => OnlyRanks(q, 0, x)
    BY <1>1, <1>5
  <2> QED BY <2>1, <2>2 DEF Current
<1> QED BY <1>4, <1>6, <1>7 DEF Agreed, w, lost

\* Whom the world server has nothing old about any more can be forgotten.
LEMMA Still ==
  ASSUME NEW q \in Seq(Notices), NEW d, NEW ms, NEW there \in SUBSET Chars, NEW p,
         Agreed(q, d, ms, there, p)
  PROVE  Agreed(q, d, StillExposed(ms, there, q), there, p)
<1> DEFINE still == StillExposed(ms, there, q)
<1>1. \A x \in ms : x \in still \/ (x \notin there /\ \A i \in DOMAIN q : q[i].who # x)
  BY DEF StillExposed, About
<1> HIDE DEF still
<1>2. ASSUME NEW x \in Chars \ still PROVE Following(q, d[x], x)
  <2>1. CASE x \in ms
    BY <1>1, <2>1, NothingSent
  <2>2. CASE x \notin ms
    BY <2>2 DEF Agreed
  <2> QED BY <2>1, <2>2
<1>3. ASSUME NEW x \in there \ still PROVE Current(q, d[x], p[x], x)
  BY <1>1 DEF Agreed
<1> QED BY <1>2, <1>3 DEF Agreed, still

-----------------------------------------------------------------------------
(* What the invariant says of one character *)

LEMMA NotFounding ==
  ASSUME TypeOK, Right, NEW x \in Chars, decided[x].clan \in listed \/ decided[x].clan = NoClan
  PROVE  ~Founding(x)
BY Ranks DEF Right, NewsRight, Founding, About, TypeOK

\* Whoever shows a listed clan in its entry is in it.
LEMMA InItsClan ==
  ASSUME TypeOK, Right, NEW x \in online, entry[x].clan \in listed
  PROVE  ~Founding(x) /\ Says(entry[x]) = decided[x] /\ decided[x].clan = entry[x].clan
<1>1. x \in Chars /\ entry[x].clan # NoClan
  BY Ranks DEF TypeOK
<1>2. ~Founding(x)
  BY <1>1 DEF Right, NewsRight, Founding, About
<1>3. Says(entry[x]) = decided[x]
  BY <1>2 DEF Right, EntriesFollow
<1>4. decided[x].clan = entry[x].clan
  BY <1>3, SaysFacts
<1> QED BY <1>2, <1>3, <1>4

\* Decisions of the char server: about nobody whose news is on its way, but to
\* change its rank.
LEMMA Decides ==
  ASSUME TypeOK, Right, UNCHANGED <<inTable, founded, online, listed, toChar>>,
         \A y \in Chars : \/ decided'[y].clan = decided[y].clan
                          \/ (decided'[y].clan \in listed \/ decided'[y].clan = NoClan) /\ ~Founding(y),
         \A y \in Chars : entry'[y].clan = entry[y].clan \/ ~Founding(y),
         DecisionsRight(decided', usurped', inTable)
  PROVE  NewsRight' /\ ClansRight'
<1>1. NoClan \notin listed /\ NoClan \notin inTable
  BY Ranks DEF TypeOK
<1>2. \A i \in DOMAIN toChar : toChar[i].who \in Chars /\ Founding(toChar[i].who)
  <2>1. \A i \in DOMAIN toChar : toChar[i] \in News
    BY DEF TypeOK
  <2> QED BY <2>1 DEF Founding, About, News
<1>3. NewsRight'
  BY <1>1, <1>2 DEF Right, NewsRight
<1>4. ClansRight'
  BY DEF Right, ClansRight
<1> QED BY <1>3, <1>4

\* One decision that makes nobody a master leaves the masters alone.
LEMMA NoNewMaster ==
  ASSUME NEW u, NEW ks, DecisionsRight(decided, u, ks), NEW x \in Chars, NEW d,
         \A y \in Chars \ {x} : d[y] = decided[y],
         d[x].clan \in ks \/ d[x].clan = NoClan,
         d[x].leads => d[x] = decided[x]
  PROVE  DecisionsRight(d, u, ks)
<1>1. \A y \in Chars : d[y].leads => d[y] = decided[y]
  OBVIOUS
<1>2. \A y, z \in Chars : d[y].leads /\ d[z] = d[y] => d[z] = decided[z] /\ d[y] = decided[y]
  BY <1>1
<1>3. \A y, z \in Chars : d[y].leads /\ d[z] = d[y] /\ d[y].clan \notin u => y = z
  BY <1>2 DEF DecisionsRight
<1>4. \A y \in Chars : d[y].clan \in ks \/ d[y].clan = NoClan
  BY DEF DecisionsRight
<1>5. \A y \in Chars : d[y].leads => d[y].clan # NoClan
  BY <1>1 DEF DecisionsRight
<1> QED BY <1>3, <1>4, <1>5 DEF DecisionsRight

-----------------------------------------------------------------------------
(* Steps of coming and going keep the invariant *)

LEMMA ComesOnline ==
  ASSUME TypeOK, TypeOK', Right, ~drifted', NEW x \in Chars, pakRequestWorld(x)
  PROVE  Right'
<1>1. /\ online' = online \cup {x} /\ entry' = [entry EXCEPT ![x] = row[x]]
      /\ UNCHANGED <<row, inTable, founded, listed, members, inWorld, player, toWorld, toChar,
                     decided, missed, usurped>>
  BY DEF pakRequestWorld, table, worldSide
<1>2. Says(row[x]) = decided[x]
  <2>1. RowsRead(row, {x}, decided)
    BY DEF pakRequestWorld
  <2>2. RowsSay(row, {x}, decided)
    BY <2>1, ReadFacts DEF TypeOK
  <2> QED BY <2>2 DEF RowsSay
<1>3. row[x].clan = decided[x].clan
  BY <1>2, SaysFacts
<1>4. /\ entry'[x] = row[x] /\ \A y \in Chars \ {x} : entry'[y] = entry[y]
  BY <1>1 DEF TypeOK
<1>5. NewsRight'
  <2>1. \A i \in DOMAIN toChar : toChar[i] \in News
    BY DEF TypeOK
  <2>2. \A i \in DOMAIN toChar : toChar[i].who \in Chars
    BY <2>1 DEF News
  <2>3. ASSUME NEW i \in DOMAIN toChar, toChar[i].who \in online'
        PROVE  entry'[toChar[i].who].clan \in {NoClan, toChar[i].clan}
    <3>1. CASE toChar[i].who = x
      BY <1>3, <1>4, <3>1 DEF Right, NewsRight
    <3>2. CASE toChar[i].who # x
      BY <1>1, <1>4, <2>2, <2>3, <3>2 DEF Right, NewsRight
    <3> QED BY <3>1, <3>2
  <2> QED BY <1>1, <2>3 DEF Right, NewsRight
<1>6. ClansRight' /\ MembersRight' /\ Fits'
  BY <1>1 DEF Right, ClansRight, MembersRight, Fits
<1>7. EntriesFollow'
  <2>1. online \subseteq Chars
    BY DEF TypeOK
  <2> QED BY <1>1, <1>2, <1>4, <2>1 DEF Right, EntriesFollow, Founding
<1> QED BY <1>5, <1>6, <1>7 DEF Right

LEMMA EntersWorld ==
  ASSUME TypeOK, TypeOK', Right, ~drifted', NEW x \in Chars, loaddata(x)
  PROVE  Right'
<1> DEFINE p == IF row[x].clan \in inTable THEN row[x] ELSE Place(NoClan, row[x].rank)
<1>1. /\ x \notin inWorld /\ inWorld' = inWorld \cup {x}
      /\ player' = [player EXCEPT ![x] = p]
      /\ UNCHANGED <<row, inTable, founded, online, entry, listed, members, toWorld, toChar,
                     decided, missed, usurped>>
  BY DEF loaddata, table, charSide
<1>2. Says(row[x]) = decided[x]
  <2>1. RowsRead(row, {x}, decided)
    BY DEF loaddata
  <2>2. RowsSay(row, {x}, decided)
    BY <2>1, ReadFacts DEF TypeOK
  <2> QED BY <2>2 DEF RowsSay
<1>3. Says(p) = decided[x]
  <2>1. decided[x].clan = row[x].clan
    BY <1>2, SaysFacts
  <2>2. CASE row[x].clan \in inTable
    BY <1>2, <2>2
  <2>3. CASE row[x].clan \notin inTable
    <3>1. decided[x].clan = NoClan
      BY <2>1, <2>3 DEF Right, ClansRight, DecisionsRight
    <3>2. row[x].rank \in 0..Master
      BY PlaceFacts DEF TypeOK
    <3>3. p.clan = NoClan
      BY <2>3, <3>2, PlaceFacts
    <3> HIDE DEF p
    <3>4. Says(row[x]) = Says(Outside) /\ Says(p) = Says(Outside)
      BY <2>1, <3>1, <3>3, SaysFacts
    <3> QED BY <1>2, <3>4
  <2> QED BY <2>2, <2>3
<1> HIDE DEF p
<1>4. player'[x] = p /\ \A y \in Chars \ {x} : player'[y] = player[y]
  BY <1>1 DEF TypeOK
<1>5. NewsRight' /\ ClansRight' /\ EntriesFollow' /\ MembersRight'
  BY <1>1 DEF Right, NewsRight, ClansRight, EntriesFollow, Founding, MembersRight
<1>6. Fits'
  <2>1. Current(toWorld, decided[x], p, x)
    <3>1. p.clan = decided[x].clan
      BY <1>3, SaysFacts
    <3> QED BY <1>3, <3>1 DEF Current
  <2>2. inWorld \subseteq Chars
    BY DEF TypeOK
  <2> QED BY <1>1, <1>4, <2>1, <2>2 DEF Right, Fits, Agreed
<1> QED BY <1>5, <1>6 DEF Right

\* Rows change, and nothing that is decided by them.
LEMMA RowsOnly ==
  ASSUME Right, UNCHANGED <<inTable, founded, charSide, worldSide, toWorld, toChar,
                            decided, missed, usurped>>
  PROVE  Right'
<1>1. UNCHANGED <<online, entry, listed, members, inWorld, player>>
  BY DEF charSide, worldSide
<1>2. NewsRight' /\ ClansRight'
  BY <1>1 DEF Right, NewsRight, ClansRight
<1>3. EntriesFollow' /\ MembersRight' /\ Fits'
  BY <1>1 DEF Right, EntriesFollow, Founding, MembersRight, Fits
<1> QED BY <1>2, <1>3 DEF Right

LEMMA LeavesWorld ==
  ASSUME TypeOK, Right, NEW x \in Chars, LeaveWorld(x)
  PROVE  Right'
<1>1. /\ x \in inWorld /\ inWorld' = inWorld \ {x} /\ player' = [player EXCEPT ![x] = Unset]
      /\ missed' = StillExposed(missed, inWorld', toWorld)
      /\ UNCHANGED <<inTable, founded, online, entry, listed, members, toWorld, toChar, decided, usurped>>
  BY DEF LeaveWorld, charSide
<1>2. NewsRight' /\ ClansRight' /\ EntriesFollow' /\ MembersRight'
  BY <1>1 DEF Right, NewsRight, ClansRight, EntriesFollow, Founding, MembersRight
<1>3. Fits'
  <2>1. Agreed(toWorld, decided, missed, inWorld', player')
    <3>1. \A y \in inWorld' \ missed : y \in inWorld \ missed /\ player'[y] = player[y]
      BY <1>1 DEF TypeOK
    <3> QED BY <3>1 DEF Right, Fits, Agreed
  <2>2. toWorld \in Seq(Notices) /\ inWorld' \in SUBSET Chars
    BY <1>1 DEF TypeOK
  <2>3. Agreed(toWorld, decided, StillExposed(missed, inWorld', toWorld), inWorld', player')
    BY <2>1, <2>2, Still
  <2> QED BY <1>1, <2>3 DEF Fits
<1> QED BY <1>2, <1>3 DEF Right

LEMMA GoesOffline ==
  ASSUME TypeOK, Right, NEW x \in Chars, OnClientDisconnect(x)
  PROVE  Right'
<1>1. /\ x \in online /\ online' = online \ {x} /\ entry' = [entry EXCEPT ![x] = Unset]
      /\ UNCHANGED <<inTable, founded, listed, members, inWorld, player, toWorld, toChar,
                     decided, missed, usurped>>
  BY DEF OnClientDisconnect, table, worldSide, history
<1>2. \A y \in online' : y \in online /\ entry'[y] = entry[y]
  BY <1>1 DEF TypeOK
<1>3. NewsRight' /\ EntriesFollow'
  BY <1>1, <1>2 DEF Right, NewsRight, EntriesFollow, Founding
<1>4. ClansRight' /\ MembersRight' /\ Fits'
  BY <1>1 DEF Right, ClansRight, MembersRight, Fits
<1> QED BY <1>3, <1>4 DEF Right

\* The char server starts again from rows that say what was decided.
LEMMA StartsAgain ==
  ASSUME TypeOK, TypeOK', ~drifted', NEW r \in [Chars -> Places], NEW q \in Seq(Notices), NEW d,
         NEW m \in SUBSET Chars, Restarted(r, q, d, m),
         decided' = d, UNCHANGED <<inTable, founded, inWorld, player>>,
         \A k \in inTable : k <= founded, DecisionsRight(d, usurped', inTable),
         Agreed(q, d, m, inWorld, player)
  PROVE  Right'
<1>1. /\ online' = {} /\ listed' = inTable /\ toChar' = <<>>
      /\ members' = [k \in Clans |-> IF k \in inTable THEN RowsOf(k, r) ELSE <<>>]
  BY DEF Restarted
<1>2. \A y \in Chars : r[y].clan = d[y].clan
  <2>1. RowsRead(r, Chars, d)
    BY DEF Restarted
  <2>2. RowsSay(r, Chars, d)
    BY <2>1, ReadFacts DEF TypeOK
  <2> QED BY <2>2, SaysFacts DEF RowsSay
<1>3. NewsRight' /\ ClansRight' /\ EntriesFollow'
  BY <1>1 DEF NewsRight, ClansRight, EntriesFollow
<1>4. MembersRight'
  <2> SUFFICES ASSUME NEW k \in inTable
               PROVE  /\ Once(members'[k])
                      /\ \A x \in Chars : x \in ToSet(members'[k]) <=> d[x].clan = k
    BY <1>1 DEF MembersRight
  <2>1. members'[k] = RowsOf(k, r)
    BY <1>1 DEF TypeOK
  <2>2. Once(RowsOf(k, r)) /\ ToSet(RowsOf(k, r)) = InClan(k, r)
    BY RowsFacts
  <2> QED BY <1>2, <2>1, <2>2 DEF InClan
<1>5. Fits'
  <2>1. PICK n \in 0..Len(q) :
          /\ toWorld' = SubSeq(q, 1, n)
          /\ missed' = StillExposed(m \cup {q[i].who : i \in n+1..Len(q)}, inWorld, SubSeq(q, 1, n))
    BY DEF Restarted
  <2> DEFINE w == SubSeq(q, 1, n)
             ms == m \cup {q[i].who : i \in n+1..Len(q)}
  <2>2. inWorld \in SUBSET Chars /\ w \in Seq(Notices)
    BY FirstOnes DEF TypeOK
  <2>3. Agreed(w, d, ms, inWorld, player)
    BY <2>2, Cut
  <2>4. toWorld' = w /\ missed' = StillExposed(ms, inWorld, w)
    BY <2>1
  <2> HIDE DEF w, ms
  <2>5. Agreed(w, d, StillExposed(ms, inWorld, w), inWorld, player)
    BY <2>2, <2>3, Still
  <2> QED BY <2>4, <2>5 DEF Fits
<1> QED BY <1>3, <1>4, <1>5 DEF Right

\* The world server starts again, with nobody there and no packets.
LEMMA WorldStartsAgain ==
  ASSUME TypeOK, Right, WorldRestart
  PROVE  Right'
<1>1. /\ inWorld' = {} /\ toWorld' = <<>> /\ missed' = {}
      /\ UNCHANGED <<inTable, founded, online, entry, listed, members, toChar, decided, usurped>>
  BY DEF WorldRestart, table
<1>2. NewsRight' /\ ClansRight' /\ EntriesFollow' /\ MembersRight'
  BY <1>1 DEF Right, NewsRight, ClansRight, EntriesFollow, Founding, MembersRight
<1>3. Fits'
  <2>1. \A x \in Chars : \A e : Following(<<>>, e, x)
    BY DEF Following
  <2> QED BY <1>1, <2>1 DEF Fits, Agreed, JoinsSome
<1> QED BY <1>2, <1>3 DEF Right

\* A notice is handled.
LEMMA HandlesNotice ==
  ASSUME TypeOK, TypeOK', Right, Notice
  PROVE  Right'
<1>1. /\ toWorld # <<>> /\ toWorld' = Tail(toWorld)
      /\ \A y \in Chars : player'[y] = IF y = Head(toWorld).who /\ y \in inWorld
                                       THEN Handled(Head(toWorld), inTable, player[y]) ELSE player[y]
      /\ missed' = StillExposed(missed, inWorld, Tail(toWorld))
      /\ UNCHANGED <<inTable, founded, online, entry, listed, members, inWorld, toChar, decided, usurped>>
  BY HandledIs DEF table, charSide
<1>2. NewsRight' /\ ClansRight' /\ EntriesFollow' /\ MembersRight'
  BY <1>1 DEF Right, NewsRight, ClansRight, EntriesFollow, Founding, MembersRight
<1>3. JoinsSome(toWorld')
  <2>1. JoinsSome(toWorld) /\ toWorld \in Seq(Notices)
    BY DEF Right, Fits, Agreed, TypeOK
  <2>2. \A i \in DOMAIN toWorld' : i + 1 \in DOMAIN toWorld /\ toWorld'[i] = toWorld[i + 1]
    BY <1>1, <2>1, TailFacts
  <2> QED BY <2>1, <2>2 DEF JoinsSome
<1>4. ASSUME NEW y \in Chars \ missed
      PROVE  /\ Following(toWorld', decided[y], y)
             /\ y \in inWorld => Current(toWorld', decided[y], player'[y], y)
  <2>1. /\ toWorld \in Seq(Notices) /\ player[y] \in Places
        /\ decided[y].clan \in inTable \/ decided[y].clan = NoClan
    BY DEF TypeOK, Right, ClansRight, DecisionsRight
  <2>2. /\ JoinsSome(toWorld) /\ Following(toWorld, decided[y], y)
        /\ y \in inWorld => Current(toWorld, decided[y], player[y], y)
    BY <1>4 DEF Right, Fits, Agreed
  <2>3. /\ Following(Tail(toWorld), decided[y], y)
        /\ \A p : Head(toWorld).who # y /\ Current(toWorld, decided[y], p, y) =>
             Current(Tail(toWorld), decided[y], p, y)
        /\ \A p \in Places : Head(toWorld).who = y /\ Current(toWorld, decided[y], p, y) =>
             Current(Tail(toWorld), decided[y], Handled(Head(toWorld), inTable, p), y)
    BY <1>1, <2>1, <2>2, NoticeTaken
  <2>4. CASE Head(toWorld).who = y
    BY <1>1, <2>1, <2>2, <2>3, <2>4
  <2>5. CASE Head(toWorld).who # y
    BY <1>1, <2>1, <2>2, <2>3, <2>5
  <2> QED BY <2>4, <2>5
<1>5. Fits'
  <2>1. toWorld' \in Seq(Notices) /\ inWorld \in SUBSET Chars
    BY DEF TypeOK
  <2>2. Agreed(toWorld', decided, missed, inWorld, player')
    BY <1>3, <1>4, <2>1 DEF Agreed
  <2>3. Agreed(toWorld', decided, StillExposed(missed, inWorld, toWorld'), inWorld, player')
    BY <2>1, <2>2, Still
  <2> QED BY <1>1, <2>3 DEF Fits
<1> QED BY <1>2, <1>5 DEF Right

-----------------------------------------------------------------------------
(* Steps that decide keep the invariant *)

\* A list whose members change by x alone.
LEMMA ListsKept ==
  ASSUME TypeOK, Right, NEW k \in Clans, NEW x \in Chars, NEW s, listed' = listed,
         members' = [members EXCEPT ![k] = s],
         \A y \in Chars \ {x} : decided'[y] = decided[y],
         k \in listed => /\ Once(s)
                         /\ \A y \in Chars : y \in ToSet(s) <=> decided'[y].clan = k,
         \A j \in listed \ {k} : decided'[x].clan = j <=> decided[x].clan = j
  PROVE  MembersRight'
<1> SUFFICES ASSUME NEW j \in listed
             PROVE  /\ Once(members'[j])
                    /\ \A y \in Chars : y \in ToSet(members'[j]) <=> decided'[y].clan = j
  BY DEF MembersRight
<1>1. j \in Clans
  BY DEF TypeOK
<1>2. CASE j = k
  <2>1. members'[k] = s
    BY DEF TypeOK
  <2> QED BY <1>2, <2>1
<1>3. CASE j # k
  <2>1. members'[j] = members[j]
    BY <1>1, <1>3 DEF TypeOK
  <2>2. Once(members[j]) /\ \A y \in Chars : y \in ToSet(members[j]) <=> decided[y].clan = j
    BY DEF Right, MembersRight
  <2>3. \A y \in Chars : decided'[y].clan = j <=> decided[y].clan = j
    BY <1>3
  <2> QED BY <2>1, <2>2, <2>3
<1> QED BY <1>2, <1>3

LEMMA JoinsKeeps ==
  ASSUME TypeOK, TypeOK', Right, ~drifted', NEW a \in Chars, NEW x \in Chars, Accept(a, x)
  PROVE  Right'
<1> DEFINE k == entry[a].clan
           place == Place(k, 1)
<1>1. /\ a \in online /\ x \in online /\ entry' = [entry EXCEPT ![x] = place]
      /\ decided' = Decided(x, place)
      /\ drifted' = (drifted \/ decided[x].clan # NoClan \/ k \notin listed \cup {NoClan})
      /\ UNCHANGED <<inTable, founded, online, listed, inWorld, player, toChar, usurped>>
  BY DEF Accept, worldSide
<1>2. IF k \in listed
      THEN /\ members' = [members EXCEPT ![k] = Append(@, x)]
           /\ toWorld' = toWorld \o Told(x, place, "joined")
           /\ missed' = missed \cup Untold({x})
      ELSE UNCHANGED <<members, toWorld, missed>>
  BY DEF Accept, SendAll
<1>3. decided[x].clan = NoClan /\ (k \in listed \/ k = NoClan)
  BY <1>1
<1>4. ~Founding(x)
  BY <1>3, NotFounding
<1>5. decided[x] = Says(Outside)
  <2>1. Says(entry[x]) = decided[x]
    BY <1>1, <1>4 DEF Right, EntriesFollow
  <2> QED BY <1>3, <2>1, SaysFacts
<1>6. k \in Clans \cup {NoClan} /\ place \in Places /\ place.clan = k /\ place.rank = 1
  <2>1. k \in Clans \cup {NoClan}
    BY PlaceFacts DEF TypeOK
  <2> QED BY <2>1, Ranks, PlaceFacts
<1> HIDE DEF place
<1>7. decided'[x] = Says(place) /\ \A y \in Chars \ {x} : decided'[y] = decided[y]
  BY <1>1, <1>6, DecidedFacts DEF TypeOK, Standings
<1>8. decided'[x].clan = k /\ ~decided'[x].leads
  <2>1. decided'[x].clan = place.clan /\ decided'[x].leads = (place.clan # NoClan /\ place.rank = Master)
    BY <1>7, SaysFacts
  <2>2. place.rank # Master
    BY <1>6, Ranks
  <2> QED BY <1>6, <2>1, <2>2
<1>9. k = NoClan => decided'[x] = decided[x]
  BY <1>5, <1>6, <1>7, SaysFacts
<1>10. entry'[x] = place /\ \A y \in Chars \ {x} : entry'[y] = entry[y]
  BY <1>1 DEF TypeOK
<1> HIDE DEF k
<1>11. NewsRight' /\ ClansRight'
  <2>1. k \in inTable \/ k = NoClan
    BY <1>3 DEF Right, ClansRight
  <2>2. DecisionsRight(decided, usurped, inTable)
    BY DEF Right, ClansRight
  <2>3. decided'[x].leads => decided'[x] = decided[x]
    BY <1>8
  <2>4. DecisionsRight(decided', usurped, inTable)
    BY <1>7, <1>8, <2>1, <2>2, <2>3, NoNewMaster
  <2>5. \A y \in Chars : \/ decided'[y].clan = decided[y].clan
                         \/ (decided'[y].clan \in listed \/ decided'[y].clan = NoClan) /\ ~Founding(y)
    BY <1>3, <1>4, <1>7, <1>8
  <2>6. \A y \in Chars : entry'[y].clan = entry[y].clan \/ ~Founding(y)
    BY <1>4, <1>10
  <2>7. DecisionsRight(decided', usurped', inTable)
    BY <1>1, <2>4
  <2> QED BY <1>1, <2>5, <2>6, <2>7, Decides
<1>12. EntriesFollow'
  <2>1. online \subseteq Chars
    BY DEF TypeOK
  <2> QED BY <1>1, <1>7, <1>10, <2>1 DEF Right, EntriesFollow, Founding
<1>13. CASE k = NoClan
  <2>1. \A y \in Chars : decided'[y] = decided[y]
    BY <1>7, <1>9, <1>13
  <2>2. decided' = decided
    BY <2>1 DEF TypeOK
  <2>3. UNCHANGED <<members, toWorld, missed>>
    BY <1>2, <1>13, Ranks DEF TypeOK
  <2>4. MembersRight' /\ Fits'
    BY <1>1, <2>2, <2>3 DEF Right, MembersRight, Fits
  <2> QED BY <1>11, <1>12, <2>4 DEF Right
<1>14. CASE k \in listed
  <2>1. members[k] \in Seq(Chars) /\ k \in Clans /\ k # NoClan
    BY <1>14, Ranks DEF TypeOK
  <2>2. Once(members[k]) /\ \A y \in Chars : y \in ToSet(members[k]) <=> decided[y].clan = k
    BY <1>14 DEF Right, MembersRight
  <2> DEFINE s == Append(members[k], x)
  <2>3. Once(s) /\ ToSet(s) = ToSet(members[k]) \cup {x}
    BY <1>3, <2>1, <2>2, PutIn
  <2>4. members' = [members EXCEPT ![k] = s] /\ listed' = listed
    BY <1>1, <1>2, <1>14
  <2> HIDE DEF s
  <2>5. \A y \in Chars : y \in ToSet(s) <=> decided'[y].clan = k
    BY <1>7, <1>8, <2>2, <2>3
  <2>6. /\ \A y \in Chars \ {x} : decided'[y] = decided[y]
        /\ k \in listed => Once(s) /\ \A y \in Chars : y \in ToSet(s) <=> decided'[y].clan = k
        /\ \A j \in listed \ {k} : decided'[x].clan = j <=> decided[x].clan = j
    BY <1>3, <1>7, <1>8, <2>3, <2>5, Ranks DEF TypeOK
  <2>7. MembersRight'
    BY ONLY TypeOK, Right, x \in Chars, <2>1, <2>4, <2>6, ListsKept
  <2>8. Fits'
    <3>1. Agreed(toWorld, decided, missed, inWorld, player) /\ toWorld \in Seq(Notices)
          /\ inWorld \in SUBSET Chars /\ missed \subseteq missed \cup Untold({x})
      BY DEF TypeOK, Right, Fits
    <3>2. x \in missed \cup Untold({x}) \/ (x \in online /\ linked) \/ (x \notin inWorld /\ ~About(x, toWorld))
      BY UntoldEnough
    <3>3. "joined" \in {"joined", "out"} /\ place.clan # NoClan
      BY <1>6, <2>1
    <3>4. Agreed(toWorld \o Told(x, place, "joined"), decided', missed \cup Untold({x}), inWorld, player)
      BY <1>6, <1>7, <3>1, <3>2, <3>3, TellClan
    <3> QED BY <1>1, <1>2, <1>14, <3>4 DEF Fits
  <2> QED BY <1>11, <1>12, <2>7, <2>8 DEF Right
<1> QED BY <1>3, <1>13, <1>14

\* What LeaveClan and Kick do to an x of clan k, or of none.
LEMMA GoesOut ==
  ASSUME TypeOK, TypeOK', Right, NEW x \in Chars, NEW k \in listed,
         decided[x].clan = k \/ decided[x].clan = NoClan,
         members' = [members EXCEPT ![k] = RemoveFirst(@, x)],
         entry' = IF x \in online THEN [entry EXCEPT ![x] = Outside] ELSE entry,
         toWorld' = toWorld \o Told(x, Outside, "out"),
         decided' = Decided(x, Outside), missed' = missed \cup Untold({x}),
         UNCHANGED <<inTable, founded, online, listed, inWorld, player, toChar, usurped>>
  PROVE  Right'
<1>1. k \in Clans /\ k # NoClan /\ members[k] \in Seq(Chars) /\ Outside \in Places
  BY Ranks, PlaceFacts DEF TypeOK
<1>2. ~Founding(x)
  BY NotFounding
<1>3. decided'[x] = Says(Outside) /\ \A y \in Chars \ {x} : decided'[y] = decided[y]
  BY <1>1, DecidedFacts DEF TypeOK, Standings
<1>4. Says(Outside).clan = NoClan /\ Says(Outside).leads = FALSE
  BY SaysFacts, PlaceFacts
<1>5. /\ x \in online => entry'[x] = Outside
      /\ \A y \in Chars \ {x} : entry'[y] = entry[y]
      /\ x \notin online => entry'[x] = entry[x]
  BY DEF TypeOK
<1>6. NewsRight' /\ ClansRight'
  <2>1. DecisionsRight(decided, usurped, inTable)
    BY DEF Right, ClansRight
  <2>2. decided'[x].clan = NoClan /\ (decided'[x].leads => decided'[x] = decided[x])
    BY <1>3, <1>4
  <2>3. DecisionsRight(decided', usurped, inTable)
    BY <1>3, <2>1, <2>2, NoNewMaster
  <2>4. \A y \in Chars : decided'[y].clan = decided[y].clan \/ (decided'[y].clan = NoClan /\ ~Founding(y))
    BY <1>2, <1>3, <2>2
  <2>5. \A y \in Chars : entry'[y].clan = entry[y].clan \/ ~Founding(y)
    BY <1>2, <1>5
  <2>6. DecisionsRight(decided', usurped', inTable)
    BY <2>3
  <2> QED BY <2>4, <2>5, <2>6, Decides
<1>7. EntriesFollow'
  <2>1. online \subseteq Chars
    BY DEF TypeOK
  <2> QED BY <1>3, <1>5, <2>1 DEF Right, EntriesFollow, Founding
<1>8. MembersRight'
  <2> DEFINE s == RemoveFirst(members[k], x)
  <2>1. Once(members[k]) /\ \A y \in Chars : y \in ToSet(members[k]) <=> decided[y].clan = k
    BY DEF Right, MembersRight
  <2>2. Once(s) /\ ToSet(s) = ToSet(members[k]) \ {x}
    <3>1. CASE x \in ToSet(members[k])
      BY <1>1, <2>1, <3>1, TakenOut
    <3>2. CASE x \notin ToSet(members[k])
      <4>1. s = members[k]
        BY <1>1, <3>2, NotRemoved
      <4> HIDE DEF s
      <4> QED BY <2>1, <3>2, <4>1
    <3> QED BY <3>1, <3>2
  <2>3. members' = [members EXCEPT ![k] = s] /\ listed' = listed
    OBVIOUS
  <2> HIDE DEF s
  <2>4. \A y \in Chars : y \in ToSet(s) <=> decided'[y].clan = k
    BY <1>1, <1>3, <1>4, <2>1, <2>2
  <2>5. \A j \in listed \ {k} : decided'[x].clan = j <=> decided[x].clan = j
    BY <1>3, <1>4, Ranks DEF TypeOK
  <2>6. /\ \A y \in Chars \ {x} : decided'[y] = decided[y]
        /\ k \in listed => Once(s) /\ \A y \in Chars : y \in ToSet(s) <=> decided'[y].clan = k
    BY <1>3, <2>2, <2>4
  <2>7. k \in Clans
    BY <1>1
  <2> QED BY ONLY TypeOK, Right, x \in Chars, <2>3, <2>5, <2>6, <2>7, ListsKept
<1>9. Fits'
  <2>1. Agreed(toWorld, decided, missed, inWorld, player) /\ toWorld \in Seq(Notices)
        /\ inWorld \in SUBSET Chars /\ missed \subseteq missed \cup Untold({x})
    BY DEF TypeOK, Right, Fits
  <2>2. x \in missed \cup Untold({x}) \/ (x \in online /\ linked) \/ (x \notin inWorld /\ ~About(x, toWorld))
    BY UntoldEnough
  <2>3. "out" \in {"joined", "out"}
    OBVIOUS
  <2>4. Agreed(toWorld \o Told(x, Outside, "out"), decided', missed \cup Untold({x}), inWorld, player)
    BY <1>1, <1>3, <2>1, <2>2, <2>3, TellClan
  <2> QED BY <2>4 DEF Fits
<1> QED BY <1>6, <1>7, <1>8, <1>9 DEF Right

LEMMA LeavesKeeps ==
  ASSUME TypeOK, TypeOK', Right, NEW x \in Chars, LeaveClan(x)
  PROVE  Right'
<1>1. /\ x \in online /\ entry[x].clan \in listed
      /\ members' = [members EXCEPT ![entry[x].clan] = RemoveFirst(@, x)]
      /\ entry' = [entry EXCEPT ![x] = Outside]
      /\ toWorld' = toWorld \o Told(x, Outside, "out")
      /\ decided' = Decided(x, Outside) /\ missed' = missed \cup Untold({x})
      /\ UNCHANGED <<inTable, founded, online, listed, inWorld, player, toChar, usurped>>
  BY DEF LeaveClan, SendAll, worldSide
<1>2. decided[x].clan = entry[x].clan
  BY <1>1, InItsClan
<1>3. entry' = IF x \in online THEN [entry EXCEPT ![x] = Outside] ELSE entry
  BY <1>1
<1> QED BY <1>1, <1>2, <1>3, GoesOut

LEMMA KicksKeep ==
  ASSUME TypeOK, TypeOK', Right, ~drifted', NEW a \in Chars, NEW x \in Chars, Kick(a, x)
  PROVE  Right'
<1>1. /\ entry[a].clan \in listed
      /\ members' = [members EXCEPT ![entry[a].clan] = RemoveFirst(@, x)]
      /\ entry' = IF x \in online THEN [entry EXCEPT ![x] = Outside] ELSE entry
      /\ toWorld' = toWorld \o Told(x, Outside, "out")
      /\ decided' = Decided(x, Outside) /\ missed' = missed \cup Untold({x})
      /\ drifted' = (drifted \/ decided[x].clan \notin {NoClan, entry[a].clan})
      /\ UNCHANGED <<inTable, founded, online, listed, inWorld, player, toChar, usurped>>
  BY DEF Kick, SendAll, worldSide
<1>2. decided[x].clan = entry[a].clan \/ decided[x].clan = NoClan
  BY <1>1
<1> QED BY <1>1, <1>2, GoesOut

LEMMA DisbandKeeps ==
  ASSUME TypeOK, TypeOK', Right, NEW x \in Chars, Disband(x)
  PROVE  Right'
<1> DEFINE k == entry[x].clan
           ms == missed \cup {y \in {x} : Exposed(y)}
<1>1. /\ x \in online /\ k \in listed /\ Len(members[k]) <= 1
      /\ inTable' = inTable \ {k} /\ listed' = listed \ {k}
      /\ members' = [members EXCEPT ![k] = <<>>]
      /\ entry' = [entry EXCEPT ![x] = Outside]
      /\ decided' = Decided(x, Outside) /\ missed' = ms
      /\ UNCHANGED <<founded, online, inWorld, player, toWorld, toChar, usurped>>
  BY DEF Disband, worldSide
<1>2. k \in Clans /\ k # NoClan /\ Outside \in Places /\ members[k] \in Seq(Chars)
  BY <1>1, Ranks, PlaceFacts DEF TypeOK
<1>3. ~Founding(x) /\ decided[x].clan = k
  BY <1>1, InItsClan
<1> HIDE DEF k, ms
<1>4. \A y \in Chars : decided[y].clan = k => y = x
  <2> TAKE y \in Chars
  <2> HAVE decided[y].clan = k
  <2>1. y \in ToSet(members[k]) /\ x \in ToSet(members[k])
    BY <1>1, <1>3 DEF Right, MembersRight
  <2>2. PICK i \in DOMAIN members[k], j \in DOMAIN members[k] : members[k][i] = y /\ members[k][j] = x
    BY <1>2, <2>1, ListFacts
  <2>3. i = j
    BY <1>1, <1>2, ListFacts
  <2> QED BY <2>2, <2>3
<1>5. decided'[x] = Says(Outside) /\ \A y \in Chars \ {x} : decided'[y] = decided[y]
  BY <1>1, <1>2, DecidedFacts DEF TypeOK, Standings
<1>6. Says(Outside).clan = NoClan /\ Says(Outside).leads = FALSE /\ NoClan \notin Clans
  BY SaysFacts, PlaceFacts, Ranks
<1>7. entry'[x] = Outside /\ \A y \in Chars \ {x} : entry'[y] = entry[y]
  BY <1>1 DEF TypeOK
<1>8. \A i \in DOMAIN toChar : toChar[i].who \in Chars \ {x} /\ toChar[i].clan # k /\ toChar[i].clan \in Clans
  <2>1. \A i \in DOMAIN toChar : toChar[i] \in News
    BY DEF TypeOK
  <2> QED BY <1>1, <1>3, <2>1 DEF Founding, About, News, Right, NewsRight
<1>9. NewsRight'
  BY <1>1, <1>5, <1>6, <1>7, <1>8 DEF Right, NewsRight
<1>10. ClansRight'
  <2>1. DecisionsRight(decided, usurped, inTable)
    BY DEF Right, ClansRight
  <2>2. decided'[x].clan = NoClan /\ (decided'[x].leads => decided'[x] = decided[x])
    BY <1>5, <1>6
  <2>3. DecisionsRight(decided', usurped, inTable)
    BY <1>5, <2>1, <2>2, NoNewMaster
  <2>4. \A y \in Chars : decided'[y].clan \in inTable' \/ decided'[y].clan = NoClan
    BY <1>1, <1>4, <1>5, <2>2, <2>3 DEF DecisionsRight
  <2>5. DecisionsRight(decided', usurped', inTable')
    BY <1>1, <2>3, <2>4 DEF DecisionsRight
  <2>6. \A j \in inTable' : j <= founded /\ (j \in listed' \/ \E i \in DOMAIN toChar : toChar[i].clan = j)
    BY <1>1 DEF Right, ClansRight
  <2>7. listed' \subseteq inTable'
    BY <1>1 DEF Right, ClansRight
  <2> QED BY <1>1, <2>5, <2>6, <2>7 DEF ClansRight
<1>11. EntriesFollow'
  <2>1. online \subseteq Chars
    BY DEF TypeOK
  <2> QED BY <1>1, <1>5, <1>7, <2>1 DEF Right, EntriesFollow, Founding
<1>12. MembersRight'
  <2> SUFFICES ASSUME NEW j \in listed \ {k}
               PROVE  /\ Once(members'[j])
                      /\ \A y \in Chars : y \in ToSet(members'[j]) <=> decided'[y].clan = j
    BY <1>1 DEF MembersRight
  <2>1. j \in Clans /\ members'[j] = members[j]
    BY <1>1 DEF TypeOK
  <2>2. Once(members[j]) /\ \A y \in Chars : y \in ToSet(members[j]) <=> decided[y].clan = j
    BY DEF Right, MembersRight
  <2>3. \A y \in Chars : decided'[y].clan = j <=> decided[y].clan = j
    BY <1>3, <1>5, <1>6, <2>1
  <2> QED BY <2>1, <2>2, <2>3
<1>13. Fits'
  <2>1. Agreed(toWorld, decided, missed, inWorld, player) /\ inWorld \in SUBSET Chars
        /\ toWorld \in Seq(Notices) /\ missed \subseteq ms
    BY DEF TypeOK, Right, Fits, ms
  <2>2. x \in ms \/ (x \notin inWorld /\ ~About(x, toWorld))
    BY DEF ms, Exposed, Notified
  <2>3. Agreed(toWorld, decided', ms, inWorld, player)
    BY <1>5, <2>1, <2>2, NotTold DEF OnlyOf
  <2> QED BY <1>1, <2>3 DEF Fits
<1> QED BY <1>9, <1>10, <1>11, <1>12, <1>13 DEF Right

\* Rows that say what was decided are one for each member: the list becomes
\* the rows.
LEMMA RankedLists ==
  ASSUME TypeOK, Right, NEW k \in listed, NEW r \in [Chars -> Places], NEW d, NEW read,
         RowsSay(r, read \cup {y \in Chars : k \in {r[y].clan, d[y].clan}}, d),
         members' = [members EXCEPT ![k] = Refreshed(k, r)], decided' = d, listed' = listed,
         \A y \in Chars : d[y].clan = decided[y].clan
  PROVE  MembersRight'
<1>1. \A y \in Chars : r[y].clan = k <=> decided[y].clan = k
  BY SaysFacts DEF RowsSay
<1>2. k \in Clans /\ members[k] \in Seq(Chars)
  BY DEF TypeOK
<1>3. Once(members[k]) /\ \A y \in Chars : y \in ToSet(members[k]) <=> decided[y].clan = k
  BY DEF Right, MembersRight
<1>4. \A e : e \in ToSet(members[k]) => e \in Chars
  BY <1>2, ListFacts
<1>5. ToSet(members[k]) = InClan(k, r)
  BY <1>1, <1>3, <1>4 DEF InClan
<1>6. Len(members[k]) = Cardinality(InClan(k, r))
  BY <1>2, <1>3, <1>5, LenOfOnce
<1>7. Refreshed(k, r) = RowsOf(k, r)
  BY <1>2, <1>6, RefreshedFacts
<1>8. Once(RowsOf(k, r)) /\ ToSet(RowsOf(k, r)) = InClan(k, r)
  BY RowsFacts
<1>9. members'[k] = RowsOf(k, r) /\ \A j \in Clans \ {k} : members'[j] = members[j]
  BY <1>2, <1>7 DEF TypeOK
<1> SUFFICES ASSUME NEW j \in listed
             PROVE  /\ Once(members'[j])
                    /\ \A y \in Chars : y \in ToSet(members'[j]) <=> decided'[y].clan = j
  BY DEF MembersRight
<1>10. CASE j = k
  BY <1>1, <1>8, <1>9, <1>10 DEF InClan
<1>11. CASE j # k
  <2>1. members'[j] = members[j]
    BY <1>9, <1>11 DEF TypeOK
  <2>2. Once(members[j]) /\ \A y \in Chars : y \in ToSet(members[j]) <=> decided[y].clan = j
    BY DEF Right, MembersRight
  <2> QED BY <2>1, <2>2
<1> QED BY <1>10, <1>11

\* A change of ranks that decides well, whether the server stops over it or
\* not.
LEMMA RankedKeeps ==
  ASSUME TypeOK, TypeOK', Right, ~drifted', NEW k \in Clans \cup {NoClan},
         NEW e \in [Chars -> Places], NEW r \in [Chars -> Places], NEW d \in [Chars -> Standings],
         NEW told, toWorld \o told \in Seq(Notices), NEW m \in SUBSET Chars, NEW read,
         Ranked(k, e, r, d, told, m, read),
         \A y \in Chars : d[y].clan = decided[y].clan /\ e[y].clan = entry[y].clan,
         \A y \in online : Says(e[y]) = d[y] \/ Founding(y),
         DecisionsRight(d, usurped', inTable),
         Agreed(toWorld \o told, d, m, inWorld, player)
  PROVE  Right'
<1>1. decided' = d /\ UNCHANGED <<inTable, founded, inWorld, player>>
  BY DEF Ranked, worldSide
<1>2. CASE k \in listed /\ ~Overrun(k, r)
  <2>1. /\ members' = [members EXCEPT ![k] = Refreshed(k, r)] /\ entry' = e /\ missed' = m
        /\ toWorld' = toWorld \o told /\ UNCHANGED <<online, listed, toChar>>
        /\ RowsRead(r, read \cup {y \in Chars : k \in {r[y].clan, d[y].clan}}, d)
    BY <1>2 DEF Ranked, SendAll
  <2>2. RowsSay(r, read \cup {y \in Chars : k \in {r[y].clan, d[y].clan}}, d)
    BY <2>1, ReadFacts DEF TypeOK
  <2>3. MembersRight'
    BY <1>1, <1>2, <2>1, <2>2, RankedLists
  <2>4. NewsRight' /\ ClansRight'
    <3>1. \A y \in Chars : decided'[y].clan = decided[y].clan /\ entry'[y].clan = entry[y].clan
      BY <1>1, <2>1
    <3>2. DecisionsRight(decided', usurped', inTable)
      BY <1>1
    <3> QED BY <1>1, <2>1, <3>1, <3>2, Decides
  <2>5. EntriesFollow'
    BY <1>1, <2>1 DEF EntriesFollow, Founding
  <2>6. Fits'
    BY <1>1, <2>1 DEF Fits
  <2> QED BY <2>3, <2>4, <2>5, <2>6 DEF Right
<1>3. CASE ~(k \in listed /\ ~Overrun(k, r))
  <2>1. Restarted(r, toWorld \o told, d, m)
    BY <1>3 DEF Ranked
  <2>2. \A j \in inTable : j <= founded
    BY DEF Right, ClansRight
  <2> DEFINE q == toWorld \o told
  <2>3. q \in Seq(Notices) /\ Restarted(r, q, d, m) /\ Agreed(q, d, m, inWorld, player)
    BY <2>1
  <2> HIDE DEF q
  <2> QED BY <1>1, <2>2, <2>3, StartsAgain
<1> QED BY <1>2, <1>3

LEMMA RerankKeeps ==
  ASSUME TypeOK, TypeOK', Right, ~drifted', NEW a \in Chars, NEW x \in Chars,
         Promote(a, x) \/ Demote(a, x)
  PROVE  Right'
<1>1. PICK new, e, d : Reranked(a, x, new, e, d)
  BY PromoteDoes, DemoteDoes
<1> DEFINE r == [row EXCEPT ![x].rank = new]
           told == Told(x, Place(NoClan, new), "rank")
           ms == missed \cup Untold({x})
<1>2. /\ new \in 0..Master /\ e \in [Chars -> Places] /\ d \in [Chars -> Standings]
      /\ Ranked(entry[a].clan, e, r, d, told, ms, {x} \ online)
      /\ \A y \in Chars \ {x} : d[y] = decided[y] /\ e[y] = entry[y]
      /\ e[x].clan = entry[x].clan
      /\ d[x].clan = decided[x].clan /\ (d[x].leads => decided[x].leads)
      /\ x \in online => d[x] = Says(Place(decided[x].clan, new)) /\ new < Master /\ e[x].rank < Master
      /\ usurped' = usurped
  BY <1>1 DEF Reranked
<1>3. \A y \in Chars : d[y].clan = decided[y].clan /\ e[y].clan = entry[y].clan
  BY <1>2
<1>4. DecisionsRight(d, usurped', inTable)
  <2>1. d[x].leads => d[x] = decided[x]
    <3>1. d[x] \in Standings /\ decided[x] \in Standings
      BY <1>2 DEF TypeOK, Standings
    <3>2. d[x].leads => d[x].leads = TRUE /\ decided[x].leads = TRUE
      BY <1>2, <3>1 DEF Standings
    <3> QED BY <1>2, <3>1, <3>2 DEF Standings
  <2>2. DecisionsRight(decided, usurped, inTable)
    BY DEF Right, ClansRight
  <2>3. d[x].clan \in inTable \/ d[x].clan = NoClan
    BY <1>2, <2>2 DEF DecisionsRight
  <2>4. \A y \in Chars \ {x} : d[y] = decided[y]
    BY <1>2
  <2>5. DecisionsRight(d, usurped, inTable)
    BY <2>1, <2>2, <2>3, <2>4, NoNewMaster
  <2> QED BY <1>2, <2>5
<1>5. \A y \in online : Says(e[y]) = d[y] \/ Founding(y)
  <2> SUFFICES ASSUME NEW y \in online, ~Founding(y) PROVE Says(e[y]) = d[y]
    OBVIOUS
  <2>1. y \in Chars /\ Says(entry[y]) = decided[y]
    BY DEF TypeOK, Right, EntriesFollow
  <2>2. CASE y = x
    <3>1. entry[x].clan = decided[x].clan /\ decided[x].clan \in Clans \cup {NoClan}
      BY <2>1, <2>2, SaysFacts DEF TypeOK
    <3>2. Place(decided[x].clan, new).clan = decided[x].clan /\ Place(decided[x].clan, new).rank = new
      BY <1>2, <3>1, PlaceFacts
    <3>3. e[x].rank # Master /\ new # Master /\ d[x] = Says(Place(decided[x].clan, new))
      BY <1>2, <2>2, Ranks, PlaceFacts
    <3>4. Says(e[x]) = Says(Place(decided[x].clan, new))
      BY <1>2, <3>1, <3>2, <3>3 DEF Says
    <3> QED BY <2>2, <3>3, <3>4
  <2>3. CASE y # x
    BY <1>2, <2>1, <2>3
  <2> QED BY <2>2, <2>3
<1>6. Agreed(toWorld \o told, d, ms, inWorld, player) /\ toWorld \o told \in Seq(Notices)
  <2>1. Agreed(toWorld, decided, missed, inWorld, player) /\ toWorld \in Seq(Notices)
        /\ inWorld \in SUBSET Chars /\ missed \subseteq ms
    BY DEF TypeOK, Right, Fits
  <2>2. x \in ms \/ (x \in online /\ linked) \/ (x \notin inWorld /\ ~About(x, toWorld))
    BY UntoldEnough
  <2>3. /\ \A y \in Chars \ {x} : d[y] = decided[y]
        /\ d[x].clan = decided[x].clan /\ (x \in online => d[x] = Says(Place(d[x].clan, new)))
    BY <1>2
  <2>4. toWorld \o told \in Seq(Notices)
    BY <1>2, <2>1, PlaceFacts, ToldFacts
  <2> HIDE DEF ms
  <2> QED BY <1>2, <2>1, <2>2, <2>3, <2>4, TellRank
<1>7. r \in [Chars -> Places] /\ ms \in SUBSET Chars /\ entry[a].clan \in Clans \cup {NoClan}
  <2>1. r \in [Chars -> Places]
    BY <1>2, NewRank DEF TypeOK
  <2>2. ms \in SUBSET Chars
    BY SomeChars DEF TypeOK
  <2> QED BY <2>1, <2>2, PlaceFacts DEF TypeOK
<1> HIDE DEF r, told, ms
<1> QED BY <1>2, <1>3, <1>4, <1>5, <1>6, <1>7, RankedKeeps

LEMMA GivesKeeps ==
  ASSUME TypeOK, TypeOK', Right, ~drifted', NEW a \in Chars, NEW x \in Chars, GiveMaster(a, x)
  PROVE  Right'
<1> DEFINE e == GivenEntries(a, x)
           r == GivenRows(a, x)
           d == GivenSay(a, x)
           half == Decided(x, Place(decided[x].clan, Master))
           first == toWorld \o Told(x, Place(NoClan, Master), "rank")
           ms == missed \cup Untold({a, x})
<1>1. /\ a \in online /\ a # x
      /\ Ranked(entry[a].clan, e, r, d, GivenTold(a, x), ms, {})
      /\ usurped' = IF Usurps(a, x) THEN usurped \cup {decided[x].clan} ELSE usurped
  BY GivesBy
<1>2. /\ r \in [Chars -> Places] /\ d \in [Chars -> Standings] /\ e \in [Chars -> Places]
      /\ \A y \in Chars : d[y].clan = decided[y].clan
      /\ d[x] = Says(Place(decided[x].clan, Master))
      /\ d[a] = [clan |-> decided[a].clan, leads |-> FALSE]
      /\ \A y \in Chars \ {a, x} : d[y] = decided[y]
  BY <1>1, GivesFacts, GivenTypes
<1>3. \A y \in Chars : decided[y].clan \in Clans \cup {NoClan} /\ entry[y].clan \in Clans \cup {NoClan}
  BY PlaceFacts DEF TypeOK
<1>4. \A c \in Clans \cup {NoClan} :
        /\ Place(c, Master).clan = c /\ Place(c, Master).rank = Master /\ Place(c, Master) \in Places
        /\ Place(c, ExMaster).clan = c /\ Place(c, ExMaster).rank = ExMaster
        /\ ExMaster # Master
  BY PlaceFacts, Ranks
<1>5. /\ e[a] = Place(entry[a].clan, ExMaster)
      /\ x \in online => e[x] = Place(entry[x].clan, Master)
      /\ x \notin online => e[x] = entry[x]
      /\ \A y \in Chars \ {a, x} : e[y] = entry[y]
  BY <1>1 DEF GivenEntries
<1>6. half[x] = d[x] /\ \A y \in Chars \ {x} : half[y] = decided[y]
  BY <1>2, <1>3, <1>4, DecidedFacts DEF TypeOK, Standings
<1> HIDE DEF e, r, d, half
<1>7. \A y \in Chars : d[y].clan = decided[y].clan /\ e[y].clan = entry[y].clan
  BY <1>2, <1>3, <1>4, <1>5
<1>8. d[a].leads = FALSE /\ d[a] = Says(Place(decided[a].clan, ExMaster))
  <2>1. d[a].leads = FALSE
    BY <1>2
  <2>2. Says(Place(decided[a].clan, ExMaster)) = [clan |-> decided[a].clan, leads |-> FALSE]
    BY <1>3, <1>4 DEF Says
  <2> QED BY <1>2, <2>1, <2>2
<1>9. DecisionsRight(d, usurped', inTable)
  <2>1. DecisionsRight(decided, usurped, inTable)
    BY DEF Right, ClansRight
  <2>2. \A y \in Chars : d[y].clan \in inTable \/ d[y].clan = NoClan
    BY <1>2, <2>1 DEF DecisionsRight
  <2>3. d[x].leads => d[x].clan # NoClan
    <3> DEFINE p == Place(decided[x].clan, Master)
    <3>1. p.clan = decided[x].clan /\ d[x] = Says(p)
      BY <1>2, <1>3, <1>4
    <3> HIDE DEF p
    <3>2. Says(p).clan = p.clan /\ Says(p).leads = (p.clan # NoClan /\ p.rank = Master)
      BY SaysFacts
    <3> QED BY <3>1, <3>2
  <2>4. \A y \in Chars : d[y].leads => d[y].clan # NoClan
    BY <1>2, <1>8, <2>1, <2>3 DEF DecisionsRight
  <2>5. \A y \in Chars : d[y].leads => y # a
    BY <1>8
  <2>6. \A y, z \in Chars : d[y].leads /\ d[z] = d[y] => y # a /\ z # a
    BY <2>5
  <2>7. ASSUME NEW z \in Chars \ {a, x}, d[x].leads, d[z] = d[x], d[x].clan \notin usurped'
        PROVE  FALSE
    <3>1. d[x] = [clan |-> decided[x].clan, leads |-> TRUE] /\ decided[x].clan # NoClan
      <4>1. d[x] \in Standings
        BY <1>2
      <4> QED BY <1>2, <2>3, <2>7, <4>1 DEF Standings
    <3>2. ~Usurps(a, x) /\ d[x].clan \notin usurped
      BY <1>1, <1>2, <2>7
    <3>3. decided[a] = d[x]
      BY <3>1, <3>2 DEF Usurps
    <3>4. decided[z] = decided[a] /\ decided[a].leads /\ decided[a].clan \notin usurped
      BY <1>2, <2>7, <3>2, <3>3
    <3> QED BY <2>1, <3>4 DEF DecisionsRight
  <2>8. \A y, z \in Chars : d[y].leads /\ d[z] = d[y] /\ d[y].clan \notin usurped' => y = z
    <3> SUFFICES ASSUME NEW y \in Chars, NEW z \in Chars, d[y].leads, d[z] = d[y], d[y].clan \notin usurped'
                 PROVE  y = z
      OBVIOUS
    <3>1. y # a /\ z # a
      BY <2>6
    <3>2. CASE y = x \/ z = x
      BY <2>7, <3>1, <3>2
    <3>3. CASE y # x /\ z # x
      <4>1. decided[y].leads /\ decided[z] = decided[y] /\ decided[y].clan \notin usurped
        BY <1>1, <1>2, <3>1, <3>3
      <4> QED BY <2>1, <4>1 DEF DecisionsRight
    <3> QED BY <3>2, <3>3
  <2> QED BY <2>2, <2>4, <2>8 DEF DecisionsRight
<1>10. \A y \in online : Says(e[y]) = d[y] \/ Founding(y)
  <2> SUFFICES ASSUME NEW y \in online, ~Founding(y) PROVE Says(e[y]) = d[y]
    OBVIOUS
  <2>1. y \in Chars /\ Says(entry[y]) = decided[y]
    BY DEF TypeOK, Right, EntriesFollow
  <2>2. entry[y].clan = decided[y].clan
    BY <2>1, SaysFacts
  <2>3. CASE y = a
    BY <1>5, <1>8, <2>2, <2>3
  <2>4. CASE y = x
    BY <1>2, <1>5, <2>2, <2>4
  <2>5. CASE y \notin {a, x}
    BY <1>2, <1>5, <2>1, <2>5
  <2> QED BY <2>3, <2>4, <2>5
<1>11. Agreed(toWorld \o GivenTold(a, x), d, ms, inWorld, player)
  <2>1. Agreed(toWorld, decided, missed, inWorld, player) /\ toWorld \in Seq(Notices)
        /\ inWorld \in SUBSET Chars /\ missed \subseteq ms
    BY DEF TypeOK, Right, Fits
  <2>2. Master \in 0..Master /\ ExMaster \in 0..Master
    BY Ranks
  <2>3. x \in ms \/ (x \in online /\ linked) \/ (x \notin inWorld /\ ~About(x, toWorld))
    BY UntoldEnough
  <2>4. half[x].clan = decided[x].clan /\ half[x] = Says(Place(half[x].clan, Master))
    BY <1>2, <1>6
  <2> HIDE DEF ms
  <2>5. Agreed(first, half, ms, inWorld, player)
    BY <1>6, <2>1, <2>2, <2>3, <2>4, TellRank
  <2>6. first \in Seq(Notices) /\ toWorld \o GivenTold(a, x) = first \o Told(a, Place(NoClan, ExMaster), "rank")
    BY GivenTypes
  <2>7. ~linked => first = toWorld
    BY <2>1, NobodyTold
  <2> HIDE DEF first
  <2>8. a \in ms \/ (a \in online /\ linked) \/ (a \notin inWorld /\ ~About(a, first))
    <3>1. a \in ms \/ (a \in online /\ linked) \/ (a \notin inWorld /\ ~About(a, toWorld))
      BY UntoldEnough DEF ms
    <3> QED BY <1>1, <2>7, <3>1
  <2>9. /\ \A y \in Chars \ {a} : d[y] = half[y]
        /\ d[a].clan = half[a].clan /\ d[a] = Says(Place(d[a].clan, ExMaster))
    BY <1>1, <1>2, <1>6, <1>8
  <2>10. Agreed(first \o Told(a, Place(NoClan, ExMaster), "rank"), d, ms, inWorld, player)
    <3>1. ms \subseteq ms
      OBVIOUS
    <3> QED BY <2>1, <2>2, <2>5, <2>6, <2>8, <2>9, <3>1, TellRank
  <2> QED BY <2>6, <2>10
<1>12. /\ ms \in SUBSET Chars /\ entry[a].clan \in Clans \cup {NoClan}
       /\ toWorld \o GivenTold(a, x) \in Seq(Notices)
  <2>1. ms \in SUBSET Chars
    BY SomeChars DEF TypeOK
  <2> QED BY <1>3, <2>1, GivenTypes
<1> HIDE DEF ms
<1> QED BY <1>1, <1>2, <1>7, <1>9, <1>10, <1>11, <1>12, RankedKeeps

-----------------------------------------------------------------------------
(* Founding keeps the invariant *)

LEMMA FoundsKeeps ==
  ASSUME TypeOK, TypeOK', Right, ~drifted', NEW x \in Chars, pakCreateClan(x)
  PROVE  Right'
<1> DEFINE k == founded + 1
           place == Place(k, Master)
           n == [who |-> x, clan |-> k]
<1>1. /\ x \in inWorld /\ founded < MaxClan /\ linked /\ decided[x].clan = NoClan
      /\ founded' = k /\ inTable' = inTable \cup {k}
      /\ player' = [player EXCEPT ![x] = place]
      /\ toChar' = Append(toChar, n)
      /\ decided' = Decided(x, place)
      /\ missed' = IF Notified(x) THEN missed \cup {x} ELSE missed
      /\ UNCHANGED <<online, entry, listed, members, inWorld, toWorld, usurped>>
  BY DEF pakCreateClan, charSide
<1>2. k \in Clans /\ k # NoClan /\ k \notin inTable /\ k \notin listed /\ founded \in Nat /\ founded <= k
  <2>1. founded \in Nat /\ k \in Clans
    BY <1>1, ClanAssumption DEF TypeOK, Clans
  <2>2. \A j \in inTable : j \in Nat /\ j <= founded
    BY DEF Right, ClansRight, TypeOK, Clans
  <2>3. k \notin inTable
    BY <2>1, <2>2
  <2> QED BY <2>1, <2>3, Ranks DEF Right, ClansRight
<1>3. place \in Places /\ place.clan = k /\ place.rank = Master
  BY <1>2, Ranks, PlaceFacts
<1>4. ~Founding(x) /\ (x \in online => entry[x].clan = NoClan)
  <2>1. ~Founding(x)
    BY <1>1, NotFounding
  <2>2. x \in online => Says(entry[x]) = decided[x]
    BY <2>1 DEF Right, EntriesFollow
  <2> QED BY <1>1, <2>1, <2>2, SaysFacts
<1>5. n \in News /\ n.who = x /\ n.clan = k
  BY <1>2 DEF News
<1> HIDE DEF n, place, k
<1>6. DecisionsRight(decided, usurped, inTable)
  BY DEF Right, ClansRight
<1>7. decided'[x] = Says(place) /\ \A y \in Chars \ {x} : decided'[y] = decided[y]
  BY <1>1, <1>3, DecidedFacts DEF TypeOK, Standings
<1>8. decided'[x].clan = k /\ decided'[x].leads
  <2>1. decided'[x].clan = place.clan /\ decided'[x].leads = (place.clan # NoClan /\ place.rank = Master)
    BY <1>7, SaysFacts
  <2> QED BY <1>2, <1>3, <2>1
<1>9. player'[x] = place /\ \A y \in Chars \ {x} : player'[y] = player[y]
  BY <1>1 DEF TypeOK
<1>10. /\ DOMAIN toChar' = DOMAIN toChar \cup {Len(toChar) + 1} /\ Len(toChar) + 1 \notin DOMAIN toChar
       /\ \A i \in DOMAIN toChar : toChar'[i] = toChar[i]
       /\ toChar'[Len(toChar) + 1] = n
  <2>1. toChar \in Seq(News)
    BY DEF TypeOK
  <2>2. Len(toChar) \in Nat /\ DOMAIN toChar = 1..Len(toChar)
    BY <2>1, ListFacts
  <2>3. /\ Append(toChar, n) \in Seq(News) /\ Len(Append(toChar, n)) = Len(toChar) + 1
        /\ \A i \in 1..Len(toChar) : Append(toChar, n)[i] = toChar[i]
        /\ Append(toChar, n)[Len(toChar) + 1] = n
    BY <1>5, <2>1, AppendProperties
  <2>4. DOMAIN Append(toChar, n) = 1..Len(toChar) + 1
    BY <2>3, ListFacts
  <2>5. 1..Len(toChar) + 1 = 1..Len(toChar) \cup {Len(toChar) + 1}
    BY <2>2
  <2> QED BY <1>1, <2>2, <2>3, <2>4, <2>5
<1>11. \A i \in DOMAIN toChar : toChar[i].who \in Chars \ {x} /\ toChar[i].clan # k
  <2>1. \A i \in DOMAIN toChar : toChar[i] \in News
    BY DEF TypeOK
  <2> QED BY <1>2, <1>4, <2>1 DEF Founding, About, News, Right, NewsRight
<1>12. \A y \in Chars : decided'[y].clan = k => y = x
  BY <1>2, <1>6, <1>7 DEF DecisionsRight
<1>13. NewsRight'
  <2>1. ASSUME NEW i \in DOMAIN toChar
        PROVE  /\ toChar'[i].clan \in inTable' \ listed'
               /\ decided'[toChar'[i].who].clan = toChar'[i].clan
               /\ toChar'[i].who \in online' => entry'[toChar'[i].who].clan \in {NoClan, toChar'[i].clan}
               /\ \A y \in Chars : decided'[y].clan = toChar'[i].clan => y = toChar'[i].who
    BY <1>1, <1>7, <1>8, <1>10, <1>11 DEF Right, NewsRight
  <2>2. /\ n.clan \in inTable' \ listed' /\ decided'[n.who].clan = n.clan
        /\ n.who \in online' => entry'[n.who].clan \in {NoClan, n.clan}
        /\ \A y \in Chars : decided'[y].clan = n.clan => y = n.who
    BY <1>1, <1>2, <1>4, <1>5, <1>8, <1>12
  <2>3. \A i, j \in DOMAIN toChar' : toChar'[i].clan = toChar'[j].clan => i = j
    BY <1>5, <1>10, <1>11 DEF Right, NewsRight
  <2> QED BY <1>10, <2>1, <2>2, <2>3 DEF NewsRight
<1>14. ClansRight'
  <2>1. \A j \in inTable' : j <= founded'
    <3>1. \A j \in inTable : j \in Nat /\ j <= founded
      BY DEF Right, ClansRight, TypeOK, Clans
    <3>2. k \in Nat
      BY <1>2 DEF Clans
    <3> QED BY <1>1, <1>2, <3>1, <3>2
  <2>2. \A j \in inTable' : j \in listed' \/ \E i \in DOMAIN toChar' : toChar'[i].clan = j
    BY <1>1, <1>5, <1>10 DEF Right, ClansRight
  <2>3. listed' \subseteq inTable'
    BY <1>1 DEF Right, ClansRight
  <2>4. \A y \in Chars : decided'[y].clan \in inTable' \/ decided'[y].clan = NoClan
    BY <1>1, <1>6, <1>7, <1>8 DEF DecisionsRight
  <2>5. \A y \in Chars : decided'[y].leads => decided'[y].clan # NoClan
    BY <1>2, <1>6, <1>7, <1>8 DEF DecisionsRight
  <2>6. \A y, z \in Chars : decided'[y].leads /\ decided'[z] = decided'[y] /\ decided'[y].clan \notin usurped' => y = z
    <3> SUFFICES ASSUME NEW y \in Chars, NEW z \in Chars, decided'[y].leads, decided'[z] = decided'[y],
                        decided'[y].clan \notin usurped'
                 PROVE  y = z
      OBVIOUS
    <3>1. y = x <=> z = x
      BY <1>8, <1>12
    <3>2. y # x /\ z # x => decided[y].leads /\ decided[z] = decided[y] /\ decided[y].clan \notin usurped
      BY <1>1, <1>7
    <3> QED BY <1>6, <3>1, <3>2 DEF DecisionsRight
  <2>7. DecisionsRight(decided', usurped', inTable')
    BY <2>4, <2>5, <2>6 DEF DecisionsRight
  <2> QED BY <2>1, <2>2, <2>3, <2>7 DEF ClansRight
<1>15. EntriesFollow'
  <2> SUFFICES ASSUME NEW y \in online
               PROVE  Says(entry[y]) = decided'[y] \/ \E i \in DOMAIN toChar' : toChar'[i].who = y
    BY <1>1 DEF EntriesFollow, Founding, About
  <2>1. y \in Chars
    BY DEF TypeOK
  <2> QED BY <1>5, <1>7, <1>10, <2>1 DEF Right, EntriesFollow, Founding, About
<1>16. MembersRight'
  <2> SUFFICES ASSUME NEW j \in listed
               PROVE  /\ Once(members[j])
                      /\ \A y \in Chars : y \in ToSet(members[j]) <=> decided'[y].clan = j
    BY <1>1 DEF MembersRight
  <2>1. Once(members[j]) /\ \A y \in Chars : y \in ToSet(members[j]) <=> decided[y].clan = j
    BY DEF Right, MembersRight
  <2>2. j # k /\ j # NoClan
    BY <1>2, Ranks DEF TypeOK
  <2> QED BY <1>1, <1>7, <1>8, <2>1, <2>2
<1>17. Fits'
  <2>1. /\ Agreed(toWorld, decided, missed, inWorld, player) /\ missed \subseteq missed'
        /\ x \in missed' \/ ~About(x, toWorld)
    BY <1>1 DEF Right, Fits, Notified
  <2>2. ~About(x, toWorld) => Following(toWorld, decided'[x], x) /\ Current(toWorld, decided'[x], place, x)
    <3>1. toWorld \in Seq(Notices) /\ Says(place) = decided'[x]
      BY <1>7 DEF TypeOK
    <3>2. ~About(x, toWorld) => \A i \in DOMAIN toWorld : toWorld[i].who # x
      BY DEF About
    <3> QED BY <3>1, <3>2, NothingSent
  <2>3. \A y \in Chars \ missed' : Following(toWorld, decided'[y], y)
    BY <1>7, <2>1, <2>2 DEF Agreed
  <2>4. \A y \in inWorld \ missed' : Current(toWorld, decided'[y], player'[y], y)
    <3>1. inWorld \subseteq Chars
      BY DEF TypeOK
    <3> QED BY <1>7, <1>9, <2>1, <2>2, <3>1 DEF Agreed
  <2>5. JoinsSome(toWorld)
    BY <2>1 DEF Agreed
  <2> QED BY <1>1, <2>3, <2>4, <2>5 DEF Fits, Agreed
<1> QED BY <1>13, <1>14, <1>15, <1>16, <1>17 DEF Right

LEMMA HearsKeeps ==
  ASSUME TypeOK, TypeOK', Right, ~drifted', NewClan
  PROVE  Right'
<1> DEFINE x == Head(toChar).who
           k == Head(toChar).clan
<1>1. /\ toChar # <<>> /\ toChar' = Tail(toChar)
      /\ x \in online /\ decided[x] = Says(Place(k, Master))
      /\ UNCHANGED <<inTable, founded, online, inWorld, player, toWorld, decided, missed, usurped>>
  BY DEF NewClan, table, worldSide
<1>2. /\ toChar \in Seq(News) /\ Head(toChar) = toChar[1] /\ 1 \in DOMAIN toChar
      /\ \A i \in DOMAIN toChar' : i + 1 \in DOMAIN toChar /\ i + 1 # 1 /\ toChar'[i] = toChar[i + 1]
      /\ \A i \in DOMAIN toChar \ {1} : i - 1 \in DOMAIN toChar' /\ toChar'[i - 1] = toChar[i]
  <2>1. toChar \in Seq(News)
    BY DEF TypeOK
  <2>2. Len(toChar) \in Nat \ {0} /\ DOMAIN toChar = 1..Len(toChar)
    BY <1>1, <2>1, EmptySeq, ListFacts
  <2>3. /\ Tail(toChar) \in Seq(News) /\ Len(Tail(toChar)) = Len(toChar) - 1
        /\ \A i \in 1..Len(Tail(toChar)) : Tail(toChar)[i] = toChar[i + 1]
    BY <1>1, <2>1, HeadTailProperties
  <2>4. DOMAIN toChar' = 1..Len(toChar) - 1
    BY <1>1, <2>3, ListFacts
  <2>5. \A i \in DOMAIN toChar' : i + 1 \in DOMAIN toChar /\ i + 1 # 1 /\ toChar'[i] = toChar[i + 1]
    BY <1>1, <2>2, <2>3, <2>4
  <2>6. \A i \in DOMAIN toChar \ {1} : i - 1 \in DOMAIN toChar' /\ (i - 1) + 1 = i
    BY <2>2, <2>4
  <2>7. Head(toChar) = toChar[1] /\ 1 \in DOMAIN toChar
    BY <2>1, <2>2
  <2> QED BY <2>1, <2>5, <2>6, <2>7
<1>3. /\ k \in inTable /\ k \notin listed /\ decided[x].clan = k
      /\ \A y \in Chars : decided[y].clan = k => y = x
      /\ x \in Chars /\ k \in Clans /\ k # NoClan
  <2>1. toChar[1] \in News
    BY <1>2
  <2> QED BY <1>2, <2>1, Ranks DEF News, Right, NewsRight
<1>4. /\ listed' = listed \cup {k} /\ members' = [members EXCEPT ![k] = <<x>>]
      /\ entry' = [entry EXCEPT ![x] = Place(k, Master)]
  BY <1>1, <1>3 DEF NewClan
<1> HIDE DEF x, k
<1>5. \A i \in DOMAIN toChar \ {1} : toChar[i].clan # k /\ toChar[i].who \in Chars \ {x}
  <2>1. \A i \in DOMAIN toChar : toChar[i] \in News
    BY <1>2
  <2>2. \A i \in DOMAIN toChar \ {1} : toChar[i].clan # k
    BY <1>2 DEF Right, NewsRight, k
  <2> QED BY <1>3, <2>1, <2>2 DEF News, Right, NewsRight
<1>6. entry'[x] = Place(k, Master) /\ \A y \in Chars \ {x} : entry'[y] = entry[y]
  BY <1>3, <1>4 DEF TypeOK
<1>7. NewsRight'
  <2>1. ASSUME NEW i \in DOMAIN toChar'
        PROVE  /\ toChar'[i].clan \in inTable' \ listed'
               /\ decided'[toChar'[i].who].clan = toChar'[i].clan
               /\ toChar'[i].who \in online' => entry'[toChar'[i].who].clan \in {NoClan, toChar'[i].clan}
               /\ \A y \in Chars : decided'[y].clan = toChar'[i].clan => y = toChar'[i].who
    <3>1. i + 1 \in DOMAIN toChar \ {1} /\ toChar'[i] = toChar[i + 1]
      BY <1>2
    <3> QED BY <1>1, <1>4, <1>5, <1>6, <3>1 DEF Right, NewsRight
  <2>2. \A i, j \in DOMAIN toChar' : toChar'[i].clan = toChar'[j].clan => i = j
    <3> SUFFICES ASSUME NEW i \in DOMAIN toChar', NEW j \in DOMAIN toChar', toChar'[i].clan = toChar'[j].clan
                 PROVE  i = j
      OBVIOUS
    <3>1. i + 1 = j + 1
      BY <1>2 DEF Right, NewsRight
    <3>2. i \in Nat /\ j \in Nat
      <4>1. toChar' \in Seq(News)
        BY DEF TypeOK
      <4>2. Len(toChar') \in Nat /\ DOMAIN toChar' = 1..Len(toChar')
        BY <4>1, ListFacts
      <4> QED BY <4>2
    <3> QED BY <3>1, <3>2
  <2> QED BY <2>1, <2>2 DEF NewsRight
<1>8. ClansRight'
  <2>1. \A j \in inTable : j \in listed' \/ \E i \in DOMAIN toChar' : toChar'[i].clan = j
    <3> SUFFICES ASSUME NEW j \in inTable, j # k, j \notin listed
                 PROVE  \E i \in DOMAIN toChar' : toChar'[i].clan = j
      BY <1>4
    <3>1. PICK i \in DOMAIN toChar : toChar[i].clan = j
      BY DEF Right, ClansRight
    <3>2. i # 1
      BY <1>2, <3>1 DEF k
    <3> QED BY <1>2, <3>1, <3>2
  <2> QED BY <1>1, <1>3, <1>4, <2>1 DEF Right, ClansRight
<1>9. EntriesFollow'
  <2> SUFFICES ASSUME NEW y \in online
               PROVE  Says(entry'[y]) = decided[y] \/ \E i \in DOMAIN toChar' : toChar'[i].who = y
    BY <1>1 DEF EntriesFollow, Founding, About
  <2>1. y \in Chars
    BY DEF TypeOK
  <2>2. CASE y = x
    BY <1>1, <1>6, <2>2
  <2>3. CASE y # x
    <3>1. Says(entry[y]) = decided[y] \/ \E i \in DOMAIN toChar : toChar[i].who = y
      BY DEF Right, EntriesFollow, Founding, About
    <3>2. \A i \in DOMAIN toChar : toChar[i].who = y => i # 1
      BY <1>2, <2>3 DEF x
    <3> QED BY <1>2, <1>6, <2>1, <2>3, <3>1, <3>2
  <2> QED BY <2>2, <2>3
<1>10. MembersRight'
  <2> SUFFICES ASSUME NEW j \in listed \cup {k}
               PROVE  /\ Once(members'[j])
                      /\ \A y \in Chars : y \in ToSet(members'[j]) <=> decided[y].clan = j
    BY <1>1, <1>4 DEF MembersRight
  <2>1. CASE j = k
    <3>1. members'[k] = <<x>>
      BY <1>3, <1>4 DEF TypeOK
    <3>2. Once(<<x>>) /\ ToSet(<<x>>) = {x}
      BY DEF Once, ToSet
    <3> QED BY <1>3, <2>1, <3>1, <3>2
  <2>2. CASE j # k
    <3>1. j \in listed /\ members'[j] = members[j]
      BY <1>4, <2>2 DEF TypeOK
    <3> QED BY <3>1 DEF Right, MembersRight
  <2> QED BY <2>1, <2>2
<1>11. Fits'
  BY <1>1 DEF Right, Fits
<1> QED BY <1>7, <1>8, <1>9, <1>10, <1>11 DEF Right

-----------------------------------------------------------------------------
(* The theorems *)

\* What has drifted is not put right again.
LEMMA DriftStays ==
  ASSUME TypeOK, [Next]_vars, drifted
  PROVE  drifted'
<1>1. \A r, xs, d : RowsRead(r, xs, d) => drifted'
  BY DEF RowsRead
<1>2. CASE UNCHANGED vars
  BY <1>2 DEF vars, history
<1>3. CASE CharSteps
  <2>1. ASSUME NEW x \in Chars, pakRequestWorld(x) \/ OnClientDisconnect(x) \/ LeaveClan(x) \/ Disband(x)
        PROVE  drifted'
    BY <1>1, <2>1 DEF pakRequestWorld, OnClientDisconnect, LeaveClan, Disband, history
  <2>2. ASSUME NEW a \in Chars, NEW x \in Chars, Accept(a, x) \/ Kick(a, x)
        PROVE  drifted'
    BY <2>2 DEF Accept, Kick
  <2>3. ASSUME NEW a \in Chars, NEW x \in Chars, GiveMaster(a, x) \/ Promote(a, x) \/ Demote(a, x)
        PROVE  drifted'
    <3>1. \E k, e, r, d, told, m, read : Ranked(k, e, r, d, told, m, read)
      BY <2>3 DEF GiveMaster, Promote, Demote
    <3> QED BY <1>1, <3>1 DEF Ranked, Restarted
  <2>4. ASSUME NewClan
        PROVE  drifted'
    BY <2>4 DEF NewClan
  <2> QED BY <1>3, <2>1, <2>2, <2>3, <2>4 DEF CharSteps
<1>4. CASE WorldSteps
  <2>1. ASSUME NEW x \in Chars, loaddata(x) \/ savedata(x) \/ LeaveWorld(x) \/ pakCreateClan(x)
        PROVE  drifted'
    BY <1>1, <2>1 DEF loaddata, savedata, LeaveWorld, pakCreateClan, history
  <2>2. ASSUME Notice
        PROVE  drifted'
    BY <2>2 DEF Notice
  <2> QED BY <1>4, <2>1, <2>2 DEF WorldSteps
<1>5. CASE Crash
  BY <1>1, <1>5 DEF Crash, Restarted
<1>6. CASE WorldRestart
  BY <1>6 DEF WorldRestart
<1> QED BY <1>2, <1>3, <1>4, <1>5, <1>6 DEF Next

LEMMA RightAtFirst == Init => Right
<1> SUFFICES ASSUME Init PROVE Right
  OBVIOUS
<1>1. Says(Outside).clan = NoClan /\ ~Says(Outside).leads
  BY SaysFacts, PlaceFacts
<1>2. NewsRight /\ ClansRight
  BY <1>1 DEF Init, NewsRight, ClansRight, DecisionsRight
<1>3. EntriesFollow /\ MembersRight
  BY DEF Init, EntriesFollow, MembersRight
<1>4. Fits
  BY DEF Init, Fits, Agreed, JoinsSome, Following
<1> QED BY <1>2, <1>3, <1>4 DEF Right

LEMMA RightKept ==
  ASSUME TypeOK, TypeOK', Right, [Next]_vars, ~drifted'
  PROVE  Right'
<1>1. CASE UNCHANGED vars
  BY <1>1, RowsOnly DEF vars, table, history
<1>2. CASE CharSteps
  <2>1. ASSUME NEW x \in Chars, pakRequestWorld(x) \/ OnClientDisconnect(x) \/ LeaveClan(x) \/ Disband(x)
        PROVE  Right'
    BY <2>1, ComesOnline, GoesOffline, LeavesKeeps, DisbandKeeps
  <2>2. ASSUME NEW a \in Chars, NEW x \in Chars, Accept(a, x) \/ Kick(a, x)
        PROVE  Right'
    BY <2>2, JoinsKeeps, KicksKeep
  <2>3. ASSUME NEW a \in Chars, NEW x \in Chars, GiveMaster(a, x) \/ Promote(a, x) \/ Demote(a, x)
        PROVE  Right'
    BY <2>3, GivesKeeps, RerankKeeps
  <2>4. ASSUME NewClan
        PROVE  Right'
    BY <2>4, HearsKeeps
  <2> QED BY <1>2, <2>1, <2>2, <2>3, <2>4 DEF CharSteps
<1>3. CASE WorldSteps
  <2>1. ASSUME NEW x \in Chars, loaddata(x) \/ LeaveWorld(x) \/ pakCreateClan(x)
        PROVE  Right'
    BY <2>1, EntersWorld, LeavesWorld, FoundsKeeps
  <2>2. ASSUME NEW x \in Chars, savedata(x)
        PROVE  Right'
    BY <2>2, RowsOnly DEF savedata, history
  <2>3. ASSUME Notice
        PROVE  Right'
    BY <2>3, HandlesNotice
  <2> QED BY <1>3, <2>1, <2>2, <2>3 DEF WorldSteps
<1>4. CASE Crash
  <2>1. /\ Restarted(row, toWorld, decided, missed)
        /\ UNCHANGED <<inTable, founded, inWorld, player, decided, usurped>>
    BY <1>4 DEF Crash, table, worldSide
  <2>2. row \in [Chars -> Places] /\ toWorld \in Seq(Notices) /\ missed \in SUBSET Chars
    BY DEF TypeOK
  <2>3. /\ \A k \in inTable : k <= founded
        /\ DecisionsRight(decided, usurped', inTable)
        /\ Agreed(toWorld, decided, missed, inWorld, player)
    BY <2>1 DEF Right, ClansRight, Fits
  <2> QED BY <2>1, <2>2, <2>3, StartsAgain
<1>5. CASE WorldRestart
  BY <1>5, WorldStartsAgain
<1> QED BY <1>1, <1>2, <1>3, <1>4, <1>5 DEF Next

\* Until something is done on the strength of a copy that is out of date, or
\* the news of a clan finds no char server, the tables, the entries, the lists,
\* the packets and the players agree on what was decided, whoever sent the
\* request: but for the players the world server was not told about, and for a
\* second master of a clan that somebody else than its master named.
THEOREM RosterInvariant == Spec => []IInv
<1>1. Init => IInv
  BY TypeInit, RightAtFirst DEF IInv
<1>2. IInv /\ [Next]_vars => IInv'
  <2> SUFFICES ASSUME IInv, [Next]_vars PROVE IInv'
    OBVIOUS
  <2>1. TypeOK /\ TypeOK'
    BY TypeStep DEF IInv
  <2>2. CASE drifted'
    BY <2>1, <2>2 DEF IInv
  <2>3. CASE ~drifted'
    <3>1. Right
      BY <2>1, <2>3, DriftStays DEF IInv
    <3> QED BY <2>1, <2>3, <3>1, RightKept DEF IInv
  <2> QED BY <2>2, <2>3
<1> QED BY <1>1, <1>2, PTL DEF Spec

\* The entry of a client says what was decided about it last, but for the
\* founder of a clan the char server has not heard of.
THEOREM EntriesStayRight == Spec => []EntriesRight
<1>1. IInv => EntriesRight
  BY DEF IInv, Right, EntriesFollow, EntriesRight
<1> QED BY <1>1, RosterInvariant, PTL

\* Lists of members have every member once, through joining, leaving, kicks,
\* overwriting after a change of rank and restarts.
THEOREM ListsStayRight == Spec => []ListsRight
<1>1. IInv => ListsRight
  <2> SUFFICES ASSUME TypeOK, MembersRight, NEW k \in listed
               PROVE  /\ ToSet(members[k]) = {x \in Chars : decided[x].clan = k}
                      /\ Len(members[k]) = Cardinality(ToSet(members[k]))
    BY DEF IInv, Right, ListsRight
  <2>1. members[k] \in Seq(Chars)
    BY DEF TypeOK
  <2>2. Once(members[k]) /\ \A x \in Chars : x \in ToSet(members[k]) <=> decided[x].clan = k
    BY DEF MembersRight
  <2>3. \A e : e \in ToSet(members[k]) => e \in Chars
    BY <2>1, ListFacts
  <2>4. ToSet(members[k]) = {x \in Chars : decided[x].clan = k}
    BY <2>2, <2>3
  <2>5. Len(members[k]) = Cardinality(ToSet(members[k]))
    BY <2>1, <2>2, LenOfOnce
  <2> QED BY <2>4, <2>5
<1> QED BY <1>1, RosterInvariant, PTL

\* A founder whose entry shows a clan already, with the news on its way, is the
\* only one of this clan.
LEMMA FounderAlone ==
  ASSUME TypeOK, Right, NEW x \in online, Founding(x), entry[x].clan # NoClan
  PROVE  \A y \in Chars : decided[y].clan = entry[x].clan => y = x
<1>1. PICK i \in DOMAIN toChar : toChar[i].who = x
  BY DEF Founding, About
<1>2. /\ entry[x].clan = toChar[i].clan
      /\ \A y \in Chars : decided[y].clan = toChar[i].clan => y = x
  BY <1>1 DEF Right, NewsRight
<1> QED BY <1>2

\* No clan gets two masters in the entries of the char server, but one for
\* which somebody named a master without being its master itself.
THEOREM OneMasterEach == Spec => []OneMaster
<1>1. IInv => OneMaster
  <2> SUFFICES ASSUME TypeOK, Right, NEW x \in online, NEW y \in online,
                      Says(entry[x]).leads, Says(entry[y]).leads, entry[x].clan = entry[y].clan,
                      entry[x].clan \notin usurped
               PROVE  x = y
    BY DEF IInv, OneMaster
  <2>1. x \in Chars /\ y \in Chars
    BY DEF TypeOK
  <2>2. /\ entry[x].clan # NoClan /\ entry[x].rank = Master
        /\ entry[y].clan # NoClan /\ entry[y].rank = Master
    BY SaysFacts
  <2>3. \A z \in {x, y} : /\ ~Founding(z) => Says(entry[z]) = decided[z] /\ decided[z].clan = entry[z].clan
                          /\ Founding(z) => \A w \in Chars : decided[w].clan = entry[z].clan => w = z
    <3>1. \A z \in {x, y} : ~Founding(z) => Says(entry[z]) = decided[z]
      BY DEF Right, EntriesFollow
    <3>2. \A z \in {x, y} : Founding(z) => \A w \in Chars : decided[w].clan = entry[z].clan => w = z
      BY <2>2, FounderAlone
    <3> QED BY <3>1, <3>2, SaysFacts
  <2>4. CASE ~Founding(x) /\ ~Founding(y)
    <3>1. Says(entry[x]) = Says(entry[y])
      BY <2>2 DEF Says
    <3>2. decided[x].leads /\ decided[y] = decided[x] /\ decided[x].clan \notin usurped
      BY <2>3, <2>4, <3>1
    <3> QED BY <2>1, <3>2 DEF Right, ClansRight, DecisionsRight
  <2>5. CASE Founding(x) /\ ~Founding(y)
    BY <2>1, <2>3, <2>5
  <2>6. CASE Founding(y) /\ ~Founding(x)
    BY <2>1, <2>3, <2>6
  <2>7. CASE Founding(x) /\ Founding(y)
    <3>1. PICK i \in DOMAIN toChar : toChar[i].who = x
      BY <2>7 DEF Founding, About
    <3>2. PICK j \in DOMAIN toChar : toChar[j].who = y
      BY <2>7 DEF Founding, About
    <3>3. toChar[i].clan = entry[x].clan /\ toChar[j].clan = entry[y].clan
      BY <2>2, <3>1, <3>2 DEF Right, NewsRight
    <3>4. i = j
      BY <3>3 DEF Right, NewsRight
    <3> QED BY <3>1, <3>2, <3>4
  <2> QED BY <2>4, <2>5, <2>6, <2>7
<1> QED BY <1>1, RosterInvariant, PTL

\* The player on the world server gets what was decided, once the packets
\* about it have arrived, unless it is among those the world server was not
\* told about: whose connection to the char server was gone, whose char server
\* had started again, or whose clan was disbanded.
THEOREM PlayersFollowTheChars == Spec => []PlayerFollows
<1>1. IInv => PlayerFollows
  <2> SUFFICES ASSUME Fits, NEW x \in inWorld, ~Notified(x), x \notin missed
               PROVE  Says(player[x]) = decided[x]
    BY DEF IInv, Right, PlayerFollows
  <2>1. LastAbout(toWorld, 0, x)
    BY DEF Notified, About, LastAbout
  <2>2. Current(toWorld, decided[x], player[x], x)
    BY DEF Fits, Agreed
  <2> QED BY <2>1, <2>2 DEF Current
<1> QED BY <1>1, RosterInvariant, PTL

\* Only the row of somebody who is not in the clan makes a change of rank find
\* more rows than members.
THEOREM NothingOverrun == Spec => []NoOverrun
<1>1. IInv => NoOverrun
  <2> SUFFICES ASSUME TypeOK, Right, NEW k \in listed, Overrun(k, row),
                      \A x \in Chars : row[x].clan = k => decided[x].clan = k
               PROVE  FALSE
    BY DEF IInv, NoOverrun
  <2>1. k \in Clans /\ members[k] \in Seq(Chars)
    BY DEF TypeOK
  <2>2. Once(members[k]) /\ \A y \in Chars : y \in ToSet(members[k]) <=> decided[y].clan = k
    BY DEF Right, MembersRight
  <2>3. InClan(k, row) \subseteq ToSet(members[k])
    BY <2>2 DEF InClan
  <2>4. IsFiniteSet(ToSet(members[k])) /\ Cardinality(ToSet(members[k])) = Len(members[k])
    BY <2>1, <2>2, LenOfOnce
  <2>5. Cardinality(InClan(k, row)) <= Cardinality(ToSet(members[k]))
        /\ Cardinality(InClan(k, row)) \in Nat /\ Cardinality(ToSet(members[k])) \in Nat
    BY <2>3, <2>4, FS_Subset, FS_CardinalityType
  <2> QED BY <2>4, <2>5 DEF Overrun
<1> QED BY <1>1, RosterInvariant, PTL

-----------------------------------------------------------------------------
(* The clan's bank and the mail *)

\* What a mail is still owed for, and all of some mails.
Due(mail) == IF mail.is_claimed THEN 0 ELSE mail.zuly
DueIn(all) == SumFunctionOnSet([id \in Ids |-> Due(all[id])], Ids)
AnyMail == Mails \cup {NoMail}
ZulyIn(wallets) == SumFunctionOnSet(wallets, Players)

\* No mail has been written at an id above the last.
Unsent == \A id \in Ids : id > sent => mails[id] = NoMail

BankIInv == BankTypeOK /\ Unsent /\ MadeTwoWaysOnly

LEMMA NoStack == Empty \in Stacks
BY DEF Empty, Stacks

LEMMA MailFacts ==
  /\ NoMail \in AnyMail /\ Due(NoMail) = 0 /\ NoMail.is_claimed
  /\ \A mail \in AnyMail :
       /\ mail.zuly \in Nat /\ Due(mail) \in Nat /\ mail.goods \in Stacks
       /\ mail.is_claimed \in BOOLEAN
       /\ mail.is_claimed => Due(mail) = 0
       /\ ~ mail.is_claimed => Due(mail) = mail.zuly
<1>1. \A mail \in Mails : /\ mail.zuly \in Nat /\ mail.goods \in Stacks /\ mail.is_claimed \in BOOLEAN
  BY DEF Mails
<1>2. NoMail.zuly = 0 /\ NoMail.goods = Empty /\ NoMail.is_claimed = TRUE
  BY DEF NoMail
<1>3. \A mail \in AnyMail : mail.zuly \in Nat /\ mail.goods \in Stacks /\ mail.is_claimed \in BOOLEAN
  <2>1. NoMail.goods \in Stacks
    BY <1>2, NoStack
  <2>2. NoMail.zuly \in Nat /\ NoMail.is_claimed \in BOOLEAN
    BY DEF NoMail
  <2>3. \A mail \in AnyMail : mail \in Mails \/ mail = NoMail
    BY DEF AnyMail
  <2> TAKE mail \in AnyMail
  <2>4. CASE mail \in Mails
    BY <1>1, <2>4
  <2>5. CASE mail = NoMail
    BY <2>1, <2>2, <2>5
  <2> QED BY <2>3, <2>4, <2>5
<1>4. NoMail \in AnyMail /\ Due(NoMail) = 0
  BY <1>2 DEF AnyMail, Due
<1>5. \A mail : /\ mail.is_claimed => Due(mail) = 0
                /\ ~ mail.is_claimed => Due(mail) = mail.zuly
  BY DEF Due
<1>6. \A mail \in AnyMail : Due(mail) \in Nat
  BY <1>3, <1>5
<1> QED BY <1>2, <1>3, <1>4, <1>5, <1>6

LEMMA IdsFinite == IsFiniteSet(Ids) /\ \A id \in Ids : id \in Nat
BY MailAssumption, FS_Interval DEF Ids

\* One mail changes: what is owed changes with it.
LEMMA MailChanged ==
  ASSUME NEW before \in [Ids -> AnyMail], NEW after \in [Ids -> AnyMail], NEW id \in Ids,
         \A other \in Ids \ {id} : after[other] = before[other]
  PROVE  DueIn(after) = DueIn(before) + (Due(after[id]) - Due(before[id]))
<1> DEFINE F == [x \in Ids |-> Due(before[x])]
           G == [x \in Ids |-> Due(after[x])]
<1>1. \A x \in Ids : before[x] \in AnyMail /\ after[x] \in AnyMail
  OBVIOUS
<1>2. \A x \in Ids : F[x] \in Int /\ G[x] \in Int
  BY <1>1, MailFacts
<1>3. \A x \in Ids \ {id} : F[x] = G[x]
  OBVIOUS
<1>4. F[id] = Due(before[id]) /\ G[id] = Due(after[id])
  OBVIOUS
<1>5. DueIn(before) = SumFunctionOnSet(F, Ids) /\ DueIn(after) = SumFunctionOnSet(G, Ids)
  BY DEF DueIn
<1> HIDE DEF F, G
<1>6. IsFiniteSet(Ids)
  BY IdsFinite
<1>7. SumFunctionOnSet(G, Ids) = SumFunctionOnSet(F, Ids) + (G[id] - F[id])
  <2> DEFINE S == Ids
  <2>1. id \in S /\ IsFiniteSet(S)
    BY <1>6
  <2>2. \A x \in S : F[x] \in Int /\ G[x] \in Int
    BY <1>2
  <2>3. \A x \in S \ {id} : F[x] = G[x]
    BY <1>3
  <2> HIDE DEF S
  <2>4. SumFunctionOnSet(G, S) = SumFunctionOnSet(F, S) + (G[id] - F[id])
    BY <2>1, <2>2, <2>3, SumChanged
  <2> QED BY <2>4 DEF S
<1> QED BY <1>4, <1>5, <1>7

LEMMA DueType ==
  ASSUME NEW all \in [Ids -> AnyMail]
  PROVE  DueIn(all) \in Nat
<1> DEFINE F == [x \in Ids |-> Due(all[x])]
<1>1. \A x \in Ids : all[x] \in AnyMail
  OBVIOUS
<1>2. \A x \in Ids : F[x] \in Nat
  BY <1>1, MailFacts
<1>3. DueIn(all) = SumFunctionOnSet(F, Ids)
  BY DEF DueIn
<1> HIDE DEF F
<1> QED BY <1>2, <1>3, IdsFinite, SumNat

\* One wallet changes.
LEMMA WalletChanged ==
  ASSUME NEW before \in [Players -> Nat], NEW after \in [Players -> Nat], NEW p \in Players,
         \A other \in Players \ {p} : after[other] = before[other]
  PROVE  ZulyIn(after) = ZulyIn(before) + (after[p] - before[p])
<1>1. \A x \in Players : before[x] \in Int /\ after[x] \in Int
  OBVIOUS
<1>2. \A x \in Players \ {p} : before[x] = after[x]
  OBVIOUS
<1> QED BY <1>1, <1>2, FiniteAssumption, SumChanged DEF ZulyIn

LEMMA ZulyType ==
  ASSUME NEW wallets \in [Players -> Nat]
  PROVE  ZulyIn(wallets) \in Nat
<1>1. \A x \in Players : wallets[x] \in Nat
  OBVIOUS
<1> QED BY <1>1, FiniteAssumption, SumNat DEF ZulyIn

LEMMA InPlayIs ==
  /\ InPlay = ZulyIn(zuly) + DueIn(mails) + money
  /\ ZulyHeld(Players) = ZulyIn(zuly) /\ InMails = DueIn(mails)
<1>1. ZulyHeld(Players) = ZulyIn(zuly)
  BY DEF ZulyHeld, ZulyIn
<1>2. InMails = DueIn(mails)
  BY DEF InMails, DueIn, Due, SumFunction
<1> QED BY <1>1, <1>2 DEF InPlay

\* Parts of the type invariant.
LEMMA BankParts ==
  ASSUME BankTypeOK
  PROVE  /\ items \in [Players -> Inventories] /\ zuly \in [Players -> Nat]
         /\ savedItems \in [Players -> Inventories] /\ savedZuly \in [Players -> Nat]
         /\ mails \in [Ids -> AnyMail] /\ sent \in Nat /\ sent <= MaxMails
         /\ stops \in Nat /\ stops <= MaxStops /\ made \in Nat
         /\ money \in Nat /\ copy \in [Players -> Nat]
BY MailAssumption DEF BankTypeOK, MailTypeOK, HoldingsTypeOK, AnyMail

\* Nothing is owed for mails that were not written.
LEMMA NothingDue ==
  ASSUME NEW all \in [Ids -> AnyMail], \A id \in Ids : all[id] = NoMail
  PROVE  DueIn(all) = 0
<1> DEFINE F == [x \in Ids |-> Due(all[x])]
<1>1. \A x \in Ids : F[x] = 0
  BY MailFacts
<1>2. \A x \in Ids : F[x] \in Int /\ F[x] = F[x] + F[x]
  BY <1>1
<1>3. DueIn(all) = SumFunctionOnSet(F, Ids) /\ IsFiniteSet(Ids)
  BY IdsFinite DEF DueIn
<1> HIDE DEF F
<1>4. SumFunctionOnSet(F, Ids) = SumFunctionOnSet(F, Ids) + SumFunctionOnSet(F, Ids)
  BY <1>2, <1>3, SumOfBoth
<1> QED BY <1>3, <1>4, DueType

\* The state a step leads to, part by part.
LEMMA BankWhole ==
  ASSUME items \in [Players -> Inventories], zuly \in [Players -> Nat],
         savedItems \in [Players -> Inventories], savedZuly \in [Players -> Nat],
         mails \in [Ids -> AnyMail], sent \in 0..MaxMails, stops \in 0..MaxStops, made \in Nat,
         money \in Nat, copy \in [Players -> Nat]
  PROVE  BankTypeOK
BY DEF BankTypeOK, MailTypeOK, HoldingsTypeOK, AnyMail

\* What is in play in a state and the next.
LEMMA PlayNow ==
  ASSUME BankTypeOK, BankTypeOK'
  PROVE  /\ InPlay = ZulyIn(zuly) + DueIn(mails) + money
         /\ InPlay' = ZulyIn(zuly') + DueIn(mails') + money'
         /\ \A wallets \in {zuly, zuly'} : ZulyIn(wallets) \in Nat
         /\ \A all \in {mails, mails'} : DueIn(all) \in Nat
         /\ InPlay \in Nat /\ InPlay' \in Nat /\ money \in Nat /\ money' \in Nat
<1>1. /\ zuly \in [Players -> Nat] /\ mails \in [Ids -> AnyMail] /\ money \in Nat
      /\ zuly' \in [Players -> Nat] /\ mails' \in [Ids -> AnyMail] /\ money' \in Nat
  BY DEF BankTypeOK, MailTypeOK, HoldingsTypeOK, AnyMail
<1>2. ZulyIn(zuly) \in Nat /\ ZulyIn(zuly') \in Nat /\ DueIn(mails) \in Nat /\ DueIn(mails') \in Nat
  BY <1>1, ZulyType, DueType
<1>3. InPlay' = ZulyIn(zuly') + DueIn(mails') + money'
  <2>1. ZulyHeld(Players)' = ZulyIn(zuly')
    BY DEF ZulyHeld, ZulyIn
  <2>2. InMails' = DueIn(mails')
    BY DEF InMails, DueIn, Due, SumFunction
  <2> QED BY <2>1, <2>2 DEF InPlay
<1> QED BY <1>1, <1>2, <1>3, InPlayIs

\* A slot less is still an inventory.
LEMMA WithoutFits ==
  ASSUME NEW inv \in Inventories, NEW s \in {NoSlot} \cup InvSlots
  PROVE  Without(inv, s) \in Inventories
BY NoStack DEF Without, Inventories

\* The other parts of a step that writes one mail or none, in one wallet.
OneMove(p, id) ==
  /\ p \in Players /\ id \in Ids
  /\ \A q \in Players \ {p} : zuly'[q] = zuly[q]
  /\ \A x \in Ids \ {id} : mails'[x] = mails[x]

LEMMA OneMoveInPlay ==
  ASSUME BankTypeOK, BankTypeOK', NEW p, NEW id, OneMove(p, id)
  PROVE  /\ InPlay' = InPlay + (zuly'[p] - zuly[p]) + (Due(mails'[id]) - Due(mails[id]))
                             + (money' - money)
         /\ InPlay \in Nat /\ InPlay' \in Nat
         /\ zuly[p] \in Nat /\ zuly'[p] \in Nat
         /\ Due(mails[id]) \in Nat /\ Due(mails'[id]) \in Nat
<1>1. /\ zuly \in [Players -> Nat] /\ mails \in [Ids -> AnyMail]
      /\ zuly' \in [Players -> Nat] /\ mails' \in [Ids -> AnyMail]
  BY DEF BankTypeOK, MailTypeOK, HoldingsTypeOK, AnyMail
<1>2. p \in Players /\ id \in Ids
  BY DEF OneMove
<1>3. ZulyIn(zuly') = ZulyIn(zuly) + (zuly'[p] - zuly[p])
  BY <1>1, <1>2, WalletChanged DEF OneMove
<1>4. DueIn(mails') = DueIn(mails) + (Due(mails'[id]) - Due(mails[id]))
  BY <1>1, <1>2, MailChanged DEF OneMove
<1>5. /\ zuly[p] \in Nat /\ zuly'[p] \in Nat
      /\ Due(mails[id]) \in Nat /\ Due(mails'[id]) \in Nat
  BY <1>1, <1>2, MailFacts
<1> QED BY <1>3, <1>4, <1>5, PlayNow

\* Sending: what leaves the wallet is owed by a mail nobody has yet.
LEMMA Sends ==
  ASSUME BankTypeOK, Unsent, NEW p \in Players, NEW to \in Players, NEW n \in Amounts,
         NEW s \in {NoSlot} \cup InvSlots, SendMail(p, to, n, s), UNCHANGED balance
  PROVE  BankTypeOK' /\ Unsent' /\ InPlay' = InPlay /\ made' = made
<1> DEFINE mail == [to |-> to, zuly |-> n, goods |-> SentStack(p, s), is_claimed |-> FALSE]
<1>0. n \in Nat /\ MaxMails \in Nat
  BY MailAssumption
<1>1. /\ items \in [Players -> Inventories] /\ zuly \in [Players -> Nat]
      /\ savedItems \in [Players -> Inventories] /\ savedZuly \in [Players -> Nat]
      /\ mails \in [Ids -> AnyMail] /\ sent \in Nat /\ stops \in 0..MaxStops /\ made \in Nat
      /\ money \in Nat /\ copy \in [Players -> Nat]
  BY <1>0 DEF BankTypeOK, MailTypeOK, HoldingsTypeOK, AnyMail
<1>2. /\ sent < MaxMails /\ n <= zuly[p] /\ sent' = sent + 1
      /\ items' = [items EXCEPT ![p] = Without(@, s)]
      /\ zuly' = [zuly EXCEPT ![p] = @ - n]
      /\ mails' = [mails EXCEPT ![sent'] = mail]
      /\ savedItems' = savedItems /\ savedZuly' = savedZuly /\ stops' = stops /\ made' = made
      /\ money' = money /\ copy' = copy
  BY DEF SendMail, saved, balance
<1>3. sent' \in Ids /\ sent' \in 0..MaxMails /\ zuly[p] \in Nat /\ zuly[p] - n \in Nat
  BY <1>0, <1>1, <1>2 DEF Ids
<1>4. items' \in [Players -> Inventories]
  BY <1>1, <1>2, WithoutFits
<1>5. zuly' \in [Players -> Nat] /\ zuly'[p] = zuly[p] - n /\ \A q \in Players \ {p} : zuly'[q] = zuly[q]
  BY <1>1, <1>2, <1>3
<1>6. mail \in AnyMail /\ Due(mail) = n
  <2>1. SentStack(p, s) \in Stacks
    BY <1>1, NoStack DEF SentStack, Inventories
  <2> QED BY <1>0, <2>1 DEF AnyMail, Mails, Due
<1> HIDE DEF mail
<1>7. /\ mails' \in [Ids -> AnyMail] /\ mails'[sent'] = mail
      /\ \A x \in Ids \ {sent'} : mails'[x] = mails[x]
  BY <1>1, <1>2, <1>3, <1>6
<1>8. BankTypeOK'
  <2>1. /\ savedItems' \in [Players -> Inventories] /\ savedZuly' \in [Players -> Nat]
        /\ stops' \in 0..MaxStops /\ made' \in Nat /\ money' \in Nat /\ copy' \in [Players -> Nat]
    BY <1>1, <1>2
  <2> QED BY <1>3, <1>4, <1>5, <1>7, <2>1 DEF BankTypeOK, MailTypeOK, HoldingsTypeOK, AnyMail
<1>9. Unsent'
  <2> SUFFICES ASSUME NEW id \in Ids, id > sent' PROVE mails'[id] = NoMail
    BY DEF Unsent
  <2>1. id \in Nat /\ id # sent' /\ id > sent
    BY <1>1, <1>2 DEF Ids
  <2> QED BY <1>7, <2>1 DEF Unsent
<1>10. Due(mails[sent']) = 0
  <2>1. sent' > sent
    BY <1>1, <1>2
  <2> QED BY <1>3, <2>1, MailFacts DEF Unsent
<1>11. OneMove(p, sent')
  BY <1>3, <1>5, <1>7 DEF OneMove
<1>12. /\ InPlay' = InPlay + (zuly'[p] - zuly[p]) + (Due(mails'[sent']) - Due(mails[sent']))
                          + (money' - money)
       /\ InPlay \in Nat
  BY <1>8, <1>11, OneMoveInPlay
<1>13. zuly'[p] - zuly[p] = 0 - n /\ Due(mails'[sent']) - Due(mails[sent']) = n /\ money' - money = 0
  BY <1>0, <1>1, <1>2, <1>3, <1>5, <1>6, <1>7, <1>10
<1>14. InPlay' = InPlay
  BY <1>0, <1>12, <1>13
<1> QED BY <1>2, <1>8, <1>9, <1>14

\* To nobody: no zuly moves.
LEMMA SendsToNobody ==
  ASSUME BankTypeOK, Unsent, NEW p \in Players, NEW n \in Amounts,
         NEW s \in {NoSlot} \cup InvSlots, SendMailToNobody(p, n, s), UNCHANGED balance
  PROVE  BankTypeOK' /\ Unsent' /\ InPlay' = InPlay /\ made' = made
<1>1. /\ items \in [Players -> Inventories]
      /\ items' = [items EXCEPT ![p] = Without(@, s)]
      /\ zuly' = zuly /\ savedItems' = savedItems /\ savedZuly' = savedZuly /\ mails' = mails
      /\ sent' = sent /\ stops' = stops /\ made' = made /\ money' = money /\ copy' = copy
  BY DEF SendMailToNobody, saved, balance, BankTypeOK, MailTypeOK, HoldingsTypeOK
<1>2. items' \in [Players -> Inventories]
  BY <1>1, WithoutFits
<1>3. BankTypeOK'
  BY <1>1, <1>2 DEF BankTypeOK, MailTypeOK, HoldingsTypeOK
<1>4. Unsent'
  BY <1>1 DEF Unsent
<1>5. InPlay' = InPlay
  BY <1>1, <1>3, PlayNow
<1> QED BY <1>1, <1>3, <1>4, <1>5

\* Claiming: the mail is owed for no more, and its claimant has it.
LEMMA Claims ==
  ASSUME BankTypeOK, Unsent, NEW p \in Players, NEW id \in Ids, ClaimMail(p, id), UNCHANGED balance
  PROVE  BankTypeOK' /\ Unsent' /\ InPlay' = InPlay /\ made' = made
<1> DEFINE claimed == [mails[id] EXCEPT !.is_claimed = TRUE]
<1>1. /\ items \in [Players -> Inventories] /\ zuly \in [Players -> Nat]
      /\ mails \in [Ids -> AnyMail] /\ sent \in 0..MaxMails
      /\ money \in Nat
  BY DEF BankTypeOK, MailTypeOK, HoldingsTypeOK, AnyMail
<1>2. mails[id].goods = Empty
  BY DEF ClaimMail, ClaimSlot
<1>3. /\ ~ mails[id].is_claimed
      /\ items' = items
      /\ zuly' = [zuly EXCEPT ![p] = @ + mails[id].zuly]
      /\ mails' = [mails EXCEPT ![id] = claimed]
      /\ savedItems' = savedItems /\ savedZuly' = savedZuly
      /\ sent' = sent /\ stops' = stops /\ made' = made /\ money' = money /\ copy' = copy
  BY <1>2 DEF ClaimMail, saved, balance
<1>4. /\ mails[id] \in AnyMail /\ mails[id].zuly \in Nat /\ Due(mails[id]) = mails[id].zuly
      /\ mails[id] # NoMail
  BY <1>1, <1>3, MailFacts
<1>5. claimed \in AnyMail /\ claimed.is_claimed
  BY <1>4 DEF AnyMail, Mails
<1>6. Due(claimed) = 0
  BY <1>5 DEF Due
<1> HIDE DEF claimed
<1>7. /\ mails' \in [Ids -> AnyMail] /\ mails'[id] = claimed
      /\ \A x \in Ids \ {id} : mails'[x] = mails[x]
  BY <1>1, <1>3, <1>5
<1>8. /\ zuly' \in [Players -> Nat] /\ zuly'[p] = zuly[p] + mails[id].zuly
      /\ \A q \in Players \ {p} : zuly'[q] = zuly[q]
  BY <1>1, <1>3, <1>4
<1>9. BankTypeOK'
  BY <1>3, <1>7, <1>8 DEF BankTypeOK, MailTypeOK, HoldingsTypeOK, AnyMail
<1>10. Unsent'
  BY <1>3, <1>4, <1>7 DEF Unsent
<1>11. OneMove(p, id)
  BY <1>7, <1>8 DEF OneMove
<1>12. /\ InPlay' = InPlay + (zuly'[p] - zuly[p]) + (Due(mails'[id]) - Due(mails[id]))
                          + (money' - money)
       /\ InPlay \in Nat /\ zuly[p] \in Nat
  BY <1>9, <1>11, OneMoveInPlay
<1>13. /\ zuly'[p] - zuly[p] = mails[id].zuly
       /\ Due(mails'[id]) - Due(mails[id]) = 0 - mails[id].zuly
       /\ money' - money = 0
  BY <1>1, <1>3, <1>4, <1>6, <1>7, <1>8, <1>12
<1>14. InPlay' = InPlay
  BY <1>4, <1>12, <1>13
<1> QED BY <1>3, <1>9, <1>10, <1>14

\* Deleting: what the mail was owed for is lost.
LEMMA Deletes ==
  ASSUME BankTypeOK, Unsent, NEW p \in Players, NEW id \in Ids, DeleteMail(p, id), UNCHANGED balance
  PROVE  /\ BankTypeOK' /\ Unsent' /\ made' = made
         /\ InPlay' = InPlay - Due(mails[id]) /\ Due(mails[id]) \in Nat /\ InPlay \in Nat
         /\ mails'[id] = NoMail
<1>1. /\ zuly \in [Players -> Nat] /\ mails \in [Ids -> AnyMail] /\ money \in Nat
  BY DEF BankTypeOK, MailTypeOK, HoldingsTypeOK, AnyMail
<1>2. /\ mails' = [mails EXCEPT ![id] = NoMail]
      /\ items' = items /\ zuly' = zuly /\ savedItems' = savedItems /\ savedZuly' = savedZuly
      /\ sent' = sent /\ stops' = stops /\ made' = made /\ money' = money /\ copy' = copy
  BY DEF DeleteMail, saved, balance
<1>3. /\ mails' \in [Ids -> AnyMail] /\ mails'[id] = NoMail
      /\ \A x \in Ids \ {id} : mails'[x] = mails[x]
  BY <1>1, <1>2, MailFacts
<1>4. BankTypeOK'
  BY <1>2, <1>3 DEF BankTypeOK, MailTypeOK, HoldingsTypeOK, AnyMail
<1>5. Unsent'
  BY <1>2, <1>3 DEF Unsent
<1>6. OneMove(p, id)
  BY <1>2, <1>3 DEF OneMove
<1>7. /\ InPlay' = InPlay + (zuly'[p] - zuly[p]) + (Due(mails'[id]) - Due(mails[id]))
                         + (money' - money)
      /\ InPlay \in Nat /\ zuly[p] \in Nat /\ Due(mails[id]) \in Nat
  BY <1>4, <1>6, OneMoveInPlay
<1>8. Due(mails'[id]) = 0 /\ zuly'[p] = zuly[p] /\ money' = money
  BY <1>2, <1>3, MailFacts
<1> QED BY <1>1, <1>2, <1>3, <1>4, <1>5, <1>7, <1>8

\* Saving moves nothing in memory.
LEMMA Saves ==
  ASSUME BankTypeOK, Unsent, NEW p \in Players, autosave(p), money' = money,
         copy' \in [Players -> Nat]
  PROVE  BankTypeOK' /\ Unsent' /\ InPlay' = InPlay /\ made' = made
<1>1. /\ savedItems' = [savedItems EXCEPT ![p] = items[p]]
      /\ savedZuly' = [savedZuly EXCEPT ![p] = zuly[p]]
      /\ items' = items /\ zuly' = zuly /\ mails' = mails
      /\ sent' = sent /\ stops' = stops /\ made' = made /\ money' = money
  BY DEF autosave
<1>2. BankTypeOK'
  BY <1>1 DEF BankTypeOK, MailTypeOK, HoldingsTypeOK
<1>3. Unsent'
  BY <1>1 DEF Unsent
<1>4. InPlay' = InPlay
  BY <1>1, <1>2, PlayNow
<1> QED BY <1>1, <1>2, <1>3, <1>4

\* A deposit or a withdrawal moves zuly between wallet and copy, and the copy
\* goes over the balance.
LEMMA MovesMoney ==
  ASSUME BankTypeOK, Unsent, NEW p \in Players, NEW n \in Amounts,
         BankDeposit(p, n) \/ BankWithdraw(p, n)
  PROVE  /\ BankTypeOK' /\ Unsent' /\ copy'[p] = money'
         /\ InPlay' = InPlay + (copy[p] - money) /\ made' = made + Made(p)
         /\ InPlay \in Nat /\ copy[p] \in Nat /\ money \in Nat /\ made \in Nat
<1>1. /\ zuly \in [Players -> Nat] /\ copy \in [Players -> Nat] /\ money \in Nat /\ made \in Nat
      /\ mails \in [Ids -> AnyMail] /\ n \in Nat /\ zuly[p] \in Nat /\ copy[p] \in Nat
  BY MailAssumption DEF BankTypeOK, MailTypeOK, HoldingsTypeOK, AnyMail
<1>2. PICK w \in Nat, c \in Nat :
        /\ zuly' = [zuly EXCEPT ![p] = w] /\ copy' = [copy EXCEPT ![p] = c]
        /\ w + c = zuly[p] + copy[p]
  <2>1. CASE BankDeposit(p, n)
    <3>1. zuly[p] - n \in Nat /\ copy[p] + n \in Nat /\ (zuly[p] - n) + (copy[p] + n) = zuly[p] + copy[p]
      BY <1>1, <2>1 DEF BankDeposit
    <3> QED BY <2>1, <3>1 DEF BankDeposit
  <2>2. CASE BankWithdraw(p, n)
    <3>1. zuly[p] + n \in Nat /\ copy[p] - n \in Nat /\ (zuly[p] + n) + (copy[p] - n) = zuly[p] + copy[p]
      BY <1>1, <2>2 DEF BankWithdraw
    <3> QED BY <2>2, <3>1 DEF BankWithdraw
  <2> QED BY <2>1, <2>2
<1>3. /\ money' = copy'[p] /\ made' = made + Made(p)
      /\ items' = items /\ savedItems' = savedItems /\ savedZuly' = savedZuly
      /\ mails' = mails /\ sent' = sent /\ stops' = stops
  BY DEF BankDeposit, BankWithdraw, saved
<1>4. Made(p) \in Nat
  BY <1>1 DEF Made
<1>5. /\ zuly' \in [Players -> Nat] /\ copy' \in [Players -> Nat] /\ money' = c
      /\ zuly'[p] = w /\ \A q \in Players \ {p} : zuly'[q] = zuly[q]
  BY <1>1, <1>2, <1>3
<1>6. BankTypeOK'
  BY <1>1, <1>3, <1>4, <1>5 DEF BankTypeOK, MailTypeOK, HoldingsTypeOK, AnyMail
<1>7. Unsent'
  BY <1>3 DEF Unsent
<1>8. ZulyIn(zuly') = ZulyIn(zuly) + (zuly'[p] - zuly[p])
  BY <1>1, <1>5, WalletChanged
<1>9. /\ InPlay = ZulyIn(zuly) + DueIn(mails) + money
      /\ InPlay' = ZulyIn(zuly') + DueIn(mails) + c
      /\ ZulyIn(zuly) \in Nat /\ ZulyIn(zuly') \in Nat /\ DueIn(mails) \in Nat /\ InPlay \in Nat
  BY <1>3, <1>5, <1>6, PlayNow
<1>10. ZulyIn(zuly') = ZulyIn(zuly) + (w - zuly[p])
  BY <1>5, <1>8
<1>11. InPlay' = InPlay + (copy[p] - money)
  BY <1>1, <1>2, <1>9, <1>10
<1> QED BY <1>1, <1>3, <1>6, <1>7, <1>9, <1>11

\* What each player would get back.
AtRisk(p) == IF savedZuly[p] > zuly[p] THEN savedZuly[p] - zuly[p] ELSE 0

\* A crash gives back no more than was exposed.
LEMMA CrashGives ==
  ASSUME BankTypeOK
  PROVE  Exposure \in Nat /\ ZulyIn(savedZuly) <= ZulyIn(zuly) + Exposure
<1> DEFINE G == [p \in Players |-> AtRisk(p)]
           H == [p \in Players |-> zuly[p] + AtRisk(p)]
<1>1. zuly \in [Players -> Nat] /\ savedZuly \in [Players -> Nat]
  BY DEF BankTypeOK, MailTypeOK, HoldingsTypeOK
<1>2. \A p \in Players : AtRisk(p) \in Nat /\ savedZuly[p] <= zuly[p] + AtRisk(p)
  BY <1>1 DEF AtRisk
<1>3. Exposure = SumFunctionOnSet(G, Players)
  BY DEF Exposure, AtRisk, SumFunction
<1>4. \A p \in Players : G[p] \in Nat
  BY <1>2
<1>5. \A p \in Players : zuly[p] \in Int /\ G[p] \in Int /\ H[p] \in Int /\ H[p] = zuly[p] + G[p]
  BY <1>1, <1>2
<1>6. \A p \in Players : savedZuly[p] \in Int /\ H[p] \in Int /\ savedZuly[p] <= H[p]
  BY <1>1, <1>2
<1> HIDE DEF G, H
<1>7. SumFunctionOnSet(G, Players) \in Nat
  BY <1>4, FiniteAssumption, SumNat
<1>8. SumFunctionOnSet(H, Players) = ZulyIn(zuly) + SumFunctionOnSet(G, Players)
  BY <1>5, FiniteAssumption, SumOfBoth DEF ZulyIn
<1>9. ZulyIn(savedZuly) <= SumFunctionOnSet(H, Players)
  BY <1>6, FiniteAssumption, SumMonotone DEF ZulyIn
<1> QED BY <1>3, <1>7, <1>8, <1>9

LEMMA Stops ==
  ASSUME BankTypeOK, Unsent, Stop
  PROVE  /\ BankTypeOK' /\ Unsent' /\ InPlay' <= InPlay + Exposure
         /\ made' = made + Exposure /\ stops' # stops /\ Exposure \in Nat
<1>1. /\ zuly \in [Players -> Nat] /\ savedZuly \in [Players -> Nat]
      /\ savedItems \in [Players -> Inventories]
      /\ stops \in 0..MaxStops /\ made \in Nat /\ money \in Nat
  BY DEF BankTypeOK, MailTypeOK, HoldingsTypeOK
<1>2. /\ stops < MaxStops /\ items' = savedItems /\ zuly' = savedZuly /\ stops' = stops + 1
      /\ made' = made + Exposure /\ savedItems' = savedItems /\ savedZuly' = savedZuly
      /\ mails' = mails /\ sent' = sent
      /\ copy' = [p \in Players |-> money] /\ money' = money
  BY DEF Stop, Halt, saved
<1>3. Exposure \in Nat /\ ZulyIn(savedZuly) <= ZulyIn(zuly) + Exposure
  BY CrashGives
<1>4. stops' \in 0..MaxStops /\ stops' # stops /\ made' \in Nat /\ copy' \in [Players -> Nat]
  BY <1>1, <1>2, <1>3, MailAssumption
<1>5. BankTypeOK'
  BY <1>1, <1>2, <1>4 DEF BankTypeOK, MailTypeOK, HoldingsTypeOK
<1>6. Unsent'
  BY <1>2 DEF Unsent
<1>7. /\ InPlay = ZulyIn(zuly) + DueIn(mails) + money
      /\ InPlay' = ZulyIn(savedZuly) + DueIn(mails) + money
      /\ ZulyIn(zuly) \in Nat /\ ZulyIn(savedZuly) \in Nat /\ DueIn(mails) \in Nat
  BY <1>2, <1>5, PlayNow
<1>8. InPlay' <= InPlay + Exposure
  BY <1>1, <1>3, <1>7
<1> QED BY <1>2, <1>3, <1>4, <1>5, <1>6, <1>8

-----------------------------------------------------------------------------
\* What one step of the bank or the mail does to what is in play.
LEMMA BankStep ==
  ASSUME BankTypeOK, Unsent, [BankNext]_bankvars
  PROVE  /\ BankTypeOK' /\ Unsent'
         /\ \/ InPlay' = InPlay /\ made' = made
            \/ /\ made' = made
               /\ \E id \in Ids : /\ InPlay' = InPlay - Due(mails[id])
                                  /\ Due(mails[id]) \in Nat /\ mails'[id] = NoMail
            \/ \E p \in Players : /\ copy'[p] = money' /\ made' = made + Made(p)
                                  /\ InPlay' = InPlay + (copy[p] - money)
            \/ InPlay' <= InPlay + Exposure /\ made' = made + Exposure /\ stops' # stops
<1>1. ASSUME NEW p \in Players, Commands(p), UNCHANGED balance
      PROVE  /\ BankTypeOK' /\ Unsent' /\ made' = made
             /\ \/ InPlay' = InPlay
                \/ \E id \in Ids : /\ InPlay' = InPlay - Due(mails[id])
                                   /\ Due(mails[id]) \in Nat /\ mails'[id] = NoMail
  <2>1. CASE \E n \in Amounts, s \in {NoSlot} \cup InvSlots :
               \/ \E to \in Players : SendMail(p, to, n, s)
               \/ SendMailToNobody(p, n, s)
    BY <1>1, <2>1, Sends, SendsToNobody
  <2>2. CASE \E id \in Ids : ClaimMail(p, id)
    BY <1>1, <2>2, Claims
  <2>3. CASE \E id \in Ids : DeleteMail(p, id)
    BY <1>1, <2>3, Deletes
  <2> QED BY <1>1, <2>1, <2>2, <2>3 DEF Commands
<1>2. ASSUME NEW p \in Players, autosave(p), UNCHANGED balance \/ Relogin(p)
      PROVE  BankTypeOK' /\ Unsent' /\ InPlay' = InPlay /\ made' = made
  <2>1. money' = money /\ copy' \in [Players -> Nat]
    BY <1>2 DEF Relogin, balance, BankTypeOK
  <2> QED BY <1>2, <2>1, Saves
<1>3. CASE UNCHANGED bankvars
  <2>1. /\ items' = items /\ zuly' = zuly /\ savedItems' = savedItems /\ savedZuly' = savedZuly
        /\ mails' = mails /\ sent' = sent /\ stops' = stops /\ made' = made
        /\ money' = money /\ copy' = copy
    BY <1>3 DEF bankvars, mailvars, saved, balance
  <2>2. BankTypeOK'
    BY <2>1 DEF BankTypeOK, MailTypeOK, HoldingsTypeOK
  <2>3. Unsent'
    BY <2>1 DEF Unsent
  <2>4. InPlay' = InPlay
    BY <2>1, <2>2, PlayNow
  <2> QED BY <2>1, <2>2, <2>3, <2>4
<1>4. CASE Stop
  BY <1>4, Stops
<1>5. ASSUME NEW p \in Players, NEW n \in Amounts, BankDeposit(p, n) \/ BankWithdraw(p, n)
      PROVE  /\ BankTypeOK' /\ Unsent' /\ copy'[p] = money' /\ made' = made + Made(p)
             /\ InPlay' = InPlay + (copy[p] - money)
  BY <1>5, MovesMoney
<1>6. CASE BankNext
  <2>1. \/ \E p \in Players : (Commands(p) \/ autosave(p)) /\ UNCHANGED balance
        \/ \E p \in Players, n \in Amounts : BankDeposit(p, n) \/ BankWithdraw(p, n)
        \/ \E p \in Players : Relogin(p)
        \/ Stop
    BY <1>6 DEF BankNext
  <2>2. \A p \in Players : Relogin(p) => autosave(p)
    BY DEF Relogin
  <2>3. CASE \E p \in Players : Commands(p) /\ UNCHANGED balance
    BY <1>1, <2>3
  <2>4. CASE \E p \in Players : autosave(p) /\ (UNCHANGED balance \/ Relogin(p))
    BY <1>2, <2>4
  <2>5. CASE \E p \in Players, n \in Amounts : BankDeposit(p, n) \/ BankWithdraw(p, n)
    BY <1>5, <2>5
  <2> QED BY <1>4, <2>1, <2>2, <2>3, <2>4, <2>5
<1> QED BY <1>3, <1>6

\* At the start nothing was made and no mail is owed for.
LEMMA BankStarts ==
  ASSUME BankInit
  PROVE  BankIInv
<1>1. /\ items = InitItems /\ savedItems = InitItems /\ zuly = InitZuly /\ savedZuly = InitZuly
      /\ mails = [id \in Ids |-> NoMail] /\ sent = 0 /\ stops = 0 /\ made = 0
      /\ money = InitMoney /\ copy \in [Players -> {0, InitMoney}]
  BY DEF BankInit, MailInit
<1>2. mails \in [Ids -> AnyMail] /\ \A id \in Ids : mails[id] = NoMail
  BY <1>1, MailFacts
<1>3. BankTypeOK
  <2>1. copy \in [Players -> Nat] /\ money \in Nat
    BY <1>1, BankAssumption
  <2>2. sent \in 0..MaxMails /\ stops \in 0..MaxStops /\ made \in Nat
    BY <1>1, MailAssumption
  <2> QED BY <1>1, <1>2, <2>1, <2>2, StartAssumption
          DEF BankTypeOK, MailTypeOK, HoldingsTypeOK, AnyMail
<1>4. DueIn(mails) = 0
  BY <1>2, NothingDue
<1>5. InPlay = ZulyIn(InitZuly) + 0 + InitMoney
  BY <1>1, <1>4, InPlayIs
<1>6. AtStart = ZulyIn(InitZuly) + InitMoney /\ ZulyIn(InitZuly) \in Nat /\ InitMoney \in Nat
  BY StartAssumption, BankAssumption, ZulyType DEF AtStart, ZulyIn, SumFunction
<1>7. InPlay <= AtStart + made
  BY <1>1, <1>5, <1>6
<1> QED BY <1>2, <1>3, <1>7 DEF BankIInv, Unsent, MadeTwoWaysOnly

LEMMA BankKept ==
  ASSUME BankIInv, [BankNext]_bankvars
  PROVE  BankIInv'
<1>1. BankTypeOK /\ Unsent /\ InPlay <= AtStart + made
  BY DEF BankIInv, MadeTwoWaysOnly
<1>2. BankTypeOK' /\ Unsent'
  BY <1>1, BankStep
<1>3. AtStart' = AtStart /\ AtStart \in Nat
  BY StartAssumption, BankAssumption, ZulyType DEF AtStart, ZulyIn, SumFunction
<1>4. /\ InPlay \in Nat /\ InPlay' \in Nat /\ made \in Nat /\ money \in Nat
      /\ \A p \in Players : copy[p] \in Nat
  BY <1>1, <1>2, PlayNow DEF BankTypeOK, MailTypeOK
<1>5. Exposure \in Nat
  BY <1>1, CrashGives
<1>6. \A p \in Players : Made(p) \in Nat /\ copy[p] - money <= Made(p)
  BY <1>4 DEF Made
<1>7. InPlay' <= AtStart + made'
  <2>1. CASE InPlay' = InPlay /\ made' = made
    BY <1>1, <2>1
  <2>2. CASE /\ made' = made
             /\ \E id \in Ids : InPlay' = InPlay - Due(mails[id]) /\ Due(mails[id]) \in Nat
    BY <1>1, <1>3, <1>4, <2>2
  <2>3. CASE \E p \in Players : made' = made + Made(p) /\ InPlay' = InPlay + (copy[p] - money)
    BY <1>1, <1>3, <1>4, <1>6, <2>3
  <2>4. CASE InPlay' <= InPlay + Exposure /\ made' = made + Exposure
    BY <1>1, <1>3, <1>4, <1>5, <2>4
  <2> QED BY <1>1, <2>1, <2>2, <2>3, <2>4, BankStep
<1> QED BY <1>2, <1>3, <1>7 DEF BankIInv, MadeTwoWaysOnly

\* The invariant of the bank beside the mail: mails beyond the last one sent
\* are blank, and zuly is made by stale copies and crashes alone.
THEOREM BankInvariant == BankSpec => []BankIInv
<1>1. BankInit => BankIInv
  BY BankStarts
<1>2. BankIInv /\ [BankNext]_bankvars => BankIInv'
  BY BankKept
<1> QED BY <1>1, <1>2, PTL DEF BankSpec

\* However members of a clan, their copies of its balance stale or not, use
\* the bank and mail each other zuly, and wherever the server stops between
\* an autosave and the next: no more zuly is in wallets, mails and the bank
\* than there was at the start, and what stale copies and crashes made.
THEOREM ZulyMadeTwoWaysOnly == BankSpec => []MadeTwoWaysOnly
<1>1. BankIInv => MadeTwoWaysOnly
  BY DEF BankIInv
<1> QED BY <1>1, BankInvariant, PTL

\* Without a crash no step lowers what is in play but a stale copy written
\* over the balance and the deletion of a mail that was not claimed.
THEOREM ZulyLostTwoWaysOnly == BankSpec => LostTwoWaysOnly
<1> DEFINE Lost == (stops' = stops /\ InPlay' < InPlay) =>
                     \/ \E p \in Players : copy[p] # money /\ copy'[p] = money'
                     \/ \E id \in Ids : ~ mails[id].is_claimed /\ mails'[id] = NoMail
<1>1. BankIInv /\ [BankNext]_bankvars => Lost
  <2> SUFFICES ASSUME BankIInv, [BankNext]_bankvars, stops' = stops, InPlay' < InPlay
               PROVE  \/ \E p \in Players : copy[p] # money /\ copy'[p] = money'
                      \/ \E id \in Ids : ~ mails[id].is_claimed /\ mails'[id] = NoMail
    OBVIOUS
  <2>1. BankTypeOK /\ Unsent
    BY DEF BankIInv
  <2>2. BankTypeOK'
    BY <2>1, BankStep
  <2>3. InPlay \in Nat /\ InPlay' \in Nat /\ money \in Nat /\ mails \in [Ids -> AnyMail]
    BY <2>1, <2>2, PlayNow DEF BankTypeOK, MailTypeOK, AnyMail
  <2>4. CASE InPlay' = InPlay
    BY <2>3, <2>4
  <2>5. CASE \E id \in Ids : InPlay' = InPlay - Due(mails[id]) /\ mails'[id] = NoMail
    <3>1. PICK id \in Ids : InPlay' = InPlay - Due(mails[id]) /\ mails'[id] = NoMail
      BY <2>5
    <3>2. Due(mails[id]) # 0
      BY <2>3, <3>1
    <3>3. mails[id] \in AnyMail
      BY <2>3
    <3>4. ~ mails[id].is_claimed
      BY <3>2, <3>3, MailFacts
    <3> QED BY <3>1, <3>4
  <2>6. CASE \E p \in Players : copy'[p] = money' /\ InPlay' = InPlay + (copy[p] - money)
    <3>1. PICK p \in Players : copy'[p] = money' /\ InPlay' = InPlay + (copy[p] - money)
      BY <2>6
    <3>2. copy[p] # money
      BY <2>3, <3>1
    <3> QED BY <3>1, <3>2
  <2> QED BY <2>1, <2>4, <2>5, <2>6, BankStep
<1> HIDE DEF Lost
<1>2. BankIInv /\ [BankNext]_bankvars => [Lost]_bankvars
  BY <1>1
<1>3. LostTwoWaysOnly <=> [][Lost]_bankvars
  BY PTL DEF LostTwoWaysOnly, Lost
<1> QED BY <1>2, <1>3, BankInvariant, PTL DEF BankSpec
=============================================================================
