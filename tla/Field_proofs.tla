---------------------------- MODULE Field_proofs ----------------------------
(***************************************************************************)
(* The summons' books and the map's, for any players, maps, things, ids    *)
(* and bag sizes.  A gauge is right when it is what the bag of summons     *)
(* sums to, so the first part is about that sum when a summon is added,    *)
(* taken away, or recorded anew.  What the threads' overlapping steps need *)
(* is which mutex keeps whom out (Locks), what a handler that has let go   *)
(* of the drops' list still knows of the drop it was about to take         *)
(* (HandlerKnows), and, for the ids, that each holder's id is given and is *)
(* nobody else's (IdsOnce, OwnersGiven).                                   *)
(***************************************************************************)
EXTENDS Monsters, Field, Sums_proofs, SequenceTheorems

-----------------------------------------------------------------------------
(* Summons and their gauge *)

Summon == [user : Characters, map : Maps, owned : BOOLEAN, hp : Nat, paid : BOOLEAN]

\* A pile of summons; those in it that p still pays for, and their number.
Bagged(pile) ==
  /\ pile = [s \in DOMAIN pile |-> pile[s]]
  /\ IsFiniteSet(DOMAIN pile) /\ DOMAIN pile \subseteq Summon
  /\ \A s \in DOMAIN pile : pile[s] \in Nat \ {0}
Owes(s, p) == s.user = p /\ ~ s.paid
Owing(pile, p) == {s \in DOMAIN pile : Owes(s, p)}
Owed(pile, p) == SumFunctionOnSet(pile, Owing(pile, p))

LEMMA UnpaidIs == \A p : Unpaid(p) = Owed(summons, p)
BY DEF Unpaid, Owed, Owing, Owes

LEMMA OwingFacts ==
  ASSUME NEW pile, Bagged(pile), NEW p
  PROVE  /\ IsFiniteSet(Owing(pile, p)) /\ Owing(pile, p) \subseteq DOMAIN pile
         /\ \A s \in DOMAIN pile : pile[s] \in Int /\ pile[s] \in Nat
         /\ Owed(pile, p) \in Nat
<1>1. IsFiniteSet(Owing(pile, p)) /\ Owing(pile, p) \subseteq DOMAIN pile
  <2>1. IsFiniteSet(DOMAIN pile)
    BY DEF Bagged
  <2>2. Owing(pile, p) \in SUBSET DOMAIN pile
    BY DEF Owing
  <2> QED BY <2>1, <2>2, FS_Subset
<1>2. \A s \in DOMAIN pile : pile[s] \in Int /\ pile[s] \in Nat
  BY DEF Bagged
<1>3. \A s \in Owing(pile, p) : pile[s] \in Nat
  BY <1>1, <1>2
<1> QED BY <1>1, <1>2, <1>3, SumNat DEF Owed

\* One summon more.
LEMMA OneMore ==
  ASSUME NEW pile, Bagged(pile), NEW t \in Summon, NEW p
  PROVE  /\ Bagged(BagAdd(pile, t))
         /\ Owed(BagAdd(pile, t), p) = Owed(pile, p) + (IF Owes(t, p) THEN 1 ELSE 0)
<1> DEFINE more == BagAdd(pile, t)
<1>1. /\ DOMAIN more = DOMAIN pile \cup {t}
      /\ \A s \in DOMAIN more : more[s] = IF s = t THEN (IF t \in DOMAIN pile THEN pile[t] + 1 ELSE 1) ELSE pile[s]
      /\ more = [s \in DOMAIN more |-> more[s]]
  BY DEF BagAdd
<1> HIDE DEF more
<1>2. Bagged(more)
  <2>0. IsFiniteSet(DOMAIN pile)
    BY DEF Bagged
  <2>1. IsFiniteSet(DOMAIN pile \cup {t})
    BY <2>0, FS_AddElement
  <2>2. \A s \in DOMAIN more : more[s] \in Nat \ {0}
    BY <1>1 DEF Bagged
  <2> QED BY <1>1, <2>1, <2>2 DEF Bagged
<1>3. /\ IsFiniteSet(Owing(pile, p)) /\ IsFiniteSet(Owing(more, p))
      /\ \A s \in DOMAIN pile : pile[s] \in Int
      /\ \A s \in DOMAIN more : more[s] \in Int
      /\ Owed(pile, p) \in Nat
  BY <1>2, OwingFacts
<1>4. CASE ~ Owes(t, p)
  <2>1. Owing(more, p) = Owing(pile, p) /\ \A s \in Owing(pile, p) : more[s] = pile[s]
    BY <1>1, <1>4 DEF Owing
  <2>2. SumFunctionOnSet(more, Owing(pile, p)) = SumFunctionOnSet(pile, Owing(pile, p))
    BY <1>3, <2>1, SumAgrees
  <2> QED BY <1>2, <1>3, <1>4, <2>1, <2>2 DEF Owed, more
<1>5. CASE Owes(t, p) /\ t \in DOMAIN pile
  <2> DEFINE S == Owing(pile, p)
  <2>1. Owing(more, p) = S /\ t \in S /\ IsFiniteSet(S)
    BY <1>1, <1>3, <1>5 DEF Owing
  <2>2. \A s \in S : pile[s] \in Int /\ more[s] \in Int
    BY <1>1, <1>3 DEF Owing
  <2>3. \A s \in S \ {t} : pile[s] = more[s]
    BY <1>1 DEF Owing
  <2>4. more[t] = pile[t] + 1 /\ pile[t] \in Int
    BY <1>1, <1>3, <1>5
  <2> HIDE DEF S
  <2>5. SumFunctionOnSet(more, S) = SumFunctionOnSet(pile, S) + (more[t] - pile[t])
    <3>1. t \in S
      BY <2>1
    <3>2. IsFiniteSet(S)
      BY <2>1
    <3> QED BY <3>1, <3>2, <2>2, <2>3, SumChanged
  <2>6. Owed(more, p) = SumFunctionOnSet(more, S) /\ Owed(pile, p) = SumFunctionOnSet(pile, S)
    BY <2>1 DEF Owed, S
  <2>7. Owed(more, p) = Owed(pile, p) + 1
    BY <1>3, <2>4, <2>5, <2>6
  <2> QED BY <1>2, <1>5, <2>7 DEF more
<1>6. CASE Owes(t, p) /\ t \notin DOMAIN pile
  <2> DEFINE S == Owing(more, p)
  <2>1. S \ {t} = Owing(pile, p) /\ t \in S /\ IsFiniteSet(S)
    BY <1>1, <1>3, <1>6 DEF Owing
  <2>2. \A s \in S : more[s] \in Int
    BY <1>3 DEF Owing
  <2>3. \A s \in Owing(pile, p) : more[s] = pile[s]
    BY <1>1, <1>6 DEF Owing
  <2>4. more[t] = 1
    BY <1>1, <1>6
  <2> HIDE DEF S
  <2>5. SumFunctionOnSet(more, S) = more[t] + SumFunctionOnSet(more, S \ {t})
    BY <2>1, <2>2, SumTakes
  <2>6. SumFunctionOnSet(more, Owing(pile, p)) = SumFunctionOnSet(pile, Owing(pile, p))
    BY <1>3, <2>3, SumAgrees
  <2>7. Owed(more, p) = 1 + Owed(pile, p)
    BY <2>1, <2>4, <2>5, <2>6 DEF Owed, S
  <2> QED BY <1>2, <1>3, <1>6, <2>7 DEF more
<1> QED BY <1>4, <1>5, <1>6

\* One summon less: it is the one that must be added again.
LEMMA OneFewer ==
  ASSUME NEW pile, Bagged(pile), NEW s \in DOMAIN pile, NEW p
  PROVE  /\ Bagged(BagRemove(pile, s)) /\ s \in Summon
         /\ Owed(pile, p) = Owed(BagRemove(pile, s), p) + (IF Owes(s, p) THEN 1 ELSE 0)
<1> DEFINE left == BagRemove(pile, s)
<1>0. s \in Summon /\ pile[s] \in Nat \ {0} /\ IsFiniteSet(DOMAIN pile)
      /\ pile = [x \in DOMAIN pile |-> pile[x]] /\ DOMAIN pile \subseteq Summon
      /\ \A x \in DOMAIN pile : pile[x] \in Nat \ {0}
  BY DEF Bagged
<1>1. CASE pile[s] = 1
  <2>1. left = [x \in DOMAIN pile \ {s} |-> pile[x]]
    BY <1>1 DEF BagRemove
  <2>2. Bagged(left)
    <3>0. IsFiniteSet(DOMAIN pile)
      BY <1>0
    <3>1. IsFiniteSet(DOMAIN pile \ {s})
      BY <3>0, FS_Subset
    <3> QED BY <1>0, <2>1, <3>1 DEF Bagged
  <2>3. pile = BagAdd(left, s)
    <3>1. DOMAIN left = DOMAIN pile \ {s} /\ DOMAIN left \cup {s} = DOMAIN pile
      BY <2>1
    <3>2. BagAdd(left, s) = [x \in DOMAIN pile |-> IF x = s THEN 1 ELSE left[x]]
      BY <3>1 DEF BagAdd
    <3> QED BY <1>0, <1>1, <2>1, <3>2
  <2> HIDE DEF left
  <2> QED BY <1>0, <2>2, <2>3, OneMore DEF left
<1>2. CASE pile[s] # 1
  <2>1. left = [x \in DOMAIN pile |-> IF x = s THEN pile[x] - 1 ELSE pile[x]]
    BY <1>2 DEF BagRemove
  <2>2. Bagged(left)
    <3>1. \A x \in DOMAIN pile : left[x] \in Nat \ {0}
      BY <1>0, <1>2, <2>1
    <3> QED BY <1>0, <2>1, <3>1 DEF Bagged
  <2>3. pile = BagAdd(left, s)
    <3>1. DOMAIN left = DOMAIN pile /\ s \in DOMAIN left
      BY <2>1
    <3>2. BagAdd(left, s) = [x \in DOMAIN pile |-> IF x = s THEN left[x] + 1 ELSE left[x]]
      BY <3>1 DEF BagAdd
    <3>3. \A x \in DOMAIN pile : pile[x] = IF x = s THEN left[x] + 1 ELSE left[x]
      BY <1>0, <2>1
    <3> QED BY <1>0, <3>2, <3>3
  <2> HIDE DEF left
  <2> QED BY <1>0, <2>2, <2>3, OneMore DEF left
<1> QED BY <1>1, <1>2

\* Some summons gone: nobody owes more, and who had none of them owes the same.
LEMMA SomeGone ==
  ASSUME NEW pile, Bagged(pile), NEW gone, NEW p
  PROVE  LET left == [s \in DOMAIN pile \ gone |-> pile[s]] IN
         /\ Bagged(left)
         /\ Owed(left, p) <= Owed(pile, p)
         /\ (\A s \in gone : ~ Owes(s, p)) => Owed(left, p) = Owed(pile, p)
<1> DEFINE left == [s \in DOMAIN pile \ gone |-> pile[s]]
           R == Owing(left, p)
           S == Owing(pile, p) \ R
<1>1. DOMAIN left = DOMAIN pile \ gone /\ \A s \in DOMAIN left : left[s] = pile[s]
  OBVIOUS
<1>2. Bagged(left)
  <2>0. IsFiniteSet(DOMAIN pile)
    BY DEF Bagged
  <2>1. IsFiniteSet(DOMAIN pile \ gone)
    BY <2>0, FS_Subset
  <2> QED BY <2>1 DEF Bagged
<1> HIDE DEF left
<1>3. R \cup S = Owing(pile, p) /\ S \cap R = {} /\ R \subseteq DOMAIN left /\ R \cup S \subseteq DOMAIN pile
  BY <1>1 DEF Owing
<1>4. \A s \in DOMAIN pile : pile[s] \in Int /\ pile[s] \in Nat
  BY OwingFacts
<1>5. IsFiniteSet(R) /\ IsFiniteSet(Owing(pile, p))
  BY <1>2, OwingFacts
<1>6. IsFiniteSet(S)
  <2>1. S \in SUBSET Owing(pile, p)
    OBVIOUS
  <2> QED BY <1>5, <2>1, FS_Subset
<1>7. Owed(left, p) = SumFunctionOnSet(left, R)
  BY DEF Owed
<1>8. (\A s \in gone : ~ Owes(s, p)) => R = Owing(pile, p)
  BY <1>1 DEF Owing
<1>9. Owed(pile, p) = SumFunctionOnSet(pile, R \cup S)
  BY <1>3 DEF Owed
<1>10. \A s \in R \cup S : pile[s] \in Int /\ pile[s] \in Nat
  BY <1>3, <1>4
<1>11. \A s \in R : left[s] = pile[s]
  BY <1>1, <1>3
<1>12. R = Owing(pile, p) => R \cup S = R
  BY <1>3
<1> HIDE DEF R, S
<1>13. SumFunctionOnSet(left, R) = SumFunctionOnSet(pile, R)
  BY <1>5, <1>11, SumAgrees
<1>14. SumFunctionOnSet(pile, R \cup S) = SumFunctionOnSet(pile, R) + SumFunctionOnSet(pile, S)
  BY <1>3, <1>5, <1>6, <1>10, SumSplit
<1>15. SumFunctionOnSet(pile, S) \in Nat /\ SumFunctionOnSet(pile, R) \in Nat
  BY <1>5, <1>6, <1>10, SumNat
<1>16. Owed(left, p) <= Owed(pile, p)
  BY <1>7, <1>9, <1>13, <1>14, <1>15
<1>17. (\A s \in gone : ~ Owes(s, p)) => Owed(left, p) = Owed(pile, p)
  BY <1>7, <1>8, <1>9, <1>12, <1>13
<1> QED BY <1>2, <1>16, <1>17 DEF left

\* Summons gathered under other records: what is owed stays, if the record
\* says so of each of them; and is nothing, if no record says so.
LEMMA Gathered ==
  ASSUME Bagged(summons), NEW f, DOMAIN f = DOMAIN summons,
         \A s \in DOMAIN summons : f[s] \in Summon, NEW p
  PROVE  /\ Bagged(Replaced(f))
         /\ (\A s \in DOMAIN summons : Owes(f[s], p) <=> Owes(s, p))
              => Owed(Replaced(f), p) = Owed(summons, p)
         /\ (\A s \in DOMAIN summons : ~ Owes(f[s], p)) => Owed(Replaced(f), p) = 0
<1> DEFINE S == DOMAIN summons
           all == Replaced(f)
           D == {f[s] : s \in S}
<1>1. all = [t \in D |-> SumFunctionOnSet(summons, FromTo(f, S, t))]
  BY DEF Replaced, FromTo
<1>2. /\ IsFiniteSet(S) /\ \A s \in S : summons[s] \in Nat \ {0} /\ summons[s] \in Int
  BY DEF Bagged
<1>3. IsFiniteSet(D) /\ D \subseteq Summon
  <2>1. IsFiniteSet(S)
    BY <1>2
  <2> DEFINE g == [s \in S |-> f[s]]
  <2>2. g \in Surjection(S, D)
    BY DEF Surjection
  <2> HIDE DEF g, S, D
  <2>4. IsFiniteSet(D)
    BY <2>1, <2>2, FS_Surjection
  <2>3. D \subseteq Summon
    BY DEF S, D
  <2> QED BY <2>3, <2>4
<1>4. \A t \in D : SumFunctionOnSet(summons, FromTo(f, S, t)) \in Nat \ {0}
  <2> SUFFICES ASSUME NEW t \in D PROVE SumFunctionOnSet(summons, FromTo(f, S, t)) \in Nat \ {0}
    OBVIOUS
  <2> DEFINE P == FromTo(f, S, t)
  <2>1. P \in SUBSET S /\ \E s \in S : s \in P
    BY DEF FromTo
  <2> HIDE DEF P
  <2>2. PICK s \in S : s \in P
    BY <2>1
  <2>3. IsFiniteSet(P) /\ IsFiniteSet(P \ {s})
    <3>1. P \ {s} \in SUBSET S
      BY <2>1
    <3> QED BY <1>2, <2>1, <3>1, FS_Subset
  <2>4. \A x \in P : summons[x] \in Nat /\ summons[x] \in Int
    BY <1>2, <2>1
  <2>5. SumFunctionOnSet(summons, P) = summons[s] + SumFunctionOnSet(summons, P \ {s})
    BY <2>2, <2>3, <2>4, SumTakes
  <2>6. SumFunctionOnSet(summons, P \ {s}) \in Nat
    BY <2>3, <2>4, SumNat
  <2>7. summons[s] \in Nat \ {0}
    BY <1>2
  <2>8. SumFunctionOnSet(summons, P) \in Nat \ {0}
    BY <2>5, <2>6, <2>7
  <2> QED BY <2>8 DEF P
<1>5. DOMAIN all = D /\ \A t \in D : all[t] = SumFunctionOnSet(summons, FromTo(f, S, t))
  BY <1>1
<1>6. Bagged(all)
  BY <1>1, <1>3, <1>4, <1>5 DEF Bagged
<1> DEFINE Q == Owing(all, p)
<1>7. Q = {t \in D : Owes(t, p)} /\ Q \subseteq D /\ IsFiniteSet(Q)
  <2>1. IsFiniteSet(Q)
    BY <1>6, OwingFacts
  <2> QED BY <1>5, <2>1 DEF Owing
<1>8. {s \in S : f[s] \in Q} = {s \in S : Owes(f[s], p)}
  BY <1>7
<1>9. \A t \in Q : all[t] = SumFunctionOnSet(summons, FromTo(f, S, t))
  BY <1>5, <1>7
<1>10. Owed(all, p) = SumFunctionOnSet(all, Q)
  BY DEF Owed
<1> HIDE DEF S, all, D, Q
<1>11. SumFunctionOnSet(all, Q) = SumFunctionOnSet(summons, {s \in S : f[s] \in Q})
  BY <1>2, <1>7, <1>9, SumGathered
<1>12. ASSUME \A s \in S : Owes(f[s], p) <=> Owes(s, p)
       PROVE  Owed(all, p) = Owed(summons, p)
  <2>1. {s \in S : f[s] \in Q} = Owing(summons, p)
    BY <1>8, <1>12 DEF Owing, S
  <2> QED BY <1>10, <1>11, <2>1 DEF Owed
<1>13. ASSUME \A s \in S : ~ Owes(f[s], p)
       PROVE  Owed(all, p) = 0
  <2>1. {s \in S : f[s] \in Q} = {}
    BY <1>8, <1>13
  <2> QED BY <1>10, <1>11, <2>1, SumOfNone
<1> QED BY <1>6, <1>12, <1>13 DEF all, S

-----------------------------------------------------------------------------
\* Types, and what the gauge is.
SummonsTypeOK ==
  /\ at \in [Characters -> Maps \cup {"off"}]
  /\ cur_gauge \in [Characters -> Nat]
  /\ Bagged(summons)

GaugeIInv == SummonsTypeOK /\ GaugeRight

\* The gauge of one player.
Gauged(p) == /\ p \in robbed \/ cur_gauge[p] <= Owed(summons, p)
             /\ p \in overpaid \/ Owed(summons, p) <= cur_gauge[p]

LEMMA GaugeIs == GaugeRight <=> \A p \in Online : Gauged(p)
BY UnpaidIs DEF GaugeRight, Gauged

LEMMA GaugeIsNext == GaugeRight' <=> \A p \in Online' : Gauged(p)'
<1>1. \A p : Unpaid(p)' = Owed(summons', p)
  BY DEF Unpaid, Owed, Owing, Owes
<1> QED BY <1>1 DEF GaugeRight, Gauged

LEMMA OwedNat ==
  ASSUME SummonsTypeOK
  PROVE  \A p : Owed(summons, p) \in Nat /\ (p \in Characters => cur_gauge[p] \in Nat)
BY OwingFacts DEF SummonsTypeOK

\* A step after which whoever is online was, with gauge and summons as before.
LEMMA SameGauge ==
  ASSUME GaugeIInv, SummonsTypeOK', Online' \subseteq Online, cur_gauge' = cur_gauge,
         robbed \subseteq robbed', overpaid' = overpaid,
         \A p \in Online' : Owed(summons', p) = Owed(summons, p)
  PROVE  GaugeIInv'
<1>1. \A p \in Online' : Gauged(p)
  BY GaugeIs DEF GaugeIInv
<1>2. \A p \in Online' : Gauged(p)'
  BY <1>1 DEF Gauged
<1> QED BY <1>2, GaugeIsNext DEF GaugeIInv

LEMMA Casting ==
  ASSUME GaugeIInv, NEW p \in Characters, Casts(p)
  PROVE  GaugeIInv'
<1> DEFINE t == [user |-> p, map |-> at[p], owned |-> TRUE, hp |-> Life, paid |-> FALSE]
<1>1. /\ p \in Online /\ at' = at /\ robbed' = robbed /\ overpaid' = overpaid
      /\ cur_gauge' = [cur_gauge EXCEPT ![p] = @ + 1]
      /\ summons' = BagAdd(summons, t)
  BY DEF Casts
<1>2. /\ at \in [Characters -> Maps \cup {"off"}] /\ cur_gauge \in [Characters -> Nat]
      /\ Bagged(summons)
  BY DEF GaugeIInv, SummonsTypeOK
<1>3. t \in Summon /\ Owes(t, p) /\ \A q : q # p => ~ Owes(t, q)
  <2>1. at[p] \in Maps
    BY <1>1, <1>2 DEF Online
  <2> QED BY <2>1, MonstersAssumption DEF Summon, Owes
<1> HIDE DEF t
<1>4. Bagged(summons') /\ \A q : Owed(summons', q) = Owed(summons, q) + (IF Owes(t, q) THEN 1 ELSE 0)
  BY <1>1, <1>2, <1>3, OneMore
<1>5. SummonsTypeOK'
  BY <1>1, <1>2, <1>4 DEF SummonsTypeOK
<1>6. \A q : Owed(summons, q) \in Nat
  BY <1>2, OwingFacts
<1>7. ASSUME NEW q \in Online' PROVE Gauged(q)'
  <2>1. q \in Online /\ q \in Characters /\ cur_gauge[q] \in Nat /\ Gauged(q)
    BY <1>1, <1>2, GaugeIs DEF Online, GaugeIInv
  <2>2. CASE q = p
    <3>1. cur_gauge'[q] = cur_gauge[q] + 1 /\ Owed(summons', q) = Owed(summons, q) + 1
      BY <1>1, <1>2, <1>3, <1>4, <2>2
    <3> QED BY <1>1, <1>6, <2>1, <3>1 DEF Gauged
  <2>3. CASE q # p
    <3>1. cur_gauge'[q] = cur_gauge[q] /\ Owed(summons', q) = Owed(summons, q)
      BY <1>1, <1>2, <1>3, <1>4, <1>6, <2>1, <2>3
    <3> QED BY <1>1, <2>1, <3>1 DEF Gauged
  <2> QED BY <2>2, <2>3
<1> QED BY <1>5, <1>7, GaugeIsNext DEF GaugeIInv

\* Records of summons with another owned, another paid.
LEMMA Rerecorded ==
  ASSUME NEW s \in Summon, NEW p
  PROVE  /\ LET r == [s EXCEPT !.owned = s.owned /\ s.user # p]
            IN  r \in Summon /\ r.user = s.user /\ r.paid = s.paid
         /\ LET r == [s EXCEPT !.paid = s.paid \/ s.user = p]
            IN  r \in Summon /\ r.user = s.user /\ r.paid = (s.paid \/ s.user = p)
<1>1. s.owned \in BOOLEAN /\ s.paid \in BOOLEAN
  BY DEF Summon
<1>2. ASSUME NEW b \in BOOLEAN
      PROVE  /\ [s EXCEPT !.owned = b] \in Summon /\ [s EXCEPT !.paid = b] \in Summon
             /\ [s EXCEPT !.owned = b].user = s.user /\ [s EXCEPT !.owned = b].paid = s.paid
             /\ [s EXCEPT !.paid = b].user = s.user /\ [s EXCEPT !.paid = b].paid = b
  BY DEF Summon
<1>3. (s.owned /\ s.user # p) \in BOOLEAN /\ (s.paid \/ s.user = p) \in BOOLEAN
  OBVIOUS
<1> QED BY <1>2, <1>3, Zenon

LEMMA OrphanedOwes ==
  ASSUME Bagged(summons), NEW p
  PROVE  Bagged(Orphaned(p)) /\ \A q : Owed(Orphaned(p), q) = Owed(summons, q)
<1> DEFINE f == [s \in DOMAIN summons |-> [s EXCEPT !.owned = @ /\ s.user # p]]
<1>1. DOMAIN f = DOMAIN summons /\ Orphaned(p) = Replaced(f)
  BY DEF Orphaned
<1>2. \A s \in DOMAIN summons : s \in Summon
  BY DEF Bagged
<1>3. \A s \in DOMAIN summons : /\ f[s] \in Summon
                                /\ f[s].user = s.user /\ f[s].paid = s.paid
  <2> TAKE s \in DOMAIN summons
  <2>1. s \in Summon /\ (s.owned /\ s.user # p) \in BOOLEAN
    BY <1>2
  <2>2. f[s] = [s EXCEPT !.owned = (s.owned /\ s.user # p)]
    OBVIOUS
  <2> QED BY <2>1, <2>2, Rerecorded
<1>4. \A q : \A s \in DOMAIN summons : Owes(f[s], q) <=> Owes(s, q)
  BY <1>3 DEF Owes
<1> HIDE DEF f
<1> QED BY <1>1, <1>3, <1>4, Gathered

LEMMA UnbookedOwes ==
  ASSUME Bagged(summons), NEW p
  PROVE  /\ Bagged(Unbooked(p)) /\ Owed(Unbooked(p), p) = 0
         /\ \A q : q # p => Owed(Unbooked(p), q) = Owed(summons, q)
<1> DEFINE f == [s \in DOMAIN summons |-> [s EXCEPT !.paid = @ \/ s.user = p]]
<1>1. DOMAIN f = DOMAIN summons /\ Unbooked(p) = Replaced(f)
  BY DEF Unbooked
<1>2. \A s \in DOMAIN summons : s \in Summon
  BY DEF Bagged
<1>3. \A s \in DOMAIN summons : /\ f[s] \in Summon /\ f[s].user = s.user
                                /\ f[s].paid = (s.paid \/ s.user = p)
  <2> TAKE s \in DOMAIN summons
  <2>1. s \in Summon /\ (s.paid \/ s.user = p) \in BOOLEAN
    BY <1>2
  <2>2. f[s] = [s EXCEPT !.paid = (s.paid \/ s.user = p)]
    OBVIOUS
  <2> QED BY <2>1, <2>2, Rerecorded
<1>4. \A s \in DOMAIN summons : ~ Owes(f[s], p)
  BY <1>3 DEF Owes
<1>5. \A q : q # p => \A s \in DOMAIN summons : Owes(f[s], q) <=> Owes(s, q)
  BY <1>3 DEF Owes
<1> HIDE DEF f
<1> QED BY <1>1, <1>3, <1>4, <1>5, Gathered


LEMMA LoggingIn ==
  ASSUME GaugeIInv, NEW p \in Characters, LogsIn(p)
  PROVE  GaugeIInv'
<1>1. /\ cur_gauge' = [cur_gauge EXCEPT ![p] = 0] /\ summons' = Unbooked(p)
      /\ robbed' = robbed /\ overpaid' = overpaid
  BY DEF LogsIn
<1>2. PICK m \in Maps : at' = [at EXCEPT ![p] = m]
  BY DEF LogsIn
<1>3. /\ at \in [Characters -> Maps \cup {"off"}] /\ cur_gauge \in [Characters -> Nat]
      /\ Bagged(summons)
  BY DEF GaugeIInv, SummonsTypeOK
<1>4. /\ Bagged(summons') /\ Owed(summons', p) = 0
      /\ \A q : q # p => Owed(summons', q) = Owed(summons, q)
  BY <1>1, <1>3, UnbookedOwes
<1>5. SummonsTypeOK'
  BY <1>1, <1>2, <1>3, <1>4 DEF SummonsTypeOK
<1>6. ASSUME NEW q \in Online' PROVE Gauged(q)'
  <2>1. q \in Characters /\ (q # p => q \in Online)
    BY <1>2, <1>3 DEF Online
  <2>2. CASE q = p
    BY <1>1, <1>3, <1>4, <2>2 DEF Gauged
  <2>3. CASE q # p
    <3>1. Gauged(q) /\ cur_gauge'[q] = cur_gauge[q]
      BY <1>1, <1>3, <2>1, <2>3, GaugeIs DEF GaugeIInv
    <3> QED BY <1>1, <1>4, <2>3, <3>1 DEF Gauged
  <2> QED BY <2>2, <2>3
<1> QED BY <1>5, <1>6, GaugeIsNext DEF GaugeIInv

\* Leaving and teleporting.
LEMMA Going ==
  ASSUME GaugeIInv, NEW p \in Characters, LogsOut(p) \/ Teleports(p)
  PROVE  GaugeIInv'
<1>1. /\ cur_gauge' = cur_gauge /\ summons' = Orphaned(p) /\ p \in Online
      /\ robbed' = robbed /\ overpaid' = overpaid
  BY DEF LogsOut, Teleports
<1>2. PICK m \in Maps \cup {"off"} : at' = [at EXCEPT ![p] = m]
  BY DEF LogsOut, Teleports
<1>3. /\ at \in [Characters -> Maps \cup {"off"}] /\ cur_gauge \in [Characters -> Nat]
      /\ Bagged(summons)
  BY DEF GaugeIInv, SummonsTypeOK
<1>4. Bagged(summons') /\ \A q : Owed(summons', q) = Owed(summons, q)
  BY <1>1, <1>3, OrphanedOwes
<1>5. SummonsTypeOK'
  BY <1>1, <1>2, <1>3, <1>4 DEF SummonsTypeOK
<1>6. Online' \subseteq Online
  BY <1>1, <1>2, <1>3 DEF Online
<1> QED BY <1>1, <1>4, <1>5, <1>6, SameGauge

LEMMA Falling ==
  ASSUME GaugeIInv, NEW s \in DOMAIN summons, SummonFalls(s)
  PROVE  GaugeIInv'
<1> DEFINE left == BagRemove(summons, s)
           t    == [s EXCEPT !.hp = 0]
<1>1. /\ cur_gauge' = cur_gauge /\ at' = at /\ robbed' = robbed /\ overpaid' = overpaid
      /\ summons' = BagAdd(left, t)
  BY DEF SummonFalls
<1>2. SummonsTypeOK /\ Bagged(summons)
  BY DEF GaugeIInv, SummonsTypeOK
<1>3. s \in Summon
  BY <1>2 DEF Bagged
<1>4. t \in Summon /\ \A q : Owes(t, q) <=> Owes(s, q)
  BY <1>3 DEF Summon, Owes
<1> HIDE DEF t
<1>5. /\ Bagged(left)
      /\ \A q : Owed(summons, q) = Owed(left, q) + (IF Owes(s, q) THEN 1 ELSE 0)
  BY <1>2, OneFewer
<1>6. /\ Bagged(summons')
      /\ \A q : Owed(summons', q) = Owed(left, q) + (IF Owes(t, q) THEN 1 ELSE 0)
  BY <1>1, <1>4, <1>5, OneMore
<1>7. \A q : Owed(summons', q) = Owed(summons, q)
  BY <1>4, <1>5, <1>6
<1>8. SummonsTypeOK' /\ Online' = Online
  BY <1>1, <1>2, <1>6 DEF SummonsTypeOK, Online
<1> QED BY <1>1, <1>7, <1>8, SameGauge

LEMMA Updating ==
  ASSUME GaugeIInv, NEW s \in DOMAIN summons, NEW near \in BOOLEAN, SummonUpdate(s, near)
  PROVE  GaugeIInv'
<1> DEFINE hp    == IF s.hp > 0 THEN s.hp - 1 ELSE 0
           pays  == hp = 0 \/ ~s.owned \/ s.user \in fallen
           payee == IF pays THEN Payee(s) ELSE {}
           left  == BagRemove(summons, s)
           t     == [s EXCEPT !.hp = hp, !.paid = @ \/ payee # {}]
<1>1. /\ cur_gauge' = [p \in Characters |->
           IF p \in payee /\ cur_gauge[p] > 0 THEN cur_gauge[p] - 1 ELSE cur_gauge[p]]
      /\ overpaid' = overpaid \cup {p \in payee : s.paid /\ cur_gauge[p] > 0}
      /\ summons' = IF near /\ hp = 0 THEN left ELSE BagAdd(left, t)
      /\ at' = at /\ robbed' = robbed
  BY DEF SummonUpdate
<1>2. /\ SummonsTypeOK /\ Bagged(summons) /\ cur_gauge \in [Characters -> Nat]
  BY DEF GaugeIInv, SummonsTypeOK
<1>3. s \in Summon /\ hp \in Nat
  BY <1>2 DEF Bagged, Summon
<1>4. /\ payee \subseteq {s.user} /\ (payee # {} => s.user \in payee)
      /\ (hp = 0 /\ s.user \in Online => s.user \in payee)
  BY DEF Payee
<1> HIDE DEF hp, payee
<1>5. t \in Summon /\ t.user = s.user /\ (t.paid <=> s.paid \/ payee # {})
  <2>1. (s.paid \/ payee # {}) \in BOOLEAN
    OBVIOUS
  <2>2. ASSUME NEW b \in BOOLEAN
        PROVE  LET r == [s EXCEPT !.hp = hp, !.paid = b]
               IN  r \in Summon /\ r.user = s.user /\ r.paid = b
    BY <1>3 DEF Summon
  <2> QED BY <2>1, <2>2, Zenon
<1> HIDE DEF t
<1>6. /\ Bagged(left)
      /\ \A q : Owed(summons, q) = Owed(left, q) + (IF Owes(s, q) THEN 1 ELSE 0)
  BY <1>2, OneFewer
<1>7. /\ Bagged(BagAdd(left, t))
      /\ \A q : Owed(BagAdd(left, t), q) = Owed(left, q) + (IF Owes(t, q) THEN 1 ELSE 0)
  BY <1>5, <1>6, OneMore
<1> HIDE DEF left
<1>8. Bagged(summons')
  BY <1>1, <1>6, <1>7
<1>9. SummonsTypeOK' /\ Online' = Online
  <2>1. cur_gauge' \in [Characters -> Nat]
    BY <1>1, <1>2
  <2> QED BY <1>1, <1>2, <1>8, <2>1 DEF SummonsTypeOK, Online
<1>10. \A q : Owed(summons, q) \in Nat /\ Owed(left, q) \in Nat /\ Owed(summons', q) \in Nat
  BY <1>2, <1>6, <1>8, OwingFacts
<1>11. ASSUME NEW q \in Online' PROVE Gauged(q)'
  <2>1. q \in Online /\ q \in Characters /\ Gauged(q) /\ cur_gauge[q] \in Nat
    BY <1>2, <1>9, GaugeIs DEF GaugeIInv, Online
  <2>2. CASE q \notin payee
    <3>1. cur_gauge'[q] = cur_gauge[q] /\ (q \in overpaid => q \in overpaid')
      BY <1>1, <2>1, <2>2
    <3>2. ~ Owes(s, q) => Owed(summons', q) = Owed(summons, q)
      <4>1. ASSUME ~ Owes(s, q) PROVE ~ Owes(t, q)
        BY <1>5, <4>1 DEF Owes
      <4> QED BY <1>1, <1>6, <1>7, <1>10, <4>1
    <3>3. Owes(s, q) => Owed(summons', q) = Owed(summons, q)
      <4> SUFFICES ASSUME Owes(s, q) PROVE Owed(summons', q) = Owed(summons, q)
        OBVIOUS
      <4>1. q = s.user /\ ~ s.paid
        BY DEF Owes
      <4>2. payee = {} /\ hp # 0
        BY <1>4, <2>1, <2>2, <4>1
      <4>3. Owes(t, q)
        BY <1>5, <4>1, <4>2 DEF Owes
      <4> QED BY <1>1, <1>6, <1>7, <1>10, <4>2, <4>3
    <3> QED BY <1>1, <2>1, <3>1, <3>2, <3>3 DEF Gauged
  <2>3. CASE q \in payee
    <3>1. q = s.user /\ payee # {}
      BY <1>4, <2>3
    <3>2. ~ Owes(t, q)
      BY <1>5, <3>1 DEF Owes
    <3>3. Owed(summons', q) = Owed(left, q)
      BY <1>1, <1>7, <1>10, <3>2
    <3>4. Owed(summons, q) = Owed(left, q) + (IF s.paid THEN 0 ELSE 1)
      BY <1>6, <3>1 DEF Owes
    <3>5. /\ cur_gauge'[q] = IF cur_gauge[q] > 0 THEN cur_gauge[q] - 1 ELSE cur_gauge[q]
          /\ q \in overpaid => q \in overpaid'
          /\ s.paid /\ cur_gauge[q] > 0 => q \in overpaid'
      BY <1>1, <2>1, <2>3
    <3>6. CASE s.paid
      BY <1>1, <1>10, <2>1, <3>3, <3>4, <3>5, <3>6 DEF Gauged
    <3>7. CASE ~ s.paid
      BY <1>1, <1>10, <2>1, <3>3, <3>4, <3>5, <3>7 DEF Gauged
    <3> QED BY <3>6, <3>7
  <2> QED BY <2>2, <2>3
<1> QED BY <1>9, <1>11, GaugeIsNext DEF GaugeIInv

LEMMA Killing ==
  ASSUME GaugeIInv, NEW p \in Characters, pakGMKillInRange(p)
  PROVE  GaugeIInv'
<1>1. PICK killed \in SUBSET {s \in DOMAIN summons : s.map = Home} :
        /\ summons' = [s \in DOMAIN summons \ killed |-> summons[s]]
        /\ robbed' = robbed \cup {s.user : s \in {x \in killed : ~x.paid}}
  BY DEF pakGMKillInRange
<1>2. at' = at /\ cur_gauge' = cur_gauge /\ overpaid' = overpaid
  BY DEF pakGMKillInRange
<1>3. SummonsTypeOK /\ Bagged(summons)
  BY DEF GaugeIInv, SummonsTypeOK
<1>4. \A q : /\ Bagged(summons') /\ Owed(summons', q) <= Owed(summons, q)
             /\ (\A s \in killed : ~ Owes(s, q)) => Owed(summons', q) = Owed(summons, q)
  BY <1>1, <1>3, SomeGone
<1>5. SummonsTypeOK' /\ Online' = Online
  BY <1>2, <1>3, <1>4 DEF SummonsTypeOK, Online
<1>6. \A q : Owed(summons, q) \in Nat /\ Owed(summons', q) \in Nat
  BY <1>3, <1>4, OwingFacts
<1>7. \A q : q \notin robbed' => \A s \in killed : ~ Owes(s, q)
  BY <1>1 DEF Owes
<1>8. ASSUME NEW q \in Online' PROVE Gauged(q)'
  <2>1. Gauged(q) /\ cur_gauge[q] \in Nat
    BY <1>3, <1>5, GaugeIs DEF GaugeIInv, Online, SummonsTypeOK
  <2>2. /\ Owed(summons, q) \in Nat /\ Owed(summons', q) \in Nat
        /\ Owed(summons', q) <= Owed(summons, q)
        /\ q \notin robbed' => Owed(summons', q) = Owed(summons, q)
    BY <1>4, <1>6, <1>7
  <2>3. /\ cur_gauge'[q] = cur_gauge[q] /\ (q \in overpaid => q \in overpaid')
        /\ q \in robbed => q \in robbed'
    BY <1>1, <1>2
  <2> QED BY <2>1, <2>2, <2>3 DEF Gauged
<1> QED BY <1>5, <1>8, GaugeIsNext DEF GaugeIInv

\* GaugeIInv keeps: what a connected player's gauge shows is what its summons cost.
THEOREM GaugeInvariant == MonstersSpec => []GaugeIInv
<1>1. MonstersInit => GaugeIInv
  <2> SUFFICES ASSUME MonstersInit PROVE GaugeIInv
    OBVIOUS
  <2>1. at = [p \in Characters |-> "off"] /\ cur_gauge = [p \in Characters |-> 0]
    BY DEF MonstersInit
  <2>2. summons = [s \in {} |-> 0]
    BY DEF MonstersInit
  <2>3. IsFiniteSet({})
    BY FS_EmptySet
  <2>4. DOMAIN summons = {} /\ Bagged(summons)
    BY <2>2, <2>3 DEF Bagged
  <2>5. Online = {}
    BY <2>1 DEF Online
  <2> QED BY <2>1, <2>4, <2>5 DEF GaugeIInv, SummonsTypeOK, GaugeRight
<1>2. GaugeIInv /\ [MonstersNext]_monstersvars => GaugeIInv'
  <2> SUFFICES ASSUME GaugeIInv, [MonstersNext]_monstersvars PROVE GaugeIInv'
    OBVIOUS
  <2> DEFINE Aside == at' = at /\ cur_gauge' = cur_gauge /\ summons' = summons
                      /\ robbed' = robbed /\ overpaid' = overpaid
  <2>1. ASSUME Aside PROVE GaugeIInv'
    <3>1. SummonsTypeOK' /\ Online' = Online
      BY <2>1 DEF GaugeIInv, SummonsTypeOK, Online
    <3> QED BY <2>1, <3>1, SameGauge
  <2>2. CASE Respawns \/ MonsterDies \/ DeletesDead \/ UNCHANGED monstersvars
    <3>1. Aside
      BY <2>2 DEF Respawns, MonsterDies, DeletesDead, monstersvars, player
    <3> QED BY <2>1, <3>1
  <2>3. ASSUME NEW p \in Characters, PlayerActs(p) PROVE GaugeIInv'
    <3>1. CASE PlayerDies(p) \/ Revives(p)
      <4>1. Aside
        BY <3>1 DEF PlayerDies, Revives
      <4> QED BY <2>1, <4>1
    <3> QED BY <2>3, <3>1, Casting, LoggingIn, Going, Killing DEF PlayerActs
  <2>4. ASSUME NEW s \in DOMAIN summons, SummonActs(s) PROVE GaugeIInv'
    BY <2>4, Falling, Updating DEF SummonActs
  <2> QED BY <2>2, <2>3, <2>4 DEF MonstersNext
<1> QED BY <1>1, <1>2, PTL DEF MonstersSpec

\* GaugeRight: the summon gauge of a connected player is never too full, unless
\* pakGMKillInRange deleted a summon of its without SummonUpdate, and never too
\* empty, unless SummonUpdate paid for a summon twice.
THEOREM GaugeStaysRight == MonstersSpec => []GaugeRight
BY GaugeInvariant, PTL DEF GaugeIInv

-----------------------------------------------------------------------------
(* Drops, ids and the threads *)

USE IdsAssumption, FieldAssumption

\* A handler of the socket thread holds PlayerMutex, a round MapMutex.
Locks ==
  /\ sock # Idle => mutex.Player = "socket"
  /\ world # Idle => mutex.Map = "world"

\* A handler that looks for an id knows the player it is for, and the item.
HandlerAsks ==
  sock.at = "write" =>
    /\ sock.job = "enter" => sock.p \in present \ inGame
    /\ sock.job # "enter" => sock.p \in inGame /\ sock.thing \in bag[sock.p]

\* A handler that picks a drop up: while the drop is on the list it has the id
\* that the handler read, and until it is taken nobody carries the item.
HandlerKnows ==
  sock.at \in {"take", "delete"} =>
    /\ \A k \in DOMAIN drops : drops[k].thing = sock.drop.thing => drops[k].cid = sock.drop.cid
    /\ sock.at = "take" => sock.drop.thing \notin Carried

\* The respawn looks for an id only for a dead monster; a round that has met no
\* old drop yet has one before it.
RoundKnows ==
  /\ world.at = "write" => ~mob.alive
  /\ world.at = "clean" /\ world.due =>
       \E k \in DOMAIN drops : k >= world.j /\ drops[k].age = "old"

\* No thing lies on the map twice, no one carries what another has, and what
\* is carried is counted.
Apart(s) == \A j, k \in DOMAIN s : j # k => s[j].thing # s[k].thing
Bags     == \A h \in Holders : IsFiniteSet(bag[h]) /\ Cardinality(bag[h]) <= BagSize
BagsApart == \A h, g \in Holders : h # g => bag[h] \cap bag[g] = {}
Things_ == Apart(drops) /\ Bags /\ BagsApart /\ Lying \cap Carried \subseteq Taken

Standing == inGame \cup {Bot}

\* Nobody shares an id, and whose it is has it given.
OnceIn(s) == \A j, k \in DOMAIN s : s[j].cid \in Ids /\ s[j].cid = s[k].cid => j = k
IdsOnce ==
  /\ \A h, g \in Standing : cid[h] \in Ids /\ cid[h] = cid[g] => h = g
  /\ OnceIn(drops)
  /\ \A h \in Standing, k \in DOMAIN drops : cid[h] \in Ids => cid[h] # drops[k].cid
  /\ mob.alive /\ mob.cid \in Ids =>
       /\ \A h \in Standing : cid[h] # mob.cid
       /\ \A k \in DOMAIN drops : drops[k].cid # mob.cid
OwnersGiven ==
  /\ \A h \in Standing : cid[h] \in Ids => cid[h] \in given
  /\ \A k \in DOMAIN drops : drops[k].cid \in Ids => drops[k].cid \in given
  /\ mob.alive /\ mob.cid \in Ids => mob.cid \in given

IdsOK == IdsOnce /\ OwnersGiven

\* Some one on the map has id i.
Used(i) ==
  \/ \E h \in Standing : cid[h] = i
  \/ \E k \in DOMAIN drops : drops[k].cid = i
  \/ mob.alive /\ mob.cid = i
AllUsed == \A i \in given \ leaked : Used(i)

IInv ==
  /\ TypeOK /\ Locks /\ HandlerAsks /\ HandlerKnows /\ RoundKnows
  /\ Things_ /\ AllUsed
  /\ ~mixed => IdsOK

-----------------------------------------------------------------------------
(* Lists of drops *)

\* Removing a place of a list: every other entry stays, and moves by one at most.
LEMMA RemovedFacts ==
  ASSUME NEW S, NEW s \in Seq(S), NEW k \in DOMAIN s
  PROVE  /\ RemoveAt(s, k) \in Seq(S)
         /\ DOMAIN RemoveAt(s, k) = 1..Len(s) - 1
         /\ \A i \in 1..Len(s) - 1 : RemoveAt(s, k)[i] = s[IF i < k THEN i ELSE i + 1]
<1> DEFINE a == SubSeq(s, 1, k - 1)
           b == SubSeq(s, k + 1, Len(s))
<1>1. Len(s) \in Nat /\ DOMAIN s = 1..Len(s) /\ k \in 1..Len(s) /\ \A i \in 1..Len(s) : s[i] \in S
  OBVIOUS
<1>2. /\ a \in Seq(S) /\ Len(a) = k - 1
      /\ \A i \in 1..k - 1 : a[i] = s[i]
  <2>1. 1 \in Int /\ k - 1 \in Int /\ \A i \in 1..k - 1 : s[i] \in S
    BY <1>1
  <2>2. /\ a \in Seq(S)
        /\ Len(a) = IF 1 <= k - 1 THEN (k - 1) - 1 + 1 ELSE 0
        /\ \A i \in 1..(k - 1) - 1 + 1 : a[i] = s[1 + i - 1]
    BY <2>1, SubSeqProperties
  <2> HIDE DEF a
  <2> QED BY <1>1, <2>2
<1>3. /\ b \in Seq(S) /\ Len(b) = Len(s) - k
      /\ \A i \in 1..Len(s) - k : b[i] = s[k + i]
  <2>1. k + 1 \in Int /\ Len(s) \in Int /\ \A i \in k + 1..Len(s) : s[i] \in S
    BY <1>1
  <2>2. /\ b \in Seq(S)
        /\ Len(b) = IF k + 1 <= Len(s) THEN Len(s) - (k + 1) + 1 ELSE 0
        /\ \A i \in 1..Len(s) - (k + 1) + 1 : b[i] = s[(k + 1) + i - 1]
    BY <2>1, SubSeqProperties
  <2> HIDE DEF b
  <2>3. Len(s) - (k + 1) + 1 = Len(s) - k
    BY <1>1
  <2>4. Len(b) = Len(s) - k
    BY <1>1, <2>2
  <2>5. \A i \in 1..Len(s) - k : (k + 1) + i - 1 = k + i
    BY <1>1
  <2> QED BY <2>2, <2>3, <2>4, <2>5
<1> HIDE DEF a, b
<1>4. /\ a \o b \in Seq(S) /\ Len(a \o b) = Len(s) - 1
      /\ \A i \in 1..Len(s) - 1 : (a \o b)[i] = IF i <= Len(a) THEN a[i] ELSE b[i - Len(a)]
  <2>1. /\ a \o b \in Seq(S) /\ Len(a \o b) = Len(a) + Len(b)
        /\ \A i \in 1..Len(a) + Len(b) : (a \o b)[i] = IF i <= Len(a) THEN a[i] ELSE b[i - Len(a)]
    BY <1>2, <1>3, ConcatProperties
  <2>2. Len(a) + Len(b) = Len(s) - 1
    BY <1>1, <1>2, <1>3
  <2> QED BY <2>1, <2>2
<1>5. RemoveAt(s, k) = a \o b
  BY DEF RemoveAt, a, b
<1>6. \A i \in 1..Len(s) - 1 : (a \o b)[i] = s[IF i < k THEN i ELSE i + 1]
  <2> TAKE i \in 1..Len(s) - 1
  <2>1. CASE i < k
    <3>1. i <= Len(a) /\ i \in 1..k - 1
      BY <1>1, <1>2, <2>1
    <3> QED BY <1>2, <1>4, <2>1, <3>1
  <2>2. CASE ~(i < k)
    <3>1. ~(i <= Len(a)) /\ i - (k - 1) \in 1..Len(s) - k /\ k + (i - (k - 1)) = i + 1
      BY <1>1, <1>2, <2>2
    <3> QED BY <1>2, <1>3, <1>4, <2>2, <3>1
  <2> QED BY <2>1, <2>2
<1>7. DOMAIN (a \o b) = 1..Len(s) - 1
  BY <1>4, LenProperties
<1> QED BY <1>4, <1>5, <1>6, <1>7

\* What a drop's deletion does to the properties of the list.
LEMMA Removal ==
  ASSUME NEW s \in Seq(DropRecords), NEW k \in DOMAIN s
  PROVE  LET w == RemoveAt(s, k) IN
         /\ w \in Seq(DropRecords)
         /\ Apart(s) => Apart(w)
         /\ OnceIn(s) => OnceIn(w)
         /\ \A j \in DOMAIN w : \E i \in DOMAIN s : i # k /\ w[j] = s[i]
         /\ \A i \in DOMAIN s : i # k => \E j \in DOMAIN w : w[j] = s[i]
<1> DEFINE w == RemoveAt(s, k)
           was(i) == IF i < k THEN i ELSE i + 1
<1>1. Len(s) \in Nat /\ DOMAIN s = 1..Len(s)
  OBVIOUS
<1>2. /\ w \in Seq(DropRecords) /\ DOMAIN w = 1..Len(s) - 1
      /\ \A i \in 1..Len(s) - 1 : w[i] = s[was(i)]
  BY RemovedFacts
<1> HIDE DEF w
<1>3. \A i \in 1..Len(s) - 1 : was(i) \in 1..Len(s) /\ was(i) # k
  BY <1>1
<1>4. \A i, j \in 1..Len(s) - 1 : was(i) = was(j) => i = j
  BY <1>1
<1>5. \A i \in 1..Len(s) : i # k => \E j \in 1..Len(s) - 1 : was(j) = i
  <2> TAKE i \in 1..Len(s)
  <2>1. i < k => i \in 1..Len(s) - 1 /\ was(i) = i
    BY <1>1
  <2>2. i > k => i - 1 \in 1..Len(s) - 1 /\ was(i - 1) = i
    BY <1>1
  <2> HIDE DEF was
  <2> QED BY <1>1, <2>1, <2>2
<1> HIDE DEF was
<1>6. Apart(s) => Apart(w)
  BY <1>1, <1>2, <1>3, <1>4 DEF Apart
<1>7. OnceIn(s) => OnceIn(w)
  BY <1>1, <1>2, <1>3, <1>4 DEF OnceIn
<1>8. \A j \in DOMAIN w : \E i \in DOMAIN s : i # k /\ w[j] = s[i]
  BY <1>1, <1>2, <1>3
<1>9. \A i \in DOMAIN s : i # k => \E j \in DOMAIN w : w[j] = s[i]
  BY <1>1, <1>2, <1>5
<1> QED BY <1>2, <1>6, <1>7, <1>8, <1>9 DEF w

\* What a new drop does to them.
LEMMA Appending ==
  ASSUME NEW s \in Seq(DropRecords), NEW d \in DropRecords
  PROVE  LET w == Append(s, d) IN
         /\ w \in Seq(DropRecords)
         /\ Len(s) \in Nat /\ DOMAIN s = 1..Len(s)
         /\ DOMAIN w = DOMAIN s \cup {Len(s) + 1} /\ Len(s) + 1 \notin DOMAIN s
         /\ \A i \in DOMAIN s : w[i] = s[i]
         /\ w[Len(s) + 1] = d
BY AppendProperties

\* The same for the list of the map, in the steps that remove a drop or add one.
LEMMA Without ==
  ASSUME drops \in Seq(DropRecords), NEW k \in DOMAIN drops, drops' = RemoveAt(drops, k)
  PROVE  /\ Apart(drops) => Apart(drops')
         /\ OnceIn(drops) => OnceIn(drops')
         /\ \A j \in DOMAIN drops' : \E i \in DOMAIN drops : i # k /\ drops'[j] = drops[i]
         /\ \A i \in DOMAIN drops : i # k => \E j \in DOMAIN drops' : drops'[j] = drops[i]
<1> DEFINE w == RemoveAt(drops, k)
<1>1. /\ Apart(drops) => Apart(w)
      /\ OnceIn(drops) => OnceIn(w)
      /\ \A j \in DOMAIN w : \E i \in DOMAIN drops : i # k /\ w[j] = drops[i]
      /\ \A i \in DOMAIN drops : i # k => \E j \in DOMAIN w : w[j] = drops[i]
  BY Removal
<1>2. drops' = w
  OBVIOUS
<1> HIDE DEF w
<1> QED BY <1>1, <1>2

LEMMA With ==
  ASSUME drops \in Seq(DropRecords), NEW d \in DropRecords, drops' = Append(drops, d)
  PROVE  /\ Len(drops) \in Nat /\ DOMAIN drops = 1..Len(drops)
         /\ DOMAIN drops' = DOMAIN drops \cup {Len(drops) + 1} /\ Len(drops) + 1 \notin DOMAIN drops
         /\ \A i \in DOMAIN drops : drops'[i] = drops[i]
         /\ drops'[Len(drops) + 1] = d
<1> DEFINE w == Append(drops, d)
<1>1. /\ Len(drops) \in Nat /\ DOMAIN drops = 1..Len(drops)
      /\ DOMAIN w = DOMAIN drops \cup {Len(drops) + 1} /\ Len(drops) + 1 \notin DOMAIN drops
      /\ \A i \in DOMAIN drops : w[i] = drops[i]
      /\ w[Len(drops) + 1] = d
  BY Appending
<1>2. drops' = w
  OBVIOUS
<1> HIDE DEF w
<1> QED BY <1>1, <1>2

\* A drop that grows older is the same thing, with the same id, at its place.
LEMMA Older ==
  ASSUME drops \in Seq(DropRecords), NEW k \in DOMAIN drops,
         drops' = [drops EXCEPT ![k].age = IF @ = "new" THEN "open" ELSE "old"]
  PROVE  /\ DOMAIN drops' = DOMAIN drops
         /\ \A j \in DOMAIN drops : j # k => drops'[j] = drops[j]
         /\ \A j \in DOMAIN drops :
              drops'[j].thing = drops[j].thing /\ drops'[j].cid = drops[j].cid
<1> DEFINE d == [drops[k] EXCEPT !.age = IF drops[k].age = "new" THEN "open" ELSE "old"]
<1>1. /\ DOMAIN drops' = DOMAIN drops /\ drops'[k] = d
      /\ \A j \in DOMAIN drops : j # k => drops'[j] = drops[j]
  OBVIOUS
<1>2. drops[k] \in DropRecords
  OBVIOUS
<1>3. d.thing = drops[k].thing /\ d.cid = drops[k].cid
  BY <1>2 DEF DropRecords
<1> HIDE DEF d
<1> QED BY <1>1, <1>3

-----------------------------------------------------------------------------
(* Types *)

LEMMA SomeThingIs == SomeThing \in Things
BY DEF SomeThing

\* A handler that takes a step ends, or goes on as the thread it is.
LEMMA EndsTypes ==
  ASSUME TypeOK, Ends
  PROVE  /\ sock' = Idle /\ sock' \in SockStates
         /\ mutex' \in [{"Player", "Map"} -> {"free", "socket", "world"}]
BY DEF Ends, TypeOK, SockStates

LEMMA UnwatchTypes ==
  ASSUME TypeOK, Unwatch
  PROVE  /\ world' = Idle /\ world' \in WorldStates
         /\ mutex' \in [{"Player", "Map"} -> {"free", "socket", "world"}]
BY DEF Unwatch, TypeOK, WorldStates

LEMMA SeekTypes ==
  ASSUME TypeOK, NEW job \in Jobs, NEW p \in Players, NEW t \in Things, NEW i \in Ids \cup {NoId},
         Seek(job, p, t, i)
  PROVE  /\ sock' \in SockStates
         /\ mutex' \in [{"Player", "Map"} -> {"free", "socket", "world"}]
<1>1. sock' \in [at : {"write"}, job : Jobs, p : Players, thing : Things, cid : Ids \cup {NoId}]
  BY DEF Seek
<1>2. mutex' \in [{"Player", "Map"} -> {"free", "socket", "world"}]
  BY DEF Seek, TypeOK
<1> QED BY <1>1, <1>2 DEF SockStates

\* What a thread that looks for an id, or holds a drop, knows of it.
LEMMA SockFields ==
  ASSUME TypeOK
  PROVE  /\ sock.at = "write" => /\ sock.job \in Jobs /\ sock.p \in Players
                                 /\ sock.thing \in Things /\ sock.cid \in Ids \cup {NoId}
         /\ sock.at = "leave" => sock.p \in Players
         /\ sock.at = "take" => sock.p \in Players /\ sock.drop \in DropRecords
         /\ sock.at = "delete" => sock.drop \in DropRecords
         /\ world.at = "clean" => world.j \in Nat \ {0} /\ world.due \in BOOLEAN
         /\ world.at = "write" => world.cid \in Ids \cup {NoId}
         /\ Idle.at = "idle"
         /\ sock.at = "idle" => sock = Idle
         /\ world.at = "idle" => world = Idle
<1>1. Idle.at = "idle"
  BY DEF Idle
<1>2. sock \in SockStates /\ world \in WorldStates
  BY DEF TypeOK
<1>3. /\ sock.at = "write" => /\ sock.job \in Jobs /\ sock.p \in Players
                              /\ sock.thing \in Things /\ sock.cid \in Ids \cup {NoId}
      /\ sock.at = "leave" => sock.p \in Players
  BY <1>1, <1>2 DEF SockStates
<1>4. /\ sock.at = "take" => sock.p \in Players /\ sock.drop \in DropRecords
      /\ sock.at = "delete" => sock.drop \in DropRecords
      /\ sock.at = "idle" => sock = Idle
  BY <1>1, <1>2 DEF SockStates
<1>5. /\ world.at = "clean" => world.j \in Nat \ {0} /\ world.due \in BOOLEAN
      /\ world.at = "write" => world.cid \in Ids \cup {NoId}
      /\ world.at = "idle" => world = Idle
  BY <1>1, <1>2 DEF WorldStates
<1> QED BY <1>1, <1>3, <1>4, <1>5

\* The marks of a step keep their types, whatever ids it names.
LEMMA MarksTypes ==
  ASSUME NEW confused, NEW forgotten, Marks(confused, forgotten), TypeOK, given' \in SUBSET Ids
  PROVE  mixed' \in BOOLEAN /\ leaked' \in SUBSET Ids
BY DEF Marks, TypeOK

\* The fields of a drop.
LEMMA DropTypes ==
  ASSUME NEW t \in Things, NEW i \in Ids \cup {NoId}, NEW o \in Players \cup {NoOne}
  PROVE  /\ Drop(t, i, o) \in DropRecords
         /\ Drop(t, i, o).thing = t /\ Drop(t, i, o).cid = i /\ Drop(t, i, o).age = "new"
BY DEF Drop, DropRecords

\* Every step keeps the types.
LEMMA TypeStep ==
  ASSUME TypeOK, HandlerAsks, [Next]_vars
  PROVE  TypeOK'
<1> DEFINE MutexOK == mutex' \in [{"Player", "Map"} -> {"free", "socket", "world"}]
<1>0. /\ given \in SUBSET Ids /\ drops \in Seq(DropRecords)
      /\ DOMAIN drops = 1..Len(drops) /\ \A k \in DOMAIN drops : drops[k] \in DropRecords
  BY DEF TypeOK
<1>1. \A i : Gives(i) \in SUBSET Ids /\ Clears(i) \in SUBSET Ids
  BY <1>0 DEF Gives, Clears
<1>2. \A i \in Findable(given) : i \in Ids \cup {NoId}
  BY DEF Findable
<1>3. ASSUME NEW p \in Players, pakDoIdentify(p) PROVE TypeOK'
  BY <1>3 DEF pakDoIdentify, TypeOK, history, SockStates, WorldStates
<1>4. ASSUME NEW p \in Players, pakDoID(p) PROVE TypeOK'
  <2>1. PICK i \in Findable(given) : Seek("enter", p, SomeThing, i)
    BY <1>4 DEF pakDoID
  <2>2. sock' \in SockStates /\ MutexOK
    BY <1>2, <2>1, SeekTypes, SomeThingIs DEF Jobs
  <2> QED BY <1>4, <2>2 DEF pakDoID, TypeOK, people, history, WorldStates
<1>5. ASSUME NEW p \in Players, NEW t \in Things, pakDoDrop(p, t) PROVE TypeOK'
  <2>1. PICK i \in Findable(given) : Seek("first", p, t, i)
    BY <1>5 DEF pakDoDrop
  <2>2. sock' \in SockStates /\ MutexOK
    BY <1>2, <2>1, SeekTypes DEF Jobs
  <2> QED BY <1>5, <2>2 DEF pakDoDrop, TypeOK, people, history, WorldStates
<1>6. ASSUME NEW p \in Players, TeleportPlayer(p) PROVE TypeOK'
  <2>1. mixed' \in BOOLEAN /\ leaked' \in SUBSET Ids
    BY <1>1, <1>6, MarksTypes DEF TeleportPlayer, NoMarks
  <2> QED BY <1>1, <1>6, <2>1 DEF TeleportPlayer, TypeOK, SockStates, WorldStates
<1>7. ASSUME NEW p \in Players, Disconnects(p) PROVE TypeOK'
  <2>1. sock' = [at |-> "leave", p |-> p] /\ mutex' = [mutex EXCEPT !.Player = "socket"]
    BY <1>7 DEF Disconnects, Begins
  <2>2. sock' \in SockStates /\ MutexOK
    BY <2>1 DEF SockStates, TypeOK
  <2> QED BY <1>7, <2>2 DEF Disconnects, TypeOK, people, history, WorldStates
<1>8. ASSUME NEW p \in Players, NEW k \in Places, pakPickDrop(p, k) PROVE TypeOK'
  <2>1. /\ sock' = [at |-> "take", p |-> p, drop |-> drops[k]]
        /\ mutex' = [mutex EXCEPT !.Player = "socket"] /\ k \in DOMAIN drops
    BY <1>8 DEF pakPickDrop, Begins
  <2>2. sock' \in [at : {"take"}, p : Players, drop : DropRecords]
    BY <1>0, <2>1
  <2>3. MutexOK
    BY <2>1 DEF TypeOK
  <2> QED BY <1>8, <2>2, <2>3 DEF pakPickDrop, TypeOK, people, history, WorldStates, SockStates
<1>9. CASE Entered
  <2>1. given' \in SUBSET Ids /\ mixed' \in BOOLEAN /\ leaked' \in SUBSET Ids
    BY <1>1, <1>9, MarksTypes DEF Entered
  <2>2. sock.p \in Players /\ sock.cid \in Ids \cup {NoId} /\ sock.p \in present
    BY <1>9, SockFields DEF Entered, HandlerAsks
  <2>3. cid' \in [Holders -> Ids \cup {NoId}]
    BY <1>9, <2>2 DEF Entered, TypeOK
  <2>4. sock' \in SockStates /\ MutexOK /\ inGame' \in SUBSET present'
    <3>1. CASE Ends /\ inGame' = inGame \cup {sock.p}
      BY <1>9, <2>2, <3>1, EndsTypes DEF Entered, TypeOK
    <3>2. CASE /\ sock' = [at |-> "leave", p |-> sock.p] /\ inGame' = inGame
               /\ mutex' = [mutex EXCEPT !.Map = IF @ = "socket" THEN "free" ELSE @]
      <4>1. sock' \in [at : {"leave"}, p : Players]
        BY <2>2, <3>2
      <4>2. MutexOK
        BY <3>2 DEF TypeOK
      <4> QED BY <1>9, <3>2, <4>1, <4>2 DEF Entered, TypeOK, SockStates
    <3> QED BY <1>9, <3>1, <3>2 DEF Entered
  <2> QED BY <1>9, <2>1, <2>3, <2>4 DEF Entered, TypeOK, WorldStates
<1>10. CASE FirstId
  <2>1. given' \in SUBSET Ids /\ mixed' \in BOOLEAN /\ leaked' \in SUBSET Ids
    BY <1>1, <1>10, MarksTypes DEF FirstId
  <2>2. PICK i \in Findable(Gives(sock.cid)) : Seek("second", sock.p, sock.thing, i)
    BY <1>10 DEF FirstId
  <2>3. i \in Ids \cup {NoId} /\ sock.p \in Players /\ sock.thing \in Things
    BY <1>10, SockFields DEF FirstId, Findable
  <2>4. sock' \in SockStates /\ MutexOK
    BY <2>2, <2>3, SeekTypes DEF Jobs
  <2> QED BY <1>10, <2>1, <2>4 DEF FirstId, TypeOK, people, WorldStates
<1>11. CASE AddDrop
  <2>1. given' \in SUBSET Ids /\ mixed' \in BOOLEAN /\ leaked' \in SUBSET Ids
    BY <1>1, <1>11, MarksTypes DEF AddDrop
  <2>2. sock.cid \in Ids \cup {NoId} /\ sock.thing \in Things
    BY <1>11, SockFields DEF AddDrop
  <2>3. drops' \in Seq(DropRecords)
    BY <1>0, <1>11, <2>2, DropTypes, Appending DEF AddDrop
  <2>4. sock' \in SockStates /\ MutexOK
    BY <1>11, EndsTypes DEF AddDrop
  <2>5. bag' \in [Holders -> SUBSET Things]
    BY <1>11 DEF AddDrop, TypeOK
  <2> QED BY <1>11, <2>1, <2>3, <2>4, <2>5 DEF AddDrop, TypeOK, people, WorldStates
<1>12. CASE DeleteClientSocket
  <2>1. given' \in SUBSET Ids /\ mixed' \in BOOLEAN /\ leaked' \in SUBSET Ids
    BY <1>1, <1>12, MarksTypes DEF DeleteClientSocket
  <2>2. sock' \in SockStates /\ MutexOK
    BY <1>12, EndsTypes DEF DeleteClientSocket
  <2>3. cid' \in [Holders -> Ids \cup {NoId}] /\ bag' \in [Holders -> SUBSET Things]
    BY <1>12 DEF DeleteClientSocket, TypeOK
  <2> QED BY <1>12, <2>1, <2>2, <2>3 DEF DeleteClientSocket, TypeOK, WorldStates
<1>13. CASE Take
  <2>1. /\ sock.drop \in DropRecords /\ sock' = [at |-> "delete", drop |-> sock.drop]
    BY <1>13, SockFields DEF Take
  <2>2. PICK r \in Players : bag' = [bag EXCEPT ![r] = @ \cup {sock.drop.thing}]
    BY <1>13 DEF Take, PartiesOf
  <2>3. sock.drop.thing \in Things
    BY <2>1 DEF DropRecords
  <2>4. bag' \in [Holders -> SUBSET Things]
    BY <2>2, <2>3 DEF TypeOK, Holders
  <2>5. sock' \in [at : {"delete"}, drop : DropRecords]
    BY <2>1
  <2> QED BY <1>13, <2>4, <2>5 DEF Take, TypeOK, people, history, SockStates, WorldStates
<1>14. CASE NotTaken \/ Garbled
  BY <1>14, EndsTypes DEF NotTaken, Garbled, TypeOK, people, history, WorldStates
<1>15. CASE DeletePicked
  <2>1. given' \in SUBSET Ids /\ mixed' \in BOOLEAN /\ leaked' \in SUBSET Ids
    BY <1>1, <1>15, MarksTypes DEF DeletePicked
  <2>2. drops' \in Seq(DropRecords)
    <3>1. CASE InList(sock.drop)
      <4>1. IndexOf(sock.drop) \in DOMAIN drops
        BY <3>1 DEF InList, IndexOf
      <4> QED BY <1>0, <1>15, <3>1, <4>1, Removal DEF DeletePicked
    <3>2. CASE ~InList(sock.drop)
      BY <1>0, <1>15, <3>2 DEF DeletePicked
    <3> QED BY <3>1, <3>2
  <2>3. sock' \in SockStates /\ MutexOK
    BY <1>15, EndsTypes DEF DeletePicked
  <2> QED BY <1>15, <2>1, <2>2, <2>3 DEF DeletePicked, TypeOK, people, WorldStates
<1>16. CASE Crash
  <2>1. PICK i \in Ids, j \in Ids :
          /\ given' = {i, j} /\ mob' = [alive |-> TRUE, cid |-> i]
          /\ cid' = [h \in Holders |-> IF h = Bot THEN j ELSE NoId]
    BY <1>16 DEF Crash
  <2>2. mob' \in Mobs /\ cid' \in [Holders -> Ids \cup {NoId}]
    BY <2>1 DEF Mobs
  <2>3. mutex' = [m \in {"Player", "Map"} |-> "free"] /\ drops' = <<>>
    BY <1>16 DEF Crash
  <2>4. MutexOK /\ drops' \in Seq(DropRecords)
    BY <2>3
  <2>5. sock' \in SockStates /\ world' \in WorldStates
    BY <1>16 DEF Crash, SockStates, WorldStates
  <2> QED BY <1>16, <2>1, <2>2, <2>4, <2>5 DEF Crash, TypeOK
<1>17. CASE WorldProcess
  <2>1. /\ world' = [at |-> "clean", j |-> 1, due |-> AnyOld]
        /\ mutex' = [mutex EXCEPT !.Map = "world"]
    BY <1>17 DEF WorldProcess
  <2>2. world' \in [at : {"clean"}, j : Nat \ {0}, due : BOOLEAN]
    <3>1. AnyOld \in BOOLEAN
      BY DEF AnyOld
    <3> QED BY <2>1, <3>1
  <2>3. MutexOK
    BY <2>1 DEF TypeOK
  <2> QED BY <1>17, <2>2, <2>3 DEF WorldProcess, TypeOK, people, history, SockStates, WorldStates
<1>18. CASE CleanDrop
  <2>1. given' \in SUBSET Ids
    BY <1>0, <1>1, <1>18 DEF CleanDrop
  <2>2. mixed' \in BOOLEAN /\ leaked' \in SUBSET Ids
    BY <1>18, <2>1, MarksTypes DEF CleanDrop, NoMarks
  <2>3. drops' \in Seq(DropRecords)
    BY <1>0, <1>18, Removal DEF CleanDrop
  <2>4. world \in [at : {"clean"}, j : Nat \ {0}, due : BOOLEAN]
    BY <1>18 DEF CleanDrop, TypeOK, WorldStates, Idle
  <2>5. world' \in [at : {"clean"}, j : Nat \ {0}, due : BOOLEAN]
    <3>1. \/ world' = [world EXCEPT !.j = @ + 1, !.due = FALSE]
          \/ world' = [world EXCEPT !.j = @ + 1]
      BY <1>18 DEF CleanDrop
    <3>2. world.j + 1 \in Nat \ {0}
      BY <2>4
    <3>3. \A n \in Nat \ {0} : /\ [world EXCEPT !.j = n] \in [at : {"clean"}, j : Nat \ {0}, due : BOOLEAN]
                              /\ [world EXCEPT !.j = n, !.due = FALSE]
                                   \in [at : {"clean"}, j : Nat \ {0}, due : BOOLEAN]
      BY <2>4
    <3> QED BY <3>1, <3>2, <3>3
  <2> QED BY <1>18, <2>1, <2>2, <2>3, <2>5 DEF CleanDrop, TypeOK, people, SockStates, WorldStates
<1>19. CASE NoRespawn
  BY <1>19, UnwatchTypes DEF NoRespawn, TypeOK, people, history, SockStates
<1>20. CASE RespawnMonster
  <2>1. PICK i \in Findable(given) : world' = [at |-> "write", cid |-> i]
    BY <1>20 DEF RespawnMonster
  <2>2. world' \in [at : {"write"}, cid : Ids \cup {NoId}]
    BY <1>2, <2>1
  <2>3. MutexOK
    BY <1>20 DEF RespawnMonster, TypeOK
  <2> QED BY <1>20, <2>2, <2>3 DEF RespawnMonster, TypeOK, people, history, SockStates, WorldStates
<1>21. CASE AddMonster
  <2>1. given' \in SUBSET Ids /\ mixed' \in BOOLEAN /\ leaked' \in SUBSET Ids
    BY <1>1, <1>21, MarksTypes DEF AddMonster
  <2>2. mob' \in Mobs
    BY <1>21, SockFields DEF AddMonster, Mobs
  <2>3. world' \in WorldStates /\ MutexOK
    BY <1>21, UnwatchTypes DEF AddMonster
  <2> QED BY <1>21, <2>1, <2>2, <2>3 DEF AddMonster, TypeOK, people, SockStates
<1>22. ASSUME NEW t \in Things, NEW o \in Players \cup {NoOne}, Kill(t, o) PROVE TypeOK'
  <2>1. PICK i \in Findable(given) : given' = Gives(i) \ {mob.cid} /\ drops' = Append(drops, Drop(t, i, o))
    BY <1>22 DEF Kill
  <2>2. given' \in SUBSET Ids
    BY <1>1, <2>1
  <2>3. mixed' \in BOOLEAN /\ leaked' \in SUBSET Ids
    BY <1>22, <2>2, MarksTypes DEF Kill, NoMarks
  <2>4. drops' \in Seq(DropRecords)
    BY <1>0, <1>2, <2>1, DropTypes, Appending
  <2>5. mob' \in Mobs
    BY <1>22 DEF Kill, Mobs
  <2> QED BY <1>22, <2>2, <2>3, <2>4, <2>5 DEF Kill, TypeOK, people, SockStates, WorldStates
<1>23. CASE KillForNothing
  <2>1. mixed' \in BOOLEAN /\ leaked' \in SUBSET Ids
    BY <1>1, <1>23, MarksTypes DEF KillForNothing, NoMarks
  <2> QED BY <1>1, <1>23, <2>1 DEF KillForNothing, TypeOK, people, SockStates, WorldStates, Mobs
<1>24. CASE BotTeleports
  <2>1. mixed' \in BOOLEAN /\ leaked' \in SUBSET Ids
    BY <1>1, <1>24, MarksTypes DEF BotTeleports
  <2> QED BY <1>1, <1>24, <2>1 DEF BotTeleports, TypeOK, people, SockStates, WorldStates
<1>25. ASSUME NEW k \in Places, HandleLoot(k) PROVE TypeOK'
  <2>1. given' \in SUBSET Ids /\ mixed' \in BOOLEAN /\ leaked' \in SUBSET Ids
    BY <1>1, <1>25, MarksTypes DEF HandleLoot, NoMarks
  <2>2. drops' \in Seq(DropRecords)
    BY <1>0, <1>25, Removal DEF HandleLoot
  <2>3. drops[k].thing \in Things
    BY <1>0, <1>25 DEF HandleLoot, DropRecords
  <2>4. bag' \in [Holders -> SUBSET Things]
    BY <1>25, <2>3 DEF HandleLoot, TypeOK, Holders
  <2> QED BY <1>25, <2>1, <2>2, <2>4 DEF HandleLoot, TypeOK, people, SockStates, WorldStates
<1>26. ASSUME NEW k \in Places, GrowOld(k) PROVE TypeOK'
  <2>1. /\ k \in 1..Len(drops)
        /\ drops' = [drops EXCEPT ![k].age = IF @ = "new" THEN "open" ELSE "old"]
    BY <1>0, <1>26 DEF GrowOld
  <2>2. [drops[k] EXCEPT !.age = IF @ = "new" THEN "open" ELSE "old"] \in DropRecords
    BY <1>0, <2>1 DEF DropRecords
  <2>3. drops' \in Seq(DropRecords)
    BY <1>0, <2>1, <2>2, ExceptSeq
  <2> QED BY <1>26, <2>3 DEF GrowOld, TypeOK, people, history, SockStates, WorldStates
<1>27. CASE UNCHANGED vars
  BY <1>27 DEF vars, people, history, TypeOK, SockStates, WorldStates
<1> QED BY <1>3, <1>4, <1>5, <1>6, <1>7, <1>8, <1>9, <1>10, <1>11, <1>12, <1>13, <1>14, <1>15, <1>16,
           <1>17, <1>18, <1>19, <1>20, <1>21, <1>22, <1>23, <1>24, <1>25, <1>26, <1>27
        DEF Next, SocketGoesOn, WorldGoesOn

-----------------------------------------------------------------------------
(* Who holds which mutex *)

LEMMA EndsLocks ==
  ASSUME TypeOK, Locks, Ends, world' = world
  PROVE  Locks'
BY DEF TypeOK, Locks, Ends

LEMMA UnwatchLocks ==
  ASSUME TypeOK, Locks, Unwatch, sock' = sock
  PROVE  Locks'
BY DEF TypeOK, Locks, Unwatch

LEMMA SeekLocks ==
  ASSUME TypeOK, Locks, NEW job, NEW p, NEW t, NEW i, Seek(job, p, t, i), world' = world,
         Free("Player") \/ sock # Idle
  PROVE  Locks'
BY DEF TypeOK, Locks, Seek, Free

\* Handlers and rounds take their mutex first and let go of it last; a search
\* for an id takes what is free besides.
LEMMA LocksStep ==
  ASSUME TypeOK, Locks, [Next]_vars
  PROVE  Locks'
<1>0. /\ Idle.at = "idle" /\ (sock.at # "idle" => sock # Idle) /\ (world.at # "idle" => world # Idle)
      /\ mutex \in [{"Player", "Map"} -> {"free", "socket", "world"}]
  BY SockFields DEF TypeOK
<1>1. ASSUME UNCHANGED <<mutex, sock, world>> PROVE Locks'
  BY <1>1 DEF Locks
<1>2. ASSUME NEW p \in Players, pakDoID(p) \/ \E t \in Things : pakDoDrop(p, t) PROVE Locks'
  BY <1>2, SeekLocks DEF pakDoID, pakDoDrop, Handles
<1>3. ASSUME NEW p \in Players, Disconnects(p) \/ \E k \in Places : pakPickDrop(p, k) PROVE Locks'
  <2>1. world' = world /\ mutex' = [mutex EXCEPT !.Player = "socket"]
    BY <1>3 DEF Disconnects, pakPickDrop, Begins
  <2> QED BY <1>0, <2>1 DEF Locks
<1>4. CASE Entered
  <2>1. CASE Ends
    BY <1>4, <2>1, EndsLocks DEF Entered
  <2>2. CASE mutex' = [mutex EXCEPT !.Map = IF @ = "socket" THEN "free" ELSE @]
    <3>1. sock # Idle /\ world' = world
      BY <1>0, <1>4 DEF Entered
    <3> QED BY <1>0, <2>2, <3>1 DEF Locks
  <2> QED BY <1>4, <2>1, <2>2 DEF Entered
<1>5. CASE FirstId
  BY <1>0, <1>5, SeekLocks DEF FirstId
<1>6. CASE AddDrop \/ DeleteClientSocket \/ NotTaken \/ Garbled \/ DeletePicked
  BY <1>6, EndsLocks DEF AddDrop, DeleteClientSocket, NotTaken, Garbled, DeletePicked
<1>7. CASE Take
  BY <1>0, <1>7 DEF Take, Locks
<1>8. CASE Crash
  BY <1>8 DEF Crash, Locks
<1>9. CASE WorldProcess
  <2>1. sock' = sock /\ mutex' = [mutex EXCEPT !.Map = "world"]
    BY <1>9 DEF WorldProcess
  <2> QED BY <1>0, <2>1 DEF Locks
<1>10. CASE CleanDrop
  BY <1>0, <1>10 DEF CleanDrop, Locks
<1>11. CASE NoRespawn \/ AddMonster
  BY <1>11, UnwatchLocks DEF NoRespawn, AddMonster
<1>12. CASE RespawnMonster
  <2>1. /\ sock' = sock /\ world # Idle
        /\ mutex' = IF Free("Player") THEN [mutex EXCEPT !.Player = "world"] ELSE mutex
    BY <1>0, <1>12 DEF RespawnMonster, Cleaned
  <2> QED BY <1>0, <2>1 DEF Locks, Free
<1>13. ASSUME NEW p \in Players, pakDoIdentify(p) \/ TeleportPlayer(p) PROVE Locks'
  BY <1>1, <1>13 DEF pakDoIdentify, TeleportPlayer
<1>14. ASSUME NEW t \in Things, NEW o \in Players \cup {NoOne}, Kill(t, o) PROVE Locks'
  BY <1>1, <1>14 DEF Kill
<1>15. CASE KillForNothing \/ BotTeleports
  BY <1>1, <1>15 DEF KillForNothing, BotTeleports
<1>16. ASSUME NEW k \in Places, HandleLoot(k) \/ GrowOld(k) PROVE Locks'
  BY <1>1, <1>16 DEF HandleLoot, GrowOld
<1>17. CASE UNCHANGED vars
  BY <1>1, <1>17 DEF vars
<1> QED BY <1>2, <1>3, <1>4, <1>5, <1>6, <1>7, <1>8, <1>9, <1>10, <1>11, <1>12, <1>13, <1>14,
           <1>15, <1>16, <1>17
        DEF Next, SocketGoesOn, WorldGoesOn

-----------------------------------------------------------------------------
(* What handlers and rounds know *)

\* While a handler is under way the map thread and other handlers are out:
\* only its own steps change who is on the map and what is carried.
LEMMA AsksStep ==
  ASSUME TypeOK, Locks, HandlerAsks, [Next]_vars
  PROVE  HandlerAsks'
<1>0. Idle.at = "idle" /\ (sock.at # "idle" => sock # Idle /\ mutex.Player = "socket")
  BY SockFields DEF Locks
<1>1. ASSUME UNCHANGED <<present, inGame, bag, sock>> PROVE HandlerAsks'
  BY <1>1 DEF HandlerAsks
<1>2. ASSUME sock'.at # "write" PROVE HandlerAsks'
  BY <1>2 DEF HandlerAsks
<1>3. ASSUME sock = Idle, sock' = sock PROVE HandlerAsks'
  BY <1>0, <1>2, <1>3
<1>4. ASSUME Quiet, sock' = sock PROVE HandlerAsks'
  BY <1>0, <1>2, <1>4 DEF Quiet, Free
<1>5. ASSUME Ends PROVE HandlerAsks'
  BY <1>0, <1>2, <1>5 DEF Ends
<1>6. ASSUME NEW p \in Players, pakDoIdentify(p) \/ TeleportPlayer(p) PROVE HandlerAsks'
  BY <1>3, <1>6 DEF pakDoIdentify, TeleportPlayer, Handles
<1>7. ASSUME NEW p \in Players, pakDoID(p) PROVE HandlerAsks'
  <2>1. /\ sock'.job = "enter" /\ sock'.p = p /\ p \in present \ inGame
        /\ present' = present /\ inGame' = inGame
    BY <1>7 DEF pakDoID, Seek, Handles, people
  <2> QED BY <2>1 DEF HandlerAsks
<1>8. ASSUME NEW p \in Players, NEW t \in Things, pakDoDrop(p, t) PROVE HandlerAsks'
  <2>1. /\ sock'.job = "first" /\ sock'.p = p /\ sock'.thing = t /\ p \in inGame /\ t \in bag[p]
        /\ inGame' = inGame /\ bag' = bag
    BY <1>8 DEF pakDoDrop, Seek, Handles, people
  <2> QED BY <2>1 DEF HandlerAsks
<1>9. ASSUME NEW p \in Players, Disconnects(p) \/ \E k \in Places : pakPickDrop(p, k) PROVE HandlerAsks'
  BY <1>2, <1>9 DEF Disconnects, pakPickDrop, Begins
<1>10. CASE Entered
  BY <1>2, <1>5, <1>10 DEF Entered
<1>11. CASE FirstId
  <2>1. /\ sock'.job = "second" /\ sock'.p = sock.p /\ sock'.thing = sock.thing
        /\ sock.at = "write" /\ sock.job = "first" /\ inGame' = inGame /\ bag' = bag
    BY <1>11 DEF FirstId, Seek, people
  <2> QED BY <2>1 DEF HandlerAsks
<1>12. CASE AddDrop \/ DeleteClientSocket \/ NotTaken \/ Garbled \/ DeletePicked
  BY <1>5, <1>12 DEF AddDrop, DeleteClientSocket, NotTaken, Garbled, DeletePicked
<1>13. CASE Take \/ Crash
  BY <1>0, <1>2, <1>13 DEF Take, Crash
<1>14. CASE WorldProcess \/ WorldGoesOn
  BY <1>1, <1>14 DEF WorldProcess, WorldGoesOn, CleanDrop, NoRespawn, RespawnMonster, AddMonster, people
<1>15. ASSUME NEW t \in Things, NEW o \in Players \cup {NoOne}, Kill(t, o) PROVE HandlerAsks'
  BY <1>4, <1>15 DEF Kill
<1>16. CASE KillForNothing \/ BotTeleports
  BY <1>4, <1>16 DEF KillForNothing, BotTeleports
<1>17. ASSUME NEW k \in Places, HandleLoot(k) PROVE HandlerAsks'
  BY <1>4, <1>17 DEF HandleLoot
<1>18. ASSUME NEW k \in Places, GrowOld(k) PROVE HandlerAsks'
  BY <1>1, <1>18 DEF GrowOld, people
<1>19. CASE UNCHANGED vars
  BY <1>1, <1>19 DEF vars, people
<1> QED BY <1>6, <1>7, <1>8, <1>9, <1>10, <1>11, <1>12, <1>13, <1>14, <1>15, <1>16, <1>17, <1>18, <1>19
        DEF Next, SocketGoesOn

\* The world thread, alone, may work on the drops beside a handler, and it
\* only takes some away and lets the rest grow old.
LEMMA KnowsStep ==
  ASSUME TypeOK, Locks, HandlerKnows, Things_, [Next]_vars
  PROVE  HandlerKnows'
<1>0. /\ Idle.at = "idle" /\ (sock.at # "idle" => sock # Idle /\ mutex.Player = "socket")
      /\ drops \in Seq(DropRecords) /\ DOMAIN drops = 1..Len(drops)
  BY SockFields DEF Locks, TypeOK
<1>1. ASSUME sock' = sock, bag' = bag, drops' = drops PROVE HandlerKnows'
  BY <1>1 DEF HandlerKnows, Carried
<1>2. ASSUME sock'.at \notin {"take", "delete"} PROVE HandlerKnows'
  BY <1>2 DEF HandlerKnows
<1>3. ASSUME sock = Idle \/ Quiet, sock' = sock PROVE HandlerKnows'
  BY <1>0, <1>2, <1>3 DEF Quiet, Free
<1>4. ASSUME Ends PROVE HandlerKnows'
  BY <1>0, <1>2, <1>4 DEF Ends
<1>5. ASSUME NEW p \in Players, pakDoIdentify(p) \/ TeleportPlayer(p) PROVE HandlerKnows'
  BY <1>3, <1>5 DEF pakDoIdentify, TeleportPlayer, Handles
<1>6. ASSUME NEW p \in Players, pakDoID(p) \/ \E t \in Things : pakDoDrop(p, t) PROVE HandlerKnows'
  BY <1>2, <1>6 DEF pakDoID, pakDoDrop, Seek
<1>7. ASSUME NEW p \in Players, Disconnects(p) PROVE HandlerKnows'
  BY <1>2, <1>7 DEF Disconnects, Begins
<1>8. ASSUME NEW p \in Players, NEW k \in Places, pakPickDrop(p, k) PROVE HandlerKnows'
  <2>1. /\ sock = Idle /\ k \in DOMAIN drops /\ drops' = drops /\ bag' = bag
        /\ sock'.at = "take" /\ sock'.drop = drops[k]
    BY <1>8 DEF pakPickDrop, Begins, Handles
  <2>2. \A j \in DOMAIN drops : drops[j].thing = drops[k].thing => drops[j].cid = drops[k].cid
    BY <2>1 DEF Things_, Apart
  <2>3. drops[k].thing \in Lying
    BY <2>1 DEF Lying
  <2>4. Taken = {}
    BY <1>0, <2>1 DEF Taken
  <2>5. drops[k].thing \notin Carried
    BY <2>3, <2>4 DEF Things_
  <2> QED BY <2>1, <2>2, <2>5 DEF HandlerKnows, Carried
<1>9. CASE Entered \/ FirstId
  BY <1>2, <1>4, <1>9 DEF Entered, FirstId, Seek
<1>10. CASE AddDrop \/ DeleteClientSocket \/ NotTaken \/ Garbled \/ DeletePicked
  BY <1>4, <1>10 DEF AddDrop, DeleteClientSocket, NotTaken, Garbled, DeletePicked
<1>11. CASE Take
  <2>1. sock.at = "take" /\ sock'.at = "delete" /\ sock'.drop = sock.drop /\ drops' = drops
    BY <1>11 DEF Take
  <2> QED BY <2>1 DEF HandlerKnows
<1>12. CASE Crash
  BY <1>0, <1>2, <1>12 DEF Crash
<1>13. CASE WorldProcess \/ NoRespawn \/ RespawnMonster \/ AddMonster
  BY <1>1, <1>13 DEF WorldProcess, NoRespawn, RespawnMonster, AddMonster
<1>14. CASE CleanDrop
  <2>1. sock' = sock /\ bag' = bag
    BY <1>14 DEF CleanDrop
  <2>2. \A j \in DOMAIN drops' : \E i \in DOMAIN drops : drops'[j] = drops[i]
    <3>1. CASE drops' = drops
      BY <3>1
    <3>2. CASE world.j \in DOMAIN drops /\ drops' = RemoveAt(drops, world.j)
      BY <1>0, <3>2, Without
    <3> QED BY <1>14, <3>1, <3>2 DEF CleanDrop
  <2> QED BY <2>1, <2>2 DEF HandlerKnows, Carried
<1>15. ASSUME NEW t \in Things, NEW o \in Players \cup {NoOne}, Kill(t, o) PROVE HandlerKnows'
  BY <1>3, <1>15 DEF Kill
<1>16. CASE KillForNothing \/ BotTeleports
  BY <1>3, <1>16 DEF KillForNothing, BotTeleports
<1>17. ASSUME NEW k \in Places, HandleLoot(k) PROVE HandlerKnows'
  BY <1>3, <1>17 DEF HandleLoot
<1>18. ASSUME NEW k \in Places, GrowOld(k) PROVE HandlerKnows'
  <2>1. /\ sock' = sock /\ bag' = bag /\ k \in DOMAIN drops
        /\ drops' = [drops EXCEPT ![k].age = IF @ = "new" THEN "open" ELSE "old"]
    BY <1>18 DEF GrowOld
  <2>2. /\ DOMAIN drops' = DOMAIN drops
        /\ \A j \in DOMAIN drops : drops'[j].thing = drops[j].thing /\ drops'[j].cid = drops[j].cid
    BY <1>0, <2>1, Older
  <2> QED BY <2>1, <2>2 DEF HandlerKnows, Carried
<1>19. CASE UNCHANGED vars
  BY <1>1, <1>19 DEF vars
<1> QED BY <1>5, <1>6, <1>7, <1>8, <1>9, <1>10, <1>11, <1>12, <1>13, <1>14, <1>15, <1>16, <1>17, <1>18, <1>19
        DEF Next, SocketGoesOn, WorldGoesOn

\* A round keeps the old drops that it has not met: nobody else deletes a drop
\* while it cleans, and nobody's drop becomes younger.
LEMMA RoundStep ==
  ASSUME TypeOK, Locks, RoundKnows, [Next]_vars
  PROVE  RoundKnows'
<1>0. /\ Idle.at = "idle" /\ (world.at # "idle" => world # Idle /\ mutex.Map = "world")
      /\ drops \in Seq(DropRecords) /\ DOMAIN drops = 1..Len(drops) /\ Len(drops) \in Nat
      /\ world.at = "clean" => world.j \in Nat \ {0} /\ world.due \in BOOLEAN
  BY SockFields DEF Locks, TypeOK
<1>1. ASSUME world' = world, mob' = mob, drops' = drops PROVE RoundKnows'
  BY <1>1 DEF RoundKnows
<1>2. ASSUME world'.at \notin {"clean", "write"} PROVE RoundKnows'
  BY <1>2 DEF RoundKnows
<1>3. ASSUME Quiet, world' = world PROVE RoundKnows'
  BY <1>0, <1>2, <1>3 DEF Quiet, Free
<1>4. ASSUME NEW p \in Players,
             \/ pakDoIdentify(p) \/ pakDoID(p) \/ TeleportPlayer(p) \/ Disconnects(p)
             \/ \E t \in Things : pakDoDrop(p, t)
             \/ \E k \in Places : pakPickDrop(p, k)
      PROVE  RoundKnows'
  BY <1>1, <1>4 DEF pakDoIdentify, pakDoID, TeleportPlayer, Disconnects, pakDoDrop, pakPickDrop
<1>5. CASE Entered \/ FirstId \/ DeleteClientSocket \/ Take \/ NotTaken \/ Garbled
  BY <1>1, <1>5 DEF Entered, FirstId, DeleteClientSocket, Take, NotTaken, Garbled
<1>6. CASE AddDrop
  <2>1. sock.cid \in Ids \cup {NoId} /\ sock.thing \in Things
    BY <1>6, SockFields DEF AddDrop
  <2>2. Drop(sock.thing, sock.cid, NoOne) \in DropRecords
    BY <2>1, DropTypes
  <2>3. drops' = Append(drops, Drop(sock.thing, sock.cid, NoOne)) /\ world' = world /\ mob' = mob
    BY <1>6 DEF AddDrop
  <2>4. DOMAIN drops \subseteq DOMAIN drops' /\ \A k \in DOMAIN drops : drops'[k] = drops[k]
    BY <1>0, <2>2, <2>3, With
  <2> QED BY <2>3, <2>4 DEF RoundKnows
<1>7. CASE DeletePicked
  BY <1>7 DEF DeletePicked, DropMutexFree, RoundKnows
<1>8. CASE Crash
  BY <1>0, <1>2, <1>8 DEF Crash
<1>9. CASE WorldProcess
  <2>1. world' = [at |-> "clean", j |-> 1, due |-> AnyOld] /\ drops' = drops
    BY <1>9 DEF WorldProcess
  <2>2. AnyOld => \E k \in DOMAIN drops : k >= 1 /\ drops[k].age = "old"
    BY <1>0 DEF AnyOld
  <2>3. world'.at = "clean" /\ world'.j = 1 /\ world'.due = AnyOld
    BY <2>1
  <2> QED BY <2>1, <2>2, <2>3 DEF RoundKnows
<1>10. CASE CleanDrop
  <2>1. CASE world' = [world EXCEPT !.j = @ + 1, !.due = FALSE]
    <3>1. world'.at = "clean" /\ world'.due = FALSE
      <4>1. world \in [at : {"clean"}, j : Nat \ {0}, due : BOOLEAN]
        BY <1>0, <1>10 DEF CleanDrop, TypeOK, WorldStates
      <4> QED BY <2>1, <4>1
    <3> QED BY <3>1 DEF RoundKnows
  <2>2. CASE /\ drops[world.j].age # "old" /\ drops' = drops
             /\ world' = [world EXCEPT !.j = @ + 1]
    <3>1. world.at = "clean" /\ world.j \in Nat /\ world \in [at : {"clean"}, j : Nat \ {0}, due : BOOLEAN]
      BY <1>0, <1>10 DEF CleanDrop, TypeOK, WorldStates
    <3>2. world'.at = "clean" /\ world'.due = world.due /\ world'.j = world.j + 1
      BY <2>2, <3>1
    <3>3. ASSUME world.due PROVE \E k \in DOMAIN drops : k >= world.j + 1 /\ drops[k].age = "old"
      <4>1. PICK k \in DOMAIN drops : k >= world.j /\ drops[k].age = "old"
        BY <3>1, <3>3 DEF RoundKnows
      <4>2. k # world.j /\ k \in Nat
        BY <1>0, <2>2, <4>1
      <4> QED BY <3>1, <4>1, <4>2
    <3> QED BY <2>2, <3>2, <3>3 DEF RoundKnows
  <2> QED BY <1>10, <2>1, <2>2 DEF CleanDrop
<1>11. CASE NoRespawn \/ AddMonster
  BY <1>0, <1>2, <1>11 DEF NoRespawn, AddMonster, Unwatch
<1>12. CASE RespawnMonster
  BY <1>12 DEF RespawnMonster, RoundKnows
<1>13. ASSUME NEW t \in Things, NEW o \in Players \cup {NoOne}, Kill(t, o) PROVE RoundKnows'
  BY <1>3, <1>13 DEF Kill
<1>14. CASE KillForNothing \/ BotTeleports
  BY <1>3, <1>14 DEF KillForNothing, BotTeleports
<1>15. ASSUME NEW k \in Places, HandleLoot(k) PROVE RoundKnows'
  BY <1>3, <1>15 DEF HandleLoot
<1>16. ASSUME NEW k \in Places, GrowOld(k) PROVE RoundKnows'
  <2>1. /\ world' = world /\ mob' = mob /\ k \in DOMAIN drops /\ drops[k].age # "old"
        /\ drops' = [drops EXCEPT ![k].age = IF @ = "new" THEN "open" ELSE "old"]
    BY <1>16 DEF GrowOld
  <2>2. DOMAIN drops' = DOMAIN drops /\ \A j \in DOMAIN drops : j # k => drops'[j] = drops[j]
    BY <1>0, <2>1
  <2> QED BY <2>1, <2>2 DEF RoundKnows
<1>17. CASE UNCHANGED vars
  BY <1>1, <1>17 DEF vars
<1> QED BY <1>4, <1>5, <1>6, <1>7, <1>8, <1>9, <1>10, <1>11, <1>12, <1>13, <1>14, <1>15, <1>16, <1>17
        DEF Next, SocketGoesOn, WorldGoesOn

-----------------------------------------------------------------------------
(* Things *)

\* Inventories that only lose things.
LEMMA BagsShrink ==
  ASSUME Bags, BagsApart, \A h \in Holders : bag'[h] \subseteq bag[h]
  PROVE  Bags' /\ BagsApart' /\ Carried' \subseteq Carried
<1>1. Bags'
  <2> SUFFICES ASSUME NEW h \in Holders
               PROVE  IsFiniteSet(bag'[h]) /\ Cardinality(bag'[h]) <= BagSize
    BY DEF Bags
  <2>1. IsFiniteSet(bag[h]) /\ Cardinality(bag[h]) <= BagSize /\ bag'[h] \subseteq bag[h]
    BY DEF Bags
  <2>2. /\ IsFiniteSet(bag'[h]) /\ Cardinality(bag'[h]) \in Nat /\ Cardinality(bag[h]) \in Nat
        /\ Cardinality(bag'[h]) <= Cardinality(bag[h])
    BY <2>1, FS_Subset, FS_CardinalityType
  <2> QED BY <2>1, <2>2
<1>2. BagsApart'
  BY DEF BagsApart
<1>3. Carried' \subseteq Carried
  BY DEF Carried
<1> QED BY <1>1, <1>2, <1>3

\* One of them gains a thing that nobody carries.
LEMMA BagGrows ==
  ASSUME Bags, BagsApart, bag \in [Holders -> SUBSET Things],
         NEW r \in Holders, Room(r), NEW t \in Things, t \notin Carried,
         bag' = [bag EXCEPT ![r] = @ \cup {t}]
  PROVE  Bags' /\ BagsApart' /\ Carried' = Carried \cup {t}
<1>1. /\ bag'[r] = bag[r] \cup {t} /\ \A h \in Holders : h # r => bag'[h] = bag[h]
      /\ \A h \in Holders : t \notin bag[h]
  BY DEF Carried
<1>2. Bags'
  <2>1. IsFiniteSet(bag[r]) /\ Cardinality(bag[r]) \in Nat /\ Cardinality(bag[r]) < BagSize
    BY FS_CardinalityType DEF Bags, Room
  <2>2. IsFiniteSet(bag'[r]) /\ Cardinality(bag'[r]) = Cardinality(bag[r]) + 1
    BY <1>1, <2>1, FS_AddElement
  <2>3. Cardinality(bag'[r]) <= BagSize
    BY <2>1, <2>2
  <2> QED BY <1>1, <2>2, <2>3 DEF Bags
<1>3. BagsApart'
  BY <1>1 DEF BagsApart
<1>4. Carried' = Carried \cup {t}
  BY <1>1 DEF Carried
<1> QED BY <1>2, <1>3, <1>4

\* A thing less on the ground, and one more.
LEMMA LyingLess ==
  ASSUME drops \in Seq(DropRecords), Apart(drops), NEW k \in DOMAIN drops,
         drops' = RemoveAt(drops, k)
  PROVE  Apart(drops') /\ Lying' = Lying \ {drops[k].thing}
<1>1. /\ Apart(drops')
      /\ \A j \in DOMAIN drops' : \E i \in DOMAIN drops : i # k /\ drops'[j] = drops[i]
      /\ \A i \in DOMAIN drops : i # k => \E j \in DOMAIN drops' : drops'[j] = drops[i]
  BY Without
<1>2. \A i \in DOMAIN drops : i # k => drops[i].thing # drops[k].thing
  BY DEF Apart
<1>3. ASSUME NEW t \in Lying' PROVE t \in Lying \ {drops[k].thing}
  BY <1>1, <1>2, <1>3 DEF Lying
<1>4. ASSUME NEW t \in Lying, t # drops[k].thing PROVE t \in Lying'
  BY <1>1, <1>4 DEF Lying
<1> QED BY <1>1, <1>3, <1>4

LEMMA LyingMore ==
  ASSUME drops \in Seq(DropRecords), Apart(drops), NEW d \in DropRecords, d.thing \notin Lying,
         drops' = Append(drops, d)
  PROVE  Apart(drops') /\ Lying' = Lying \cup {d.thing}
<1>1. /\ DOMAIN drops' = DOMAIN drops \cup {Len(drops) + 1} /\ Len(drops) + 1 \notin DOMAIN drops
      /\ \A i \in DOMAIN drops : drops'[i] = drops[i]
      /\ drops'[Len(drops) + 1] = d
  BY With
<1>2. \A i \in DOMAIN drops : drops[i].thing # d.thing
  BY DEF Lying
<1>3. Apart(drops')
  BY <1>1, <1>2 DEF Apart
<1>4. Lying' = Lying \cup {d.thing}
  BY <1>1 DEF Lying
<1> QED BY <1>3, <1>4

\* No step leaves a thing in two places, but for the one that a handler has
\* taken and is about to delete from the ground.
LEMMA ThingsStep ==
  ASSUME TypeOK, Locks, HandlerAsks, HandlerKnows, Things_, [Next]_vars
  PROVE  Things_'
<1>0. /\ drops \in Seq(DropRecords) /\ bag \in [Holders -> SUBSET Things]
      /\ \A k \in DOMAIN drops : drops[k] \in DropRecords /\ drops[k].thing \in Things
      /\ Apart(drops) /\ Bags /\ BagsApart /\ Lying \cap Carried \subseteq Taken
      /\ Players \subseteq Holders /\ Bot \in Holders
  <2>1. drops \in Seq(DropRecords) /\ bag \in [Holders -> SUBSET Things]
    BY DEF TypeOK
  <2>2. \A k \in DOMAIN drops : drops[k] \in DropRecords
    BY <2>1
  <2>3. \A d \in DropRecords : d.thing \in Things
    BY DEF DropRecords
  <2> QED BY <2>1, <2>2, <2>3 DEF Things_, Holders
<1>1. sock.at # "delete" => Taken = {}
  BY DEF Taken
<1>2. Quiet => Taken = {}
  BY <1>1, SockFields DEF Quiet, Free, Locks
<1>3. ASSUME drops' = drops, bag' = bag, sock' = sock \/ sock.at # "delete" PROVE Things_'
  BY <1>1, <1>3 DEF Things_, Apart, Bags, BagsApart, Lying, Carried, Taken
<1>4. ASSUME NEW p \in Players,
             \/ pakDoIdentify(p) \/ pakDoID(p) \/ TeleportPlayer(p) \/ Disconnects(p)
             \/ \E t \in Things : pakDoDrop(p, t)
             \/ \E k \in Places : pakPickDrop(p, k)
      PROVE  Things_'
  <2>1. drops' = drops /\ bag' = bag /\ (sock' = sock \/ sock = Idle)
    BY <1>4 DEF pakDoIdentify, pakDoID, TeleportPlayer, Disconnects, pakDoDrop, pakPickDrop, Handles
  <2> QED BY <1>3, <2>1, SockFields
<1>5. CASE Entered \/ FirstId \/ NotTaken \/ Garbled
  BY <1>3, <1>5 DEF Entered, FirstId, NotTaken, Garbled, people
<1>6. CASE AddDrop
  <2> DEFINE t == sock.thing
             d == Drop(t, sock.cid, NoOne)
  <2>1. /\ sock.at = "write" /\ sock.job = "second" /\ drops' = Append(drops, d)
        /\ bag' = [bag EXCEPT ![sock.p] = @ \ {t}]
    BY <1>6 DEF AddDrop
  <2>2. sock.p \in Players /\ sock.cid \in Ids \cup {NoId} /\ t \in Things /\ t \in bag[sock.p]
    BY <2>1, SockFields DEF HandlerAsks
  <2>3. d \in DropRecords /\ d.thing = t
    BY <2>2, DropTypes
  <2>4. t \in Carried
    BY <1>0, <2>2 DEF Carried
  <2>5. t \notin Lying /\ Taken = {}
    BY <1>0, <1>1, <2>1, <2>4
  <2> HIDE DEF t, d
  <2>6. Apart(drops') /\ Lying' = Lying \cup {t}
    BY <1>0, <2>1, <2>3, <2>5, LyingMore
  <2>7. \A h \in Holders : bag'[h] \subseteq bag[h]
    BY <1>0, <2>1
  <2>8. Bags' /\ BagsApart' /\ Carried' \subseteq Carried
    BY <1>0, <2>7, BagsShrink
  <2>9. t \notin Carried'
    <3>1. \A h \in Holders : t \notin bag'[h]
      BY <1>0, <2>1, <2>2 DEF BagsApart
    <3> QED BY <3>1 DEF Carried
  <2> QED BY <1>0, <2>5, <2>6, <2>8, <2>9 DEF Things_
<1>7. CASE DeleteClientSocket
  <2>1. /\ sock.at = "leave" /\ drops' = drops /\ bag' = [bag EXCEPT ![sock.p] = {}]
    BY <1>7 DEF DeleteClientSocket
  <2>2. \A h \in Holders : bag'[h] \subseteq bag[h]
    BY <1>0, <2>1
  <2>3. Bags' /\ BagsApart' /\ Carried' \subseteq Carried
    BY <1>0, <2>2, BagsShrink
  <2> QED BY <1>0, <1>1, <2>1, <2>3 DEF Things_, Apart, Lying
<1>8. CASE Take
  <2> DEFINE t == sock.drop.thing
  <2>1. /\ sock.at = "take" /\ drops' = drops
        /\ sock'.at = "delete" /\ sock'.drop = sock.drop
    BY <1>8 DEF Take
  <2>2. PICK r \in Players : Room(r) /\ bag' = [bag EXCEPT ![r] = @ \cup {t}]
    BY <1>8 DEF Take, TypeOK
  <2>3. t \in Things /\ t \notin Carried
    BY <2>1, SockFields DEF HandlerKnows, DropRecords
  <2>4. Taken = {} /\ Taken' = {t}
    BY <1>1, <2>1 DEF Taken
  <2> HIDE DEF t
  <2>5. Bags' /\ BagsApart' /\ Carried' = Carried \cup {t}
    BY <1>0, <2>2, <2>3, BagGrows
  <2> QED BY <1>0, <2>1, <2>4, <2>5 DEF Things_, Apart, Lying
<1>9. CASE DeletePicked
  <2>1. /\ sock.at = "delete" /\ bag' = bag
        /\ drops' = IF InList(sock.drop) THEN RemoveAt(drops, IndexOf(sock.drop)) ELSE drops
    BY <1>9 DEF DeletePicked
  <2>2. Taken = {sock.drop.thing}
    BY <2>1 DEF Taken
  <2>3. Apart(drops') /\ Lying' = Lying \ {sock.drop.thing}
    <3>1. CASE InList(sock.drop)
      <4>1. IndexOf(sock.drop) \in DOMAIN drops /\ drops[IndexOf(sock.drop)].thing = sock.drop.thing
        BY <3>1 DEF InList, IndexOf
      <4> QED BY <1>0, <2>1, <3>1, <4>1, LyingLess
    <3>2. CASE ~InList(sock.drop)
      BY <1>0, <2>1, <3>2 DEF InList, Lying
    <3> QED BY <3>1, <3>2
  <2>4. Bags' /\ BagsApart' /\ Carried' = Carried
    BY <1>0, <2>1 DEF Bags, BagsApart, Carried
  <2> QED BY <1>0, <2>2, <2>3, <2>4 DEF Things_
<1>10. CASE Crash
  <2>1. DOMAIN drops' = {} /\ \A h \in Holders : bag'[h] = {}
    BY <1>10 DEF Crash
  <2>2. IsFiniteSet({}) /\ Cardinality({}) <= BagSize
    BY FS_EmptySet
  <2>3. Bags'
    BY <2>1, <2>2 DEF Bags
  <2> QED BY <2>1, <2>3 DEF Things_, Apart, BagsApart, Lying, Carried
<1>11. CASE WorldProcess \/ NoRespawn \/ RespawnMonster \/ AddMonster
  BY <1>3, <1>11 DEF WorldProcess, NoRespawn, RespawnMonster, AddMonster
<1>12. CASE CleanDrop
  <2>1. bag' = bag /\ sock' = sock /\ world.j \in DOMAIN drops
    BY <1>12 DEF CleanDrop
  <2>2. Bags' /\ BagsApart' /\ Carried' = Carried /\ Taken' = Taken
    BY <1>0, <2>1 DEF Bags, BagsApart, Carried, Taken
  <2>3. CASE drops' = drops
    BY <1>3, <2>1, <2>3
  <2>4. CASE drops' = RemoveAt(drops, world.j)
    <3>1. Apart(drops') /\ Lying' \subseteq Lying
      BY <1>0, <2>1, <2>4, LyingLess
    <3> QED BY <1>0, <2>2, <3>1 DEF Things_
  <2> QED BY <1>12, <2>3, <2>4 DEF CleanDrop
<1>13. ASSUME NEW t \in Things, NEW o \in Players \cup {NoOne}, Kill(t, o) PROVE Things_'
  <2>1. PICK i \in Ids \cup {NoId} : drops' = Append(drops, Drop(t, i, o))
    BY <1>13 DEF Kill, Findable
  <2>2. bag' = bag /\ sock' = sock /\ t \notin Lying \cup Carried
    BY <1>13 DEF Kill
  <2>3. Drop(t, i, o) \in DropRecords /\ Drop(t, i, o).thing = t
    BY DropTypes
  <2>4. Apart(drops') /\ Lying' = Lying \cup {t}
    BY <1>0, <2>1, <2>2, <2>3, LyingMore
  <2>5. Bags' /\ BagsApart' /\ Carried' = Carried /\ Taken' = Taken
    BY <1>0, <2>2 DEF Bags, BagsApart, Carried, Taken
  <2> QED BY <1>0, <2>2, <2>4, <2>5 DEF Things_
<1>14. CASE KillForNothing \/ BotTeleports
  BY <1>3, <1>14 DEF KillForNothing, BotTeleports
<1>15. ASSUME NEW k \in Places, HandleLoot(k) PROVE Things_'
  <2>1. /\ k \in DOMAIN drops /\ drops' = RemoveAt(drops, k) /\ sock' = sock
        /\ bag' = IF Room(Bot) THEN [bag EXCEPT ![Bot] = @ \cup {drops[k].thing}] ELSE bag
    BY <1>15 DEF HandleLoot
  <2>2. Taken = {} /\ Taken' = {}
    BY <1>2, <1>15, <2>1 DEF HandleLoot, Taken
  <2>3. Apart(drops') /\ Lying' = Lying \ {drops[k].thing}
    BY <1>0, <2>1, LyingLess
  <2>4. drops[k].thing \in Things /\ drops[k].thing \notin Carried
    BY <1>0, <2>1, <2>2 DEF Lying
  <2>5. Bags' /\ BagsApart' /\ Carried' \subseteq Carried \cup {drops[k].thing}
    <3>1. CASE Room(Bot)
      <4>1. bag' = [bag EXCEPT ![Bot] = @ \cup {drops[k].thing}]
        BY <2>1, <3>1
      <4> QED BY <1>0, <2>4, <3>1, <4>1, BagGrows
    <3>2. CASE ~Room(Bot)
      BY <1>0, <2>1, <3>2 DEF Bags, BagsApart, Carried
    <3> QED BY <3>1, <3>2
  <2> QED BY <1>0, <2>2, <2>3, <2>5 DEF Things_
<1>16. ASSUME NEW k \in Places, GrowOld(k) PROVE Things_'
  <2>1. /\ bag' = bag /\ sock' = sock /\ k \in DOMAIN drops
        /\ drops' = [drops EXCEPT ![k].age = IF @ = "new" THEN "open" ELSE "old"]
    BY <1>16 DEF GrowOld
  <2>2. DOMAIN drops' = DOMAIN drops /\ \A j \in DOMAIN drops : drops'[j].thing = drops[j].thing
    BY <1>0, <2>1, Older
  <2>3. Apart(drops') /\ Lying' = Lying
    BY <1>0, <2>2 DEF Apart, Lying
  <2>4. Bags' /\ BagsApart' /\ Carried' = Carried /\ Taken' = Taken
    BY <1>0, <2>1 DEF Bags, BagsApart, Carried, Taken
  <2> QED BY <1>0, <2>3, <2>4 DEF Things_
<1>17. CASE UNCHANGED vars
  BY <1>3, <1>17 DEF vars
<1> QED BY <1>4, <1>5, <1>6, <1>7, <1>8, <1>9, <1>10, <1>11, <1>12, <1>13, <1>14, <1>15, <1>16, <1>17
        DEF Next, SocketGoesOn, WorldGoesOn

-----------------------------------------------------------------------------
(* Ids *)

\* A step that gives no id away and moves none keeps the ids' books.
LEMMA IdsSame ==
  ASSUME TypeOK, IdsOK, given \subseteq given',
         UNCHANGED <<inGame, cid, mob>>, DOMAIN drops' = DOMAIN drops,
         \A k \in DOMAIN drops : drops'[k].cid = drops[k].cid
  PROVE  IdsOK'
<1>1. OnceIn(drops')
  BY DEF IdsOK, IdsOnce, OnceIn
<1>2. /\ \A h, g \in Standing' : cid'[h] \in Ids /\ cid'[h] = cid'[g] => h = g
      /\ \A h \in Standing', k \in DOMAIN drops' : cid'[h] \in Ids => cid'[h] # drops'[k].cid
  BY DEF IdsOK, IdsOnce, Standing
<1>3. mob'.alive /\ mob'.cid \in Ids =>
        /\ \A h \in Standing' : cid'[h] # mob'.cid
        /\ \A k \in DOMAIN drops' : drops'[k].cid # mob'.cid
  BY DEF IdsOK, IdsOnce, Standing
<1>4. OwnersGiven'
  BY DEF IdsOK, OwnersGiven, Standing
<1> QED BY <1>1, <1>2, <1>3, <1>4 DEF IdsOK, IdsOnce

\* A drop goes, and its id is given back.
LEMMA IdsLess ==
  ASSUME TypeOK, IdsOK, NEW k \in DOMAIN drops, drops' = RemoveAt(drops, k),
         given' = given \ {drops[k].cid}, UNCHANGED <<inGame, cid, mob>>
  PROVE  IdsOK'
<1>0. drops \in Seq(DropRecords)
  BY DEF TypeOK
<1>1. /\ OnceIn(drops) => OnceIn(drops')
      /\ \A j \in DOMAIN drops' : \E i \in DOMAIN drops : i # k /\ drops'[j] = drops[i]
  BY <1>0, Without
<1>2. \A i \in DOMAIN drops : i # k /\ drops[i].cid \in Ids => drops[i].cid # drops[k].cid
  BY DEF IdsOK, IdsOnce, OnceIn
<1>3. \A h \in Standing : cid[h] \in Ids => cid[h] # drops[k].cid
  BY DEF IdsOK, IdsOnce
<1>4. mob.alive /\ mob.cid \in Ids => mob.cid # drops[k].cid
  BY DEF IdsOK, IdsOnce
<1>5. Standing' = Standing
  BY DEF Standing
<1>6. IdsOnce'
  <2>1. \A h \in Standing, j \in DOMAIN drops' : cid[h] \in Ids => cid[h] # drops'[j].cid
    BY <1>1 DEF IdsOK, IdsOnce
  <2>2. mob.alive /\ mob.cid \in Ids => \A j \in DOMAIN drops' : drops'[j].cid # mob.cid
    BY <1>1 DEF IdsOK, IdsOnce
  <2>3. OnceIn(drops')
    BY <1>1 DEF IdsOK, IdsOnce
  <2> QED BY <1>5, <2>1, <2>2, <2>3 DEF IdsOK, IdsOnce
<1>7. OwnersGiven'
  <2>1. \A j \in DOMAIN drops' : drops'[j].cid \in Ids => drops'[j].cid \in given'
    BY <1>1, <1>2 DEF IdsOK, OwnersGiven
  <2> QED BY <1>3, <1>4, <1>5, <2>1 DEF IdsOK, OwnersGiven
<1> QED BY <1>6, <1>7 DEF IdsOK

\* A drop comes, with an id that is not given.
LEMMA IdsMore ==
  ASSUME TypeOK, IdsOK, NEW d \in DropRecords, drops' = Append(drops, d),
         d.cid \in Ids => d.cid \notin given,
         given' = Gives(d.cid), UNCHANGED <<inGame, cid, mob>>
  PROVE  IdsOK'
<1>0. drops \in Seq(DropRecords)
  BY DEF TypeOK
<1> DEFINE n == Len(drops) + 1
<1>1. /\ DOMAIN drops' = DOMAIN drops \cup {n} /\ n \notin DOMAIN drops
      /\ \A i \in DOMAIN drops : drops'[i] = drops[i]
      /\ drops'[n] = d
  BY <1>0, With
<1> HIDE DEF n
<1>2. \A k \in DOMAIN drops : d.cid \in Ids => drops[k].cid # d.cid
  BY DEF IdsOK, OwnersGiven
<1>3. \A h \in Standing : d.cid \in Ids => cid[h] # d.cid
  BY DEF IdsOK, OwnersGiven
<1>4. d.cid \in Ids => ~(mob.alive /\ mob.cid = d.cid)
  BY DEF IdsOK, OwnersGiven
<1>5. Standing' = Standing
  BY DEF Standing
<1>6. IdsOnce'
  <2>1. OnceIn(drops')
    BY <1>1, <1>2 DEF IdsOK, IdsOnce, OnceIn
  <2>2. \A h \in Standing, j \in DOMAIN drops' : cid[h] \in Ids => cid[h] # drops'[j].cid
    BY <1>1, <1>3 DEF IdsOK, IdsOnce
  <2>3. mob.alive /\ mob.cid \in Ids => \A j \in DOMAIN drops' : drops'[j].cid # mob.cid
    BY <1>1, <1>4 DEF IdsOK, IdsOnce
  <2> QED BY <1>5, <2>1, <2>2, <2>3 DEF IdsOK, IdsOnce
<1>7. OwnersGiven'
  <2>1. \A j \in DOMAIN drops' : drops'[j].cid \in Ids => drops'[j].cid \in given'
    BY <1>1 DEF IdsOK, OwnersGiven, Gives
  <2>2. given \subseteq given'
    BY DEF Gives
  <2> QED BY <1>5, <2>1, <2>2 DEF IdsOK, OwnersGiven
<1> QED BY <1>6, <1>7 DEF IdsOK

\* The monster dies.
LEMMA IdsNoMob ==
  ASSUME TypeOK, IdsOK, mob.alive, mob' = [alive |-> FALSE, cid |-> NoId],
         given' = given \ {mob.cid}, UNCHANGED <<inGame, cid, drops>>
  PROVE  IdsOK'
<1>1. ~mob'.alive /\ Standing' = Standing
  BY DEF Standing
<1>2. \A h \in Standing : cid[h] \in Ids => cid[h] # mob.cid
  BY DEF IdsOK, IdsOnce
<1>3. \A k \in DOMAIN drops : drops[k].cid \in Ids => drops[k].cid # mob.cid
  BY DEF IdsOK, IdsOnce
<1>4. IdsOnce'
  BY <1>1 DEF IdsOK, IdsOnce
<1>5. OwnersGiven'
  BY <1>1, <1>2, <1>3 DEF IdsOK, OwnersGiven
<1> QED BY <1>4, <1>5 DEF IdsOK

\* A player leaves the game and its id is given back.
LEMMA IdsLeaves ==
  ASSUME TypeOK, IdsOK, NEW p \in Players, inGame' = inGame \ {p},
         \A h \in Standing : h # p => cid'[h] = cid[h],
         given' = given \ {cid[p]}, p \in inGame \/ cid[p] \notin given,
         UNCHANGED <<mob, drops>>
  PROVE  IdsOK'
<1>1. Standing' = Standing \ {p} /\ p # Bot
  BY DEF Standing
<1>2. /\ \A h \in Standing' : cid[h] \in Ids /\ cid[h] \in given => cid[h] \in given'
      /\ \A k \in DOMAIN drops : drops[k].cid \in Ids /\ drops[k].cid \in given => drops[k].cid \in given'
      /\ mob.alive /\ mob.cid \in Ids /\ mob.cid \in given => mob.cid \in given'
  <2>1. CASE p \in inGame
    <3>1. p \in Standing
      BY <2>1 DEF Standing
    <3>2. /\ \A h \in Standing : h # p /\ cid[h] \in Ids => cid[h] # cid[p]
          /\ \A k \in DOMAIN drops : drops[k].cid \in Ids => cid[p] # drops[k].cid
          /\ mob.alive /\ mob.cid \in Ids => cid[p] # mob.cid
      BY <3>1 DEF IdsOK, IdsOnce
    <3> QED BY <1>1, <3>2
  <2>2. CASE cid[p] \notin given
    BY <2>2
  <2> QED BY <2>1, <2>2
<1>3. IdsOnce'
  BY <1>1 DEF IdsOK, IdsOnce
<1>4. OwnersGiven'
  BY <1>1, <1>2 DEF IdsOK, OwnersGiven
<1> QED BY <1>3, <1>4 DEF IdsOK

\* What is marked as confused has no id that is given.
LEMMA MarksIds ==
  ASSUME NEW confused, NEW forgotten, Marks(confused, forgotten), ~mixed'
  PROVE  ~mixed /\ confused \cap Ids = {}
BY DEF Marks

\* As long as nothing is mixed up, every step keeps the ids' books.
LEMMA IdsStep ==
  ASSUME TypeOK, Locks, HandlerAsks, HandlerKnows, RoundKnows, ~mixed => IdsOK, [Next]_vars, ~mixed'
  PROVE  IdsOK'
<1>0. /\ given \subseteq Ids /\ drops \in Seq(DropRecords) /\ cid \in [Holders -> Ids \cup {NoId}]
      /\ \A k \in DOMAIN drops : drops[k] \in DropRecords
      /\ Players \subseteq Holders /\ Bot \in Holders
  BY DEF TypeOK, Holders
<1>1. ASSUME ~mixed, given \subseteq given', inGame' = inGame, cid' = cid, mob' = mob, drops' = drops
      PROVE  IdsOK'
  BY <1>1, IdsSame
<1>2. ASSUME NEW p \in Players,
             \/ pakDoIdentify(p) \/ pakDoID(p) \/ Disconnects(p)
             \/ \E t \in Things : pakDoDrop(p, t)
             \/ \E k \in Places : pakPickDrop(p, k)
      PROVE  IdsOK'
  BY <1>1, <1>2 DEF pakDoIdentify, pakDoID, Disconnects, pakDoDrop, pakPickDrop, people, history
<1>3. ASSUME NEW p \in Players, TeleportPlayer(p) PROVE IdsOK'
  <2>1. /\ p \in inGame /\ given' = given \ {cid[p]} /\ inGame' = inGame \ {p}
        /\ cid' = cid /\ mob' = mob /\ drops' = drops /\ ~mixed
    BY <1>3, MarksIds DEF TeleportPlayer, NoMarks, Clears
  <2> QED BY <2>1, IdsLeaves
<1>4. CASE Entered
  <2>1. /\ ~mixed /\ ({sock.cid} \cap given) \cap Ids = {} /\ given' = given \cup ({sock.cid} \cap Ids)
        /\ cid' = [cid EXCEPT ![sock.p] = sock.cid] /\ mob' = mob /\ drops' = drops
        /\ sock.p \in Players \ inGame
    BY <1>4, MarksIds, SockFields DEF Entered, Twice, Gives, HandlerAsks
  <2>2. \/ sock.cid # NoId /\ inGame' = inGame \cup {sock.p}
        \/ sock.cid = NoId /\ inGame' = inGame
    BY <1>4 DEF Entered
  <2> DEFINE i == sock.cid
             p == sock.p
  <2>3. i \notin given /\ p # Bot /\ p \notin Standing
    BY <1>0, <2>1 DEF Standing
  <2>4. \A h \in Standing : cid'[h] = cid[h]
    BY <1>0, <2>1, <2>3 DEF Standing, TypeOK, Holders
  <2>5. cid'[p] = i
    BY <1>0, <2>1
  <2>6. Standing \subseteq Standing' /\ Standing' \subseteq Standing \cup {p}
    BY <2>2 DEF Standing
  <2> HIDE DEF i, p
  <2>7. /\ \A h \in Standing : cid[h] \in Ids => cid[h] # i
        /\ \A k \in DOMAIN drops : drops[k].cid \in Ids => drops[k].cid # i
        /\ mob.alive /\ mob.cid \in Ids => mob.cid # i
    BY <2>1, <2>3 DEF IdsOK, OwnersGiven
  <2>8. IdsOnce'
    <3>1. \A h, g \in Standing' : cid'[h] \in Ids /\ cid'[h] = cid'[g] => h = g
      BY <2>1, <2>4, <2>5, <2>6, <2>7 DEF IdsOK, IdsOnce
    <3>2. \A h \in Standing', k \in DOMAIN drops : cid'[h] \in Ids => cid'[h] # drops[k].cid
      BY <2>1, <2>4, <2>5, <2>6, <2>7 DEF IdsOK, IdsOnce
    <3>3. mob.alive /\ mob.cid \in Ids => \A h \in Standing' : cid'[h] # mob.cid
      BY <2>1, <2>4, <2>5, <2>6, <2>7 DEF IdsOK, IdsOnce
    <3> QED BY <2>1, <3>1, <3>2, <3>3 DEF IdsOK, IdsOnce
  <2>9. OwnersGiven'
    <3>1. \A h \in Standing' : cid'[h] \in Ids => cid'[h] \in given'
      BY <2>1, <2>4, <2>5, <2>6 DEF IdsOK, OwnersGiven, i
    <3> QED BY <2>1, <3>1 DEF IdsOK, OwnersGiven
  <2> QED BY <2>8, <2>9 DEF IdsOK
<1>5. CASE FirstId
  <2>1. ~mixed /\ given \subseteq given'
    BY <1>5, MarksIds DEF FirstId, Gives
  <2> QED BY <1>1, <1>5, <2>1 DEF FirstId, people
<1>6. CASE AddDrop
  <2> DEFINE d == Drop(sock.thing, sock.cid, NoOne)
  <2>1. /\ ~mixed /\ ({sock.cid} \cap given) \cap Ids = {} /\ given' = Gives(sock.cid)
        /\ drops' = Append(drops, d) /\ inGame' = inGame /\ cid' = cid /\ mob' = mob
    BY <1>6, MarksIds DEF AddDrop, Twice, people
  <2>2. d \in DropRecords /\ d.cid = sock.cid
    BY <1>6, SockFields, DropTypes DEF AddDrop
  <2> HIDE DEF d
  <2>3. d.cid \in Ids => d.cid \notin given
    BY <2>1, <2>2
  <2> QED BY <2>1, <2>2, <2>3, IdsMore
<1>7. CASE DeleteClientSocket
  <2>1. /\ ~mixed
        /\ (IF sock.p \in inGame THEN {} ELSE {cid[sock.p]} \cap given) \cap Ids = {}
        /\ given' = given \ {cid[sock.p]} /\ inGame' = inGame \ {sock.p}
        /\ cid' = [cid EXCEPT ![sock.p] = NoId] /\ mob' = mob /\ drops' = drops
    BY <1>7, MarksIds DEF DeleteClientSocket, Clears
  <2>2. sock.p \in Players
    BY <1>7, SockFields DEF DeleteClientSocket
  <2>3. sock.p \in inGame \/ cid[sock.p] \notin given
    BY <1>0, <2>1
  <2>4. \A h \in Standing : h # sock.p => cid'[h] = cid[h]
    BY <1>0, <2>1 DEF Standing, TypeOK
  <2> QED BY <2>1, <2>2, <2>3, <2>4, IdsLeaves
<1>8. CASE Take \/ NotTaken \/ Garbled
  BY <1>1, <1>8 DEF Take, NotTaken, Garbled, people, history
<1>9. CASE DeletePicked
  <2>1. /\ ~mixed
        /\ (IF InList(sock.drop) THEN {} ELSE {sock.drop.cid} \cap given) \cap Ids = {}
        /\ given' = given \ {sock.drop.cid} /\ inGame' = inGame /\ cid' = cid /\ mob' = mob
        /\ drops' = IF InList(sock.drop) THEN RemoveAt(drops, IndexOf(sock.drop)) ELSE drops
    BY <1>9, MarksIds DEF DeletePicked, Clears, people
  <2>2. CASE InList(sock.drop)
    <3>1. IndexOf(sock.drop) \in DOMAIN drops /\ drops[IndexOf(sock.drop)].thing = sock.drop.thing
      BY <2>2 DEF InList, IndexOf
    <3>2. drops[IndexOf(sock.drop)].cid = sock.drop.cid
      BY <1>9, <3>1 DEF DeletePicked, HandlerKnows
    <3> QED BY <2>1, <2>2, <3>1, <3>2, IdsLess
  <2>3. CASE ~InList(sock.drop)
    <3>1. sock.drop.cid \notin given
      BY <1>0, <2>1, <2>3
    <3> QED BY <1>1, <2>1, <2>3, <3>1
  <2> QED BY <2>2, <2>3
<1>10. CASE Crash
  <2>1. PICK i, j \in Ids : /\ i # j /\ given' = {i, j} /\ mob' = [alive |-> TRUE, cid |-> i]
                            /\ cid' = [h \in Holders |-> IF h = Bot THEN j ELSE NoId]
    BY <1>10 DEF Crash
  <2>2. Standing' = {Bot} /\ DOMAIN drops' = {} /\ cid'[Bot] = j /\ mob'.cid = i
    BY <1>0, <1>10, <2>1 DEF Crash, Standing
  <2>3. IdsOnce'
    BY <2>1, <2>2 DEF IdsOnce, OnceIn
  <2>4. OwnersGiven'
    BY <2>1, <2>2 DEF OwnersGiven
  <2> QED BY <2>3, <2>4 DEF IdsOK
<1>11. CASE WorldProcess \/ NoRespawn \/ RespawnMonster
  BY <1>1, <1>11 DEF WorldProcess, NoRespawn, RespawnMonster, people, history
<1>12. CASE CleanDrop
  <2>1. ~mixed /\ world.j \in DOMAIN drops /\ inGame' = inGame /\ cid' = cid /\ mob' = mob
    BY <1>12, MarksIds DEF CleanDrop, NoMarks, people
  <2>2. CASE given' = given \ {drops[world.j].cid} /\ drops' = RemoveAt(drops, world.j)
    BY <2>1, <2>2, IdsLess
  <2>3. CASE given' = given /\ drops' = drops
    BY <1>1, <2>1, <2>3
  <2> QED BY <1>12, <2>2, <2>3 DEF CleanDrop, Clears
<1>13. CASE AddMonster
  <2>1. /\ ~mixed /\ ({world.cid} \cap given) \cap Ids = {} /\ given' = given \cup ({world.cid} \cap Ids)
        /\ mob' = [alive |-> TRUE, cid |-> world.cid]
        /\ inGame' = inGame /\ cid' = cid /\ drops' = drops
    BY <1>13, MarksIds DEF AddMonster, Twice, Gives, people
  <2>2. mob'.alive /\ mob'.cid = world.cid /\ Standing' = Standing /\ world.cid \notin given
    BY <1>0, <2>1 DEF Standing
  <2>3. /\ \A h \in Standing : world.cid \in Ids => cid[h] # world.cid
        /\ \A k \in DOMAIN drops : world.cid \in Ids => drops[k].cid # world.cid
    BY <2>1, <2>2 DEF IdsOK, OwnersGiven
  <2>4. IdsOnce'
    BY <2>1, <2>2, <2>3 DEF IdsOK, IdsOnce
  <2>5. OwnersGiven'
    BY <2>1, <2>2 DEF IdsOK, OwnersGiven
  <2> QED BY <2>4, <2>5 DEF IdsOK
<1>14. ASSUME NEW t \in Things, NEW o \in Players \cup {NoOne}, Kill(t, o) PROVE IdsOK'
  <2>1. PICK i \in Findable(given) : /\ given' = Gives(i) \ {mob.cid}
                                     /\ drops' = Append(drops, Drop(t, i, o))
    BY <1>14 DEF Kill
  <2>2. /\ ~mixed /\ mob.alive /\ mob' = [alive |-> FALSE, cid |-> NoId]
        /\ inGame' = inGame /\ cid' = cid
    BY <1>14, MarksIds DEF Kill, NoMarks, people
  <2> DEFINE d == Drop(t, i, o)
             n == Len(drops) + 1
  <2>3. i \in Ids \cup {NoId} /\ (i \in Ids => i \notin given)
    BY DEF Findable
  <2>4. d \in DropRecords /\ d.cid = i
    BY <2>3, DropTypes
  <2> HIDE DEF d
  <2>5. /\ DOMAIN drops' = DOMAIN drops \cup {n} /\ n \notin DOMAIN drops
        /\ \A k \in DOMAIN drops : drops'[k] = drops[k]
        /\ drops'[n] = d
    BY <1>0, <2>1, <2>4, With DEF d
  <2> HIDE DEF n
  <2>6. ~mob'.alive /\ Standing' = Standing
    BY <2>2 DEF Standing
  <2>7. /\ \A h \in Standing : i \in Ids => cid[h] # i
        /\ \A k \in DOMAIN drops : i \in Ids => drops[k].cid # i
        /\ i \in Ids => i # mob.cid
    BY <2>2, <2>3 DEF IdsOK, OwnersGiven
  <2>8. IdsOnce'
    <3>1. OnceIn(drops')
      BY <2>2, <2>4, <2>5, <2>7 DEF IdsOK, IdsOnce, OnceIn
    <3>2. \A h \in Standing, k \in DOMAIN drops' : cid[h] \in Ids => cid[h] # drops'[k].cid
      BY <2>2, <2>4, <2>5, <2>7 DEF IdsOK, IdsOnce
    <3> QED BY <2>2, <2>6, <3>1, <3>2 DEF IdsOK, IdsOnce
  <2>9. OwnersGiven'
    <3>1. \A h \in Standing : cid[h] \in Ids => cid[h] \in given'
      BY <2>1, <2>2 DEF IdsOK, IdsOnce, OwnersGiven, Gives
    <3>2. \A k \in DOMAIN drops : drops[k].cid \in Ids => drops[k].cid \in given'
      BY <2>1, <2>2 DEF IdsOK, IdsOnce, OwnersGiven, Gives
    <3>3. i \in Ids => i \in given'
      BY <2>1, <2>7 DEF Gives
    <3>4. \A k \in DOMAIN drops' : drops'[k].cid \in Ids => drops'[k].cid \in given'
      BY <2>4, <2>5, <3>2, <3>3
    <3> QED BY <2>2, <2>6, <3>1, <3>4 DEF OwnersGiven
  <2> QED BY <2>8, <2>9 DEF IdsOK
<1>15. CASE KillForNothing
  <2>1. /\ ~mixed /\ mob.alive /\ mob' = [alive |-> FALSE, cid |-> NoId] /\ given' = given \ {mob.cid}
        /\ inGame' = inGame /\ cid' = cid /\ drops' = drops
    BY <1>15, MarksIds DEF KillForNothing, NoMarks, people, Clears
  <2> QED BY <2>1, IdsNoMob
<1>16. CASE BotTeleports
  <2>1. ~mixed /\ {cid[Bot]} \cap Ids = {} /\ given' = given \ {cid[Bot]}
    BY <1>16, MarksIds DEF BotTeleports, Clears
  <2>2. given \subseteq given'
    BY <1>0, <2>1
  <2> QED BY <1>1, <1>16, <2>1, <2>2 DEF BotTeleports, people
<1>17. ASSUME NEW k \in Places, HandleLoot(k) PROVE IdsOK'
  <2>1. /\ ~mixed /\ k \in DOMAIN drops /\ drops' = RemoveAt(drops, k)
        /\ given' = given \ {drops[k].cid} /\ inGame' = inGame /\ cid' = cid /\ mob' = mob
    BY <1>17, MarksIds DEF HandleLoot, NoMarks, people, Clears
  <2> QED BY <2>1, IdsLess
<1>18. ASSUME NEW k \in Places, GrowOld(k) PROVE IdsOK'
  <2>1. /\ ~mixed /\ k \in DOMAIN drops /\ given' = given /\ inGame' = inGame /\ cid' = cid /\ mob' = mob
        /\ drops' = [drops EXCEPT ![k].age = IF @ = "new" THEN "open" ELSE "old"]
    BY <1>18 DEF GrowOld, people, history
  <2>2. DOMAIN drops' = DOMAIN drops /\ \A j \in DOMAIN drops : drops'[j].cid = drops[j].cid
    BY <1>0, <2>1, Older
  <2> QED BY <2>1, <2>2, IdsSame
<1>19. CASE UNCHANGED vars
  BY <1>1, <1>19 DEF vars, people, history
<1> QED BY <1>2, <1>3, <1>4, <1>5, <1>6, <1>7, <1>8, <1>9, <1>10, <1>11, <1>12, <1>13, <1>14,
           <1>15, <1>16, <1>17, <1>18, <1>19
        DEF Next, SocketGoesOn, WorldGoesOn

-----------------------------------------------------------------------------
(* No id is lost *)

\* A step that gives no id keeps those used whose users stay; one that gives
\* an id has a user for it, or forgets it.
LEMMA UsedAfter ==
  ASSUME AllUsed, NEW confused, NEW forgotten, Marks(confused, forgotten),
         \A i \in given \cap given' : Used(i) => Used(i)',
         \A i \in given' \ given : i \in forgotten \/ Used(i)'
  PROVE  AllUsed'
<1> SUFFICES ASSUME NEW i \in given' \ leaked' PROVE Used(i)'
  BY DEF AllUsed
<1>1. i \notin leaked /\ i \notin forgotten
  BY DEF Marks
<1>2. CASE i \in given
  BY <1>1, <1>2 DEF AllUsed
<1>3. CASE i \notin given
  BY <1>1, <1>3
<1> QED BY <1>2, <1>3

\* A drop that is removed takes only its own id's user away.
LEMMA UsedLess ==
  ASSUME TypeOK, AllUsed, NEW k \in DOMAIN drops, drops' = RemoveAt(drops, k),
         given' = given \ {drops[k].cid}, UNCHANGED <<inGame, cid, mob>>,
         NEW confused, Marks(confused, {})
  PROVE  AllUsed'
<1>0. drops \in Seq(DropRecords)
  BY DEF TypeOK
<1>1. \A i \in DOMAIN drops : i # k => \E j \in DOMAIN drops' : drops'[j] = drops[i]
  BY <1>0, Without
<1>2. ASSUME NEW i \in given \cap given', Used(i) PROVE Used(i)'
  <2>1. i # drops[k].cid
    OBVIOUS
  <2>2. CASE \E j \in DOMAIN drops : drops[j].cid = i
    <3>1. PICK j \in DOMAIN drops : j # k /\ drops[j].cid = i
      BY <2>1, <2>2
    <3> QED BY <1>1, <3>1 DEF Used
  <2>3. CASE (\E h \in Standing : cid[h] = i) \/ (mob.alive /\ mob.cid = i)
    BY <2>3 DEF Used, Standing
  <2> QED BY <1>2, <2>2, <2>3 DEF Used
<1> QED BY <1>2, UsedAfter

\* Every id that is given has a user, or was forgotten by pakDoDrop.
LEMMA UsedStep ==
  ASSUME TypeOK, HandlerAsks, HandlerKnows, RoundKnows, AllUsed, [Next]_vars
  PROVE  AllUsed'
<1>0. /\ given \subseteq Ids /\ drops \in Seq(DropRecords) /\ cid \in [Holders -> Ids \cup {NoId}]
      /\ Players \subseteq Holders /\ Bot \in Holders
  BY DEF TypeOK, Holders
<1>1. ASSUME UNCHANGED <<given, inGame, cid, mob, drops, leaked>> PROVE AllUsed'
  <2>1. \A i : Used(i)' <=> Used(i)
    BY <1>1 DEF Used, Standing
  <2> QED BY <1>1, <2>1 DEF AllUsed
<1>2. ASSUME NEW p \in Players,
             \/ pakDoIdentify(p) \/ pakDoID(p) \/ Disconnects(p)
             \/ \E t \in Things : pakDoDrop(p, t)
             \/ \E k \in Places : pakPickDrop(p, k)
      PROVE  AllUsed'
  BY <1>1, <1>2 DEF pakDoIdentify, pakDoID, Disconnects, pakDoDrop, pakPickDrop, people, history
<1>3. ASSUME NEW p \in Players, TeleportPlayer(p) PROVE AllUsed'
  <2>1. /\ given' = given \ {cid[p]} /\ inGame' = inGame \ {p}
        /\ cid' = cid /\ mob' = mob /\ drops' = drops /\ Marks({}, {})
    BY <1>3 DEF TeleportPlayer, NoMarks, Clears
  <2>2. \A i \in given' : Used(i) => Used(i)'
    BY <2>1 DEF Used, Standing
  <2> QED BY <2>1, <2>2, UsedAfter
<1>4. CASE Entered
  <2>1. /\ given' = given \cup ({sock.cid} \cap Ids) /\ Marks(Twice(sock.cid), {})
        /\ cid' = [cid EXCEPT ![sock.p] = sock.cid] /\ mob' = mob /\ drops' = drops
        /\ sock.p \in Players \ inGame
    BY <1>4, SockFields DEF Entered, Gives, HandlerAsks
  <2>2. \/ sock.cid # NoId /\ inGame' = inGame \cup {sock.p}
        \/ sock.cid = NoId /\ inGame' = inGame
    BY <1>4 DEF Entered
  <2>3. \A h \in Standing : h \in Standing' /\ cid'[h] = cid[h]
    BY <1>0, <2>1, <2>2 DEF Standing, TypeOK, Holders
  <2>4. \A i : Used(i) => Used(i)'
    BY <2>1, <2>3 DEF Used
  <2>5. ASSUME NEW i \in given' \ given PROVE Used(i)'
    <3>1. i = sock.cid /\ i # NoId
      BY <2>1
    <3>2. sock.p \in Standing' /\ cid'[sock.p] = i
      BY <1>0, <2>1, <2>2, <3>1 DEF Standing
    <3> QED BY <3>2 DEF Used
  <2> QED BY <2>1, <2>4, <2>5, UsedAfter
<1>5. CASE FirstId
  <2>1. /\ given' = given \cup ({sock.cid} \cap Ids) /\ Marks(Twice(sock.cid), {sock.cid})
        /\ UNCHANGED <<inGame, cid, mob, drops>>
    BY <1>5 DEF FirstId, Gives, people
  <2>2. \A i : Used(i) => Used(i)'
    BY <2>1 DEF Used, Standing
  <2>3. \A i \in given' \ given : i \in {sock.cid}
    BY <2>1
  <2> QED BY <2>1, <2>2, <2>3, UsedAfter
<1>6. CASE AddDrop
  <2> DEFINE d == Drop(sock.thing, sock.cid, NoOne)
  <2>1. /\ given' = given \cup ({sock.cid} \cap Ids) /\ Marks(Twice(sock.cid), {})
        /\ drops' = Append(drops, d) /\ inGame' = inGame /\ cid' = cid /\ mob' = mob
    BY <1>6 DEF AddDrop, Gives, people
  <2>2. d \in DropRecords /\ d.cid = sock.cid
    BY <1>6, SockFields, DropTypes DEF AddDrop
  <2> HIDE DEF d
  <2>3. /\ DOMAIN drops' = DOMAIN drops \cup {Len(drops) + 1}
        /\ \A k \in DOMAIN drops : drops'[k] = drops[k]
        /\ drops'[Len(drops) + 1] = d
    BY <1>0, <2>1, <2>2, With
  <2>4. \A i : Used(i) => Used(i)'
    BY <2>1, <2>3 DEF Used, Standing
  <2>5. \A i \in given' \ given : Used(i)'
    BY <2>1, <2>2, <2>3 DEF Used
  <2> QED BY <2>1, <2>4, <2>5, UsedAfter
<1>7. CASE DeleteClientSocket
  <2>1. /\ given' = given \ {cid[sock.p]} /\ inGame' = inGame \ {sock.p}
        /\ cid' = [cid EXCEPT ![sock.p] = NoId] /\ mob' = mob /\ drops' = drops
        /\ sock.p \in Players
    BY <1>7, SockFields DEF DeleteClientSocket, Clears
  <2>2. \A h \in Standing : h # sock.p => h \in Standing' /\ cid'[h] = cid[h]
    BY <1>0, <2>1 DEF Standing, TypeOK
  <2>3. \A i \in given' : Used(i) => Used(i)'
    BY <2>1, <2>2 DEF Used
  <2>4. Marks(IF sock.p \in inGame THEN {} ELSE {cid[sock.p]} \cap given, {})
    BY <1>7 DEF DeleteClientSocket
  <2> QED BY <2>1, <2>3, <2>4, UsedAfter
<1>8. CASE Take \/ NotTaken \/ Garbled
  BY <1>1, <1>8 DEF Take, NotTaken, Garbled, people, history
<1>9. CASE DeletePicked
  <2>1. /\ given' = given \ {sock.drop.cid} /\ inGame' = inGame /\ cid' = cid /\ mob' = mob
        /\ drops' = IF InList(sock.drop) THEN RemoveAt(drops, IndexOf(sock.drop)) ELSE drops
        /\ Marks(IF InList(sock.drop) THEN {} ELSE {sock.drop.cid} \cap given, {})
    BY <1>9 DEF DeletePicked, Clears, people
  <2>2. CASE InList(sock.drop)
    <3>1. IndexOf(sock.drop) \in DOMAIN drops /\ drops[IndexOf(sock.drop)].thing = sock.drop.thing
      BY <2>2 DEF InList, IndexOf
    <3>2. drops[IndexOf(sock.drop)].cid = sock.drop.cid
      BY <1>9, <3>1 DEF DeletePicked, HandlerKnows
    <3> QED BY <2>1, <2>2, <3>1, <3>2, UsedLess
  <2>3. CASE ~InList(sock.drop)
    <3>1. drops' = drops
      BY <2>1, <2>3
    <3>2. \A i : Used(i) => Used(i)'
      BY <2>1, <3>1 DEF Used, Standing
    <3> QED BY <2>1, <3>2, UsedAfter
  <2> QED BY <2>2, <2>3
<1>10. CASE Crash
  <2>1. PICK i, j \in Ids : /\ i # j /\ given' = {i, j} /\ mob' = [alive |-> TRUE, cid |-> i]
                            /\ cid' = [h \in Holders |-> IF h = Bot THEN j ELSE NoId]
    BY <1>10 DEF Crash
  <2>2. Bot \in Standing' /\ cid'[Bot] = j /\ mob'.alive /\ mob'.cid = i
    BY <1>0, <2>1 DEF Standing
  <2> QED BY <2>1, <2>2 DEF AllUsed, Used
<1>11. CASE WorldProcess \/ NoRespawn \/ RespawnMonster
  BY <1>1, <1>11 DEF WorldProcess, NoRespawn, RespawnMonster, people, history
<1>12. CASE CleanDrop
  <2>1. /\ world.j \in DOMAIN drops /\ inGame' = inGame /\ cid' = cid /\ mob' = mob
        /\ Marks({}, {})
    BY <1>12 DEF CleanDrop, NoMarks, people
  <2>2. CASE given' = given \ {drops[world.j].cid} /\ drops' = RemoveAt(drops, world.j)
    BY <2>1, <2>2, UsedLess
  <2>3. CASE given' = given /\ drops' = drops
    <3>1. \A i : Used(i) => Used(i)'
      BY <2>1, <2>3 DEF Used, Standing
    <3> QED BY <2>1, <2>3, <3>1, UsedAfter
  <2> QED BY <1>12, <2>2, <2>3 DEF CleanDrop, Clears
<1>13. CASE AddMonster
  <2>1. /\ given' = given \cup ({world.cid} \cap Ids) /\ mob' = [alive |-> TRUE, cid |-> world.cid]
        /\ inGame' = inGame /\ cid' = cid /\ drops' = drops /\ Marks(Twice(world.cid), {})
        /\ ~mob.alive
    BY <1>13 DEF AddMonster, Gives, people, RoundKnows
  <2>2. mob'.alive /\ mob'.cid = world.cid
    BY <2>1
  <2>3. \A i : Used(i) => Used(i)'
    BY <2>1 DEF Used, Standing
  <2>4. \A i \in given' \ given : Used(i)'
    BY <2>1, <2>2 DEF Used
  <2> QED BY <2>1, <2>3, <2>4, UsedAfter
<1>14. ASSUME NEW t \in Things, NEW o \in Players \cup {NoOne}, Kill(t, o) PROVE AllUsed'
  <2>1. PICK i \in Findable(given) : /\ given' = Gives(i) \ {mob.cid}
                                     /\ drops' = Append(drops, Drop(t, i, o))
    BY <1>14 DEF Kill
  <2>2. Marks({}, {}) /\ inGame' = inGame /\ cid' = cid
    BY <1>14 DEF Kill, NoMarks, people
  <2> DEFINE d == Drop(t, i, o)
  <2>3. d \in DropRecords /\ d.cid = i
    BY DropTypes DEF Findable
  <2> HIDE DEF d
  <2>4. /\ DOMAIN drops' = DOMAIN drops \cup {Len(drops) + 1}
        /\ \A k \in DOMAIN drops : drops'[k] = drops[k]
        /\ drops'[Len(drops) + 1] = d
    BY <1>0, <2>1, <2>3, With DEF d
  <2>5. \A x \in given' : Used(x) => Used(x)'
    BY <2>1, <2>2, <2>4 DEF Used, Standing
  <2>6. \A x \in given' \ given : Used(x)'
    BY <2>1, <2>3, <2>4 DEF Used, Gives
  <2> QED BY <2>2, <2>5, <2>6, UsedAfter
<1>15. CASE KillForNothing
  <2>1. /\ given' = given \ {mob.cid} /\ Marks({}, {})
        /\ inGame' = inGame /\ cid' = cid /\ drops' = drops
    BY <1>15 DEF KillForNothing, NoMarks, people, Clears
  <2>2. \A i \in given' : Used(i) => Used(i)'
    BY <2>1 DEF Used, Standing
  <2> QED BY <2>1, <2>2, UsedAfter
<1>16. CASE BotTeleports
  <2>1. /\ given' = given \ {cid[Bot]} /\ Marks({cid[Bot]}, {})
        /\ inGame' = inGame /\ cid' = cid /\ drops' = drops /\ mob' = mob
    BY <1>16 DEF BotTeleports, people, Clears
  <2>2. \A i : Used(i) => Used(i)'
    BY <2>1 DEF Used, Standing
  <2> QED BY <2>1, <2>2, UsedAfter
<1>17. ASSUME NEW k \in Places, HandleLoot(k) PROVE AllUsed'
  <2>1. /\ k \in DOMAIN drops /\ drops' = RemoveAt(drops, k) /\ Marks({}, {})
        /\ given' = given \ {drops[k].cid} /\ inGame' = inGame /\ cid' = cid /\ mob' = mob
    BY <1>17 DEF HandleLoot, NoMarks, people, Clears
  <2> QED BY <2>1, UsedLess
<1>18. ASSUME NEW k \in Places, GrowOld(k) PROVE AllUsed'
  <2>1. /\ k \in DOMAIN drops /\ inGame' = inGame /\ cid' = cid /\ mob' = mob
        /\ given' = given /\ leaked' = leaked
        /\ drops' = [drops EXCEPT ![k].age = IF @ = "new" THEN "open" ELSE "old"]
    BY <1>18 DEF GrowOld, people, history
  <2>2. DOMAIN drops' = DOMAIN drops /\ \A j \in DOMAIN drops : drops'[j].cid = drops[j].cid
    BY <1>0, <2>1, Older
  <2>3. \A i : Used(i) => Used(i)'
    BY <2>1, <2>2 DEF Used, Standing
  <2> QED BY <2>1, <2>3 DEF AllUsed
<1>19. CASE UNCHANGED vars
  BY <1>1, <1>19 DEF vars, people, history
<1> QED BY <1>2, <1>3, <1>4, <1>5, <1>6, <1>7, <1>8, <1>9, <1>10, <1>11, <1>12, <1>13, <1>14,
           <1>15, <1>16, <1>17, <1>18, <1>19
        DEF Next, SocketGoesOn, WorldGoesOn

-----------------------------------------------------------------------------
(* The theorems *)

LEMMA InitInv ==
  ASSUME Init
  PROVE  IInv
<1>1. PICK i, j \in Ids : /\ i # j /\ given = {i, j} /\ mob = [alive |-> TRUE, cid |-> i]
                          /\ cid = [h \in Holders |-> IF h = Bot THEN j ELSE NoId]
  BY DEF Init
<1>2. /\ present = {} /\ inGame = {} /\ drops = <<>> /\ bag = [h \in Holders |-> {}]
      /\ mutex = [Player |-> "free", Map |-> "free"]
      /\ sock = Idle /\ world = Idle /\ mixed = FALSE /\ leaked = {}
  BY DEF Init
<1>3. Bot \in Holders /\ cid[Bot] = j /\ Standing = {Bot} /\ DOMAIN drops = {}
      /\ mob.alive /\ mob.cid = i /\ Idle.at = "idle"
  BY <1>1, <1>2 DEF Holders, Standing, Idle
<1>4. TypeOK
  <2>1. sock \in SockStates /\ world \in WorldStates
    BY <1>2 DEF SockStates, WorldStates
  <2>2. mutex \in [{"Player", "Map"} -> {"free", "socket", "world"}]
    BY <1>2
  <2>3. mob \in Mobs /\ cid \in [Holders -> Ids \cup {NoId}] /\ bag \in [Holders -> SUBSET Things]
    BY <1>1, <1>2 DEF Mobs
  <2>4. drops \in Seq(DropRecords)
    BY <1>2
  <2>5. /\ given \in SUBSET Ids /\ present \in SUBSET Players /\ inGame \in SUBSET present
        /\ mixed \in BOOLEAN /\ leaked \in SUBSET Ids
    BY <1>1, <1>2
  <2> QED BY <2>1, <2>2, <2>3, <2>4, <2>5 DEF TypeOK
<1>5. Locks /\ HandlerAsks /\ HandlerKnows /\ RoundKnows
  BY <1>2, <1>3 DEF Locks, HandlerAsks, HandlerKnows, RoundKnows
<1>6. Things_
  <2>1. IsFiniteSet({}) /\ Cardinality({}) <= BagSize
    BY FS_EmptySet
  <2>2. \A h \in Holders : bag[h] = {}
    BY <1>2
  <2>3. Bags
    BY <2>1, <2>2 DEF Bags
  <2> QED BY <1>3, <2>2, <2>3 DEF Things_, Apart, BagsApart, Lying, Carried
<1>7. AllUsed
  BY <1>1, <1>3 DEF AllUsed, Used
<1>8. IdsOK
  BY <1>1, <1>3 DEF IdsOK, IdsOnce, OnceIn, OwnersGiven
<1> QED BY <1>4, <1>5, <1>6, <1>7, <1>8 DEF IInv

\* The invariant that all the rest follows from.
THEOREM Invariant == Spec => []IInv
<1>1. Init => IInv
  BY InitInv
<1>2. IInv /\ [Next]_vars => IInv'
  <2> SUFFICES ASSUME IInv, [Next]_vars PROVE IInv'
    OBVIOUS
  <2>1. TypeOK /\ Locks /\ HandlerAsks /\ HandlerKnows /\ RoundKnows /\ Things_ /\ AllUsed
    BY DEF IInv
  <2>2. TypeOK' /\ Locks' /\ HandlerAsks' /\ HandlerKnows' /\ RoundKnows'
    BY <2>1, TypeStep, LocksStep, AsksStep, KnowsStep, RoundStep
  <2>3. Things_' /\ AllUsed'
    BY <2>1, ThingsStep, UsedStep
  <2>4. ~mixed' => IdsOK'
    BY <2>1, IdsStep DEF IInv
  <2> QED BY <2>2, <2>3, <2>4 DEF IInv
<1> QED BY <1>1, <1>2, PTL DEF Spec

\* Every variable keeps its type, through crashes too.
THEOREM TypeCorrect == Spec => []TypeOK
<1>1. IInv => TypeOK
  BY DEF IInv
<1> QED BY <1>1, Invariant, PTL

\* An item is never in two places, whatever two threads do to it at once, and
\* no inventory overflows (pakPickDrop, CleanDrops, HandleLoot, pakDoDrop).
THEOREM ThingsAlwaysKept == Spec => []ThingsKept
<1>1. IInv => ThingsKept
  BY DEF IInv, Things_, Apart, Bags, BagsApart, ThingsKept
<1> QED BY <1>1, Invariant, PTL

\* A round of the world thread that begins with an old drop deletes one, though
\* CleanDrops passes over the drop after each one it deletes.
THEOREM RoundsClean == Spec => []EachRoundCleans
<1>1. IInv => EachRoundCleans
  <2> SUFFICES ASSUME IInv, Cleaned, world.due PROVE FALSE
    BY DEF EachRoundCleans
  <2>1. TypeOK /\ RoundKnows /\ drops \in Seq(DropRecords)
    BY DEF IInv, TypeOK
  <2>2. world.at = "clean" /\ world.j \notin DOMAIN drops /\ world.j \in Nat \ {0}
    BY <2>1, SockFields DEF Cleaned
  <2>3. PICK k \in DOMAIN drops : k >= world.j
    BY <2>1, <2>2 DEF RoundKnows
  <2>4. DOMAIN drops = 1..Len(drops) /\ Len(drops) \in Nat
    BY <2>1
  <2> QED BY <2>2, <2>3, <2>4
<1> QED BY <1>1, Invariant, PTL

\* How many there are of what there is at most one of.
LEMMA AtMostOne ==
  ASSUME NEW S, \A x, y \in S : x = y
  PROVE  /\ IsFiniteSet(S) /\ Cardinality(S) \in {0, 1}
         /\ Cardinality(S) = 0 <=> S = {}
<1>1. CASE S = {}
  BY <1>1, FS_EmptySet
<1>2. CASE S # {}
  <2>1. PICK x \in S : TRUE
    BY <1>2
  <2>2. S = {x}
    BY <2>1
  <2>3. IsFiniteSet({x}) /\ Cardinality({x}) = 1
    BY FS_Singleton
  <2> QED BY <1>2, <2>2, <2>3
<1> QED BY <1>1, <1>2

\* Until an id is mixed up, it has one user, who has it by right
\* (GetNewClientID, ClearClientID and all that call them).
THEOREM IdsAreUnique == Spec => []IdsUnique
<1>1. IInv => IdsUnique
  <2> SUFFICES ASSUME IInv, ~mixed, NEW i \in Ids
               PROVE  Users(i) <= 1 /\ (Users(i) = 1 => i \in given)
    BY DEF IdsUnique
  <2> DEFINE A == {h \in inGame \cup {Bot} : cid[h] = i}
             B == {k \in DOMAIN drops : drops[k].cid = i}
             c == IF mob.alive /\ mob.cid = i THEN 1 ELSE 0
  <2>1. IdsOnce /\ OwnersGiven
    BY DEF IInv, IdsOK
  <2>2. /\ \A x, y \in A : x = y
        /\ \A x, y \in B : x = y
    BY <2>1 DEF IdsOnce, OnceIn, Standing
  <2>3. /\ A # {} => B = {} /\ c = 0
        /\ B # {} => c = 0
    BY <2>1 DEF IdsOnce, Standing
  <2>4. A # {} \/ B # {} \/ c = 1 => i \in given
    BY <2>1 DEF OwnersGiven, Standing
  <2>5. Users(i) = Cardinality(A) + Cardinality(B) + c /\ c \in {0, 1}
    BY DEF Users
  <2> HIDE DEF A, B, c
  <2>6. /\ Cardinality(A) \in {0, 1} /\ (Cardinality(A) = 0 <=> A = {})
        /\ Cardinality(B) \in {0, 1} /\ (Cardinality(B) = 0 <=> B = {})
    BY <2>2, AtMostOne
  <2> QED BY <2>3, <2>4, <2>5, <2>6
<1> QED BY <1>1, Invariant, PTL

\* An id that is given is in use or was forgotten: none is lost but by
\* pakDoDrop, which takes two for an item.
THEOREM GivenAreUsed == Spec => []GivenIsUsed
<1>1. IInv => GivenIsUsed
  <2> SUFFICES ASSUME IInv, NEW i \in given \ leaked PROVE Users(i) > 0
    BY DEF GivenIsUsed
  <2> DEFINE A == {h \in inGame \cup {Bot} : cid[h] = i}
             B == {k \in DOMAIN drops : drops[k].cid = i}
             c == IF mob.alive /\ mob.cid = i THEN 1 ELSE 0
  <2>1. TypeOK /\ Used(i)
    BY DEF IInv, AllUsed
  <2>2. A # {} \/ B # {} \/ c = 1
    BY <2>1 DEF Used, Standing
  <2>3. IsFiniteSet(A)
    <3>1. IsFiniteSet(Players \cup {Bot})
      BY FS_AddElement
    <3>2. A \subseteq Players \cup {Bot}
      BY <2>1 DEF TypeOK
    <3> QED BY <3>1, <3>2, FS_Subset
  <2>4. IsFiniteSet(B)
    <3>1. drops \in Seq(DropRecords) /\ DOMAIN drops = 1..Len(drops) /\ Len(drops) \in Nat
      BY <2>1 DEF TypeOK
    <3>2. IsFiniteSet(1..Len(drops))
      BY <3>1, FS_Interval
    <3> QED BY <3>1, <3>2, FS_Subset
  <2>5. Users(i) = Cardinality(A) + Cardinality(B) + c /\ c \in {0, 1}
    BY DEF Users
  <2> HIDE DEF A, B, c
  <2>6. /\ Cardinality(A) \in Nat /\ (Cardinality(A) = 0 <=> A = {})
        /\ Cardinality(B) \in Nat /\ (Cardinality(B) = 0 <=> B = {})
    BY <2>3, <2>4, FS_CardinalityType, FS_EmptySet
  <2> QED BY <2>2, <2>5, <2>6
<1> QED BY <1>1, Invariant, PTL

\* What another thread deletes while a handler holds a pointer to it was old:
\* only the world thread, in CleanDrops, gets that far.
THEOREM OnlyOldDeletedTwice == Spec => DeletedTwiceOnlyOld
<1>1. ASSUME IInv, [Next]_vars, sock.at \in {"take", "delete"}, sock' = sock,
             InList(sock.drop), ~InList(sock.drop)'
      PROVE  AgeOf(sock.drop) = "old"
  <2>0. /\ TypeOK /\ Locks /\ Things_ /\ drops \in Seq(DropRecords) /\ Apart(drops)
        /\ Idle.at = "idle" /\ sock # Idle /\ ~Free("Player")
        /\ \A h \in Players : ~Handles(h)
    BY <1>1, SockFields DEF IInv, TypeOK, Things_, Locks, Free, Handles
  <2>1. drops' # drops
    BY <1>1 DEF InList
  <2>2. CASE CleanDrop
    <3>1. /\ world.j \in DOMAIN drops /\ drops[world.j].age = "old"
          /\ drops' = RemoveAt(drops, world.j)
      BY <2>1, <2>2 DEF CleanDrop
    <3> DEFINE x == IndexOf(sock.drop)
    <3>2. x \in DOMAIN drops /\ drops[x].thing = sock.drop.thing
      BY <1>1 DEF InList, IndexOf
    <3>3. x = world.j
      <4> SUFFICES ASSUME x # world.j PROVE FALSE
        OBVIOUS
      <4>1. \E j \in DOMAIN drops' : drops'[j] = drops[x]
        BY <2>0, <3>1, <3>2, Without
      <4> QED BY <1>1, <3>2, <4>1 DEF InList
    <3> QED BY <1>1, <3>1, <3>3 DEF AgeOf
  <2>3. ASSUME NEW k \in Places, GrowOld(k) PROVE FALSE
    <3>1. k \in DOMAIN drops /\ drops' = [drops EXCEPT ![k].age = IF @ = "new" THEN "open" ELSE "old"]
      BY <2>3 DEF GrowOld
    <3>2. DOMAIN drops' = DOMAIN drops /\ \A j \in DOMAIN drops : drops'[j].thing = drops[j].thing
      BY <2>0, <3>1, Older
    <3> QED BY <1>1, <3>2 DEF InList
  <2>4. ASSUME NEW p \in Players,
               \/ pakDoIdentify(p) \/ pakDoID(p) \/ TeleportPlayer(p) \/ Disconnects(p)
               \/ \E t \in Things : pakDoDrop(p, t)
               \/ \E k \in Places : pakPickDrop(p, k)
        PROVE  FALSE
    BY <2>0, <2>4 DEF pakDoIdentify, pakDoID, TeleportPlayer, Disconnects, pakDoDrop, pakPickDrop
  <2>5. CASE Entered \/ FirstId \/ DeleteClientSocket \/ Take \/ NotTaken \/ Garbled
    BY <2>1, <2>5 DEF Entered, FirstId, DeleteClientSocket, Take, NotTaken, Garbled
  <2>6. CASE AddDrop \/ DeletePicked \/ Crash
    BY <1>1, <2>0, <2>6 DEF AddDrop, DeletePicked, Ends, Crash
  <2>7. CASE WorldProcess \/ NoRespawn \/ RespawnMonster \/ AddMonster
    BY <2>1, <2>7 DEF WorldProcess, NoRespawn, RespawnMonster, AddMonster
  <2>8. CASE KillForNothing \/ BotTeleports
    BY <2>1, <2>8 DEF KillForNothing, BotTeleports
  <2>9. ASSUME NEW t \in Things, NEW o \in Players \cup {NoOne}, Kill(t, o) PROVE FALSE
    BY <2>0, <2>9 DEF Kill, Quiet
  <2>10. ASSUME NEW k \in Places, HandleLoot(k) PROVE FALSE
    BY <2>0, <2>10 DEF HandleLoot, Quiet
  <2>11. CASE UNCHANGED vars
    BY <2>1, <2>11 DEF vars
  <2> QED BY <1>1, <2>2, <2>3, <2>4, <2>5, <2>6, <2>7, <2>8, <2>9, <2>10, <2>11
          DEF Next, SocketGoesOn, WorldGoesOn
<1>2. IInv /\ [Next]_vars =>
        [sock.at \in {"take", "delete"} /\ sock' = sock /\ InList(sock.drop) /\ ~InList(sock.drop)'
           => AgeOf(sock.drop) = "old"]_vars
  BY <1>1
<1> QED BY <1>2, Invariant, PTL DEF Spec, DeletedTwiceOnlyOld
=============================================================================
