---------------------------- MODULE Party_proofs ----------------------------
(***************************************************************************)
(* The parties keep their books for any players, bots, levels and          *)
(* capacities.  The invariant adds to the checked ones that the parties    *)
(* founded without a bot hold players only: a bot is taken off without     *)
(* dissolving its party, which would leave a party of one.                 *)
(***************************************************************************)
EXTENDS Party, TLAPS, WellFoundedInduction

\* Only players are in the parties that were founded without a bot.
OfUsers == \A r \in alive \ botParties : Range(members[r]) \subseteq Users

IInv == TypeOK /\ MembersAgree /\ IdsAgree /\ NobodyAlone /\ RoomKept
          /\ FreeIsMaster /\ OfUsers

-----------------------------------------------------------------------------
(* Lists of members *)

\* Taking c out of a list without repetitions (CParty::RemovePlayer).
LEMMA WithoutFacts ==
  ASSUME NEW S, NEW s \in Seq(S), IsInjective(s), NEW c \in Range(s)
  PROVE  /\ Without(s, c) \in Seq(S)
         /\ Len(Without(s, c)) = Len(s) - 1
         /\ Range(Without(s, c)) = Range(s) \ {c}
         /\ IsInjective(Without(s, c))
<1> DEFINE k == Position(s, c)
           w == Without(s, c)
<1>1. /\ Len(s) \in Nat /\ DOMAIN s = 1..Len(s)
      /\ \A i \in 1..Len(s) : s[i] \in S
  OBVIOUS
<1>2. k \in 1..Len(s) /\ s[k] = c
  <2>1. \E i \in DOMAIN s : s[i] = c
    BY DEF Range
  <2> QED BY <2>1, <1>1 DEF Position
<1>3. Len(s) - 1 \in Nat
  BY <1>1, <1>2
<1> HIDE DEF k
<1>4. w = [i \in 1..Len(s) - 1 |-> IF i < k THEN s[i] ELSE s[i + 1]]
  BY DEF Without, k
<1> HIDE DEF w
<1>5. w \in Seq(S)
  <2>1. \A i \in 1..Len(s) - 1 : (IF i < k THEN s[i] ELSE s[i + 1]) \in S
    BY <1>1, <1>2, <1>3
  <2>2. w \in [1..Len(s) - 1 -> S]
    BY <1>4, <2>1
  <2> QED BY <2>2, <1>3
<1>6. Len(w) = Len(s) - 1 /\ DOMAIN w = 1..Len(s) - 1
  BY <1>3, <1>4, <1>5
<1>7. \A a, b \in DOMAIN s : s[a] = s[b] => a = b
  BY DEF IsInjective
<1>8. \A i \in 1..Len(s) - 1 : w[i] = IF i < k THEN s[i] ELSE s[i + 1]
  BY <1>4
<1>9. \A a, b \in DOMAIN w : w[a] = w[b] => a = b
  BY <1>1, <1>2, <1>6, <1>7, <1>8
<1>10. Range(w) = Range(s) \ {c}
  <2>1. ASSUME NEW x \in Range(w) PROVE x \in Range(s) \ {c}
    <3>1. PICK i \in 1..Len(s) - 1 : x = w[i]
      BY <1>6 DEF Range
    <3>2. CASE i < k
      <4>1. x = s[i] /\ i \in 1..Len(s) /\ i # k
        BY <1>1, <1>2, <1>8, <3>1, <3>2
      <4> QED BY <4>1, <1>1, <1>2, <1>7 DEF Range
    <3>3. CASE ~(i < k)
      <4>1. x = s[i + 1] /\ i + 1 \in 1..Len(s) /\ i + 1 # k
        BY <1>1, <1>2, <1>8, <3>1, <3>3
      <4> QED BY <4>1, <1>1, <1>2, <1>7 DEF Range
    <3> QED BY <3>2, <3>3
  <2>2. ASSUME NEW x \in Range(s), x # c PROVE x \in Range(w)
    <3>1. PICK i \in 1..Len(s) : x = s[i]
      BY <1>1 DEF Range
    <3>2. i # k
      BY <1>2, <2>2, <3>1
    <3>3. CASE i < k
      <4>1. i \in 1..Len(s) - 1 /\ w[i] = x
        BY <1>1, <1>2, <1>8, <3>1, <3>3
      <4> QED BY <4>1, <1>6 DEF Range
    <3>4. CASE i > k
      <4>1. i - 1 \in 1..Len(s) - 1 /\ ~(i - 1 < k) /\ (i - 1) + 1 = i
        BY <1>1, <1>2, <3>1, <3>4
      <4>2. w[i - 1] = x
        BY <1>8, <3>1, <4>1
      <4> QED BY <4>1, <4>2, <1>6 DEF Range
    <3> QED BY <1>1, <1>2, <3>2, <3>3, <3>4
  <2> QED BY <2>1, <2>2
<1> QED BY <1>5, <1>6, <1>9, <1>10 DEF IsInjective, w

\* Adding a newcomer at the end (CParty::AddPlayer).
LEMMA AppendFacts ==
  ASSUME NEW S, NEW s \in Seq(S), IsInjective(s), NEW c \in S, c \notin Range(s)
  PROVE  /\ Append(s, c) \in Seq(S)
         /\ Len(Append(s, c)) = Len(s) + 1
         /\ Range(Append(s, c)) = Range(s) \cup {c}
         /\ IsInjective(Append(s, c))
<1> DEFINE w == Append(s, c)
<1>1. /\ Len(s) \in Nat /\ DOMAIN s = 1..Len(s)
      /\ w \in Seq(S) /\ Len(w) = Len(s) + 1 /\ DOMAIN w = 1..Len(s) + 1
      /\ \A i \in 1..Len(s) : w[i] = s[i]
      /\ w[Len(s) + 1] = c
  OBVIOUS
<1> HIDE DEF w
<1>2. Range(w) = Range(s) \cup {c}
  <2>1. ASSUME NEW x \in Range(w) PROVE x \in Range(s) \cup {c}
    <3>1. PICK i \in 1..Len(s) + 1 : x = w[i]
      BY <1>1 DEF Range
    <3> QED BY <1>1, <3>1 DEF Range
  <2>2. ASSUME NEW x \in Range(s) PROVE x \in Range(w)
    <3>1. PICK i \in 1..Len(s) : x = s[i]
      BY <1>1 DEF Range
    <3>2. i \in DOMAIN w /\ w[i] = x
      BY <1>1, <3>1
    <3> QED BY <3>2 DEF Range
  <2>3. c \in Range(w)
    <3>1. Len(s) + 1 \in DOMAIN w
      BY <1>1
    <3> QED BY <1>1, <3>1 DEF Range
  <2> QED BY <2>1, <2>2, <2>3
<1>3. \A i \in 1..Len(s) : s[i] # c
  BY <1>1 DEF Range
<1>4. \A a, b \in DOMAIN w : w[a] = w[b] => a = b
  BY <1>1, <1>3 DEF IsInjective
<1> QED BY <1>1, <1>2, <1>4 DEF IsInjective, w

\* The members of a new party.
LEMMA PairFacts ==
  ASSUME NEW S, NEW a \in S, NEW b \in S, a # b
  PROVE  /\ <<a, b>> \in Seq(S) /\ Len(<<a, b>>) = 2
         /\ Range(<<a, b>>) = {a, b} /\ IsInjective(<<a, b>>)
<1> DEFINE w == <<a, b>>
<1>1. w \in Seq(S) /\ Len(w) = 2 /\ DOMAIN w = 1..2 /\ w[1] = a /\ w[2] = b
  OBVIOUS
<1> HIDE DEF w
<1> QED BY <1>1 DEF IsInjective, Range, w

-----------------------------------------------------------------------------
(* Ids *)

USE PartyAssumption

\* Min picks an element of every non-empty set of natural numbers.
LEMMA MinOfNaturals ==
  ASSUME NEW S \in SUBSET Nat, S # {}
  PROVE  Min(S) \in S
<1> DEFINE R == OpToRel(<, Nat)
<1>1. IsWellFoundedOn(R, Nat)
  BY NatLessThanWellFounded
<1>2. PICK least \in S : \A s \in S : ~ (<<s, least>> \in R)
  <2> HIDE DEF R
  <2> QED BY <1>1, WFMin, Zenon
<1>3. ASSUME NEW s \in S PROVE least <= s
  <2>1. s \in Nat /\ least \in Nat
    OBVIOUS
  <2>2. ~ (s < least)
    BY <1>2, <2>1 DEF OpToRel
  <2> QED BY <2>1, <2>2
<1> QED BY <1>3 DEF Min

\* GetNewPartyID returns an id that is not marked, or 0, whatever the bytes
\* beyond the table say.
LEMMA NewIdIsFree ==
  ASSUME TypeOK, NEW b0 \in SUBSET Beyond
  PROVE  GetNewPartyID(b0) \in 0..LastIndex + 1 /\ GetNewPartyID(b0) \notin usedIds
<1>1. /\ lastPid \in 1..LastIndex + 2 /\ MaxId \in Nat /\ LastIndex \in Nat /\ MaxId <= LastIndex
      /\ usedIds \subseteq 1..MaxId /\ b0 \subseteq MaxId + 1..LastIndex + 1
  BY DEF TypeOK, Beyond
<1>2. CASE FreeFrom(lastPid, LastIndex, b0) # {}
  <2>1. FreeFrom(lastPid, LastIndex, b0) \in SUBSET Nat
    BY <1>1 DEF FreeFrom
  <2>2. Min(FreeFrom(lastPid, LastIndex, b0)) \in FreeFrom(lastPid, LastIndex, b0)
    BY <1>2, <2>1, MinOfNaturals
  <2>3. GetNewPartyID(b0) \in FreeFrom(lastPid, LastIndex, b0)
    BY <1>2, <2>2 DEF GetNewPartyID
  <2> QED BY <1>1, <2>3 DEF FreeFrom
<1>3. CASE FreeFrom(lastPid, LastIndex, b0) = {} /\ FreeFrom(1, lastPid, b0) # {}
  <2>1. FreeFrom(1, lastPid, b0) \in SUBSET Nat
    BY <1>1 DEF FreeFrom
  <2>2. Min(FreeFrom(1, lastPid, b0)) \in FreeFrom(1, lastPid, b0)
    BY <1>3, <2>1, MinOfNaturals
  <2>3. GetNewPartyID(b0) \in FreeFrom(1, lastPid, b0)
    BY <1>3, <2>2 DEF GetNewPartyID
  <2> QED BY <1>1, <2>3 DEF FreeFrom
<1>4. CASE FreeFrom(lastPid, LastIndex, b0) = {} /\ FreeFrom(1, lastPid, b0) = {}
  BY <1>1, <1>4 DEF GetNewPartyID
<1> QED BY <1>2, <1>3, <1>4

-----------------------------------------------------------------------------
(* Joining *)

LEMMA InitInv == Init => IInv
<1> SUFFICES ASSUME Init PROVE IInv
  OBVIOUS
<1>1. /\ <<>> \in Seq(Characters) /\ Len(<<>>) = 0
      /\ Range(<<>>) = {} /\ IsInjective(<<>>)
  BY DEF Range, IsInjective
<1>2. TypeOK
  BY <1>1 DEF Init, TypeOK
<1>3. MembersAgree
  BY <1>1 DEF Init, MembersAgree
<1>4. IdsAgree /\ NobodyAlone /\ RoomKept /\ OfUsers
  BY DEF Init, IdsAgree, TableIds, NobodyAlone, RoomKept, OfUsers
<1>5. FreeIsMaster
  BY DEF Init, FreeIsMaster
<1> QED BY <1>2, <1>3, <1>4, <1>5 DEF IInv

\* c enters the party r, which has room for it.
LEMMA JoinKeepsInv ==
  ASSUME IInv, NEW r \in alive, NEW c \in Characters, party[c] = NoParty,
         AddPlayer(r, c),
         c \in Users \/ r \in botParties,
         \/ Len(members[r]) < Capacity[level[r]]
         \/ r \in botParties /\ Len(members[r]) < BotCap,
         isMaster' = isMaster \/ isMaster' = [isMaster EXCEPT ![c] = FALSE],
         UNCHANGED idVars
  PROVE  IInv'
<1> DEFINE joined == Append(members[r], c)
<1>1. /\ r \in Parties /\ r # NoParty /\ members[r] \in Seq(Characters)
      /\ IsInjective(members[r])
      /\ Range(members[r]) = {d \in Characters : party[d] = r}
      /\ party \in [Characters -> Parties \cup {NoParty}]
      /\ members \in [Parties -> Seq(Characters)]
  BY DEF IInv, TypeOK, MembersAgree
<1>2. c \notin Range(members[r])
  BY <1>1
<1>3. /\ joined \in Seq(Characters) /\ Len(joined) = Len(members[r]) + 1
      /\ Range(joined) = Range(members[r]) \cup {c} /\ IsInjective(joined)
  <2> HIDE DEF joined
  <2> QED BY <1>1, <1>2, AppendFacts DEF joined
<1>4. /\ members' = [members EXCEPT ![r] = joined]
      /\ party' = [party EXCEPT ![c] = r]
      /\ alive' = alive /\ level' = level
      /\ partyId' = partyId /\ listed' = listed /\ usedIds' = usedIds /\ lastPid' = lastPid
      /\ strayMarks' = strayMarks /\ botParties' = botParties
  BY DEF AddPlayer, idVars
<1> HIDE DEF joined
<1>5. /\ members'[r] = joined
      /\ \A s \in Parties : s # r => members'[s] = members[s]
      /\ party'[c] = r /\ \A d \in Characters : d # c => party'[d] = party[d]
  BY <1>1, <1>4
<1>6. TypeOK'
  BY <1>1, <1>3, <1>4 DEF IInv, TypeOK
<1>7. MembersAgree'
  <2>1. \A d \in Characters : party'[d] # NoParty => party'[d] \in alive'
    BY <1>4, <1>5 DEF IInv, MembersAgree
  <2>2. ASSUME NEW s \in Parties
        PROVE  /\ Range(members'[s]) = {d \in Characters : party'[d] = s}
               /\ IsInjective(members'[s])
    <3>1. CASE s = r
      BY <1>1, <1>3, <1>5, <3>1
    <3>2. CASE s # r
      <4>1. /\ Range(members[s]) = {d \in Characters : party[d] = s}
            /\ IsInjective(members[s])
        BY DEF IInv, MembersAgree
      <4>2. s # NoParty
        OBVIOUS
      <4> QED BY <1>5, <3>2, <4>1, <4>2
    <3> QED BY <3>1, <3>2
  <2> QED BY <2>1, <2>2 DEF MembersAgree
<1>8. IdsAgree'
  BY <1>4 DEF IInv, IdsAgree, TableIds
<1>9. NobodyAlone'
  <2>1. Len(members[r]) \in Nat
    BY <1>1
  <2> QED BY <1>3, <1>4, <1>5, <2>1 DEF IInv, NobodyAlone, TypeOK
<1>10. RoomKept'
  <2> SUFFICES ASSUME NEW s \in alive
               PROVE  \/ Len(members'[s]) <= Capacity[level[s]]
                      \/ s \in botParties /\ Len(members'[s]) <= BotCap
    BY <1>4 DEF RoomKept
  <2>1. /\ Len(members[r]) \in Nat /\ level[r] \in 1..Levels /\ Capacity[level[r]] \in Nat
        /\ BotCap \in Nat /\ s \in Parties
    BY <1>1 DEF IInv, TypeOK
  <2>2. CASE s = r
    BY <1>3, <1>5, <2>1, <2>2
  <2>3. CASE s # r
    BY <1>5, <2>1, <2>3 DEF IInv, RoomKept
  <2> QED BY <2>2, <2>3
<1>11. FreeIsMaster'
  BY <1>1, <1>5 DEF IInv, FreeIsMaster, TypeOK
<1>12. OfUsers'
  BY <1>3, <1>4, <1>5 DEF IInv, OfUsers, TypeOK
<1> QED BY <1>6, <1>7, <1>8, <1>9, <1>10, <1>11, <1>12 DEF IInv

\* a founds the party r and takes b in.
LEMMA FoundKeepsInv ==
  ASSUME IInv, NEW r \in Parties, NEW a \in Characters, NEW b \in Characters, a # b,
         party[a] = NoParty, party[b] = NoParty,
         NewParty(r, <<a, b>>),
         \/ /\ AddParty(r)
            /\ isMaster' = [isMaster EXCEPT ![a] = TRUE, ![b] = FALSE]
         \/ /\ partyId' = [partyId EXCEPT ![r] = 0]
            /\ UNCHANGED <<listed, usedIds, lastPid, strayMarks, isMaster>>
  PROVE  IInv'
<1> DEFINE pair == <<a, b>>
<1>1. /\ pair \in Seq(Characters) /\ Len(pair) = 2
      /\ Range(pair) = {a, b} /\ IsInjective(pair)
  BY PairFacts
<1> HIDE DEF pair
<1>2. /\ r \notin alive /\ alive' = alive \cup {r} /\ r # NoParty
      /\ members' = [members EXCEPT ![r] = pair]
      /\ level' = [level EXCEPT ![r] = 1]
      /\ party' = [c \in Characters |-> IF c \in {a, b} THEN r ELSE party[c]]
      /\ botParties' = IF {a, b} \subseteq Users THEN botParties \ {r} ELSE botParties \cup {r}
  BY <1>1 DEF NewParty, pair
<1>3. /\ party \in [Characters -> Parties \cup {NoParty}]
      /\ members \in [Parties -> Seq(Characters)] /\ level \in [Parties -> 1..Levels]
      /\ partyId \in [Parties -> 0..LastIndex + 1] /\ isMaster \in [Characters -> BOOLEAN]
      /\ alive \subseteq Parties /\ listed \subseteq alive /\ r \notin listed
      /\ usedIds \subseteq 1..MaxId /\ lastPid \in 1..LastIndex + 2
      /\ MaxId \in Nat /\ LastIndex \in Nat
      /\ strayMarks \subseteq 1..MaxId /\ botParties \subseteq Parties
  BY <1>2 DEF IInv, TypeOK
<1> DEFINE Given(id) ==
             /\ partyId' = [partyId EXCEPT ![r] = id] /\ id \notin usedIds
             /\ strayMarks' = strayMarks /\ lastPid' \in 1..LastIndex + 2
             /\ \/ listed' = listed \cup {r} /\ usedIds' = usedIds \cup ({id} \cap 1..MaxId)
                \/ listed' = listed /\ usedIds' = usedIds
<1>4. \E id \in 0..LastIndex + 1 : Given(id)
  <2>1. CASE AddParty(r)
    <3>1. PICK b0 \in SUBSET Beyond :
            /\ partyId' = [partyId EXCEPT ![r] = GetNewPartyID(b0)]
            /\ listed' = listed \cup {r}
            /\ usedIds' = usedIds \cup ({GetNewPartyID(b0)} \cap 1..MaxId)
            /\ lastPid' = IF GetNewPartyID(b0) = 0 THEN lastPid ELSE GetNewPartyID(b0) + 1
            /\ strayMarks' = strayMarks
      BY <2>1 DEF AddParty
    <3>2. GetNewPartyID(b0) \in 0..LastIndex + 1 /\ GetNewPartyID(b0) \notin usedIds
      BY NewIdIsFree DEF IInv
    <3>3. lastPid' \in 1..LastIndex + 2
      BY <1>3, <3>1, <3>2
    <3> QED BY <3>1, <3>2, <3>3
  <2>2. CASE /\ partyId' = [partyId EXCEPT ![r] = 0]
             /\ UNCHANGED <<listed, usedIds, lastPid, strayMarks>>
    <3>1. 0 \in 0..LastIndex + 1 /\ 0 \notin usedIds
      BY <1>3
    <3>2. Given(0)
      BY <1>3, <2>2, <3>1
    <3> QED BY <3>1, <3>2
  <2> QED BY <2>1, <2>2
<1>5. PICK id \in 0..LastIndex + 1 : Given(id)
  BY <1>4
<1>6. /\ members'[r] = pair /\ level'[r] = 1 /\ partyId'[r] = id
      /\ \A s \in Parties : s # r => /\ members'[s] = members[s] /\ level'[s] = level[s]
                                    /\ partyId'[s] = partyId[s]
      /\ party'[a] = r /\ party'[b] = r
      /\ \A c \in Characters : c \notin {a, b} => party'[c] = party[c]
  BY <1>2, <1>3, <1>5
<1>7. isMaster' \in [Characters -> BOOLEAN] /\ \A c \in Characters \ {b} : isMaster[c] => isMaster'[c]
  BY <1>3
<1>8. TypeOK'
  <2>1. party' \in [Characters -> Parties \cup {NoParty}]
    BY <1>2, <1>3
  <2>2. members' \in [Parties -> Seq(Characters)]
    BY <1>1, <1>2, <1>3
  <2>3. level' \in [Parties -> 1..Levels] /\ partyId' \in [Parties -> 0..LastIndex + 1]
    BY <1>2, <1>3, <1>5
  <2>4. alive' \subseteq Parties /\ listed' \subseteq alive' /\ botParties' \subseteq Parties
    BY <1>2, <1>3, <1>5
  <2>5. usedIds' \subseteq 1..MaxId /\ strayMarks' \subseteq 1..MaxId
    BY <1>3, <1>5
  <2> QED BY <1>5, <1>7, <2>1, <2>2, <2>3, <2>4, <2>5 DEF TypeOK
<1>9. MembersAgree'
  <2>1. \A c \in Characters : party'[c] # NoParty => party'[c] \in alive'
    BY <1>2, <1>6 DEF IInv, MembersAgree
  <2>2. \A c \in Characters : party'[c] = r <=> c \in {a, b}
    BY <1>2, <1>6 DEF IInv, MembersAgree
  <2>3. ASSUME NEW s \in Parties
        PROVE  /\ Range(members'[s]) = {c \in Characters : party'[c] = s}
               /\ IsInjective(members'[s])
    <3>1. CASE s = r
      <4>1. {c \in Characters : party'[c] = r} = {a, b}
        BY <2>2
      <4>2. Range(members'[r]) = {a, b} /\ IsInjective(members'[r])
        BY <1>1, <1>6, Zenon
      <4>3. Range(members'[r]) = {c \in Characters : party'[c] = r}
        BY <4>1, <4>2, Zenon
      <4> QED BY <3>1, <4>2, <4>3, Zenon
    <3>2. CASE s # r
      <4>1. /\ Range(members[s]) = {c \in Characters : party[c] = s}
            /\ IsInjective(members[s])
        BY DEF IInv, MembersAgree
      <4>2. members'[s] = members[s]
        BY <1>6, <3>2
      <4>3. \A c \in Characters : party'[c] = s <=> party[c] = s
        BY <1>6, <3>2
      <4> QED BY <4>1, <4>2, <4>3, Zenon
    <3> QED BY <3>1, <3>2
  <2> QED BY <2>1, <2>3 DEF MembersAgree
<1>10. IdsAgree'
  <2> DEFINE In == {partyId[s] : s \in listed}
             Out == {partyId'[s] : s \in listed'}
  <2>1. /\ \A s, t \in listed : s # t /\ partyId[s] = partyId[t] => partyId[s] \notin 1..MaxId
        /\ usedIds = strayMarks \cup (In \cap 1..MaxId) /\ strayMarks \cap (In \cap 1..MaxId) = {}
    BY DEF IInv, IdsAgree, TableIds
  <2>2. \A s \in listed : s \in Parties /\ s # r /\ partyId'[s] = partyId[s]
    BY <1>3, <1>6
  <2>3. id \notin usedIds /\ strayMarks' = strayMarks
    BY <1>5
  <2>4. \A s \in listed : partyId[s] = id => id \notin 1..MaxId
    BY <2>1, <2>3
  <2>5. CASE listed' = listed \cup {r} /\ usedIds' = usedIds \cup ({id} \cap 1..MaxId)
    <3>1. \A s, t \in listed' : s # t /\ partyId'[s] = partyId'[t] => partyId'[s] \notin 1..MaxId
      BY <1>6, <2>1, <2>2, <2>4, <2>5
    <3>2. Out = In \cup {id}
      BY <1>6, <2>2, <2>5
    <3> HIDE DEF In, Out
    <3>3. /\ usedIds' = strayMarks' \cup (Out \cap 1..MaxId)
          /\ strayMarks' \cap (Out \cap 1..MaxId) = {}
      BY <2>1, <2>3, <2>5, <3>2
    <3> QED BY <3>1, <3>3 DEF IdsAgree, TableIds, Out
  <2>6. CASE listed' = listed /\ usedIds' = usedIds
    <3>1. Out = In
      BY <2>2, <2>6
    <3>2. \A s, t \in listed' : s # t /\ partyId'[s] = partyId'[t] => partyId'[s] \notin 1..MaxId
      BY <2>1, <2>2, <2>6
    <3> HIDE DEF In, Out
    <3>3. /\ usedIds' = strayMarks' \cup (Out \cap 1..MaxId)
          /\ strayMarks' \cap (Out \cap 1..MaxId) = {}
      BY <2>1, <2>3, <2>6, <3>1
    <3> QED BY <3>2, <3>3 DEF IdsAgree, TableIds, Out
  <2> QED BY <1>5, <2>5, <2>6
<1>11. NobodyAlone' /\ OfUsers'
  <2>1. \A s \in alive : s \in Parties /\ s # r /\ members'[s] = members[s]
    BY <1>2, <1>3, <1>6
  <2>2. \A s \in alive \ botParties : /\ s \in listed => Len(members[s]) >= 2
                                     /\ Range(members[s]) \subseteq Users
    BY DEF IInv, NobodyAlone, OfUsers
  <2>3. r \notin botParties' => a \in Users /\ b \in Users
    BY <1>2
  <2>4. /\ \A s \in alive' \ botParties' : s \in alive \ botParties \/ s = r
        /\ \A s \in listed' \ botParties' : (s \in listed /\ s \in alive \ botParties) \/ s = r
    BY <1>2, <1>3, <1>5
  <2>5. Len(members'[r]) = 2 /\ Range(members'[r]) = {a, b}
    BY <1>1, <1>6, Zenon
  <2>6. \A s \in listed' \ botParties' : Len(members'[s]) >= 2
    <3> TAKE s \in listed' \ botParties'
    <3>1. CASE s = r
      <4>1. Len(members'[s]) = 2
        BY <2>5, <3>1, Zenon
      <4> QED BY <4>1
    <3>2. CASE s \in listed /\ s \in alive \ botParties
      BY <2>1, <2>2, <3>2
    <3> QED BY <2>4, <3>1, <3>2
  <2>7. \A s \in alive' \ botParties' : Range(members'[s]) \subseteq Users
    BY <2>1, <2>2, <2>3, <2>4, <2>5
  <2> QED BY <2>6, <2>7 DEF NobodyAlone, OfUsers
<1>12. RoomKept'
  <2>1. 2 <= Capacity[1]
    <3>1. 1 \in 1..Levels /\ Capacity \in [1..Levels -> Nat \ {0, 1}]
      OBVIOUS
    <3>2. Capacity[1] \in Nat \ {0, 1}
      BY <3>1
    <3> QED BY <3>2
  <2>2. Len(members'[r]) <= Capacity[level'[r]]
    BY <1>1, <1>6, <2>1
  <2>3. \A s \in alive : \/ Len(members'[s]) <= Capacity[level'[s]]
                         \/ s \in botParties' /\ Len(members'[s]) <= BotCap
    BY <1>2, <1>3, <1>5, <1>6 DEF IInv, RoomKept
  <2> QED BY <1>2, <2>2, <2>3 DEF RoomKept
<1>13. FreeIsMaster'
  BY <1>2, <1>6, <1>7 DEF IInv, FreeIsMaster
<1> QED BY <1>8, <1>9, <1>10, <1>11, <1>12, <1>13 DEF IInv

LEMMA AcceptKeepsInv ==
  ASSUME IInv, NEW p \in Users, NEW q \in Characters, Accept(p, q)
  PROVE  IInv'
<1>1. p \in Characters /\ q \in Characters /\ p # q /\ party[p] = NoParty
  BY DEF Accept, Characters
<1>2. ASSUME party[q] = NoParty, NEW r \in Parties, NewParty(r, <<q, p>>), AddParty(r),
             isMaster' = [isMaster EXCEPT ![q] = TRUE, ![p] = FALSE]
      PROVE  IInv'
  BY <1>1, <1>2, FoundKeepsInv
<1>3. CASE /\ party[q] # NoParty /\ HasRoom(party[q]) /\ AddPlayer(party[q], p)
           /\ isMaster' = [isMaster EXCEPT ![p] = FALSE] /\ UNCHANGED idVars
  <2>1. party[q] \in alive
    BY <1>1, <1>3 DEF IInv, MembersAgree
  <2>2. Len(members[party[q]]) < Capacity[level[party[q]]]
    BY <1>3 DEF HasRoom
  <2> QED BY <1>1, <1>3, <2>1, <2>2, JoinKeepsInv
<1> QED BY <1>2, <1>3 DEF Accept

\* A party that a bot leads was founded with one.
LEMMA BotInvitesKeepsInv ==
  ASSUME IInv, NEW b \in Bots, NEW c \in Characters, CheckPartyInvitations(b, c)
  PROVE  IInv'
<1>1. b \in Characters /\ b \notin Users /\ b # c /\ party[c] = NoParty /\ isMaster' = isMaster
  BY DEF CheckPartyInvitations, Characters
<1>2. ASSUME party[b] = NoParty, NEW r \in Parties, NewParty(r, <<b, c>>),
             partyId' = [partyId EXCEPT ![r] = 0], UNCHANGED <<listed, usedIds, lastPid, strayMarks>>
      PROVE  IInv'
  BY <1>1, <1>2, FoundKeepsInv
<1>3. CASE /\ party[b] # NoParty /\ Len(members[party[b]]) < BotCap
           /\ AddPlayer(party[b], c) /\ UNCHANGED idVars
  <2>1. party[b] \in alive /\ party[b] \in Parties
    BY <1>1, <1>3 DEF IInv, MembersAgree, TypeOK
  <2>2. b \in Range(members[party[b]])
    BY <1>1, <2>1 DEF IInv, MembersAgree
  <2>3. party[b] \in botParties
    BY <1>1, <2>1, <2>2 DEF IInv, OfUsers
  <2> QED BY <1>1, <1>3, <2>1, <2>3, JoinKeepsInv
<1> QED BY <1>2, <1>3 DEF CheckPartyInvitations

LEMMA LevelUpKeepsInv ==
  ASSUME IInv, NEW r \in Parties, LevelUp(r)
  PROVE  IInv'
<1>1. /\ level \in [Parties -> 1..Levels] /\ level[r] < Levels
      /\ level' = [level EXCEPT ![r] = level[r] + 1]
      /\ UNCHANGED <<party, isMaster, members, alive, partyId, listed, usedIds, lastPid,
                     strayMarks, botParties>>
  BY DEF IInv, TypeOK, LevelUp, idVars
<1>2. level' \in [Parties -> 1..Levels]
  BY <1>1
<1>3. TypeOK' /\ MembersAgree' /\ IdsAgree' /\ NobodyAlone' /\ FreeIsMaster' /\ OfUsers'
  <2>1. TypeOK'
    BY <1>1, <1>2 DEF IInv, TypeOK
  <2>2. MembersAgree' /\ FreeIsMaster'
    BY <1>1 DEF IInv, MembersAgree, FreeIsMaster
  <2>3. IdsAgree'
    BY <1>1 DEF IInv, IdsAgree, TableIds
  <2>4. NobodyAlone' /\ OfUsers'
    BY <1>1 DEF IInv, NobodyAlone, OfUsers
  <2> QED BY <2>1, <2>2, <2>3, <2>4
<1>4. \A s \in alive : s \in Parties /\ members[s] \in Seq(Characters)
  BY DEF IInv, TypeOK
<1>5. \A s \in alive : Capacity[level[s]] <= Capacity[level'[s]]
  BY <1>1, <1>2, <1>4
<1>6. \A s \in alive : /\ Capacity[level[s]] \in Nat /\ Capacity[level'[s]] \in Nat
                       /\ Len(members[s]) \in Nat
  BY <1>1, <1>2, <1>4
<1>7. RoomKept'
  BY <1>1, <1>5, <1>6 DEF IInv, RoomKept
<1> QED BY <1>3, <1>7 DEF IInv

-----------------------------------------------------------------------------
(* Leaving *)

\* A dissolved party gives its id back.
LEMMA DissolvedIds ==
  ASSUME IInv, NEW r \in alive, RemoveParty(r)
  PROVE  /\ listed' \subseteq alive \ {r} /\ listed' \subseteq listed
         /\ usedIds' \subseteq 1..MaxId /\ IdsAgree'
<1> DEFINE In == {partyId[s] : s \in listed}
           Out == {partyId'[s] : s \in listed'}
<1>1. /\ listed \subseteq alive /\ usedIds \subseteq 1..MaxId
      /\ \A s, t \in listed : s # t /\ partyId[s] = partyId[t] => partyId[s] \notin 1..MaxId
      /\ usedIds = strayMarks \cup (In \cap 1..MaxId) /\ strayMarks \cap (In \cap 1..MaxId) = {}
  BY DEF IInv, TypeOK, IdsAgree, TableIds
<1>2. /\ listed' = listed \ {r} /\ partyId' = partyId /\ strayMarks' = strayMarks
      /\ usedIds' = IF r \in listed THEN usedIds \ {partyId[r]} ELSE usedIds
  BY DEF RemoveParty
<1>3. /\ usedIds' = strayMarks' \cup (Out \cap 1..MaxId)
      /\ strayMarks' \cap (Out \cap 1..MaxId) = {}
  <2>1. CASE r \in listed
    <3>1. Out \subseteq In /\ In \subseteq Out \cup {partyId[r]}
      BY <1>2, <2>1
    <3>2. partyId[r] \in 1..MaxId => partyId[r] \notin Out
      BY <1>1, <1>2, <2>1
    <3>3. partyId[r] \in In
      BY <2>1
    <3> HIDE DEF In, Out
    <3> QED BY <1>1, <1>2, <2>1, <3>1, <3>2, <3>3
  <2>2. CASE r \notin listed
    <3>1. listed' = listed /\ usedIds' = usedIds /\ Out = In
      BY <1>2, <2>2
    <3> HIDE DEF In, Out
    <3> QED BY <1>1, <1>2, <3>1
  <2> QED BY <2>1, <2>2
<1>4. \A s, t \in listed' : s # t /\ partyId'[s] = partyId'[t] => partyId'[s] \notin 1..MaxId
  BY <1>1, <1>2
<1>5. IdsAgree'
  BY <1>3, <1>4 DEF IdsAgree, TableIds
<1> QED BY <1>1, <1>2, <1>5

\* What a departure is made of.
LEMMA LeaverFacts ==
  ASSUME IInv, NEW c \in Characters, party[c] # NoParty
  PROVE  LET r == party[c]  rest == Without(members[r], c) IN
         /\ r \in Parties /\ r \in alive /\ members[r] \in Seq(Characters)
         /\ rest \in Seq(Characters) /\ Len(rest) = Len(members[r]) - 1
         /\ Range(rest) = Range(members[r]) \ {c} /\ IsInjective(rest)
         /\ \A d \in Characters : d \in Range(rest) <=> party[d] = r /\ d # c
         /\ Range(rest) \subseteq Characters
<1> DEFINE r    == party[c]
           rest == Without(members[r], c)
<1>1. r \in Parties /\ r \in alive
  BY DEF IInv, TypeOK, MembersAgree
<1>2. /\ members[r] \in Seq(Characters) /\ IsInjective(members[r])
      /\ Range(members[r]) = {d \in Characters : party[d] = r}
  BY <1>1 DEF IInv, TypeOK, MembersAgree
<1>3. c \in Range(members[r])
  BY <1>2
<1>4. /\ rest \in Seq(Characters) /\ Len(rest) = Len(members[r]) - 1
      /\ Range(rest) = Range(members[r]) \ {c} /\ IsInjective(rest)
  <2> HIDE DEF r
  <2> QED BY <1>2, <1>3, WithoutFacts
<1> HIDE DEF rest
<1>5. /\ \A d \in Characters : d \in Range(rest) <=> party[d] = r /\ d # c
      /\ Range(rest) \subseteq Characters
  BY <1>2, <1>4
<1> QED BY <1>1, <1>2, <1>4, <1>5 DEF rest

LEMMA RemovalKeepsInv ==
  ASSUME IInv, NEW c \in Characters, Removal(c)
  PROVE  IInv'
<1> DEFINE r    == party[c]
           rest == Without(members[r], c)
           lost == Lose(c, rest)
<1>1. /\ r \in Parties /\ r \in alive /\ r # NoParty /\ members[r] \in Seq(Characters)
      /\ rest \in Seq(Characters) /\ Len(rest) = Len(members[r]) - 1
      /\ Range(rest) = Range(members[r]) \ {c} /\ IsInjective(rest)
      /\ \A d \in Characters : d \in Range(rest) <=> party[d] = r /\ d # c
      /\ Range(rest) \subseteq Characters
  <2>1. r # NoParty
    BY DEF Removal
  <2> QED BY <2>1, LeaverFacts
<1>2. /\ party' = [d \in Characters |-> IF d \in lost THEN NoParty ELSE party[d]]
      /\ isMaster' = [d \in Characters |-> d \in {c} \cup Promoted(rest) \/ isMaster[d]]
      /\ level' = level /\ botParties' = botParties
      /\ \/ /\ Survives(rest) /\ members' = [members EXCEPT ![r] = rest]
            /\ UNCHANGED <<alive, idVars>>
         \/ /\ ~Survives(rest) /\ members' = [members EXCEPT ![r] = <<>>]
            /\ alive' = alive \ {r} /\ RemoveParty(r)
  BY DEF Removal
<1>3. \A d \in Characters : d \in lost <=> d = c \/ (~Survives(rest) /\ party[d] = r)
  BY <1>1 DEF Lose
<1> HIDE DEF r, rest, lost
<1>4. /\ TypeOK /\ party \in [Characters -> Parties \cup {NoParty}]
      /\ members \in [Parties -> Seq(Characters)] /\ isMaster \in [Characters -> BOOLEAN]
      /\ alive \subseteq Parties /\ listed \subseteq alive
  BY DEF IInv, TypeOK
<1>5. /\ party' \in [Characters -> Parties \cup {NoParty}]
      /\ isMaster' \in [Characters -> BOOLEAN]
  BY <1>2, <1>4
<1>6. FreeIsMaster'
  <2> SUFFICES ASSUME NEW d \in Characters, party'[d] = NoParty PROVE isMaster'[d]
    BY DEF FreeIsMaster
  <2>1. CASE d \notin lost
    <3>1. party[d] = NoParty
      BY <1>2, <2>1
    <3> QED BY <1>2, <3>1 DEF IInv, FreeIsMaster
  <2>2. CASE d = c
    BY <1>2, <2>2
  <2>3. CASE d # c /\ ~Survives(rest) /\ party[d] = r
    BY <1>1, <1>2, <2>3 DEF Promoted
  <2> QED BY <1>3, <2>1, <2>2, <2>3
<1>7. \A s \in Parties : s # r => /\ members'[s] = members[s]
                                /\ \A d \in Characters : party'[d] = s <=> party[d] = s
  <2> SUFFICES ASSUME NEW s \in Parties, s # r
               PROVE  /\ members'[s] = members[s]
                      /\ \A d \in Characters : party'[d] = s <=> party[d] = s
    OBVIOUS
  <2>1. members'[s] = members[s]
    BY <1>2, <1>4
  <2>2. party[c] = r /\ s # NoParty
    BY DEF r
  <2> QED BY <1>2, <1>3, <2>1, <2>2
<1>8. CASE Survives(rest)
  <2>1. /\ members' = [members EXCEPT ![r] = rest] /\ members'[r] = rest
        /\ alive' = alive /\ partyId' = partyId /\ listed' = listed
        /\ usedIds' = usedIds /\ lastPid' = lastPid /\ strayMarks' = strayMarks
    BY <1>1, <1>2, <1>4, <1>8 DEF idVars
  <2>2. \A d \in Characters : party'[d] = r <=> d \in Range(rest)
    BY <1>1, <1>2, <1>3, <1>8
  <2>3. TypeOK'
    BY <1>1, <1>2, <1>4, <1>5, <2>1 DEF TypeOK
  <2>4. MembersAgree'
    <3>1. \A d \in Characters : party'[d] # NoParty => party'[d] \in alive'
      BY <1>2, <2>1 DEF IInv, MembersAgree
    <3>2. ASSUME NEW s \in Parties
          PROVE  /\ Range(members'[s]) = {d \in Characters : party'[d] = s}
                 /\ IsInjective(members'[s])
      <4>1. CASE s = r
        <5>1. {d \in Characters : party'[d] = r} = Range(rest)
          BY <1>1, <2>2
        <5> QED BY <1>1, <2>1, <4>1, <5>1, Zenon
      <4>2. CASE s # r
        BY <1>7, <4>2 DEF IInv, MembersAgree
      <4> QED BY <4>1, <4>2
    <3> QED BY <3>1, <3>2 DEF MembersAgree
  <2>5. IdsAgree'
    BY <2>1 DEF IInv, IdsAgree, TableIds
  <2>6. NobodyAlone'
    <3>1. Len(rest) >= 2
      BY <1>1, <1>8 DEF Survives
    <3> QED BY <1>2, <1>4, <1>7, <2>1, <3>1 DEF IInv, NobodyAlone
  <2>7. RoomKept'
    <3> SUFFICES ASSUME NEW s \in alive
                 PROVE  \/ Len(members'[s]) <= Capacity[level[s]]
                        \/ s \in botParties /\ Len(members'[s]) <= BotCap
      BY <1>2, <2>1 DEF RoomKept
    <3>1. \/ Len(members[s]) <= Capacity[level[s]]
          \/ s \in botParties /\ Len(members[s]) <= BotCap
      BY DEF IInv, RoomKept
    <3>2. CASE s = r
      <4>1. Len(members'[s]) = Len(members[s]) - 1 /\ Len(members[s]) \in Nat
        BY <1>1, <2>1, <3>2
      <4>2. Capacity[level[s]] \in Nat /\ BotCap \in Nat
        BY <1>4 DEF TypeOK
      <4> QED BY <3>1, <4>1, <4>2
    <3>3. CASE s # r
      BY <1>4, <1>7, <3>1, <3>3
    <3> QED BY <3>2, <3>3
  <2>8. OfUsers'
    <3>1. ASSUME NEW s \in alive \ botParties PROVE Range(members'[s]) \subseteq Users
      <4>1. Range(members[s]) \subseteq Users
        BY DEF IInv, OfUsers
      <4>2. CASE s = r
        BY <1>1, <2>1, <4>1, <4>2
      <4>3. CASE s # r
        BY <1>4, <1>7, <4>1, <4>3
      <4> QED BY <4>2, <4>3
    <3> QED BY <1>2, <2>1, <3>1 DEF OfUsers
  <2> QED BY <1>6, <2>3, <2>4, <2>5, <2>6, <2>7, <2>8 DEF IInv
<1>9. CASE ~Survives(rest)
  <2>1. /\ members' = [members EXCEPT ![r] = <<>>] /\ members'[r] = <<>>
        /\ alive' = alive \ {r} /\ partyId' = partyId /\ lastPid' = lastPid
        /\ strayMarks' = strayMarks
    BY <1>1, <1>2, <1>4, <1>9 DEF RemoveParty
  <2>2. \A d \in Characters : party'[d] # r
    BY <1>1, <1>2, <1>3, <1>9
  <2>3. /\ listed' \subseteq alive \ {r} /\ listed' \subseteq listed
        /\ usedIds' \subseteq 1..MaxId /\ IdsAgree'
    BY <1>1, <1>2, <1>9, DissolvedIds
  <2>4. <<>> \in Seq(Characters) /\ Range(<<>>) = {} /\ IsInjective(<<>>)
    BY DEF Range, IsInjective
  <2>5. TypeOK'
    BY <1>2, <1>4, <1>5, <2>1, <2>3, <2>4 DEF TypeOK
  <2>6. MembersAgree'
    <3>1. \A d \in Characters : party'[d] # NoParty => party'[d] \in alive'
      BY <1>2, <2>1, <2>2 DEF IInv, MembersAgree
    <3>2. ASSUME NEW s \in Parties
          PROVE  /\ Range(members'[s]) = {d \in Characters : party'[d] = s}
                 /\ IsInjective(members'[s])
      <4>1. CASE s = r
        <5>1. {d \in Characters : party'[d] = r} = {}
          BY <2>2
        <5> QED BY <2>1, <2>4, <4>1, <5>1, Zenon
      <4>2. CASE s # r
        BY <1>7, <4>2 DEF IInv, MembersAgree
      <4> QED BY <4>1, <4>2
    <3> QED BY <3>1, <3>2 DEF MembersAgree
  <2>7. \A s \in alive' : s \in alive /\ s \in Parties /\ members'[s] = members[s]
    BY <1>4, <1>7, <2>1
  <2>8. NobodyAlone' /\ OfUsers'
    <3>1. \A s \in listed' : s \in listed /\ s \in alive'
      BY <2>1, <2>3
    <3> QED BY <1>2, <2>7, <3>1 DEF IInv, NobodyAlone, OfUsers
  <2>9. RoomKept'
    <3>1. \A s \in alive' : s \in alive /\ s \in Parties /\ s # r /\ members'[s] = members[s]
      BY <1>4, <1>7, <2>1
    <3> QED BY <1>2, <2>3, <3>1 DEF IInv, RoomKept
  <2> QED BY <1>6, <2>3, <2>5, <2>6, <2>8, <2>9 DEF IInv
<1> QED BY <1>8, <1>9

\* A bot that is taken off leaves a party that is not on PartyList.
LEMMA RemoveBotKeepsInv ==
  ASSUME IInv, NEW b \in Bots, RemoveBot(b)
  PROVE  IInv' /\ listed' = listed /\ \A s \in listed \ botParties : members'[s] = members[s]
<1> DEFINE r    == party[b]
           rest == Without(members[r], b)
<1>1. /\ b \in Characters /\ b \notin Users /\ r # NoParty
      /\ members' = [members EXCEPT ![r] = rest]
      /\ party' = [party EXCEPT ![b] = NoParty]
      /\ isMaster' = [isMaster EXCEPT ![b] = TRUE]
      /\ UNCHANGED <<alive, level, partyId, listed, usedIds, lastPid, strayMarks, botParties>>
  BY DEF RemoveBot, Characters, idVars
<1>2. /\ r \in Parties /\ r \in alive /\ members[r] \in Seq(Characters)
      /\ rest \in Seq(Characters) /\ Len(rest) = Len(members[r]) - 1
      /\ Range(rest) = Range(members[r]) \ {b} /\ IsInjective(rest)
      /\ \A d \in Characters : d \in Range(rest) <=> party[d] = r /\ d # b
  BY <1>1, LeaverFacts
<1>3. r \in botParties
  <2>1. b \in Range(members[r])
    BY <1>1, <1>2 DEF IInv, MembersAgree
  <2> QED BY <1>1, <1>2, <2>1 DEF IInv, OfUsers
<1>4. party[b] = r
  OBVIOUS
<1> HIDE DEF r, rest
<1>5. /\ party \in [Characters -> Parties \cup {NoParty}] /\ listed \subseteq alive
      /\ members \in [Parties -> Seq(Characters)] /\ isMaster \in [Characters -> BOOLEAN]
      /\ alive \subseteq Parties
  BY DEF IInv, TypeOK
<1>6. /\ members'[r] = rest
      /\ \A s \in Parties : s # r => members'[s] = members[s]
      /\ party'[b] = NoParty /\ \A d \in Characters : d # b => party'[d] = party[d]
  BY <1>1, <1>2, <1>5
<1>7. \A s \in alive \ botParties : members'[s] = members[s]
  BY <1>3, <1>5, <1>6
<1>8. TypeOK'
  BY <1>1, <1>2, <1>5 DEF IInv, TypeOK
<1>9. MembersAgree'
  <2>1. \A d \in Characters : party'[d] # NoParty => party'[d] \in alive'
    BY <1>1, <1>6 DEF IInv, MembersAgree
  <2>2. ASSUME NEW s \in Parties
        PROVE  /\ Range(members'[s]) = {d \in Characters : party'[d] = s}
               /\ IsInjective(members'[s])
    <3>1. s # NoParty
      OBVIOUS
    <3>2. CASE s = r
      <4>1. Range(rest) = {d \in Characters : party'[d] = r}
        <5>1. Range(members[r]) = {d \in Characters : party[d] = r}
          BY <1>2 DEF IInv, MembersAgree
        <5> QED BY <1>2, <1>6, <3>1, <3>2, <5>1
      <4> QED BY <1>2, <1>6, <3>2, <4>1, Zenon
    <3>3. CASE s # r
      <4>1. \A d \in Characters : party'[d] = s <=> party[d] = s
        BY <1>4, <1>6, <3>1, <3>3
      <4> QED BY <1>6, <3>3, <4>1 DEF IInv, MembersAgree
    <3> QED BY <3>2, <3>3
  <2> QED BY <2>1, <2>2 DEF MembersAgree
<1>10. IdsAgree' /\ NobodyAlone' /\ OfUsers'
  BY <1>1, <1>5, <1>7 DEF IInv, IdsAgree, TableIds, NobodyAlone, OfUsers
<1>11. RoomKept'
  <2> SUFFICES ASSUME NEW s \in alive
               PROVE  \/ Len(members'[s]) <= Capacity[level[s]]
                      \/ s \in botParties /\ Len(members'[s]) <= BotCap
    BY <1>1 DEF RoomKept
  <2>1. \/ Len(members[s]) <= Capacity[level[s]]
        \/ s \in botParties /\ Len(members[s]) <= BotCap
    BY DEF IInv, RoomKept
  <2>2. CASE s = r
    <3>1. Len(members'[s]) = Len(members[s]) - 1 /\ Len(members[s]) \in Nat
      BY <1>2, <1>6, <2>2
    <3>2. Capacity[level[s]] \in Nat /\ BotCap \in Nat
      BY <1>5 DEF IInv, TypeOK
    <3> QED BY <2>1, <3>1, <3>2
  <2>3. CASE s # r
    BY <1>5, <1>6, <2>1, <2>3
  <2> QED BY <2>2, <2>3
<1>12. FreeIsMaster'
  BY <1>1, <1>5, <1>6 DEF IInv, FreeIsMaster
<1> QED BY <1>1, <1>5, <1>7, <1>8, <1>9, <1>10, <1>11, <1>12 DEF IInv

LEMMA GiveLeaderKeepsInv ==
  ASSUME IInv, NEW p \in Users, NEW q \in Users, GiveLeader(p, q)
  PROVE  IInv'
<1>1. /\ p \in Characters /\ q \in Characters /\ party[p] # NoParty
      /\ isMaster' = [isMaster EXCEPT ![q] = TRUE, ![p] = FALSE]
      /\ UNCHANGED <<party, members, alive, level, partyId, listed, usedIds, lastPid,
                     strayMarks, botParties>>
  BY DEF GiveLeader, Characters, idVars
<1>2. TypeOK' /\ FreeIsMaster'
  BY <1>1 DEF IInv, TypeOK, FreeIsMaster
<1>3. MembersAgree' /\ IdsAgree'
  BY <1>1 DEF IInv, MembersAgree, IdsAgree, TableIds
<1>4. NobodyAlone' /\ RoomKept' /\ OfUsers'
  BY <1>1 DEF IInv, NobodyAlone, RoomKept, OfUsers
<1> QED BY <1>2, <1>3, <1>4 DEF IInv

-----------------------------------------------------------------------------
(* The specification *)

\* The books of the parties, as one inductive invariant of every handler.
THEOREM Invariant == Spec => []IInv
<1>1. Init => IInv
  BY InitInv
<1>2. IInv /\ [Next]_vars => IInv'
  <2> SUFFICES ASSUME IInv, [Next]_vars PROVE IInv'
    OBVIOUS
  <2>1. ASSUME NEW p \in Users, NEW q \in Characters, Accept(p, q)
        PROVE  IInv'
    BY <2>1, AcceptKeepsInv
  <2>9. ASSUME NEW p \in Users, NEW q \in Users, GiveLeader(p, q)
        PROVE  IInv'
    BY <2>9, GiveLeaderKeepsInv
  <2>2. ASSUME NEW c \in Characters, Removal(c)
        PROVE  IInv'
    BY <2>2, RemovalKeepsInv
  <2>3. ASSUME NEW b \in Bots, NEW c \in Characters, CheckPartyInvitations(b, c)
        PROVE  IInv'
    BY <2>3, BotInvitesKeepsInv
  <2>4. ASSUME NEW b \in Bots, RemoveBot(b)
        PROVE  IInv'
    BY <2>4, RemoveBotKeepsInv
  <2>5. ASSUME NEW r \in Parties, LevelUp(r)
        PROVE  IInv'
    BY <2>5, LevelUpKeepsInv
  <2>6. CASE UNCHANGED vars
    BY <2>6 DEF vars, IInv, TypeOK, MembersAgree, IdsAgree, TableIds, NobodyAlone, RoomKept,
                FreeIsMaster, OfUsers
  <2>7. ASSUME NEW p \in Users, Leave(p) \/ OnClientDisconnect(p)
        PROVE  IInv'
    <3>1. p \in Characters /\ Removal(p)
      BY <2>7 DEF Leave, OnClientDisconnect, Characters
    <3> QED BY <2>2, <3>1
  <2>8. ASSUME NEW p \in Users, NEW c \in Characters, Kick(p, c)
        PROVE  IInv'
    BY <2>2, <2>8 DEF Kick
  <2> QED BY <2>1, <2>3, <2>4, <2>5, <2>6, <2>7, <2>8, <2>9 DEF Next
<1> QED BY <1>1, <1>2, PTL DEF Spec

\* Type correctness: PartyList holds existing parties only, the marks stay within
\* PartyIDList, and no id reaches further than the loop of GetNewPartyID does.
THEOREM TypeCorrect == Spec => []TypeOK
BY Invariant, PTL DEF IInv

\* The lists of members and the characters' pointers agree for any number of
\* players, bots and parties.
THEOREM MembersAlwaysAgree == Spec => []MembersAgree
BY Invariant, PTL DEF IInv

\* The ids of PartyList that lie within PartyIDList are distinct and marked, and
\* no others are beside the marks of the start, whatever the bytes beyond the
\* table say and wherever last_pid is.
THEOREM IdsAlwaysAgree == Spec => []IdsAgree
BY Invariant, PTL DEF IInv

\* No order of leaves, kicks and lost connections leaves a player alone in a
\* party of PartyList founded without a bot, and no invitation and no bot fills
\* one beyond its room, for any capacities that do not fall with the level.
THEOREM PartySizes == Spec => []SizesRight
BY Invariant, PTL DEF IInv, SizesRight

\* Whoever has no party is its own master.
THEOREM FreeAlwaysMaster == Spec => []FreeIsMaster
BY Invariant, PTL DEF IInv

\* A party of PartyList founded without a bot that loses a member and goes on
\* has a leader.
THEOREM LeaderAfterLeaving == Spec => LeavingLeavesLeader
<1> DEFINE Leads(r) == r \in listed' /\ Len(members'[r]) < Len(members[r]) =>
                         \E d \in Characters : party'[d] = r /\ isMaster'[d]
<1>1. ASSUME IInv, [Next]_vars, NEW r \in listed \ botParties
      PROVE  Leads(r)
  <2>1. r \in Parties /\ r \in alive /\ members[r] \in Seq(Characters) /\ Len(members[r]) \in Nat
    BY <1>1 DEF IInv, TypeOK
  <2>2. ASSUME members'[r] = members[r] PROVE Leads(r)
    BY <2>1, <2>2
  <2>3. ASSUME NEW p \in Users, NEW q \in Characters, Accept(p, q)
        PROVE  Leads(r)
    <3>1. ASSUME NEW s \in Parties, NewParty(s, <<q, p>>) PROVE Leads(r)
      <4>1. s # r
        BY <2>1, <3>1 DEF NewParty
      <4>2. members'[r] = members[r]
        BY <1>1, <2>1, <3>1, <4>1 DEF NewParty, IInv, TypeOK
      <4> QED BY <2>2, <4>2
    <3>2. ASSUME AddPlayer(party[q], p) PROVE Leads(r)
      <4>1. p \in Characters
        BY DEF Characters
      <4>2. CASE party[q] = r
        <5>1. members'[r] = Append(members[r], p)
          BY <1>1, <2>1, <3>2, <4>2 DEF AddPlayer, IInv, TypeOK
        <5> QED BY <2>1, <4>1, <5>1
      <4>3. CASE party[q] # r
        <5>1. members'[r] = members[r]
          BY <1>1, <2>1, <3>2, <4>3 DEF AddPlayer, IInv, TypeOK
        <5> QED BY <2>2, <5>1
      <4> QED BY <4>2, <4>3
    <3> QED BY <2>3, <3>1, <3>2 DEF Accept
  <2>4. ASSUME NEW b \in Bots, NEW c \in Characters, CheckPartyInvitations(b, c)
        PROVE  Leads(r)
    <3>1. ASSUME NEW s \in Parties, NewParty(s, <<b, c>>) PROVE Leads(r)
      <4>1. s # r
        BY <2>1, <3>1 DEF NewParty
      <4>2. members'[r] = members[r]
        BY <1>1, <2>1, <3>1, <4>1 DEF NewParty, IInv, TypeOK
      <4> QED BY <2>2, <4>2
    <3>2. ASSUME AddPlayer(party[b], c) PROVE Leads(r)
      <4>1. CASE party[b] = r
        <5>1. members'[r] = Append(members[r], c)
          BY <1>1, <2>1, <3>2, <4>1 DEF AddPlayer, IInv, TypeOK
        <5> QED BY <2>1, <5>1
      <4>2. CASE party[b] # r
        <5>1. members'[r] = members[r]
          BY <1>1, <2>1, <3>2, <4>2 DEF AddPlayer, IInv, TypeOK
        <5> QED BY <2>2, <5>1
      <4> QED BY <4>1, <4>2
    <3> QED BY <2>4, <3>1, <3>2 DEF CheckPartyInvitations
  <2>5. ASSUME NEW c \in Characters, Removal(c)
        PROVE  Leads(r)
    <3> DEFINE s    == party[c]
               rest == Without(members[s], c)
    <3>1. /\ s # NoParty
          /\ isMaster' = [d \in Characters |-> d \in {c} \cup Promoted(rest) \/ isMaster[d]]
          /\ \/ Survives(rest) /\ members' = [members EXCEPT ![s] = rest]
             \/ /\ ~Survives(rest) /\ members' = [members EXCEPT ![s] = <<>>]
                /\ RemoveParty(s)
          /\ party' = [d \in Characters |-> IF d \in Lose(c, rest) THEN NoParty ELSE party[d]]
      BY <2>5 DEF Removal
    <3>2. /\ rest \in Seq(Characters) /\ s \in Parties
          /\ \A d \in Characters : d \in Range(rest) <=> party[d] = s /\ d # c
      BY <1>1, <3>1, LeaverFacts
    <3> HIDE DEF s, rest
    <3>3. CASE s # r
      <4>1. members'[r] = members[r]
        BY <1>1, <2>1, <3>1, <3>3 DEF IInv, TypeOK
      <4> QED BY <2>2, <4>1
    <3>4. CASE s = r /\ Survives(rest)
      <4>1. rest[1] \in Range(rest) /\ rest[1] \in Characters
        BY <3>2, <3>4 DEF Survives, Range
      <4>2. rest[1] \in Promoted(rest) /\ rest[1] \notin Lose(c, rest)
        BY <3>2, <3>4, <4>1 DEF Promoted, Lose
      <4>3. party'[rest[1]] = r /\ isMaster'[rest[1]]
        BY <3>1, <3>2, <3>4, <4>1, <4>2
      <4> QED BY <4>1, <4>3
    <3>5. CASE s = r /\ ~Survives(rest)
      BY <3>1, <3>5 DEF RemoveParty
    <3> QED BY <3>3, <3>4, <3>5
  <2>6. ASSUME NEW b \in Bots, RemoveBot(b)
        PROVE  Leads(r)
    BY <1>1, <2>2, <2>6, RemoveBotKeepsInv
  <2>7. ASSUME members' = members
        PROVE  Leads(r)
    BY <2>2, <2>7
  <2> HIDE DEF Leads
  <2>8. CASE UNCHANGED vars
    BY <2>7, <2>8 DEF vars
  <2>9. ASSUME NEW p \in Users, NEW q \in Users, GiveLeader(p, q)
        PROVE  Leads(r)
    BY <2>7, <2>9 DEF GiveLeader
  <2>10. ASSUME NEW s \in Parties, LevelUp(s)
         PROVE  Leads(r)
    BY <2>7, <2>10 DEF LevelUp
  <2> QED BY <1>1, <2>3, <2>4, <2>5, <2>6, <2>8, <2>9, <2>10
          DEF Next, Leave, Kick, OnClientDisconnect, Characters
<1>2. IInv /\ [Next]_vars =>
        [\A r \in listed \ botParties : r \in listed' /\ Len(members'[r]) < Len(members[r]) =>
           \E c \in Characters : party'[c] = r /\ isMaster'[c]]_vars
  BY <1>1
<1> QED BY <1>2, Invariant, PTL DEF Spec, LeavingLeavesLeader
=============================================================================
