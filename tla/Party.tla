-------------------------------- MODULE Party --------------------------------
(***************************************************************************)
(* Parties of a world server: CParty objects with their Members, the       *)
(* PARTY record of each character (party and IsMaster), the server's       *)
(* PartyList and the ids it hands out.                                     *)
(*                                                                         *)
(* A party of players comes from an accepted invitation (pakPartyManager)  *)
(* and is put on PartyList with an id.  A party that a bot founds          *)
(* (CheckPartyInvitations) never is: it has id 0, and its members are not  *)
(* asked.  An invitation by itself changes nothing: pakPartyActions looks  *)
(* for the invited client in ClientList, where bots never are, so its      *)
(* branch for bots is never taken.  The answer, though, names a client id  *)
(* on the map, and a bot may have it when the one that invited is gone.    *)
(*                                                                         *)
(* Handlers run on the socket thread, bots on the visibility thread, the   *)
(* experience of parties on the map thread, all under PlayerMutex: an      *)
(* action is one handler or one bot's decision as a whole.  A character    *)
(* that is not in the game is one that does nothing.                       *)
(***************************************************************************)
EXTENDS Naturals, Sequences, FiniteSetsExt, Functions

CONSTANTS
  Users,      \* players' characters
  Bots,       \* bots that hunt
  Parties,    \* bound: the CParty objects there may be at once
  NoParty,    \* NULL
  Levels,     \* bound: the levels a party reaches are 1..Levels
  Capacity,   \* members allowed at a level (4, 5, 6 and 7 in the code)
  BotCap,     \* members at which a bot stops to invite (5 in the code)
  MaxId,      \* last index of PartyIDList (0xfff in the code)
  LastIndex   \* last index GetNewPartyID's loop reads (0xfffe in the code)

Characters == Users \cup Bots

ASSUME PartyAssumption ==
  /\ Users \cap Bots = {} /\ NoParty \notin Parties
  /\ Levels \in Nat \ {0} /\ Capacity \in [1..Levels -> Nat \ {0, 1}]
  /\ \A l \in 1..Levels : \A k \in 1..l : Capacity[k] <= Capacity[l]
  /\ BotCap \in Nat \ {0, 1}
  /\ MaxId \in Nat /\ LastIndex \in Nat /\ MaxId <= LastIndex

VARIABLES
  party,     \* CPlayer::Party->party
  isMaster,  \* CPlayer::Party->IsMaster
  members,   \* CParty::Members, in order of entry
  alive,     \* the CParty objects that exist
  level,     \* CParty::PartyLevel
  partyId,   \* CParty::PartyId
  listed,    \* PartyList
  usedIds,   \* the ids marked in PartyIDList
  lastPid,   \* last_pid
  botParties,\* history: the objects last founded with a bot in them
  strayMarks \* history: the ids marked at the start

vars == <<party, isMaster, members, alive, level, partyId, listed, usedIds, lastPid,
          botParties, strayMarks>>
idVars == <<partyId, listed, usedIds, lastPid, strayMarks>>

\* Nothing initialises PartyIDList: whatever the memory held are its marks.
Init ==
  /\ party = [c \in Characters |-> NoParty]
  /\ isMaster = [c \in Characters |-> TRUE]
  /\ members = [r \in Parties |-> <<>>]
  /\ alive = {} /\ listed = {} /\ botParties = {}
  /\ level = [r \in Parties |-> 1]
  /\ partyId = [r \in Parties |-> 0]
  /\ strayMarks \in SUBSET (1..MaxId) /\ usedIds = strayMarks
  /\ lastPid = 1

-----------------------------------------------------------------------------
(* Ids *)

\* Past its end the array is other memory of the server, and a byte there reads
\* as it may: those in b0 read as false.
Beyond == MaxId + 1..LastIndex + 1
FreeFrom(a, b, b0) == {i \in a..b : i \notin usedIds /\ (i > MaxId => i \in b0)}

\* Ids go on upwards from the last one given, past the table's end, then from 1
\* to the last; 0 when none is free.
GetNewPartyID(b0) ==
  IF FreeFrom(lastPid, LastIndex, b0) # {} THEN Min(FreeFrom(lastPid, LastIndex, b0))
  ELSE IF FreeFrom(1, lastPid, b0) # {} THEN Min(FreeFrom(1, lastPid, b0))
  ELSE 0

\* Only the table's own marks are kept here.
AddParty(r) ==
  \E b0 \in SUBSET Beyond :
    LET id == GetNewPartyID(b0) IN
    /\ partyId' = [partyId EXCEPT ![r] = id]
    /\ listed' = listed \cup {r}
    /\ usedIds' = usedIds \cup ({id} \cap 1..MaxId)
    /\ lastPid' = IF id = 0 THEN lastPid ELSE id + 1
    /\ UNCHANGED strayMarks

\* Mutant of RemoveParty: the id stays taken.
RemovePartyKeepId(r) ==
  /\ listed' = listed \ {r}
  /\ UNCHANGED <<usedIds, partyId, lastPid, strayMarks>>

RemoveParty(r) ==
  /\ listed' = listed \ {r}
  /\ usedIds' = IF r \in listed THEN usedIds \ {partyId[r]} ELSE usedIds
  /\ UNCHANGED <<partyId, lastPid, strayMarks>>

-----------------------------------------------------------------------------
(* Joining *)

\* A new CParty with the members s.
NewParty(r, s) ==
  /\ r \notin alive
  /\ alive' = alive \cup {r}
  /\ members' = [members EXCEPT ![r] = s]
  /\ level' = [level EXCEPT ![r] = 1]
  /\ party' = [c \in Characters |-> IF c \in Range(s) THEN r ELSE party[c]]
  /\ botParties' = IF Range(s) \subseteq Users THEN botParties \ {r} ELSE botParties \cup {r}

AddPlayer(r, c) ==
  /\ members' = [members EXCEPT ![r] = Append(@, c)]
  /\ party' = [party EXCEPT ![c] = r]
  /\ UNCHANGED <<alive, level, botParties>>

\* RefreshMax comes before every comparison with Capacity.
HasRoomUnasked(r) == TRUE                             \* mutant of HasRoom
HasRoom(r) == Len(members[r]) < Capacity[level[r]]

\* p takes an invitation of q: the party may be one that q joined, or founded,
\* after it invited p, and q a bot that has the client id of the one that did.
Accept(p, q) ==
  /\ party[p] = NoParty /\ p # q
  /\ \/ /\ party[q] = NoParty
        /\ \E r \in Parties : NewParty(r, <<q, p>>) /\ AddParty(r)
        /\ isMaster' = [isMaster EXCEPT ![q] = TRUE, ![p] = FALSE]
     \/ /\ party[q] # NoParty /\ HasRoom(party[q])
        /\ AddPlayer(party[q], p)
        /\ isMaster' = [isMaster EXCEPT ![p] = FALSE]
        /\ UNCHANGED idVars

\* A bot takes whoever stands near into its party; nobody's IsMaster changes.
CheckPartyInvitations(b, c) ==
  /\ party[c] = NoParty /\ b # c
  /\ \/ /\ party[b] = NoParty
        /\ \E r \in Parties : /\ NewParty(r, <<b, c>>)
                              /\ partyId' = [partyId EXCEPT ![r] = 0]
        /\ UNCHANGED <<listed, usedIds, lastPid, strayMarks>>
     \/ /\ party[b] # NoParty
        /\ members[party[b]][1] = b
        /\ Len(members[party[b]]) < BotCap
        /\ AddPlayer(party[b], c)
        /\ UNCHANGED idVars
  /\ UNCHANGED isMaster

\* Shared experience raises a party's level.
LevelUp(r) ==
  /\ r \in alive /\ members[r] # <<>> /\ level[r] < Levels
  /\ level' = [level EXCEPT ![r] = @ + 1]
  /\ UNCHANGED <<party, isMaster, members, alive, botParties, idVars>>

-----------------------------------------------------------------------------
(* Leaving *)

Position(s, c) == CHOOSE k \in DOMAIN s : s[k] = c
Without(s, c) ==
  [i \in 1..Len(s) - 1 |-> IF i < Position(s, c) THEN s[i] ELSE s[i + 1]]

\* A party of one is dissolved.
Survives(rest) == Len(rest) > 1

\* Who loses its party with c: the last one of a party that is dissolved.
LoseKeepsLast(c, rest) == {c}                         \* mutant of Lose
Lose(c, rest) == IF Survives(rest) THEN {c} ELSE {c} \cup Range(rest)

\* Whoever is first then becomes a master; RemovePlayer has made the one that
\* left a master before its IsMaster is asked for.
PromotedNobody(rest) ==                               \* mutant of Promoted
  IF Survives(rest) THEN {} ELSE Range(rest)
Promoted(rest) == IF Survives(rest) THEN {rest[1]} ELSE Range(rest)

\* c leaves its party.
Removal(c) ==
  LET r    == party[c]
      rest == Without(members[r], c)
  IN
  /\ r # NoParty
  /\ party' = [d \in Characters |-> IF d \in Lose(c, rest) THEN NoParty ELSE party[d]]
  /\ isMaster' = [d \in Characters |-> d \in {c} \cup Promoted(rest) \/ isMaster[d]]
  /\ \/ /\ Survives(rest)
        /\ members' = [members EXCEPT ![r] = rest]
        /\ UNCHANGED <<alive, idVars>>
     \/ /\ ~Survives(rest)
        /\ members' = [members EXCEPT ![r] = <<>>]
        /\ alive' = alive \ {r}
        /\ RemoveParty(r)
  /\ UNCHANGED <<level, botParties>>

Leave(p) == Removal(p)

Kick(p, c) ==
  /\ isMaster[p] /\ p # c
  /\ party[c] # NoParty /\ party[c] = party[p]
  /\ Removal(c)

OnClientDisconnect(p) == Removal(p)

\* A bot is taken off by a game master or because no player is near; its party
\* is left as it is, with one member or none.
RemoveBot(b) ==
  /\ party[b] # NoParty
  /\ members' = [members EXCEPT ![party[b]] = Without(@, b)]
  /\ party' = [party EXCEPT ![b] = NoParty]
  /\ isMaster' = [isMaster EXCEPT ![b] = TRUE]
  /\ UNCHANGED <<alive, level, botParties, idVars>>

\* The client picks the new leader from its list, which may be out of date: q
\* may have left, or be in another party, by the time the packet is read.
GiveLeader(p, q) ==
  /\ party[p] # NoParty
  /\ isMaster[p] /\ p # q
  /\ isMaster' = [isMaster EXCEPT ![q] = TRUE, ![p] = FALSE]
  /\ UNCHANGED <<party, members, alive, level, botParties, idVars>>

Next ==
  \/ \E p \in Users, q \in Characters : Accept(p, q)
  \/ \E p, q \in Users : GiveLeader(p, q)
  \/ \E p \in Users : Leave(p) \/ OnClientDisconnect(p)
  \/ \E p \in Users, c \in Characters : Kick(p, c)
  \/ \E b \in Bots, c \in Characters : CheckPartyInvitations(b, c)
  \/ \E b \in Bots : RemoveBot(b)
  \/ \E r \in Parties : LevelUp(r)

Spec == Init /\ [][Next]_vars

-----------------------------------------------------------------------------
(* Properties *)

TypeOK ==
  /\ party \in [Characters -> Parties \cup {NoParty}]
  /\ isMaster \in [Characters -> BOOLEAN]
  /\ members \in [Parties -> Seq(Characters)]
  /\ alive \subseteq Parties /\ listed \subseteq alive
  /\ level \in [Parties -> 1..Levels]
  /\ partyId \in [Parties -> 0..LastIndex + 1]
  /\ usedIds \subseteq 1..MaxId /\ strayMarks \subseteq 1..MaxId
  /\ lastPid \in 1..LastIndex + 2
  /\ botParties \subseteq Parties

\* Members and the characters' pointers say the same: everyone is in Members
\* of its party once and nowhere else, and no pointer leads to a deleted one.
MembersAgree ==
  /\ \A c \in Characters : party[c] # NoParty => party[c] \in alive
  /\ \A r \in Parties : Range(members[r]) = {c \in Characters : party[c] = r}
  /\ \A r \in Parties : IsInjective(members[r])

\* The parties on PartyList, and with them the keys of party dungeons, have
\* ids of their own, as far as these lie within PartyIDList, and beside the marks
\* it had at the start the table marks these ids and no others.  An id beyond
\* it, which last_pid reaches once the table was gone through, may be given
\* twice: of these nothing is claimed.
TableIds == {partyId[r] : r \in listed} \cap 1..MaxId
IdsAgree ==
  /\ \A r, s \in listed : r # s /\ partyId[r] = partyId[s] => partyId[r] \notin 1..MaxId
  /\ usedIds = strayMarks \cup TableIds /\ strayMarks \cap TableIds = {}

\* A party of players has two members at least: whoever is left alone, by
\* whatever leaves, kicks and lost connections, has no party.
NobodyAlone == \A r \in listed \ botParties : Len(members[r]) >= 2

\* No mixture of accepted invitations and bots' own ones overfills a party; one
\* founded with a bot is filled up to the bots' cap.
RoomKept ==
  \A r \in alive :
    \/ Len(members[r]) <= Capacity[level[r]]
    \/ r \in botParties /\ Len(members[r]) <= BotCap

\* The sizes of the parties, low and high.
SizesRight == NobodyAlone /\ RoomKept

\* A character without a party is its own master, as a founder has to be.
FreeIsMaster == \A c \in Characters : party[c] = NoParty => isMaster[c]

\* Whoever leaves a party of players, the rest has someone to lead it.
LeavingLeavesLeader ==
  [][\A r \in listed \ botParties : r \in listed' /\ Len(members'[r]) < Len(members[r]) =>
       \E c \in Characters : party'[c] = r /\ isMaster'[c]]_vars
=============================================================================
