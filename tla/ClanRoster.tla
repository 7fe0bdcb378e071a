----------------------------- MODULE ClanRoster ------------------------------
(***************************************************************************)
(* Who belongs to which clan, with which rank.  Four places say so: the    *)
(* row of table characters; the char server's entry of a connected client  *)
(* (CCharClient::clanid and clan_rank) and its list of each clan's members *)
(* (CClans::ClanMembers); and the player on the world server               *)
(* (CPlayer::Clan).  The char server handles the clan window's requests,   *)
(* writes the row and tells the world server with a packet; the world      *)
(* server founds clans, and writes the row again, from its own copy, at    *)
(* every savedata.                                                         *)
(*                                                                         *)
(* Each server handles one packet at a time; between them packets take     *)
(* time.  The char server trusts the client: it asks neither for an        *)
(* invitation nor, but for leaving and disbanding, for the sender's rank,  *)
(* nor whether the character named is of the sender's clan.  Statements do *)
(* not fail here.                                                          *)
(***************************************************************************)
EXTENDS Naturals, Sequences, SequencesExt, FiniteSets

CONSTANTS
  Chars,       \* characters
  MaxClan,     \* bound: clans are numbered 1..MaxClan by AUTO_INCREMENT
  TopRank,     \* the rank 0x04 stops at, that of a deputy (5 in the code)
  Master,      \* the rank of a clan's master (6)
  ExMaster,    \* the rank of a master that gave its clan away (4)
  MaxPackets,  \* bound: packets in flight each way
  MaxCrashes   \* bound: how often a server stops

ASSUME ClanAssumption ==
  /\ IsFiniteSet(Chars)
  /\ MaxClan \in Nat /\ MaxPackets \in Nat /\ MaxCrashes \in Nat
  /\ TopRank \in Nat \ {0} /\ Master \in Nat /\ ExMaster \in Nat
  /\ TopRank < Master /\ ExMaster < TopRank

VARIABLES
  row,       \* clanid and clan_rank in table characters
  inTable,   \* the clans in list_clan
  founded,   \* clans founded so far
  online,    \* characters with an entry in the char server's ClientList
  entry,     \* clanid and clan_rank of these entries
  listed,    \* the clans in the char server's ClanList
  members,   \* ClanMembers
  linked,    \* the char server's ChannelList has the world server
  inWorld,   \* characters with a player on the world server
  player,    \* Clan->clanid and Clan->clanrank of these
  toWorld,   \* packets from the char to the world server
  toChar,    \* packets from the world to the char server
  crashes,   \* crashes so far
  decided,   \* history: the clan each character was last put in, and whether
             \*   as its master
  missed,    \* history: decided upon, and the world server did not hear of it,
             \*   or hears of something older later
  usurped,   \* history: clans a master was named for by somebody else
  drifted    \* history: something was done on the strength of a copy that did
             \*   not say what was decided (see below)

(***************************************************************************)
(* drifted becomes true                                                    *)
(*   - when a row is read that does not say what was decided;              *)
(*   - when a player founds a clan that is decided to be in one, or whose  *)
(*     news the char server does not get;                                  *)
(*   - when that news arrives and the founder has no entry, or does not    *)
(*     lead the clan any more;                                             *)
(*   - when somebody joins who is in a clan, or joins one without a list;  *)
(*   - when somebody is kicked out of another clan than the sender's.      *)
(***************************************************************************)
history   == <<decided, missed, usurped, drifted>>
table     == <<row, inTable, founded>>
charSide  == <<online, entry, listed, members, linked>>
worldSide == <<inWorld, player>>
vars == <<table, charSide, worldSide, toWorld, toChar, crashes, history>>

Clans   == 1..MaxClan
NoClan  == 0
Place(k, r) == [clan |-> k, rank |-> r]
Places  == [clan : Clans \cup {NoClan}, rank : 0..Master]
Outside == Place(NoClan, 1)
Unset   == Place(NoClan, 0)

\* To the world server: what becomes of a character.
Notices == [who : Chars, to : Places, kind : {"joined", "out", "rank"}]
\* To the char server: a new clan and its founder.
News == [who : Chars, clan : Clans]

\* What a place says about belonging: the clan, and who leads it.
Says(p) == [clan |-> p.clan, leads |-> p.clan # NoClan /\ p.rank = Master]
Decided(x, p)   == [decided EXCEPT ![x] = Says(p)]
RowsSay(r, xs, d) == \A x \in xs : Says(r[x]) = d[x]

\* The rows r of the characters xs are read when d has been decided.
RowsRead(r, xs, d) == drifted' = (drifted \/ ~RowsSay(r, xs, d))

\* SELECT ... FROM characters WHERE clanid=k ORDER BY clan_rank, of rows r.
InClan(k, r) == {x \in Chars : r[x].clan = k}
ByRank(rows, r) == \A i, j \in DOMAIN rows : i < j => r[rows[i]].rank <= r[rows[j]].rank
RowsOf(k, r) == CHOOSE rows \in SetToSeqs(InClan(k, r)) : ByRank(rows, r)

\* A packet about x is on its way: to the world server, or the news of its clan.
About(x, q) == \E i \in DOMAIN q : q[i].who = x
Notified(x) == About(x, toWorld)
Founding(x) == About(x, toChar)
\* What the world server has of x may be out of date.
Exposed(x) == x \in inWorld \/ Notified(x)

Init ==
  /\ row = [x \in Chars |-> Unset]
  /\ inTable = {} /\ founded = 0 /\ listed = {}
  /\ online = {} /\ inWorld = {}
  /\ entry = [x \in Chars |-> Unset]
  /\ player = [x \in Chars |-> Unset]
  /\ members = [k \in Clans |-> <<>>]
  /\ linked = TRUE /\ toWorld = <<>> /\ toChar = <<>> /\ crashes = 0
  /\ decided = [x \in Chars |-> Says(Outside)]
  /\ missed = {} /\ usurped = {} /\ drifted = FALSE
-----------------------------------------------------------------------------
(* Coming and going *)

\* pakRequestWorld: the entry is read from the row, again at each selection.
pakRequestWorld(x) ==
  /\ online' = online \cup {x}
  /\ entry' = [entry EXCEPT ![x] = row[x]]
  /\ RowsRead(row, {x}, decided)
  /\ UNCHANGED <<table, listed, members, linked, worldSide, toWorld, toChar, crashes,
                 decided, missed, usurped>>

\* loaddata: so is the player, who has no clan if list_clan lacks it.
loaddata(x) ==
  /\ x \notin inWorld
  /\ inWorld' = inWorld \cup {x}
  /\ player' = [player EXCEPT ![x] =
       IF row[x].clan \in inTable THEN row[x] ELSE Place(NoClan, row[x].rank)]
  /\ RowsRead(row, {x}, decided)
  /\ UNCHANGED <<table, charSide, toWorld, toChar, crashes, decided, missed, usurped>>

\* The autosave, and the save of a player that leaves the world.
savedata(x) ==
  /\ x \in inWorld
  /\ row' = [row EXCEPT ![x] = player[x]]
  /\ UNCHANGED <<inTable, founded, charSide, worldSide, toWorld, toChar, crashes, history>>

\* History: whom of xs the world server can still have something old about,
\* with the players there and the packets q on their way.
StillExposed(xs, there, q) == {x \in xs : x \in there \/ About(x, q)}

LeaveWorld(x) ==
  /\ x \in inWorld
  /\ row' = [row EXCEPT ![x] = player[x]]
  /\ inWorld' = inWorld \ {x}
  /\ player' = [player EXCEPT ![x] = Unset]
  /\ missed' = StillExposed(missed, inWorld \ {x}, toWorld)
  /\ UNCHANGED <<inTable, founded, charSide, toWorld, toChar, crashes,
                 decided, usurped, drifted>>

OnClientDisconnect(x) ==
  /\ x \in online
  /\ online' = online \ {x}
  /\ entry' = [entry EXCEPT ![x] = Unset]
  /\ UNCHANGED <<table, listed, members, linked, worldSide, toWorld, toChar, crashes, history>>

-----------------------------------------------------------------------------
(* Founding, joining, leaving *)

\* pakCreateClan on the world server.
pakCreateClan(x) ==
  LET k == founded + 1 IN
  /\ x \in inWorld
  /\ player[x].clan = NoClan
  /\ founded < MaxClan
  /\ Len(toChar) < MaxPackets
  /\ founded' = k
  /\ inTable' = inTable \cup {k}
  /\ player' = [player EXCEPT ![x] = Place(k, Master)]
  /\ row' = [row EXCEPT ![x] = Place(k, Master)]
  /\ toChar' = IF linked THEN Append(toChar, [who |-> x, clan |-> k]) ELSE toChar
  /\ decided' = Decided(x, Place(k, Master))
  /\ missed' = IF Notified(x) THEN missed \cup {x} ELSE missed
  /\ drifted' = (drifted \/ decided[x].clan # NoClan \/ ~linked)
  /\ UNCHANGED <<charSide, inWorld, toWorld, crashes, usurped>>

\* 0xfa on the char server; nothing is done for a founder that is gone.
NewClan ==
  /\ toChar # <<>>
  /\ toChar' = Tail(toChar)
  /\ LET x == Head(toChar).who
         k == Head(toChar).clan
     IN /\ IF x \in online /\ k \in inTable
           THEN /\ listed' = listed \cup {k}
                /\ members' = [members EXCEPT ![k] = <<x>>]
                /\ entry' = [entry EXCEPT ![x] = Place(k, Master)]
           ELSE UNCHANGED <<listed, members, entry>>
        /\ drifted' = (drifted \/ x \notin online \/ decided[x] # Says(Place(k, Master)))
  /\ UNCHANGED <<table, online, linked, worldSide, toWorld, crashes, decided, missed, usurped>>

\* Mutant of Told: the world server is not told.
ToldNobody(x, place, kind) == <<>>

\* To a character's world server, known from its entry alone.
Told(x, place, kind) ==
  IF x \in online /\ linked THEN <<[who |-> x, to |-> place, kind |-> kind]>> ELSE <<>>

\* History: the characters of xs decided upon behind the world server's back.
Untold(xs) == {x \in xs : Exposed(x) /\ ~(x \in online /\ linked)}

SendAll(told) == /\ toWorld' = toWorld \o told
                 /\ Len(toWorld') <= MaxPackets

\* Mutant of Accept: the new member is not added to the list.
AcceptUnlisted(a, x) ==
  LET k == entry[a].clan IN
  /\ a \in online /\ x \in online
  /\ entry' = [entry EXCEPT ![x] = Place(k, 1)]
  /\ row' = [row EXCEPT ![x].clan = IF k # NoClan /\ row[x].rank = 1 THEN 1 ELSE NoClan]
  /\ decided' = Decided(x, Place(k, 1))
  /\ IF k \in listed
     THEN /\ SendAll(Told(x, Place(k, 1), "joined"))
          /\ missed' = missed \cup Untold({x})
     ELSE UNCHANGED <<toWorld, missed>>
  /\ drifted' = (drifted \/ decided[x].clan # NoClan \/ k \notin listed \cup {NoClan})
  /\ UNCHANGED <<inTable, founded, online, listed, members, linked, worldSide, toChar,
                 crashes, usurped>>

\* 0x0c, with the asker's name: the clan joined is the one it has by now, if
\* any.  The statement is "SET clanid=k AND clan_rank=1": a truth value, and
\* the rank stays.  A clan without a list is joined, and nobody told.
Accept(a, x) ==
  LET k == entry[a].clan IN
  /\ a \in online /\ x \in online
  /\ entry' = [entry EXCEPT ![x] = Place(k, 1)]
  /\ row' = [row EXCEPT ![x].clan = IF k # NoClan /\ row[x].rank = 1 THEN 1 ELSE NoClan]
  /\ decided' = Decided(x, Place(k, 1))
  /\ IF k \in listed
     THEN /\ members' = [members EXCEPT ![k] = Append(@, x)]
          /\ SendAll(Told(x, Place(k, 1), "joined"))
          /\ missed' = missed \cup Untold({x})
     ELSE UNCHANGED <<members, toWorld, missed>>
  /\ drifted' = (drifted \/ decided[x].clan # NoClan \/ k \notin listed \cup {NoClan})
  /\ UNCHANGED <<inTable, founded, online, listed, linked, worldSide, toChar, crashes, usurped>>

\* 0x07: the row's rank stays here as well.
LeaveClan(x) ==
  LET k == entry[x].clan IN
  /\ x \in online
  /\ k \in listed /\ entry[x].rank # Master
  /\ members' = [members EXCEPT ![k] = RemoveFirst(@, x)]
  /\ entry' = [entry EXCEPT ![x] = Outside]
  /\ row' = [row EXCEPT ![x].clan = NoClan]
  /\ SendAll(Told(x, Outside, "out"))
  /\ decided' = Decided(x, Outside)
  /\ missed' = missed \cup Untold({x})
  /\ UNCHANGED <<inTable, founded, online, listed, linked, worldSide, toChar, crashes,
                 usurped, drifted>>

\* Mutant of Kick: the entry keeps the clan.
KickEntryKept(a, x) ==
  LET k == entry[a].clan IN
  /\ a \in online /\ k \in listed
  /\ members' = [members EXCEPT ![k] = RemoveFirst(@, x)]
  /\ SendAll(Told(x, Outside, "out"))
  /\ row' = [row EXCEPT ![x] = Outside]
  /\ decided' = Decided(x, Outside)
  /\ missed' = missed \cup Untold({x})
  /\ drifted' = (drifted \/ decided[x].clan \notin {NoClan, k})
  /\ UNCHANGED <<inTable, founded, online, entry, listed, linked, worldSide, toChar, crashes,
                 usurped>>

\* 0x03, with any name: taken out of the sender's list, and out of any clan.
Kick(a, x) ==
  LET k == entry[a].clan IN
  /\ a \in online /\ k \in listed
  /\ members' = [members EXCEPT ![k] = RemoveFirst(@, x)]
  /\ entry' = IF x \in online THEN [entry EXCEPT ![x] = Outside] ELSE entry
  /\ SendAll(Told(x, Outside, "out"))
  /\ row' = [row EXCEPT ![x] = Outside]
  /\ decided' = Decided(x, Outside)
  /\ missed' = missed \cup Untold({x})
  /\ drifted' = (drifted \/ decided[x].clan \notin {NoClan, k})
  /\ UNCHANGED <<inTable, founded, online, listed, linked, worldSide, toChar, crashes, usurped>>

\* 0x0a: "Can't be deleted if there are members".  The packet about it is not
\* encrypted as all others are, so the world server, which decrypts it, takes
\* it for a command it does not know: nobody is told.
Disband(x) ==
  LET k == entry[x].clan IN
  /\ x \in online
  /\ entry[x].rank = Master /\ k \in listed
  /\ Len(members[k]) <= 1
  /\ row' = [y \in Chars |-> IF row[y].clan = k THEN Place(NoClan, row[y].rank) ELSE row[y]]
  /\ inTable' = inTable \ {k}
  /\ listed' = listed \ {k}
  /\ members' = [members EXCEPT ![k] = <<>>]
  /\ entry' = [entry EXCEPT ![x] = Outside]
  /\ decided' = Decided(x, Outside)
  /\ missed' = missed \cup {y \in {x} : Exposed(y)}
  /\ UNCHANGED <<founded, online, linked, worldSide, toWorld, toChar, crashes, usurped, drifted>>

-----------------------------------------------------------------------------
(* Stops *)

\* The char server stops and starts again: it reads the rows r, all that was
\* sent, q, may be lost from some packet on, and the world server, which
\* connects only when it starts itself, is not in the new ChannelList.
Restarted(r, q, d, m) ==
  /\ crashes < MaxCrashes
  /\ crashes' = crashes + 1
  /\ online' = {}
  /\ entry' = [x \in Chars |-> Unset]
  /\ listed' = inTable
  /\ members' = [k \in Clans |-> IF k \in inTable THEN RowsOf(k, r) ELSE <<>>]
  /\ linked' = FALSE
  /\ toChar' = <<>>
  /\ \E n \in 0..Len(q) :
       /\ toWorld' = SubSeq(q, 1, n)
       /\ missed' = StillExposed(m \cup {q[i].who : i \in n+1..Len(q)}, inWorld, SubSeq(q, 1, n))
  /\ RowsRead(r, Chars, d)

Crash ==
  /\ Restarted(row, toWorld, decided, missed)
  /\ UNCHANGED <<table, worldSide, decided, usurped>>

\* The world server stops and starts again, without a savedata.
WorldRestart ==
  /\ crashes < MaxCrashes
  /\ crashes' = crashes + 1
  /\ inWorld' = {}
  /\ player' = [x \in Chars |-> Unset]
  /\ toWorld' = <<>>
  /\ missed' = {}
  /\ linked' = TRUE
  /\ UNCHANGED <<table, online, entry, listed, members, toChar, decided, usurped, drifted>>

-----------------------------------------------------------------------------
(* Ranks *)

\* Mutant of Refreshed: the rows are added to the list.
RefreshedAdded(k, r) ==
  members[k] \o RowsOf(k, r)

\* After a change of rank the first members are replaced by the rows, one for
\* one.
Refreshed(k, r) ==
  LET rows == RowsOf(k, r) IN rows \o SubSeq(members[k], Len(rows) + 1, Len(members[k]))

\* With more rows than members .at(i) throws, and the server is gone.
Overrun(k, r) == Cardinality(InClan(k, r)) > Len(members[k])

\* The end of a change of rank: the rows of clan k, the sender's, are read
\* when the row is written and the packets are sent.  Without a clan the
\* sender has the server read through a null pointer.
Ranked(k, e, r, d, told, m, read) ==
  /\ row' = r
  /\ decided' = d
  /\ IF k \in listed /\ ~Overrun(k, r)
     THEN /\ members' = [members EXCEPT ![k] = Refreshed(k, r)]
          /\ entry' = e
          /\ SendAll(told)
          /\ missed' = m
          /\ RowsRead(r, read \cup {y \in Chars : k \in {r[y].clan, d[y].clan}}, d)
          /\ UNCHANGED <<online, listed, linked, toChar, crashes>>
     ELSE /\ Len(toWorld \o told) <= MaxPackets
          /\ Restarted(r, toWorld \o told, d, m)
  /\ UNCHANGED <<inTable, founded, worldSide>>

\* 0x04 and 0x05: the entry's rank is changed and a copy of it is written; of
\* a character without an entry, the row's.
Promote(a, x) ==
  LET old == IF x \in online THEN entry[x].rank ELSE row[x].rank
      new == IF old < TopRank THEN old + 1 ELSE old
  IN
  /\ a \in online /\ a # x
  /\ x \in online => old < TopRank
  /\ Ranked(entry[a].clan,
            IF x \in online THEN [entry EXCEPT ![x].rank = old + 1] ELSE entry,
            [row EXCEPT ![x].rank = new],
            IF RowsSay(row, {x} \ online, decided)
            THEN Decided(x, Place(decided[x].clan, new)) ELSE decided,
            Told(x, Place(NoClan, new), "rank"), missed \cup Untold({x}), {x} \ online)
  /\ UNCHANGED usurped

Demote(a, x) ==
  LET old == IF x \in online THEN entry[x].rank ELSE row[x].rank
      new == IF old > 1 THEN old - 1 ELSE old
  IN
  /\ a \in online /\ a # x
  /\ x \in online => old > 0
  /\ Ranked(entry[a].clan,
            IF x \in online THEN [entry EXCEPT ![x].rank = old - 1] ELSE entry,
            [row EXCEPT ![x].rank = new],
            IF RowsSay(row, {x} \ online, decided)
            THEN Decided(x, Place(decided[x].clan, new)) ELSE decided,
            Told(x, Place(NoClan, new), "rank"), missed \cup Untold({x}), {x} \ online)
  /\ UNCHANGED usurped

\* History: a names x master of a clan that a does not lead.
Usurps(a, x) ==
  decided[x].clan # NoClan /\ decided[a] # [clan |-> decided[x].clan, leads |-> TRUE]

\* Mutant of GiveMaster: the old master keeps its rank.
GiveMasterKept(a, x) ==
  /\ a \in online /\ a # x
  /\ Ranked(entry[a].clan,
            IF x \in online THEN [entry EXCEPT ![x].rank = Master] ELSE entry,
            [row EXCEPT ![x].rank = Master],
            Decided(x, Place(decided[x].clan, Master)),
            Told(x, Place(NoClan, Master), "rank"), missed \cup Untold({x}), {})
  /\ usurped' = IF Usurps(a, x) THEN usurped \cup {decided[x].clan} ELSE usurped

\* 0x09: the sender need not be a master, nor of the new master's clan.
GiveMaster(a, x) ==
  /\ a \in online /\ a # x
  /\ Ranked(entry[a].clan,
            [y \in Chars |-> CASE y = a -> Place(entry[a].clan, ExMaster)
                              [] y = x /\ x \in online -> Place(entry[x].clan, Master)
                              [] OTHER -> entry[y]],
            [row EXCEPT ![x].rank = Master, ![a].rank = ExMaster],
            [decided EXCEPT ![x] = Says(Place(@.clan, Master)), ![a].leads = FALSE],
            Told(x, Place(NoClan, Master), "rank") \o Told(a, Place(NoClan, ExMaster), "rank"),
            missed \cup Untold({a, x}), {})
  /\ usurped' = IF Usurps(a, x) THEN usurped \cup {decided[x].clan} ELSE usurped

-----------------------------------------------------------------------------
(* pakClanManager on the world server: a player that is not there is passed *)
(* over, and a new member as well if its clan is gone.                      *)
Notice ==
  /\ toWorld # <<>>
  /\ toWorld' = Tail(toWorld)
  /\ LET n == Head(toWorld)
         x == n.who
     IN player' = IF x \notin inWorld \/ (n.kind = "joined" /\ n.to.clan \notin inTable)
                  THEN player
                  ELSE [player EXCEPT ![x] = IF n.kind = "rank" THEN Place(@.clan, n.to.rank) ELSE n.to]
  /\ missed' = StillExposed(missed, inWorld, Tail(toWorld))
  /\ UNCHANGED <<table, charSide, inWorld, toChar, crashes, decided, usurped, drifted>>

CharSteps ==
  \/ \E x \in Chars : pakRequestWorld(x) \/ OnClientDisconnect(x) \/ LeaveClan(x) \/ Disband(x)
  \/ \E a, x \in Chars :
       Accept(a, x) \/ Kick(a, x) \/ GiveMaster(a, x) \/ Promote(a, x) \/ Demote(a, x)
  \/ NewClan

WorldSteps ==
  \/ \E x \in Chars : loaddata(x) \/ savedata(x) \/ LeaveWorld(x) \/ pakCreateClan(x)
  \/ Notice

Next == CharSteps \/ WorldSteps \/ Crash \/ WorldRestart

Spec == Init /\ [][Next]_vars
-----------------------------------------------------------------------------
(***************************************************************************)
(* Properties.  Until something is done on the strength of a copy that is  *)
(* out of date, all that is kept about clans is what was decided.          *)
(***************************************************************************)

TypeOK ==
  /\ row \in [Chars -> Places] /\ inTable \in SUBSET Clans /\ founded \in 0..MaxClan
  /\ online \in SUBSET Chars /\ entry \in [Chars -> Places]
  /\ listed \in SUBSET Clans /\ members \in [Clans -> Seq(Chars)] /\ linked \in BOOLEAN
  /\ inWorld \in SUBSET Chars /\ player \in [Chars -> Places]
  /\ toWorld \in Seq(Notices) /\ toChar \in Seq(News) /\ crashes \in 0..MaxCrashes
  /\ decided \in [Chars -> [clan : Clans \cup {NoClan}, leads : BOOLEAN]]
  /\ missed \in SUBSET Chars /\ usurped \in SUBSET Clans
  /\ drifted \in BOOLEAN

\* The char server's entry of a character says what was decided last, unless
\* the news of the clan it founded is still on its way.
EntriesRight == drifted \/ \A x \in online : Says(entry[x]) = decided[x] \/ Founding(x)

\* A clan's list holds its members, each of them once, through every joining,
\* leaving, overwriting after a change of rank and restart.
ListsRight ==
  drifted \/ \A k \in listed :
    /\ ToSet(members[k]) = {x \in Chars : decided[x].clan = k}
    /\ Len(members[k]) = Cardinality(ToSet(members[k]))

\* No clan has two masters, but one that was given a master by somebody who
\* does not lead it: 0x09 tests neither the sender's rank nor its clan.
OneMaster ==
  drifted \/ \A x, y \in online :
    /\ Says(entry[x]).leads /\ Says(entry[y]).leads
    /\ entry[x].clan = entry[y].clan /\ entry[x].clan \notin usurped
    => x = y

\* Once the packets about it have arrived, the player on the world server has
\* what was decided, unless the world server was not told: the char server
\* decided while the client's other connection was gone or after a restart of
\* its own, or the clan was disbanded, which no world server understands.
\* Then the player's next savedata writes the old clan back.
PlayerFollows ==
  drifted \/ \A x \in inWorld \ missed : Says(player[x]) = decided[x] \/ Notified(x)

\* A change of rank finds more rows than members, and ends the char server,
\* only when the row of somebody who is not in the clan names it: whose player
\* was not told that it is out and has saved the old clan, say, or who has
\* just joined another, where the statement makes the row name clan 1.
NoOverrun ==
  drifted \/ \A k \in listed :
    Overrun(k, row) => \E x \in Chars : row[x].clan = k /\ decided[x].clan # k
=============================================================================
