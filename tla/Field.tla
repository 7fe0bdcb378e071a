-------------------------------- MODULE Field --------------------------------
(***************************************************************************)
(* One map of the world server and what lies on it: the things that        *)
(* monsters and players drop, who picks them up and when they vanish, and  *)
(* the client ids of all that can be seen.                                 *)
(*                                                                         *)
(* Three threads work on the map.  The socket thread handles the players'  *)
(* packets under PlayerMutex, the map thread (with the bots, MapProcess    *)
(* and VisibilityProcess) holds PlayerMutex and MapMutex, and the world    *)
(* thread holds MapMutex, and each map's DropMutex while it cleans the     *)
(* drops.  The map thread excludes both others, so a round of it is made   *)
(* of whole steps; the handlers of the socket thread and the rounds of the *)
(* world thread overlap, and are split where they read and where they      *)
(* write what both use.                                                    *)
(***************************************************************************)
EXTENDS ClientIds, Sequences, SequencesExt

CONSTANTS
  Players,   \* players
  Bot,       \* a bot
  Things,    \* items
  BagSize,   \* slots of an inventory
  NoOne      \* the owner of a drop for all

ASSUME FieldAssumption ==
  /\ IsFiniteSet(Players)
  /\ Bot \notin Players /\ NoOne \notin Players
  /\ Things # {} /\ BagSize \in Nat

VARIABLES
  present, \* players on the map (PlayerList), who may be loading it
  inGame,  \* players that have an id and have loaded the map
  cid,     \* clientid of each player and of the bot
  mob,     \* the monster of the map's spawn: its clientid, if it lives
  drops,   \* CMap::DropsList
  bag,     \* what players and the bot carry
  mutex,   \* the thread that holds PlayerMutex and MapMutex
  sock,    \* where the socket thread is
  world,   \* where the world thread is
  mixed,   \* history: an id was found by two searches at once, or cleared
           \*   for one user while another may have it
  leaked   \* history: ids that were given and then forgotten

people  == <<present, inGame, cid>>
history == <<mixed, leaked>>
vars == <<given, people, mob, drops, bag, mutex, sock, world, history>>

Holders == Players \cup {Bot}
Drop(t, i, o) == [thing |-> t, cid |-> i, owner |-> o, age |-> "new"]
DropRecords == [thing : Things, cid : Ids \cup {NoId}, owner : Players \cup {NoOne},
                age : {"new", "open", "old"}]
\* Age: "open" after 30 s, when all may pick it up, "old" after 50 s.

Mobs  == [alive : BOOLEAN, cid : Ids \cup {NoId}]
Idle  == [at |-> "idle"]
Jobs  == {"enter", "first", "second"}  \* what the socket thread wants an id for

Lying   == {drops[k].thing : k \in DOMAIN drops}
Carried == UNION {bag[h] : h \in Holders}
InList(d) == \E k \in DOMAIN drops : drops[k].thing = d.thing
IndexOf(d) == CHOOSE k \in DOMAIN drops : drops[k].thing = d.thing

\* How many have id i: players in the game, the bot, the monster, drops.
Users(i) ==
  Cardinality({h \in inGame \cup {Bot} : cid[h] = i})
    + Cardinality({k \in DOMAIN drops : drops[k].cid = i})
    + (IF mob.alive /\ mob.cid = i THEN 1 ELSE 0)

\* The history of a step that mixes up some ids, or forgets some.
Marks(confused, forgotten) ==
  /\ mixed' = (mixed \/ confused \cap Ids # {})
  /\ leaked' = (leaked \cup forgotten) \cap given'
NoMarks == Marks({}, {})

Room(h) == Cardinality(bag[h]) < BagSize

\* What the socket thread may be doing, and the world thread.
SockStates ==
  {Idle}
    \cup [at : {"write"}, job : Jobs, p : Players, thing : Things, cid : Ids \cup {NoId}]
    \cup [at : {"leave"}, p : Players]
    \cup [at : {"take"}, p : Players, drop : DropRecords]
    \cup [at : {"delete"}, drop : DropRecords]
WorldStates ==
  {Idle} \cup [at : {"clean"}, j : Nat \ {0}, due : BOOLEAN]
    \cup [at : {"write"}, cid : Ids \cup {NoId}]

SomeThing == CHOOSE t \in Things : TRUE  \* where a job has no thing

\* The server has just started: the map has its monster, and a bot.
Init ==
  /\ \E i, j \in Ids :
       /\ i # j /\ given = {i, j}
       /\ mob = [alive |-> TRUE, cid |-> i]
       /\ cid = [h \in Holders |-> IF h = Bot THEN j ELSE NoId]
  /\ present = {} /\ inGame = {}
  /\ drops = <<>> /\ bag = [h \in Holders |-> {}]
  /\ mutex = [Player |-> "free", Map |-> "free"]
  /\ sock = Idle /\ world = Idle
  /\ mixed = FALSE /\ leaked = {}
-----------------------------------------------------------------------------
(* Mutexes *)

Free(m) == mutex[m] = "free"

\* Mutant of Quiet: the bots' thread does without PlayerMutex.
MapMutexOnly == Free("Map")

\* The map thread may have its round.
Quiet == Free("Player") /\ Free("Map")

\* The socket thread begins to handle a packet of p.
Handles(p) == sock = Idle /\ Free("Player") /\ p \in present
Begins(s)  == sock' = s /\ mutex' = [mutex EXCEPT !.Player = "socket"]
\* It is done, and unlocks what it holds.
Ends == sock' = Idle /\ mutex' = [m \in DOMAIN mutex |-> IF mutex[m] = "socket" THEN "free" ELSE mutex[m]]

\* GetNewClientID, first half, in the socket thread.  MapMutex is another
\* thread's, or taken now.
Seek(job, p, t, i) ==
  /\ sock' = [at |-> "write", job |-> job, p |-> p, thing |-> t, cid |-> i]
  /\ mutex' = [m \in DOMAIN mutex |-> IF Free(m) THEN "socket" ELSE mutex[m]]
-----------------------------------------------------------------------------
(* The socket thread *)

\* SetPlayer: a player comes in, without an id yet.
pakDoIdentify(p) ==
  /\ sock = Idle /\ Free("Player") /\ p \notin present
  /\ present' = present \cup {p}
  /\ UNCHANGED <<given, inGame, cid, mob, drops, bag, mutex, sock, world, history>>

\* The client has loaded the map.
pakDoID(p) ==
  /\ Handles(p) /\ p \notin inGame
  /\ \E i \in Findable(given) : Seek("enter", p, SomeThing, i)
  /\ UNCHANGED <<given, people, mob, drops, bag, world, history>>

\* An item that is dropped takes an id twice.
pakDoDrop(p, t) ==
  /\ Handles(p) /\ p \in inGame /\ t \in bag[p]
  /\ \E i \in Findable(given) : Seek("first", p, t, i)
  /\ UNCHANGED <<given, people, mob, drops, bag, world, history>>

Entered ==
  /\ sock.at = "write" /\ sock.job = "enter"
  /\ given' = Gives(sock.cid)
  /\ cid' = [cid EXCEPT ![sock.p] = sock.cid]
  /\ \/ sock.cid # NoId /\ inGame' = inGame \cup {sock.p} /\ Ends
     \/ /\ sock.cid = NoId /\ sock' = [at |-> "leave", p |-> sock.p]
        /\ mutex' = [mutex EXCEPT !.Map = IF @ = "socket" THEN "free" ELSE @] /\ UNCHANGED inGame
  /\ UNCHANGED <<present, mob, drops, bag, world>>
  /\ Marks(Twice(sock.cid), {})

FirstId ==
  /\ sock.at = "write" /\ sock.job = "first"
  /\ given' = Gives(sock.cid)
  /\ \E i \in Findable(Gives(sock.cid)) : Seek("second", sock.p, sock.thing, i)
  /\ UNCHANGED <<people, mob, drops, bag, world>>
  /\ Marks(Twice(sock.cid), {sock.cid})

\* Mutant of AddDrop: the slot of a dropped item is not emptied.
DropKept ==
  /\ sock.at = "write" /\ sock.job = "second"
  /\ given' = Gives(sock.cid)
  /\ drops' = Append(drops, Drop(sock.thing, sock.cid, NoOne))
  /\ Ends
  /\ UNCHANGED <<people, mob, bag, world>>
  /\ Marks(Twice(sock.cid), {})

AddDrop ==
  /\ sock.at = "write" /\ sock.job = "second"
  /\ given' = Gives(sock.cid)
  /\ drops' = Append(drops, Drop(sock.thing, sock.cid, NoOne))
  /\ bag' = [bag EXCEPT ![sock.p] = @ \ {sock.thing}]
  /\ Ends
  /\ UNCHANGED <<people, mob, world>>
  /\ Marks(Twice(sock.cid), {})

\* Mutant of TeleportPlayer: a player that teleports goes on playing with the id it had.
TeleportInGame(p) ==
  /\ Handles(p) /\ p \in inGame
  /\ given' = Clears(cid[p])
  /\ UNCHANGED <<people, mob, drops, bag, mutex, sock, world>>
  /\ NoMarks

\* TeleportPlayer: the id is cleared, the player keeps it until it has loaded
\* the map it goes to.
TeleportPlayer(p) ==
  /\ Handles(p) /\ p \in inGame
  /\ given' = Clears(cid[p])
  /\ inGame' = inGame \ {p}
  /\ UNCHANGED <<present, cid, mob, drops, bag, mutex, sock, world>>
  /\ NoMarks

\* pakCharSelect, and a connection that breaks.
Disconnects(p) ==
  /\ Handles(p)
  /\ Begins([at |-> "leave", p |-> p])
  /\ UNCHANGED <<given, people, mob, drops, bag, world, history>>

\* DeleteClientSocket waits for MapMutex.  A player that is loading a map
\* clears an id that may be another's by now.
DeleteClientSocket ==
  /\ sock.at = "leave" /\ Free("Map")
  /\ given' = Clears(cid[sock.p])
  /\ present' = present \ {sock.p}
  /\ inGame' = inGame \ {sock.p}
  /\ cid' = [cid EXCEPT ![sock.p] = NoId]
  /\ bag' = [bag EXCEPT ![sock.p] = {}]
  /\ Ends
  /\ UNCHANGED <<mob, drops, world>>
  /\ Marks(IF sock.p \in inGame THEN {} ELSE {cid[sock.p]} \cap given, {})

\* GetDropByID reads the list without a lock.
pakPickDrop(p, k) ==
  /\ Handles(p) /\ p \in inGame
  /\ k \in DOMAIN drops
  /\ Begins([at |-> "take", p |-> p, drop |-> drops[k]])
  /\ UNCHANGED <<given, people, mob, drops, bag, world, history>>

AgeOf(d) == IF InList(d) THEN drops[IndexOf(d)].age ELSE "old"

\* The picker may be alone or in a party, whose turn decides who gets the drop
\* (parties are the subject of Party; here any may be formed).
PartiesOf(p) == {q \in SUBSET Players : p \in q}
MayTake(party, d) == d.owner \in party \cup {NoOne} \/ AgeOf(d) # "new"

Take ==
  /\ sock.at = "take"
  /\ \E party \in PartiesOf(sock.p) :
       /\ MayTake(party, sock.drop)
       /\ \E r \in party \cap present :
            Room(r) /\ bag' = [bag EXCEPT ![r] = @ \cup {sock.drop.thing}]
  /\ sock' = [at |-> "delete", drop |-> sock.drop]
  /\ UNCHANGED <<given, people, mob, drops, mutex, world, history>>
NotTaken ==
  /\ sock.at = "take"
  /\ \E party \in PartiesOf(sock.p) :
       MayTake(party, sock.drop) => \E r \in party \cap present : ~Room(r)
  /\ Ends
  /\ UNCHANGED <<given, people, mob, drops, bag, world, history>>

\* These read a drop that may have been deleted by now, and then what was
\* there before, or something that nobody can take.
Garbled ==
  /\ sock.at = "take" /\ ~InList(sock.drop)
  /\ Ends
  /\ UNCHANGED <<given, people, mob, drops, bag, world, history>>

\* Mutant of DropMutexFree: a picked drop is deleted without DropMutex.
NoDropMutex == TRUE

\* The world thread holds DropMutex while it cleans the drops.
DropMutexFree == world.at # "clean"

\* Mutant of DeletePicked: deleteDrop does not clear the id.
DeleteKeepsId ==
  /\ sock.at = "delete" /\ DropMutexFree
  /\ drops' = IF InList(sock.drop) THEN RemoveAt(drops, IndexOf(sock.drop)) ELSE drops
  /\ Ends
  /\ UNCHANGED <<given, people, mob, bag, world>>
  /\ NoMarks

\* DeleteDrop.
DeletePicked ==
  /\ sock.at = "delete" /\ DropMutexFree
  /\ given' = Clears(sock.drop.cid)
  /\ drops' = IF InList(sock.drop) THEN RemoveAt(drops, IndexOf(sock.drop)) ELSE drops
  /\ Ends
  /\ UNCHANGED <<people, mob, bag, world>>
  /\ Marks(IF InList(sock.drop) THEN {} ELSE {sock.drop.cid} \cap given, {})

\* The process that uses or deletes a deleted drop may stop, and is started
\* again.
Crash ==
  /\ sock.at \in {"take", "delete"} /\ ~InList(sock.drop)
  /\ \E i, j \in Ids :
       /\ i # j /\ given' = {i, j}
       /\ mob' = [alive |-> TRUE, cid |-> i]
       /\ cid' = [h \in Holders |-> IF h = Bot THEN j ELSE NoId]
  /\ present' = {} /\ inGame' = {}
  /\ drops' = <<>> /\ bag' = [h \in Holders |-> {}]
  /\ mutex' = [Player |-> "free", Map |-> "free"]
  /\ sock' = Idle /\ world' = Idle
  /\ UNCHANGED mixed /\ leaked' = {}
-----------------------------------------------------------------------------
(* The world thread: one round over the map *)

\* History, in due: a drop was old when the round began, and none was deleted.
AnyOld == \E k \in DOMAIN drops : drops[k].age = "old"

WorldProcess ==
  /\ world = Idle /\ Free("Map") /\ present # {}
  /\ world' = [at |-> "clean", j |-> 1, due |-> AnyOld]
  /\ mutex' = [mutex EXCEPT !.Map = "world"]
  /\ UNCHANGED <<given, people, mob, drops, bag, sock, history>>

\* CleanDrops: the drop after a deleted one is passed over.
CleanDrop ==
  /\ world.at = "clean" /\ world.j \in DOMAIN drops
  /\ \/ /\ drops[world.j].age = "old"
        /\ world' = [world EXCEPT !.j = @ + 1, !.due = FALSE]
        /\ given' = Clears(drops[world.j].cid)
        /\ drops' = RemoveAt(drops, world.j)
     \/ /\ drops[world.j].age # "old"
        /\ world' = [world EXCEPT !.j = @ + 1]
        /\ UNCHANGED <<given, drops>>
  /\ UNCHANGED <<people, mob, bag, mutex, sock>>
  /\ NoMarks

\* The round goes on with RespawnMonster: nothing is due, or AddMonster takes
\* an id.
Cleaned == world.at = "clean" /\ world.j \notin DOMAIN drops
Unwatch == world' = Idle /\ mutex' = [m \in DOMAIN mutex |-> IF mutex[m] = "world" THEN "free" ELSE mutex[m]]

NoRespawn ==
  /\ Cleaned
  /\ Unwatch
  /\ UNCHANGED <<given, people, mob, drops, bag, sock, history>>
RespawnMonster ==
  /\ Cleaned /\ ~mob.alive
  /\ \E i \in Findable(given) : world' = [at |-> "write", cid |-> i]
  /\ mutex' = IF Free("Player") THEN [mutex EXCEPT !.Player = "world"] ELSE mutex
  /\ UNCHANGED <<given, people, mob, drops, bag, sock, history>>
AddMonster ==
  /\ world.at = "write"
  /\ given' = Gives(world.cid)
  /\ mob' = [alive |-> TRUE, cid |-> world.cid]
  /\ Unwatch
  /\ UNCHANGED <<people, drops, bag, sock>>
  /\ Marks(Twice(world.cid), {})
-----------------------------------------------------------------------------
(* The map thread, and time *)

\* A player or a party kills the monster: a drop for its first hitter or for
\* all, or none; the monster's id is cleared when it is deleted.
Kill(t, o) ==
  /\ Quiet /\ mob.alive
  /\ o \in inGame \cup {NoOne} /\ t \notin Lying \cup Carried
  /\ \E i \in Findable(given) :
       /\ given' = Gives(i) \ {mob.cid}
       /\ drops' = Append(drops, Drop(t, i, o))
  /\ mob' = [alive |-> FALSE, cid |-> NoId]
  /\ UNCHANGED <<people, bag, mutex, sock, world>>
  /\ NoMarks
KillForNothing ==
  /\ Quiet /\ mob.alive
  /\ given' = Clears(mob.cid)
  /\ mob' = [alive |-> FALSE, cid |-> NoId]
  /\ UNCHANGED <<people, drops, bag, mutex, sock, world>>
  /\ NoMarks

\* A bot takes what it may; what it has no room for is lost.
HandleLoot(k) ==
  /\ Quiet /\ k \in DOMAIN drops
  /\ drops[k].owner = NoOne \/ drops[k].age # "new"
  /\ given' = Clears(drops[k].cid)
  /\ bag' = IF Room(Bot) THEN [bag EXCEPT ![Bot] = @ \cup {drops[k].thing}] ELSE bag
  /\ drops' = RemoveAt(drops, k)
  /\ UNCHANGED <<people, mob, mutex, sock, world>>
  /\ NoMarks

\* A bot goes to another map: TeleportPlayer clears its id, and no client asks
\* for another.
BotTeleports ==
  /\ Quiet
  /\ given' = Clears(cid[Bot])
  /\ UNCHANGED <<people, mob, drops, bag, mutex, sock, world>>
  /\ Marks({cid[Bot]}, {})

GrowOld(k) ==
  /\ k \in DOMAIN drops /\ drops[k].age # "old"
  /\ drops' = [drops EXCEPT ![k].age = IF @ = "new" THEN "open" ELSE "old"]
  /\ UNCHANGED <<given, people, mob, bag, mutex, sock, world, history>>
-----------------------------------------------------------------------------
Places == 1..Cardinality(Things)  \* where a drop can be in the list

SocketGoesOn ==
  \/ Entered \/ FirstId \/ AddDrop \/ DeleteClientSocket
  \/ Take \/ NotTaken \/ Garbled \/ DeletePicked \/ Crash
WorldGoesOn == CleanDrop \/ NoRespawn \/ RespawnMonster \/ AddMonster

Next ==
  \/ \E p \in Players : \/ pakDoIdentify(p) \/ pakDoID(p) \/ TeleportPlayer(p) \/ Disconnects(p)
                        \/ \E t \in Things : pakDoDrop(p, t)
                        \/ \E k \in Places : pakPickDrop(p, k)
  \/ SocketGoesOn \/ WorldProcess \/ WorldGoesOn
  \/ \E t \in Things, o \in Players \cup {NoOne} : Kill(t, o)
  \/ KillForNothing \/ BotTeleports
  \/ \E k \in Places : HandleLoot(k) \/ GrowOld(k)

Spec == Init /\ [][Next]_vars
-----------------------------------------------------------------------------
(* What holds *)

TypeOK ==
  /\ given \in SUBSET Ids
  /\ present \in SUBSET Players /\ inGame \in SUBSET present
  /\ cid \in [Holders -> Ids \cup {NoId}]
  /\ mob \in Mobs
  /\ drops \in Seq(DropRecords)
  /\ bag \in [Holders -> SUBSET Things]
  /\ mutex \in [{"Player", "Map"} -> {"free", "socket", "world"}]
  /\ sock \in SockStates /\ world \in WorldStates
  /\ mixed \in BOOLEAN /\ leaked \in SUBSET Ids

\* An id stands for one thing on the map, and what stands there has an id that
\* is given: until both threads search the list at once, a bot teleports, or a
\* handler clears an id that it no longer owns (a player that leaves while it
\* loads a map, a drop that had expired when it was picked up).
IdsUnique == ~mixed => \A i \in Ids :
  /\ Users(i) <= 1
  /\ Users(i) = 1 => i \in given

\* An id that is given is in use, but for the first of the two that
\* pakDoDrop takes for an item.
GivenIsUsed == \A i \in given \ leaked : Users(i) > 0

\* An item is never in two places, though the world thread may delete a drop
\* while a handler picks it up; and no inventory overflows.
Taken == IF sock.at = "delete" THEN {sock.drop.thing} ELSE {}
ThingsKept ==
  /\ Lying \cap Carried \subseteq Taken
  /\ \A h, g \in Holders : h # g => bag[h] \cap bag[g] = {}
  /\ \A j, k \in DOMAIN drops : j # k => drops[j].thing # drops[k].thing
  /\ \A h \in Holders : Cardinality(bag[h]) <= BagSize

\* A drop that a handler holds a pointer to is deleted by another thread only
\* once it is 50 seconds old; so only then is a deleted drop read or deleted
\* again.
DeletedTwiceOnlyOld == [][
  sock.at \in {"take", "delete"} /\ sock' = sock /\ InList(sock.drop) /\ ~InList(sock.drop)'
    => AgeOf(sock.drop) = "old"]_vars

\* Though CleanDrops passes over the drop after each one it deletes, a round
\* that finds old drops deletes at least one; so none stays for good on a map
\* with players.
EachRoundCleans == Cleaned => ~world.due
=============================================================================
