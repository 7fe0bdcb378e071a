------------------------------ MODULE Dungeons ------------------------------
(***************************************************************************)
(* Private dungeons of a world server.  A player who walks through a gate  *)
(* into a dungeon is sent to a map of its own party (pakGate,              *)
(* GetOrCreatePartyInstance, CreateInstance); WorldProcess tears a map     *)
(* down when it is empty, its time is over or everyone inside is dead      *)
(* (Update, HandlePartyWipe, HandleTimeout, DestroyInstance).              *)
(*                                                                         *)
(* Threads and their mutexes:                                              *)
(*   socket    every packet handler; holds PlayerMutex (usethreads = 0)    *)
(*   watchers  MapProcess, VisibilityProcess: PlayerMutex, then MapMutex   *)
(*   world     WorldProcess: MapMutex for the round over the maps; the     *)
(*             dungeons' Update holds none while it looks at instances     *)
(* m_dungeonMutex guards the manager's two tables and is held across the   *)
(* registration of a new map under MapMutex.                               *)
(*                                                                         *)
(* Only instances are maps here; every other map is Outside.  What a       *)
(* thread does through a pointer to a deleted map or player is undefined:  *)
(* it is lost or the server ends (Restart).  A player who leaves the game  *)
(* comes back as another.  A respawn and a way out are one step; a gate, a *)
(* lost connection, an evacuation and a destruction are several.           *)
(***************************************************************************)
EXTENDS Naturals

CONSTANTS
  Players,
  Parties,    \* PartyIds
  Zones,      \* dungeon zones (IsDungeonZone)
  Ids,        \* slots of MapList.Index for instances (200 to 999)
  Maps,       \* where a CMap may lie on the heap
  Watchers,   \* the threads MapProcess and VisibilityProcess
  Outside,    \* position on any other map
  Gone,       \* position of a player whose CPlayer is deleted
  MaxPartyChanges,  \* bound: how often players join or leave a party
  Null,       \* MapList.nullzone, no entry in m_activeInstances, nothing asked for
  NoThread    \* a mutex is free

\* A party, or for the lone player its tagged charid.
Owners == Parties \cup Players
Keys   == Zones \X Owners
NoId   == 0
Rounds  == Watchers \cup {"world"}
Threads == Rounds \cup {"socket"}

ASSUME DungeonAssumption ==
  /\ Ids \subseteq Nat \ {NoId}
  /\ Null \notin Maps /\ Outside \notin Ids /\ Gone \notin Ids /\ Outside # Gone
  /\ MaxPartyChanges \in Nat
  /\ Parties \cap Players = {}
  /\ Watchers \cap {"socket", "world"} = {}
  /\ NoThread \notin Threads

VARIABLES
  playerMutex, mapMutex, dungeonMutex,
  pc,
  Index,            \* MapList.Index
  listed,           \* MapList.Map
  activeInstances,  \* CDungeonManager::m_activeInstances
  partyInstances,   \* CDungeonManager::m_partyInstances
  heap,             \* maps created and not deleted
  inst,             \* what is in a CMap
  pos,              \* Position->Map
  dead,             \* players at HP 0
  party,            \* a player's party
  partyChanges,
  request,          \* gate being answered: player, key, map found and its id
  evac,             \* playersToTeleport of HandlePartyWipe, HandleTimeout
  victim,           \* the map they empty, the map DestroyInstance takes down
  todo, doomed      \* instances and toDestroy of Update

mutexes == <<playerMutex, mapMutex, dungeonMutex>>
tables  == <<Index, listed, activeInstances, partyInstances>>
people  == <<pos, dead, party, partyChanges>>
locals  == <<request, evac, victim, todo, doomed>>
vars    == <<mutexes, pc, tables, heap, inst, people, locals>>

\* A CMap: empty_since is "no" (0), "new" or "old" (30 seconds and more).
Dungeon(id, key) ==
  [id |-> id, key |-> key, players |-> {}, wiped |-> FALSE, empty |-> "no", late |-> FALSE]

Goto(t, label) == pc' = [pc EXCEPT ![t] = label]

\* Everyone is outside, alone or in one party.
Init ==
  /\ playerMutex = NoThread /\ mapMutex = NoThread /\ dungeonMutex = NoThread
  /\ pc = [t \in Threads |-> "idle"]
  /\ Index = [id \in Ids |-> Null] /\ listed = {}
  /\ activeInstances = [id \in Ids |-> Null] /\ partyInstances = [k \in Keys |-> NoId]
  /\ heap = {} /\ inst = [m \in Maps |-> Null]
  /\ pos = [p \in Players |-> Outside] /\ dead = {}
  /\ party \in {[p \in Players |-> p]} \cup {[p \in Players |-> o] : o \in Parties}
  /\ partyChanges = 0
  /\ request = Null
  /\ evac = {} /\ victim = Null
  /\ todo = {} /\ doomed = {}

\* A pointer to a deleted object was used and the server ends and is started anew.
Restart ==
  /\ playerMutex' = NoThread /\ mapMutex' = NoThread /\ dungeonMutex' = NoThread
  /\ pc' = [t \in Threads |-> "idle"]
  /\ Index' = [id \in Ids |-> Null] /\ listed' = {}
  /\ activeInstances' = [id \in Ids |-> Null] /\ partyInstances' = [k \in Keys |-> NoId]
  /\ heap' = {} /\ inst' = [m \in Maps |-> Null]
  /\ pos' = [p \in Players |-> Outside] /\ dead' = {} /\ party' = [p \in Players |-> p]
  /\ partyChanges' = partyChanges
  /\ request' = Null
  /\ evac' = {} /\ victim' = Null
  /\ todo' = {} /\ doomed' = {}

\* CMap::RemovePlayer on the map the player's position names; nullzone has nobody.
RemovedFrom(at, p) ==
  IF at \in Ids /\ Index[at] # Null
  THEN [inst EXCEPT ![Index[at]].players = @ \ {p}]
  ELSE inst

-----------------------------------------------------------------------------
(* Rounds over MapList.Map: MapProcess, VisibilityProcess, WorldProcess *)

WatcherLocks(t) ==
  \/ /\ pc[t] = "idle" /\ playerMutex = NoThread
     /\ playerMutex' = t
     /\ Goto(t, "locking")
     /\ UNCHANGED <<mapMutex, dungeonMutex, tables, heap, inst, people, locals>>
  \/ /\ pc[t] = "locking" /\ mapMutex = NoThread
     /\ mapMutex' = t
     /\ Goto(t, "round")
     /\ UNCHANGED <<playerMutex, dungeonMutex, tables, heap, inst, people, locals>>

WorldLocks ==
  /\ pc["world"] = "idle" /\ mapMutex = NoThread
  /\ mapMutex' = "world"
  /\ Goto("world", "round")
  /\ UNCHANGED <<playerMutex, dungeonMutex, tables, heap, inst, people, locals>>

\* The monsters of a map kill a player (MapProcess).
Die(t) ==
  /\ pc[t] = "round"
  /\ \E m \in listed : \E p \in inst[m].players :
       /\ pos[p] # Gone
       /\ dead' = dead \cup {p}
  /\ UNCHANGED <<mutexes, pc, tables, heap, inst, pos, party, partyChanges, locals>>

WatcherUnlocks(t) ==
  /\ pc[t] = "round"
  /\ playerMutex' = NoThread /\ mapMutex' = NoThread
  /\ Goto(t, "idle")
  /\ UNCHANGED <<dungeonMutex, tables, heap, inst, people, locals>>

WorldUnlocks ==
  /\ pc["world"] = "round"
  /\ mapMutex' = NoThread
  /\ Goto("world", "snapshot")
  /\ UNCHANGED <<playerMutex, dungeonMutex, tables, heap, inst, people, locals>>

-----------------------------------------------------------------------------
(* The socket thread *)

\* ServerLoop takes PlayerMutex for the packets that came in; here each handler
\* takes it, so the other threads may come in between any two.
Serving == pc["socket"] = "idle" /\ playerMutex = NoThread

\* A gate works on an ordinary map and on an instance that is still there.
CanUseGate(p) == pos[p] = Outside \/ (pos[p] \in Ids /\ Index[pos[p]] # Null)

pakGate(p, z) ==
  /\ Serving
  /\ CanUseGate(p)
  /\ request' = [p |-> p, key |-> <<z, party[p]>>, id |-> NoId, map |-> Null]
  /\ Goto("socket", "lookup")
  /\ playerMutex' = "socket"
  /\ UNCHANGED <<mapMutex, dungeonMutex, tables, heap, inst, people, evac, victim, todo, doomed>>

GetOrCreatePartyInstance ==
  LET id == partyInstances[request.key] IN
  /\ pc["socket"] = "lookup" /\ dungeonMutex = NoThread
  /\ IF id # NoId /\ Index[id] # Null
     THEN request' = [request EXCEPT !.map = Index[id], !.id = id] /\ Goto("socket", "teleport")
     ELSE Goto("socket", "create") /\ UNCHANGED request
  /\ UNCHANGED <<mutexes, tables, heap, inst, people, evac, victim, todo, doomed>>

\* Slots that neither table uses.
FreeIds == {id \in Ids : Index[id] = Null /\ activeInstances[id] = Null}

\* The map is made while m_dungeonMutex is held...
CreateInstance ==
  /\ pc["socket"] = "create" /\ dungeonMutex = NoThread
  /\ \E id \in FreeIds : \E m \in Maps \ heap :
       /\ \A other \in FreeIds : id <= other
       /\ heap' = heap \cup {m}
       /\ inst' = [inst EXCEPT ![m] = Dungeon(id, request.key)]
       /\ request' = [request EXCEPT !.map = m, !.id = id]
  /\ dungeonMutex' = "socket"
  /\ Goto("socket", "register")
  /\ UNCHANGED <<playerMutex, mapMutex, tables, people, evac, victim, todo, doomed>>

\* ...or there is no slot and the player goes to the common dungeon.
CreateInstanceFull ==
  /\ pc["socket"] = "create" /\ dungeonMutex = NoThread
  /\ FreeIds = {}
  /\ Goto("socket", "teleport")
  /\ UNCHANGED <<mutexes, tables, heap, inst, people, locals>>

\* ...entered in MapList under MapMutex...
Register ==
  /\ pc["socket"] = "register" /\ mapMutex = NoThread
  /\ Index' = [Index EXCEPT ![inst[request.map].id] = request.map]
  /\ listed' = listed \cup {request.map}
  /\ Goto("socket", "publish")
  /\ UNCHANGED <<mutexes, activeInstances, partyInstances, heap, inst, people, locals>>

\* ...and then in the tables of the manager.
Publish ==
  /\ pc["socket"] = "publish"
  /\ activeInstances' = [activeInstances EXCEPT ![inst[request.map].id] = request.map]
  /\ partyInstances' = [partyInstances EXCEPT ![request.key] = inst[request.map].id]
  /\ dungeonMutex' = NoThread
  /\ Goto("socket", "teleport")
  /\ UNCHANGED <<playerMutex, mapMutex, Index, listed, heap, inst, people, locals>>

\* CMap::TeleportPlayer off the old map...
TeleportPlayer ==
  LET p == request.p IN
  /\ pc["socket"] = "teleport"
  /\ inst' = RemovedFrom(pos[p], p)
  /\ pos' = [pos EXCEPT ![p] = IF request.map = Null THEN Outside ELSE request.id]
  /\ Goto("socket", "arrive")
  /\ UNCHANGED <<mutexes, tables, heap, dead, party, partyChanges, locals>>

\* ...and into the list of the new one, if it is still there.
TeleportPlayerArrives ==
  /\ pc["socket"] = "arrive"
  /\ inst' = IF request.map \in heap
             THEN [inst EXCEPT ![request.map].players = @ \cup {request.p}] ELSE inst
  /\ request' = Null
  /\ playerMutex' = NoThread
  /\ Goto("socket", "idle")
  /\ UNCHANGED <<mapMutex, dungeonMutex, tables, heap, people, evac, victim, todo, doomed>>

\* Respawning, on the spot of an instance or outside.
pakUserDied(p) ==
  /\ Serving
  /\ p \in dead
  /\ dead' = dead \ {p}
  /\ \/ /\ pos[p] \in Ids /\ Index[pos[p]] # Null
        /\ inst' = [inst EXCEPT ![Index[pos[p]]].players = @ \cup {p}]
        /\ UNCHANGED pos
     \/ /\ inst' = RemovedFrom(pos[p], p)
        /\ pos' = [pos EXCEPT ![p] = Outside]
  /\ UNCHANGED <<mutexes, pc, tables, heap, party, partyChanges, locals>>

\* Out through a gate, a scroll or /dungeon leave.
Leave(p) ==
  /\ Serving
  /\ pos[p] \in Ids
  /\ inst' = RemovedFrom(pos[p], p)
  /\ pos' = [pos EXCEPT ![p] = Outside]
  /\ UNCHANGED <<mutexes, pc, tables, heap, dead, party, partyChanges, locals>>

pakPartyActions(p) ==
  /\ Serving /\ pos[p] # Gone
  /\ partyChanges < MaxPartyChanges
  /\ partyChanges' = partyChanges + 1
  /\ \E o \in Parties \cup {p} : party' = [party EXCEPT ![p] = o]
  /\ UNCHANGED <<mutexes, pc, tables, heap, inst, pos, dead, locals>>

\* DeleteClientSocket: finds the map, then waits for MapMutex.
Disconnect(p) ==
  /\ Serving /\ pos[p] # Gone
  /\ request' = [p |-> p, key |-> Null, id |-> NoId,
                 map |-> IF pos[p] \in Ids THEN Index[pos[p]] ELSE Null]
  /\ Goto("socket", "disconnect")
  /\ playerMutex' = "socket"
  /\ UNCHANGED <<mapMutex, dungeonMutex, tables, heap, inst, people, evac, victim, todo, doomed>>

DeleteClientSocket ==
  LET p == request.p IN
  /\ pc["socket"] = "disconnect" /\ mapMutex = NoThread
  /\ inst' = IF request.map \in heap
             THEN [inst EXCEPT ![request.map].players = @ \ {p}] ELSE inst
  /\ pos' = [pos EXCEPT ![p] = Gone]
  /\ dead' = dead \ {p} /\ party' = [party EXCEPT ![p] = p]
  /\ request' = Null
  /\ playerMutex' = NoThread
  /\ Goto("socket", "idle")
  /\ UNCHANGED <<mapMutex, dungeonMutex, tables, heap, partyChanges, evac, victim, todo, doomed>>

-----------------------------------------------------------------------------
(* HandlePartyWipe and HandleTimeout *)

\* The list is copied (a wiped instance is marked first)...
Empty ==
  /\ pc["world"] \in {"wipe", "timeout"}
  /\ evac' = inst[victim].players
  /\ inst' = IF pc["world"] = "wipe" THEN [inst EXCEPT ![victim].wiped = TRUE] ELSE inst
  /\ Goto("world", IF pc["world"] = "wipe" THEN "reviving" ELSE "evacuating")
  /\ UNCHANGED <<mutexes, tables, heap, people, request, victim, todo, doomed>>

\* ...each of it is teleported outside, wherever it is by now...
Evacuate ==
  /\ pc["world"] \in {"reviving", "evacuating"}
  /\ \E p \in evac :
       /\ evac' = evac \ {p}
       /\ IF pos[p] = Gone THEN UNCHANGED <<inst, pos, dead>>
          ELSE /\ inst' = RemovedFrom(pos[p], p)
               /\ pos' = [pos EXCEPT ![p] = Outside]
               /\ dead' = IF pc["world"] = "reviving" THEN dead \ {p} ELSE dead
  /\ UNCHANGED <<mutexes, pc, tables, heap, party, partyChanges, request, victim, todo, doomed>>

\* ...and Update has the instance destroyed.
Emptied ==
  /\ pc["world"] \in {"reviving", "evacuating"} /\ evac = {}
  /\ inst' = [inst EXCEPT ![victim].empty = "new"]
  /\ doomed' = doomed \cup {victim}
  /\ victim' = Null
  /\ Goto("world", "update")
  /\ UNCHANGED <<mutexes, tables, heap, people, request, evac, todo>>

-----------------------------------------------------------------------------
(* CDungeonManager::Update *)

Snapshot ==
  /\ pc["world"] = "snapshot" /\ dungeonMutex = NoThread
  /\ todo' = {activeInstances[id] : id \in Ids} \ {Null}
  /\ Goto("world", "update")
  /\ UNCHANGED <<mutexes, tables, heap, inst, people, request, evac, victim, doomed>>

\* Instances are kept and handled in the order of their slots.
Earliest(m, S) == m \in S /\ \A n \in S : inst[m].id <= inst[n].id

EmptySince(m) ==
  IF inst[m].players # {} THEN "no" ELSE IF inst[m].empty = "no" THEN "new" ELSE inst[m].empty
Abandoned(m) == inst[m].players = {} /\ inst[m].empty = "old"
Fallen(m)    == inst[m].players # {} /\ inst[m].players \subseteq dead /\ ~inst[m].wiped

\* Mutant of Check: the time limit is looked at in empty instances only.
CheckEmptyOnly ==
  /\ pc["world"] = "update"
  /\ \E m \in Maps :
     /\ Earliest(m, todo)
     /\ todo' = todo \ {m}
     /\ inst' = [inst EXCEPT ![m].empty = EmptySince(m)]
     /\ doomed' = IF Abandoned(m) THEN doomed \cup {m} ELSE doomed
  /\ UNCHANGED <<mutexes, pc, tables, heap, people, request, evac, victim>>

Check ==
  /\ pc["world"] = "update"
  /\ \E m \in Maps :
     /\ Earliest(m, todo)
     /\ todo' = todo \ {m}
     /\ inst' = [inst EXCEPT ![m].empty = EmptySince(m)]
     /\ \/ /\ Abandoned(m)
           /\ doomed' = doomed \cup {m}
           /\ UNCHANGED <<pc, victim>>
        \/ /\ Fallen(m)
           /\ victim' = m
           /\ Goto("world", "wipe")
           /\ UNCHANGED doomed
        \/ /\ ~Abandoned(m) /\ ~Fallen(m) /\ inst[m].late
           /\ victim' = m
           /\ Goto("world", "timeout")
           /\ UNCHANGED doomed
        \/ /\ ~Abandoned(m) /\ ~Fallen(m) /\ ~inst[m].late
           /\ UNCHANGED <<pc, victim, doomed>>
  /\ UNCHANGED <<mutexes, tables, heap, people, request, evac>>

\* Mutant of Unpublish: the party keeps its entry.
UnpublishHalf ==
  /\ pc["world"] = "update" /\ todo = {} /\ dungeonMutex = NoThread
  /\ \E m \in Maps :
       /\ Earliest(m, doomed)
       /\ victim' = m
       /\ activeInstances' = [activeInstances EXCEPT ![inst[m].id] = Null]
  /\ Goto("world", "unregister")
  /\ UNCHANGED <<mutexes, Index, listed, partyInstances, heap, inst, people, request, evac, todo, doomed>>

\* DestroyInstance: out of the tables of the manager...
Unpublish ==
  /\ pc["world"] = "update" /\ todo = {} /\ dungeonMutex = NoThread
  /\ \E m \in Maps :
       /\ Earliest(m, doomed)
       /\ victim' = m
       /\ activeInstances' = [activeInstances EXCEPT ![inst[m].id] = Null]
       /\ partyInstances' = [partyInstances EXCEPT ![inst[m].key] = NoId]
  /\ Goto("world", "unregister")
  /\ UNCHANGED <<mutexes, Index, listed, heap, inst, people, request, evac, todo, doomed>>

\* Cleared only while it still names the map.
IndexWithout(m) == [id \in Ids |-> IF id = inst[m].id /\ Index[id] = m THEN Null ELSE Index[id]]

\* Mutant of Unregister: MapMutex is not taken.
UnregisterUnlocked ==
  /\ pc["world"] = "unregister"
  /\ Index' = IndexWithout(victim)
  /\ listed' = listed \ {victim}
  /\ Goto("world", "delete")
  /\ UNCHANGED <<mutexes, activeInstances, partyInstances, heap, inst, people, locals>>

\* ...out of MapList...
Unregister ==
  /\ pc["world"] = "unregister" /\ mapMutex = NoThread
  /\ Index' = IndexWithout(victim)
  /\ listed' = listed \ {victim}
  /\ Goto("world", "delete")
  /\ UNCHANGED <<mutexes, activeInstances, partyInstances, heap, inst, people, locals>>

\* ...and deleted, whoever is inside.
Delete ==
  /\ pc["world"] = "delete"
  /\ heap' = heap \ {victim}
  /\ inst' = [inst EXCEPT ![victim] = Null]
  /\ doomed' = doomed \ {victim}
  /\ victim' = Null
  /\ Goto("world", "update")
  /\ UNCHANGED <<mutexes, tables, people, request, evac, todo>>

UpdateDone ==
  /\ pc["world"] = "update" /\ todo = {} /\ doomed = {}
  /\ Goto("world", "idle")
  /\ UNCHANGED <<mutexes, tables, heap, inst, people, locals>>

-----------------------------------------------------------------------------
(* Time, and what is undefined *)

\* 30 seconds without players...
StandEmpty(m) ==
  /\ m \in heap /\ inst[m].empty = "new"
  /\ inst' = [inst EXCEPT ![m].empty = "old"]
  /\ UNCHANGED <<mutexes, pc, tables, heap, people, locals>>

\* ...and the 30 minutes of an instance go by.
Expire(m) ==
  /\ m \in heap /\ ~inst[m].late
  /\ inst' = [inst EXCEPT ![m].late = TRUE]
  /\ UNCHANGED <<mutexes, pc, tables, heap, people, locals>>

\* A deleted map, or a deleted player, is used.
UseAfterDelete ==
  /\ \/ /\ pc["socket"] \in {"teleport", "arrive", "disconnect"}
        /\ request.map \notin heap \cup {Null}
     \/ \E p \in evac : pos[p] = Gone
  /\ Restart

World ==
  \/ WorldLocks \/ WorldUnlocks
  \/ Snapshot \/ Check \/ Empty \/ Evacuate \/ Emptied
  \/ Unpublish \/ Unregister \/ Delete \/ UpdateDone

Next ==
  \/ \E t \in Watchers : WatcherLocks(t) \/ WatcherUnlocks(t) \/ Die(t)
  \/ World
  \/ \E p \in Players :
       \/ \E z \in Zones : pakGate(p, z)
       \/ pakUserDied(p) \/ Leave(p) \/ pakPartyActions(p) \/ Disconnect(p)
  \/ GetOrCreatePartyInstance \/ CreateInstance \/ CreateInstanceFull \/ Register \/ Publish
  \/ TeleportPlayer \/ TeleportPlayerArrives \/ DeleteClientSocket
  \/ \E m \in Maps : StandEmpty(m) \/ Expire(m)
  \/ UseAfterDelete

Spec == Init /\ [][Next]_vars

\* The threads of the server are scheduled; a thread that waits for a mutex gets
\* it if it is free again and again (every thread sleeps between its rounds).
FairSpec ==
  /\ Spec
  /\ SF_vars(World)
  /\ \A t \in Watchers : WF_vars(WatcherUnlocks(t))
  /\ SF_vars(Register) /\ WF_vars(Publish)
  /\ \A m \in Maps : WF_vars(Expire(m))

-----------------------------------------------------------------------------
(* Properties *)

Instances == [id : Ids, key : Keys, players : SUBSET Players, wiped : BOOLEAN,
              empty : {"no", "new", "old"}, late : BOOLEAN]
Requests  == [p : Players, key : Keys \cup {Null}, id : Ids \cup {NoId}, map : Maps \cup {Null}]

\* Variables have their types, and what is on the heap is an instance.
TypeOK ==
  /\ {playerMutex, mapMutex, dungeonMutex} \subseteq Threads \cup {NoThread}
  /\ pc \in [Threads -> {"idle", "locking", "round", "lookup", "create",
                         "register", "publish", "teleport", "arrive", "disconnect",
                         "wipe", "timeout", "reviving", "evacuating", "snapshot",
                         "update", "unregister", "delete"}]
  /\ Index \in [Ids -> Maps \cup {Null}] /\ listed \subseteq heap
  /\ activeInstances \in [Ids -> Maps \cup {Null}]
  /\ partyInstances \in [Keys -> Ids \cup {NoId}]
  /\ heap \subseteq Maps
  /\ inst \in [Maps -> Instances \cup {Null}] /\ \A m \in heap : inst[m] \in Instances
  /\ pos \in [Players -> Ids \cup {Outside, Gone}]
  /\ dead \subseteq Players
  /\ party \in [Players -> Owners] /\ partyChanges \in 0..MaxPartyChanges
  /\ request \in Requests \cup {Null}
  /\ evac \subseteq Players
  /\ victim \in Maps \cup {Null}
  /\ todo \subseteq Maps /\ doomed \subseteq Maps

\* The three tables agree, whatever thread is in the middle of what: what the
\* manager knows is registered, and a party's entry leads to the party's map.
TablesAgree ==
  /\ \A id \in Ids : activeInstances[id] # Null =>
       /\ Index[id] = activeInstances[id]
       /\ inst[activeInstances[id]].id = id
       /\ partyInstances[inst[activeInstances[id]].key] = id
  /\ \A k \in Keys : partyInstances[k] # NoId =>
       /\ activeInstances[partyInstances[k]] # Null
       /\ inst[activeInstances[partyInstances[k]]].key = k
  /\ \A id \in Ids : Index[id] # Null => Index[id] \in listed /\ inst[Index[id]].id = id

\* While a thread goes over MapList.Map, no other adds, removes or deletes a map
\* of it: no iteration meets a moved vector or a deleted map.
RoundsUndisturbed ==
  [][\A t \in Rounds : pc[t] = "round" /\ pc'[t] = "round" =>
       listed' = listed /\ listed \subseteq heap']_vars

\* A gate leads a player to a map of its own party, never to somebody else's.
OwnDungeon ==
  pc["socket"] \in {"teleport", "arrive"} /\ request.map \in heap =>
    inst[request.map].key = request.key

\* Private instances: a party never has two of one dungeon at a time.
OneInstancePerParty ==
  \A i, j \in Ids :
    /\ activeInstances[i] # Null /\ activeInstances[j] # Null
    /\ inst[activeInstances[i]].key = inst[activeInstances[j]].key
    => i = j

Active(m) == \E id \in Ids : activeInstances[id] = m

\* README.md: "When the timer hits 0m, the dungeon collapses": no order of the
\* threads keeps an instance for ever, whoever is inside.
Collapses == \A m \in Maps : Active(m) ~> ~Active(m)
=============================================================================
