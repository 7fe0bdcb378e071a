-------------------------- MODULE Dungeons_proofs --------------------------
(***************************************************************************)
(* Proofs about Dungeons, for any number of players, parties, dungeons,    *)
(* slots, maps and watching threads.                                       *)
(***************************************************************************)
EXTENDS Dungeons, TLAPS

\* A map the manager knows under its own slot.
Live(m) == m \in heap /\ activeInstances[inst[m].id] = m

\* Who holds a mutex is told by the labels of the threads.
Locks ==
  /\ dungeonMutex = (IF pc["socket"] \in {"register", "publish"} THEN "socket" ELSE NoThread)
  /\ \A t \in Rounds : pc[t] = "round" => mapMutex = t

\* What the socket thread knows while it answers a gate.
Creating ==
  /\ pc["socket"] # "idle" => request \in Requests
  /\ pc["socket"] \in {"lookup", "create", "register", "publish"} => request.key \in Keys
  /\ pc["socket"] \in {"lookup", "create"} => request.map = Null
  /\ pc["socket"] \in {"create", "register", "publish"} => partyInstances[request.key] = NoId
  /\ pc["socket"] \in {"register", "publish"} =>
       /\ request.map \in heap
       /\ inst[request.map].key = request.key /\ request.id \in Ids
       /\ activeInstances[inst[request.map].id] = Null
       /\ \A id \in Ids : activeInstances[id] # request.map
  /\ pc["socket"] = "teleport" /\ request.map # Null => request.id \in Ids
  /\ pc["socket"] = "register" => Index[inst[request.map].id] = Null
  /\ pc["socket"] = "publish" => Index[inst[request.map].id] = request.map

Destruction == pc["world"] \in {"unregister", "delete"}

\* What the world thread knows during Update: only it ends an instance, so all
\* it has still to look at or to destroy is live.
Destroying ==
  /\ \A m \in todo \cup doomed : (Destruction /\ m = victim) \/ Live(m)
  /\ pc["world"] \in {"wipe", "timeout", "reviving", "evacuating"} => Live(victim)
  /\ Destruction =>
       /\ todo = {} /\ victim \in heap
       /\ \A id \in Ids : activeInstances[id] # victim
       /\ pc["socket"] \in {"register", "publish"} => request.map # victim
  /\ pc["world"] = "delete" => victim \notin listed

IInv == TypeOK /\ TablesAgree /\ Locks /\ Creating /\ Destroying /\ OwnDungeon

-----------------------------------------------------------------------------
(* Steps that change neither tables nor which maps there are *)

\* Every map stays what it was but for who is inside and its clocks.
Kept ==
  /\ heap' = heap
  /\ inst' \in [Maps -> Instances \cup {Null}]
  /\ \A m \in heap :
       inst'[m] \in Instances /\ inst'[m].id = inst[m].id /\ inst'[m].key = inst[m].key

LEMMA Unchanged ==
  ASSUME TypeOK, UNCHANGED <<heap, inst>> PROVE Kept
BY DEF TypeOK, Kept

\* One instance gets another content, its slot and its key stay.
LEMMA OneChanged ==
  ASSUME TypeOK, UNCHANGED heap, NEW m \in heap,
         NEW r \in Instances, r.id = inst[m].id, r.key = inst[m].key,
         inst' = [inst EXCEPT ![m] = r]
  PROVE  Kept
BY DEF TypeOK, Kept

\* Whoever enters or leaves a map leaves its slot and key alone.
LEMMA PlayersChanged ==
  ASSUME TypeOK, UNCHANGED heap, NEW m \in heap, NEW T \in SUBSET Players,
         inst' = [inst EXCEPT ![m].players = T]
  PROVE  Kept
<1> DEFINE r == [inst[m] EXCEPT !.players = T]
<1>1. inst[m] \in Instances
  BY DEF TypeOK
<1>2. r \in Instances /\ r.id = inst[m].id /\ r.key = inst[m].key
  BY <1>1 DEF Instances
<1>3. inst' = [inst EXCEPT ![m] = r]
  OBVIOUS
<1> QED BY <1>2, <1>3, OneChanged

\* So does RemovePlayer on whatever map a position names.
LEMMA RemovedKeeps ==
  ASSUME TypeOK, TablesAgree, UNCHANGED heap, NEW p \in Players,
         inst' = RemovedFrom(pos[p], p)
  PROVE  Kept
<1>1. CASE pos[p] \in Ids /\ Index[pos[p]] # Null
  <2> DEFINE m == Index[pos[p]]
  <2>1. m \in heap
    BY <1>1 DEF TypeOK, TablesAgree
  <2>2. inst[m] \in Instances
    BY <2>1 DEF TypeOK
  <2>3. inst[m].players \ {p} \in SUBSET Players
    BY <2>2 DEF Instances
  <2>4. inst' = [inst EXCEPT ![m].players = inst[m].players \ {p}]
    BY <1>1 DEF RemovedFrom
  <2> QED BY <2>1, <2>3, <2>4, PlayersChanged
<1>2. CASE ~(pos[p] \in Ids /\ Index[pos[p]] # Null)
  BY <1>2, Unchanged DEF RemovedFrom
<1> QED BY <1>1, <1>2

\* Where a player is added to a map that is there.
LEMMA AddedKeeps ==
  ASSUME TypeOK, UNCHANGED heap, NEW m \in heap, NEW p \in Players,
         inst' = [inst EXCEPT ![m].players = @ \cup {p}]
  PROVE  Kept
<1>1. inst[m] \in Instances
  BY DEF TypeOK
<1>2. inst[m].players \cup {p} \in SUBSET Players
  BY <1>1 DEF Instances
<1> QED BY <1>2, PlayersChanged

LEMMA TakenKeeps ==
  ASSUME TypeOK, UNCHANGED heap, NEW m \in heap, NEW p \in Players,
         inst' = [inst EXCEPT ![m].players = @ \ {p}]
  PROVE  Kept
<1>1. inst[m] \in Instances
  BY DEF TypeOK
<1>2. inst[m].players \ {p} \in SUBSET Players
  BY <1>1 DEF Instances
<1> QED BY <1>2, PlayersChanged

-----------------------------------------------------------------------------
(* Every step is one that leaves maps and tables alone, or one of seven *)

Quiet == Kept /\ UNCHANGED tables

LEMMA WatchersQuiet ==
  ASSUME IInv, NEW t \in Watchers, WatcherLocks(t) \/ WatcherUnlocks(t) \/ Die(t)
  PROVE  Quiet
BY Unchanged DEF IInv, Quiet, tables, WatcherLocks, WatcherUnlocks, Die

LEMMA WorldQuiet ==
  ASSUME IInv, World, ~Unpublish, ~Unregister, ~Delete
  PROVE  Quiet
<1>1. UNCHANGED <<heap, tables>>
  BY DEF World, WorldLocks, WorldUnlocks, Snapshot, Check, Empty, Evacuate, Emptied, UpdateDone,
         tables
<1>2. CASE WorldLocks \/ WorldUnlocks \/ Snapshot \/ UpdateDone
  BY <1>1, <1>2, Unchanged DEF IInv, Quiet, WorldLocks, WorldUnlocks, Snapshot, UpdateDone
<1>3. CASE Check
  <2>1. PICK m \in Maps : Earliest(m, todo) /\ inst' = [inst EXCEPT ![m].empty = EmptySince(m)]
    BY <1>3 DEF Check
  <2>2. pc["world"] = "update"
    BY <1>3 DEF Check
  <2>3. m \in heap
    BY <2>1, <2>2 DEF IInv, Destroying, Destruction, Live, Earliest
  <2> DEFINE r == [inst[m] EXCEPT !.empty = EmptySince(m)]
  <2>4. inst[m] \in Instances
    BY <2>3 DEF IInv, TypeOK
  <2>5. EmptySince(m) \in {"no", "new", "old"}
    BY <2>4 DEF EmptySince, Instances
  <2>6. r \in Instances /\ r.id = inst[m].id /\ r.key = inst[m].key
    BY <2>4, <2>5 DEF Instances
  <2>7. inst' = [inst EXCEPT ![m] = r]
    BY <2>1
  <2> QED BY <1>1, <2>3, <2>6, <2>7, OneChanged DEF IInv, Quiet
<1>4. CASE Empty
  <2>1. victim \in heap
    BY <1>4 DEF Empty, IInv, Destroying, Live
  <2> DEFINE r == [inst[victim] EXCEPT !.wiped = TRUE]
  <2>2. inst[victim] \in Instances
    BY <2>1 DEF IInv, TypeOK
  <2>3. r \in Instances /\ r.id = inst[victim].id /\ r.key = inst[victim].key
    BY <2>2 DEF Instances
  <2>4. inst' = inst \/ inst' = [inst EXCEPT ![victim] = r]
    BY <1>4 DEF Empty
  <2> QED BY <1>1, <2>1, <2>3, <2>4, OneChanged, Unchanged DEF IInv, Quiet
<1>5. CASE Evacuate
  <2>1. PICK p \in evac : inst' = inst \/ inst' = RemovedFrom(pos[p], p)
    BY <1>5 DEF Evacuate
  <2>2. p \in Players
    BY DEF IInv, TypeOK
  <2> QED BY <1>1, <2>1, <2>2, RemovedKeeps, Unchanged DEF IInv, Quiet
<1>6. CASE Emptied
  <2>1. victim \in heap
    BY <1>6 DEF Emptied, IInv, Destroying, Live
  <2> DEFINE r == [inst[victim] EXCEPT !.empty = "new"]
  <2>2. inst[victim] \in Instances
    BY <2>1 DEF IInv, TypeOK
  <2>3. r \in Instances /\ r.id = inst[victim].id /\ r.key = inst[victim].key
    BY <2>2 DEF Instances
  <2>4. inst' = [inst EXCEPT ![victim] = r]
    BY <1>6 DEF Emptied
  <2> QED BY <1>1, <2>1, <2>3, <2>4, OneChanged DEF IInv, Quiet
<1> QED BY <1>2, <1>3, <1>4, <1>5, <1>6 DEF World

LEMMA HandlersQuiet ==
  ASSUME IInv, NEW p \in Players,
         \/ \E z \in Zones : pakGate(p, z)
         \/ pakUserDied(p) \/ Leave(p) \/ pakPartyActions(p) \/ Disconnect(p)
  PROVE  Quiet
<1>1. UNCHANGED <<heap, tables>>
  BY DEF pakGate, pakUserDied, Leave, pakPartyActions, Disconnect, tables
<1>2. CASE (\E z \in Zones : pakGate(p, z)) \/ pakPartyActions(p) \/ Disconnect(p)
  BY <1>1, <1>2, Unchanged DEF IInv, Quiet, pakGate, pakPartyActions, Disconnect
<1>3. CASE pakUserDied(p)
  <2>1. CASE /\ pos[p] \in Ids /\ Index[pos[p]] # Null
             /\ inst' = [inst EXCEPT ![Index[pos[p]]].players = @ \cup {p}]
    <3>1. Index[pos[p]] \in heap
      BY <2>1 DEF IInv, TypeOK, TablesAgree
    <3> QED BY <1>1, <2>1, <3>1, AddedKeeps DEF IInv, Quiet
  <2>2. CASE inst' = RemovedFrom(pos[p], p)
    BY <1>1, <2>2, RemovedKeeps DEF IInv, Quiet
  <2> QED BY <1>3, <2>1, <2>2 DEF pakUserDied
<1>4. CASE Leave(p)
  BY <1>1, <1>4, RemovedKeeps DEF IInv, Quiet, Leave
<1> QED BY <1>2, <1>3, <1>4

LEMMA SocketQuiet ==
  ASSUME IInv,
         \/ GetOrCreatePartyInstance \/ CreateInstanceFull
         \/ TeleportPlayer \/ TeleportPlayerArrives \/ DeleteClientSocket
  PROVE  Quiet
<1>1. UNCHANGED <<heap, tables>>
  BY DEF GetOrCreatePartyInstance, CreateInstanceFull, TeleportPlayer, TeleportPlayerArrives,
         DeleteClientSocket, tables
<1>2. pc["socket"] # "idle"
  BY DEF GetOrCreatePartyInstance, CreateInstanceFull, TeleportPlayer, TeleportPlayerArrives,
         DeleteClientSocket
<1>3. request.p \in Players
  BY <1>2 DEF IInv, Creating, Requests
<1>4. CASE GetOrCreatePartyInstance \/ CreateInstanceFull
  BY <1>1, <1>4, Unchanged DEF IInv, Quiet, GetOrCreatePartyInstance, CreateInstanceFull
<1>5. CASE TeleportPlayer
  BY <1>1, <1>3, <1>5, RemovedKeeps DEF IInv, Quiet, TeleportPlayer
<1>6. CASE TeleportPlayerArrives
  <2>1. CASE request.map \in heap
    BY <1>1, <1>3, <1>6, <2>1, AddedKeeps DEF IInv, Quiet, TeleportPlayerArrives
  <2>2. CASE request.map \notin heap
    BY <1>1, <1>6, <2>2, Unchanged DEF IInv, Quiet, TeleportPlayerArrives
  <2> QED BY <2>1, <2>2
<1>7. CASE DeleteClientSocket
  <2>1. CASE request.map \in heap
    BY <1>1, <1>3, <1>7, <2>1, TakenKeeps DEF IInv, Quiet, DeleteClientSocket
  <2>2. CASE request.map \notin heap
    BY <1>1, <1>7, <2>2, Unchanged DEF IInv, Quiet, DeleteClientSocket
  <2> QED BY <2>1, <2>2
<1> QED BY <1>4, <1>5, <1>6, <1>7

LEMMA TimeQuiet ==
  ASSUME IInv, NEW m \in Maps, StandEmpty(m) \/ Expire(m)
  PROVE  Quiet
<1>1. UNCHANGED <<heap, tables>> /\ m \in heap
  BY DEF StandEmpty, Expire, tables
<1>2. inst[m] \in Instances
  BY <1>1 DEF IInv, TypeOK
<1>3. CASE StandEmpty(m)
  <2> DEFINE r == [inst[m] EXCEPT !.empty = "old"]
  <2>1. r \in Instances /\ r.id = inst[m].id /\ r.key = inst[m].key
    BY <1>2 DEF Instances
  <2>2. inst' = [inst EXCEPT ![m] = r]
    BY <1>3 DEF StandEmpty
  <2> QED BY <1>1, <2>1, <2>2, OneChanged DEF IInv, Quiet
<1>4. CASE Expire(m)
  <2> DEFINE r == [inst[m] EXCEPT !.late = TRUE]
  <2>1. r \in Instances /\ r.id = inst[m].id /\ r.key = inst[m].key
    BY <1>2 DEF Instances
  <2>2. inst' = [inst EXCEPT ![m] = r]
    BY <1>4 DEF Expire
  <2> QED BY <1>1, <2>1, <2>2, OneChanged DEF IInv, Quiet
<1> QED BY <1>3, <1>4

\* The steps that move the tables or the heap.
Loud ==
  \/ CreateInstance \/ Register \/ Publish
  \/ Unpublish \/ Unregister \/ Delete
  \/ UseAfterDelete

LEMMA QuietOrLoud ==
  ASSUME IInv, [Next]_vars
  PROVE  Quiet \/ Loud
<1>1. CASE UNCHANGED vars
  BY <1>1, Unchanged DEF IInv, Quiet, vars
<1> QED BY <1>1, WatchersQuiet, WorldQuiet, HandlersQuiet, SocketQuiet, TimeQuiet DEF Next, Loud, World

\* What the socket thread does about a gate or a lost player.
SocketSteps ==
  \/ GetOrCreatePartyInstance \/ CreateInstance \/ CreateInstanceFull \/ Register \/ Publish
  \/ TeleportPlayer \/ TeleportPlayerArrives \/ DeleteClientSocket
  \/ \E p \in Players : Disconnect(p) \/ \E z \in Zones : pakGate(p, z)

\* Every other step leaves the socket thread where it is.
LEMMA SocketApart ==
  ASSUME IInv, [Next]_vars
  PROVE  \/ SocketSteps \/ UseAfterDelete \/ Delete
         \/ UNCHANGED <<pc["socket"], request>> /\ (Quiet \/ Unpublish \/ Unregister)
<1> USE DungeonAssumption DEF Rounds, Threads
<1>1. pc \in [Threads -> {pc[t] : t \in Threads}]
  BY DEF IInv, TypeOK
<1>2. CASE \E t \in Watchers : WatcherLocks(t) \/ WatcherUnlocks(t) \/ Die(t)
  <2>1. PICK t \in Watchers : WatcherLocks(t) \/ WatcherUnlocks(t) \/ Die(t)
    BY <1>2
  <2>2. t # "socket"
    OBVIOUS
  <2>3. UNCHANGED <<pc["socket"], request>>
    BY <1>1, <2>1, <2>2 DEF WatcherLocks, WatcherUnlocks, Die, Goto, locals
  <2> QED BY <2>1, <2>3, WatchersQuiet
<1>3. CASE World
  <2>1. UNCHANGED <<pc["socket"], request>>
    BY <1>1, <1>3 DEF World, WorldLocks, WorldUnlocks, Snapshot, Check, Empty, Evacuate, Emptied,
      Unpublish, Unregister, Delete, UpdateDone, Goto, locals
  <2> QED BY <1>3, <2>1, WorldQuiet
<1>4. CASE \E p \in Players : pakUserDied(p) \/ Leave(p) \/ pakPartyActions(p)
  <2>1. UNCHANGED <<pc["socket"], request>>
    BY <1>4 DEF pakUserDied, Leave, pakPartyActions, locals
  <2> QED BY <1>4, <2>1, HandlersQuiet
<1>5. CASE \E m \in Maps : StandEmpty(m) \/ Expire(m)
  <2>1. UNCHANGED <<pc["socket"], request>>
    BY <1>5 DEF StandEmpty, Expire, locals
  <2> QED BY <1>5, <2>1, TimeQuiet
<1>6. CASE UNCHANGED vars
  BY <1>6, Unchanged DEF IInv, Quiet, vars, locals
<1> QED BY <1>2, <1>3, <1>4, <1>5, <1>6 DEF Next, SocketSteps

-----------------------------------------------------------------------------
(* The invariant, conjunct by conjunct *)

LEMMA Restarted ==
  ASSUME TypeOK, UseAfterDelete
  PROVE  IInv'
<1> USE DungeonAssumption
<1>1. Restart
  BY DEF UseAfterDelete
<1>2. NoId \notin Ids /\ Null \notin Maps
  OBVIOUS
<1>3. TypeOK'
  <2> QED BY <1>1 DEF TypeOK, Restart, Threads, Rounds, Owners
<1> QED BY <1>1, <1>2, <1>3 DEF IInv, Restart, TablesAgree, Locks, Creating, Destroying, Destruction, OwnDungeon,
    Rounds, Threads, Live

LEMMA TablesStep ==
  ASSUME IInv, [Next]_vars
  PROVE  TablesAgree'
<1> USE DungeonAssumption
<1>1. CASE Quiet
  <2>1. \A id \in Ids : activeInstances[id] # Null => activeInstances[id] \in heap
    BY DEF IInv, TypeOK, TablesAgree
  <2>2. \A id \in Ids : Index[id] # Null => Index[id] \in heap
    BY DEF IInv, TypeOK, TablesAgree
  <2>3. \A k \in Keys : partyInstances[k] # NoId => partyInstances[k] \in Ids
    BY DEF IInv, TypeOK
  <2> QED BY <1>1, <2>1, <2>2, <2>3 DEF IInv, TablesAgree, Quiet, Kept, tables
<1>2. CASE CreateInstance
  <2>1. PICK id \in FreeIds, m \in Maps \ heap : inst' = [inst EXCEPT ![m] = Dungeon(id, request.key)]
    BY <1>2 DEF CreateInstance
  <2>2. UNCHANGED tables
    BY <1>2 DEF CreateInstance
  <2>3. \A n \in heap : inst'[n] = inst[n]
    BY <2>1 DEF IInv, TypeOK
  <2>4. \A i \in Ids : activeInstances[i] # Null => activeInstances[i] \in heap
    BY DEF IInv, TypeOK, TablesAgree
  <2>5. \A i \in Ids : Index[i] # Null => Index[i] \in heap
    BY DEF IInv, TypeOK, TablesAgree
  <2>6. \A k \in Keys : partyInstances[k] # NoId => partyInstances[k] \in Ids
    BY DEF IInv, TypeOK
  <2> QED BY <2>2, <2>3, <2>4, <2>5, <2>6 DEF IInv, TablesAgree, tables
<1>3. CASE Register
  <2> DEFINE m == request.map
             i == inst[m].id
  <2>1. m \in heap /\ activeInstances[i] = Null
    BY <1>3 DEF Register, IInv, Creating
  <2>2. i \in Ids /\ m # Null
    BY <2>1 DEF IInv, TypeOK, Instances
  <2>3. /\ Index' = [Index EXCEPT ![i] = m] /\ listed' = listed \cup {m}
        /\ UNCHANGED <<activeInstances, partyInstances, inst>>
    BY <1>3 DEF Register
  <2> QED BY <2>1, <2>2, <2>3 DEF IInv, TypeOK, TablesAgree
<1>4. CASE Publish
  <2> DEFINE m == request.map
             i == inst[m].id
             k == request.key
  <2>1. /\ m \in heap /\ activeInstances[i] = Null /\ Index[i] = m
        /\ k \in Keys /\ inst[m].key = k /\ partyInstances[k] = NoId
    BY <1>4 DEF Publish, IInv, Creating
  <2>2. i \in Ids /\ m # Null
    BY <2>1 DEF IInv, TypeOK, Instances
  <2>3. /\ activeInstances' = [activeInstances EXCEPT ![i] = m]
        /\ partyInstances' = [partyInstances EXCEPT ![k] = i]
        /\ UNCHANGED <<Index, listed, inst>>
    BY <1>4 DEF Publish
  <2>4. \A j \in Ids : j # i /\ activeInstances[j] # Null => inst[activeInstances[j]].key # k
    BY <2>1 DEF IInv, TypeOK, TablesAgree
  <2>5. \A l \in Keys : partyInstances[l] # i
    BY <2>1, <2>2 DEF IInv, TypeOK, TablesAgree
  <2> QED BY <2>1, <2>2, <2>3, <2>4, <2>5 DEF IInv, TypeOK, TablesAgree
<1>5. CASE Unpublish
  <2>1. PICK m \in Maps :
          /\ Earliest(m, doomed)
          /\ activeInstances' = [activeInstances EXCEPT ![inst[m].id] = Null]
          /\ partyInstances' = [partyInstances EXCEPT ![inst[m].key] = NoId]
    BY <1>5 DEF Unpublish
  <2>2. Live(m)
    BY <1>5, <2>1 DEF Unpublish, IInv, Destroying, Destruction, Earliest
  <2>3. inst[m] \in Instances
    BY <2>2 DEF Live, IInv, TypeOK
  <2>4. inst[m].id \in Ids /\ inst[m].key \in Keys
    BY <2>3 DEF Instances
  <2>5. UNCHANGED <<Index, listed, inst>>
    BY <1>5 DEF Unpublish
  <2>6. \A j \in Ids : j # inst[m].id /\ activeInstances[j] # Null =>
          inst[activeInstances[j]].key # inst[m].key
    <3>1. m # Null
      BY <2>2 DEF Live, IInv, TypeOK
    <3>2. partyInstances[inst[m].key] = inst[m].id
      BY <2>2, <2>4, <3>1 DEF Live, IInv, TablesAgree
    <3>3. \A j \in Ids : activeInstances[j] # Null => partyInstances[inst[activeInstances[j]].key] = j
      BY DEF IInv, TablesAgree
    <3> QED BY <3>2, <3>3
  <2>7. \A l \in Keys : partyInstances[l] = inst[m].id => l = inst[m].key
    <3> SUFFICES ASSUME NEW l \in Keys, partyInstances[l] = inst[m].id PROVE l = inst[m].key
      OBVIOUS
    <3>1. partyInstances[l] # NoId
      BY <2>4
    <3>2. inst[activeInstances[partyInstances[l]]].key = l
      BY <3>1 DEF IInv, TablesAgree
    <3> QED BY <2>2, <3>2 DEF Live
  <2>8. \A j \in Ids : /\ j # inst[m].id => activeInstances'[j] = activeInstances[j]
                       /\ j = inst[m].id => activeInstances'[j] = Null
    BY <2>1, <2>4 DEF IInv, TypeOK
  <2>9. \A l \in Keys : /\ l # inst[m].key => partyInstances'[l] = partyInstances[l]
                        /\ l = inst[m].key => partyInstances'[l] = NoId
    BY <2>1, <2>4 DEF IInv, TypeOK
  <2>10. /\ \A l \in Keys : partyInstances[l] # NoId => partyInstances[l] \in Ids
         /\ \A j \in Ids : activeInstances[j] # Null => inst[activeInstances[j]].key \in Keys
    <3>1. \A j \in Ids : activeInstances[j] # Null => inst[activeInstances[j]] \in Instances
      BY DEF IInv, TypeOK, TablesAgree
    <3> QED BY <3>1 DEF IInv, TypeOK, Instances
  <2>11. \A j \in Ids : activeInstances'[j] # Null =>
           /\ Index'[j] = activeInstances'[j]
           /\ inst'[activeInstances'[j]].id = j
           /\ partyInstances'[inst'[activeInstances'[j]].key] = j
    <3> SUFFICES ASSUME NEW j \in Ids, activeInstances'[j] # Null
                 PROVE  /\ Index'[j] = activeInstances'[j]
                        /\ inst'[activeInstances'[j]].id = j
                        /\ partyInstances'[inst'[activeInstances'[j]].key] = j
      OBVIOUS
    <3>1. j # inst[m].id /\ activeInstances'[j] = activeInstances[j]
      BY <2>8
    <3>2. inst[activeInstances[j]].key # inst[m].key
      BY <2>6, <3>1
    <3>3. partyInstances'[inst[activeInstances[j]].key] = partyInstances[inst[activeInstances[j]].key]
      BY <2>9, <2>10, <3>1, <3>2
    <3> QED BY <2>5, <3>1, <3>3 DEF IInv, TablesAgree
  <2>12. \A l \in Keys : partyInstances'[l] # NoId =>
           /\ activeInstances'[partyInstances'[l]] # Null
           /\ inst'[activeInstances'[partyInstances'[l]]].key = l
    <3> SUFFICES ASSUME NEW l \in Keys, partyInstances'[l] # NoId
                 PROVE  /\ activeInstances'[partyInstances'[l]] # Null
                        /\ inst'[activeInstances'[partyInstances'[l]]].key = l
      OBVIOUS
    <3>1. l # inst[m].key /\ partyInstances'[l] = partyInstances[l]
      BY <2>9
    <3>2. partyInstances[l] \in Ids /\ partyInstances[l] # inst[m].id
      BY <2>7, <2>10, <3>1
    <3>3. activeInstances'[partyInstances[l]] = activeInstances[partyInstances[l]]
      BY <2>8, <3>2
    <3> QED BY <2>5, <3>1, <3>3 DEF IInv, TablesAgree
  <2>13. \A j \in Ids : Index'[j] # Null => Index'[j] \in listed' /\ inst'[Index'[j]].id = j
    BY <2>5 DEF IInv, TablesAgree
  <2> QED BY <2>11, <2>12, <2>13 DEF TablesAgree
<1>6. CASE Unregister
  <2>1. UNCHANGED <<activeInstances, partyInstances, inst>>
    BY <1>6 DEF Unregister
  <2>2. Index' = IndexWithout(victim) /\ listed' = listed \ {victim}
    BY <1>6 DEF Unregister
  <2>3. victim \in heap /\ \A i \in Ids : activeInstances[i] # victim
    BY <1>6 DEF Unregister, IInv, Destroying, Destruction
  <2>4. \A i \in Ids : Index[i] # victim => Index'[i] = Index[i]
    BY <2>2 DEF IndexWithout
  <2>5. \A i \in Ids : Index[i] = victim => Index'[i] = Null
    <3> SUFFICES ASSUME NEW i \in Ids, Index[i] = victim PROVE Index'[i] = Null
      OBVIOUS
    <3>1. victim # Null
      BY <2>3 DEF IInv, TypeOK
    <3>2. inst[victim].id = i
      BY <3>1 DEF IInv, TablesAgree
    <3> QED BY <2>2, <3>2 DEF IndexWithout
  <2> QED BY <2>1, <2>2, <2>3, <2>4, <2>5 DEF IInv, TypeOK, TablesAgree
<1>7. CASE Delete
  <2>1. UNCHANGED tables /\ inst' = [inst EXCEPT ![victim] = Null]
    BY <1>7 DEF Delete
  <2>2. victim \notin listed /\ \A i \in Ids : activeInstances[i] # victim
    BY <1>7 DEF Delete, IInv, Destroying, Destruction
  <2>3. \A i \in Ids : Index[i] # Null => Index[i] # victim
    BY <2>2 DEF IInv, TablesAgree
  <2>4. \A n \in Maps : n # victim => inst'[n] = inst[n]
    BY <2>1 DEF IInv, TypeOK
  <2>5. \A k \in Keys : partyInstances[k] # NoId => partyInstances[k] \in Ids
    BY DEF IInv, TypeOK
  <2>6. \A i \in Ids : activeInstances[i] # Null => activeInstances[i] \in Maps
    BY DEF IInv, TypeOK
  <2>7. \A i \in Ids : Index[i] # Null => Index[i] \in Maps
    BY DEF IInv, TypeOK
  <2>8. \A i \in Ids : activeInstances[i] # Null => inst'[activeInstances[i]] = inst[activeInstances[i]]
    BY <2>2, <2>4, <2>6
  <2>9. \A i \in Ids : Index[i] # Null => inst'[Index[i]] = inst[Index[i]]
    BY <2>3, <2>4, <2>7
  <2>10. \A k \in Keys : partyInstances[k] # NoId =>
           inst'[activeInstances[partyInstances[k]]] = inst[activeInstances[partyInstances[k]]]
    BY <2>5, <2>8 DEF IInv, TablesAgree
  <2>11. UNCHANGED <<Index, listed, activeInstances, partyInstances>>
    BY <2>1 DEF tables
  <2> QED BY <2>8, <2>9, <2>10, <2>11 DEF IInv, TablesAgree
<1>8. CASE UseAfterDelete
  BY <1>8, Restarted DEF IInv
<1> QED BY <1>1, <1>2, <1>3, <1>4, <1>5, <1>6, <1>7, <1>8, QuietOrLoud DEF Loud

LEMMA LocksStep ==
  ASSUME IInv, [Next]_vars
  PROVE  Locks'
<1> USE DungeonAssumption DEF Rounds, Threads
<1>1. pc \in [Threads -> {pc[t] : t \in Threads}]
  BY DEF IInv, TypeOK
<1>2. CASE \E t \in Watchers : WatcherLocks(t) \/ WatcherUnlocks(t) \/ Die(t)
  <2>1. PICK t \in Watchers : WatcherLocks(t) \/ WatcherUnlocks(t) \/ Die(t)
    BY <1>2
  <2>2. t \in Threads /\ t # "socket" /\ t \in Rounds
    OBVIOUS
  <2>3. pc'["socket"] = pc["socket"] /\ dungeonMutex' = dungeonMutex
    BY <1>1, <2>1, <2>2 DEF WatcherLocks, WatcherUnlocks, Die, Goto, mutexes
  <2>4. CASE WatcherLocks(t)
    BY <1>1, <2>2, <2>3, <2>4 DEF IInv, Locks, WatcherLocks, Goto
  <2>5. CASE WatcherUnlocks(t)
    BY <1>1, <2>2, <2>3, <2>5 DEF IInv, Locks, WatcherUnlocks, Goto
  <2>6. CASE Die(t)
    BY <2>6 DEF IInv, Locks, Die, mutexes
  <2> QED BY <2>1, <2>4, <2>5, <2>6
<1>3. CASE World
  BY <1>1, <1>3 DEF IInv, Locks, World, WorldLocks, WorldUnlocks, Snapshot, Check, Empty, Evacuate,
    Emptied, Unpublish, Unregister, Delete, UpdateDone, Goto, mutexes
<1>4. CASE \E p \in Players :
             \/ \E z \in Zones : pakGate(p, z)
             \/ pakUserDied(p) \/ Leave(p) \/ pakPartyActions(p) \/ Disconnect(p)
  BY <1>1, <1>4 DEF IInv, Locks, Serving, pakGate, pakUserDied, Leave, pakPartyActions, Disconnect,
    Goto, mutexes
<1>5. CASE \/ GetOrCreatePartyInstance \/ CreateInstance \/ CreateInstanceFull \/ Register \/ Publish
           \/ TeleportPlayer \/ TeleportPlayerArrives \/ DeleteClientSocket
  BY <1>1, <1>5 DEF IInv, Locks, GetOrCreatePartyInstance, CreateInstance, CreateInstanceFull,
    Register, Publish, TeleportPlayer, TeleportPlayerArrives, DeleteClientSocket, Goto, mutexes
<1>6. CASE \/ \E m \in Maps : StandEmpty(m) \/ Expire(m)
           \/ UNCHANGED vars
  BY <1>6 DEF IInv, Locks, StandEmpty, Expire, vars, mutexes
<1>7. CASE UseAfterDelete
  BY <1>7, Restarted DEF IInv
<1> QED BY <1>2, <1>3, <1>4, <1>5, <1>6, <1>7 DEF Next

LEMMA TypeStep ==
  ASSUME IInv, [Next]_vars
  PROVE  TypeOK'
<1> USE DungeonAssumption DEF Rounds, Threads
<1>1. CASE Quiet /\ ~Loud
  <2>1. /\ heap' \subseteq Maps
        /\ inst' \in [Maps -> Instances \cup {Null}] /\ \A m \in heap' : inst'[m] \in Instances
        /\ Index' \in [Ids -> Maps \cup {Null}] /\ listed' \subseteq heap'
        /\ activeInstances' \in [Ids -> Maps \cup {Null}]
        /\ partyInstances' \in [Keys -> Ids \cup {NoId}]
    BY <1>1 DEF IInv, TypeOK, Quiet, Kept, tables
  <2>2. CASE \E t \in Watchers : WatcherLocks(t) \/ WatcherUnlocks(t)
    BY <2>1, <2>2 DEF IInv, TypeOK, WatcherLocks, WatcherUnlocks, Goto, people, locals
  <2>3. CASE \E t \in Watchers : Die(t)
    <3>1. PICK m \in listed : \E p \in inst[m].players : dead' = dead \cup {p}
      BY <2>3 DEF Die
    <3>2. inst[m] \in Instances
      BY <3>1 DEF IInv, TypeOK
    <3>3. inst[m].players \subseteq Players
      BY <3>2 DEF Instances
    <3> QED BY <2>1, <2>3, <3>1, <3>3 DEF IInv, TypeOK, Die, mutexes, locals
  <2>4. CASE WorldLocks \/ WorldUnlocks \/ UpdateDone \/ Snapshot
    BY <2>1, <2>4 DEF IInv, TypeOK, WorldLocks, WorldUnlocks, UpdateDone, Snapshot, Goto,
      mutexes, people, locals
  <2>5. CASE Check
    <3>1. PICK m \in Maps : victim' \in {victim, m} /\ doomed' \in {doomed, doomed \cup {m}} /\ todo' = todo \ {m}
      BY <2>5 DEF Check
    <3>2. pc' \in [Threads -> {"idle", "locking", "round", "lookup", "create",
                         "register", "publish", "teleport", "arrive", "disconnect",
                         "wipe", "timeout", "reviving", "evacuating", "snapshot",
                         "update", "unregister", "delete"}]
      BY <2>5 DEF Check, Goto, IInv, TypeOK
    <3> QED BY <2>1, <2>5, <3>1, <3>2 DEF IInv, TypeOK, Check, mutexes, people
  <2>6. CASE Empty
    <3>1. inst[victim] \in Instances
      BY <2>6 DEF IInv, TypeOK, Empty, Destroying, Live
    <3>2. inst[victim].players \subseteq Players
      BY <3>1 DEF Instances
    <3> QED BY <2>1, <2>6, <3>2 DEF IInv, TypeOK, Empty, Goto, mutexes, people
  <2>7. CASE Evacuate
    BY <2>1, <2>7 DEF IInv, TypeOK, Evacuate, mutexes
  <2>8. CASE Emptied
    <3>1. victim \in Maps
      BY <2>8 DEF IInv, TypeOK, Emptied, Destroying, Live
    <3> QED BY <2>1, <2>8, <3>1 DEF IInv, TypeOK, Emptied, Goto, mutexes, people
  <2>9. CASE \E p \in Players : \/ \E z \in Zones : pakGate(p, z)
                                \/ Disconnect(p)
    <3>1. PICK p \in Players : (\E z \in Zones : pakGate(p, z)) \/ Disconnect(p)
      BY <2>9
    <3>2. ASSUME Disconnect(p) PROVE request' \in Requests
      BY <3>2 DEF IInv, TypeOK, Disconnect, Requests
    <3>3. ASSUME \E z \in Zones : pakGate(p, z) PROVE request' \in Requests
      <4>1. PICK z \in Zones : request' = [p |-> p, key |-> <<z, party[p]>>, id |-> NoId, map |-> Null]
        BY <3>3 DEF pakGate
      <4>2. <<z, party[p]>> \in Keys
        BY DEF IInv, TypeOK, Keys
      <4> QED BY <4>1, <4>2 DEF Requests
    <3>4. request' \in Requests
      BY <3>1, <3>2, <3>3
    <3> QED BY <2>1, <3>1, <3>4 DEF IInv, TypeOK, pakGate, Disconnect, Goto, people
  <2>10. CASE \E p \in Players : pakUserDied(p) \/ Leave(p) \/ pakPartyActions(p)
    BY <2>1, <2>10 DEF IInv, TypeOK, pakUserDied, Leave, pakPartyActions, mutexes, locals, Owners
  <2>11. CASE GetOrCreatePartyInstance
    <3>1. request \in Requests /\ request.key \in Keys
      BY <2>11 DEF IInv, Creating, GetOrCreatePartyInstance
    <3> DEFINE id == partyInstances[request.key]
    <3>2. id \in Ids \cup {NoId}
      BY <3>1 DEF IInv, TypeOK
    <3>3. id # NoId => Index[id] \in Maps \cup {Null}
      BY <3>2 DEF IInv, TypeOK
    <3>4. \/ request' = request
          \/ id # NoId /\ request' = [request EXCEPT !.map = Index[id], !.id = id]
      BY <2>11 DEF GetOrCreatePartyInstance
    <3>5. request' \in Requests
      BY <3>1, <3>2, <3>3, <3>4 DEF Requests
    <3> QED BY <2>1, <2>11, <3>5 DEF IInv, TypeOK, GetOrCreatePartyInstance, Goto, mutexes, people
  <2>12. CASE CreateInstanceFull
    BY <2>1, <2>12 DEF IInv, TypeOK, CreateInstanceFull, Goto, mutexes, people, locals
  <2>13. CASE TeleportPlayer
    <3>1. request.map # Null => request.id \in Ids
      BY <2>13 DEF IInv, Creating, TeleportPlayer
    <3> QED BY <2>1, <2>13, <3>1 DEF IInv, TypeOK, TeleportPlayer, Goto, mutexes, locals
  <2>14. CASE TeleportPlayerArrives \/ DeleteClientSocket
    BY <2>1, <2>14 DEF IInv, TypeOK, TeleportPlayerArrives, DeleteClientSocket, Goto, people, Owners
  <2>15. CASE (\E m \in Maps : StandEmpty(m) \/ Expire(m)) \/ UNCHANGED vars
    BY <2>1, <2>15 DEF IInv, TypeOK, StandEmpty, Expire, vars, mutexes, people, locals
  <2> QED BY <1>1, <2>2, <2>3, <2>4, <2>5, <2>6, <2>7, <2>8, <2>9, <2>10, <2>11, <2>12, <2>13, <2>14, <2>15
          DEF Next, World, Loud
<1>2. CASE CreateInstance
  <2>1. PICK id \in FreeIds, m \in Maps \ heap :
          /\ heap' = heap \cup {m}
          /\ inst' = [inst EXCEPT ![m] = Dungeon(id, request.key)]
          /\ request' = [request EXCEPT !.map = m, !.id = id]
    BY <1>2 DEF CreateInstance
  <2>2. request \in Requests /\ request.key \in Keys /\ id \in Ids
    BY <1>2 DEF IInv, Creating, CreateInstance, FreeIds
  <2>3. Dungeon(id, request.key) \in Instances
    BY <2>2 DEF Dungeon, Instances
  <2>4. request' \in Requests
    BY <2>1, <2>2 DEF Requests
  <2>5. inst' \in [Maps -> Instances \cup {Null}] /\ \A n \in heap' : inst'[n] \in Instances
    BY <2>1, <2>3 DEF IInv, TypeOK
  <2> QED BY <1>2, <2>1, <2>4, <2>5 DEF IInv, TypeOK, CreateInstance, Goto, tables, people
<1>3. CASE Register
  <2>1. request.map \in heap
    BY <1>3 DEF IInv, Creating, Register
  <2> QED BY <1>3, <2>1 DEF IInv, TypeOK, Register, Goto, mutexes, people, locals
<1>4. CASE Publish
  <2>1. request.map \in heap
    BY <1>4 DEF IInv, Creating, Publish
  <2>2. inst[request.map].id \in Ids
    BY <2>1 DEF IInv, TypeOK, Instances
  <2> QED BY <1>4, <2>1, <2>2 DEF IInv, TypeOK, Publish, Goto, people, locals
<1>5. CASE Unpublish
  BY <1>5 DEF IInv, TypeOK, Unpublish, Goto, mutexes, people
<1>6. CASE Unregister
  <2>1. IndexWithout(victim) \in [Ids -> Maps \cup {Null}]
    BY DEF IInv, TypeOK, IndexWithout
  <2> QED BY <1>6, <2>1 DEF IInv, TypeOK, Unregister, Goto, mutexes, people, locals
<1>7. CASE Delete
  <2>1. victim \notin listed
    BY <1>7 DEF IInv, Destroying, Delete
  <2>2. /\ heap' = heap \ {victim}
        /\ inst' \in [Maps -> Instances \cup {Null}] /\ \A n \in heap' : inst'[n] \in Instances
    BY <1>7 DEF IInv, TypeOK, Delete
  <2>3. /\ Index' = Index /\ listed' = listed
        /\ activeInstances' = activeInstances /\ partyInstances' = partyInstances
    BY <1>7 DEF Delete, tables
  <2> QED BY <1>7, <2>1, <2>2, <2>3 DEF IInv, TypeOK, Delete, Goto, mutexes, people
<1>8. CASE UseAfterDelete
  BY <1>8, Restarted DEF IInv
<1> QED BY <1>1, <1>2, <1>3, <1>4, <1>5, <1>6, <1>7, <1>8, QuietOrLoud DEF Loud

LEMMA OwnStep ==
  ASSUME IInv, [Next]_vars
  PROVE  OwnDungeon'
<1> USE DungeonAssumption DEF Rounds, Threads
<1>1. pc \in [Threads -> {pc[t] : t \in Threads}]
  BY DEF IInv, TypeOK
<1>2. CASE GetOrCreatePartyInstance
  <2> DEFINE id == partyInstances[request.key]
  <2>1. request \in Requests /\ request.key \in Keys
    BY <1>2 DEF IInv, Creating, GetOrCreatePartyInstance
  <2>2. CASE id # NoId /\ Index[id] # Null
    <3> HIDE DEF id
    <3>0. id \in Ids /\ id = partyInstances[request.key]
      BY <2>1, <2>2 DEF IInv, TypeOK, id
    <3>1. inst[Index[id]].key = request.key
      BY <2>1, <2>2, <3>0 DEF IInv, TablesAgree
    <3>2. request'.map = Index[id] /\ request'.key = request.key /\ inst' = inst
      BY <1>2, <2>1, <2>2 DEF GetOrCreatePartyInstance, Requests, id
    <3> QED BY <3>1, <3>2 DEF OwnDungeon
  <2>3. CASE ~(id # NoId /\ Index[id] # Null)
    BY <1>1, <1>2, <2>3 DEF OwnDungeon, GetOrCreatePartyInstance, Goto
  <2> QED BY <2>2, <2>3
<1>3. CASE CreateInstanceFull
  BY <1>3 DEF IInv, TypeOK, Creating, OwnDungeon, CreateInstanceFull, locals
<1>4. CASE Publish
  BY <1>4 DEF IInv, Creating, OwnDungeon, Publish, locals
<1>5. CASE TeleportPlayer
  BY <1>5, SocketQuiet DEF IInv, TypeOK, Quiet, Kept, OwnDungeon, TeleportPlayer, locals
<1>6. CASE Delete
  <2>1. \A n \in heap' : inst'[n] = inst[n]
    BY <1>6 DEF IInv, TypeOK, Delete
  <2>2. UNCHANGED request /\ pc'["socket"] = pc["socket"] /\ heap' \subseteq heap
    BY <1>1, <1>6 DEF Delete, Goto
  <2> QED BY <2>1, <2>2 DEF IInv, OwnDungeon
<1>7. CASE UseAfterDelete
  BY <1>7, Restarted DEF IInv
<1>8. CASE CreateInstance \/ Register \/ TeleportPlayerArrives \/ DeleteClientSocket
           \/ \E p \in Players : Disconnect(p) \/ \E z \in Zones : pakGate(p, z)
  BY <1>1, <1>8 DEF OwnDungeon, CreateInstance, Register, TeleportPlayerArrives, DeleteClientSocket,
    Disconnect, pakGate, Goto
<1>9. CASE UNCHANGED <<pc["socket"], request>> /\ (Quiet \/ Unpublish \/ Unregister)
  BY <1>9 DEF IInv, TypeOK, OwnDungeon, Quiet, Kept, Unpublish, Unregister
<1> QED BY <1>2, <1>3, <1>4, <1>5, <1>6, <1>7, <1>8, <1>9, SocketApart DEF SocketSteps

LEMMA CreatingStep ==
  ASSUME IInv, [Next]_vars
  PROVE  Creating'
<1> USE DungeonAssumption DEF Rounds, Threads
<1>1. pc \in [Threads -> {pc[t] : t \in Threads}]
  BY DEF IInv, TypeOK
<1>2. TypeOK'
  BY TypeStep
<1> DEFINE m == request.map
           k == request.key
<1>3. CASE UNCHANGED <<pc["socket"], request>> /\ Quiet
  <2>1. m \in heap => m \in heap' /\ inst'[m].id = inst[m].id /\ inst'[m].key = inst[m].key
    BY <1>3 DEF Quiet, Kept
  <2> QED BY <1>3, <2>1 DEF IInv, Creating, Quiet, tables
<1>4. CASE UNCHANGED <<pc["socket"], request>> /\ Unpublish
  <2>1. pc["socket"] \notin {"register", "publish"}
    BY <1>4 DEF IInv, Locks, Unpublish
  <2>2. \A l \in Keys : partyInstances[l] = NoId => partyInstances'[l] = NoId
    BY <1>4 DEF IInv, TypeOK, Unpublish
  <2> QED BY <1>4, <2>1, <2>2 DEF IInv, Creating
<1>5. CASE UNCHANGED <<pc["socket"], request>> /\ Unregister
  <2>1. pc["socket"] \in {"register", "publish"} => m # victim /\ inst[m].id \in Ids
    BY <1>5 DEF IInv, TypeOK, Creating, Destroying, Destruction, Unregister, Instances
  <2>2. \A i \in Ids : /\ Index[i] = Null => Index'[i] = Null
                       /\ Index[i] # victim => Index'[i] = Index[i]
    BY <1>5 DEF Unregister, IndexWithout
  <2>3. UNCHANGED <<activeInstances, partyInstances, heap, inst>>
    BY <1>5 DEF Unregister
  <2> QED BY <1>5, <2>1, <2>2, <2>3 DEF IInv, Creating
<1>6. CASE Delete
  <2>1. pc["socket"] \in {"register", "publish"} => m # victim
    BY <1>6 DEF IInv, Destroying, Destruction, Delete
  <2>2. \A n \in Maps : n # victim => inst'[n] = inst[n]
    BY <1>6 DEF IInv, TypeOK, Delete
  <2>3. pc'["socket"] = pc["socket"] /\ UNCHANGED <<request, Index, activeInstances, partyInstances>>
    BY <1>1, <1>6 DEF Delete, Goto, tables
  <2>4. heap' = heap \ {victim} /\ heap \subseteq Maps
    BY <1>6 DEF IInv, TypeOK, Delete
  <2> QED BY <2>1, <2>2, <2>3, <2>4 DEF IInv, Creating
<1>7. CASE UseAfterDelete
  BY <1>7, Restarted DEF IInv
<1>8. CASE GetOrCreatePartyInstance
  <2> DEFINE id == partyInstances[k]
  <2>1. /\ pc["socket"] = "lookup" /\ UNCHANGED <<tables, heap, inst>>
        /\ request \in Requests /\ k \in Keys /\ m = Null
    BY <1>8 DEF IInv, Creating, GetOrCreatePartyInstance
  <2>2. id \in Ids \cup {NoId}
    BY <2>1 DEF IInv, TypeOK
  <2>3. CASE id # NoId /\ Index[id] # Null
    <3>1. request' = [request EXCEPT !.map = Index[id], !.id = id] /\ pc'["socket"] = "teleport"
      BY <1>1, <1>8, <2>3 DEF GetOrCreatePartyInstance, Goto
    <3>2. request' \in Requests /\ request'.id = id
      BY <2>1, <2>2, <2>3, <3>1 DEF Requests, IInv, TypeOK
    <3> QED BY <2>2, <2>3, <3>1, <3>2 DEF Creating
  <2>4. CASE ~(id # NoId /\ Index[id] # Null)
    <3>1. request' = request /\ pc'["socket"] = "create"
      BY <1>1, <1>8, <2>4 DEF GetOrCreatePartyInstance, Goto
    <3>2. id = NoId
      <4>1. CASE id \in Ids
        <5>1. id # NoId /\ Index[id] = Null
          BY <2>4, <4>1
        <5>2. activeInstances[id] # Null
          BY <2>1, <5>1 DEF IInv, TablesAgree
        <5>3. Index[id] = activeInstances[id]
          BY <4>1, <5>2 DEF IInv, TablesAgree
        <5> QED BY <5>1, <5>2, <5>3
      <4> QED BY <2>2, <4>1
    <3> QED BY <2>1, <3>1, <3>2 DEF Creating, tables
  <2> QED BY <2>3, <2>4
<1>9. CASE CreateInstance
  <2>1. PICK id \in FreeIds, n \in Maps \ heap :
          /\ heap' = heap \cup {n}
          /\ inst' = [inst EXCEPT ![n] = Dungeon(id, k)]
          /\ request' = [request EXCEPT !.map = n, !.id = id]
    BY <1>9 DEF CreateInstance
  <2>2. pc'["socket"] = "register" /\ pc["socket"] = "create" /\ UNCHANGED tables
    BY <1>1, <1>9 DEF CreateInstance, Goto
  <2>3. request \in Requests /\ k \in Keys /\ partyInstances[k] = NoId
    BY <2>2 DEF IInv, Creating
  <2>4. request' \in Requests /\ request'.map = n /\ request'.id = id /\ request'.key = k
    BY <2>1, <2>3 DEF Requests, FreeIds
  <2>5. inst'[n].key = k /\ inst'[n].id = id
    BY <2>1 DEF IInv, TypeOK, Dungeon
  <2>6. Index[id] = Null /\ activeInstances[id] = Null /\ id \in Ids
    BY DEF FreeIds
  <2>7. \A i \in Ids : activeInstances[i] # n
    <3>1. \A i \in Ids : activeInstances[i] # Null => activeInstances[i] \in heap
      BY DEF IInv, TypeOK, TablesAgree
    <3> QED BY <3>1
  <2> QED BY <2>1, <2>2, <2>3, <2>4, <2>5, <2>6, <2>7 DEF Creating, tables
<1>10. CASE CreateInstanceFull
  <2>1. pc'["socket"] = "teleport" /\ request' = request /\ m = Null /\ request \in Requests
    BY <1>1, <1>10 DEF CreateInstanceFull, Goto, locals, IInv, Creating
  <2> QED BY <2>1 DEF Creating
<1>11. CASE Register
  <2>1. /\ pc'["socket"] = "publish" /\ pc["socket"] = "register"
        /\ UNCHANGED <<request, activeInstances, partyInstances, heap, inst>>
        /\ Index' = [Index EXCEPT ![inst[m].id] = m]
    BY <1>1, <1>11 DEF Register, Goto, locals
  <2>2. inst[m].id \in Ids
    BY <2>1 DEF IInv, TypeOK, Creating, Instances
  <2> QED BY <2>1, <2>2 DEF IInv, TypeOK, Creating
<1>12. CASE Publish
  <2>1. pc'["socket"] = "teleport" /\ pc["socket"] = "publish" /\ request' = request
    BY <1>1, <1>12 DEF Publish, Goto, locals
  <2> QED BY <2>1 DEF IInv, Creating
<1>13. CASE TeleportPlayer
  <2>1. pc'["socket"] = "arrive" /\ pc["socket"] = "teleport" /\ request' = request
    BY <1>1, <1>13 DEF TeleportPlayer, Goto, locals
  <2> QED BY <2>1 DEF IInv, Creating
<1>14. CASE TeleportPlayerArrives \/ DeleteClientSocket
  <2>1. pc'["socket"] = "idle"
    BY <1>1, <1>14 DEF TeleportPlayerArrives, DeleteClientSocket, Goto
  <2> QED BY <2>1 DEF Creating
<1>15. CASE \E p \in Players : Disconnect(p)
  <2>1. PICK p \in Players : Disconnect(p)
    BY <1>15
  <2>2. pc'["socket"] = "disconnect"
    BY <1>1, <2>1 DEF Disconnect, Goto
  <2>3. request' \in Requests
    BY <2>1 DEF IInv, TypeOK, Disconnect, Requests
  <2> QED BY <2>2, <2>3 DEF Creating
<1>16. CASE \E p \in Players : \E z \in Zones : pakGate(p, z)
  <2>1. PICK p \in Players, z \in Zones : pakGate(p, z)
    BY <1>16
  <2>2. /\ pc'["socket"] = "lookup"
        /\ request' = [p |-> p, key |-> <<z, party[p]>>, id |-> NoId, map |-> Null]
    BY <1>1, <2>1 DEF pakGate, Goto
  <2>3. <<z, party[p]>> \in Keys
    BY DEF IInv, TypeOK, Keys
  <2> QED BY <2>2, <2>3 DEF Creating, Requests
<1> QED BY <1>3, <1>4, <1>5, <1>6, <1>7, <1>8, <1>9, <1>10, <1>11, <1>12, <1>13, <1>14, <1>15, <1>16,
           SocketApart DEF SocketSteps

LEMMA DestroyingStep ==
  ASSUME IInv, [Next]_vars
  PROVE  Destroying'
<1> USE DungeonAssumption DEF Rounds, Threads
<1>1. pc \in [Threads -> {pc[t] : t \in Threads}]
  BY DEF IInv, TypeOK
<1> DEFINE WorldRests == UNCHANGED <<pc["world"], victim, todo, doomed>>
<1>2. \A n \in heap : inst[n].id \in Ids /\ inst[n].key \in Keys
  BY DEF IInv, TypeOK, Instances
<1>3. CASE Quiet /\ WorldRests /\ UNCHANGED <<pc["socket"], request>>
  BY <1>3 DEF IInv, Destroying, Destruction, Live, Quiet, Kept, tables
<1>4. CASE Quiet /\ WorldRests /\ pc'["socket"] \notin {"register", "publish"}
  BY <1>4 DEF IInv, Destroying, Destruction, Live, Quiet, Kept, tables
<1>5. CASE CreateInstance
  <2>1. PICK id \in FreeIds, n \in Maps \ heap :
          /\ heap' = heap \cup {n}
          /\ inst' = [inst EXCEPT ![n] = Dungeon(id, request.key)]
          /\ request' = [request EXCEPT !.map = n, !.id = id]
    BY <1>5 DEF CreateInstance
  <2>2. WorldRests /\ UNCHANGED tables /\ pc["socket"] = "create"
    BY <1>1, <1>5 DEF CreateInstance, Goto
  <2>3. request \in Requests
    BY <2>2 DEF IInv, Creating
  <2>4. request'.map = n
    BY <2>1, <2>3 DEF Requests
  <2>5. \A l \in heap : inst'[l] = inst[l]
    BY <2>1 DEF IInv, TypeOK
  <2>6. \A l \in heap : Live(l) => Live(l)'
    BY <2>1, <2>2, <2>5 DEF Live, tables
  <2>7. victim \in heap => victim # n
    OBVIOUS
  <2> QED BY <2>1, <2>2, <2>4, <2>6, <2>7 DEF IInv, Destroying, Destruction, Live, tables
<1>6. CASE Register
  <2>1. WorldRests /\ UNCHANGED <<activeInstances, heap, inst, request>> /\ listed' = listed \cup {request.map}
    BY <1>1, <1>6 DEF Register, Goto, locals
  <2>2. pc["socket"] = "register"
    BY <1>6 DEF Register
  <2> QED BY <2>1, <2>2 DEF IInv, Destroying, Destruction, Live
<1>7. CASE Publish
  <2> DEFINE i == inst[request.map].id
  <2>1. /\ WorldRests /\ UNCHANGED <<heap, inst, listed>> /\ pc'["socket"] = "teleport"
        /\ activeInstances' = [activeInstances EXCEPT ![i] = request.map]
        /\ pc["socket"] = "publish"
    BY <1>1, <1>7 DEF Publish, Goto, locals
  <2>2. activeInstances[i] = Null /\ i \in Ids /\ request.map # Null
    BY <1>2, <2>1 DEF IInv, TypeOK, Creating
  <2>3. \A l \in Maps : Live(l) => Live(l)'
    BY <1>2, <2>1, <2>2 DEF IInv, TypeOK, Live
  <2>4. Destruction => \A j \in Ids : activeInstances'[j] # victim
    BY <2>1, <2>2 DEF IInv, TypeOK, Destroying
  <2> QED BY <2>1, <2>3, <2>4 DEF IInv, TypeOK, Destroying, Destruction, Live
<1>8. CASE UseAfterDelete
  BY <1>8, Restarted DEF IInv
<1>9. CASE WorldLocks \/ WorldUnlocks \/ UpdateDone
  <2>1. Quiet
    BY <1>9, Unchanged DEF IInv, Quiet, WorldLocks, WorldUnlocks, UpdateDone
  <2>2. UNCHANGED <<victim, todo, doomed>> /\ pc["world"] \in {"idle", "round", "update"} /\ pc'["world"] \in {"idle", "round", "snapshot"}
    BY <1>1, <1>9 DEF WorldLocks, WorldUnlocks, UpdateDone, Goto, locals
  <2> QED BY <2>1, <2>2 DEF IInv, Destroying, Destruction, Live, Quiet, Kept, tables
<1>10. CASE Snapshot
  <2>1. /\ pc["world"] = "snapshot" /\ pc'["world"] = "update" /\ UNCHANGED <<victim, doomed, heap, inst, tables>>
        /\ todo' = {activeInstances[id] : id \in Ids} \ {Null}
    BY <1>1, <1>10 DEF Snapshot, Goto
  <2>2. \A n \in todo' : Live(n)
    BY <2>1 DEF IInv, TypeOK, TablesAgree, Live
  <2> QED BY <2>1, <2>2 DEF IInv, Destroying, Destruction, Live, tables
<1>11. CASE Check
  <2>1. PICK n \in Maps : Earliest(n, todo) /\ todo' = todo \ {n} /\ doomed' \in {doomed, doomed \cup {n}}
                          /\ (pc'["world"] \in {"wipe", "timeout"} => victim' = n)
    BY <1>1, <1>11 DEF Check, Goto
  <2>2. pc["world"] = "update" /\ pc'["world"] \in {"update", "wipe", "timeout"}
    BY <1>1, <1>11 DEF Check, Goto
  <2>3. \A l \in todo \cup doomed : Live(l)
    BY <2>2 DEF IInv, Destroying, Destruction
  <2>4. Quiet
    BY <1>11, <2>2, WorldQuiet DEF World, Unpublish, Unregister, Delete, Check, Earliest
  <2>5. \A l \in Maps : Live(l) => Live(l)'
    BY <2>4 DEF Live, Quiet, Kept, tables
  <2> QED BY <2>1, <2>2, <2>3, <2>5 DEF IInv, TypeOK, Destroying, Destruction, Earliest
<1>12. CASE Empty \/ Evacuate
  <2>1. /\ pc["world"] \in {"wipe", "timeout", "reviving", "evacuating"}
        /\ pc'["world"] \in {"wipe", "timeout", "reviving", "evacuating"}
        /\ UNCHANGED <<victim, todo, doomed>>
    BY <1>1, <1>12 DEF Empty, Evacuate, Goto
  <2>2. Quiet
    BY <1>12, <2>1, WorldQuiet DEF World, Unpublish, Unregister, Delete
  <2> QED BY <2>1, <2>2 DEF IInv, Destroying, Destruction, Live, Quiet, Kept, tables
<1>13. CASE Emptied
  <2>1. /\ pc["world"] \in {"reviving", "evacuating"} /\ pc'["world"] = "update"
        /\ UNCHANGED todo /\ doomed' = doomed \cup {victim}
    BY <1>1, <1>13 DEF Emptied, Goto
  <2>2. Quiet
    BY <1>13, <2>1, WorldQuiet DEF World, Unpublish, Unregister, Delete
  <2> QED BY <2>1, <2>2 DEF IInv, Destroying, Destruction, Live, Quiet, Kept, tables
<1>14. CASE Unpublish
  <2>1. PICK n \in Maps :
          Earliest(n, doomed) /\ victim' = n /\ activeInstances' = [activeInstances EXCEPT ![inst[n].id] = Null]
    BY <1>14 DEF Unpublish
  <2>2. /\ pc["world"] = "update" /\ pc'["world"] = "unregister" /\ todo = {}
        /\ UNCHANGED <<heap, inst, request, todo, doomed>> /\ pc'["socket"] = pc["socket"]
    BY <1>1, <1>14 DEF Unpublish, Goto
  <2>3. \A l \in doomed : Live(l)
    BY <2>2 DEF IInv, Destroying, Destruction
  <2>4. pc["socket"] \notin {"register", "publish"}
    BY <1>14 DEF IInv, Locks, Unpublish
  <2>5. Live(n) /\ inst[n].id \in Ids /\ n # Null
    BY <1>2, <2>1, <2>3 DEF Earliest, Live
  <2>6. \A l \in doomed : l # n => Live(l)'
    BY <1>2, <2>1, <2>2, <2>3, <2>5 DEF IInv, TypeOK, Live
  <2>7. \A j \in Ids : activeInstances'[j] # n
    <3>1. \A j \in Ids : activeInstances[j] = n => j = inst[n].id
      BY <2>5 DEF IInv, TablesAgree
    <3> QED BY <2>1, <2>5, <3>1 DEF IInv, TypeOK
  <2> QED BY <2>1, <2>2, <2>4, <2>5, <2>6, <2>7 DEF Destroying, Destruction, Live
<1>15. CASE Unregister
  <2>1. /\ pc["world"] = "unregister" /\ pc'["world"] = "delete" /\ pc'["socket"] = pc["socket"]
        /\ UNCHANGED <<activeInstances, heap, inst, request, victim, todo, doomed>> /\ listed' = listed \ {victim}
    BY <1>1, <1>15 DEF Unregister, Goto, locals
  <2> QED BY <2>1 DEF IInv, Destroying, Destruction, Live
<1>16. CASE Delete
  <2>1. /\ pc["world"] = "delete" /\ pc'["world"] = "update"
        /\ UNCHANGED <<activeInstances, todo>> /\ doomed' = doomed \ {victim} /\ heap' = heap \ {victim}
    BY <1>1, <1>16 DEF Delete, Goto, tables
  <2>2. \A l \in Maps : l # victim => inst'[l] = inst[l]
    BY <1>16 DEF IInv, TypeOK, Delete
  <2> QED BY <2>1, <2>2 DEF IInv, TypeOK, Destroying, Destruction, Live
<1>17. CASE \E t \in Watchers : WatcherLocks(t) \/ WatcherUnlocks(t) \/ Die(t)
  <2>1. PICK t \in Watchers : WatcherLocks(t) \/ WatcherUnlocks(t) \/ Die(t)
    BY <1>17
  <2>2. WorldRests /\ UNCHANGED <<pc["socket"], request>>
    BY <1>1, <2>1 DEF WatcherLocks, WatcherUnlocks, Die, Goto, locals
  <2> QED BY <1>3, <2>1, <2>2, WatchersQuiet
<1>18. CASE \E p \in Players :
             \/ \E z \in Zones : pakGate(p, z)
             \/ pakUserDied(p) \/ Leave(p) \/ pakPartyActions(p) \/ Disconnect(p)
  <2>1. pc["socket"] = "idle" /\ WorldRests /\ pc'["socket"] \in {"idle", "lookup", "disconnect"}
    BY <1>1, <1>18 DEF pakGate, pakUserDied, Leave, pakPartyActions, Disconnect, Serving, Goto, locals
  <2> QED BY <1>4, <1>18, <2>1, HandlersQuiet
<1>19. CASE \/ GetOrCreatePartyInstance \/ CreateInstanceFull
            \/ TeleportPlayer \/ TeleportPlayerArrives \/ DeleteClientSocket
  <2>1. WorldRests /\ pc'["socket"] \in {"create", "teleport", "arrive", "idle"}
    BY <1>1, <1>19 DEF GetOrCreatePartyInstance, CreateInstanceFull, TeleportPlayer, TeleportPlayerArrives,
      DeleteClientSocket, Goto, locals
  <2> QED BY <1>4, <1>19, <2>1, SocketQuiet
<1>20. CASE \E m \in Maps : StandEmpty(m) \/ Expire(m)
  <2>1. WorldRests /\ UNCHANGED <<pc["socket"], request>>
    BY <1>20 DEF StandEmpty, Expire, locals
  <2> QED BY <1>3, <1>20, <2>1, TimeQuiet
<1>21. CASE UNCHANGED vars
  <2>1. WorldRests /\ UNCHANGED <<pc["socket"], request>> /\ Quiet
    BY <1>21, Unchanged DEF IInv, Quiet, vars, locals
  <2> QED BY <1>3, <2>1
<1> QED BY <1>5, <1>6, <1>7, <1>8, <1>9, <1>10, <1>11, <1>12, <1>13, <1>14, <1>15, <1>16, <1>17, <1>18,
           <1>19, <1>20, <1>21 DEF Next, World

-----------------------------------------------------------------------------
(* Theorems *)

LEMMA Initially == Init => IInv
<1> USE DungeonAssumption
<1> SUFFICES ASSUME Init PROVE IInv
  OBVIOUS
<1>1. party \in [Players -> Owners]
  BY DEF Init, Owners
<1>2. TypeOK
  BY <1>1 DEF TypeOK, Init, Threads, Rounds
<1> QED BY <1>2 DEF IInv, Init, TablesAgree, Locks, Creating, Destroying, Destruction, OwnDungeon,
  Rounds, Threads, Live

LEMMA Inductive == IInv /\ [Next]_vars => IInv'
BY TypeStep, TablesStep, LocksStep, CreatingStep, DestroyingStep, OwnStep DEF IInv

\* The invariant holds in every reachable state of the server.
THEOREM Invariant == Spec => []IInv
BY Initially, Inductive, PTL DEF Spec

\* Type correctness: what MapList lists is on the heap, and what is on the heap
\* is an instance.
THEOREM TypeCorrect == Spec => []TypeOK
<1>1. IInv => TypeOK
  BY DEF IInv
<1> QED BY <1>1, Invariant, PTL

\* The tables of the manager and MapList agree between any two steps of
\* CreateInstance and DestroyInstance, which hold no mutex across all of them.
THEOREM TablesAlwaysAgree == Spec => []TablesAgree
<1>1. IInv => TablesAgree
  BY DEF IInv
<1> QED BY <1>1, Invariant, PTL

\* A party never has two instances of one dungeon.
THEOREM OneInstance == Spec => []OneInstancePerParty
<1>1. IInv => OneInstancePerParty
  BY DEF IInv, TablesAgree, OneInstancePerParty
<1> QED BY <1>1, Invariant, PTL

\* Whatever GetOrCreatePartyInstance found or made is, if it is still there when
\* the player gets to it, an instance of that player's party.
THEOREM AlwaysOwnDungeon == Spec => []OwnDungeon
<1>1. IInv => OwnDungeon
  BY DEF IInv
<1> QED BY <1>1, Invariant, PTL

\* No round over the maps sees MapList.Map change or a map of it deleted.
THEOREM RoundsAreUndisturbed == Spec => RoundsUndisturbed
<1> DEFINE Step == \A t \in Rounds : pc[t] = "round" /\ pc'[t] = "round" =>
                     listed' = listed /\ listed \subseteq heap'
<1>1. IInv /\ [Next]_vars => [Step]_vars
  <2> SUFFICES ASSUME IInv, Next, NEW t \in Rounds, pc[t] = "round", pc'[t] = "round"
               PROVE  listed' = listed /\ listed \subseteq heap'
    BY DEF vars
  <2> USE DungeonAssumption DEF Rounds, Threads
  <2>1. mapMutex = t /\ mapMutex # NoThread /\ listed \subseteq heap
    BY DEF IInv, Locks, TypeOK
  <2>2. CASE Quiet
    BY <2>1, <2>2 DEF Quiet, Kept, tables
  <2>3. CASE CreateInstance \/ Publish \/ Unpublish
    BY <2>1, <2>3 DEF CreateInstance, Publish, Unpublish, tables
  <2>4. CASE Register \/ Unregister
    BY <2>1, <2>4 DEF Register, Unregister
  <2>5. CASE Delete
    BY <2>1, <2>5 DEF Delete, tables, IInv, Destroying
  <2>6. CASE UseAfterDelete
    BY <2>6 DEF UseAfterDelete, Restart
  <2> QED BY <2>2, <2>3, <2>4, <2>5, <2>6, QuietOrLoud DEF Loud
<1> QED BY <1>1, Invariant, PTL DEF Spec, RoundsUndisturbed
=============================================================================
