------------------------------ MODULE SpawnArea ------------------------------
(***************************************************************************)
(* One spawn area of a map (CSpawnArea): a row of table spawns with five   *)
(* basic groups of monsters and two of tactical ones, the latter spawned   *)
(* together as group 6.  When all monsters of the area are gone for long   *)
(* enough, RespawnMonster moves MobPointer on and spawns that group.       *)
(*                                                                         *)
(* MCount is what the server believes there is: it counts the calls of     *)
(* AddMonster, successful or not, and DeleteMonster counts MonsterList     *)
(* anew.  Which monsters a group has does not matter, only how many and    *)
(* whether the server knows their kind: AddMonster returns NULL otherwise. *)
(* The loader's loop that should refuse such a row, for(int i=1;i==5;i++), *)
(* is never entered.                                                       *)
(***************************************************************************)
EXTENDS Naturals

CONSTANT Rows  \* rows of table spawns

Group == [count : Nat, known : BOOLEAN]
ASSUME RowsAssumption ==
  Rows \subseteq [basic : [1..5 -> Group], tactical : [1..2 -> Group]]

VARIABLES
  row,         \* the area's row
  MobPointer,  \* the group that was spawned last, as a rule
  MCount,      \* how many monsters the area is believed to have
  ResetSpawn,  \* the time without monsters is being counted
  alive, dead  \* the area's monsters in MonsterList, and those among them
               \*   that wait for MapProcess to find them dead

area == <<row, MobPointer, MCount, ResetSpawn, alive, dead>>

Tactical == 6

\* Calls of AddMonster for a group, and those that succeed.
Calls(k) ==
  IF k = Tactical THEN row.tactical[1].count + row.tactical[2].count ELSE row.basic[k].count
Known(g) == IF g.known THEN g.count ELSE 0
Births(k) ==
  IF k = Tactical THEN Known(row.tactical[1]) + Known(row.tactical[2]) ELSE Known(row.basic[k])

\* Mutant of NextPointer: the pointer stays at the tactical group.
NextPointerStays(p) == IF p >= 5 THEN Tactical ELSE p + 1

\* From 6 the pointer goes to 1 and, by the test after, on to 2.
NextPointer(p) == CASE p = Tactical -> 2
                    [] p = 5        -> Tactical
                    [] OTHER        -> p + 1

\* Where the pointer rests when it meets an empty group.
Fallback == IF Calls(Tactical) = 0 THEN 1 ELSE Tactical

\* An empty tactical group gives way to the first, within the same round.
Chosen(p) == IF p = Tactical /\ Calls(Tactical) = 0 THEN 1 ELSE p

\* A new area, with its first group.
AreaInit ==
  /\ row \in Rows
  /\ row.basic[1].count > 0
  /\ MobPointer = 1 /\ ResetSpawn = FALSE
  /\ MCount = Calls(1) /\ alive = Births(1) /\ dead = 0

\* RespawnMonster, before and after the respawn time.
StartWaiting ==
  /\ MCount = 0 /\ ~ResetSpawn
  /\ ResetSpawn' = TRUE
  /\ UNCHANGED <<row, MobPointer, MCount, alive, dead>>

Spawn ==
  LET k == Chosen(NextPointer(MobPointer)) IN
  /\ MCount = 0 /\ ResetSpawn
  /\ ResetSpawn' = FALSE
  /\ MobPointer' = IF Calls(k) = 0 THEN Fallback ELSE k
  /\ MCount' = Calls(k)
  /\ alive' = alive + Births(k)
  /\ UNCHANGED <<row, dead>>

Respawn == StartWaiting \/ Spawn

Dies ==
  /\ alive > 0
  /\ alive' = alive - 1 /\ dead' = dead + 1
  /\ UNCHANGED <<row, MobPointer, MCount, ResetSpawn>>

\* DeleteMonster, n times for a monster that lives, m times for a dead one.
DeleteMonsters(n, m) ==
  /\ n <= alive /\ m <= dead
  /\ alive' = alive - n /\ dead' = dead - m
  /\ MCount' = IF n + m > 0 THEN alive' + dead' ELSE MCount
  /\ UNCHANGED <<row, MobPointer, ResetSpawn>>

-----------------------------------------------------------------------------
\* What a row's groups need for an area to go on: a second group, and in each
\* group that the pointer comes to at least one monster of a known kind.
Reached(k) ==
  IF k = 1 THEN Calls(Tactical) = 0 /\ \A i \in 2..5 : row.basic[i].count > 0
           ELSE \A i \in 2..k : i <= 5 => row.basic[i].count > 0
Endures == row.basic[2].count > 0 /\ Births(1) > 0
           /\ \A k \in 2..Tactical : Reached(k) /\ Calls(k) > 0 => Births(k) > 0
=============================================================================
