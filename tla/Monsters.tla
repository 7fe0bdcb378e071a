------------------------------ MODULE Monsters ------------------------------
(***************************************************************************)
(* The monsters of the maps: a spawn area of the map Home, which only      *)
(* lives while a player is there (WorldProcess and MapProcess skip a map   *)
(* without players), and the players' summons, which MapProcess visits on  *)
(* every map.  A summon costs its caster a part of the summon gauge, here  *)
(* one of Limit parts, and SummonUpdate gives the part back.               *)
(*                                                                         *)
(* A summon knows its caster twice: by client id, which a teleport or a    *)
(* login replaces (pakDoID), and by user id.  Not modelled: an id that is  *)
(* given to another player while the summon lives, summons of monsters and *)
(* of items (they cost nothing), several threads in MonsterList at once,   *)
(* and dungeon instances, whose nb_summons is never initialised.           *)
(***************************************************************************)
EXTENDS SpawnArea, FiniteSets, Functions, BagsExt

CONSTANTS
  Characters,  \* the players
  Maps,
  Home,        \* the map of the spawn area
  Limit,       \* how many summons the gauge allows
  Life,        \* how many times SummonUpdate can take life from a summon
  MaxSummons   \* bound: summons at a time

ASSUME MonstersAssumption ==
  /\ Home \in Maps /\ "off" \notin Maps
  /\ Limit \in Nat /\ Life \in Nat \ {0} /\ MaxSummons \in Nat

VARIABLES
  skilled,     \* players with a summoning skill
  at,          \* the map of a player, or "off"
  fallen,      \* players that are dead
  cur_gauge,
  summons,     \* bag of the summons
  robbed,      \* history: players a summon of whom was deleted for nothing
  overpaid     \* history: players that got a summon's cost back twice

player == <<skilled, at, fallen, cur_gauge, summons, robbed, overpaid>>
monstersvars == <<area, player>>

Online == {p \in Characters : at[p] # "off"}
On(m) == {p \in Characters : at[p] = m}

\* A summon is a record of user and map; owned: its caster still has the client id
\* it cast with; hp; paid: its cost is no longer in the caster's gauge.

\* The summons, each replaced by what f says.
Replaced(f) ==
  [t \in {f[s] : s \in DOMAIN f} |-> SumFunctionOnSet(summons, {s \in DOMAIN f : f[s] = t})]

\* p has another client id; p's gauge knows of no summon.
Orphaned(p) ==
  Replaced([s \in DOMAIN summons |-> [s EXCEPT !.owned = @ /\ s.user # p]])
Unbooked(p) ==
  Replaced([s \in DOMAIN summons |-> [s EXCEPT !.paid = @ \/ s.user = p]])

MonstersInit ==
  /\ AreaInit
  /\ skilled \in SUBSET Characters
  /\ at = [p \in Characters |-> "off"] /\ fallen = {}
  /\ cur_gauge = [p \in Characters |-> 0]
  /\ summons = [s \in {} |-> 0] /\ robbed = {} /\ overpaid = {}

-----------------------------------------------------------------------------
(* The spawn area *)

\* WorldProcess.
Respawns == On(Home) # {} /\ Respawn /\ UNCHANGED player

MonsterDies == Dies /\ UNCHANGED player

\* MapProcess finds a dead monster, near a player or not.
DeletesDead == On(Home) # {} /\ DeleteMonsters(0, 1) /\ UNCHANGED player

-----------------------------------------------------------------------------
(* Players *)

\* DoSkillScript.
Casts(p) ==
  /\ p \in skilled /\ p \in Online \ fallen
  /\ cur_gauge[p] + 1 <= Limit
  /\ SumFunction(summons) < MaxSummons
  /\ cur_gauge' = [cur_gauge EXCEPT ![p] = @ + 1]
  /\ summons' = BagAdd(summons, [user |-> p, map |-> at[p], owned |-> TRUE,
                                 hp |-> Life, paid |-> FALSE])
  /\ UNCHANGED <<area, skilled, at, fallen, robbed, overpaid>>

\* The player's object is new: its gauge is empty, whatever still lives.
LogsIn(p) ==
  /\ at[p] = "off"
  /\ \E m \in Maps : at' = [at EXCEPT ![p] = m]
  /\ cur_gauge' = [cur_gauge EXCEPT ![p] = 0]
  /\ summons' = Unbooked(p)
  /\ UNCHANGED <<area, skilled, fallen, robbed, overpaid>>

LogsOut(p) ==
  /\ p \in Online
  /\ at' = [at EXCEPT ![p] = "off"]
  /\ fallen' = fallen \ {p}
  /\ summons' = Orphaned(p)
  /\ UNCHANGED <<area, skilled, cur_gauge, robbed, overpaid>>

\* TeleportPlayer and the pakDoID that follows, to any map, from among the dead too.
Teleports(p) ==
  /\ p \in Online
  /\ \E m \in Maps : at' = [at EXCEPT ![p] = m]
  /\ fallen' = fallen \ {p}
  /\ summons' = Orphaned(p)
  /\ UNCHANGED <<area, skilled, cur_gauge, robbed, overpaid>>

PlayerDies(p) ==
  /\ p \in Online \ fallen
  /\ fallen' = fallen \cup {p}
  /\ UNCHANGED <<area, skilled, at, cur_gauge, summons, robbed, overpaid>>

Revives(p) ==
  /\ p \in fallen
  /\ fallen' = fallen \ {p}
  /\ UNCHANGED <<area, skilled, at, cur_gauge, summons, robbed, overpaid>>

-----------------------------------------------------------------------------
(* Summons *)

\* A summon falls in battle.
SummonFalls(s) ==
  /\ s.hp > 0
  /\ summons' = BagAdd(BagRemove(summons, s), [s EXCEPT !.hp = 0])
  /\ UNCHANGED <<area, skilled, at, fallen, cur_gauge, robbed, overpaid>>

\* Mutant of Payee: only one whose client id is still that of the cast.
PayeeByClientId(s) == IF s.owned THEN {s.user} ELSE {}

\* Whom SummonUpdate gives the cost back to, looked up by user id in the end.
Payee(s) == {s.user} \cap Online

\* SummonUpdate: life goes by while there is some; the cost is given back when
\* none is left, and also when the owner is not found on the map or is dead,
\* although the summon then stays; a dead one is paid for at every visit.
\* Then MapProcess deletes a dead one that it sees near a player.
SummonUpdate(s, near) ==
  LET hp    == IF s.hp > 0 THEN s.hp - 1 ELSE 0
      pays  == hp = 0 \/ ~s.owned \/ s.user \in fallen
      payee == IF pays THEN Payee(s) ELSE {}
      left  == BagRemove(summons, s)
  IN  /\ near => On(s.map) # {}
      /\ cur_gauge' = [p \in Characters |->
           IF p \in payee /\ cur_gauge[p] > 0 THEN cur_gauge[p] - 1 ELSE cur_gauge[p]]
      /\ overpaid' = overpaid \cup {p \in payee : s.paid /\ cur_gauge[p] > 0}
      /\ summons' = IF near /\ hp = 0 THEN left
                    ELSE BagAdd(left, [s EXCEPT !.hp = hp, !.paid = @ \/ payee # {}])
      /\ UNCHANGED <<area, skilled, at, fallen, robbed>>

\* A game master kills what is near on his map, or part of it: the loop passes
\* over the monster that takes the place of a deleted one.
pakGMKillInRange(p) ==
  /\ at[p] = Home
  /\ \E n \in 0..alive, m \in 0..dead : DeleteMonsters(n, m)
  /\ \E killed \in SUBSET {s \in DOMAIN summons : s.map = Home} :
       /\ summons' = [s \in DOMAIN summons \ killed |-> summons[s]]
       /\ robbed' = robbed \cup {s.user : s \in {x \in killed : ~x.paid}}
  /\ UNCHANGED <<skilled, at, fallen, cur_gauge, overpaid>>

PlayerActs(p) ==
  \/ Casts(p) \/ LogsIn(p) \/ LogsOut(p) \/ Teleports(p) \/ PlayerDies(p) \/ Revives(p)
  \/ pakGMKillInRange(p)

SummonActs(s) == SummonFalls(s) \/ \E near \in BOOLEAN : SummonUpdate(s, near)

MonstersNext ==
  \/ Respawns \/ MonsterDies \/ DeletesDead
  \/ \E p \in Characters : PlayerActs(p)
  \/ \E s \in DOMAIN summons : SummonActs(s)

\* The two threads go round for as long as the server runs.
Fairness == WF_monstersvars(Respawns) /\ WF_monstersvars(DeletesDead)

MonstersSpec == MonstersInit /\ [][MonstersNext]_monstersvars /\ Fairness

-----------------------------------------------------------------------------
(* What is checked *)

\* While players stay, the area of a row that endures has monsters again and
\* again, whatever is killed; that of any other row, once empty often enough, is
\* empty for good.
ComesAgain ==
  /\ Endures => ((<>[](On(Home) # {})) => []<>(alive > 0))
  /\ ~Endures => (([]<>(alive = 0)) => <>[](alive = 0))

\* How many of p's summons are still in its gauge.
Unpaid(p) == SumFunctionOnSet(summons, {s \in DOMAIN summons : s.user = p /\ ~s.paid})

\* The gauge of a connected player is what its summons cost: more only when one
\* was deleted without a pay-back, less only when one was paid back twice.
GaugeRight ==
  \A p \in Online : /\ p \in robbed \/ cur_gauge[p] <= Unpaid(p)
                    /\ p \in overpaid \/ Unpaid(p) <= cur_gauge[p]
=============================================================================
