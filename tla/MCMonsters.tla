----------------------------- MODULE MCMonsters -----------------------------
(***************************************************************************)
(* Two players and two maps.  The area and the summons share only the      *)
(* players, so each row of spawns is looked at with players that do not    *)
(* summon, and one player's summons beside an area that stays as it is.     *)
(***************************************************************************)
EXTENDS Monsters

CONSTANTS ann, bob, home, away

MCPlayers == {ann, bob}
MCMaps == {home, away}

None == [count |-> 0, known |-> FALSE]
One  == [count |-> 1, known |-> TRUE]
Two  == [count |-> 2, known |-> TRUE]
Odd  == [count |-> 1, known |-> FALSE]

Row(basic, tactical) == [basic |-> basic, tactical |-> tactical]

Idle == Row(<<Odd, None, None, None, None>>, <<None, None>>)

MCRows ==
  { Row(<<One, One, One, One, One>>,         <<One, One>>),
    Row(<<One, One, One, One, One>>,         <<None, One>>),
    Row(<<One, One, One, One, One>>,         <<None, None>>),
    Row(<<One, Two, One, None, None>>,       <<None, None>>),
    Row(<<One, One, One, None, None>>,       <<One, None>>),
    Row(<<One, None, One, None, None>>,      <<None, None>>),
    Row(<<One, None, None, None, None>>,     <<One, None>>),
    Row(<<One, None, None, None, None>>,     <<None, None>>),
    Row(<<Two, One, Odd, None, None>>,       <<None, None>>),
    Row(<<Odd, One, One, One, One>>,         <<None, One>>),
    Row(<<One, One, One, One, Odd>>,         <<One, None>>),
    Row(<<One, One, None, None, Odd>>,       <<Odd, None>>),
    Row(<<One, One, One, One, One>>,         <<One, Odd>>),
    Row(<<One, One, One, One, One>>,         <<Odd, None>>),
    Row(<<Odd, One, One, One, None>>,        <<One, None>>),
    Idle }

MCInit ==
  /\ MonstersInit
  /\ IF row = Idle THEN skilled = {ann} ELSE skilled = {}

MCSpec == MCInit /\ [][MonstersNext]_monstersvars /\ Fairness
=============================================================================
