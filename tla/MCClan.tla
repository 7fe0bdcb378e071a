------------------------------- MODULE MCClan -------------------------------
(***************************************************************************)
(* Three characters, two clans and one stop of a server.  The run looks at *)
(* what happens until something is done on the strength of a copy that is  *)
(* out of date, which is all that the properties speak of, and at no more  *)
(* than MaxAtOnce things out of the ordinary at a time: packets on their   *)
(* way, characters connected to one server only or decided upon behind the *)
(* world server's back, clans given a master by others, a stop, the second *)
(* clan and, counted twice, the third character.  It goes no further from  *)
(* a state where somebody without a clan has a master's rank in its entry. *)
(* Characters may be exchanged for one another: the order of a list of     *)
(* members is looked at by no step and by no property until then.          *)
(***************************************************************************)
EXTENDS ClanRoster, TLC

CONSTANTS
  ann, bob, cid,
  MaxAtOnce      \* bound: things out of the ordinary at a time
Symmetric == Permutations(Chars)

UpToDrift == ~drifted

Involved ==
  {x \in Chars : x \in online \cup inWorld \/ row[x] # Unset \/ decided[x].clan # NoClan}
HalfConnected == (online \ inWorld) \cup (inWorld \ online)
NotTooMuch ==
  Len(toChar) + Len(toWorld) + crashes + Cardinality(HalfConnected)
    + Cardinality(missed) + Cardinality(usurped)
    + (IF founded > 1 THEN 1 ELSE 0)
    + (IF Cardinality(Involved) > 2 THEN 2 ELSE 0) <= MaxAtOnce
NoMasterOutside ==
  \A x \in online : decided[x].clan = NoClan => entry[x].rank # Master
=============================================================================
