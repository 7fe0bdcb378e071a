------------------------------- MODULE MCField -------------------------------
(***************************************************************************)
(* Two players, a bot and two items.  The run looks at what happens until  *)
(* an id is mixed up, which is all that IdsUnique speaks of, and until     *)
(* MaxLeaks ids are forgotten.  Players, items and ids are used alike.     *)
(***************************************************************************)
EXTENDS Field, TLC

CONSTANTS ann, bob, robot, sword, shield, i1, i2, i3, i4, noId, nobody, MaxLeaks

UntilMixed == ~mixed
FewLeaks == Cardinality(leaked) <= MaxLeaks
Alike == Permutations(Players) \cup Permutations(Things) \cup Permutations(Ids)
=============================================================================
