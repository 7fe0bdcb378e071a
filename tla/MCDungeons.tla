----------------------------- MODULE MCDungeons -----------------------------
(***************************************************************************)
(* Two players, one dungeon, one slot and one map for its instances.       *)
(***************************************************************************)
EXTENDS Dungeons

CONSTANTS p1, p2, ours
=============================================================================
