----------------------------- MODULE MCClanBank -----------------------------
(***************************************************************************)
(* Two members of a clan, one of them a deputy; a potion and a gem.        *)
(***************************************************************************)
EXTENDS ClanBank, TLC

CONSTANTS ann, ben, potion

MCTab  == (potion :> {1})
MCZuly == (ann :> 1) @@ (ben :> 1)
MCBags == (ann :> <<Stack(potion, 1)>>) @@ (ben :> <<Empty>>)

\* Bound: how much zuly is made before a behaviour is followed no further.
CONSTANT MaxMade
LittleMade == made <= MaxMade
=============================================================================
