----------------------------- MODULE MCStorage ------------------------------
(***************************************************************************)
(* One player with a bag of three slots and a storage of two.              *)
(***************************************************************************)
EXTENDS Storage, TLC

CONSTANTS ann, potion, gem

MCTab == (potion :> {1, 2}) @@ (gem :> {3})
MCFee == [it \in Items |-> IF it = potion THEN 1 ELSE 0]

BagItems   == (ann :> <<Stack(potion, 2), Stack(potion, 2), Stack(gem, 1)>>)
BagZuly    == (ann :> 2)
BagStorage == (ann :> <<Stack(potion, 2), Empty>>)
=============================================================================
