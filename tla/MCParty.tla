------------------------------ MODULE MCParty -------------------------------
(***************************************************************************)
(* Three players and a bot; parties hold two at level 1 and three at 2.    *)
(* PartyIDList has the ids 1 and 2, of which any may be marked from the    *)
(* start, and GetNewPartyID's loop reads one byte more.                    *)
(***************************************************************************)
EXTENDS Party, TLC

MCCapacity == <<2, 3>>
Symmetric  == Permutations(Users) \cup Permutations(Parties)
=============================================================================
