------------------------- MODULE MCAccountSession -------------------------
(* Two clients share one account, the old session and the new one. *)
EXTENDS AccountSession

CONSTANTS a1

OneAccount == [c \in Clients |-> a1]
=============================================================================
