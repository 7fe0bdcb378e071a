------------------------------ MODULE ClientIds ------------------------------
(***************************************************************************)
(* The client ids of a world server: the number by which game clients      *)
(* address a player, a monster or a thing on the ground.  ClientIDList has *)
(* an entry per id, 0 while it is given, else the time it was given back.  *)
(*                                                                         *)
(* GetNewClientID searches the list and then writes it, under whichever of *)
(* PlayerMutex and MapMutex it could lock: it takes a mutex it cannot lock *)
(* for one that its own thread has locked already.  Its two halves are     *)
(* therefore operators of their own.                                       *)
(*                                                                         *)
(* An id rests for ten seconds before it is given again, and a search      *)
(* begins where the last one ended.  Both only say which of the ids that   *)
(* are not given a search finds; here it finds any, or none for all may    *)
(* rest.                                                                   *)
(***************************************************************************)
EXTENDS Naturals, FiniteSets

CONSTANTS
  Ids,  \* the ids, but 1, which the first NPC keeps
  NoId  \* what a search without success answers (0)

ASSUME IdsAssumption == NoId \notin Ids

VARIABLE given  \* the ids whose entry in ClientIDList is 0

\* What a search may find while the ids g are given.
Findable(g) == (Ids \ g) \cup {NoId}

\* ClientIDList after the write of id i; and after ClearClientID, which leaves
\* an id alone that is not given.
Gives(i)  == given \cup ({i} \cap Ids)
Clears(i) == given \ {i}

\* The ids, if any, that the write of i gives a second time.
Twice(i) == {i} \cap given
=============================================================================
