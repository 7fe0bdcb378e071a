---------------------------- MODULE MCCommunity -----------------------------
(***************************************************************************)
(* Two game clients, one of which has two characters, and two regular      *)
(* chatrooms.  Friends and chatrooms share the clients' comings and goings *)
(* and nothing else, so the run looks at states in which one of them is    *)
(* at rest.  All three rooms exist only while the number that means none   *)
(* was the last one given.                                                 *)
(***************************************************************************)
EXTENDS Community, TLC

CONSTANTS ann, bob, x1, x2, y1
MCOwnerOf == (x1 :> ann) @@ (x2 :> ann) @@ (y1 :> bob)
MCMayBefriend == {<<x1, y1>>, <<y1, x1>>}

NoFriends  == rows = {} /\ torn = {} /\ misread = {} /\ friends = [c \in Clients |-> {}]
NoChatting == \A r \in Rooms : ~Exists(r)
FewRooms == Cardinality({r \in Rooms : Exists(r)}) <= 2 \/ lastRoom = LastRoom
NoLatePackets == \A x \in Chars :
  x \in inWorld \cup Range(toChar) => \E c \in Clients : charid[c] = x /\ screen[c] \in {"game", "leaving"}
OneAtRest  == (NoFriends /\ NoLatePackets /\ FewRooms) \/ (NoChatting /\ lastRoom = 0)
=============================================================================
