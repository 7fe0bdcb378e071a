------------------------------ MODULE Chatrooms ------------------------------
(***************************************************************************)
(* Chatrooms of the char server: chatroom_list, each room's People_list,   *)
(* and the room each client is in.  The two are kept apart: People_list    *)
(* names characters, by charid, and a client knows its room's number.      *)
(* Nobody is asked before they go out of step, and the list of rooms is    *)
(* cleaned only when somebody asks for it.                                 *)
(***************************************************************************)
EXTENDS CharClients, Functions

CONSTANTS
  LastRoom,   \* number GetChatroomID returns when none is free (0xff)
  MayChat,    \* bound: the clients that use chatrooms
  Sizes,      \* bound: sizes asked for (nb_max)
  MaxListed   \* bound: entries of all the People_lists together

ASSUME ChatroomsAssumption ==
  /\ LastRoom \in Nat \ {0, 1} /\ MayChat \in SUBSET Clients
  /\ Sizes \in SUBSET (Nat \ {0}) /\ MaxListed \in Nat

Rooms == 1..LastRoom

VARIABLES
  people,    \* People_list of each room; empty when there is no such room
  nbMax,     \* nb_max of each room
  chatroom,  \* CCharClient::chatroom_id, 0 for none
  lastRoom   \* last_chatroom_id

chatVars == <<people, nbMax, chatroom, lastRoom>>

ChatTypeOK ==
  /\ people \in [Rooms -> Seq(Chars)]
  /\ nbMax \in [Rooms -> Nat]
  /\ chatroom \in [Clients -> Rooms \cup {0}]
  /\ lastRoom \in Rooms \cup {0}

ChatInit ==
  /\ people = [r \in Rooms |-> <<>>]
  /\ nbMax = [r \in Rooms |-> 0]
  /\ chatroom = [c \in Clients |-> 0]
  /\ lastRoom = 0

Exists(r)     == people[r] # <<>>
Members(r)    == Range(people[r])
Without(s, i) == SubSeq(s, 1, i - 1) \o SubSeq(s, i + 1, Len(s))
MoreFit       == MapThenSumSet(LAMBDA r : Len(people[r]), Rooms) < MaxListed
-----------------------------------------------------------------------------
\* Mutant of Unlisted: the first entry goes, whoever's it is.
UnlistedFirst(s, x) == IF x \in Range(s) THEN Tail(s) ELSE s

\* DisconnectClientFromChat: the first entry of the character goes, and with
\* its last entry the room.
Unlisted(s, x) ==
  IF x \in Range(s) THEN Without(s, Min({i \in DOMAIN s : s[i] = x})) ELSE s

DisconnectClientFromChat(c) ==
  /\ people' = IF chatroom[c] = 0 THEN people
               ELSE [people EXCEPT ![chatroom[c]] = Unlisted(@, charid[c])]
  /\ chatroom' = [chatroom EXCEPT ![c] = 0]
  /\ UNCHANGED <<nbMax, lastRoom>>

\* Entries of characters nobody plays are removed; after a removal the scan
\* goes on at the second entry, so what moved up to the first place stays.
IsOnline(x) == Found({x}) # {}

\* The entries of s that stay, in their order: SelectSeq(s, IsOnline), by the
\* length of what was scanned.
Played(s) ==
  LET scanned[i \in 0..Len(s)] ==
        IF i = 0 THEN <<>>
        ELSE IF IsOnline(s[i]) THEN Append(scanned[i - 1], s[i]) ELSE scanned[i - 1]
  IN scanned[Len(s)]

Cleaned(s) ==
  IF IsOnline(s[1]) THEN Played(s)
  ELSE IF Len(s) = 1 THEN <<>>
  ELSE <<s[2]>> \o Played(SubSeq(s, 3, Len(s)))

\* Case 0x01, asking for the list, in no room.  A room that is erased takes
\* the scan's iterator with it: the rooms after it are cleaned or not.
ListRooms(c, stop) ==
  LET done == {r \in Rooms : Exists(r) /\ r <= stop} IN
  /\ Playing(c) /\ c \in MayChat
  /\ chatroom[c] = 0
  /\ stop = LastRoom \/ (Exists(stop) /\ Cleaned(people[stop]) = <<>>)
  /\ people' = [r \in Rooms |-> IF r \in done THEN Cleaned(people[r]) ELSE people[r]]
  /\ UNCHANGED <<nbMax, chatroom, lastRoom>>

\* GetChatroomID: the next free number, from the start again after the last,
\* or LastRoom, which its caller does not take for a failure.
GetChatroomID ==
  LET after  == {r \in Rooms : r > lastRoom /\ r < LastRoom /\ ~Exists(r)}
      before == {r \in Rooms : r <= lastRoom /\ ~Exists(r)}
  IN IF after # {} THEN Min(after) ELSE IF before # {} THEN Min(before) ELSE LastRoom

\* Case 0x02, in no room, with a name that is free.
CreateRoom(c, size) ==
  /\ Playing(c) /\ c \in MayChat
  /\ chatroom[c] = 0
  /\ MoreFit
  /\ lastRoom' = GetChatroomID
  /\ people' = [people EXCEPT ![GetChatroomID] = <<charid[c]>>]
  /\ nbMax' = [nbMax EXCEPT ![GetChatroomID] = size]
  /\ chatroom' = [chatroom EXCEPT ![c] = GetChatroomID]

\* Entries before the first of x, all of them when it has none (max_users).
Before(s, x) ==
  IF x \in Range(s) THEN Min({i \in DOMAIN s : s[i] = x}) - 1 ELSE Len(s)

\* Case 0x03, with the right password: the client may be in a room already,
\* this one included.
JoinRoom(c, r) ==
  /\ Playing(c) /\ c \in MayChat
  /\ Exists(r)
  /\ Before(people[r], charid[c]) <= nbMax[r]
  /\ MoreFit
  /\ people' = [people EXCEPT ![r] = Append(@, charid[c])]
  /\ chatroom' = [chatroom EXCEPT ![c] = r]
  /\ UNCHANGED <<nbMax, lastRoom>>

\* Case 0x04.
LeaveRoom(c) ==
  /\ Playing(c) /\ c \in MayChat
  /\ chatroom[c] # 0
  /\ DisconnectClientFromChat(c)

\* OnClientDisconnect returns before the chatrooms for a player that is logged
\* out or has no clan: its entry stays on the People_list.
ChatDisconnected(c, reached) ==
  IF reached THEN DisconnectClientFromChat(c)
  ELSE /\ chatroom' = [chatroom EXCEPT ![c] = 0]
       /\ UNCHANGED <<people, nbMax, lastRoom>>

\* The char server stops and starts again.
ChatRestarted ==
  /\ people' = [r \in Rooms |-> <<>>]
  /\ nbMax' = [r \in Rooms |-> 0]
  /\ chatroom' = [c \in Clients |-> 0]
  /\ lastRoom' = 0
-----------------------------------------------------------------------------
(***************************************************************************)
(* Properties                                                              *)
(***************************************************************************)

\* A client in a room is on that room's list, whatever room lists are cleaned
\* and however often it entered; only the number that GetChatroomID returns
\* when all are taken can be given to a second room.
InRoomIsListed ==
  \A c \in Clients :
    chatroom[c] \in 1..(LastRoom - 1) => charid[c] \in Members(chatroom[c])

\* A room lists at most one character more than its size, however often
\* members come back.
RoomBound == \A r \in Rooms : Exists(r) => Cardinality(Members(r)) <= nbMax[r] + 1

\* What a room lists and who is in it, both ways.
RoomsRight == InRoomIsListed /\ RoomBound
=============================================================================
