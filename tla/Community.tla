------------------------------ MODULE Community ------------------------------
(***************************************************************************)
(* The char server's community: friends and chatrooms over the clients     *)
(* that come, choose a character, leave the world and go.  Each handler of *)
(* the connection changes the state of both in one step.                   *)
(***************************************************************************)
EXTENDS Messenger, Chatrooms

CONSTANT Clanned   \* the characters whose clanid names a clan

ASSUME ClannedAssumption == Clanned \in SUBSET Chars

vars == <<clientVars, messengerVars, chatVars>>

Init == CharClientsInit /\ MessengerInit /\ ChatInit

\* A new connection, and pakDoIdentify on it.
pakDoIdentify(c) == Connected(c) /\ UNCHANGED <<messengerVars, chatVars>>

\* Mutant of pakGetCharacters: the client stays in its chatroom.
pakGetCharactersChatting(c) == Listed(c) /\ UNCHANGED <<messengerVars, chatVars>>

\* The list of characters: the client leaves its chatroom.
pakGetCharacters(c) ==
  /\ Listed(c)
  /\ DisconnectClientFromChat(c)
  /\ UNCHANGED messengerVars

\* A character is chosen; its friends are read and told.
pakRequestWorld(c, x) == Chosen(c, x) /\ MessengerChosen(c, x) /\ UNCHANGED chatVars

\* The connection of c is closed, with what its last handler left.
Closed(c, reached) ==
  /\ Forgotten({c})
  /\ ChatDisconnected(c, reached)

ClanReached(c) == ~logout[c] /\ charid[c] \in Clanned

OnClientDisconnect(c) ==
  /\ screen[c] # "off"
  /\ MessengerDisconnected(c, shown, friends[c])
  /\ Closed(c, ClanReached(c))
  /\ UNCHANGED <<inWorld, toChar, faults, rows, torn, misread>>

\* A failed INSERT ends the connection as well.
pakMessengerFails(c, y, stored) == AcceptCut(c, y, stored) /\ Closed(c, ClanReached(c))

\* The char server crashes, and with it all connections to it.
Restart ==
  /\ \E c \in Clients : screen[c] # "off"
  /\ Forgotten(Clients)
  /\ toChar' = <<>>
  /\ MessengerRestarted
  /\ ChatRestarted
  /\ UNCHANGED <<inWorld, faults>>

FriendSteps ==
  /\ \/ pakMessengerLogout
     \/ \E c \in Clients, y \in Chars :
          AcceptFriend(c, y) \/ \E whole \in BOOLEAN : DeleteFriend(c, y, whole)
  /\ UNCHANGED chatVars

ChatSteps ==
  /\ \E c \in Clients :
       \/ \E r \in Rooms : ListRooms(c, r) \/ JoinRoom(c, r)
       \/ \E size \in Sizes : CreateRoom(c, size)
       \/ LeaveRoom(c)
  /\ UNCHANGED <<clientVars, messengerVars>>

WorldSteps ==
  /\ \/ \E c \in Clients : WorldCharSelect(c)
     \/ \E x \in Chars : WorldDisconnect(x)
     \/ pakWSCharSelect
  /\ UNCHANGED <<messengerVars, chatVars>>

Next ==
  \/ \E c \in Clients :
       \/ pakDoIdentify(c)
       \/ pakGetCharacters(c)
       \/ \E x \in Chars : pakRequestWorld(c, x)
       \/ OnClientDisconnect(c)
       \/ \E y \in Chars, stored \in BOOLEAN : pakMessengerFails(c, y, stored)
  \/ FriendSteps \/ ChatSteps \/ WorldSteps
  \/ Restart

Spec == Init /\ [][Next]_vars
-----------------------------------------------------------------------------
TypeOK == MessengerTypeOK /\ ChatTypeOK

\* Still on the list of room r, in which it was, without being in it.
LeftBehind(c, r) ==
  /\ chatroom[c] = r /\ chatroom'[c] # r
  /\ charid[c] \in Range(people'[r])

\* Whoever leaves a room is taken off its list, but for three cases: it went
\* straight on to another room, it was on the list twice, or it was
\* disconnected when already logged out, or without a clan.
LeavingUnlists ==
  [][\A c \in Clients, r \in 1..(LastRoom - 1) :
       LeftBehind(c, r) =>
         \/ chatroom'[c] # 0
         \/ Cardinality({i \in DOMAIN people[r] : people[r][i] = charid[c]}) > 1
         \/ screen'[c] = "off" /\ ~ClanReached(c)]_vars
=============================================================================
