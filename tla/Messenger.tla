------------------------------ MODULE Messenger ------------------------------
(***************************************************************************)
(* Friends.  A friendship is two rows of table list_friend, one for each   *)
(* side.  Each connected client also has a copy of its side, FriendList,   *)
(* read when its character is chosen: whom the server tells that the       *)
(* player comes and goes is decided by that copy.                          *)
(*                                                                         *)
(* The handlers change several things in turn, any statement may fail in   *)
(* between, and deleting a friend leaves the copies as they are.           *)
(***************************************************************************)
EXTENDS CharClients

CONSTANT MayBefriend  \* bound: who may accept whom (client's character, other)

ASSUME MayBefriendAssumption == MayBefriend \in SUBSET (Chars \X Chars)

VARIABLES
  rows,       \* list_friend, as pairs <<id, idfriend>>
  friends,    \* CCharClient::FriendList, the characters in it
  shown,      \* the friends a game client shows online
  torn,       \* history: rows whose friendship a failed statement cut in two
  misread     \* history: <<x, y>>: x took y, back at the list, for online, or
              \*   saw y before y's entry took another character

messengerVars == <<rows, friends, shown, torn, misread>>

MessengerTypeOK ==
  /\ CharClientsTypeOK
  /\ rows \in SUBSET (Chars \X Chars)
  /\ friends \in [Clients -> SUBSET Chars]
  /\ shown \in [Clients -> SUBSET Chars]
  /\ torn \in SUBSET (Chars \X Chars)
  /\ misread \in SUBSET (Chars \X Chars)

MessengerInit ==
  /\ rows = {} /\ torn = {} /\ misread = {}
  /\ friends = [c \in Clients |-> {}]
  /\ shown = [c \in Clients |-> {}]

FriendsOf(x) == {y \in Chars : <<x, y>> \in rows}

\* ChangeMessengerStatus(x, ., 0x07 or 0x08) to the clients cs, on what the
\* game clients show.
Online(show, cs, x)  == [c \in Clients |-> IF c \in cs THEN show[c] \cup {x} ELSE show[c]]
Offline(show, cs, x) == [c \in Clients |-> IF c \in cs THEN show[c] \ {x} ELSE show[c]]

\* The character is found, but only with an entry that is marked as logged out.
LoggedOut(y) == Found({y}) # {} /\ \A d \in Found({y}) : logout[d]

BothWays(x, y) == {<<x, y>>, <<y, x>>}

\* An entry that takes x before the world server has reported the end of the
\* character it had: that one's friends are not told.
Overtaken(c, x) ==
  {p \in Chars \X Chars : p[2] = charid[c] /\ p[2] # x /\ ~logout[c]}
-----------------------------------------------------------------------------
\* pakRequestWorld, once the entry has the character x: the rows are added to
\* FriendList, the friends that are found are shown online and told of x; the
\* client's own list is replaced.
MessengerChosen(c, x) ==
  LET FoundNow(xs) == {d \in Clients : charid'[d] \in xs}
      online       == {y \in FriendsOf(x) : FoundNow({y}) # {}}
  IN
  /\ friends' = [friends EXCEPT ![c] = @ \cup FriendsOf(x)]
  /\ shown' = [Online(shown, FoundNow(online), x) EXCEPT ![c] = online]
  /\ misread' = {p \in misread : p[1] # x}
                  \cup {<<x, y>> : y \in {z \in online : LoggedOut(z)}}
                  \cup Overtaken(c, x)
  /\ UNCHANGED <<rows, torn>>

\* Case 0xfa: the world server reports that x has left.
pakMessengerLogout ==
  /\ toChar # <<>>
  /\ LET x == Head(toChar) IN
       /\ x \in Chars
       /\ logout' = [c \in Clients |-> logout[c] \/ charid[c] = x]
       /\ shown' = Offline(shown, Found(UNION {friends[c] : c \in Found({x})}), x)
  /\ toChar' = Tail(toChar)
  /\ UNCHANGED <<screen, charid, inWorld, faults, rows, friends, torn, misread>>

\* Mutant of MessengerDisconnected: the test of logout is inverted.
MessengerDisconnectedSwapped(c, show, list) ==
  /\ friends' = [friends EXCEPT ![c] = {}]
  /\ shown' = [Offline(show, IF logout[c] THEN Found(list) ELSE {}, charid[c])
                 EXCEPT ![c] = {}]

\* OnClientDisconnect and DeleteClientSocket, with the FriendList and the view
\* the handler leaves: a player not yet logged out is shown offline to those on
\* its FriendList.
MessengerDisconnected(c, show, list) ==
  /\ friends' = [friends EXCEPT ![c] = {}]
  /\ shown' = [Offline(show, IF logout[c] THEN {} ELSE Found(list), charid[c])
                 EXCEPT ![c] = {}]
-----------------------------------------------------------------------------
\* Mutant of AcceptFriend: the other side's copy is forgotten.
AcceptFriendOneSided(c, y) ==
  LET x == charid[c] IN
  /\ Playing(c)
  /\ <<x, y>> \in MayBefriend
  /\ Found({y}) # {}
  /\ rows' = rows \cup BothWays(x, y)
  /\ friends' = [friends EXCEPT ![c] = @ \cup {y}]
  /\ shown' = [Online(shown, Found({y}), x) EXCEPT ![c] = @ \cup {y}]
  /\ torn' = torn \ BothWays(x, y)
  /\ misread' = misread \cup {p \in BothWays(x, y) : LoggedOut(p[2])}
  /\ UNCHANGED clientVars

\* Case 0x02: x accepts y, whether or not y has invited.
AcceptFriend(c, y) ==
  LET x == charid[c] IN
  /\ Playing(c)
  /\ <<x, y>> \in MayBefriend
  /\ Found({y}) # {}
  /\ rows' = rows \cup BothWays(x, y)
  /\ friends' = [d \in Clients |-> friends[d] \cup (IF d = c THEN {y} ELSE {})
                                     \cup (IF d \in Found({y}) THEN {x} ELSE {})]
  /\ shown' = [Online(shown, Found({y}), x) EXCEPT ![c] = @ \cup {y}]
  /\ torn' = torn \ BothWays(x, y)
  /\ misread' = misread \cup {p \in BothWays(x, y) : LoggedOut(p[2])}
  /\ UNCHANGED clientVars

\* Case 0x02 when its second INSERT fails (stored), or already its first: y was
\* told, x's connection is closed.
AcceptCut(c, y, stored) ==
  LET x == charid[c] IN
  /\ Playing(c)
  /\ <<x, y>> \in MayBefriend
  /\ Found({y}) # {}
  /\ faults < MaxFaults
  /\ faults' = faults + 1
  /\ rows' = IF stored THEN rows \cup {<<y, x>>} ELSE rows
  /\ torn' = torn \cup BothWays(x, y)
  /\ MessengerDisconnected(c, Online(shown, Found({y}), x),
                           IF stored THEN friends[c] \cup {y} ELSE friends[c])
  /\ UNCHANGED <<inWorld, toChar, misread>>

\* Mutant of DeleteFriend: only the own row is deleted.
DeleteFriendOwnRow(c, y, whole) ==
  LET x == charid[c] IN
  /\ Playing(c)
  /\ <<x, y>> \in rows \/ y \in shown[c]
  /\ ~whole => faults < MaxFaults
  /\ faults' = IF whole THEN faults ELSE faults + 1
  /\ rows' = rows \ {<<x, y>>}
  /\ torn' = IF whole THEN torn \ BothWays(x, y) ELSE torn \cup BothWays(x, y)
  /\ shown' = [Offline(shown, Found({y}), x) EXCEPT ![c] = @ \ {y}]
  /\ UNCHANGED <<friends, misread, screen, charid, logout, inWorld, toChar>>

\* Case 0x05: both rows go, or with a failed second statement one; the copies
\* of both sides stay.
DeleteFriend(c, y, whole) ==
  LET x == charid[c] IN
  /\ Playing(c)
  /\ <<x, y>> \in rows \/ y \in shown[c]
  /\ ~whole => faults < MaxFaults
  /\ faults' = IF whole THEN faults ELSE faults + 1
  /\ rows' = rows \ (IF whole THEN BothWays(x, y) ELSE {<<x, y>>})
  /\ torn' = IF whole THEN torn \ BothWays(x, y) ELSE torn \cup BothWays(x, y)
  /\ shown' = [Offline(shown, Found({y}), x) EXCEPT ![c] = @ \ {y}]
  /\ UNCHANGED <<friends, misread, screen, charid, logout, inWorld, toChar>>

\* The char server stops and starts again: its memory is lost, the table is not.
MessengerRestarted ==
  /\ friends' = [c \in Clients |-> {}]
  /\ shown' = [c \in Clients |-> {}]
  /\ UNCHANGED <<rows, torn, misread>>
-----------------------------------------------------------------------------
(***************************************************************************)
(* Properties                                                              *)
(***************************************************************************)

\* A friendship is in the table for both sides or for neither, unless a
\* failed statement has cut this one in two.
RowsMutual == \A x, y \in Chars : <<x, y>> \in rows /\ <<x, y>> \notin torn => <<y, x>> \in rows

\* Whoever is a player's friend in the table is on the copy that decides who
\* is told, through any number of invitations, deletions and new logins.
CopyCoversTable ==
  \A c \in Clients : \A y \in Chars :
    Playing(c) /\ <<charid[c], y>> \in rows =>
      y \in friends[c] \/ <<charid[c], y>> \in torn

\* A friend that is shown online is connected and not logged out, unless a
\* failed statement came between the two; or the viewer looked while the
\* friend, already logged out, was back at the list of characters, where
\* GetClientByID finds it still and its end is announced to nobody; or the
\* friend took another character before its end was reported.
ShownIsThere ==
  \A c \in Clients : \A y \in shown[c] :
    Playing(c) =>
      \/ Found({y}) # {} /\ ~LoggedOut(y)
      \/ <<charid[c], y>> \in torn \cup misread
=============================================================================
