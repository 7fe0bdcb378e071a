-------------------------- MODULE Community_proofs --------------------------
(***************************************************************************)
(* Friends keep one picture of each other for any clients, characters and  *)
(* numbers of faults and packets.  What the handlers use is that an entry  *)
(* of ClientList plays a character of its own account, and what shows it   *)
(* is that whom a copy of the friends omits is cut off by a failed         *)
(* statement, and that a shown friend has the viewer on its own copy: it   *)
(* is that copy that decides who is told when the friend goes.             *)
(*                                                                         *)
(* The chatrooms come second: what keeps a client of a room on the room's  *)
(* list is that no two clients play one character, so that what another    *)
(* one takes off the list is not the client's entry, and that a client     *)
(* chooses a character only when it is in no room.                         *)
(***************************************************************************)
EXTENDS Community, SequenceTheorems, FiniteSetTheorems, WellFoundedInduction, TLAPS

\* An entry's character is one of its account; a player has a character.
Entries ==
  \A c \in Clients :
    /\ charid[c] # NoChar => OwnerOf[charid[c]] = c
    /\ Playing(c) => charid[c] # NoChar

\* A cut friendship is cut for both sides.
TornMutual == \A a, b \in Chars : <<a, b>> \in torn => <<b, a>> \in torn

\* CopyCoversTable for everyone that has chosen a character.
CopyOf(c) ==
  \A y \in Chars : charid[c] # NoChar /\ <<charid[c], y>> \in rows =>
                     y \in friends[c] \/ <<charid[c], y>> \in torn
Copies == \A c \in Clients : CopyOf(c)

\* The character y is played, and its end has not been reported.
There(y) == charid[OwnerOf[y]] = y /\ ~logout[OwnerOf[y]]

\* What client c shows of y is excused, or y is there and will tell c.
View(c, y) ==
  \/ <<charid[c], y>> \in torn \cup misread
  \/ There(y) /\ charid[c] \in friends[OwnerOf[y]]
Views == \A c \in Clients : \A y \in shown[c] : Playing(c) => View(c, y)

IInv ==
  /\ MessengerTypeOK /\ Entries
  /\ TornMutual /\ RowsMutual
  /\ Copies /\ Views

-----------------------------------------------------------------------------
(* GetClientByID *)

\* A character is found with one entry, that of its account, if at all.
LEMMA FoundIs ==
  ASSUME CharClientsTypeOK, Entries, NEW xs \in SUBSET Chars, NEW c \in Clients
  PROVE  /\ c \in Found(xs) <=> charid[c] \in xs
         /\ charid[c] \in xs => c = OwnerOf[charid[c]]
BY CharClientsAssumption DEF Found, CharClientsTypeOK, Entries

\* The entry of one character.
LEMMA FoundOne ==
  ASSUME CharClientsTypeOK, Entries, NEW y \in Chars
  PROVE  /\ OwnerOf[y] \in Clients
         /\ \A d \in Clients : d \in Found({y}) <=> charid[d] = y
         /\ \A d \in Found({y}) : d = OwnerOf[y] /\ charid[d] = y
         /\ Found({y}) # {} <=> charid[OwnerOf[y]] = y
         /\ LoggedOut(y) <=> charid[OwnerOf[y]] = y /\ logout[OwnerOf[y]]
<1>1. OwnerOf[y] \in Clients /\ y # NoChar
  BY CharClientsAssumption
<1>2. \A d \in Clients : charid[d] = y => d = OwnerOf[y]
  BY <1>1 DEF Entries
<1>3. \A d \in Clients : d \in Found({y}) <=> charid[d] = y
  BY <1>1 DEF Found
<1>4. Found({y}) \subseteq Clients
  BY DEF Found
<1> QED BY <1>1, <1>2, <1>3, <1>4 DEF LoggedOut

-----------------------------------------------------------------------------
(* Types and entries *)

\* MessengerDisconnected leaves values of the right kind.
LEMMA DisconnectedTypes ==
  ASSUME MessengerTypeOK, NEW c \in Clients, NEW show \in [Clients -> SUBSET Chars],
         NEW list, MessengerDisconnected(c, show, list)
  PROVE  friends' \in [Clients -> SUBSET Chars] /\ shown' \in [Clients -> SUBSET Chars]
<1>1. friends' \in [Clients -> SUBSET Chars]
  BY DEF MessengerDisconnected, MessengerTypeOK
<1>2. \A cs, x : Offline(show, cs, x) \in [Clients -> SUBSET Chars]
  BY DEF Offline
<1> QED BY <1>1, <1>2 DEF MessengerDisconnected

\* Forgotten leaves entries of the right kind, without the characters.
LEMMA ForgottenTypes ==
  ASSUME CharClientsTypeOK, NEW cs \in SUBSET Clients, Forgotten(cs)
  PROVE  /\ screen' \in [Clients -> Screens]
         /\ charid' \in [Clients -> Chars \cup {NoChar}]
         /\ logout' \in [Clients -> BOOLEAN]
BY DEF Forgotten, CharClientsTypeOK, Screens

LEMMA OnlineTypes ==
  ASSUME NEW show \in [Clients -> SUBSET Chars], NEW cs, NEW x \in Chars
  PROVE  Online(show, cs, x) \in [Clients -> SUBSET Chars]
BY DEF Online

LEMMA OfflineTypes ==
  ASSUME NEW show \in [Clients -> SUBSET Chars], NEW cs, NEW x
  PROVE  Offline(show, cs, x) \in [Clients -> SUBSET Chars]
BY DEF Offline

\* Every handler keeps the types of the clients and of the messenger.
LEMMA TypeStep ==
  ASSUME MessengerTypeOK, Entries, [Next]_vars
  PROVE  MessengerTypeOK'
<1> USE CharClientsAssumption, MayBefriendAssumption
<1>0. CharClientsTypeOK
  BY DEF MessengerTypeOK
<1>1. ASSUME NEW c \in Clients, pakDoIdentify(c) PROVE MessengerTypeOK'
  BY <1>1 DEF pakDoIdentify, Connected, MessengerTypeOK, CharClientsTypeOK, Screens, messengerVars
<1>2. ASSUME NEW c \in Clients, pakGetCharacters(c) PROVE MessengerTypeOK'
  BY <1>2 DEF pakGetCharacters, Listed, MessengerTypeOK, CharClientsTypeOK, Screens, messengerVars
<1>3. ASSUME NEW c \in Clients, NEW x \in Chars, pakRequestWorld(c, x) PROVE MessengerTypeOK'
  <2> DEFINE FoundNow(xs) == {d \in Clients : charid'[d] \in xs}
             online == {y \in FriendsOf(x) : FoundNow({y}) # {}}
  <2>1. Chosen(c, x) /\ MessengerChosen(c, x)
    BY <1>3 DEF pakRequestWorld
  <2>2. CharClientsTypeOK'
    BY <2>1, <1>0 DEF Chosen, CharClientsTypeOK, Screens
  <2>3. FriendsOf(x) \in SUBSET Chars /\ online \in SUBSET Chars
    BY DEF FriendsOf
  <2>4. friends' \in [Clients -> SUBSET Chars]
    BY <2>1, <2>3 DEF MessengerChosen, MessengerTypeOK
  <2>5. Online(shown, FoundNow(online), x) \in [Clients -> SUBSET Chars]
    BY OnlineTypes DEF MessengerTypeOK
  <2>6. shown' = [Online(shown, FoundNow(online), x) EXCEPT ![c] = online]
    BY <2>1 DEF MessengerChosen
  <2> HIDE DEF online, FoundNow
  <2>7. shown' \in [Clients -> SUBSET Chars]
    BY <2>3, <2>5, <2>6
  <2>8. misread' \in SUBSET (Chars \X Chars)
    <3>1. Overtaken(c, x) \in SUBSET (Chars \X Chars)
      BY DEF Overtaken
    <3>2. {<<x, y>> : y \in {z \in online : LoggedOut(z)}} \in SUBSET (Chars \X Chars)
      BY <2>3
    <3>3. {p \in misread : p[1] # x} \in SUBSET (Chars \X Chars)
      BY DEF MessengerTypeOK
    <3>4. misread' = {p \in misread : p[1] # x}
                       \cup {<<x, y>> : y \in {z \in online : LoggedOut(z)}}
                       \cup Overtaken(c, x)
      BY <2>1 DEF MessengerChosen, online, FoundNow
    <3> QED BY <3>1, <3>2, <3>3, <3>4
  <2>9. rows' = rows /\ torn' = torn
    BY <2>1 DEF MessengerChosen
  <2> QED BY <2>2, <2>4, <2>7, <2>8, <2>9 DEF MessengerTypeOK
<1>4. ASSUME NEW c \in Clients, OnClientDisconnect(c) PROVE MessengerTypeOK'
  <2>1. friends' \in [Clients -> SUBSET Chars] /\ shown' \in [Clients -> SUBSET Chars]
    BY <1>4, DisconnectedTypes DEF OnClientDisconnect, MessengerTypeOK
  <2>2. CharClientsTypeOK'
    <3>1. Forgotten({c}) /\ UNCHANGED <<inWorld, toChar, faults>>
      BY <1>4 DEF OnClientDisconnect, Closed
    <3> QED BY <3>1, <1>0, ForgottenTypes DEF CharClientsTypeOK
  <2> QED BY <1>4, <2>1, <2>2 DEF OnClientDisconnect, MessengerTypeOK
<1>5. ASSUME NEW c \in Clients, NEW y \in Chars, NEW stored \in BOOLEAN,
             pakMessengerFails(c, y, stored)
      PROVE MessengerTypeOK'
  <2> DEFINE x == charid[c]
             list == IF stored THEN friends[c] \cup {y} ELSE friends[c]
             show == Online(shown, Found({y}), x)
  <2>1. AcceptCut(c, y, stored) /\ Forgotten({c})
    BY <1>5 DEF pakMessengerFails, Closed
  <2>2. x \in Chars
    BY <2>1 DEF AcceptCut
  <2>3. show \in [Clients -> SUBSET Chars] /\ MessengerDisconnected(c, show, list)
    BY <2>1, <2>2, OnlineTypes DEF AcceptCut, MessengerTypeOK
  <2> HIDE DEF list, show
  <2>4. friends' \in [Clients -> SUBSET Chars] /\ shown' \in [Clients -> SUBSET Chars]
    BY <2>3, DisconnectedTypes
  <2>5. CharClientsTypeOK'
    <3>1. /\ UNCHANGED <<inWorld, toChar>>
          /\ faults < MaxFaults /\ faults' = faults + 1
      BY <2>1 DEF AcceptCut
    <3>2. faults' \in 0..MaxFaults
      BY <3>1, <1>0 DEF CharClientsTypeOK
    <3> QED BY <3>1, <3>2, <2>1, <1>0, ForgottenTypes DEF CharClientsTypeOK
  <2>6. /\ rows' \in SUBSET (Chars \X Chars) /\ torn' \in SUBSET (Chars \X Chars)
        /\ misread' = misread
    BY <2>1, <2>2 DEF AcceptCut, BothWays, MessengerTypeOK
  <2> QED BY <2>4, <2>5, <2>6 DEF MessengerTypeOK
<1>6. ASSUME pakMessengerLogout PROVE MessengerTypeOK'
  <2>1. /\ toChar # <<>> /\ toChar' = Tail(toChar)
        /\ UNCHANGED <<screen, charid, inWorld, faults, rows, friends, torn, misread>>
        /\ logout' = [c \in Clients |-> logout[c] \/ charid[c] = Head(toChar)]
    BY <1>6 DEF pakMessengerLogout
  <2>2. toChar' \in Seq(Packets)
    BY <2>1, <1>0, HeadTailProperties DEF CharClientsTypeOK
  <2>3. CharClientsTypeOK'
    BY <2>1, <2>2, <1>0 DEF CharClientsTypeOK
  <2>4. shown' \in [Clients -> SUBSET Chars]
    BY <1>6, OfflineTypes DEF pakMessengerLogout, MessengerTypeOK
  <2> QED BY <2>1, <2>3, <2>4 DEF MessengerTypeOK
<1>7. ASSUME NEW c \in Clients, NEW y \in Chars, AcceptFriend(c, y) PROVE MessengerTypeOK'
  <2>1. charid[c] \in Chars
    BY <1>7 DEF AcceptFriend
  <2>2. CharClientsTypeOK'
    BY <1>7, <1>0 DEF AcceptFriend, clientVars, CharClientsTypeOK
  <2>3. friends' \in [Clients -> SUBSET Chars]
    BY <1>7, <2>1 DEF AcceptFriend, MessengerTypeOK
  <2>4. shown' = [Online(shown, Found({y}), charid[c]) EXCEPT ![c] = @ \cup {y}]
    BY <1>7 DEF AcceptFriend
  <2>5. Online(shown, Found({y}), charid[c]) \in [Clients -> SUBSET Chars]
    BY <2>1, OnlineTypes DEF MessengerTypeOK
  <2>6. shown' \in [Clients -> SUBSET Chars]
    BY <2>4, <2>5
  <2>7. /\ rows' \in SUBSET (Chars \X Chars) /\ torn' \in SUBSET (Chars \X Chars)
        /\ misread' \in SUBSET (Chars \X Chars)
    BY <1>7, <2>1 DEF AcceptFriend, BothWays, MessengerTypeOK
  <2> QED BY <2>2, <2>3, <2>6, <2>7 DEF MessengerTypeOK
<1>8. ASSUME NEW c \in Clients, NEW y \in Chars, NEW whole \in BOOLEAN, DeleteFriend(c, y, whole),
             Entries
      PROVE MessengerTypeOK'
  <2>1. charid[c] \in Chars
    BY <1>8, <1>0 DEF DeleteFriend, Entries, CharClientsTypeOK
  <2>2. faults' \in 0..MaxFaults
    BY <1>8, <1>0 DEF DeleteFriend, CharClientsTypeOK
  <2>3. CharClientsTypeOK'
    BY <1>8, <1>0, <2>2 DEF DeleteFriend, CharClientsTypeOK
  <2>4. shown' = [Offline(shown, Found({y}), charid[c]) EXCEPT ![c] = @ \ {y}]
    BY <1>8 DEF DeleteFriend
  <2>5. Offline(shown, Found({y}), charid[c]) \in [Clients -> SUBSET Chars]
    BY OfflineTypes DEF MessengerTypeOK
  <2>6. shown' \in [Clients -> SUBSET Chars]
    BY <2>4, <2>5
  <2>7. rows' \in SUBSET (Chars \X Chars) /\ torn' \in SUBSET (Chars \X Chars)
    BY <1>8, <2>1 DEF DeleteFriend, BothWays, MessengerTypeOK
  <2> QED BY <1>8, <2>3, <2>6, <2>7 DEF DeleteFriend, MessengerTypeOK
<1>9. CASE WorldSteps
  <2>1. CharClientsTypeOK'
    <3>1. ASSUME NEW c \in Clients, WorldCharSelect(c) PROVE CharClientsTypeOK'
      <4>1. charid[c] \in Packets /\ c \in Packets
        BY <3>1, <1>0 DEF WorldCharSelect, CharClientsTypeOK, Packets
      <4>2. <<charid[c], c>> \in Seq(Packets)
        BY <4>1
      <4>3. toChar' \in Seq(Packets)
        BY <3>1, <1>0, <4>2, ConcatProperties DEF WorldCharSelect, CharClientsTypeOK
      <4> QED BY <3>1, <1>0, <4>3 DEF WorldCharSelect, CharClientsTypeOK, Screens
    <3>2. ASSUME NEW x \in Chars, WorldDisconnect(x) PROVE CharClientsTypeOK'
      <4>1. toChar' \in Seq(Packets)
        BY <3>2, <1>0, AppendProperties DEF WorldDisconnect, CharClientsTypeOK, Packets
      <4> QED BY <3>2, <1>0, <4>1 DEF WorldDisconnect, CharClientsTypeOK
    <3>3. ASSUME pakWSCharSelect PROVE CharClientsTypeOK'
      <4>1. toChar' \in Seq(Packets)
        BY <3>3, <1>0, HeadTailProperties DEF pakWSCharSelect, CharClientsTypeOK
      <4> QED BY <3>3, <1>0, <4>1 DEF pakWSCharSelect, CharClientsTypeOK, Screens
    <3> QED BY <1>9, <3>1, <3>2, <3>3 DEF WorldSteps
  <2> QED BY <1>9, <2>1 DEF WorldSteps, messengerVars, MessengerTypeOK
<1>10. CASE Restart
  <2>1. CharClientsTypeOK'
    <3>1. Forgotten(Clients) /\ UNCHANGED <<inWorld, faults>> /\ toChar' = <<>>
      BY <1>10 DEF Restart
    <3>2. toChar' \in Seq(Packets)
      BY <3>1
    <3> QED BY <3>1, <3>2, <1>0, ForgottenTypes DEF CharClientsTypeOK
  <2> QED BY <1>10, <2>1 DEF Restart, MessengerRestarted, MessengerTypeOK
<1>11. CASE UNCHANGED <<clientVars, messengerVars>>
  BY <1>11 DEF clientVars, messengerVars, MessengerTypeOK, CharClientsTypeOK
<1>12. CASE ChatSteps
  BY <1>11, <1>12 DEF ChatSteps
<1>13. CASE UNCHANGED vars
  BY <1>11, <1>13 DEF vars
<1> QED BY <1>1, <1>2, <1>3, <1>4, <1>5, <1>6, <1>7, <1>8, <1>9, <1>10, <1>12, <1>13
        DEF Next, FriendSteps

\* Entries are of their accounts' characters after every step: pakRequestWorld
\* chooses one of the account, everything else keeps or clears it.
LEMMA EntriesStep ==
  ASSUME CharClientsTypeOK, Entries, [Next]_vars
  PROVE  Entries'
<1> USE CharClientsAssumption DEF Entries, Playing
<1>1. ASSUME NEW c \in Clients, pakDoIdentify(c) PROVE Entries'
  BY <1>1 DEF pakDoIdentify, Connected, CharClientsTypeOK
<1>2. ASSUME NEW c \in Clients, pakGetCharacters(c) PROVE Entries'
  BY <1>2 DEF pakGetCharacters, Listed, CharClientsTypeOK
<1>3. ASSUME NEW c \in Clients, NEW x \in Chars, pakRequestWorld(c, x) PROVE Entries'
  BY <1>3 DEF pakRequestWorld, Chosen, CharClientsTypeOK
<1>4. ASSUME NEW cs \in SUBSET Clients, Forgotten(cs) PROVE Entries'
  BY <1>4 DEF Forgotten, CharClientsTypeOK
<1>5. ASSUME UNCHANGED <<screen, charid>> PROVE Entries'
  BY <1>5
<1>6. CASE WorldSteps
  <2>1. charid' = charid /\ \A c \in Clients : screen'[c] = "game" => screen[c] = "game"
    BY <1>6 DEF WorldSteps, WorldCharSelect, WorldDisconnect, pakWSCharSelect, CharClientsTypeOK
  <2> QED BY <2>1
<1>7. ASSUME NEW c \in Clients, OnClientDisconnect(c) PROVE Entries'
  BY <1>4, <1>7 DEF OnClientDisconnect, Closed
<1>8. ASSUME NEW c \in Clients, NEW y \in Chars, NEW stored \in BOOLEAN,
             pakMessengerFails(c, y, stored)
      PROVE Entries'
  BY <1>4, <1>8 DEF pakMessengerFails, Closed
<1>9. CASE FriendSteps
  BY <1>5, <1>9 DEF FriendSteps, pakMessengerLogout, AcceptFriend, DeleteFriend, clientVars
<1>10. CASE ChatSteps
  BY <1>5, <1>10 DEF ChatSteps, clientVars
<1>11. CASE Restart
  BY <1>4, <1>11 DEF Restart
<1>12. CASE UNCHANGED vars
  BY <1>5, <1>12 DEF vars, clientVars
<1> QED BY <1>1, <1>2, <1>3, <1>6, <1>7, <1>8, <1>9, <1>10, <1>11, <1>12 DEF Next

-----------------------------------------------------------------------------
(* The table *)

\* The handlers that write neither list_friend nor its history.
LEMMA TableUntouched ==
  ASSUME Next
  PROVE  \/ rows' = rows /\ torn' = torn
         \/ \E c \in Clients, y \in Chars :
              \/ \E stored \in BOOLEAN : AcceptCut(c, y, stored)
              \/ AcceptFriend(c, y)
              \/ \E whole \in BOOLEAN : DeleteFriend(c, y, whole)
BY DEF Next, pakDoIdentify, pakGetCharacters, pakRequestWorld, MessengerChosen, OnClientDisconnect,
       pakMessengerFails, FriendSteps, pakMessengerLogout, ChatSteps, WorldSteps, Restart,
       MessengerRestarted, messengerVars

\* Whatever statement fails, the friendship it leaves half is marked cut, and
\* it is the only one that changes.
LEMMA TableStep ==
  ASSUME CharClientsTypeOK, Entries, TornMutual, RowsMutual, [Next]_vars
  PROVE  TornMutual' /\ RowsMutual'
<1> USE CharClientsAssumption DEF BothWays
<1>1. ASSUME rows' = rows, torn' = torn PROVE TornMutual' /\ RowsMutual'
  BY <1>1 DEF TornMutual, RowsMutual
<1>2. ASSUME NEW c \in Clients, NEW y \in Chars, charid[c] \in Chars,
             rows' \subseteq rows \cup BothWays(charid[c], y),
             \A p \in rows \ BothWays(charid[c], y) : p \in rows',
             \/ torn' = torn \cup BothWays(charid[c], y)
             \/ /\ torn' = torn \ BothWays(charid[c], y)
                /\ <<charid[c], y>> \in rows' <=> <<y, charid[c]>> \in rows'
      PROVE TornMutual' /\ RowsMutual'
  <2>1. TornMutual'
    BY <1>2 DEF TornMutual
  <2>2. ASSUME NEW a \in Chars, NEW b \in Chars, <<a, b>> \in rows', <<a, b>> \notin torn'
        PROVE  <<b, a>> \in rows'
    <3>1. CASE <<a, b>> \in BothWays(charid[c], y)
      BY <1>2, <2>2, <3>1
    <3>2. CASE <<a, b>> \notin BothWays(charid[c], y)
      <4>1. <<a, b>> \in rows /\ <<a, b>> \notin torn
        BY <1>2, <2>2, <3>2
      <4>2. <<b, a>> \in rows \ BothWays(charid[c], y)
        BY <4>1, <3>2 DEF RowsMutual
      <4> QED BY <1>2, <4>2
    <3> QED BY <3>1, <3>2
  <2> QED BY <2>1, <2>2 DEF RowsMutual
<1>4. ASSUME NEW c \in Clients, NEW y \in Chars, NEW stored \in BOOLEAN, AcceptCut(c, y, stored)
      PROVE TornMutual' /\ RowsMutual'
  <2>1. /\ charid[c] \in Chars
        /\ rows' = IF stored THEN rows \cup {<<y, charid[c]>>} ELSE rows
        /\ torn' = torn \cup BothWays(charid[c], y)
    BY <1>4, MayBefriendAssumption DEF AcceptCut
  <2> QED BY <1>2, <2>1
<1>5. ASSUME NEW c \in Clients, NEW y \in Chars, AcceptFriend(c, y)
      PROVE TornMutual' /\ RowsMutual'
  <2>1. /\ charid[c] \in Chars
        /\ rows' = rows \cup BothWays(charid[c], y)
        /\ torn' = torn \ BothWays(charid[c], y)
    BY <1>5, MayBefriendAssumption DEF AcceptFriend
  <2> QED BY <1>2, <2>1
<1>6. ASSUME NEW c \in Clients, NEW y \in Chars, NEW whole \in BOOLEAN, DeleteFriend(c, y, whole)
      PROVE TornMutual' /\ RowsMutual'
  <2>1. /\ charid[c] \in Chars
        /\ rows' = rows \ (IF whole THEN BothWays(charid[c], y) ELSE {<<charid[c], y>>})
        /\ torn' = IF whole THEN torn \ BothWays(charid[c], y) ELSE torn \cup BothWays(charid[c], y)
    BY <1>6 DEF DeleteFriend, Playing, Entries, CharClientsTypeOK
  <2>2. TornMutual' /\ RowsMutual'
    <3>1. CASE whole
      BY <1>2, <2>1, <3>1
    <3>2. CASE ~whole
      BY <1>2, <2>1, <3>2
    <3> QED BY <3>1, <3>2
  <2> QED BY <2>2
<1>7. CASE UNCHANGED vars
  BY <1>1, <1>7 DEF vars, messengerVars
<1> QED BY <1>1, <1>4, <1>5, <1>6, <1>7, TableUntouched

-----------------------------------------------------------------------------
(* The copies *)

\* An action by which entries keep their character or lose it, friends of
\* those that keep it only grow, and the table and its cuts stay.
LEMMA CopiesCarried ==
  ASSUME Copies,
         \A c \in Clients : charid'[c] = NoChar \/ (charid'[c] = charid[c] /\ friends[c] \subseteq friends'[c]),
         rows' = rows, torn' = torn
  PROVE  Copies'
BY DEF Copies, CopyOf

\* Whoever is a friend in the table is on the copy or cut off, after every
\* step: a copy is added to whenever the table is, and forgotten with the entry.
LEMMA CopiesStep ==
  ASSUME MessengerTypeOK, Entries, Copies, [Next]_vars
  PROVE  Copies'
<1> USE CharClientsAssumption
<1>0. CharClientsTypeOK
  BY DEF MessengerTypeOK
<1>1. ASSUME UNCHANGED <<charid, messengerVars>> PROVE Copies'
  BY <1>1 DEF Copies, CopyOf, messengerVars
<1>2. ASSUME NEW c \in Clients, NEW x \in Chars, pakRequestWorld(c, x) PROVE Copies'
  <2>1. /\ charid' = [charid EXCEPT ![c] = x] /\ rows' = rows /\ torn' = torn
        /\ friends' = [friends EXCEPT ![c] = @ \cup FriendsOf(x)]
    BY <1>2 DEF pakRequestWorld, Chosen, MessengerChosen
  <2>2. ASSUME NEW d \in Clients PROVE CopyOf(d)'
    <3>1. CASE d = c
      <4>1. charid'[d] = x /\ FriendsOf(x) \subseteq friends'[d]
        BY <1>0, <2>1, <3>1 DEF MessengerTypeOK, CharClientsTypeOK
      <4> QED BY <2>1, <4>1 DEF CopyOf, FriendsOf
    <3>2. CASE d # c
      <4>1. charid'[d] = charid[d] /\ friends'[d] = friends[d]
        BY <1>0, <2>1, <3>2 DEF MessengerTypeOK, CharClientsTypeOK
      <4> QED BY <2>1, <4>1 DEF Copies, CopyOf
    <3> QED BY <3>1, <3>2
  <2> QED BY <2>2 DEF Copies
<1>3. ASSUME NEW c \in Clients, OnClientDisconnect(c) PROVE Copies'
  <2>1. /\ charid' = [d \in Clients |-> IF d \in {c} THEN NoChar ELSE charid[d]]
        /\ friends' = [friends EXCEPT ![c] = {}] /\ rows' = rows /\ torn' = torn
    BY <1>3 DEF OnClientDisconnect, Closed, Forgotten, MessengerDisconnected
  <2> QED BY <2>1, CopiesCarried DEF MessengerTypeOK
<1>4. ASSUME NEW c \in Clients, NEW y \in Chars, NEW stored \in BOOLEAN,
             pakMessengerFails(c, y, stored)
      PROVE Copies'
  <2>1. /\ charid' = [d \in Clients |-> IF d \in {c} THEN NoChar ELSE charid[d]]
        /\ friends' = [friends EXCEPT ![c] = {}]
        /\ charid[c] \in Chars
        /\ rows' = IF stored THEN rows \cup {<<y, charid[c]>>} ELSE rows
        /\ torn' = torn \cup BothWays(charid[c], y)
    BY <1>4, MayBefriendAssumption
       DEF pakMessengerFails, AcceptCut, Closed, Forgotten, MessengerDisconnected
  <2>2. ASSUME NEW d \in Clients PROVE CopyOf(d)'
    <3>1. CASE d = c
      BY <2>1, <3>1 DEF CopyOf
    <3>2. CASE d # c
      <4>1. charid'[d] = charid[d] /\ friends'[d] = friends[d]
        BY <2>1, <3>2 DEF MessengerTypeOK
      <4>2. \A p \in rows' : p \in rows \/ p \in torn'
        BY <2>1 DEF BothWays
      <4> QED BY <2>1, <4>1, <4>2 DEF Copies, CopyOf
    <3> QED BY <3>1, <3>2
  <2> QED BY <2>2 DEF Copies
<1>5. ASSUME NEW c \in Clients, NEW y \in Chars, AcceptFriend(c, y) PROVE Copies'
  <2> DEFINE x == charid[c]
  <2>1. /\ charid' = charid /\ x \in Chars
        /\ rows' = rows \cup BothWays(x, y) /\ torn' = torn \ BothWays(x, y)
        /\ friends' = [d \in Clients |-> friends[d] \cup (IF d = c THEN {y} ELSE {})
                                           \cup (IF d \in Found({y}) THEN {x} ELSE {})]
    BY <1>5, MayBefriendAssumption DEF AcceptFriend, clientVars
  <2>2. \A d \in Clients : d \in Found({y}) <=> charid[d] = y
    BY <1>0, FoundOne
  <2>3. \A d \in Clients : charid[d] = x => d = c
    BY <2>1 DEF Entries
  <2>4. ASSUME NEW d \in Clients, NEW z \in Chars, charid[d] # NoChar, <<charid[d], z>> \in rows'
        PROVE  z \in friends'[d] \/ <<charid[d], z>> \in torn'
    <3>1. CASE <<charid[d], z>> = <<x, y>>
      BY <2>1, <2>3, <3>1
    <3>2. CASE <<charid[d], z>> = <<y, x>>
      BY <2>1, <2>2, <3>2
    <3>3. CASE <<charid[d], z>> \notin BothWays(x, y)
      <4>1. z \in friends[d] \/ <<charid[d], z>> \in torn
        BY <2>1, <2>4, <3>3 DEF Copies, CopyOf
      <4> QED BY <2>1, <3>3, <4>1
    <3> QED BY <3>1, <3>2, <3>3 DEF BothWays
  <2> QED BY <2>1, <2>4 DEF Copies, CopyOf
<1>6. ASSUME NEW c \in Clients, NEW y \in Chars, NEW whole \in BOOLEAN, DeleteFriend(c, y, whole)
      PROVE Copies'
  <2>1. charid' = charid /\ friends' = friends /\ rows' \subseteq rows
    BY <1>6 DEF DeleteFriend
  <2>2. \A p \in rows' : p \in torn => p \in torn'
    BY <1>6 DEF DeleteFriend
  <2> QED BY <2>1, <2>2 DEF Copies, CopyOf
<1>7. CASE Restart
  <2>1. charid' = [d \in Clients |-> NoChar] /\ rows' = rows /\ torn' = torn
    BY <1>7 DEF Restart, Forgotten, MessengerRestarted
  <2> QED BY <2>1, CopiesCarried
<1>8. ASSUME NEW c \in Clients, pakDoIdentify(c) \/ pakGetCharacters(c) PROVE Copies'
  BY <1>1, <1>8 DEF pakDoIdentify, Connected, pakGetCharacters, Listed
<1>9. CASE pakMessengerLogout
  BY <1>9, CopiesCarried DEF pakMessengerLogout
<1>10. CASE ChatSteps \/ WorldSteps
  BY <1>1, <1>10 DEF ChatSteps, WorldSteps, WorldCharSelect, WorldDisconnect, pakWSCharSelect, clientVars
<1>11. CASE UNCHANGED vars
  BY <1>1, <1>11 DEF vars, clientVars
<1> QED BY <1>2, <1>3, <1>4, <1>5, <1>6, <1>7, <1>8, <1>9, <1>10, <1>11 DEF Next, FriendSteps

-----------------------------------------------------------------------------
(* What is shown *)

\* The connection of c ends: a player on c's copy stops showing c's character.
LEMMA LeaverHidden ==
  ASSUME MessengerTypeOK, Entries, NEW c \in Clients, NEW d \in Clients, NEW list, NEW show,
         friends[c] \subseteq list, d # c, ~logout[c], charid[c] \in Chars,
         charid[d] \in friends[c],
         MessengerDisconnected(c, show, list)
  PROVE  charid[c] \notin shown'[d]
<1>1. charid[d] \in Chars
  BY DEF MessengerTypeOK
<1>2. d \in Found(list)
  BY <1>1, CharClientsAssumption DEF Found
<1>3. shown' = [Offline(show, Found(list), charid[c]) EXCEPT ![c] = {}]
  BY DEF MessengerDisconnected
<1>4. shown'[d] = show[d] \ {charid[c]}
  BY <1>2, <1>3 DEF Offline
<1> QED BY <1>4

\* What the others show when the connection of c ends is excused or answered.
LEMMA ClosedView ==
  ASSUME MessengerTypeOK, Entries, Views, NEW c \in Clients, NEW list, NEW show,
         friends[c] \subseteq list, MessengerDisconnected(c, show, list), Forgotten({c}),
         torn \subseteq torn', misread' = misread,
         NEW d \in Clients, Playing(d)', NEW z \in shown'[d],
         z \in shown[d] \/ <<charid[d], z>> \in torn'
  PROVE  View(d, z)'
<1>1. shown' = [Offline(show, IF logout[c] THEN {} ELSE Found(list), charid[c]) EXCEPT ![c] = {}]
  BY DEF MessengerDisconnected
<1>2. d # c
  BY DEF Playing, Forgotten
<1>3. /\ charid'[d] = charid[d] /\ Playing(d)
      /\ \A e \in Clients : e # c => /\ charid'[e] = charid[e] /\ logout'[e] = logout[e]
                                     /\ friends'[e] = friends[e]
  <2>1. /\ charid' = [e \in Clients |-> IF e \in {c} THEN NoChar ELSE charid[e]]
        /\ screen' = [e \in Clients |-> IF e \in {c} THEN "off" ELSE screen[e]]
        /\ friends' = [friends EXCEPT ![c] = {}]
    BY DEF Forgotten, MessengerDisconnected
  <2>2. \A e \in Clients : e # c => logout'[e] = logout[e]
    BY DEF Forgotten, MessengerTypeOK, CharClientsTypeOK
  <2> QED BY <1>2, <2>1, <2>2 DEF Playing, MessengerTypeOK
<1>4. CASE <<charid[d], z>> \in torn'
  BY <1>3, <1>4 DEF View
<1>5. CASE <<charid[d], z>> \in torn \cup misread
  BY <1>3, <1>5 DEF View
<1>6. CASE z \in shown[d] /\ <<charid[d], z>> \notin torn \cup misread
  <2>1. There(z) /\ charid[d] \in friends[OwnerOf[z]] /\ z \in Chars
    BY <1>3, <1>6 DEF Views, View, MessengerTypeOK
  <2>2. OwnerOf[z] \in Clients
    BY <2>1, CharClientsAssumption
  <2>3. OwnerOf[z] # c
    <3>1. SUFFICES ASSUME OwnerOf[z] = c PROVE FALSE
      OBVIOUS
    <3>2. charid[c] = z /\ ~logout[c] /\ charid[d] \in friends[c]
      BY <2>1, <3>1 DEF There
    <3> QED BY <1>2, <2>1, <3>2, LeaverHidden
  <2> QED BY <1>3, <2>1, <2>2, <2>3 DEF View, There
<1> QED BY <1>4, <1>5, <1>6

\* Whatever is shown of another stays true or excused at every step: it is the
\* other's copy of its friends that lets the viewer know of its end.
LEMMA ViewsStep ==
  ASSUME MessengerTypeOK, Entries, TornMutual, RowsMutual, Copies, Views, [Next]_vars
  PROVE  Views'
<1> USE CharClientsAssumption
<1>0. CharClientsTypeOK
  BY DEF MessengerTypeOK
<1>1. ASSUME UNCHANGED <<charid, logout, messengerVars>>,
             \A c \in Clients : Playing(c)' => Playing(c)
      PROVE  Views'
  BY <1>1 DEF Views, View, There, messengerVars
<1>2. ASSUME NEW c \in Clients, NEW x \in Chars, pakRequestWorld(c, x) PROVE Views'
  <2> DEFINE FoundNow(xs) == {d \in Clients : charid'[d] \in xs}
             online == {y \in FriendsOf(x) : FoundNow({y}) # {}}
  <2>1. /\ screen' = [screen EXCEPT ![c] = "game"] /\ charid' = [charid EXCEPT ![c] = x]
        /\ logout' = [logout EXCEPT ![c] = FALSE] /\ OwnerOf[x] = c /\ torn' = torn
        /\ friends' = [friends EXCEPT ![c] = @ \cup FriendsOf(x)]
        /\ shown' = [Online(shown, FoundNow(online), x) EXCEPT ![c] = online]
        /\ misread' = {p \in misread : p[1] # x}
                        \cup {<<x, y>> : y \in {z \in online : LoggedOut(z)}}
                        \cup Overtaken(c, x)
    BY <1>2 DEF pakRequestWorld, Chosen, MessengerChosen
  <2>2. /\ charid'[c] = x /\ ~logout'[c] /\ FriendsOf(x) \subseteq friends'[c]
        /\ friends[c] \subseteq friends'[c]
        /\ \A e \in Clients : e # c =>
             /\ charid'[e] = charid[e] /\ logout'[e] = logout[e]
             /\ friends'[e] = friends[e] /\ screen'[e] = screen[e]
    BY <1>0, <2>1 DEF CharClientsTypeOK, MessengerTypeOK
  <2>3. ASSUME NEW y \in online PROVE View(c, y)'
    <3>1. PICK e \in Clients : charid'[e] = y
      BY <2>3
    <3>2. y \in Chars /\ <<x, y>> \in rows /\ OwnerOf[y] \in Clients
      BY <2>3 DEF FriendsOf
    <3>3. CASE e = c
      <4>1. y = x /\ y \in friends'[c]
        BY <2>2, <3>1, <3>2, <3>3 DEF FriendsOf
      <4>2. OwnerOf[y] = c
        BY <2>1, <4>1
      <4>3. There(y)' /\ charid'[c] \in friends'[OwnerOf[y]]
        BY <2>2, <4>1, <4>2 DEF There
      <4> HIDE DEF online, FoundNow
      <4> QED BY <4>3 DEF View
    <3>4. CASE e # c
      <4>1. charid[e] = y /\ e = OwnerOf[y]
        BY <2>2, <3>1, <3>2, <3>4 DEF Entries
      <4>2. CASE <<x, y>> \in torn
        BY <2>1, <2>2, <4>2 DEF View
      <4>3. CASE LoggedOut(y)
        <5>1. y \in {z \in online : LoggedOut(z)}
          BY <2>3, <4>3
        <5> HIDE DEF online
        <5>2. <<x, y>> \in misread'
          BY <2>1, <5>1
        <5> QED BY <2>2, <5>2 DEF View
      <4>4. CASE <<x, y>> \notin torn /\ ~LoggedOut(y)
        <5>1. ~logout[e]
          <6>1. LoggedOut(y) <=> charid[OwnerOf[y]] = y /\ logout[OwnerOf[y]]
            BY <1>0, <3>2, FoundOne
          <6> QED BY <4>1, <4>4, <6>1
        <5>2. <<y, x>> \in rows /\ <<y, x>> \notin torn
          BY <3>2, <4>4 DEF RowsMutual, TornMutual
        <5>3. x \in friends[e]
          BY <3>2, <4>1, <5>2 DEF Copies, CopyOf
        <5> QED BY <2>2, <3>4, <4>1, <5>1, <5>3 DEF View, There
      <4> QED BY <4>2, <4>3, <4>4
    <3> QED BY <3>3, <3>4
  <2>4. ASSUME NEW d \in Clients, d # c, Playing(d)', NEW y \in shown'[d] PROVE View(d, y)'
    <3>1. Playing(d) /\ charid'[d] = charid[d] /\ charid[d] \in Chars
      BY <1>0, <2>2, <2>4 DEF Playing, Entries, CharClientsTypeOK
    <3>2. charid[d] # x
      BY <2>1, <2>4, <3>1 DEF Entries
    <3>3. shown'[d] = IF d \in FoundNow(online) THEN shown[d] \cup {x} ELSE shown[d]
      BY <2>1, <2>4 DEF Online
    <3>4. CASE y \in shown[d]
      <4>1. View(d, y) /\ y \in Chars /\ OwnerOf[y] \in Clients
        BY <3>1, <3>4 DEF Views, MessengerTypeOK
      <4>2. CASE <<charid[d], y>> \in torn
        BY <2>1, <3>1, <4>2 DEF View
      <4>3. CASE <<charid[d], y>> \in misread
        <5>1. <<charid[d], y>> \in misread'
          BY <2>1, <3>2, <4>3
        <5> QED BY <3>1, <5>1 DEF View
      <4>4. CASE <<charid[d], y>> \notin torn \cup misread
        <5>1. There(y) /\ charid[d] \in friends[OwnerOf[y]]
          BY <4>1, <4>4 DEF View
        <5>2. CASE OwnerOf[y] # c
          BY <2>2, <3>1, <4>1, <5>1, <5>2 DEF View, There
        <5>3. CASE OwnerOf[y] = c /\ y = x
          BY <2>2, <3>1, <5>1, <5>3 DEF View, There
        <5>4. CASE OwnerOf[y] = c /\ y # x
          <6>1. charid[c] = y /\ ~logout[c]
            BY <5>1, <5>4 DEF There
          <6>2. <<charid[d], y>> \in Overtaken(c, x)
            BY <3>1, <4>1, <5>4, <6>1 DEF Overtaken
          <6> QED BY <2>1, <3>1, <6>2 DEF View
        <5> QED BY <5>2, <5>3, <5>4
      <4> QED BY <4>2, <4>3, <4>4
    <3>5. CASE y = x /\ d \in FoundNow(online)
      <4>1. charid[d] \in FriendsOf(x)
        BY <3>1, <3>5
      <4>2. charid[d] \in friends'[c]
        BY <2>2, <4>1
      <4> QED BY <2>1, <2>2, <3>1, <3>5, <4>2 DEF View, There
    <3> QED BY <2>4, <3>3, <3>4, <3>5
  <2>5. shown'[c] = online
    <3> HIDE DEF online, FoundNow
    <3>1. Online(shown, FoundNow(online), x) \in [Clients -> SUBSET Chars]
      BY OnlineTypes DEF MessengerTypeOK
    <3> QED BY <2>1, <3>1
  <2> HIDE DEF online
  <2> QED BY <2>3, <2>4, <2>5 DEF Views
<1>3. ASSUME NEW c \in Clients, OnClientDisconnect(c) PROVE Views'
  <2>1. /\ MessengerDisconnected(c, shown, friends[c]) /\ Forgotten({c})
        /\ torn' = torn /\ misread' = misread
    BY <1>3 DEF OnClientDisconnect, Closed
  <2>2. ASSUME NEW d \in Clients, Playing(d)', NEW z \in shown'[d] PROVE View(d, z)'
    <3>1. d # c
      BY <2>1, <2>2 DEF Playing, Forgotten
    <3>2. z \in shown[d]
      BY <2>1, <2>2, <3>1 DEF MessengerDisconnected, Offline
    <3> QED BY <2>1, <2>2, <3>2, ClosedView
  <2> QED BY <2>2 DEF Views
<1>4. ASSUME NEW c \in Clients, NEW y \in Chars, NEW stored \in BOOLEAN,
             pakMessengerFails(c, y, stored)
      PROVE Views'
  <2> DEFINE list == IF stored THEN friends[c] \cup {y} ELSE friends[c]
             show == Online(shown, Found({y}), charid[c])
  <2>1. /\ MessengerDisconnected(c, show, list) /\ Forgotten({c})
        /\ torn' = torn \cup BothWays(charid[c], y) /\ misread' = misread
    BY <1>4 DEF pakMessengerFails, AcceptCut, Closed
  <2>2. ASSUME NEW d \in Clients, Playing(d)', NEW z \in shown'[d] PROVE View(d, z)'
    <3>1. d # c
      BY <2>1, <2>2 DEF Playing, Forgotten
    <3>2. z \in show[d]
      BY <2>1, <2>2, <3>1 DEF MessengerDisconnected, Offline
    <3>3. z \in shown[d] \/ (d \in Found({y}) /\ z = charid[c])
      BY <3>2 DEF Online
    <3>4. z \in shown[d] \/ <<charid[d], z>> \in torn'
      BY <1>0, <2>1, <3>3, FoundOne DEF BothWays
    <3>5. friends[c] \subseteq list /\ torn \subseteq torn'
      BY <2>1
    <3> HIDE DEF list, show
    <3> QED BY <2>1, <2>2, <3>4, <3>5, ClosedView
  <2> QED BY <2>2 DEF Views
<1>5. CASE pakMessengerLogout
  <2> DEFINE x == Head(toChar)
             told == Found(UNION {friends[c] : c \in Found({x})})
  <2>1. /\ x \in Chars /\ logout' = [c \in Clients |-> logout[c] \/ charid[c] = x]
        /\ shown' = Offline(shown, told, x)
        /\ UNCHANGED <<screen, charid, friends, torn, misread>>
    BY <1>5 DEF pakMessengerLogout
  <2>2. ASSUME NEW d \in Clients, Playing(d)', NEW y \in shown'[d] PROVE View(d, y)'
    <3>1. Playing(d) /\ charid[d] \in Chars
      BY <1>0, <2>1, <2>2 DEF Playing, Entries, CharClientsTypeOK
    <3>2. y \in shown[d] /\ (d \in told => y # x)
      <4> HIDE DEF told
      <4> QED BY <2>1, <2>2 DEF Offline
    <3>3. View(d, y) /\ y \in Chars /\ OwnerOf[y] \in Clients
      BY <3>1, <3>2 DEF Views, MessengerTypeOK
    <3>4. CASE <<charid[d], y>> \in torn \cup misread
      BY <2>1, <3>4 DEF View
    <3>5. CASE There(y) /\ charid[d] \in friends[OwnerOf[y]]
      <4>1. y # x
        <5>1. SUFFICES ASSUME y = x PROVE FALSE
          OBVIOUS
        <5>2. OwnerOf[x] \in Found({x})
          BY <1>0, <2>1, <3>5, <5>1, FoundOne DEF There
        <5>3. charid[d] \in UNION {friends[c] : c \in Found({x})}
          BY <3>5, <5>1, <5>2
        <5>4. d \in told
          BY <3>1, <5>3 DEF Found
        <5> QED BY <3>2, <5>1, <5>4
      <4>2. ~logout'[OwnerOf[y]]
        BY <2>1, <3>3, <3>5, <4>1 DEF There
      <4> QED BY <2>1, <3>5, <4>2 DEF View, There
    <3> QED BY <3>3, <3>4, <3>5 DEF View
  <2> QED BY <2>2 DEF Views
<1>6. ASSUME NEW c \in Clients, NEW y \in Chars, AcceptFriend(c, y) PROVE Views'
  <2> DEFINE x == charid[c]
  <2>1. /\ UNCHANGED <<screen, charid, logout>> /\ x \in Chars /\ Found({y}) # {}
        /\ friends' = [d \in Clients |-> friends[d] \cup (IF d = c THEN {y} ELSE {})
                                           \cup (IF d \in Found({y}) THEN {x} ELSE {})]
        /\ shown' = [Online(shown, Found({y}), x) EXCEPT ![c] = @ \cup {y}]
        /\ torn' = torn \ BothWays(x, y)
        /\ misread' = misread \cup {p \in BothWays(x, y) : LoggedOut(p[2])}
    BY <1>6, MayBefriendAssumption DEF AcceptFriend, clientVars
  <2>2. /\ OwnerOf[x] = c /\ charid[OwnerOf[y]] = y /\ OwnerOf[y] \in Clients
        /\ \A d \in Clients : d \in Found({y}) <=> charid[d] = y
        /\ \A d \in Clients : charid[d] = x => d = c
        /\ \A d \in Clients : charid[d] = y => d = OwnerOf[y]
    <3>1. /\ charid[OwnerOf[y]] = y /\ OwnerOf[y] \in Clients
          /\ \A d \in Clients : d \in Found({y}) <=> charid[d] = y
      BY <1>0, <2>1, FoundOne
    <3>2. \A d \in Clients : charid[d] \in Chars => d = OwnerOf[charid[d]]
      BY DEF Entries
    <3> QED BY <2>1, <3>1, <3>2
  <2>3. ASSUME NEW d \in Clients, Playing(d)', NEW z \in shown'[d] PROVE View(d, z)'
    <3>1. Playing(d) /\ charid'[d] = charid[d] /\ charid[d] \in Chars
      BY <1>0, <2>1, <2>3 DEF Playing, Entries, CharClientsTypeOK
    <3>2. z \in shown[d] \/ (d = c /\ z = y) \/ (charid[d] = y /\ z = x)
      <4>1. Online(shown, Found({y}), x) \in [Clients -> SUBSET Chars]
        BY <2>1, OnlineTypes DEF MessengerTypeOK
      <4>2. z \in Online(shown, Found({y}), x)[d] \/ (d = c /\ z = y)
        BY <2>1, <2>3, <4>1
      <4> QED BY <2>2, <4>2 DEF Online
    <3>3. CASE charid[d] = x /\ z = y
      <4>1. d = c
        BY <2>2, <3>3
      <4>2. CASE LoggedOut(y)
        BY <2>1, <3>1, <3>3, <4>2 DEF View, BothWays
      <4>3. CASE ~LoggedOut(y)
        <5>1. ~logout[OwnerOf[y]]
          BY <1>0, <2>2, <4>3, FoundOne
        <5>2. x \in friends'[OwnerOf[y]]
          BY <2>1, <2>2
        <5> QED BY <2>1, <2>2, <3>1, <3>3, <5>1, <5>2 DEF View, There
      <4> QED BY <4>2, <4>3
    <3>4. CASE charid[d] = y /\ z = x
      <4>1. CASE LoggedOut(x)
        BY <2>1, <3>1, <3>4, <4>1 DEF View, BothWays
      <4>2. CASE ~LoggedOut(x)
        <5>1. ~logout[c]
          <6> HIDE DEF x
          <6>1. charid[OwnerOf[x]] = x
            BY <2>2 DEF x
          <6> QED BY <1>0, <2>1, <2>2, <4>2, <6>1, FoundOne
        <5>2. y \in friends'[c]
          BY <2>1
        <5> QED BY <2>1, <2>2, <3>1, <3>4, <5>1, <5>2 DEF View, There
      <4> QED BY <4>1, <4>2
    <3>5. CASE z \in shown[d] /\ <<charid[d], z>> \notin BothWays(x, y)
      <4>1. View(d, z) /\ z \in Chars /\ OwnerOf[z] \in Clients
        BY <3>1, <3>5 DEF Views, MessengerTypeOK
      <4>2. \A e \in Clients : friends[e] \subseteq friends'[e]
        BY <2>1
      <4> QED BY <2>1, <3>1, <3>5, <4>1, <4>2 DEF View, There
    <3> QED BY <3>2, <3>3, <3>4, <3>5 DEF BothWays
  <2> QED BY <2>3 DEF Views
<1>7. ASSUME NEW c \in Clients, NEW y \in Chars, NEW whole \in BOOLEAN, DeleteFriend(c, y, whole)
      PROVE Views'
  <2> DEFINE x == charid[c]
  <2>1. /\ UNCHANGED <<screen, charid, logout, friends, misread>> /\ x \in Chars
        /\ shown' = [Offline(shown, Found({y}), x) EXCEPT ![c] = @ \ {y}]
        /\ \A p \in torn \ BothWays(x, y) : p \in torn'
    BY <1>0, <1>7 DEF DeleteFriend, Entries, CharClientsTypeOK
  <2>2. ASSUME NEW d \in Clients, Playing(d)', NEW z \in shown'[d] PROVE View(d, z)'
    <3>1. Playing(d) /\ charid'[d] = charid[d]
      BY <2>1, <2>2 DEF Playing
    <3>2. z \in Offline(shown, Found({y}), x)[d] /\ (d = c => z # y)
      <4>1. Offline(shown, Found({y}), x) \in [Clients -> SUBSET Chars]
        BY OfflineTypes DEF MessengerTypeOK
      <4> QED BY <2>1, <2>2, <4>1
    <3>3. z \in shown[d] /\ (charid[d] = y => z # x)
      BY <1>0, <3>2, FoundOne DEF Offline
    <3>4. charid[d] = x => d = c
      BY <1>0, <2>1 DEF Entries
    <3>5. <<charid[d], z>> \notin BothWays(x, y)
      BY <3>2, <3>3, <3>4 DEF BothWays
    <3>6. View(d, z)
      BY <3>1, <3>3 DEF Views
    <3> QED BY <2>1, <3>1, <3>5, <3>6 DEF View, There
  <2> QED BY <2>2 DEF Views
<1>8. CASE Restart
  BY <1>8 DEF Restart, Forgotten, Views, Playing
<1>9. ASSUME NEW c \in Clients, pakDoIdentify(c) \/ pakGetCharacters(c) PROVE Views'
  <2>1. UNCHANGED <<charid, logout, messengerVars>>
        /\ \A d \in Clients : screen'[d] = "game" => screen[d] = "game"
    BY <1>0, <1>9 DEF pakDoIdentify, Connected, pakGetCharacters, Listed, CharClientsTypeOK
  <2> QED BY <1>1, <2>1 DEF Playing
<1>10. CASE WorldSteps
  <2>1. UNCHANGED <<charid, logout, messengerVars>>
        /\ \A d \in Clients : screen'[d] = "game" => screen[d] = "game"
    BY <1>0, <1>10 DEF WorldSteps, WorldCharSelect, WorldDisconnect, pakWSCharSelect, CharClientsTypeOK
  <2> QED BY <1>1, <2>1 DEF Playing
<1>11. CASE ChatSteps
  BY <1>1, <1>11 DEF ChatSteps, clientVars, Playing
<1>12. CASE UNCHANGED vars
  BY <1>1, <1>12 DEF vars, clientVars, Playing
<1> QED BY <1>2, <1>3, <1>4, <1>5, <1>6, <1>7, <1>8, <1>9, <1>10, <1>11, <1>12 DEF Next, FriendSteps

-----------------------------------------------------------------------------
(* Theorems *)

\* The types of the clients and the messenger, the entries, the table, the
\* copies and the views are one inductive invariant of every handler.
THEOREM Invariant == Spec => []IInv
<1>1. Init => IInv
  <2> USE CharClientsAssumption
  <2>1. ASSUME Init PROVE MessengerTypeOK
    <3>1. toChar \in Seq(Packets)
      BY <2>1 DEF Init, CharClientsInit
    <3> QED BY <2>1, <3>1 DEF Init, CharClientsInit, MessengerInit, MessengerTypeOK,
                              CharClientsTypeOK, Screens
  <2>2. ASSUME Init PROVE Entries /\ TornMutual /\ RowsMutual /\ Copies /\ Views
    BY <2>2 DEF Init, CharClientsInit, MessengerInit, Entries, Playing, TornMutual, RowsMutual, Copies, CopyOf, Views
  <2> QED BY <2>1, <2>2 DEF IInv
<1>2. IInv /\ [Next]_vars => IInv'
  <2> SUFFICES ASSUME IInv, [Next]_vars PROVE IInv'
    OBVIOUS
  <2>1. CharClientsTypeOK
    BY DEF IInv, MessengerTypeOK
  <2> QED BY <2>1, TypeStep, EntriesStep, TableStep, CopiesStep, ViewsStep DEF IInv
<1> QED BY <1>1, <1>2, PTL DEF Spec

\* A friendship is in the table for both sides or for neither, whatever
\* statements fail, unless one of them has cut this one.
THEOREM FriendsAreMutual == Spec => []RowsMutual
<1>1. IInv => RowsMutual
  BY DEF IInv
<1> QED BY <1>1, Invariant, PTL

\* The copy of a player's friends that decides whom the server tells has every
\* friend of the table.
THEOREM CopyAlwaysCovers == Spec => []CopyCoversTable
<1>1. IInv => CopyCoversTable
  BY DEF IInv, Entries, Copies, CopyOf, CopyCoversTable
<1> QED BY <1>1, Invariant, PTL

\* Whoever is shown online to a player is connected and not logged out, or
\* excused by name.
THEOREM ShownAlwaysThere == Spec => []ShownIsThere
<1>1. ASSUME IInv, NEW c \in Clients, NEW y \in shown[c], Playing(c)
      PROVE  \/ Found({y}) # {} /\ ~LoggedOut(y)
             \/ <<charid[c], y>> \in torn \cup misread
  <2>1. View(c, y) /\ y \in Chars /\ CharClientsTypeOK /\ Entries
    BY <1>1 DEF IInv, Views, MessengerTypeOK
  <2> QED BY <2>1, FoundOne DEF View, There
<1>2. IInv => ShownIsThere
  BY <1>1 DEF ShownIsThere
<1> QED BY <1>2, Invariant, PTL

-----------------------------------------------------------------------------
(* Lists of characters *)

\* A set of numbers has a least one, so that Min takes one of them.
LEMMA MinIs ==
  ASSUME NEW S \in SUBSET Nat, S # {}
  PROVE  Min(S) \in S /\ \A y \in S : Min(S) <= y
<1>1. IsWellFoundedOn(OpToRel(<, Nat), Nat)
  BY NatLessThanWellFounded
<1>2. \E least \in S : \A s \in S : ~ (<<s, least>> \in OpToRel(<, Nat))
  BY <1>1, WFMin, Zenon
<1>3. PICK least \in S : \A s \in S : ~ (<<s, least>> \in OpToRel(<, Nat))
  BY <1>2
<1>4. \A s \in S : s \in Nat /\ least \in Nat /\ ~ (s < least)
  BY <1>3 DEF OpToRel
<1>5. \A s \in S : least <= s
  BY <1>4
<1> QED BY <1>5 DEF Min

\* Induction, with a set in the place of a predicate.
LEMMA Induction ==
  ASSUME NEW T \in SUBSET Nat, 0 \in T, \A n \in T : n + 1 \in T
  PROVE  T = Nat
<1> SUFFICES ASSUME Nat \ T # {} PROVE FALSE
  OBVIOUS
<1> DEFINE least == Min(Nat \ T)
<1>1. least \in Nat \ T /\ \A y \in Nat \ T : least <= y
  BY MinIs
<1> HIDE DEF least
<1>2. least \in Nat /\ least # 0 /\ least - 1 \in Nat
  BY <1>1
<1>3. least - 1 \in T
  BY <1>1, <1>2
<1> QED BY <1>1, <1>2, <1>3

\* What is on a list is on it at some place, and there are no more of them than
\* places.
LEMMA RangeOfList ==
  ASSUME NEW s \in Seq(Chars)
  PROVE  /\ Range(s) \in SUBSET Chars
         /\ \A x : x \in Range(s) <=> \E i \in 1..Len(s) : s[i] = x
         /\ IsFiniteSet(Range(s)) /\ Cardinality(Range(s)) <= Len(s)
         /\ s # <<>> <=> Range(s) # {}
<1>1. Range(s) = {s[i] : i \in 1..Len(s)}
  BY DEF Range
<1>2. Len(s) \in Nat
  OBVIOUS
<1>3. IsFiniteSet(1..Len(s)) /\ Cardinality(1..Len(s)) = Len(s)
  BY <1>2, FS_Interval
<1>4. s \in Surjection(1..Len(s), Range(s))
  BY <1>1, <1>2 DEF Surjection
<1>5. IsFiniteSet(Range(s)) /\ Cardinality(Range(s)) <= Cardinality(1..Len(s))
  BY <1>3, <1>4, FS_Surjection
<1>6. s = <<>> <=> Len(s) = 0
  OBVIOUS
<1>7. (\E i : i \in 1..Len(s)) <=> Len(s) # 0
  <2>1. \A n \in Nat : n # 0 => 1 \in 1..n
    OBVIOUS
  <2>2. \A i : i \notin 1..0
    OBVIOUS
  <2> QED BY <1>2, <2>1, <2>2
<1>8. s # <<>> <=> Range(s) # {}
  BY <1>1, <1>6, <1>7
<1> QED BY <1>1, <1>3, <1>5, <1>8

\* The places after k.
LEMMA RightOf ==
  ASSUME NEW S, NEW s \in Seq(S), NEW k \in 1..Len(s)
  PROVE  LET right == SubSeq(s, k + 1, Len(s))
         IN  /\ right \in Seq(S) /\ Len(right) = Len(s) - k
             /\ \A i \in 1..(Len(s) - k) : right[i] = s[i + k]
<1> DEFINE right == SubSeq(s, k + 1, Len(s))
<1>1. right \in Seq(S)
  OBVIOUS
<1>2. Len(right) = Len(s) - k
  OBVIOUS
<1>3. \A i \in 1..(Len(s) - k) : right[i] = s[i + k]
  OBVIOUS
<1> QED BY <1>1, <1>2, <1>3

\* Nobody but x comes off a list with an entry of x, and x itself comes off it
\* when it is there once.
LEMMA UnlistedIs ==
  ASSUME NEW s \in Seq(Chars), NEW x
  PROVE  /\ Unlisted(s, x) \in Seq(Chars)
         /\ Range(Unlisted(s, x)) \subseteq Range(s)
         /\ \A y \in Range(s) : y # x => y \in Range(Unlisted(s, x))
         /\ x \in Range(Unlisted(s, x)) => Cardinality({i \in DOMAIN s : s[i] = x}) > 1
<1> DEFINE places == {i \in DOMAIN s : s[i] = x}
           k == Min(places)
<1>0. /\ DOMAIN s = 1..Len(s) /\ Len(s) \in Nat
      /\ \A i \in 1..Len(s) : s[i] \in Chars
  OBVIOUS
<1>1. CASE x \notin Range(s)
  BY <1>1 DEF Unlisted
<1>2. CASE x \in Range(s)
  <2>1. k \in 1..Len(s) /\ s[k] = x
    <3>1. places \in SUBSET Nat /\ places # {}
      BY <1>0, <1>2 DEF Range
    <3>2. k \in places
      BY <3>1, MinIs
    <3> QED BY <1>0, <3>2
  <2>2. Unlisted(s, x) = Without(s, k)
    BY <1>2 DEF Unlisted
  <2> HIDE DEF k
  <2> DEFINE left == SubSeq(s, 1, k - 1)
             right == SubSeq(s, k + 1, Len(s))
             u == Without(s, k)
  <2>3. /\ left \in Seq(Chars) /\ Len(left) = k - 1
        /\ \A i \in 1..(k - 1) : left[i] = s[i]
    BY <1>0, <2>1, SubSeqProperties
  <2>4. /\ right \in Seq(Chars) /\ Len(right) = Len(s) - k
        /\ \A i \in 1..(Len(s) - k) : right[i] = s[i + k]
    BY <2>1, RightOf
  <2> HIDE DEF left, right
  <2>5. /\ u \in Seq(Chars) /\ Len(u) = Len(s) - 1
        /\ \A i \in 1..(k - 1) : u[i] = s[i]
        /\ \A i \in k..(Len(s) - 1) : u[i] = s[i + 1]
    <3>1. u = left \o right
      BY DEF Without, left, right
    <3>2. /\ left \o right \in Seq(Chars) /\ Len(left \o right) = Len(left) + Len(right)
          /\ \A i \in 1..(Len(left) + Len(right)) :
               (left \o right)[i] = IF i <= Len(left) THEN left[i] ELSE right[i - Len(left)]
      BY <2>3, <2>4, ConcatProperties, Zenon
    <3>6. /\ u \in Seq(Chars) /\ Len(u) = Len(left) + Len(right)
          /\ \A i \in 1..(Len(left) + Len(right)) :
               u[i] = IF i <= Len(left) THEN left[i] ELSE right[i - Len(left)]
      BY <3>1, <3>2, Zenon
    <3> HIDE DEF u
    <3>3. Len(left) + Len(right) = Len(s) - 1
      BY <1>0, <2>1, <2>3, <2>4
    <3>4. ASSUME NEW i \in k..(Len(s) - 1) PROVE u[i] = s[i + 1]
      <4>1. /\ i - (k - 1) \in 1..(Len(s) - k) /\ (i - (k - 1)) + k = i + 1
            /\ i \in 1..(Len(left) + Len(right)) /\ ~ (i <= Len(left))
        BY <1>0, <2>1, <2>3, <3>3
      <4>2. u[i] = right[i - (k - 1)]
        BY <2>3, <3>6, <4>1
      <4> QED BY <2>4, <4>1, <4>2
    <3>5. ASSUME NEW i \in 1..(k - 1) PROVE u[i] = s[i]
      <4>1. i \in 1..(Len(left) + Len(right)) /\ i <= Len(left)
        BY <1>0, <2>1, <2>3, <3>3
      <4> QED BY <2>3, <3>6, <4>1
    <3> QED BY <3>3, <3>4, <3>5, <3>6
  <2>6. \A i \in 1..Len(s) : i # k => s[i] \in Range(u)
    <3> SUFFICES ASSUME NEW i \in 1..Len(s), i # k PROVE \E j \in 1..Len(u) : u[j] = s[i]
      BY <2>5, RangeOfList
    <3>1. CASE i < k
      BY <1>0, <2>1, <2>5, <3>1
    <3>2. CASE i > k
      <4>1. i - 1 \in k..(Len(s) - 1) /\ i - 1 \in 1..Len(u) /\ (i - 1) + 1 = i
        BY <1>0, <2>1, <2>5, <3>2
      <4> QED BY <2>5, <4>1
    <3> QED BY <1>0, <2>1, <3>1, <3>2
  <2>7. ASSUME NEW y \in Range(u) PROVE \E i \in 1..Len(s) : i # k /\ s[i] = y
    <3>1. PICK j \in 1..Len(u) : u[j] = y
      BY <2>5, RangeOfList
    <3>2. CASE j < k
      BY <1>0, <2>1, <2>5, <3>1, <3>2
    <3>3. CASE j >= k
      <4>1. j \in k..(Len(s) - 1) /\ j + 1 \in 1..Len(s) /\ j + 1 # k
        BY <1>0, <2>1, <2>5, <3>1, <3>3
      <4> QED BY <2>5, <3>1, <4>1
    <3> QED BY <1>0, <2>1, <2>5, <3>1, <3>2, <3>3
  <2>8. ASSUME x \in Range(u) PROVE Cardinality(places) > 1
    <3>1. PICK i \in 1..Len(s) : i # k /\ s[i] = x
      BY <2>7, <2>8
    <3>2. {i, k} \subseteq places /\ IsFiniteSet(places)
      <4>1. places \in SUBSET (1..Len(s)) /\ IsFiniteSet(1..Len(s))
        BY <1>0, FS_Interval
      <4> QED BY <1>0, <2>1, <3>1, <4>1, FS_Subset
    <3>3. Cardinality({i, k}) = 2
      <4>1. IsFiniteSet({k}) /\ Cardinality({k}) = 1 /\ {i, k} = {k} \cup {i}
        BY FS_Singleton
      <4>2. Cardinality({k} \cup {i}) = Cardinality({k}) + 1
        BY <3>1, <4>1, FS_AddElement
      <4>3. Cardinality({k} \cup {i}) = 2
        BY <4>1, <4>2
      <4> QED BY ONLY <4>1, <4>3, Zenon
    <3>4. Cardinality({i, k}) <= Cardinality(places) /\ Cardinality(places) \in Nat
      BY <3>2, FS_Subset, FS_CardinalityType
    <3> QED BY <3>3, <3>4
  <2> HIDE DEF u
  <2>9. /\ \A y \in Range(u) : y \in Range(s)
        /\ \A y \in Range(s) : y # x => y \in Range(u)
    BY <2>1, <2>6, <2>7, RangeOfList
  <2> QED BY <2>2, <2>5, <2>8, <2>9 DEF u
<1> QED BY <1>1, <1>2

\* What is scanned of s up to its i-th entry.
Scan(s, k) ==
  k = [i \in 0..Len(s) |->
         IF i = 0 THEN <<>>
         ELSE IF IsOnline(s[i]) THEN Append(k[i - 1], s[i]) ELSE k[i - 1]]

LEMMA ScanExists ==
  ASSUME NEW s, Len(s) \in Nat
  PROVE  \E k : Scan(s, k)
<1> DEFINE Value(k, i) == IF i = 0 THEN <<>>
                          ELSE IF IsOnline(s[i]) THEN Append(k[i - 1], s[i]) ELSE k[i - 1]
           T == {n \in Nat : \E k : \A i \in 0..n : k[i] = Value(k, i)}
<1>1. 0 \in T
  <2> DEFINE k == [i \in {0} |-> <<>>]
  <2>1. \A i \in 0..0 : k[i] = Value(k, i)
    OBVIOUS
  <2> HIDE DEF k
  <2> QED BY <2>1
<1>2. ASSUME NEW n \in T PROVE n + 1 \in T
  <2>1. PICK k : \A i \in 0..n : k[i] = Value(k, i)
    OBVIOUS
  <2> DEFINE h == [i \in 0..(n + 1) |-> IF i = n + 1 THEN Value(k, i) ELSE k[i]]
  <2>2. \A i \in 0..(n + 1) : h[i] = Value(h, i)
    <3> SUFFICES ASSUME NEW i \in 0..(n + 1) PROVE h[i] = Value(h, i)
      OBVIOUS
    <3>1. i # 0 => i - 1 \in 0..n /\ h[i - 1] = k[i - 1]
      OBVIOUS
    <3>2. h[i] = Value(k, i)
      BY <2>1
    <3> HIDE DEF h
    <3> QED BY <3>1, <3>2
  <2> HIDE DEF h
  <2> QED BY <2>2
<1>3. T = Nat
  <2> HIDE DEF T
  <2>1. T \in SUBSET Nat
    BY DEF T
  <2> QED BY <1>1, <1>2, <2>1, Induction
<1>4. PICK k : \A i \in 0..Len(s) : k[i] = Value(k, i)
  BY <1>3
<1> DEFINE h == [i \in 0..Len(s) |-> k[i]]
<1>5. \A i \in 0..Len(s) : h[i] = Value(h, i)
  <2> SUFFICES ASSUME NEW i \in 0..Len(s) PROVE h[i] = Value(h, i)
    OBVIOUS
  <2>1. i # 0 => i - 1 \in 0..Len(s) /\ h[i - 1] = k[i - 1]
    OBVIOUS
  <2>2. h[i] = Value(k, i)
    BY <1>4
  <2> HIDE DEF h
  <2> QED BY <2>1, <2>2
<1>6. h = [i \in 0..Len(s) |-> Value(h, i)]
  <2>1. h = [i \in 0..Len(s) |-> h[i]]
    OBVIOUS
  <2> HIDE DEF h
  <2> QED BY <1>5, <2>1
<1> HIDE DEF h
<1> QED BY <1>6 DEF Scan

\* A scan keeps exactly the characters that are played.
LEMMA PlayedIs ==
  ASSUME NEW s \in Seq(Chars)
  PROVE  /\ Played(s) \in Seq(Chars)
         /\ \A x : x \in Range(Played(s)) <=> x \in Range(s) /\ IsOnline(x)
<1>0. Len(s) \in Nat /\ \A i \in 1..Len(s) : s[i] \in Chars
  OBVIOUS
<1>1. PICK k : Scan(s, k) /\ Played(s) = k[Len(s)]
  <2>1. \E k : Scan(s, k)
    BY <1>0, ScanExists
  <2>2. Played(s) = (CHOOSE k : Scan(s, k))[Len(s)]
    BY DEF Played, Scan
  <2> QED BY <2>1, <2>2
<1> DEFINE Right(n) == /\ k[n] \in Seq(Chars)
                       /\ \A x : x \in Range(k[n]) <=> \E i \in 1..n : s[i] = x /\ IsOnline(x)
           T == {n \in Nat : n <= Len(s) => Right(n)}
<1>2. 0 \in T
  <2>1. k[0] = <<>>
    BY <1>0, <1>1 DEF Scan
  <2>2. Range(<<>>) = {} /\ <<>> \in Seq(Chars)
    BY DEF Range
  <2>3. Right(0)
    BY <2>1, <2>2
  <2> HIDE DEF Right
  <2> QED BY <2>3
<1>3. ASSUME NEW n \in T PROVE n + 1 \in T
  <2> SUFFICES ASSUME n + 1 <= Len(s) PROVE Right(n + 1)
    OBVIOUS
  <2>1. n \in Nat /\ Right(n)
    BY <1>0
  <2>2. k[n + 1] = IF IsOnline(s[n + 1]) THEN Append(k[n], s[n + 1]) ELSE k[n]
    <3>1. n + 1 \in 0..Len(s) /\ n + 1 # 0 /\ (n + 1) - 1 = n
      BY <1>0, <2>1
    <3> QED BY <1>1, <3>1 DEF Scan
  <2>3. s[n + 1] \in Chars
    BY <1>0, <2>1
  <2>4. \A x : (\E i \in 1..(n + 1) : s[i] = x /\ IsOnline(x)) <=>
               (\E i \in 1..n : s[i] = x /\ IsOnline(x)) \/ (s[n + 1] = x /\ IsOnline(x))
    <3>1. \A i : i \in 1..(n + 1) <=> i \in 1..n \/ i = n + 1
      BY <2>1
    <3> QED BY <3>1
  <2>5. CASE IsOnline(s[n + 1])
    <3>1. k[n + 1] = k[n] \o <<s[n + 1]>>
      BY <2>1, <2>2, <2>3, <2>5, AppendIsConcat
    <3>2. <<s[n + 1]>> \in Seq(Chars) /\ Range(<<s[n + 1]>>) = {s[n + 1]}
      BY <2>3 DEF Range
    <3>3. k[n + 1] \in Seq(Chars) /\ Range(k[n + 1]) = Range(k[n]) \cup {s[n + 1]}
      <4>1. \A p, q \in Seq(Chars) : p \o q \in Seq(Chars) /\ Range(p \o q) = Range(p) \cup Range(q)
        BY ConcatProperties, RangeConcatenation
      <4>2. k[n] \in Seq(Chars)
        BY <2>1
      <4> HIDE DEF Right
      <4>3. /\ k[n] \o <<s[n + 1]>> \in Seq(Chars)
            /\ Range(k[n] \o <<s[n + 1]>>) = Range(k[n]) \cup Range(<<s[n + 1]>>)
        BY ONLY <3>2, <4>1, <4>2, Zenon
      <4> QED BY ONLY <3>1, <3>2, <4>3, Zenon
    <3> QED BY <2>1, <2>4, <2>5, <3>3
  <2>6. CASE ~IsOnline(s[n + 1])
    BY <2>1, <2>2, <2>4, <2>6
  <2> QED BY <2>5, <2>6
<1>4. T = Nat
  <2> HIDE DEF T
  <2>1. T \in SUBSET Nat
    BY DEF T
  <2> QED BY <1>2, <1>3, <2>1, Induction
<1>5. Right(Len(s))
  <2> HIDE DEF Right
  <2>1. Len(s) \in T /\ Len(s) <= Len(s)
    BY <1>0, <1>4
  <2> QED BY <2>1
<1> QED BY <1>1, <1>5, RangeOfList

\* The places from the third on.
LEMMA From3 ==
  ASSUME NEW S, NEW s \in Seq(S), 2 \in 1..Len(s)
  PROVE  LET right == SubSeq(s, 3, Len(s))
         IN  /\ right \in Seq(S) /\ Len(right) = Len(s) - 2
             /\ \A i \in 1..(Len(s) - 2) : right[i] = s[i + 2]
<1>1. LET right == SubSeq(s, 2 + 1, Len(s))
      IN  /\ right \in Seq(S) /\ Len(right) = Len(s) - 2
          /\ \A i \in 1..(Len(s) - 2) : right[i] = s[i + 2]
  BY RightOf, Zenon
<1>2. 2 + 1 = 3
  OBVIOUS
<1> QED BY <1>1, <1>2, Zenon

\* Cleaning a list takes off only characters that are not played, all of them
\* but one perhaps.
LEMMA CleanedIs ==
  ASSUME NEW s \in Seq(Chars), s # <<>>
  PROVE  /\ Cleaned(s) \in Seq(Chars)
         /\ Range(Cleaned(s)) \subseteq Range(s)
         /\ \A x \in Range(s) : IsOnline(x) => x \in Range(Cleaned(s))
<1>0. Len(s) \in Nat \ {0} /\ \A i \in 1..Len(s) : s[i] \in Chars
  OBVIOUS
<1>1. CASE IsOnline(s[1])
  BY <1>1, PlayedIs DEF Cleaned
<1>2. CASE ~IsOnline(s[1]) /\ Len(s) = 1
  <2>1. Cleaned(s) = <<>> /\ Range(<<>>) = {} /\ <<>> \in Seq(Chars)
    BY <1>2 DEF Cleaned, Range
  <2>2. \A x \in Range(s) : x = s[1]
    BY <1>0, <1>2, RangeOfList
  <2> QED BY <1>2, <2>1, <2>2
<1>3. CASE ~IsOnline(s[1]) /\ Len(s) # 1
  <2> DEFINE rest == SubSeq(s, 3, Len(s))
  <2>1. 2 \in 1..Len(s) /\ Len(s) \in Nat
    <3>1. \A n \in Nat \ {0} : n # 1 => 2 \in 1..n
      OBVIOUS
    <3>2. Len(s) # 1
      BY <1>3
    <3> QED BY <1>0, <3>1, <3>2
  <2>2. /\ rest \in Seq(Chars) /\ Len(rest) = Len(s) - 2
        /\ \A i \in 1..(Len(s) - 2) : rest[i] = s[i + 2]
    BY <2>1, From3
  <2> HIDE DEF rest
  <2>3. Cleaned(s) = <<s[2]>> \o Played(rest)
    BY <1>3 DEF Cleaned, rest
  <2>4. /\ <<s[2]>> \in Seq(Chars) /\ Range(<<s[2]>>) = {s[2]}
        /\ Played(rest) \in Seq(Chars)
    BY <1>0, <2>1, <2>2, PlayedIs DEF Range
  <2>5. \A p, q \in Seq(Chars) : p \o q \in Seq(Chars) /\ Range(p \o q) = Range(p) \cup Range(q)
    BY ConcatProperties, RangeConcatenation
  <2>6. /\ Cleaned(s) \in Seq(Chars)
        /\ Range(Cleaned(s)) = {s[2]} \cup Range(Played(rest))
    BY ONLY <2>3, <2>4, <2>5, Zenon
  <2>7. \A x : x \in Range(Cleaned(s)) <=> x = s[2] \/ (x \in Range(rest) /\ IsOnline(x))
    BY <2>2, <2>6, PlayedIs
  <2>8. \A x : x \in Range(rest) <=> \E i \in 3..Len(s) : s[i] = x
    <3>1. ASSUME NEW i \in 3..Len(s) PROVE s[i] \in Range(rest)
      <4>1. i - 2 \in 1..Len(rest) /\ (i - 2) + 2 = i
        BY <2>1, <2>2
      <4>2. rest[i - 2] = s[i]
        BY <2>2, <4>1
      <4> QED BY <2>2, <4>1, <4>2, RangeOfList
    <3>2. ASSUME NEW x \in Range(rest) PROVE \E i \in 3..Len(s) : s[i] = x
      <4>1. PICK i \in 1..Len(rest) : rest[i] = x
        BY <2>2, RangeOfList
      <4>2. i + 2 \in 3..Len(s) /\ s[i + 2] = x
        BY <2>1, <2>2, <4>1
      <4> QED BY <4>2
    <3> QED BY <3>1, <3>2
  <2>9. \A i : i \in 1..Len(s) <=> i = 1 \/ i = 2 \/ i \in 3..Len(s)
    BY <2>1
  <2> QED BY <1>3, <2>6, <2>7, <2>8, <2>9, RangeOfList
<1> QED BY <1>1, <1>2, <1>3

\* The number taken for a new room is that of no room, but for the last one.
LEMMA NumberIsFree ==
  ASSUME ChatTypeOK
  PROVE  /\ GetChatroomID \in Rooms
         /\ GetChatroomID # LastRoom => ~Exists(GetChatroomID)
<1> DEFINE after  == {r \in Rooms : r > lastRoom /\ r < LastRoom /\ ~Exists(r)}
           before == {r \in Rooms : r <= lastRoom /\ ~Exists(r)}
<1>1. after \in SUBSET Nat /\ before \in SUBSET Nat /\ LastRoom \in Rooms
  BY ChatroomsAssumption DEF Rooms
<1>2. after # {} => Min(after) \in after
  BY <1>1, MinIs
<1>3. before # {} => Min(before) \in before
  BY <1>1, MinIs
<1>4. GetChatroomID = IF after # {} THEN Min(after)
                      ELSE IF before # {} THEN Min(before) ELSE LastRoom
  BY DEF GetChatroomID
<1>5. \A r \in after \cup before : r \in Rooms /\ ~Exists(r)
  OBVIOUS
<1> HIDE DEF after, before
<1> QED BY <1>1, <1>2, <1>3, <1>4, <1>5

-----------------------------------------------------------------------------
(* The chatrooms *)

\* Who has left the world, or has no character, is in no room.
Seated == \A c \in Clients : chatroom[c] # 0 => screen[c] \notin {"off", "select"}

Chats == ChatTypeOK /\ Seated /\ RoomsRight

\* A room has members if and only if it is there.
LEMMA RoomIs ==
  ASSUME ChatTypeOK, NEW r \in Rooms
  PROVE  /\ people[r] \in Seq(Chars) /\ Members(r) \in SUBSET Chars
         /\ IsFiniteSet(Members(r)) /\ Cardinality(Members(r)) \in Nat
         /\ Cardinality(Members(r)) <= Len(people[r])
         /\ Exists(r) <=> Members(r) # {}
<1>1. people[r] \in Seq(Chars)
  BY DEF ChatTypeOK
<1> QED BY <1>1, RangeOfList, FS_CardinalityType DEF Exists, Members

\* Nothing is lost when lists only shrink and whoever stays in a room stays on
\* its list.
LEMMA ListsShrink ==
  ASSUME ChatTypeOK, ChatTypeOK', RoomsRight, nbMax' = nbMax,
         \A r \in Rooms : Members(r)' \subseteq Members(r),
         \A d \in Clients : chatroom'[d] # 0 =>
            /\ chatroom'[d] = chatroom[d] /\ charid'[d] = charid[d]
            /\ charid[d] \in Members(chatroom[d]) => charid[d] \in Range(people'[chatroom[d]])
  PROVE  RoomsRight'
<1>1. InRoomIsListed'
  <2> SUFFICES ASSUME NEW d \in Clients, chatroom'[d] \in 1..(LastRoom - 1)
               PROVE  charid'[d] \in Range(people'[chatroom'[d]])
    BY DEF InRoomIsListed, Members
  <2>1. chatroom'[d] # 0
    BY ChatroomsAssumption
  <2> QED BY <2>1 DEF RoomsRight, InRoomIsListed
<1>2. ASSUME NEW r \in Rooms, Exists(r)'
      PROVE  Cardinality(Members(r)') <= nbMax'[r] + 1
  <2>1. Members(r)' # {} /\ Members(r)' \in SUBSET Members(r)
    <3>1. people'[r] \in Seq(Chars) /\ people'[r] # <<>>
      BY <1>2 DEF ChatTypeOK, Exists
    <3> QED BY <3>1, RangeOfList DEF Members
  <2>2. Exists(r) /\ IsFiniteSet(Members(r)) /\ Cardinality(Members(r)) \in Nat
    BY <2>1, RoomIs
  <2>3. Cardinality(Members(r)) <= nbMax[r] + 1 /\ nbMax[r] \in Nat
    BY <2>2 DEF RoomsRight, RoomBound, ChatTypeOK
  <2>4. Cardinality(Members(r)') <= Cardinality(Members(r)) /\ Cardinality(Members(r)') \in Nat
    BY <2>1, <2>2, FS_Subset, FS_CardinalityType
  <2> QED BY <2>2, <2>3, <2>4
<1> QED BY <1>1, <1>2 DEF RoomsRight, RoomBound

\* A client leaves its room: everybody else in it stays on the list, and it is
\* off it when it was there once.
LEMMA LeaveKeeps ==
  ASSUME CharClientsTypeOK, Entries, ChatTypeOK, RoomsRight, NEW c \in Clients,
         DisconnectClientFromChat(c), \A d \in Clients : d # c => charid'[d] = charid[d]
  PROVE  /\ ChatTypeOK' /\ RoomsRight'
         /\ \A d \in Clients : chatroom'[d] = IF d = c THEN 0 ELSE chatroom[d]
<1>1. /\ chatroom' = [chatroom EXCEPT ![c] = 0] /\ nbMax' = nbMax /\ lastRoom' = lastRoom
      /\ people' = IF chatroom[c] = 0 THEN people
                   ELSE [people EXCEPT ![chatroom[c]] = Unlisted(people[chatroom[c]], charid[c])]
  BY DEF DisconnectClientFromChat
<1>2. \A d \in Clients : chatroom'[d] = IF d = c THEN 0 ELSE chatroom[d]
  BY <1>1 DEF ChatTypeOK
<1>3. \A r \in Rooms :
        people'[r] = IF r = chatroom[c] THEN Unlisted(people[r], charid[c]) ELSE people[r]
  <2>1. 0 \notin Rooms
    BY DEF Rooms
  <2> QED BY <1>1, <2>1 DEF ChatTypeOK
<1>4. \A r \in Rooms :
        /\ Unlisted(people[r], charid[c]) \in Seq(Chars)
        /\ Range(Unlisted(people[r], charid[c])) \subseteq Range(people[r])
        /\ \A y \in Range(people[r]) : y # charid[c] => y \in Range(Unlisted(people[r], charid[c]))
  BY UnlistedIs DEF ChatTypeOK
<1>5. ChatTypeOK'
  <2>1. people' \in [Rooms -> Seq(Chars)]
    <3>1. DOMAIN people' = Rooms /\ people' = [r \in Rooms |-> people'[r]]
      BY <1>1 DEF ChatTypeOK
    <3> QED BY <1>3, <1>4, <3>1 DEF ChatTypeOK
  <2>2. chatroom' \in [Clients -> Rooms \cup {0}]
    BY <1>1 DEF ChatTypeOK
  <2> QED BY <1>1, <2>1, <2>2 DEF ChatTypeOK
<1>6. \A r \in Rooms : Members(r)' \subseteq Members(r)
  BY <1>3, <1>4 DEF Members
<1>7. ASSUME NEW d \in Clients, chatroom'[d] # 0
      PROVE /\ chatroom'[d] = chatroom[d] /\ charid'[d] = charid[d]
            /\ charid[d] \in Members(chatroom[d]) => charid[d] \in Range(people'[chatroom[d]])
  <2>1. d # c /\ chatroom'[d] = chatroom[d] /\ charid'[d] = charid[d] /\ chatroom[d] \in Rooms
    BY <1>2, <1>7 DEF ChatTypeOK
  <2>2. ASSUME charid[d] \in Members(chatroom[d]) PROVE charid[d] \in Range(people'[chatroom[d]])
    <3>1. charid[d] \in Chars
      BY <2>1, <2>2, RoomIs
    <3>2. charid[d] # charid[c]
      BY <2>1, <3>1, CharClientsAssumption DEF Entries
    <3> QED BY <1>3, <1>4, <2>1, <2>2, <3>2 DEF Members
  <2> QED BY <2>1, <2>2
<1> QED BY <1>1, <1>2, <1>5, <1>6, <1>7, ListsShrink

\* Nothing happens in the chatrooms, and whoever is in one stays where it is.
LEMMA QuietKeeps ==
  ASSUME Chats, UNCHANGED chatVars,
         \A d \in Clients : chatroom[d] # 0 =>
            charid'[d] = charid[d] /\ screen'[d] \notin {"off", "select"}
  PROVE  Chats'
<1>1. ChatTypeOK'
  BY DEF Chats, ChatTypeOK, chatVars
<1>2. Seated'
  BY DEF Seated, chatVars
<1>3. RoomsRight'
  BY <1>1, ListsShrink DEF Chats, chatVars, Members
<1> QED BY <1>1, <1>2, <1>3 DEF Chats

\* A client's entry goes, whether its room is told or not.
LEMMA ClosedKeeps ==
  ASSUME CharClientsTypeOK, Entries, Chats, NEW c \in Clients, NEW reached, Closed(c, reached)
  PROVE  /\ Chats'
         /\ \A d \in Clients : chatroom'[d] = IF d = c THEN 0 ELSE chatroom[d]
<1>1. /\ ChatDisconnected(c, reached)
      /\ \A d \in Clients : d # c => charid'[d] = charid[d] /\ screen'[d] = screen[d]
  BY DEF Closed, Forgotten
<1>2. ChatTypeOK /\ RoomsRight /\ Seated
  BY DEF Chats
<1>3. CASE reached
  <2>1. /\ ChatTypeOK' /\ RoomsRight'
        /\ \A d \in Clients : chatroom'[d] = IF d = c THEN 0 ELSE chatroom[d]
    BY <1>1, <1>2, <1>3, LeaveKeeps DEF ChatDisconnected
  <2> QED BY <1>1, <1>2, <2>1 DEF Chats, Seated
<1>4. CASE ~reached
  <2>1. chatroom' = [chatroom EXCEPT ![c] = 0] /\ UNCHANGED <<people, nbMax, lastRoom>>
    BY <1>1, <1>4 DEF ChatDisconnected
  <2>2. \A d \in Clients : chatroom'[d] = IF d = c THEN 0 ELSE chatroom[d]
    BY <1>2, <2>1 DEF ChatTypeOK
  <2>3. ChatTypeOK'
    <3>1. chatroom' \in [Clients -> Rooms \cup {0}]
      BY <1>2, <2>1 DEF ChatTypeOK
    <3> QED BY <1>2, <2>1, <3>1 DEF ChatTypeOK
  <2>4. RoomsRight'
    BY <1>1, <1>2, <2>1, <2>2, <2>3, ListsShrink DEF Members
  <2> QED BY <1>1, <1>2, <2>2, <2>3, <2>4 DEF Chats, Seated
<1> QED BY <1>3, <1>4

\* Cleaning takes nobody off that is in the room: its client is an entry of
\* ClientList that plays the character.
LEMMA ListRoomsKeeps ==
  ASSUME CharClientsTypeOK, Chats, NEW c \in Clients, NEW stop \in Rooms, ListRooms(c, stop),
         UNCHANGED clientVars
  PROVE  Chats'
<1> DEFINE done == {r \in Rooms : Exists(r) /\ r <= stop}
<1>1. ChatTypeOK /\ RoomsRight /\ Seated
  BY DEF Chats
<1>2. /\ UNCHANGED <<nbMax, chatroom, lastRoom>>
      /\ people' = [r \in Rooms |-> IF r \in done THEN Cleaned(people[r]) ELSE people[r]]
  BY DEF ListRooms
<1>3. \A r \in done : r \in Rooms /\ people[r] \in Seq(Chars) /\ people[r] # <<>>
  BY <1>1 DEF Exists, ChatTypeOK
<1> HIDE DEF done
<1>4. \A r \in Rooms :
        /\ people'[r] \in Seq(Chars) /\ Range(people'[r]) \subseteq Range(people[r])
        /\ \A x \in Range(people[r]) : IsOnline(x) => x \in Range(people'[r])
  BY <1>1, <1>2, <1>3, CleanedIs DEF ChatTypeOK
<1>5. ChatTypeOK'
  <2>1. people' \in [Rooms -> Seq(Chars)]
    BY <1>2, <1>4
  <2> QED BY <1>1, <1>2, <2>1 DEF ChatTypeOK
<1>6. ASSUME NEW d \in Clients, chatroom'[d] # 0, charid[d] \in Members(chatroom[d])
      PROVE  charid[d] \in Range(people'[chatroom[d]])
  <2>1. chatroom[d] \in Rooms
    BY <1>1, <1>2, <1>6 DEF ChatTypeOK
  <2>2. charid[d] \in Chars
    BY <1>1, <1>6, <2>1, RoomIs
  <2>3. IsOnline(charid[d])
    BY <2>2, CharClientsAssumption DEF IsOnline, Found
  <2> QED BY <1>4, <1>6, <2>1, <2>3 DEF Members
<1>7. RoomsRight'
  <2>1. \A r \in Rooms : Members(r)' \subseteq Members(r)
    BY <1>4 DEF Members
  <2> QED BY <1>1, <1>2, <1>5, <1>6, <2>1, ListsShrink DEF clientVars
<1> QED BY <1>1, <1>2, <1>5, <1>7 DEF Chats, Seated, clientVars

\* A list of one has room for it.
LEMMA CreateRoomKeeps ==
  ASSUME CharClientsTypeOK, Entries, Chats, NEW c \in Clients, NEW size \in Sizes,
         CreateRoom(c, size), UNCHANGED clientVars
  PROVE  Chats'
<1> DEFINE g == GetChatroomID
<1>1. ChatTypeOK /\ RoomsRight /\ Seated
  BY DEF Chats
<1>2. charid[c] \in Chars /\ screen[c] = "game"
  BY DEF CreateRoom, Playing, Entries, CharClientsTypeOK
<1>3. /\ lastRoom' = g /\ people' = [people EXCEPT ![g] = <<charid[c]>>]
      /\ nbMax' = [nbMax EXCEPT ![g] = size] /\ chatroom' = [chatroom EXCEPT ![c] = g]
      /\ charid' = charid /\ screen' = screen
  BY DEF CreateRoom, clientVars
<1>4. g \in Rooms /\ (g # LastRoom => ~Exists(g)) /\ size \in Nat \ {0}
  BY <1>1, NumberIsFree, ChatroomsAssumption
<1> HIDE DEF g
<1>5. ChatTypeOK'
  <2>1. <<charid[c]>> \in Seq(Chars)
    BY <1>2
  <2> QED BY <1>1, <1>3, <1>4, <2>1 DEF ChatTypeOK
<1>6. \A r \in Rooms : people'[r] = IF r = g THEN <<charid[c]>> ELSE people[r]
  BY <1>1, <1>3 DEF ChatTypeOK
<1>7. \A d \in Clients : chatroom'[d] = IF d = c THEN g ELSE chatroom[d]
  BY <1>1, <1>3 DEF ChatTypeOK
<1>8. Range(<<charid[c]>>) = {charid[c]}
  BY DEF Range
<1>9. InRoomIsListed'
  <2> SUFFICES ASSUME NEW d \in Clients, chatroom'[d] \in 1..(LastRoom - 1)
               PROVE  charid'[d] \in Range(people'[chatroom'[d]])
    BY DEF InRoomIsListed, Members
  <2>1. CASE d = c
    BY <1>3, <1>4, <1>6, <1>7, <1>8, <2>1
  <2>2. CASE d # c
    <3>1. /\ chatroom[d] = chatroom'[d] /\ chatroom[d] \in Rooms /\ chatroom[d] # LastRoom
          /\ charid[d] \in Members(chatroom[d])
      BY <1>1, <1>7, <2>2, ChatroomsAssumption DEF RoomsRight, InRoomIsListed, Rooms
    <3>2. chatroom[d] # g
      BY <1>1, <1>4, <3>1, RoomIs
    <3> QED BY <1>3, <1>6, <3>1, <3>2 DEF Members
  <2> QED BY <2>1, <2>2
<1>10. ASSUME NEW r \in Rooms, Exists(r)'
       PROVE  Cardinality(Members(r)') <= nbMax'[r] + 1
  <2>1. CASE r = g
    <3>1. Members(r)' = {charid[c]} /\ nbMax'[r] = size
      BY <1>1, <1>3, <1>6, <1>8, <2>1 DEF Members, ChatTypeOK
    <3>2. Cardinality(Members(r)') = 1
      BY <3>1, FS_Singleton
    <3> QED BY <1>4, <3>1, <3>2
  <2>2. CASE r # g
    <3>1. people'[r] = people[r] /\ nbMax'[r] = nbMax[r]
      BY <1>1, <1>3, <1>6, <2>2 DEF ChatTypeOK
    <3> QED BY <1>1, <1>10, <3>1 DEF RoomsRight, RoomBound, Members, Exists
  <2> QED BY <2>1, <2>2
<1>11. Seated'
  BY <1>1, <1>2, <1>3, <1>7 DEF Seated
<1> QED BY <1>5, <1>9, <1>10, <1>11 DEF Chats, RoomsRight, RoomBound

\* A member that enters once more adds nobody; a newcomer was not counted
\* before, and found no more entries than the size.
LEMMA JoinRoomKeeps ==
  ASSUME CharClientsTypeOK, Entries, Chats, NEW c \in Clients, NEW g \in Rooms,
         JoinRoom(c, g), UNCHANGED clientVars
  PROVE  Chats'
<1>1. ChatTypeOK /\ RoomsRight /\ Seated
  BY DEF Chats
<1>2. charid[c] \in Chars /\ screen[c] = "game"
  BY DEF JoinRoom, Playing, Entries, CharClientsTypeOK
<1>3. /\ people' = [people EXCEPT ![g] = Append(people[g], charid[c])]
      /\ chatroom' = [chatroom EXCEPT ![c] = g] /\ UNCHANGED <<nbMax, lastRoom>>
      /\ Before(people[g], charid[c]) <= nbMax[g] /\ Exists(g)
      /\ charid' = charid /\ screen' = screen
  BY DEF JoinRoom, clientVars
<1>4. people[g] \in Seq(Chars) /\ nbMax[g] \in Nat
  BY <1>1 DEF ChatTypeOK
<1>5. /\ Append(people[g], charid[c]) \in Seq(Chars)
      /\ Range(Append(people[g], charid[c])) = Range(people[g]) \cup {charid[c]}
  <2>1. Append(people[g], charid[c]) = people[g] \o <<charid[c]>>
    BY <1>2, <1>4, AppendIsConcat
  <2>2. <<charid[c]>> \in Seq(Chars) /\ Range(<<charid[c]>>) = {charid[c]}
    BY <1>2 DEF Range
  <2>3. /\ people[g] \o <<charid[c]>> \in Seq(Chars)
        /\ Range(people[g] \o <<charid[c]>>) = Range(people[g]) \cup Range(<<charid[c]>>)
    <3>1. \A p, q \in Seq(Chars) : p \o q \in Seq(Chars) /\ Range(p \o q) = Range(p) \cup Range(q)
      BY ConcatProperties, RangeConcatenation
    <3> QED BY ONLY <1>4, <2>2, <3>1, Zenon
  <2> QED BY <2>1, <2>2, <2>3
<1>6. ChatTypeOK'
  <2>1. people' \in [Rooms -> Seq(Chars)]
    BY <1>1, <1>3, <1>5 DEF ChatTypeOK
  <2> QED BY <1>1, <1>3, <2>1 DEF ChatTypeOK
<1>7. \A r \in Rooms : Members(r)' = Members(r) \cup (IF r = g THEN {charid[c]} ELSE {})
  BY <1>1, <1>3, <1>5 DEF Members, ChatTypeOK
<1>8. \A d \in Clients : chatroom'[d] = IF d = c THEN g ELSE chatroom[d]
  BY <1>1, <1>3 DEF ChatTypeOK
<1>9. InRoomIsListed'
  <2> SUFFICES ASSUME NEW d \in Clients, chatroom'[d] \in 1..(LastRoom - 1)
               PROVE  charid'[d] \in Range(people'[chatroom'[d]])
    BY DEF InRoomIsListed, Members
  <2>1. chatroom'[d] \in Rooms /\ charid'[d] = charid[d]
    BY <1>3, <1>6 DEF ChatTypeOK, Rooms
  <2>2. d # c => charid[d] \in Members(chatroom[d])
    BY <1>1, <1>8 DEF RoomsRight, InRoomIsListed
  <2> QED BY <1>7, <1>8, <2>1, <2>2 DEF Members
<1>10. ASSUME NEW r \in Rooms, Exists(r)'
       PROVE  Cardinality(Members(r)') <= nbMax'[r] + 1
  <2>1. CASE Members(r)' = Members(r)
    <3>1. Members(r)' # {} /\ Exists(r)
      BY <1>1, <1>3, <1>10, <2>1, RoomIs DEF Exists, ChatTypeOK
    <3> QED BY <1>1, <1>3, <2>1, <3>1 DEF RoomsRight, RoomBound
  <2>2. CASE Members(r)' # Members(r)
    <3>1. r = g /\ charid[c] \notin Range(people[g]) /\ Members(r)' = Members(g) \cup {charid[c]}
      BY <1>7, <2>2 DEF Members
    <3>2. Len(people[g]) <= nbMax[g]
      BY <1>3, <3>1 DEF Before
    <3>3. Cardinality(Members(r)') = Cardinality(Members(g)) + 1
      BY <1>1, <3>1, RoomIs, FS_AddElement DEF Members
    <3>4. Cardinality(Members(g)) \in Nat /\ Cardinality(Members(g)) <= Len(people[g]) /\ Len(people[g]) \in Nat
      BY <1>1, <1>4, RoomIs
    <3> QED BY <1>3, <1>4, <3>1, <3>2, <3>3, <3>4
  <2> QED BY <2>1, <2>2
<1>11. Seated'
  BY <1>1, <1>2, <1>3, <1>8 DEF Seated
<1> QED BY <1>6, <1>9, <1>10, <1>11 DEF Chats, RoomsRight, RoomBound

LEMMA LeaveRoomKeeps ==
  ASSUME CharClientsTypeOK, Entries, Chats, NEW c \in Clients,
         DisconnectClientFromChat(c), \A d \in Clients : d # c => UNCHANGED <<charid[d], screen[d]>>
  PROVE  Chats'
<1>1. /\ ChatTypeOK' /\ RoomsRight'
      /\ \A d \in Clients : chatroom'[d] = IF d = c THEN 0 ELSE chatroom[d]
  BY LeaveKeeps DEF Chats
<1> QED BY <1>1 DEF Chats, Seated

\* Every handler keeps the chatrooms right.
LEMMA ChatsStep ==
  ASSUME MessengerTypeOK, Entries, Chats, [Next]_vars
  PROVE  Chats'
<1>0. CharClientsTypeOK /\ ChatTypeOK /\ Seated
  BY DEF MessengerTypeOK, Chats
<1>1. ASSUME NEW c \in Clients, pakDoIdentify(c) PROVE Chats'
  <2>1. /\ UNCHANGED chatVars /\ charid' = charid
        /\ \A d \in Clients : screen'[d] = screen[d] \/ (d = c /\ screen'[d] = "title")
    BY <1>0, <1>1 DEF pakDoIdentify, Connected, CharClientsTypeOK
  <2> QED BY <1>0, <2>1, QuietKeeps DEF Seated
<1>2. ASSUME NEW c \in Clients, pakGetCharacters(c) PROVE Chats'
  <2>1. /\ DisconnectClientFromChat(c) /\ charid' = charid
        /\ \A d \in Clients : d # c => screen'[d] = screen[d]
    BY <1>0, <1>2 DEF pakGetCharacters, Listed, CharClientsTypeOK
  <2> QED BY <1>0, <2>1, LeaveRoomKeeps
<1>3. ASSUME NEW c \in Clients, NEW x \in Chars, pakRequestWorld(c, x) PROVE Chats'
  <2>1. /\ UNCHANGED chatVars /\ screen[c] = "select"
        /\ \A d \in Clients : d # c => charid'[d] = charid[d] /\ screen'[d] = screen[d]
    BY <1>0, <1>3 DEF pakRequestWorld, Chosen, CharClientsTypeOK
  <2> QED BY <1>0, <2>1, QuietKeeps DEF Seated
<1>4. ASSUME NEW c \in Clients, OnClientDisconnect(c) PROVE Chats'
  BY <1>0, <1>4, ClosedKeeps DEF OnClientDisconnect
<1>5. ASSUME NEW c \in Clients, NEW y \in Chars, NEW stored \in BOOLEAN,
             pakMessengerFails(c, y, stored)
      PROVE Chats'
  BY <1>0, <1>5, ClosedKeeps DEF pakMessengerFails
<1>6. ASSUME UNCHANGED <<chatVars, charid, screen>> PROVE Chats'
  BY <1>0, <1>6, QuietKeeps DEF Seated
<1>7. CASE FriendSteps
  BY <1>6, <1>7 DEF FriendSteps, pakMessengerLogout, AcceptFriend, DeleteFriend, clientVars
<1>8. CASE WorldSteps
  <2>1. /\ UNCHANGED <<chatVars, charid>>
        /\ \A d \in Clients : screen'[d] = screen[d] \/ screen'[d] \in {"leaving", "title"}
    BY <1>0, <1>8 DEF WorldSteps, WorldCharSelect, WorldDisconnect, pakWSCharSelect, CharClientsTypeOK
  <2> QED BY <1>0, <2>1, QuietKeeps DEF Seated
<1>9. CASE ChatSteps
  <2>1. UNCHANGED clientVars
    BY <1>9 DEF ChatSteps
  <2>2. ASSUME NEW c \in Clients, LeaveRoom(c) PROVE Chats'
    BY <1>0, <2>1, <2>2, LeaveRoomKeeps DEF LeaveRoom, clientVars
  <2> QED BY <1>0, <1>9, <2>1, <2>2, ListRoomsKeeps, JoinRoomKeeps, CreateRoomKeeps DEF ChatSteps
<1>10. CASE Restart
  <2>1. /\ people' = [r \in Rooms |-> <<>>] /\ nbMax' = [r \in Rooms |-> 0]
        /\ chatroom' = [c \in Clients |-> 0] /\ lastRoom' = 0
    BY <1>10 DEF Restart, ChatRestarted
  <2>2. ChatTypeOK'
    <3>1. <<>> \in Seq(Chars)
      OBVIOUS
    <3> QED BY <2>1, <3>1 DEF ChatTypeOK
  <2>3. Seated' /\ RoomsRight'
    BY <2>1, ChatroomsAssumption DEF Seated, RoomsRight, InRoomIsListed, RoomBound, Exists
  <2> QED BY <2>2, <2>3 DEF Chats
<1>11. CASE UNCHANGED vars
  BY <1>6, <1>11 DEF vars, clientVars
<1> QED BY <1>1, <1>2, <1>3, <1>4, <1>5, <1>7, <1>8, <1>9, <1>10, <1>11 DEF Next

\* Whoever leaves its room and is still listed there left without the room being
\* told, went on to another one, or was listed twice.
LEMMA LeavingStep ==
  ASSUME MessengerTypeOK, Entries, Chats, [Next]_vars,
         NEW c \in Clients, NEW r \in 1..(LastRoom - 1), LeftBehind(c, r), chatroom'[c] = 0
  PROVE  \/ Cardinality({i \in DOMAIN people[r] : people[r][i] = charid[c]}) > 1
         \/ screen'[c] = "off" /\ ~ClanReached(c)
<1>0. /\ CharClientsTypeOK /\ ChatTypeOK /\ Seated /\ RoomsRight
      /\ chatroom[c] = r /\ r \in Rooms /\ r # 0 /\ charid[c] \in Range(people'[r])
  BY ChatroomsAssumption DEF MessengerTypeOK, Chats, LeftBehind, Rooms
<1>1. ASSUME DisconnectClientFromChat(c)
      PROVE  Cardinality({i \in DOMAIN people[r] : people[r][i] = charid[c]}) > 1
  <2>1. people'[r] = Unlisted(people[r], charid[c]) /\ people[r] \in Seq(Chars)
    BY <1>0, <1>1 DEF DisconnectClientFromChat, ChatTypeOK
  <2> QED BY <1>0, <2>1, UnlistedIs
<1>2. ASSUME NEW d \in Clients, NEW reached, Closed(d, reached),
             reached = ClanReached(d)
      PROVE  \/ Cardinality({i \in DOMAIN people[r] : people[r][i] = charid[c]}) > 1
             \/ screen'[c] = "off" /\ ~ClanReached(c)
  <2>1. d = c
    BY <1>0, <1>2, ClosedKeeps
  <2>2. CASE reached
    BY <1>1, <1>2, <2>1, <2>2 DEF Closed, ChatDisconnected
  <2>3. CASE ~reached
    BY <1>2, <2>1, <2>3 DEF Closed, Forgotten
  <2> QED BY <2>2, <2>3
<1>3. ASSUME chatroom' = chatroom PROVE FALSE
  BY <1>0, <1>3
<1>4. ASSUME NEW d \in Clients, DisconnectClientFromChat(d) PROVE d = c
  BY <1>0, <1>4 DEF DisconnectClientFromChat, ChatTypeOK
<1>5. ASSUME NEW d \in Clients, NEW g \in Rooms, chatroom' = [chatroom EXCEPT ![d] = g] PROVE FALSE
  BY <1>0, <1>5 DEF ChatTypeOK, Rooms
<1>6. CASE ChatSteps
  <2>1. ASSUME NEW d \in Clients, NEW size \in Sizes, CreateRoom(d, size) PROVE FALSE
    BY <1>0, <1>5, <2>1, NumberIsFree DEF CreateRoom
  <2>2. ASSUME NEW d \in Clients, NEW g \in Rooms, JoinRoom(d, g) PROVE FALSE
    BY <1>5, <2>2 DEF JoinRoom
  <2>3. ASSUME NEW d \in Clients, NEW g \in Rooms, ListRooms(d, g) PROVE FALSE
    BY <1>3, <2>3 DEF ListRooms
  <2> QED BY <1>1, <1>4, <1>6, <2>1, <2>2, <2>3 DEF ChatSteps, LeaveRoom
<1>7. CASE Restart
  BY <1>0, <1>7 DEF Restart, ChatRestarted, Range
<1>8. ASSUME NEW d \in Clients, pakGetCharacters(d)
      PROVE  Cardinality({i \in DOMAIN people[r] : people[r][i] = charid[c]}) > 1
  BY <1>1, <1>4, <1>8 DEF pakGetCharacters
<1>9. ASSUME NEW d \in Clients,
             OnClientDisconnect(d) \/ \E y \in Chars, stored \in BOOLEAN : pakMessengerFails(d, y, stored)
      PROVE  \/ Cardinality({i \in DOMAIN people[r] : people[r][i] = charid[c]}) > 1
             \/ screen'[c] = "off" /\ ~ClanReached(c)
  <2>1. Closed(d, ClanReached(d))
    BY <1>9 DEF OnClientDisconnect, pakMessengerFails
  <2> QED BY <1>2, <2>1
<1>10. ASSUME UNCHANGED chatVars PROVE FALSE
  BY <1>3, <1>10 DEF chatVars
<1> QED BY <1>6, <1>7, <1>8, <1>9, <1>10
        DEF Next, pakDoIdentify, pakRequestWorld, FriendSteps, WorldSteps, vars

\* Entries and chatrooms together.
CInv == IInv /\ Chats

THEOREM ChatInvariant == Spec => []CInv
<1>1. Init => Chats
  <2> SUFFICES ASSUME Init PROVE Chats
    OBVIOUS
  <2>1. /\ people = [r \in Rooms |-> <<>>] /\ nbMax = [r \in Rooms |-> 0]
        /\ chatroom = [c \in Clients |-> 0] /\ lastRoom = 0
    BY DEF Init, ChatInit
  <2>2. ChatTypeOK
    <3>1. <<>> \in Seq(Chars)
      OBVIOUS
    <3> QED BY <2>1, <3>1 DEF ChatTypeOK
  <2>3. Seated /\ RoomsRight
    BY <2>1, ChatroomsAssumption DEF Seated, RoomsRight, InRoomIsListed, RoomBound, Exists
  <2> QED BY <2>2, <2>3 DEF Chats
<1>2. IInv /\ Chats /\ [Next]_vars => Chats'
  BY ChatsStep DEF IInv
<1> QED BY <1>1, <1>2, Invariant, PTL DEF Spec, CInv

\* A client in a room is on that room's list, and no room lists more than one
\* character above its size, for any clients, rooms and sizes.
THEOREM RoomsStayRight == Spec => []RoomsRight
<1>1. CInv => RoomsRight
  BY DEF CInv, Chats
<1> QED BY <1>1, ChatInvariant, PTL

\* Whoever leaves a room is off its list, but in the three cases the property
\* names.
THEOREM LeavingTakesOff == Spec => LeavingUnlists
<1>1. ASSUME CInv, [Next]_vars
      PROVE  [\A c \in Clients, r \in 1..(LastRoom - 1) :
                LeftBehind(c, r) =>
                  \/ chatroom'[c] # 0
                  \/ Cardinality({i \in DOMAIN people[r] : people[r][i] = charid[c]}) > 1
                  \/ screen'[c] = "off" /\ ~ClanReached(c)]_vars
  BY <1>1, LeavingStep DEF CInv, IInv
<1> QED BY <1>1, ChatInvariant, PTL DEF Spec, LeavingUnlists
=============================================================================
