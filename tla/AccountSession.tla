--------------------------- MODULE AccountSession ---------------------------
(***************************************************************************)
(* One account across the three servers.  A game client logs in at the     *)
(* login server (pakUserLogin, pakGetIP), identifies at the char server    *)
(* (pakDoIdentify, pakRequestWorld) and loads its avatar on a world server *)
(* (pakDoIdentify, pakCharSelect, pakExit).  The servers share the columns *)
(* accounts.online and accounts.lastsvr and send each other the packet     *)
(* 0x502 ("disconnect this user") over TCP, so a kick started at the login *)
(* server reaches the char server and then a world server some time later. *)
(*                                                                         *)
(* Every server handles one packet at a time, so a handler is one step,    *)
(* except where it reads accounts.online and writes it in a later          *)
(* statement: there the other servers' statements fall in between, and the *)
(* handler is two steps (loginStep and charStep hold the client served).   *)
(*                                                                         *)
(* A client is one run of the game program; several may use one account.   *)
(* A TCP connection that has not identified itself yet carries userid 0,   *)
(* which no search by userid finds: it is merged with the identification.  *)
(* A client has at most one entry in each server's list; an earlier entry   *)
(* of the same player that a server still keeps is one of another client.   *)
(***************************************************************************)
EXTENDS Naturals, Sequences

CONSTANTS
  Clients,     \* runs of the game program
  Accounts,    \* rows of table accounts
  AccountOf,   \* the account whose password a client has
  Worlds,      \* world servers (channels of the char server)
  NoClient,    \* loginStep, charStep when no handler is between two statements
  NoWorld,     \* worldAddr, charChannel of a client that has none
  MaxKicks,    \* bound: 0x502 packets in flight on one connection
  MaxFaults    \* bound: lost connections of live clients and server crashes

ASSUME AccountOfAssumption == AccountOf \in [Clients -> Accounts]
ASSUME NoClientAssumption == NoClient \notin Clients
ASSUME NoWorldAssumption == NoWorld \notin Worlds
ASSUME BoundsAssumption == MaxKicks \in Nat /\ MaxFaults \in Nat

VARIABLES
  online,        \* accounts.online
  lastsvr,       \* accounts.lastsvr, the channel chosen at the login server
  loginSession,  \* isLoggedIn of the client's connection to the login server
  charAddr,      \* the client was sent the char server's address (0x70a)
  worldAddr,     \* the world whose address the client was sent (0x711)
  charConn,      \* the client's entry in the char server's ClientList
  charChannel,   \* channel of that entry
  avatar,        \* the client's entry in each world server's ClientList
  toChar,        \* 0x502 packets from the login to the char server
  toWorld,       \* 0x502 packets from the char to each world server
  worldUp,       \* the world server runs
  channels,      \* world servers with a row in table channels
  channelList,   \* the char server's ChannelList: where it can send kicks
  loginStep,     \* client whose re-login is being answered
  charStep,      \* client whose identification awaits its UPDATE
  alive,         \* the game program still runs
  faults         \* faults so far

dbVars     == <<online, lastsvr>>
clientVars == <<loginSession, charAddr, worldAddr, alive>>
charVars   == <<charConn, charChannel, charStep>>
channelVars == <<worldUp, channels, channelList>>
worldVars  == <<avatar, channelVars>>
netVars    == <<toChar, toWorld>>
vars == <<dbVars, clientVars, charVars, worldVars, netVars, loginStep, faults>>

(***************************************************************************)
(* An entry of a ClientList: "in" is isLoggedIn and isActive; "dropped" is *)
(* deactivated and waits for FillFDS to disconnect it; "left" (world only) *)
(* is deactivated and already logged out by pakCharSelect.                 *)
(***************************************************************************)
CharStates  == {"none", "in", "dropped"}
WorldStates == {"none", "in", "dropped", "left"}

SameAccount(c, d) == AccountOf[c] = AccountOf[d]

\* Other entries of c's account, which GetNbUserID counts, active or not.
CharRivals(c)     == {d \in Clients \ {c} : SameAccount(c, d) /\ charConn[d] # "none"}
WorldRivals(w, c) == {d \in Clients \ {c} : SameAccount(c, d) /\ avatar[w][d] # "none"}

\* The entries GetClientByUserID may find first: list order is not modelled.
CharEntries(a)     == {d \in Clients : AccountOf[d] = a /\ charConn[d] # "none"}
WorldEntries(w, a) == {d \in Clients : AccountOf[d] = a /\ avatar[w][d] # "none"}

InWorld(c)   == \E w \in Worlds : avatar[w][c] = "in"

\* The client has nowhere else to go: no address to connect to, no session.
AtLoginScreen(c) ==
  /\ alive[c]
  /\ ~charAddr[c]
  /\ worldAddr[c] = NoWorld
  /\ charConn[c] # "in"
  /\ ~InWorld(c)

\* Deactivating an entry; one that pakCharSelect has logged out stays so.
Deactivated(entry) == IF entry = "in" THEN "dropped" ELSE entry
-----------------------------------------------------------------------------
Init ==
  /\ online = [a \in Accounts |-> FALSE]
  /\ lastsvr \in [Accounts -> Worlds]
  /\ loginSession = [c \in Clients |-> FALSE]
  /\ charAddr = [c \in Clients |-> FALSE]
  /\ worldAddr = [c \in Clients |-> NoWorld]
  /\ charConn = [c \in Clients |-> "none"]
  /\ charChannel = [c \in Clients |-> NoWorld]
  /\ avatar = [w \in Worlds |-> [c \in Clients |-> "none"]]
  /\ toChar = <<>>
  /\ toWorld = [w \in Worlds |-> <<>>]
  /\ worldUp = [w \in Worlds |-> TRUE]
  /\ channels = Worlds /\ channelList = Worlds
  /\ loginStep = NoClient
  /\ charStep = NoClient
  /\ alive = [c \in Clients |-> TRUE]
  /\ faults = 0

-----------------------------------------------------------------------------
(* Login server *)

\* 0x708 with the right password: the account is free, channels are listed.
pakUserLogin(c) ==
  /\ AtLoginScreen(c)
  /\ loginStep = NoClient
  /\ ~loginSession[c]
  /\ ~online[AccountOf[c]]
  /\ loginSession' = [loginSession EXCEPT ![c] = TRUE]
  /\ UNCHANGED <<dbVars, charAddr, worldAddr, alive, charVars, worldVars,
                 netVars, loginStep, faults>>

\* 0x708 while accounts.online is set: reply 4, and 0x502 to the char server.
pakUserLoginAgain(c) ==
  /\ AtLoginScreen(c)
  /\ loginStep = NoClient
  /\ ~loginSession[c]
  /\ online[AccountOf[c]]
  /\ Len(toChar) < MaxKicks
  /\ toChar' = Append(toChar, AccountOf[c])
  /\ loginStep' = c
  /\ UNCHANGED <<dbVars, clientVars, charVars, worldVars, toWorld, faults>>

\* Mutant: the UPDATE of the re-login branch is forgotten.
pakUserLoginResetForgotten ==
  /\ loginStep # NoClient
  /\ loginStep' = NoClient
  /\ UNCHANGED <<online, lastsvr, clientVars, charVars, worldVars, netVars, faults>>

\* ... and then "update accounts set online=0"; the connection is closed.
pakUserLoginReset ==
  /\ loginStep # NoClient
  /\ online' = [online EXCEPT ![AccountOf[loginStep]] = FALSE]
  /\ loginStep' = NoClient
  /\ UNCHANGED <<lastsvr, clientVars, charVars, worldVars, netVars, faults>>

\* 0x70a: the channel is stored and the char server's address is sent; the
\* client then leaves the login server.
pakGetIP(c, w) ==
  /\ AtLoginScreen(c)
  /\ loginStep = NoClient
  /\ loginSession[c]
  /\ lastsvr' = [lastsvr EXCEPT ![AccountOf[c]] = w]
  /\ charAddr' = [charAddr EXCEPT ![c] = TRUE]
  /\ loginSession' = [loginSession EXCEPT ![c] = FALSE]
  /\ UNCHANGED <<online, worldAddr, alive, charVars, worldVars, netVars,
                 loginStep, faults>>
-----------------------------------------------------------------------------
(* Char server *)

CharIdle == charStep = NoClient

Identifying(c) ==
  /\ CharIdle
  /\ alive[c]
  /\ charAddr[c]
  /\ charConn[c] = "none"

\* 0x70b refused: GetNbUserID counts another entry of the account, or
\* accounts.online is set.  The handler returns false: disconnected at once.
pakDoIdentifyRefused(c) ==
  /\ Identifying(c)
  /\ CharRivals(c) # {} \/ online[AccountOf[c]]
  /\ charAddr' = [charAddr EXCEPT ![c] = FALSE]
  /\ UNCHANGED <<dbVars, loginSession, worldAddr, alive, charVars, worldVars,
                 netVars, loginStep, faults>>

\* Mutant: GetNbUserID is not asked.
pakDoIdentifyUncounted(c) ==
  /\ Identifying(c)
  /\ ~online[AccountOf[c]]
  /\ charStep' = c
  /\ charAddr' = [charAddr EXCEPT ![c] = FALSE]
  /\ UNCHANGED <<dbVars, loginSession, worldAddr, alive, charConn, charChannel,
                 worldVars, netVars, loginStep, faults>>

\* 0x70b: both checks pass.
pakDoIdentify(c) ==
  /\ Identifying(c)
  /\ CharRivals(c) = {}
  /\ ~online[AccountOf[c]]
  /\ charStep' = c
  /\ charAddr' = [charAddr EXCEPT ![c] = FALSE]
  /\ UNCHANGED <<dbVars, loginSession, worldAddr, alive, charConn, charChannel,
                 worldVars, netVars, loginStep, faults>>

\* ... and then "UPDATE accounts SET online=1" and isLoggedIn = true.
pakDoIdentifyCommit ==
  /\ charStep # NoClient
  /\ online' = [online EXCEPT ![AccountOf[charStep]] = TRUE]
  /\ charConn' = [charConn EXCEPT ![charStep] = "in"]
  /\ charChannel' = [charChannel EXCEPT ![charStep] = lastsvr[AccountOf[charStep]]]
  /\ charStep' = NoClient
  /\ UNCHANGED <<lastsvr, clientVars, worldVars, netVars, loginStep, faults>>

\* 0x715: the address of the world server of the client's channel.
pakRequestWorld(c) ==
  /\ CharIdle
  /\ alive[c]
  /\ charConn[c] = "in"
  /\ ~InWorld(c)
  /\ worldAddr[c] = NoWorld
  /\ charChannel[c] \in channels
  /\ worldAddr' = [worldAddr EXCEPT ![c] = charChannel[c]]
  /\ UNCHANGED <<dbVars, loginSession, charAddr, alive, charVars, worldVars,
                 netVars, loginStep, faults>>

\* 0x715 when the channel is gone ("Invalid Server"): disconnected.
pakRequestWorldInvalid(c) ==
  /\ CharIdle
  /\ alive[c]
  /\ charConn[c] = "in"
  /\ ~InWorld(c)
  /\ charChannel[c] \notin channels
  /\ charConn' = [charConn EXCEPT ![c] = "none"]
  /\ charChannel' = [charChannel EXCEPT ![c] = NoWorld]
  /\ worldAddr' = [worldAddr EXCEPT ![c] = NoWorld]
  /\ UNCHANGED <<dbVars, loginSession, charAddr, alive, charStep, worldVars,
                 netVars, loginStep, faults>>

\* 0x502 from the login server, user not online here: nothing is forwarded.
pakLoginDSClientUnknown ==
  /\ CharIdle
  /\ toChar # <<>>
  /\ CharEntries(Head(toChar)) = {}
  /\ toChar' = Tail(toChar)
  /\ UNCHANGED <<dbVars, clientVars, charVars, worldVars, toWorld, loginStep,
                 faults>>

\* 0x502 from the login server: the entry is logged out and deactivated, and
\* the packet is forwarded to the world server of the entry's channel, if the
\* char server has a connection to it.
pakLoginDSClient ==
  /\ CharIdle
  /\ toChar # <<>>
  /\ \E d \in CharEntries(Head(toChar)) :
       /\ charConn' = [charConn EXCEPT ![d] = "dropped"]
       /\ IF charChannel[d] \in channelList
            THEN /\ Len(toWorld[charChannel[d]]) < MaxKicks
                 /\ toWorld' = [toWorld EXCEPT ![charChannel[d]] =
                                  Append(@, Head(toChar))]
            ELSE UNCHANGED toWorld
  /\ toChar' = Tail(toChar)
  /\ UNCHANGED <<dbVars, clientVars, charChannel, charStep, worldVars,
                 loginStep, faults>>

\* Mutant: the disconnect marks the account offline.
CharFillFDSMarksOffline(c) ==
  /\ CharIdle
  /\ charConn[c] = "dropped"
  /\ charConn' = [charConn EXCEPT ![c] = "none"]
  /\ charChannel' = [charChannel EXCEPT ![c] = NoWorld]
  /\ online' = [online EXCEPT ![AccountOf[c]] = FALSE]
  /\ UNCHANGED <<lastsvr, clientVars, charStep, worldVars, netVars, loginStep,
                 faults>>

\* FillFDS disconnects a deactivated entry; accounts.online is not touched.
CharFillFDS(c) ==
  /\ CharIdle
  /\ charConn[c] = "dropped"
  /\ charConn' = [charConn EXCEPT ![c] = "none"]
  /\ charChannel' = [charChannel EXCEPT ![c] = NoWorld]
  /\ UNCHANGED <<dbVars, clientVars, charStep, worldVars, netVars, loginStep,
                 faults>>

\* ReceiveData fails: the connection is closed or broken.
CharLost(c) ==
  /\ CharIdle
  /\ charConn[c] = "in"
  /\ charConn' = [charConn EXCEPT ![c] = "none"]
  /\ charChannel' = [charChannel EXCEPT ![c] = NoWorld]
  /\ UNCHANGED <<dbVars, clientVars, charStep, worldVars, netVars, loginStep>>
-----------------------------------------------------------------------------
(* World servers *)

\* Mutant: GetNbUserID skips entries that wait for FillFDS.
WorldIdentifyActiveOnly(w, c) ==
  /\ worldUp[w]
  /\ alive[c]
  /\ worldAddr[c] = w
  /\ avatar[w][c] = "none"
  /\ \A d \in WorldRivals(w, c) : avatar[w][d] # "in"
  /\ avatar' = [avatar EXCEPT ![w][c] = "in"]
  /\ online' = [online EXCEPT ![AccountOf[c]] = TRUE]
  /\ worldAddr' = [worldAddr EXCEPT ![c] = NoWorld]
  /\ UNCHANGED <<lastsvr, loginSession, charAddr, alive, charVars, channelVars,
                 netVars, loginStep, faults>>

\* 0x70b on world w, no other entry of the account: loaddata() loads the
\* avatar and sets accounts.online.
WorldIdentify(w, c) ==
  /\ worldUp[w]
  /\ alive[c]
  /\ worldAddr[c] = w
  /\ avatar[w][c] = "none"
  /\ WorldRivals(w, c) = {}
  /\ avatar' = [avatar EXCEPT ![w][c] = "in"]
  /\ online' = [online EXCEPT ![AccountOf[c]] = TRUE]
  /\ worldAddr' = [worldAddr EXCEPT ![c] = NoWorld]
  /\ UNCHANGED <<lastsvr, loginSession, charAddr, alive, charVars, channelVars,
                 netVars, loginStep, faults>>

\* 0x70b on world w with another entry of the account: ForceDiscClient
\* deactivates the first entry with that userid, which is a rival or the
\* newcomer itself, and the newcomer is disconnected.
WorldIdentifyRefused(w, c) ==
  /\ worldUp[w]
  /\ alive[c]
  /\ worldAddr[c] = w
  /\ avatar[w][c] = "none"
  /\ WorldRivals(w, c) # {}
  /\ \E d \in WorldRivals(w, c) \cup {c} :
       avatar' = [avatar EXCEPT ![w][d] = Deactivated(@)]
  /\ worldAddr' = [worldAddr EXCEPT ![c] = NoWorld]
  /\ UNCHANGED <<dbVars, loginSession, charAddr, alive, charVars, channelVars,
                 netVars, loginStep, faults>>

\* 0x502 from the char server.
pakCharDSClient(w) ==
  /\ worldUp[w]
  /\ toWorld[w] # <<>>
  /\ IF WorldEntries(w, Head(toWorld[w])) = {}
       THEN UNCHANGED avatar
       ELSE \E d \in WorldEntries(w, Head(toWorld[w])) :
              avatar' = [avatar EXCEPT ![w][d] = Deactivated(@)]
  /\ toWorld' = [toWorld EXCEPT ![w] = Tail(@)]
  /\ UNCHANGED <<dbVars, clientVars, charVars, channelVars, toChar, loginStep,
                 faults>>

\* 0x707: the client leaves the game.
pakExit(w, c) ==
  /\ worldUp[w]
  /\ alive[c]
  /\ avatar[w][c] = "in"
  /\ avatar' = [avatar EXCEPT ![w][c] = "dropped"]
  /\ UNCHANGED <<dbVars, clientVars, charVars, channelVars, netVars, loginStep,
                 faults>>

\* 0x71c: back to the character list; OnClientDisconnect runs inside the
\* handler (save, accounts.online=false), the entry stays for FillFDS.
pakCharSelect(w, c) ==
  /\ worldUp[w]
  /\ alive[c]
  /\ avatar[w][c] = "in"
  /\ avatar' = [avatar EXCEPT ![w][c] = "left"]
  /\ online' = [online EXCEPT ![AccountOf[c]] = FALSE]
  /\ UNCHANGED <<lastsvr, clientVars, charVars, channelVars, netVars, loginStep,
                 faults>>

\* FillFDS disconnects a deactivated entry: OnClientDisconnect saves it and
\* clears accounts.online unless pakCharSelect has done so, then it is freed.
WorldFillFDS(w, c) ==
  /\ worldUp[w]
  /\ avatar[w][c] \in {"dropped", "left"}
  /\ avatar' = [avatar EXCEPT ![w][c] = "none"]
  /\ online' = IF avatar[w][c] = "dropped"
                 THEN [online EXCEPT ![AccountOf[c]] = FALSE]
                 ELSE online
  /\ UNCHANGED <<lastsvr, clientVars, charVars, channelVars, netVars, loginStep,
                 faults>>

\* ReceiveData fails on an active entry: saved, freed, online cleared.
WorldLost(w, c) ==
  /\ worldUp[w]
  /\ avatar[w][c] = "in"
  /\ avatar' = [avatar EXCEPT ![w][c] = "none"]
  /\ online' = [online EXCEPT ![AccountOf[c]] = FALSE]
  /\ UNCHANGED <<lastsvr, clientVars, charVars, channelVars, netVars, loginStep>>
-----------------------------------------------------------------------------
(* Faults *)

ClientGone(c) ==
  /\ alive[c]
  /\ alive' = [alive EXCEPT ![c] = FALSE]
  /\ UNCHANGED <<dbVars, loginSession, charAddr, worldAddr, charVars,
                 worldVars, netVars, loginStep, faults>>

\* A server notices that the client behind an entry is gone (a send after
\* PingClients fails, or the peer resets), or loses a live client's connection.
Noticed(c) == ~alive[c] /\ UNCHANGED faults
Broken(c)  == alive[c] /\ faults < MaxFaults /\ faults' = faults + 1

CharDisconnect(c)     == CharLost(c) /\ (Noticed(c) \/ Broken(c))
WorldDisconnect(w, c) == WorldLost(w, c) /\ (Noticed(c) \/ Broken(c))

\* The char server dies and starts again: OnServerReady leaves accounts.online
\* alone.  Packets already sent to the world servers still arrive; no others do,
\* since a world server connects only when it starts itself, and its row in
\* table channels stays.
CharCrash ==
  /\ faults < MaxFaults
  /\ faults' = faults + 1
  /\ charConn' = [c \in Clients |-> "none"]
  /\ charChannel' = [c \in Clients |-> NoWorld]
  /\ charStep' = NoClient
  /\ channelList' = {}
  /\ toChar' = <<>>
  /\ UNCHANGED <<dbVars, clientVars, avatar, worldUp, channels, toWorld, loginStep>>

\* The char server deletes the row of a channel it was connected to.
WorldCrash(w) ==
  /\ worldUp[w]
  /\ faults < MaxFaults
  /\ faults' = faults + 1
  /\ worldUp' = [worldUp EXCEPT ![w] = FALSE]
  /\ channels' = channels \ ({w} \cap channelList)
  /\ channelList' = channelList \ {w}
  /\ avatar' = [avatar EXCEPT ![w] = [c \in Clients |-> "none"]]
  /\ toWorld' = [toWorld EXCEPT ![w] = <<>>]
  /\ UNCHANGED <<dbVars, clientVars, charVars, toChar, loginStep>>

\* OnServerReady runs CleanConnectedList: every account, on every channel,
\* is marked offline.  Then it writes its row and connects.
WorldRestart(w) ==
  /\ ~worldUp[w]
  /\ worldUp' = [worldUp EXCEPT ![w] = TRUE]
  /\ channels' = channels \cup {w}
  /\ channelList' = channelList \cup {w}
  /\ online' = [a \in Accounts |-> FALSE]
  /\ UNCHANGED <<lastsvr, clientVars, charVars, avatar, netVars, loginStep,
                 faults>>
-----------------------------------------------------------------------------
LoginServer ==
  \/ pakUserLoginReset
  \/ \E c \in Clients :
       pakUserLogin(c) \/ pakUserLoginAgain(c) \/ \E w \in Worlds : pakGetIP(c, w)

CharServer ==
  \/ pakDoIdentifyCommit \/ pakLoginDSClientUnknown \/ pakLoginDSClient
  \/ \E c \in Clients :
       \/ pakDoIdentify(c) \/ pakDoIdentifyRefused(c)
       \/ pakRequestWorld(c) \/ pakRequestWorldInvalid(c)
       \/ CharFillFDS(c) \/ CharDisconnect(c)

WorldServer(w) ==
  \/ pakCharDSClient(w)
  \/ \E c \in Clients :
       \/ WorldIdentify(w, c) \/ WorldIdentifyRefused(w, c)
       \/ pakExit(w, c) \/ pakCharSelect(w, c)
       \/ WorldFillFDS(w, c) \/ WorldDisconnect(w, c)

Fault ==
  \/ CharCrash
  \/ \E c \in Clients : ClientGone(c)
  \/ \E w \in Worlds : WorldCrash(w) \/ WorldRestart(w)

Next == LoginServer \/ CharServer \/ (\E w \in Worlds : WorldServer(w)) \/ Fault

Spec == Init /\ [][Next]_vars

(***************************************************************************)
(* Fairness.  Each server's loop keeps running its handlers and FillFDS; a *)
(* connection whose peer is gone is noticed at the latest when the pings   *)
(* sent on it time out; a crashed world server is started again.  A client *)
(* that is alive keeps trying to get in.  Nothing makes it leave.          *)
(***************************************************************************)
Fairness ==
  /\ WF_vars(pakUserLoginReset)
  /\ WF_vars(pakDoIdentifyCommit)
  /\ WF_vars(pakLoginDSClientUnknown)
  /\ WF_vars(pakLoginDSClient)
  /\ \A w \in Worlds : WF_vars(pakCharDSClient(w)) /\ WF_vars(WorldRestart(w))
  /\ \A c \in Clients :
       /\ WF_vars(CharFillFDS(c))
       /\ WF_vars(CharLost(c) /\ Noticed(c))
       /\ WF_vars(pakUserLogin(c) \/ pakUserLoginAgain(c))
       /\ WF_vars(\E w \in Worlds : pakGetIP(c, w))
       /\ WF_vars(pakDoIdentify(c) \/ pakDoIdentifyRefused(c))
       /\ WF_vars(pakRequestWorld(c) \/ pakRequestWorldInvalid(c))
       /\ \A w \in Worlds :
            /\ WF_vars(WorldFillFDS(w, c))
            /\ WF_vars(WorldLost(w, c) /\ Noticed(c))
            /\ WF_vars(WorldIdentify(w, c) \/ WorldIdentifyRefused(w, c))

FairSpec == Spec /\ Fairness
-----------------------------------------------------------------------------
\* Type invariant: every variable stays in its range, the queues within their
\* bound, and every entry of the char server has a channel.
TypeOK ==
  /\ online \in [Accounts -> BOOLEAN]
  /\ lastsvr \in [Accounts -> Worlds]
  /\ loginSession \in [Clients -> BOOLEAN]
  /\ charAddr \in [Clients -> BOOLEAN]
  /\ worldAddr \in [Clients -> Worlds \cup {NoWorld}]
  /\ charConn \in [Clients -> CharStates]
  /\ charChannel \in [Clients -> Worlds \cup {NoWorld}]
  /\ \A c \in Clients : charConn[c] # "none" => charChannel[c] # NoWorld
  /\ avatar \in [Worlds -> [Clients -> WorldStates]]
  /\ toChar \in Seq(Accounts) /\ Len(toChar) <= MaxKicks
  /\ toWorld \in [Worlds -> Seq(Accounts)]
  /\ \A w \in Worlds : Len(toWorld[w]) <= MaxKicks
  /\ worldUp \in [Worlds -> BOOLEAN]
  /\ channels \in SUBSET Worlds /\ channelList \in SUBSET Worlds
  /\ loginStep \in Clients \cup {NoClient}
  /\ charStep \in Clients \cup {NoClient}
  /\ alive \in [Clients -> BOOLEAN]
  /\ faults \in 0..MaxFaults

\* The char server never keeps two entries of one account, kicked ones
\* included, whatever the login server, the worlds and the flag do
\* (CCharServer::pakDoIdentify, GetNbUserID).
OneCharEntry == \A c \in Clients : charConn[c] # "none" => CharRivals(c) = {}

\* A world server never keeps two avatars of one account, so an avatar is
\* never loaded before its predecessor has been saved and freed
\* (CWorldServer::pakDoIdentify, GetNbUserID, OnClientDisconnect).
OneAvatarPerWorld ==
  \A w \in Worlds, c \in Clients : avatar[w][c] # "none" => WorldRivals(w, c) = {}

\* While an avatar stays in a world, only a re-login marks its account offline:
\* the late disconnect of an older entry of the account (FillFDS, ReceiveData,
\* pakCharSelect: OnClientDisconnect) never clears the flag under it.  With one
\* world server; the restart of another channel marks everybody offline.
OnlyReloginUnmarksAvatar ==
  [][\A c \in Clients, w \in Worlds :
       avatar[w][c] = "in" /\ avatar'[w][c] = "in"
         /\ online[AccountOf[c]] /\ ~online'[AccountOf[c]]
       => pakUserLoginReset]_vars

KickInFlight(a) ==
  \/ \E i \in 1..Len(toChar) : toChar[i] = a
  \/ \E w \in Worlds : \E i \in 1..Len(toWorld[w]) : toWorld[w][i] = a

\* A player who keeps trying gets into the world whenever the other clients of
\* the account are gone, whatever stale entries and flags they left behind: the
\* re-login branch of pakUserLogin, the kicks and FillFDS clear them.  It takes
\* that a kick arrives before the player who caused it is back at the char
\* server; a kick that is late every time throws the player out every time.
RetryGetsIn ==
  \A c \in Clients :
    <>[](/\ \A d \in Clients : alive[d] <=> d = c
         /\ charAddr[c] => ~KickInFlight(AccountOf[c]))
      => []<>InWorld(c)

(***************************************************************************)
(* Refinement of AvatarLease: the holder is the client with an entry.      *)
(***************************************************************************)
Holder(w, a) ==
  IF WorldEntries(w, a) = {} THEN NoClient ELSE CHOOSE c \in WorldEntries(w, a) : TRUE

Lease == INSTANCE AvatarLease
           WITH Nobody <- NoClient,
                holder <- [w \in Worlds |-> [a \in Accounts |-> Holder(w, a)]]

\* The session protocol implements the lease: an avatar never changes hands on
\* a world server without having been released there.
ImplementsLease == Lease!Spec
-----------------------------------------------------------------------------
\* The purpose the comment at pakDoIdentify gives for its check ("to avoid multi
\* client on the same account"): at most
\* one client of an account plays, over all world servers.
OnePlayerPerAccount ==
  \A c, d \in Clients :
    SameAccount(c, d) /\ InWorld(c) /\ InWorld(d) => c = d
=============================================================================
