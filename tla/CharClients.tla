----------------------------- MODULE CharClients -----------------------------
(***************************************************************************)
(* The clients of the char server as its community handlers see them: the  *)
(* entries of ClientList, the character each one plays and the connection  *)
(* on which the world server reports players that left.                    *)
(*                                                                         *)
(* One account has one game client, whose sessions on the three servers    *)
(* are the subject of AccountSession; here a client has one connection at  *)
(* a time.  The char server runs one thread and handles one packet at a    *)
(* time, so a handler is one step.  What interleaves is the world server:  *)
(* it sees a player leave on a socket of its own, and its packet 0xfa      *)
(* reaches the char server some time later.                                *)
(***************************************************************************)
EXTENDS Naturals, Sequences, FiniteSetsExt

CONSTANTS
  Clients,     \* game clients, one per account
  Chars,       \* rows of table characters
  OwnerOf,     \* the client whose account a character belongs to
  NoChar,      \* charid of a client that has not chosen a character
  MaxPackets,  \* bound: packets from the world server in flight
  MaxFaults    \* bound: failed statements

ASSUME CharClientsAssumption ==
  /\ OwnerOf \in [Chars -> Clients]
  /\ NoChar \notin Chars /\ Clients \cap Chars = {}
  /\ MaxPackets \in Nat /\ MaxFaults \in Nat

VARIABLES
  screen,   \* where the game client is
  charid,   \* CCharClient::charid
  logout,   \* CCharClient::logout
  inWorld,  \* the characters that have a player on the world server
  toChar,   \* packets from the world server to the char server
  faults    \* failed statements so far

clientVars == <<screen, charid, logout, inWorld, toChar, faults>>

(***************************************************************************)
(* off: not connected.  title: connected, or told to return to the list of *)
(* characters.  select: the list was sent.  game: sent on to the world.    *)
(* leaving: the world server has let the character go, the client waits.   *)
(***************************************************************************)
Screens == {"off", "title", "select", "game", "leaving"}

\* 0xfa for a character, 0x505 for its client.
Packets == Chars \cup Clients

CharClientsTypeOK ==
  /\ screen \in [Clients -> Screens]
  /\ charid \in [Clients -> Chars \cup {NoChar}]
  /\ logout \in [Clients -> BOOLEAN]
  /\ inWorld \in SUBSET Chars
  /\ toChar \in Seq(Packets)
  /\ faults \in 0..MaxFaults

CharClientsInit ==
  /\ screen = [c \in Clients |-> "off"]
  /\ charid = [c \in Clients |-> NoChar]
  /\ logout = [c \in Clients |-> FALSE]
  /\ inWorld = {}
  /\ toChar = <<>>
  /\ faults = 0

\* The clients that GetClientByID finds for one of the characters xs: an entry
\* keeps the character last chosen when its client is back at the list.
Found(xs) == {c \in Clients : charid[c] \in xs \ {NoChar}}

\* A client that may send the packets of the messenger and the chatrooms.
Playing(c) == screen[c] = "game"

\* The entry of ClientList is deleted; a new one starts empty.
Forgotten(cs) ==
  /\ screen' = [c \in Clients |-> IF c \in cs THEN "off" ELSE screen[c]]
  /\ charid' = [c \in Clients |-> IF c \in cs THEN NoChar ELSE charid[c]]
  /\ logout' = [c \in Clients |-> logout[c] /\ c \notin cs]
-----------------------------------------------------------------------------
(* The part of each handler that concerns the connection itself. *)

Connected(c) ==
  /\ screen[c] = "off"
  /\ screen' = [screen EXCEPT ![c] = "title"]
  /\ UNCHANGED <<charid, logout, inWorld, toChar, faults>>

Listed(c) ==
  /\ screen[c] = "title"
  /\ screen' = [screen EXCEPT ![c] = "select"]
  /\ UNCHANGED <<charid, logout, inWorld, toChar, faults>>

\* The character's row is read, then the world server loads the player.
Chosen(c, x) ==
  /\ screen[c] = "select"
  /\ OwnerOf[x] = c
  /\ x \notin inWorld
  /\ screen' = [screen EXCEPT ![c] = "game"]
  /\ charid' = [charid EXCEPT ![c] = x]
  /\ logout' = [logout EXCEPT ![c] = FALSE]
  /\ inWorld' = inWorld \cup {x}
  /\ UNCHANGED <<toChar, faults>>

\* pakCharSelect on the world server: 0xfa, then 0x505.
WorldCharSelect(c) ==
  /\ screen[c] = "game"
  /\ charid[c] \in inWorld
  /\ Len(toChar) + 2 <= MaxPackets
  /\ screen' = [screen EXCEPT ![c] = "leaving"]
  /\ inWorld' = inWorld \ {charid[c]}
  /\ toChar' = toChar \o <<charid[c], c>>
  /\ UNCHANGED <<charid, logout, faults>>

\* The player's connection to the world server is gone (OnClientDisconnect
\* there): the client quits, or its connection to the char server went first.
WorldDisconnect(x) ==
  /\ x \in inWorld
  /\ Len(toChar) < MaxPackets
  /\ inWorld' = inWorld \ {x}
  /\ toChar' = Append(toChar, x)
  /\ UNCHANGED <<screen, charid, logout, faults>>

\* 0x505: the client returns to the list of characters.
pakWSCharSelect ==
  /\ toChar # <<>>
  /\ LET c == Head(toChar) IN
       /\ c \in Clients
       /\ screen' = IF screen[c] = "leaving" THEN [screen EXCEPT ![c] = "title"]
                                             ELSE screen
  /\ toChar' = Tail(toChar)
  /\ UNCHANGED <<charid, logout, inWorld, faults>>
=============================================================================
