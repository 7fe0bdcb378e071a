----------------------- MODULE AccountSession_proofs -----------------------
(***************************************************************************)
(* Proofs about AccountSession, for any clients, accounts and worlds.      *)
(***************************************************************************)
EXTENDS AccountSession, TLAPS, SequenceTheorems

USE AccountOfAssumption, NoClientAssumption, NoWorldAssumption, BoundsAssumption DEF channelVars

\* The steps that handle 0x502 keep the queues well-typed and within bound.
LEMMA QueueTypes ==
  ASSUME NEW S, NEW q \in Seq(S), NEW e \in S, NEW n \in Nat
  PROVE  /\ Append(q, e) \in Seq(S)
         /\ Len(q) < n => Len(Append(q, e)) <= n
         /\ q # <<>> => /\ Tail(q) \in Seq(S) /\ Head(q) \in S
                        /\ Len(q) <= n => Len(Tail(q)) <= n
BY AppendProperties, HeadTailProperties, LenProperties

\* Type correctness: every handler and fault keeps TypeOK.
THEOREM TypeCorrect == Spec => []TypeOK
<1>1. Init => TypeOK
  BY EmptySeq, SMTT(30) DEF Init, TypeOK, CharStates, WorldStates
<1>2. TypeOK /\ [Next]_vars => TypeOK'
  <2> SUFFICES ASSUME TypeOK, [Next]_vars PROVE TypeOK'
    OBVIOUS
  <2>1. CASE UNCHANGED vars
    BY <2>1 DEF TypeOK, vars, dbVars, clientVars, charVars, worldVars, netVars
  <2>2. CASE LoginServer
    <3>1. CASE pakUserLoginReset
      BY <3>1 DEF TypeOK, pakUserLoginReset, clientVars, charVars, worldVars, netVars
    <3>2. ASSUME NEW c \in Clients, pakUserLogin(c) PROVE TypeOK'
      BY <3>2 DEF TypeOK, pakUserLogin, dbVars, charVars, worldVars, netVars
    <3>3. ASSUME NEW c \in Clients, pakUserLoginAgain(c) PROVE TypeOK'
      BY <3>3, QueueTypes
      DEF TypeOK, pakUserLoginAgain, dbVars, clientVars, charVars, worldVars
    <3>4. ASSUME NEW c \in Clients, NEW w \in Worlds, pakGetIP(c, w) PROVE TypeOK'
      BY <3>4 DEF TypeOK, pakGetIP, charVars, worldVars, netVars
    <3> QED BY <2>2, <3>1, <3>2, <3>3, <3>4 DEF LoginServer
  <2>3. CASE CharServer
    <3>1. CASE pakDoIdentifyCommit
      BY <3>1 DEF TypeOK, pakDoIdentifyCommit, CharStates, clientVars, worldVars, netVars
    <3>2. CASE pakLoginDSClientUnknown
      BY <3>2, QueueTypes
      DEF TypeOK, pakLoginDSClientUnknown, dbVars, clientVars, charVars, worldVars
    <3>3. CASE pakLoginDSClient
      <4>1. PICK d \in CharEntries(Head(toChar)) :
              /\ charConn' = [charConn EXCEPT ![d] = "dropped"]
              /\ IF charChannel[d] \in channelList
                   THEN /\ Len(toWorld[charChannel[d]]) < MaxKicks
                        /\ toWorld' = [toWorld EXCEPT ![charChannel[d]] =
                                         Append(toWorld[charChannel[d]], Head(toChar))]
                   ELSE UNCHANGED toWorld
        BY <3>3 DEF pakLoginDSClient
      <4>2. Head(toChar) \in Accounts /\ toChar' \in Seq(Accounts) /\ Len(toChar') <= MaxKicks
        BY <3>3, QueueTypes DEF TypeOK, pakLoginDSClient
      <4>3. /\ toWorld' \in [Worlds -> Seq(Accounts)]
            /\ \A w \in Worlds : Len(toWorld'[w]) <= MaxKicks
        <5>0. charChannel[d] \in Worlds
          BY DEF TypeOK, CharEntries
        <5>1. CASE charChannel[d] \in channelList
          <6> DEFINE q == toWorld[charChannel[d]]
          <6>1. Append(q, Head(toChar)) \in Seq(Accounts) /\ Len(Append(q, Head(toChar))) <= MaxKicks
            BY <4>1, <4>2, <5>0, <5>1, QueueTypes DEF TypeOK
          <6> HIDE DEF q
          <6>2. toWorld' = [toWorld EXCEPT ![charChannel[d]] = Append(q, Head(toChar))]
            BY <4>1, <5>1 DEF q
          <6> QED BY <5>0, <6>1, <6>2 DEF TypeOK
        <5>2. CASE charChannel[d] \notin channelList
          BY <4>1, <5>2 DEF TypeOK
        <5> QED BY <5>1, <5>2
      <4>4. /\ charConn' \in [Clients -> CharStates]
            /\ \A c \in Clients : charConn'[c] # "none" => charConn[c] # "none"
        BY <4>1 DEF TypeOK, CharStates, CharEntries
      <4>5. UNCHANGED <<dbVars, clientVars, charChannel, charStep, worldVars, loginStep, faults>>
        BY <3>3 DEF pakLoginDSClient
      <4> QED BY <4>2, <4>3, <4>4, <4>5 DEF TypeOK, dbVars, clientVars, worldVars
    <3>4. ASSUME NEW c \in Clients, pakDoIdentify(c) PROVE TypeOK'
      BY <3>4 DEF TypeOK, pakDoIdentify, dbVars, worldVars, netVars
    <3>5. ASSUME NEW c \in Clients, pakDoIdentifyRefused(c) PROVE TypeOK'
      BY <3>5 DEF TypeOK, pakDoIdentifyRefused, dbVars, charVars, worldVars, netVars
    <3>6. ASSUME NEW c \in Clients, pakRequestWorld(c) PROVE TypeOK'
      BY <3>6 DEF TypeOK, pakRequestWorld, dbVars, charVars, worldVars, netVars
    <3>7. ASSUME NEW c \in Clients, pakRequestWorldInvalid(c) PROVE TypeOK'
      BY <3>7 DEF TypeOK, pakRequestWorldInvalid, CharStates, dbVars, worldVars, netVars
    <3>8. ASSUME NEW c \in Clients, CharFillFDS(c) PROVE TypeOK'
      BY <3>8 DEF TypeOK, CharFillFDS, CharStates, dbVars, clientVars, worldVars, netVars
    <3>9. ASSUME NEW c \in Clients, CharDisconnect(c) PROVE TypeOK'
      BY <3>9 DEF TypeOK, CharDisconnect, CharLost, Noticed, Broken, CharStates,
                  dbVars, clientVars, worldVars, netVars
    <3> QED BY <2>3, <3>1, <3>2, <3>3, <3>4, <3>5, <3>6, <3>7, <3>8, <3>9 DEF CharServer
  <2>4. ASSUME NEW w \in Worlds, WorldServer(w) PROVE TypeOK'
    <3>1. CASE pakCharDSClient(w)
      <4>1. avatar' \in [Worlds -> [Clients -> WorldStates]]
        <5>1. CASE avatar' = avatar
          BY <5>1 DEF TypeOK
        <5>2. ASSUME NEW d \in Clients, avatar' = [avatar EXCEPT ![w][d] = Deactivated(@)]
              PROVE  avatar' \in [Worlds -> [Clients -> WorldStates]]
          BY <5>2 DEF TypeOK, Deactivated, WorldStates
        <5> QED BY <3>1, <5>1, <5>2 DEF pakCharDSClient, WorldEntries
      <4>2. /\ toWorld' \in [Worlds -> Seq(Accounts)]
            /\ \A v \in Worlds : Len(toWorld'[v]) <= MaxKicks
        BY <3>1, QueueTypes DEF TypeOK, pakCharDSClient
      <4> QED BY <3>1, <4>1, <4>2 DEF TypeOK, pakCharDSClient, dbVars, clientVars, charVars
    <3>2. ASSUME NEW c \in Clients, WorldIdentify(w, c) PROVE TypeOK'
      BY <3>2 DEF TypeOK, WorldIdentify, WorldStates, charVars, netVars
    <3>3. ASSUME NEW c \in Clients, WorldIdentifyRefused(w, c) PROVE TypeOK'
      BY <3>3 DEF TypeOK, WorldIdentifyRefused, WorldRivals, Deactivated, WorldStates,
                  dbVars, charVars, netVars
    <3>4. ASSUME NEW c \in Clients, pakExit(w, c) PROVE TypeOK'
      BY <3>4 DEF TypeOK, pakExit, WorldStates, dbVars, clientVars, charVars, netVars
    <3>5. ASSUME NEW c \in Clients, pakCharSelect(w, c) PROVE TypeOK'
      BY <3>5 DEF TypeOK, pakCharSelect, WorldStates, clientVars, charVars, netVars
    <3>6. ASSUME NEW c \in Clients, WorldFillFDS(w, c) PROVE TypeOK'
      BY <3>6 DEF TypeOK, WorldFillFDS, WorldStates, clientVars, charVars, netVars
    <3>7. ASSUME NEW c \in Clients, WorldDisconnect(w, c) PROVE TypeOK'
      BY <3>7 DEF TypeOK, WorldDisconnect, WorldLost, Noticed, Broken, WorldStates,
                  clientVars, charVars, netVars
    <3> QED BY <2>4, <3>1, <3>2, <3>3, <3>4, <3>5, <3>6, <3>7 DEF WorldServer
  <2>5. CASE Fault
    <3>1. CASE CharCrash
      BY <3>1, EmptySeq DEF TypeOK, CharCrash, CharStates, dbVars, clientVars, worldVars
    <3>2. ASSUME NEW c \in Clients, ClientGone(c) PROVE TypeOK'
      BY <3>2 DEF TypeOK, ClientGone, dbVars, charVars, worldVars, netVars
    <3>3. ASSUME NEW w \in Worlds, WorldCrash(w) PROVE TypeOK'
      BY <3>3, EmptySeq DEF TypeOK, WorldCrash, WorldStates, dbVars, clientVars, charVars
    <3>4. ASSUME NEW w \in Worlds, WorldRestart(w) PROVE TypeOK'
      BY <3>4 DEF TypeOK, WorldRestart, clientVars, charVars, netVars
    <3> QED BY <2>5, <3>1, <3>2, <3>3, <3>4 DEF Fault
  <2> QED BY <2>1, <2>2, <2>3, <2>4, <2>5 DEF Next
<1> QED BY <1>1, <1>2, PTL DEF Spec
-----------------------------------------------------------------------------
(***************************************************************************)
(* Exclusion at the char server.  OneCharEntry alone is not inductive: the *)
(* client between the two statements of pakDoIdentify has passed the count *)
(* but has no entry yet.  CharInv adds that it has no rivals meanwhile,    *)
(* which holds because the char server serves nobody else in between.      *)
(***************************************************************************)
CharInv ==
  /\ TypeOK
  /\ OneCharEntry
  /\ charStep # NoClient => charConn[charStep] = "none" /\ CharRivals(charStep) = {}

\* A step that adds no entry and starts no identification keeps CharInv.
LEMMA FewerCharEntries ==
  ASSUME CharInv, TypeOK', charStep' \in {charStep, NoClient},
         \A c \in Clients : charConn'[c] # "none" => charConn[c] # "none"
  PROVE  CharInv'
<1>1. \A c \in Clients : CharRivals(c)' \subseteq CharRivals(c)
  BY DEF CharRivals
<1>2. OneCharEntry'
  BY <1>1 DEF CharInv, OneCharEntry
<1>3. ASSUME charStep' # NoClient
      PROVE  charConn'[charStep'] = "none" /\ CharRivals(charStep)' = {}
  <2>1. charStep' = charStep /\ charStep \in Clients
    BY <1>3 DEF TypeOK
  <2> QED BY <1>1, <1>3, <2>1 DEF CharInv
<1> QED BY <1>2, <1>3 DEF CharInv

LEMMA CharInvStep ==
  ASSUME CharInv, TypeOK', [Next]_vars
  PROVE  CharInv'
<1> USE DEF CharInv
<1>1. CASE UNCHANGED <<charConn, charStep>>
  BY <1>1, FewerCharEntries
<1>2. ASSUME NEW c \in Clients, pakDoIdentify(c) PROVE CharInv'
  BY <1>2 DEF pakDoIdentify, Identifying, OneCharEntry, CharRivals
<1>3. CASE pakDoIdentifyCommit
  <2>1. charStep \in Clients /\ charStep # NoClient /\ CharRivals(charStep) = {}
    BY <1>3 DEF pakDoIdentifyCommit, TypeOK
  <2>2. charConn' = [charConn EXCEPT ![charStep] = "in"] /\ charStep' = NoClient
    BY <1>3 DEF pakDoIdentifyCommit
  <2>3. OneCharEntry'
    BY <2>1, <2>2 DEF OneCharEntry, CharRivals, SameAccount, TypeOK
  <2> QED BY <2>2, <2>3
<1>4. CASE pakLoginDSClient
  <2>1. PICK d \in CharEntries(Head(toChar)) : charConn' = [charConn EXCEPT ![d] = "dropped"]
    BY <1>4 DEF pakLoginDSClient
  <2> QED BY <1>4, <2>1, FewerCharEntries
          DEF pakLoginDSClient, CharEntries, charVars, TypeOK
<1>5. ASSUME NEW c \in Clients,
             CharFillFDS(c) \/ CharDisconnect(c) \/ pakRequestWorldInvalid(c)
      PROVE  CharInv'
  BY <1>5, FewerCharEntries
  DEF CharFillFDS, CharDisconnect, CharLost, pakRequestWorldInvalid, TypeOK
<1>6. CASE CharCrash
  BY <1>6, FewerCharEntries DEF CharCrash
<1>7. CASE UNCHANGED vars
  BY <1>7, <1>1 DEF vars, charVars
<1>8. CASE LoginServer
  BY <1>8, <1>1 DEF LoginServer, pakUserLogin, pakUserLoginAgain, pakUserLoginReset,
                    pakGetIP, charVars
<1>9. CASE CharServer
  BY <1>9, <1>1, <1>2, <1>3, <1>4, <1>5
  DEF CharServer, pakLoginDSClientUnknown, pakDoIdentifyRefused, pakRequestWorld, charVars
<1>10. ASSUME NEW w \in Worlds, WorldServer(w) PROVE CharInv'
  BY <1>10, <1>1
  DEF WorldServer, pakCharDSClient, WorldIdentify, WorldIdentifyRefused, pakExit,
      pakCharSelect, WorldFillFDS, WorldDisconnect, WorldLost, charVars
<1>11. CASE Fault
  BY <1>11, <1>1, <1>6 DEF Fault, ClientGone, WorldCrash, WorldRestart, charVars
<1> QED BY <1>7, <1>8, <1>9, <1>10, <1>11 DEF Next

\* The char server never keeps two entries of one account.
THEOREM CharExclusion == Spec => []OneCharEntry
<1>1. Init => CharInv
  BY EmptySeq, SMTT(30) DEF Init, CharInv, TypeOK, OneCharEntry, CharStates, WorldStates
<1>2. CharInv /\ TypeOK' /\ [Next]_vars => CharInv'
  BY CharInvStep
<1>3. CharInv => OneCharEntry
  BY DEF CharInv
<1> QED BY <1>1, <1>2, <1>3, TypeCorrect, PTL DEF Spec
-----------------------------------------------------------------------------
(***************************************************************************)
(* Exclusion at the world servers: inductive as it stands.                 *)
(***************************************************************************)

\* A step that adds no entry to any world keeps OneAvatarPerWorld.
LEMMA FewerAvatars ==
  ASSUME OneAvatarPerWorld,
         \A w \in Worlds, c \in Clients : avatar'[w][c] # "none" => avatar[w][c] # "none"
  PROVE  OneAvatarPerWorld'
BY DEF OneAvatarPerWorld, WorldRivals

LEMMA AvatarStep ==
  ASSUME TypeOK, OneAvatarPerWorld, [Next]_vars
  PROVE  OneAvatarPerWorld'
<1>1. CASE UNCHANGED avatar
  BY <1>1, FewerAvatars
<1>2. ASSUME NEW w \in Worlds, WorldServer(w) PROVE OneAvatarPerWorld'
  <2>1. ASSUME NEW d \in Clients, NEW s,
               avatar[w][d] # "none" \/ s = "none",
               avatar' = [avatar EXCEPT ![w][d] = s]
        PROVE  OneAvatarPerWorld'
    BY <2>1, FewerAvatars DEF TypeOK
  <2>2. CASE pakCharDSClient(w)
    <3>1. CASE WorldEntries(w, Head(toWorld[w])) = {}
      BY <2>2, <3>1, <1>1 DEF pakCharDSClient
    <3>2. CASE WorldEntries(w, Head(toWorld[w])) # {}
      <4>1. PICK d \in WorldEntries(w, Head(toWorld[w])) :
              avatar' = [avatar EXCEPT ![w][d] = Deactivated(avatar[w][d])]
        BY <2>2, <3>2 DEF pakCharDSClient
      <4> QED BY <4>1, <2>1 DEF WorldEntries
    <3> QED BY <3>1, <3>2
  <2>3. ASSUME NEW c \in Clients, WorldIdentify(w, c) PROVE OneAvatarPerWorld'
    BY <2>3 DEF WorldIdentify, OneAvatarPerWorld, WorldRivals, SameAccount, TypeOK
  <2>4. ASSUME NEW c \in Clients, WorldIdentifyRefused(w, c) PROVE OneAvatarPerWorld'
    <3>1. PICK d \in WorldRivals(w, c) \cup {c} :
            avatar' = [avatar EXCEPT ![w][d] = Deactivated(avatar[w][d])]
      BY <2>4 DEF WorldIdentifyRefused
    <3>2. CASE d = c
      BY <2>4, <3>1, <3>2, <2>1 DEF WorldIdentifyRefused, Deactivated
    <3>3. CASE d # c
      BY <3>1, <3>3, <2>1 DEF WorldRivals
    <3> QED BY <3>2, <3>3
  <2>5. ASSUME NEW c \in Clients,
               pakExit(w, c) \/ pakCharSelect(w, c) \/ WorldFillFDS(w, c) \/ WorldDisconnect(w, c)
        PROVE  OneAvatarPerWorld'
    BY <2>5, <2>1 DEF pakExit, pakCharSelect, WorldFillFDS, WorldDisconnect, WorldLost
  <2> QED BY <1>2, <2>2, <2>3, <2>4, <2>5 DEF WorldServer
<1>3. CASE UNCHANGED vars
  BY <1>3, <1>1 DEF vars, worldVars
<1>4. CASE LoginServer
  BY <1>4, <1>1 DEF LoginServer, pakUserLogin, pakUserLoginAgain, pakUserLoginReset,
                    pakGetIP, worldVars
<1>5. CASE CharServer
  BY <1>5, <1>1
  DEF CharServer, pakDoIdentify, pakDoIdentifyRefused, pakDoIdentifyCommit, pakRequestWorld,
      pakRequestWorldInvalid, pakLoginDSClient, pakLoginDSClientUnknown, CharFillFDS,
      CharDisconnect, CharLost, worldVars
<1>6. CASE Fault
  <2>1. ASSUME NEW w \in Worlds, WorldCrash(w) PROVE OneAvatarPerWorld'
    BY <2>1, FewerAvatars DEF WorldCrash, TypeOK
  <2> QED BY <1>6, <1>1, <2>1 DEF Fault, CharCrash, ClientGone, WorldRestart, worldVars
<1> QED BY <1>2, <1>3, <1>4, <1>5, <1>6 DEF Next

\* A world server never keeps two avatars of one account.
THEOREM AvatarExclusion == Spec => []OneAvatarPerWorld
<1>1. Init => OneAvatarPerWorld
  BY DEF Init, OneAvatarPerWorld
<1>2. TypeOK /\ OneAvatarPerWorld /\ [Next]_vars => OneAvatarPerWorld'
  BY AvatarStep
<1> QED BY <1>1, <1>2, TypeCorrect, PTL DEF Spec
-----------------------------------------------------------------------------
(***************************************************************************)
(* Refinement of AvatarLease.  A step either keeps every world's set of    *)
(* entries, or adds one entry to a free account, removes one, or clears a  *)
(* world; with at most one entry per account these are the lease's steps.  *)
(***************************************************************************)
Held == [w \in Worlds |-> [a \in Accounts |-> Holder(w, a)]]

LEMMA HolderNobody ==
  ASSUME NEW w, NEW a, WorldEntries(w, a) = {}
  PROVE  Holder(w, a) = NoClient
BY DEF Holder

LEMMA HolderOnly ==
  ASSUME NEW w, NEW a, NEW c, WorldEntries(w, a) = {c}
  PROVE  Holder(w, a) = c
BY DEF Holder

LEMMA OnlyEntry ==
  ASSUME OneAvatarPerWorld, NEW w \in Worlds, NEW c \in Clients, avatar[w][c] # "none"
  PROVE  WorldEntries(w, AccountOf[c]) = {c}
BY DEF OneAvatarPerWorld, WorldRivals, WorldEntries, SameAccount

LEMMA SameEntries ==
  ASSUME \A w \in Worlds, c \in Clients : avatar'[w][c] = "none" <=> avatar[w][c] = "none"
  PROVE  Held' = Held
<1>1. ASSUME NEW w \in Worlds, NEW a \in Accounts PROVE Holder(w, a)' = Holder(w, a)
  <2>1. WorldEntries(w, a)' = WorldEntries(w, a)
    BY DEF WorldEntries
  <2> QED BY <2>1 DEF Holder
<1> QED BY <1>1 DEF Held

\* One entry, of client c on world w, appears or disappears.
LEMMA OneEntryChanges ==
  ASSUME TypeOK, NEW w \in Worlds, NEW c \in Clients, NEW s,
         avatar' = [avatar EXCEPT ![w][c] = s]
  PROVE  \A v \in Worlds, a \in Accounts :
           <<v, a>> # <<w, AccountOf[c]>> => Holder(v, a)' = Holder(v, a)
<1> SUFFICES ASSUME NEW v \in Worlds, NEW a \in Accounts, v # w \/ a # AccountOf[c]
             PROVE  Holder(v, a)' = Holder(v, a)
  OBVIOUS
<1>1. WorldEntries(v, a)' = WorldEntries(v, a)
  BY DEF WorldEntries, TypeOK
<1> QED BY <1>1 DEF Holder

LEMMA GrantStep ==
  ASSUME TypeOK, OneAvatarPerWorld, OneAvatarPerWorld',
         NEW w \in Worlds, NEW c \in Clients, WorldIdentify(w, c)
  PROVE  /\ Held[w][AccountOf[c]] = NoClient
         /\ Held' = [Held EXCEPT ![w][AccountOf[c]] = c]
<1>1. avatar' = [avatar EXCEPT ![w][c] = "in"] /\ avatar[w][c] = "none" /\ WorldRivals(w, c) = {}
  BY DEF WorldIdentify
<1>2. WorldEntries(w, AccountOf[c]) = {}
  BY <1>1 DEF WorldEntries, WorldRivals, SameAccount
<1>3. WorldEntries(w, AccountOf[c])' = {c}
  BY <1>1, <1>2 DEF WorldEntries, TypeOK
<1>4. Holder(w, AccountOf[c])' = c
  BY <1>3 DEF Holder
<1>5. Holder(w, AccountOf[c]) = NoClient
  BY <1>2, HolderNobody
<1>6. \A v \in Worlds, a \in Accounts :
        <<v, a>> # <<w, AccountOf[c]>> => Holder(v, a)' = Holder(v, a)
  BY <1>1, OneEntryChanges
<1> QED BY <1>4, <1>5, <1>6 DEF Held

LEMMA ReleaseStep ==
  ASSUME TypeOK, OneAvatarPerWorld, NEW w \in Worlds, NEW c \in Clients,
         avatar[w][c] # "none", avatar' = [avatar EXCEPT ![w][c] = "none"]
  PROVE  /\ Held[w][AccountOf[c]] # NoClient
         /\ Held' = [Held EXCEPT ![w][AccountOf[c]] = NoClient]
<1>1. WorldEntries(w, AccountOf[c]) = {c}
  BY OnlyEntry
<1>2. WorldEntries(w, AccountOf[c])' = {}
  BY <1>1 DEF WorldEntries, TypeOK
<1>3. Holder(w, AccountOf[c])' = NoClient
  BY <1>2 DEF Holder
<1>4. Holder(w, AccountOf[c]) = c
  BY <1>1, HolderOnly
<1>5. \A v \in Worlds, a \in Accounts :
        <<v, a>> # <<w, AccountOf[c]>> => Holder(v, a)' = Holder(v, a)
  BY OneEntryChanges
<1> QED BY <1>3, <1>4, <1>5 DEF Held

LEMMA CrashStep ==
  ASSUME TypeOK, NEW w \in Worlds, WorldCrash(w)
  PROVE  Held' = [Held EXCEPT ![w] = [a \in Accounts |-> NoClient]]
<1>1. ASSUME NEW v \in Worlds, NEW a \in Accounts
      PROVE  Holder(v, a)' = IF v = w THEN NoClient ELSE Holder(v, a)
  <2>1. CASE v = w
    <3>1. WorldEntries(v, a)' = {}
      BY <2>1 DEF WorldCrash, WorldEntries, TypeOK
    <3> QED BY <3>1, <2>1 DEF Holder
  <2>2. CASE v # w
    <3>1. WorldEntries(v, a)' = WorldEntries(v, a)
      BY <2>2 DEF WorldCrash, WorldEntries, TypeOK
    <3> QED BY <3>1, <2>2 DEF Holder
  <2> QED BY <2>1, <2>2
<1> QED BY <1>1 DEF Held

\* Deactivating an entry keeps it: FillFDS removes it later.
LEMMA DeactivateStep ==
  ASSUME TypeOK, NEW w \in Worlds, NEW d \in Clients, NEW s,
         s = "none" <=> avatar[w][d] = "none",
         avatar' = [avatar EXCEPT ![w][d] = s]
  PROVE  Held' = Held
BY SameEntries DEF TypeOK

\* Every step of the protocol is a step of the lease or leaves it alone.
LEMMA LeaseStep ==
  ASSUME TypeOK, OneAvatarPerWorld, OneAvatarPerWorld', [Next]_vars
  PROVE  [Lease!Next]_Held
<1>g. ASSUME NEW w \in Worlds, NEW c \in Clients, Held[w][AccountOf[c]] = NoClient,
             Held' = [Held EXCEPT ![w][AccountOf[c]] = c]
      PROVE  Lease!Next
  BY <1>g DEF Lease!Next, Lease!Grant, Held
<1>r. ASSUME NEW w \in Worlds, NEW a \in Accounts, Held[w][a] # NoClient,
             Held' = [Held EXCEPT ![w][a] = NoClient]
      PROVE  Lease!Next
  BY <1>r DEF Lease!Next, Lease!Release, Held
<1>c. ASSUME NEW w \in Worlds, Held' = [Held EXCEPT ![w] = [a \in Accounts |-> NoClient]]
      PROVE  Lease!Next
  BY <1>c DEF Lease!Next, Lease!ReleaseAll, Held
<1>1. CASE UNCHANGED avatar
  BY <1>1, SameEntries
<1>2. ASSUME NEW w \in Worlds, WorldServer(w) PROVE [Lease!Next]_Held
  <2>1. CASE pakCharDSClient(w)
    <3>1. CASE WorldEntries(w, Head(toWorld[w])) = {}
      BY <2>1, <3>1, <1>1 DEF pakCharDSClient
    <3>2. CASE WorldEntries(w, Head(toWorld[w])) # {}
      <4>1. PICK d \in WorldEntries(w, Head(toWorld[w])) :
              avatar' = [avatar EXCEPT ![w][d] = Deactivated(avatar[w][d])]
        BY <2>1, <3>2 DEF pakCharDSClient
      <4>2. d \in Clients /\ (Deactivated(avatar[w][d]) = "none" <=> avatar[w][d] = "none")
        BY DEF WorldEntries, Deactivated
      <4> QED BY <4>1, <4>2, DeactivateStep
    <3> QED BY <3>1, <3>2
  <2>2. ASSUME NEW c \in Clients, WorldIdentify(w, c) PROVE [Lease!Next]_Held
    BY <2>2, GrantStep, <1>g
  <2>3. ASSUME NEW c \in Clients, WorldIdentifyRefused(w, c) PROVE [Lease!Next]_Held
    <3>1. PICK d \in WorldRivals(w, c) \cup {c} :
            avatar' = [avatar EXCEPT ![w][d] = Deactivated(avatar[w][d])]
      BY <2>3 DEF WorldIdentifyRefused
    <3>2. d \in Clients /\ (Deactivated(avatar[w][d]) = "none" <=> avatar[w][d] = "none")
      BY DEF WorldRivals, Deactivated
    <3> QED BY <3>1, <3>2, DeactivateStep
  <2>4. ASSUME NEW c \in Clients, pakExit(w, c) \/ pakCharSelect(w, c)
        PROVE  [Lease!Next]_Held
    <3>1. PICK s \in {"dropped", "left"} :
            avatar[w][c] = "in" /\ avatar' = [avatar EXCEPT ![w][c] = s]
      BY <2>4 DEF pakExit, pakCharSelect
    <3> QED BY <3>1, DeactivateStep
  <2>5. ASSUME NEW c \in Clients, WorldFillFDS(w, c) \/ WorldDisconnect(w, c)
        PROVE  [Lease!Next]_Held
    <3>1. avatar[w][c] # "none" /\ avatar' = [avatar EXCEPT ![w][c] = "none"]
      BY <2>5 DEF WorldFillFDS, WorldDisconnect, WorldLost
    <3>2. Held[w][AccountOf[c]] # NoClient /\ Held' = [Held EXCEPT ![w][AccountOf[c]] = NoClient]
      BY <3>1, ReleaseStep
    <3> QED BY <3>2, <1>r
  <2> QED BY <1>2, <2>1, <2>2, <2>3, <2>4, <2>5 DEF WorldServer
<1>3. CASE UNCHANGED vars
  BY <1>3, <1>1 DEF vars, worldVars
<1>4. CASE LoginServer
  BY <1>4, <1>1 DEF LoginServer, pakUserLogin, pakUserLoginAgain, pakUserLoginReset,
                    pakGetIP, worldVars
<1>5. CASE CharServer
  BY <1>5, <1>1
  DEF CharServer, pakDoIdentify, pakDoIdentifyRefused, pakDoIdentifyCommit, pakRequestWorld,
      pakRequestWorldInvalid, pakLoginDSClient, pakLoginDSClientUnknown, CharFillFDS,
      CharDisconnect, CharLost, worldVars
<1>6. CASE Fault
  BY <1>6, <1>1, CrashStep, <1>c DEF Fault, CharCrash, ClientGone, WorldRestart, worldVars
<1> QED BY <1>2, <1>3, <1>4, <1>5, <1>6 DEF Next

\* The session protocol implements the lease on avatars: none changes hands on
\* a world server without having been released there.
THEOREM LeaseRefinement == Spec => ImplementsLease
<1>1. Init => Lease!Init
  BY HolderNobody DEF Init, Lease!Init, WorldEntries
<1>2. TypeOK /\ OneAvatarPerWorld /\ OneAvatarPerWorld' /\ [Next]_vars => [Lease!Next]_Held
  BY LeaseStep
<1> QED BY <1>1, <1>2, TypeCorrect, AvatarExclusion, PTL
        DEF Spec, ImplementsLease, Lease!Spec, Held

-----------------------------------------------------------------------------
(***************************************************************************)
(* Who marks the account of an avatar offline.  A world server that is     *)
(* down has no entries, so its restart finds no avatar of its own.         *)
(***************************************************************************)
DownIsEmpty == \A w \in Worlds : ~worldUp[w] => \A c \in Clients : avatar[w][c] = "none"

LEMMA DownStep ==
  ASSUME TypeOK, DownIsEmpty, [Next]_vars
  PROVE  DownIsEmpty'
<1>1. CASE UNCHANGED <<avatar, worldUp>>
  BY <1>1 DEF DownIsEmpty
<1>2. ASSUME NEW w \in Worlds, WorldServer(w) PROVE DownIsEmpty'
  <2>1. worldUp[w] /\ worldUp' = worldUp
    BY <1>2 DEF WorldServer, pakCharDSClient, WorldIdentify, WorldIdentifyRefused, pakExit,
                pakCharSelect, WorldFillFDS, WorldDisconnect, WorldLost
  <2>2. \A v \in Worlds \ {w} : avatar'[v] = avatar[v]
    <3>1. CASE avatar' = avatar
      BY <3>1
    <3>2. ASSUME NEW d, NEW s, avatar' = [avatar EXCEPT ![w][d] = s]
          PROVE  \A v \in Worlds \ {w} : avatar'[v] = avatar[v]
      BY <3>2 DEF TypeOK
    <3> QED BY <1>2, <3>1, <3>2
            DEF WorldServer, pakCharDSClient, WorldIdentify, WorldIdentifyRefused, pakExit,
                pakCharSelect, WorldFillFDS, WorldDisconnect, WorldLost
  <2> QED BY <2>1, <2>2 DEF DownIsEmpty
<1>3. CASE UNCHANGED vars
  BY <1>3, <1>1 DEF vars, worldVars
<1>4. CASE LoginServer
  BY <1>4, <1>1 DEF LoginServer, pakUserLogin, pakUserLoginAgain, pakUserLoginReset,
                    pakGetIP, worldVars
<1>5. CASE CharServer
  BY <1>5, <1>1
  DEF CharServer, pakDoIdentify, pakDoIdentifyRefused, pakDoIdentifyCommit, pakRequestWorld,
      pakRequestWorldInvalid, pakLoginDSClient, pakLoginDSClientUnknown, CharFillFDS,
      CharDisconnect, CharLost, worldVars
<1>6. CASE Fault
  <2>1. ASSUME NEW w \in Worlds, WorldCrash(w) PROVE DownIsEmpty'
    BY <2>1 DEF WorldCrash, DownIsEmpty, TypeOK
  <2>2. ASSUME NEW w \in Worlds, WorldRestart(w) PROVE DownIsEmpty'
    BY <2>2 DEF WorldRestart, DownIsEmpty, TypeOK
  <2> QED BY <1>6, <1>1, <2>1, <2>2 DEF Fault, CharCrash, ClientGone, worldVars
<1> QED BY <1>2, <1>3, <1>4, <1>5, <1>6 DEF Next

\* A world server marks an account offline only with the entry of a client
\* whose avatar does not stay.
LEMMA UnmarkingLeaves ==
  ASSUME TypeOK, OneAvatarPerWorld, NEW w \in Worlds, WorldServer(w), NEW c \in Clients,
         avatar[w][c] = "in", avatar'[w][c] = "in", online[AccountOf[c]], ~ online'[AccountOf[c]]
  PROVE  FALSE
<1>1. ASSUME NEW d \in Clients, avatar[w][d] # "none",
             avatar' = [avatar EXCEPT ![w][d] = "none"] \/ avatar' = [avatar EXCEPT ![w][d] = "left"],
             online' = [online EXCEPT ![AccountOf[d]] = FALSE]
      PROVE  FALSE
  <2>1. AccountOf[d] = AccountOf[c]
    BY <1>1 DEF TypeOK
  <2>2. d # c
    BY <1>1 DEF TypeOK
  <2> QED BY <1>1, <2>1, <2>2 DEF OneAvatarPerWorld, WorldRivals, SameAccount
<1>2. ~ (online' = online)
  OBVIOUS
<1>3. ASSUME NEW d \in Clients, WorldIdentify(w, d) PROVE FALSE
  BY <1>3 DEF WorldIdentify, TypeOK
<1>4. ASSUME NEW d \in Clients, pakCharSelect(w, d) PROVE FALSE
  BY <1>4, <1>1 DEF pakCharSelect
<1>5. ASSUME NEW d \in Clients, WorldFillFDS(w, d) PROVE FALSE
  BY <1>5, <1>1, <1>2 DEF WorldFillFDS
<1>6. ASSUME NEW d \in Clients, WorldDisconnect(w, d) PROVE FALSE
  BY <1>6, <1>1 DEF WorldDisconnect, WorldLost
<1> QED BY <1>2, <1>3, <1>4, <1>5, <1>6
        DEF WorldServer, pakCharDSClient, WorldIdentifyRefused, pakExit, dbVars

\* Beside a re-login only another world server unmarks the account of an
\* avatar: with an entry of its own, or when it starts again.
ElsewhereUnmarked(w) ==
  \E v \in Worlds \ {w} : WorldServer(v) \/ WorldRestart(v)

LEMMA UnmarkStep ==
  ASSUME TypeOK, OneAvatarPerWorld, DownIsEmpty, [Next]_vars, NEW w \in Worlds, NEW c \in Clients,
         avatar[w][c] = "in", avatar'[w][c] = "in", online[AccountOf[c]], ~ online'[AccountOf[c]]
  PROVE  pakUserLoginReset \/ ElsewhereUnmarked(w)
<1>1. ~ (online' = online) /\ AccountOf[c] \in Accounts
  OBVIOUS
<1>2. ~ pakDoIdentifyCommit
  BY <1>1 DEF pakDoIdentifyCommit, TypeOK
<1>3. ~ WorldServer(w)
  BY UnmarkingLeaves
<1>4. ~ WorldRestart(w)
  BY DEF WorldRestart, DownIsEmpty
<1>5. LoginServer => pakUserLoginReset
  BY <1>1 DEF LoginServer, pakUserLogin, pakUserLoginAgain, pakGetIP, dbVars
<1>6. ~ CharServer
  BY <1>1, <1>2
  DEF CharServer, pakDoIdentify, pakDoIdentifyRefused, pakRequestWorld, pakRequestWorldInvalid,
      pakLoginDSClient, pakLoginDSClientUnknown, CharFillFDS, CharDisconnect, CharLost, dbVars
<1>7. Fault => \E v \in Worlds : WorldRestart(v)
  BY <1>1 DEF Fault, CharCrash, ClientGone, WorldCrash, dbVars
<1>8. ~ UNCHANGED vars
  BY <1>1 DEF vars, dbVars
<1> QED BY <1>3, <1>4, <1>5, <1>6, <1>7, <1>8 DEF Next, ElsewhereUnmarked

\* What the proofs about the flag use.
FlagInv == TypeOK /\ OneAvatarPerWorld /\ DownIsEmpty

LEMMA FlagInvariant == Spec => []FlagInv
<1>1. Init => DownIsEmpty
  BY DEF Init, DownIsEmpty
<1>2. TypeOK /\ DownIsEmpty /\ [Next]_vars => DownIsEmpty'
  BY DownStep
<1> QED BY <1>1, <1>2, TypeCorrect, AvatarExclusion, PTL DEF Spec, FlagInv

\* With any number of channels: while an avatar stays in its world, its account
\* is marked offline by a re-login, or from another world server: there by a
\* handler, or by the restart that marks everybody offline (CleanConnectedList).
UnmarkedByReloginOrElsewhere ==
  [][\A c \in Clients, w \in Worlds :
       avatar[w][c] = "in" /\ avatar'[w][c] = "in"
         /\ online[AccountOf[c]] /\ ~online'[AccountOf[c]]
       => pakUserLoginReset \/ ElsewhereUnmarked(w)]_vars

\* OnClientDisconnect of an older entry of the account never clears the flag
\* under an avatar on the same world server, however late it runs.
THEOREM ReloginOrElsewhereUnmarks == Spec => UnmarkedByReloginOrElsewhere
<1> DEFINE Right == \A c \in Clients, w \in Worlds :
                      avatar[w][c] = "in" /\ avatar'[w][c] = "in"
                        /\ online[AccountOf[c]] /\ ~online'[AccountOf[c]]
                      => pakUserLoginReset \/ ElsewhereUnmarked(w)
<1>1. FlagInv /\ [Next]_vars => Right
  BY UnmarkStep DEF FlagInv
<1> HIDE DEF Right
<1>2. UnmarkedByReloginOrElsewhere <=> [][Right]_vars
  BY PTL DEF UnmarkedByReloginOrElsewhere, Right
<1> QED BY <1>1, <1>2, FlagInvariant, PTL DEF Spec

\* With one world server, as OnlyReloginUnmarksAvatar says, nothing but a
\* re-login clears the flag while the avatar stays.
THEOREM ReloginUnmarks ==
  ASSUME NEW world, Worlds = {world}
  PROVE  Spec => OnlyReloginUnmarksAvatar
<1> DEFINE Right == \A c \in Clients, w \in Worlds :
                      avatar[w][c] = "in" /\ avatar'[w][c] = "in"
                        /\ online[AccountOf[c]] /\ ~online'[AccountOf[c]]
                      => pakUserLoginReset
<1>1. FlagInv /\ [Next]_vars => Right
  BY UnmarkStep DEF FlagInv, ElsewhereUnmarked
<1> HIDE DEF Right
<1>2. OnlyReloginUnmarksAvatar <=> [][Right]_vars
  BY PTL DEF OnlyReloginUnmarksAvatar, Right
<1> QED BY <1>1, <1>2, FlagInvariant, PTL DEF Spec
=============================================================================
