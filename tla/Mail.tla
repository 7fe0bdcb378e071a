-------------------------------- MODULE Mail --------------------------------
(***************************************************************************)
(* The mail of players on a world server (/mail send, claim, delete): zuly *)
(* and one stack of goods can be attached.  A mail is a row of the table   *)
(* mail_list and nothing else; what is attached leaves the sender's wallet *)
(* and inventory, and enters the claimant's, in memory only.  Those are    *)
(* written by savedata: by the autosave, under PlayerMutex, and when the   *)
(* player leaves.  So a crash undoes one side of a mail and not the other. *)
(*                                                                         *)
(* A command writes one row, after it has changed the memory: a crash      *)
(* before the statement is a crash before the command, and the command is  *)
(* one step.  Statements do not fail here, and the goods have numbers      *)
(* below 2048, for which BuildItemHead loses nothing of the number.        *)
(***************************************************************************)
EXTENDS Holdings

CONSTANTS
  MaxMails,       \* bound: how many mails are sent
  MaxStops,       \* bound: how often the server stops
  Amounts         \* bound: the zuly a player names

ASSUME MailAssumption ==
  /\ MaxMails \in Nat /\ MaxStops \in Nat /\ Amounts \subseteq Nat

VARIABLES
  savedItems,     \* table items
  savedZuly,      \* characters.zuly
  mails,          \* table mail_list, by id
  sent,           \* number of mails sent, the last id
  stops,          \* how often it stopped
  made            \* history: zuly made by crashes (and by stale copies, ClanBank)

saved    == <<savedItems, savedZuly>>
mailvars == <<items, zuly, saved, mails, sent, stops, made>>

Mails  == [to : Players, zuly : Nat, goods : Stacks, is_claimed : BOOLEAN]
NoMail == [to |-> NoItem, zuly |-> 0, goods |-> Empty, is_claimed |-> TRUE]
Ids    == 1..MaxMails

MailInit ==
  /\ items = InitItems /\ savedItems = InitItems
  /\ zuly = InitZuly /\ savedZuly = InitZuly
  /\ mails = [id \in Ids |-> NoMail]
  /\ sent = 0
  /\ stops = 0
  /\ made = 0

-----------------------------------------------------------------------------
\* Slot 0 stands for a mail without goods.
SentStack(p, s) == IF s = NoSlot THEN Empty ELSE items[p][s]
Without(inv, s) == IF s = NoSlot THEN inv ELSE [inv EXCEPT ![s] = Empty]

SendMail(p, to, n, s) ==
  /\ sent < MaxMails
  /\ n <= zuly[p]
  /\ s # NoSlot => items[p][s] # Empty
  /\ items' = [items EXCEPT ![p] = Without(@, s)]
  /\ zuly' = [zuly EXCEPT ![p] = @ - n]
  /\ sent' = sent + 1
  /\ mails' = [mails EXCEPT ![sent'] =
                 [to |-> to, zuly |-> n, goods |-> SentStack(p, s), is_claimed |-> FALSE]]
  /\ UNCHANGED <<saved, stops, made>>

\* To a name nobody has: the zuly is given back and the goods are not.
SendMailToNobody(p, n, s) ==
  /\ n <= zuly[p]
  /\ s # NoSlot /\ items[p][s] # Empty
  /\ items' = [items EXCEPT ![p] = Without(@, s)]
  /\ UNCHANGED <<zuly, saved, mails, sent, stops, made>>

\* BuildItemHead packs an item as number * 32 + type and the claim unpacks the
\* type as the upper half word: 0 for every number below 2048, a type that
\* GetNewItemSlot has no tab for.
ClaimSlot(inv, goods) == NoSlot

\* Mutant of ClaimMail: the mail is not marked.
ClaimMailUnmarked(p, id) ==
  LET mail == mails[id] IN
  /\ mail.to = p /\ ~ mail.is_claimed
  /\ mail.zuly > 0 /\ mail.goods = Empty
  /\ zuly' = [zuly EXCEPT ![p] = @ + mail.zuly]
  /\ UNCHANGED <<items, saved, mails, sent, stops, made>>

\* Goods that find no slot are refused, their zuly with them.
ClaimMail(p, id) ==
  LET mail == mails[id]
      slot == ClaimSlot(items[p], mail.goods)
  IN
  /\ mail.to = p /\ ~ mail.is_claimed
  /\ mail.zuly > 0 \/ mail.goods # Empty
  /\ mail.goods # Empty => slot # NoSlot
  /\ items' = IF mail.goods = Empty THEN items
              ELSE [items EXCEPT ![p] = Added(@, slot, mail.goods.item, mail.goods.count)]
  /\ zuly' = [zuly EXCEPT ![p] = @ + mail.zuly]
  /\ mails' = [mails EXCEPT ![id].is_claimed = TRUE]
  /\ UNCHANGED <<saved, sent, stops, made>>

\* Claimed or not.
DeleteMail(p, id) ==
  /\ mails[id].to = p
  /\ mails' = [mails EXCEPT ![id] = NoMail]
  /\ UNCHANGED <<items, zuly, saved, sent, stops, made>>

-----------------------------------------------------------------------------
\* savedata: the autosave; also the first half of leaving.
autosave(p) ==
  /\ savedZuly' = [savedZuly EXCEPT ![p] = zuly[p]]
  /\ savedItems' = [savedItems EXCEPT ![p] = items[p]]
  /\ UNCHANGED <<items, zuly, mails, sent, stops, made>>

\* Zuly that players gave away, on balance, since their last savedata.
Exposure == SumFunction([p \in Players |-> IF savedZuly[p] > zuly[p]
                                            THEN savedZuly[p] - zuly[p] ELSE 0])

\* The server stops; everyone loads what was written.
Halt ==
  /\ stops < MaxStops
  /\ items' = savedItems /\ zuly' = savedZuly
  /\ stops' = stops + 1
  /\ made' = made + Exposure
  /\ UNCHANGED <<saved, mails, sent>>

Commands(p) ==
  \/ \E n \in Amounts, s \in {NoSlot} \cup InvSlots :
       \/ \E to \in Players : SendMail(p, to, n, s)
       \/ SendMailToNobody(p, n, s)
  \/ \E id \in Ids : ClaimMail(p, id) \/ DeleteMail(p, id)

-----------------------------------------------------------------------------
(* Properties *)

MailTypeOK ==
  /\ HoldingsTypeOK
  /\ savedItems \in [Players -> Inventories] /\ savedZuly \in [Players -> Nat]
  /\ mails \in [Ids -> Mails \cup {NoMail}]
  /\ sent \in 0..MaxMails
  /\ stops \in 0..MaxStops
  /\ made \in Nat

\* Zuly in unclaimed mails.
InMails == SumFunction([id \in Ids |-> IF mails[id].is_claimed THEN 0 ELSE mails[id].zuly])

=============================================================================
