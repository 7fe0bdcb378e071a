------------------------------ MODULE ClanBank ------------------------------
(***************************************************************************)
(* The bank of a clan (pakStoreZuly, actions 0x20 and 0x21) beside the     *)
(* mail: both move zuly between a wallet, which is saved later, and the    *)
(* database, which is written at once.                                     *)
(*                                                                         *)
(* The bank's balance is the column money of list_clan.  Every member has  *)
(* a copy, Clan->money, that is read at login and never refreshed: not     *)
(* when another member moves zuly and not when the player joins a clan.    *)
(* A deposit and a withdrawal look at the copy, change it and write it     *)
(* over the column.                                                        *)
(***************************************************************************)
EXTENDS Mail

CONSTANTS
  Deputies,       \* members of rank 5 and 6, who may withdraw
  InitMoney       \* the clan's money at the start

ASSUME BankAssumption ==
  Deputies \subseteq Players /\ InitMoney \in Nat

VARIABLES
  money,          \* list_clan.money
  copy            \* Clan->money of each member

balance  == <<money, copy>>
bankvars == <<mailvars, balance>>

\* A member's copy is 0 who joined after the last login.
BankInit ==
  /\ MailInit
  /\ money = InitMoney
  /\ copy \in [Players -> {0, InitMoney}]

\* What a balance written over the column makes.
Made(p) == IF copy[p] > money THEN copy[p] - money ELSE 0

\* Mutant of BankDeposit: the column is left to a later statement.
BankDepositUnsaved(p, n) ==
  /\ n <= zuly[p]
  /\ zuly' = [zuly EXCEPT ![p] = @ - n]
  /\ copy' = [copy EXCEPT ![p] = @ + n]
  /\ made' = made + Made(p)
  /\ UNCHANGED <<items, saved, mails, sent, stops, money>>

BankDeposit(p, n) ==
  /\ n <= zuly[p]
  /\ zuly' = [zuly EXCEPT ![p] = @ - n]
  /\ copy' = [copy EXCEPT ![p] = @ + n]
  /\ money' = copy'[p]
  /\ made' = made + Made(p)
  /\ UNCHANGED <<items, saved, mails, sent, stops>>

BankWithdraw(p, n) ==
  /\ p \in Deputies
  /\ n <= copy[p]
  /\ zuly' = [zuly EXCEPT ![p] = @ + n]
  /\ copy' = [copy EXCEPT ![p] = @ - n]
  /\ money' = copy'[p]
  /\ made' = made + Made(p)
  /\ UNCHANGED <<items, saved, mails, sent, stops>>

\* A member leaves, which saves, and comes back, which loads.
Relogin(p) ==
  /\ autosave(p)
  /\ copy' = [copy EXCEPT ![p] = money]
  /\ UNCHANGED money

Stop ==
  /\ Halt
  /\ copy' = [p \in Players |-> money]
  /\ UNCHANGED money

BankNext ==
  \/ \E p \in Players :
       \/ (Commands(p) \/ autosave(p)) /\ UNCHANGED balance
       \/ \E n \in Amounts : BankDeposit(p, n) \/ BankWithdraw(p, n)
       \/ Relogin(p)
  \/ Stop

BankSpec == BankInit /\ [][BankNext]_bankvars

-----------------------------------------------------------------------------
(* Properties *)

\* Balances are numbers and stacks fit.
BankTypeOK ==
  /\ MailTypeOK
  /\ money \in Nat /\ copy \in [Players -> Nat]

\* Zuly that is in a wallet, in an unclaimed mail or in the bank.
InPlay == ZulyHeld(Players) + InMails + money
AtStart == SumFunction(InitZuly) + InitMoney

\* Zuly is made in two ways only: a stale copy is written over the bank's
\* balance, or a crash gives zuly back to a player who gave it away since the
\* last autosave.  No order of sending, claiming, deleting, saving, leaving
\* and crashing makes any of its own; a mail is never paid twice.
MadeTwoWaysOnly == InPlay <= AtStart + made

\* As long as the server runs zuly is lost in two ways only: by a stale copy,
\* or when its receiver deletes a mail that was not claimed.
LostTwoWaysOnly ==
  [][(stops' = stops /\ InPlay' < InPlay) =>
       \/ \E p \in Players : copy[p] # money /\ copy'[p] = money'
       \/ \E id \in Ids : ~ mails[id].is_claimed /\ mails'[id] = NoMail]_bankvars

=============================================================================
