------------------------------- MODULE Trade --------------------------------
(***************************************************************************)
(* The trade window between two players (pakTradeAction, pakTradeAdd), on  *)
(* top of the street shops: a player who has confirmed a trade may open a  *)
(* shop, and the partner's confirmation then moves goods the shop lists.   *)
(*                                                                         *)
(* The server keeps, for each player, the partner named by its last packet *)
(* and a status: 1 asked, 2 asking, 3 trading, 4 locked, 6 confirmed.  It  *)
(* does not ask whether the partner names the player back, nor what the    *)
(* status was; the game client's windows order the packets.  Packets may   *)
(* come in any order here, from one player to another.                     *)
(***************************************************************************)
EXTENDS VendorShop

CONSTANTS
  NoTarget,    \* trade_target 0
  MaxOffers,   \* places of the window for goods (10 in the code)
  BotGift      \* zuly a bot lays in its window (25000)

ASSUME TradeAssumption == NoTarget \notin Players /\ MaxOffers \in Nat /\ BotGift \in Nat

VARIABLES
  target,     \* Trade->trade_target
  status,     \* Trade->trade_status
  offer,      \* Trade->trade_itemid, trade_count of the places for goods
  zulyOffer   \* Trade->trade_count of the place for zuly

tradeVars  == <<target, status, offer, zulyOffer>>
marketVars == <<vars, tradeVars>>

Statuses == {0, 1, 2, 3, 4, 6}
NoOffer  == [slot |-> NoSlot, count |-> 0]
NoOffers == [k \in 1..MaxOffers |-> NoOffer]

MarketInit ==
  /\ Init
  /\ target = [p \in Players |-> NoTarget]
  /\ status = [p \in Players |-> 0]
  /\ offer = [p \in Players |-> NoOffers]
  /\ zulyOffer = [p \in Players |-> 0]

-----------------------------------------------------------------------------
\* Every packet names the partner, and that is remembered before any check.
Facing(p, o) ==
  /\ p # o /\ p \notin Bots
  /\ ~open[p]
  /\ target' = [target EXCEPT ![p] = o]

Allowed(p, o) == {p, o} \cap Barred = {}

pakTradeBlocked(p, o) ==
  /\ Facing(p, o)
  /\ ~Allowed(p, o)
  /\ UNCHANGED <<vars, status, offer, zulyOffer>>

\* A bot accepts at once and lays zuly in its window.
pakTradeRequest(p, o) ==
  /\ Facing(p, o) /\ Allowed(p, o)
  /\ IF o \in Bots
     THEN /\ status' = [status EXCEPT ![p] = 3, ![o] = 3]
          /\ offer' = [offer EXCEPT ![p] = NoOffers, ![o] = NoOffers]
          /\ zulyOffer' = [zulyOffer EXCEPT ![p] = 0, ![o] = BotGift]
     ELSE /\ status' = [status EXCEPT ![p] = 2, ![o] = 1]
          /\ UNCHANGED <<offer, zulyOffer>>
  /\ UNCHANGED vars

pakTradeAccept(p, o) ==
  /\ Facing(p, o) /\ Allowed(p, o)
  /\ status' = [status EXCEPT ![p] = 3, ![o] = 3]
  /\ offer' = [offer EXCEPT ![p] = NoOffers, ![o] = NoOffers]
  /\ zulyOffer' = [zulyOffer EXCEPT ![p] = 0, ![o] = 0]
  /\ UNCHANGED vars

\* Of the two statuses only the sender's is reset (and that one twice).
pakTradeCancel(p, o) ==
  /\ p # o /\ p \notin Bots /\ ~open[p] /\ Allowed(p, o)
  /\ target' = [target EXCEPT ![p] = NoTarget, ![o] = NoTarget]
  /\ status' = [status EXCEPT ![p] = 0]
  /\ UNCHANGED <<vars, offer, zulyOffer>>

pakTradeLock(p, o) ==
  /\ Facing(p, o) /\ Allowed(p, o)
  /\ status' = [status EXCEPT ![p] = 4]
  /\ UNCHANGED <<vars, offer, zulyOffer>>

\* The button of a confirmed player takes the confirmation back.
Toggled(p) == [status EXCEPT ![p] = IF @ = 6 THEN 4 ELSE 6]

pakTradeConfirm(p, o) ==
  /\ Facing(p, o) /\ Allowed(p, o)
  /\ Toggled(p)[o] # 6
  /\ status' = Toggled(p)
  /\ UNCHANGED <<vars, offer, zulyOffer>>

\* The checks of a completion: funds, no slot twice, stacks large enough.
Covered(p) ==
  /\ zulyOffer[p] <= zuly[p]
  /\ \A k \in 1..MaxOffers :
       /\ \A j \in k+1..MaxOffers :
            offer[p][k].slot # NoSlot => offer[p][k].slot # offer[p][j].slot
       /\ offer[p][k].count > 0 => items[p][offer[p][k].slot].count >= offer[p][k].count

\* The zuly is put back; both stay confirmed, and the button is toggled.
pakTradeFails(p, o) ==
  /\ Facing(p, o) /\ Allowed(p, o)
  /\ status[o] = 6
  /\ ~(Covered(p) /\ Covered(o))
  /\ status' = Toggled(p)
  /\ UNCHANGED <<vars, offer, zulyOffer>>

\* Mutant of Given: nothing is taken from the giver.
GivenKept(inv, a, b, k) ==
  LET mine == offer[a][k] IN
  [inv EXCEPT ![b] = Added(@, GetNewItemSlot(inv[b], inv[a][mine.slot]),
                           inv[a][mine.slot].item, mine.count)]

\* Mutant of Given: the giver's whole stack goes, whatever part was offered.
GivenWhole(inv, a, b, k) ==
  LET mine == offer[a][k] IN
  [inv EXCEPT ![a] = [@ EXCEPT ![mine.slot] = Empty],
              ![b] = Added(@, GetNewItemSlot(inv[b], inv[a][mine.slot]),
                           inv[a][mine.slot].item, inv[a][mine.slot].count)]

\* Where a's k-th offer would go in b's inventory, and the inventories then.
\* The slot is looked for with all of a's stack, not with the offered part.
Room(inv, a, b, k) == GetNewItemSlot(inv[b], inv[a][offer[a][k].slot])
Given(inv, a, b, k) ==
  LET mine == offer[a][k] IN
  [inv EXCEPT ![a] = Taken(@, mine.slot, mine.count),
              ![b] = Added(@, Room(inv, a, b, k), inv[a][mine.slot].item, mine.count)]

\* A place of both windows, p's offer and then o's; one without room is left
\* out, and when that is p's, o's offer of the same place is left out too.
Swapped(inv, p, o, k) ==
  LET mine  == offer[p][k].count > 0
      given == IF mine THEN Given(inv, p, o, k) ELSE inv
  IN IF mine /\ Room(inv, p, o, k) = NoSlot THEN inv
     ELSE IF offer[o][k].count = 0 \/ Room(given, o, p, k) = NoSlot THEN given
     ELSE Given(given, o, p, k)

\* Place by place.
Exchanged(p, o) ==
  LET after[k \in 0..MaxOffers] == IF k = 0 THEN items ELSE Swapped(after[k - 1], p, o, k)
  IN after[MaxOffers]

\* Mutant of pakTradeCompletes: the partner is not credited.
pakTradeCompletesUnpaid(p, o) ==
  /\ Facing(p, o) /\ Allowed(p, o)
  /\ status[o] = 6
  /\ Covered(p) /\ Covered(o)
  /\ zuly' = [zuly EXCEPT ![p] = @ - zulyOffer[p] + zulyOffer[o], ![o] = @ - zulyOffer[o]]
  /\ items' = Exchanged(p, o)
  /\ status' = [status EXCEPT ![p] = 0, ![o] = 0]
  /\ UNCHANGED <<open, selling, buying, offer, zulyOffer>>

\* The offers and the targets stay as they are.
pakTradeCompletes(p, o) ==
  /\ Facing(p, o) /\ Allowed(p, o)
  /\ status[o] = 6
  /\ Covered(p) /\ Covered(o)
  /\ zuly' = [zuly EXCEPT ![p] = @ - zulyOffer[p] + zulyOffer[o],
                          ![o] = @ - zulyOffer[o] + zulyOffer[p]]
  /\ items' = Exchanged(p, o)
  /\ status' = [status EXCEPT ![p] = 0, ![o] = 0]
  /\ UNCHANGED <<open, selling, buying, offer, zulyOffer>>

-----------------------------------------------------------------------------
(* pakTradeAdd *)

CanAdd(p) == p \notin Bots /\ ~open[p] /\ target[p] # NoTarget

pakTradeAddZuly(p, n) ==
  /\ CanAdd(p)
  /\ n <= zuly[p]
  /\ zulyOffer' = [zulyOffer EXCEPT ![p] = n]
  /\ UNCHANGED <<vars, target, status, offer>>

\* The same slot is looked for in later places only; count 0 clears a place.
pakTradeAdd(p, k, slot, n) ==
  /\ CanAdd(p)
  /\ n <= items[p][slot].count
  /\ \A j \in k+1..MaxOffers : n > 0 => offer[p][j].slot # slot
  /\ offer' = [offer EXCEPT ![p][k] = IF n = 0 THEN NoOffer ELSE [slot |-> slot, count |-> n]]
  /\ UNCHANGED <<vars, target, status, zulyOffer>>

\* Teleports and emotes end a player's own side of a trade.
RestartTrade(p) ==
  /\ RestartPlayerVal(p)
  /\ target' = [target EXCEPT ![p] = NoTarget]
  /\ status' = [status EXCEPT ![p] = 0]
  /\ UNCHANGED <<offer, zulyOffer>>

TradeStep ==
  \/ \E p, o \in Players :
       \/ pakTradeBlocked(p, o) \/ pakTradeRequest(p, o) \/ pakTradeAccept(p, o)
       \/ pakTradeCancel(p, o) \/ pakTradeLock(p, o) \/ pakTradeConfirm(p, o)
       \/ pakTradeFails(p, o) \/ pakTradeCompletes(p, o)
  \/ \E p \in Players :
       \/ \E n \in 0..MaxZuly : pakTradeAddZuly(p, n)
       \/ \E k \in 1..MaxOffers, slot \in InvSlots, n \in 0..FullStack :
            pakTradeAdd(p, k, slot, n)
       \/ RestartTrade(p)

MarketNext == TradeStep \/ (ShopStep /\ UNCHANGED tradeVars)

MarketSpec == MarketInit /\ [][MarketNext]_marketVars

-----------------------------------------------------------------------------
(* Properties; ZulyConserved and GoodsConserved of VendorShop hold here too *)

\* Neither trades nor shops make or lose zuly or goods, although they move them
\* under each other's feet; only bots are given zuly and make goods of nothing.
WealthConserved == ZulyConserved /\ GoodsConserved

\* A trade takes from a player no more zuly and no more of any item than lies
\* in its window, wherever the offered slots' contents come from by then.
Offered(p, it) ==
  SumFunction([k \in 1..MaxOffers |->
                 IF offer[p][k].count > 0 /\ items[p][offer[p][k].slot].item = it
                 THEN offer[p][k].count ELSE 0])
OnlyOfferedLeaves ==
  [][\A p, o \in Players : pakTradeCompletes(p, o) =>
       \A q \in Players :
         /\ zuly[q] - zuly'[q] <= (IF q \in {p, o} THEN zulyOffer[q] ELSE 0)
         /\ \A it \in Items : CountOf(items[q], it) - CountOf(items'[q], it)
                                <= (IF q \in {p, o} THEN Offered(q, it) ELSE 0)]_marketVars
=============================================================================
