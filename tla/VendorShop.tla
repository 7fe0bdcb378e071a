----------------------------- MODULE VendorShop -----------------------------
(***************************************************************************)
(* Street shops of a world server.  A player lists slots of its inventory  *)
(* for sale and items it wants to buy (pakOpenShop); others buy from the   *)
(* first list (pakBuyShop) and sell into the second (pakSellShop).  The    *)
(* lists are copies: they are checked against the inventory when the shop  *)
(* opens and again at each sale, and the inventory may change in between.  *)
(*                                                                         *)
(* Vending bots keep a shop open forever and restock at each sale; other   *)
(* bots walk from shop to shop and buy (CheckPlayerShops).                 *)
(*                                                                         *)
(* Handlers run on the socket thread and a bot's update on the visibility  *)
(* thread, both under PlayerMutex (ServerLoop, VisibilityProcess): an      *)
(* action is one of them as a whole.  Players stay on one map where player *)
(* fighting is off (elsewhere pakOpenShop does nothing), and a player does *)
(* not buy from itself.                                                    *)
(***************************************************************************)
EXTENDS Holdings, Sequences

CONSTANTS
  VendingBots,  \* bots whose shop is always open
  Browsers,     \* bots that buy in other players' shops
  Barred,       \* players whose Session->can_trade is off
  Prices,       \* prices a list may name
  WishCounts,   \* counts a list of wishes may name
  MaxSells,     \* entries of a list of goods for sale (30 in the code)
  MaxWishes,    \* entries of a list of wishes (30 in the code)
  Word,         \* price * count is computed modulo this (2^32 where long has 32 bits)
  BotZuly,      \* what a vending bot is given with its list (500000000)
  MaxZuly       \* bound: a bot's wallet is not refilled beyond this total

Bots  == VendingBots \cup Browsers
Users == Players \ Bots

ASSUME ShopAssumption ==
  /\ Bots \subseteq Players /\ VendingBots \cap Browsers = {} /\ Barred \subseteq Players
  /\ Prices \subseteq Nat /\ WishCounts \subseteq 1..FullStack
  /\ MaxSells \in Nat /\ MaxWishes \in Nat /\ Word \in Nat \ {0}
  /\ BotZuly \in Nat /\ MaxZuly \in Nat
  /\ \A b \in VendingBots, i \in InvSlots \cap (1..MaxSells) :   \* full, as in VendingCatalog
       InitItems[b][i] # Empty => InitItems[b][i].count = Full(InitItems[b][i].item)

VARIABLES
  open,      \* Shop->open
  selling,   \* Shop->SellingList
  buying     \* Shop->BuyingList

shopVars == <<open, selling, buying>>
vars == <<items, zuly, open, selling, buying>>

NoListing == [slot |-> NoSlot, count |-> 0, price |-> 0]
Listings  == {NoListing} \cup
             [slot : InvSlots, count : 0..FullStack, price : Prices \cup {0}]
NoWish    == [item |-> NoItem, count |-> 0, price |-> 0]
Wishes    == {NoWish} \cup [item : Items, count : WishCounts, price : Prices]

Cost(price, n) == (price * n) % Word

\* PopulateVendingInventory: a vending bot lists everything it has.
Catalogue(b, price) ==
  [i \in 1..MaxSells |->
     IF i \in InvSlots /\ InitItems[b][i] # Empty
     THEN [slot |-> i, count |-> InitItems[b][i].count, price |-> price]
     ELSE NoListing]

Init ==
  /\ items = InitItems
  /\ zuly = InitZuly
  /\ open = [p \in Players |-> p \in VendingBots]
  /\ \E price \in Prices :
       selling = [p \in Players |-> IF p \in VendingBots THEN Catalogue(p, price)
                                    ELSE [i \in 1..MaxSells |-> NoListing]]
  /\ buying = [p \in Players |-> [i \in 1..MaxWishes |-> NoWish]]

-----------------------------------------------------------------------------
(* Opening and closing *)

\* The first k entries of the packet written over an older list; of entry k,
\* whose count is refused, only the slot (k > Len(entries) when none is).
Written(old, entries, k) ==
  [i \in DOMAIN old |->
     IF i < k /\ i <= Len(entries) THEN entries[i]
     ELSE IF i = k /\ i <= Len(entries) THEN [old[i] EXCEPT !.slot = entries[i].slot]
     ELSE old[i]]

\* An entry for a slot that holds less of a stackable than it names.
Overlisted(p, entry) ==
  items[p][entry.slot].item \in Stackables /\ items[p][entry.slot].count < entry.count

\* What the game client lets its user list: goods it shows, single equipment.
Listable(p) ==
  {e \in Listings : /\ e.slot # NoSlot
                    /\ e.count > 0 /\ e.price \in Prices
                    /\ items[p][e.slot] # Empty
                    /\ items[p][e.slot].item \notin Stackables => e.count = 1}

\* Entries past the packet's own stay as an earlier shop left them.
pakOpenShop(p) ==
  /\ p \notin Bots \cup Barred
  /\ ~open[p]
  /\ \E n \in 0..MaxSells : \E sells \in [1..n -> Listable(p)],
        wishes \in [1..MaxWishes -> Wishes] :
       /\ \A i \in 1..n : ~Overlisted(p, sells[i])
       /\ selling' = [selling EXCEPT ![p] = Written(@, sells, n + 1)]
       /\ buying' = [buying EXCEPT ![p] = [i \in 1..MaxWishes |->
                       IF wishes[i] = NoWish THEN @[i] ELSE wishes[i]]]
  /\ open' = [open EXCEPT ![p] = TRUE]
  /\ UNCHANGED <<items, zuly>>

\* The loop stops at an entry the inventory does not cover: no shop opens.
pakOpenShopRefused(p) ==
  /\ p \notin Bots \cup Barred
  /\ ~open[p]
  /\ \E n \in 1..MaxSells : \E sells \in [1..n -> Listable(p)] :
       /\ \A i \in 1..n : Overlisted(p, sells[i]) <=> i = n
       /\ selling' = [selling EXCEPT ![p] = Written(@, sells, n)]
  /\ UNCHANGED <<items, zuly, open, buying>>

pakCloseShop(p) ==
  /\ p \notin Bots
  /\ open' = [open EXCEPT ![p] = FALSE]
  /\ selling' = [selling EXCEPT ![p] = [i \in 1..MaxSells |-> NoListing]]
  /\ buying' = [buying EXCEPT ![p] = [i \in 1..MaxWishes |-> NoWish]]
  /\ UNCHANGED <<items, zuly>>

\* A teleport (TeleportPlayer) shuts the shop but keeps its lists.
RestartPlayerVal(p) ==
  /\ p \notin Bots
  /\ open' = [open EXCEPT ![p] = FALSE]
  /\ UNCHANGED <<items, zuly, selling, buying>>

-----------------------------------------------------------------------------
(* Sales *)

\* Mutant of Pay: the receiver is never credited.
PayUncredited(from, to, amount) == zuly' = [zuly EXCEPT ![from] = @ - amount]

Pay(from, to, amount) ==
  zuly' = [zuly EXCEPT ![from] = @ - amount, ![to] = @ + amount]

\* What a sale of n leaves of a listing or of a wish.
Sold(listing, n) ==
  IF listing.count <= n THEN NoListing ELSE [listing EXCEPT !.count = @ - n]
Granted(wish, n) ==
  IF wish.count <= n THEN NoWish ELSE [wish EXCEPT !.count = @ - n]

\* A sale's stock and listing: a vending bot restocks, a player's goods go.
StockAfterNoRestock(v, slot, n) == Taken(items[v], slot, n)   \* mutant of StockAfter
StockAfter(v, slot, n) ==
  IF v \in VendingBots
  THEN [items[v] EXCEPT ![slot] = Stack(@.item, Full(@.item))]
  ELSE Taken(items[v], slot, n)
ListingAfter(v, i, n) ==
  LET stock == items[v][selling[v][i].slot] IN
  IF v \in VendingBots THEN [selling[v][i] EXCEPT !.count = Full(stock.item)]
  ELSE IF stock.count <= n THEN NoListing
  ELSE Sold(selling[v][i], n)

\* Mutant of BuyChecked: the buyer's zuly is not looked at.
BuyCheckedOnCredit(p, v, i, n) ==
  LET listing == selling[v][i] IN
  /\ p # v /\ p \notin Bots \cup Barred
  /\ open[v]
  /\ listing.slot # NoSlot
  /\ n <= listing.count
  /\ LET it == items[v][listing.slot].item IN
     /\ it # NoItem
     /\ it \notin Stackables => n = 1
     /\ GetNewItemSlot(items[p], Stack(it, n)) # NoSlot

\* p buys n of v's entry i: every check made before the zuly moves.
BuyChecked(p, v, i, n) ==
  LET listing == selling[v][i] IN
  /\ p # v /\ p \notin Bots \cup Barred
  /\ open[v]
  /\ listing.slot # NoSlot
  /\ LET it == items[v][listing.slot].item IN
     /\ it # NoItem
     /\ it \notin Stackables => n = 1
     /\ n <= listing.count
     /\ zuly[p] >= Cost(listing.price, n)
     /\ GetNewItemSlot(items[p], Stack(it, n)) # NoSlot

pakBuyShop(p, v, i, n) ==
  LET listing == selling[v][i]
      it      == items[v][listing.slot].item
      arrived == GetNewItemSlot(items[p], Stack(it, n))
  IN
  /\ BuyChecked(p, v, i, n)
  /\ items[v][listing.slot].count >= n
  /\ Pay(p, v, Cost(listing.price, n))
  /\ items' = [items EXCEPT ![p] = Added(@, arrived, it, n),
                            ![v] = StockAfter(v, listing.slot, n)]
  /\ selling' = [selling EXCEPT ![v][i] = ListingAfter(v, i, n)]
  /\ UNCHANGED <<open, buying>>

\* The stock check comes after the payment: the listing is corrected, no more.
pakBuyShopShort(p, v, i, n) ==
  LET listing == selling[v][i]
      stock   == items[v][listing.slot].count
  IN
  /\ BuyChecked(p, v, i, n)
  /\ stock < n
  /\ Pay(p, v, Cost(listing.price, n))
  /\ selling' = [selling EXCEPT ![v][i].count = stock]
  /\ UNCHANGED <<items, open, buying>>

\* p sells slot s to v's wish i; of the n it offers v takes what it wished for.
pakSellShop(p, v, s, i, n) ==
  LET it   == items[p][s].item
      wish == buying[v][i]
      sold == IF n > wish.count THEN wish.count ELSE n
      slot == GetNewItemSlot(items[v], Stack(it, sold))
  IN
  /\ p # v /\ p \notin Bots
  /\ open[v]
  /\ it # NoItem /\ it = wish.item
  /\ it \notin Stackables => n = 1
  /\ n <= items[p][s].count
  /\ zuly[v] >= Cost(wish.price, sold)
  /\ slot # NoSlot
  /\ Pay(v, p, Cost(wish.price, sold))
  /\ items' = [items EXCEPT ![p] = Taken(@, s, sold), ![v] = Added(@, slot, it, sold)]
  /\ buying' = [buying EXCEPT ![v][i] = Granted(@, sold)]
  /\ UNCHANGED <<open, selling>>

-----------------------------------------------------------------------------
(* Bots *)

\* A vending bot's new list of wishes, every two hours, and a full wallet.
PopulateVendingBuyList(b) ==
  /\ b \in VendingBots
  /\ ZulyHeld(Players \ {b}) + BotZuly <= MaxZuly
  /\ \E wishes \in [1..MaxWishes -> Wishes] : buying' = [buying EXCEPT ![b] = wishes]
  /\ zuly' = [zuly EXCEPT ![b] = BotZuly]
  /\ UNCHANGED <<items, open, selling>>

\* A browsing bot pays for one, takes a copy of the whole slot (AddItem drops
\* it when there is no room) and empties the slot with the listing's last one.
CheckPlayerShops(b, v) ==
  LET fits == {i \in 1..MaxSells :
                 /\ selling[v][i].count > 0
                 /\ selling[v][i].price > 0
                 /\ selling[v][i].slot # NoSlot
                 /\ items[v][selling[v][i].slot] # Empty
                 /\ zuly[b] >= selling[v][i].price}
      first == Min(fits)
      slot  == selling[v][first].slot
      stock == items[v][slot]
      room  == GetNewItemSlot(items[b], stock)
  IN
  /\ b \in Browsers /\ v \notin Bots
  /\ open[v]
  /\ fits # {}
  /\ Pay(b, v, selling[v][first].price)
  /\ selling' = [selling EXCEPT ![v][first].count = @ - 1]
  /\ items' = [items EXCEPT
       ![v] = IF selling[v][first].count = 1 THEN [@ EXCEPT ![slot] = Empty] ELSE @,
       ![b] = IF room = NoSlot THEN @ ELSE Added(@, room, stock.item, stock.count)]
  /\ UNCHANGED <<open, buying>>

Trading ==
  \/ \E p, v \in Players, i \in 1..MaxSells, n \in 1..FullStack :
       pakBuyShop(p, v, i, n) \/ pakBuyShopShort(p, v, i, n)
  \/ \E p, v \in Players, s \in InvSlots, i \in 1..MaxWishes, n \in 1..FullStack :
       pakSellShop(p, v, s, i, n)
  \/ \E b, v \in Players : CheckPlayerShops(b, v)

ShopStep ==
  \/ \E p \in Players :
       \/ pakOpenShop(p) \/ pakOpenShopRefused(p)
       \/ pakCloseShop(p)
       \/ PopulateVendingBuyList(p)
  \/ Trading

Next == ShopStep \/ \E p \in Players : RestartPlayerVal(p)

Spec == Init /\ [][Next]_vars

-----------------------------------------------------------------------------
(* Properties *)

\* Every balance is a number, every stack fits, the lists are lists.
TypeOK ==
  /\ HoldingsTypeOK
  /\ open \in [Players -> BOOLEAN]
  /\ selling \in [Players -> [1..MaxSells -> Listings]]
  /\ buying \in [Players -> [1..MaxWishes ->
                   {NoWish} \cup [item : Items, count : 1..FullStack, price : Prices]]]

\* No sale makes or loses zuly, whatever price * count wraps to: only a
\* refilled bot wallet changes the sum (pakBuyShop, pakSellShop).
ZulyConserved ==
  [][zuly' # zuly =>
       \/ ZulyHeld(Players)' = ZulyHeld(Players)
       \/ \E b \in Players : PopulateVendingBuyList(b)]_vars

\* No sale makes or loses an item, whatever lists say of an inventory that has
\* changed since: goods appear or vanish only where a vending bot restocks and
\* where a browsing bot takes its copy of a slot.
GoodsConserved ==
  [][items' # items =>
       \/ \A it \in Items : CountHeld(Players, it)' = CountHeld(Players, it)
       \/ \E p \in Players, b \in VendingBots, i \in 1..MaxSells, n \in 1..FullStack :
            pakBuyShop(p, b, i, n)
       \/ \E b, v \in Players : CheckPlayerShops(b, v)]_vars

\* README: the stall of a vending bot stays at full stacks and single
\* equipment, listed as such, whatever players buy from it or sell to it.
BotStockFull ==
  \A b \in VendingBots : \A i \in 1..MaxSells :
    LET listing == selling[b][i] IN
    listing # NoListing =>
      /\ listing.count = items[b][listing.slot].count
      /\ items[b][listing.slot] = Stack(InitItems[b][listing.slot].item, Full(InitItems[b][listing.slot].item))
=============================================================================
