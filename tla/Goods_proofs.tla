----------------------------- MODULE Goods_proofs ------------------------------
(***************************************************************************)
(* Proofs about VendorShop, Trade and Storage, for any players, bots,      *)
(* items, tabs, prices, list sizes, places of the trade window, word size, *)
(* storage size, fees, number of crashes, and inventories, storages and    *)
(* wallets at the start.  First what the operators of Holdings return and  *)
(* what a sale, a trade or a crash does to the sums of what players hold.  *)
(* Then of each module: types, what no sale, no trade and no request makes *)
(* or loses, how much a step takes at most and what a crash can touch.     *)
(***************************************************************************)
EXTENDS Trade, Storage, Sums_proofs, SequenceTheorems

-----------------------------------------------------------------------------
(* Inventories *)

USE ItemsAssumption

LEMMA SlotNumbers ==
  /\ InvSlots \subseteq Nat \ {0}
  /\ \A it \in Items : Tab[it] \subseteq InvSlots
BY DEF InvSlots

\* A slot found for a stack is one of the item's tab, and is empty or holds a
\* part of a stackable that stays below a full stack.
LEMMA SlotFound ==
  ASSUME NEW inv \in Inventories, NEW it \in Items, NEW n \in Nat,
         GetNewItemSlot(inv, Stack(it, n)) # NoSlot
  PROVE  LET s == GetNewItemSlot(inv, Stack(it, n)) IN
         /\ s \in Tab[it] /\ s \in InvSlots
         /\ \/ inv[s] = Empty
            \/ it \in Stackables /\ inv[s].item = it /\ inv[s].count + n < FullStack
<1> DEFINE joins == {s \in Tab[it] : /\ it \in Stackables
                                     /\ inv[s].item = it
                                     /\ inv[s].count + n < FullStack}
           empty == {s \in Tab[it] : inv[s] = Empty}
           found == GetNewItemSlot(inv, Stack(it, n))
<1>1. /\ found = CASE joins # {} -> Min(joins)
                   [] joins = {} /\ empty # {} -> Min(empty)
                   [] OTHER -> NoSlot
  BY DEF GetNewItemSlot, Stack
<1>2. joins \in SUBSET Nat /\ empty \in SUBSET Nat
  BY SlotNumbers
<1> HIDE DEF joins, empty, found
<1>3. CASE joins # {}
  <2>1. found \in joins
    BY <1>1, <1>2, <1>3, MinOfNaturals
  <2> QED BY <2>1, SlotNumbers DEF joins, found
<1>4. CASE joins = {} /\ empty # {}
  <2>1. found \in empty
    BY <1>1, <1>2, <1>4, MinOfNaturals
  <2> QED BY <2>1, SlotNumbers DEF empty, found
<1>5. CASE joins = {} /\ empty = {}
  BY <1>1, <1>5 DEF found
<1> QED BY <1>3, <1>4, <1>5

LEMMA StackTypes ==
  /\ Empty \in Stacks /\ Empty.item = NoItem /\ Empty.count = 0
  /\ \A it \in Items, n \in Nat \ {0} :
       /\ Stack(it, n) \in Stacks /\ Stack(it, n) # Empty
       /\ Stack(it, n).item = it /\ Stack(it, n).count = n
  /\ \A st \in Stacks : st # Empty => st.item \in Items /\ st.count \in Nat \ {0}
  /\ \A st \in Stacks : st.count \in Nat
  /\ \A st \in Stacks : st.item # NoItem => st # Empty
  /\ \A it \in Items : Full(it) \in Nat \ {0}
BY DEF Empty, Stacks, Stack, Full

\* Taking from a slot leaves an inventory.
LEMMA TakenFits ==
  ASSUME NEW inv \in Inventories, NEW s \in InvSlots, NEW n \in Nat
  PROVE  Taken(inv, s, n) \in Inventories
<1> DEFINE left == IF inv[s].count <= n THEN Empty ELSE Stack(inv[s].item, inv[s].count - n)
<1>1. inv \in [InvSlots -> Stacks] /\ Taken(inv, s, n) = [inv EXCEPT ![s] = left]
  BY DEF Taken, Inventories
<1>2. left \in Stacks /\ (left # Empty => left.count <= Full(left.item))
  <2>1. CASE inv[s].count <= n
    BY <2>1, StackTypes
  <2>2. CASE ~ (inv[s].count <= n)
    <3>1. inv[s] \in Stacks /\ inv[s] # Empty
      BY <1>1, <2>2, StackTypes
    <3>2. inv[s].item \in Items /\ inv[s].count \in Nat \ {0} /\ inv[s].count <= Full(inv[s].item)
      BY <3>1, StackTypes DEF Inventories
    <3>3. inv[s].count - n \in Nat \ {0} /\ inv[s].count - n <= inv[s].count
      BY <2>2, <3>2
    <3> QED BY <2>2, <3>2, <3>3, StackTypes
  <2> QED BY <2>1, <2>2
<1> HIDE DEF left
<1> QED BY <1>1, <1>2 DEF Inventories

\* What has found a slot can be put there.
LEMMA AddedFits ==
  ASSUME NEW inv \in Inventories, NEW it \in Items, NEW m \in Nat, NEW n \in Nat \ {0}, n <= m,
         m <= Full(it), GetNewItemSlot(inv, Stack(it, m)) # NoSlot
  PROVE  Added(inv, GetNewItemSlot(inv, Stack(it, m)), it, n) \in Inventories
<1> DEFINE s == GetNewItemSlot(inv, Stack(it, m))
<1>1. /\ s \in InvSlots
      /\ \/ inv[s] = Empty
         \/ it \in Stackables /\ inv[s].item = it /\ inv[s].count + m < FullStack
  BY SlotFound
<1>2. inv \in [InvSlots -> Stacks]
  BY DEF Inventories
<1> HIDE DEF s
<1>3. inv[s].count \in Nat
  BY <1>1, <1>2, StackTypes
<1>4. inv[s].count + n \in Nat \ {0} /\ inv[s].count + n <= Full(it)
  BY <1>1, <1>3, StackTypes DEF Full
<1>5. Added(inv, s, it, n) = [inv EXCEPT ![s] = Stack(it, inv[s].count + n)]
  BY <1>1, <1>2 DEF Added
<1>6. Added(inv, s, it, n) \in Inventories
  BY <1>1, <1>2, <1>4, <1>5, StackTypes DEF Inventories
<1> QED BY <1>6 DEF s

-----------------------------------------------------------------------------
(* What inventories hold together *)

\* What a slot adds to the count of an item.
OfItem(stack, it) == IF stack.item = it THEN stack.count ELSE 0

LEMMA CountIs ==
  ASSUME NEW S, IsFiniteSet(S), NEW inv \in [S -> Stacks], NEW it
  PROVE  /\ CountOf(inv, it) = SumFunctionOnSet([s \in S |-> OfItem(inv[s], it)], S)
         /\ \A s \in S : inv[s] \in Stacks /\ OfItem(inv[s], it) \in Nat
         /\ CountOf(inv, it) \in Nat
<1> DEFINE F == [s \in S |-> OfItem(inv[s], it)]
<1>1. DOMAIN inv = S /\ DOMAIN F = S
  OBVIOUS
<1>2. F = [s \in DOMAIN inv |-> IF inv[s].item = it THEN inv[s].count ELSE 0]
  BY <1>1 DEF OfItem
<1>3. CountOf(inv, it) = SumFunctionOnSet(F, S)
  BY <1>1, <1>2 DEF CountOf, SumFunction
<1>4. \A s \in S : inv[s] \in Stacks /\ OfItem(inv[s], it) \in Nat
  BY StackTypes DEF OfItem
<1>5. \A s \in S : F[s] \in Nat
  BY <1>4
<1> HIDE DEF F
<1>6. SumFunctionOnSet(F, S) \in Nat
  BY <1>5, SumNat
<1> QED BY <1>3, <1>4, <1>6 DEF F

\* Slots that differ only in other items.
LEMMA CountAgrees ==
  ASSUME NEW S, IsFiniteSet(S), NEW one \in [S -> Stacks], NEW other \in [S -> Stacks], NEW it,
         \A s \in S : OfItem(one[s], it) = OfItem(other[s], it)
  PROVE  CountOf(one, it) = CountOf(other, it)
<1>1. [s \in S |-> OfItem(one[s], it)] = [s \in S |-> OfItem(other[s], it)]
  OBVIOUS
<1>2. CountOf(one, it) = SumFunctionOnSet([s \in S |-> OfItem(one[s], it)], S)
  BY CountIs
<1>3. CountOf(other, it) = SumFunctionOnSet([s \in S |-> OfItem(other[s], it)], S)
  BY CountIs
<1> QED BY <1>1, <1>2, <1>3

\* One slot that changes.
Put(inv, s, stack) == [inv EXCEPT ![s] = stack]

LEMMA CountChanged ==
  ASSUME NEW S, IsFiniteSet(S), NEW inv \in [S -> Stacks], NEW s \in S, NEW stack \in Stacks, NEW it
  PROVE  CountOf(Put(inv, s, stack), it) = CountOf(inv, it) + (OfItem(stack, it) - OfItem(inv[s], it))
<1> DEFINE after == [inv EXCEPT ![s] = stack]
           F == [l \in S |-> OfItem(inv[l], it)]
           G == [l \in S |-> OfItem(after[l], it)]
<1>1. after \in [S -> Stacks]
  OBVIOUS
<1>2. \A l \in S : l # s => after[l] = inv[l]
  OBVIOUS
<1>3. after[s] = stack
  OBVIOUS
<1>4. CountOf(inv, it) = SumFunctionOnSet(F, S) /\ \A l \in S : OfItem(inv[l], it) \in Nat
  BY CountIs
<1> HIDE DEF after
<1>5. CountOf(after, it) = SumFunctionOnSet(G, S) /\ \A l \in S : OfItem(after[l], it) \in Nat
  BY <1>1, CountIs
<1>6. \A l \in S : F[l] \in Int /\ G[l] \in Int
  BY <1>4, <1>5
<1>7. \A l \in S \ {s} : F[l] = G[l]
  BY <1>2
<1>8. F[s] = OfItem(inv[s], it) /\ G[s] = OfItem(stack, it)
  BY <1>3
<1> HIDE DEF F, G
<1>9. SumFunctionOnSet(G, S) = SumFunctionOnSet(F, S) + (G[s] - F[s])
  <2>1. IsFiniteSet(S) /\ s \in S
    OBVIOUS
  <2> QED BY ONLY <1>6, <1>7, <2>1, SumChanged
<1> QED BY <1>4, <1>5, <1>8, <1>9 DEF after, Put

\* What is taken is missing, and nothing else.
LEMMA CountTaken ==
  ASSUME NEW S, IsFiniteSet(S), NEW inv \in [S -> Stacks], NEW s \in S,
         NEW n \in Nat, n <= inv[s].count, NEW it \in Items
  PROVE  CountOf(Taken(inv, s, n), it) = CountOf(inv, it) - (IF inv[s].item = it THEN n ELSE 0)
<1> DEFINE left == IF inv[s].count <= n THEN Empty ELSE Stack(inv[s].item, inv[s].count - n)
<1>1. Taken(inv, s, n) = Put(inv, s, left)
  BY DEF Put, Taken
<1>2. inv[s] \in Stacks /\ inv[s].count \in Nat /\ it # NoItem
  BY StackTypes
<1>3. left \in Stacks
  <2>1. CASE inv[s].count <= n
    BY <2>1, StackTypes
  <2>2. CASE ~ (inv[s].count <= n)
    <3>1. inv[s] # Empty
      BY <1>2, <2>2, StackTypes
    <3>2. inv[s].item \in Items /\ inv[s].count - n \in Nat \ {0}
      BY <1>2, <2>2, <3>1, StackTypes
    <3> QED BY <2>2, <3>2, StackTypes
  <2> QED BY <2>1, <2>2
<1>4. OfItem(left, it) - OfItem(inv[s], it) = 0 - (IF inv[s].item = it THEN n ELSE 0)
  <2>1. CASE inv[s].count <= n
    <3>1. left = Empty /\ n = inv[s].count
      BY <1>2, <2>1
    <3>2. OfItem(left, it) = 0
      BY <1>2, <3>1, StackTypes DEF OfItem
    <3> QED BY <1>2, <3>1, <3>2 DEF OfItem
  <2>2. CASE ~ (inv[s].count <= n)
    <3>1. left.item = inv[s].item /\ left.count = inv[s].count - n
      BY <2>2 DEF Stack
    <3> HIDE DEF left
    <3> QED BY <1>2, <3>1 DEF OfItem
  <2> QED BY <2>1, <2>2
<1> HIDE DEF left
<1>5. CountOf(Put(inv, s, left), it) = CountOf(inv, it) + (OfItem(left, it) - OfItem(inv[s], it))
  BY <1>3, CountChanged
<1>6. CountOf(inv, it) \in Nat
  BY CountIs
<1> QED BY <1>1, <1>4, <1>5, <1>6

\* What is added is there, whether it joins a stack or not.
LEMMA CountAdded ==
  ASSUME NEW S, IsFiniteSet(S), NEW inv \in [S -> Stacks], NEW s \in S,
         NEW new \in Items, NEW n \in Nat \ {0}, inv[s] = Empty \/ inv[s].item = new, NEW it \in Items
  PROVE  CountOf(Added(inv, s, new, n), it) = CountOf(inv, it) + (IF new = it THEN n ELSE 0)
<1> DEFINE more == Stack(new, inv[s].count + n)
<1>1. Added(inv, s, new, n) = Put(inv, s, more)
  BY DEF Put, Added
<1>2. inv[s] \in Stacks /\ inv[s].count \in Nat /\ it # NoItem /\ inv[s].count + n \in Nat \ {0}
  BY StackTypes
<1>3. more \in Stacks /\ more.item = new /\ more.count = inv[s].count + n
  BY <1>2, StackTypes
<1> HIDE DEF more
<1>4. OfItem(more, it) - OfItem(inv[s], it) = (IF new = it THEN n ELSE 0)
  <2>1. CASE inv[s] = Empty
    <3>1. inv[s].count = 0 /\ inv[s].item = NoItem
      BY <2>1, StackTypes
    <3> QED BY <1>2, <1>3, <3>1 DEF OfItem
  <2>2. CASE inv[s].item = new
    BY <1>2, <1>3, <2>2 DEF OfItem
  <2> QED BY <2>1, <2>2
<1>5. CountOf(Put(inv, s, more), it) = CountOf(inv, it) + (OfItem(more, it) - OfItem(inv[s], it))
  BY <1>3, CountChanged
<1> QED BY <1>1, <1>4, <1>5

\* Inventories are such.
LEMMA InventoryCounts ==
  ASSUME NEW inv \in Inventories
  PROVE  inv \in [InvSlots -> Stacks] /\ IsFiniteSet(InvSlots) /\ \A it : CountOf(inv, it) \in Nat
<1>1. inv \in [InvSlots -> Stacks] /\ IsFiniteSet(InvSlots)
  BY FiniteAssumption DEF Inventories
<1> QED BY <1>1, CountIs

\* What all hold of an item when these are their inventories.
HeldIn(inventories, it) == SumFunction([p \in Players |-> CountOf(inventories[p], it)])

LEMMA HeldIsCounted == \A it : CountHeld(Players, it) = HeldIn(items, it)
BY DEF CountHeld, HeldIn

\* What passes between two players leaves what all hold as it is.
LEMMA GoodsPassed ==
  ASSUME NEW before \in [Players -> Inventories], NEW after \in [Players -> Inventories],
         NEW a \in Players, NEW b \in Players, a # b,
         \A p \in Players \ {a, b} : after[p] = before[p],
         NEW it,
         CountOf(after[a], it) + CountOf(after[b], it) = CountOf(before[a], it) + CountOf(before[b], it)
  PROVE  HeldIn(after, it) = HeldIn(before, it)
<1> DEFINE F == [p \in Players |-> CountOf(before[p], it)]
           G == [p \in Players |-> CountOf(after[p], it)]
<1>1. \A p \in Players : CountOf(before[p], it) \in Nat /\ CountOf(after[p], it) \in Nat
  BY InventoryCounts
<1>2. \A p \in Players : F[p] \in Int /\ G[p] \in Int
  BY <1>1
<1>3. \A p \in Players \ {a, b} : F[p] = G[p]
  OBVIOUS
<1>4. (G[a] - F[a]) + (G[b] - F[b]) = 0
  BY <1>1
<1>5. SumFunction(F) = SumFunctionOnSet(F, Players) /\ SumFunction(G) = SumFunctionOnSet(G, Players)
  BY DEF SumFunction
<1> HIDE DEF F, G
<1>6. SumFunctionOnSet(G, Players) = SumFunctionOnSet(F, Players) + ((G[a] - F[a]) + (G[b] - F[b]))
  BY <1>2, <1>3, FiniteAssumption, SumPassed
<1>7. SumFunctionOnSet(F, Players) \in Int
  BY <1>2, FiniteAssumption, SumType
<1> QED BY <1>4, <1>5, <1>6, <1>7 DEF F, G, HeldIn

LEMMA ZulyPassed ==
  ASSUME zuly \in [Players -> Nat], zuly' \in [Players -> Nat],
         NEW a \in Players, NEW b \in Players, a # b,
         \A p \in Players \ {a, b} : zuly'[p] = zuly[p],
         zuly'[a] + zuly'[b] = zuly[a] + zuly[b]
  PROVE  ZulyHeld(Players)' = ZulyHeld(Players)
<1>1. \A p \in Players : zuly[p] \in Int /\ zuly'[p] \in Int /\ zuly[p] \in Nat /\ zuly'[p] \in Nat
  OBVIOUS
<1>2. \A p \in Players \ {a, b} : zuly[p] = zuly'[p]
  OBVIOUS
<1>3. (zuly'[a] - zuly[a]) + (zuly'[b] - zuly[b]) = 0
  BY <1>1
<1>4. SumFunctionOnSet(zuly', Players)
        = SumFunctionOnSet(zuly, Players) + ((zuly'[a] - zuly[a]) + (zuly'[b] - zuly[b]))
  BY <1>1, <1>2, FiniteAssumption, SumPassed
<1>5. SumFunctionOnSet(zuly, Players) \in Int
  BY <1>1, FiniteAssumption, SumType
<1> QED BY <1>3, <1>4, <1>5 DEF ZulyHeld

LEMMA Counts == FullStack \in Nat /\ 1..FullStack \subseteq Nat \ {0}
OBVIOUS

\* What a sale costs is a number, though it may wrap.
LEMMA CostTypes ==
  ASSUME NEW price \in Nat, NEW n \in Nat
  PROVE  Cost(price, n) \in Nat
<1>1. price * n \in Nat
  OBVIOUS
<1> DEFINE c == price * n
<1>2. c \in Nat
  BY <1>1
<1> HIDE DEF c
<1>3. c % Word \in Nat
  BY <1>2, ShopAssumption
<1> QED BY <1>3 DEF Cost, c

\* A payment that is covered leaves every balance a number.
LEMMA PayTypes ==
  ASSUME zuly \in [Players -> Nat], NEW from \in Players, NEW to \in Players, from # to,
         NEW amount \in Nat, zuly[from] >= amount, Pay(from, to, amount)
  PROVE  zuly' \in [Players -> Nat]
<1>1. zuly[from] - amount \in Nat /\ zuly[to] + amount \in Nat
  OBVIOUS
<1> QED BY <1>1 DEF Pay

\* A list written over an older one is a list.
LEMMA WrittenTypes ==
  ASSUME NEW old \in [1..MaxSells -> Listings], NEW n \in Nat, NEW p \in Players, NEW k \in Nat,
         NEW sells \in [1..n -> Listable(p)]
  PROVE  Written(old, sells, k) \in [1..MaxSells -> Listings]
<1>1. Len(sells) = n
  OBVIOUS
<1>2. \A i \in 1..n : sells[i] \in Listings /\ sells[i].slot \in InvSlots
  BY DEF Listable, Listings, NoListing
<1>3. ASSUME NEW i \in 1..MaxSells, NEW s \in InvSlots
      PROVE  [old[i] EXCEPT !.slot = s] \in Listings
  BY DEF Listings, NoListing, Counts
<1>4. ASSUME NEW i \in 1..MaxSells
      PROVE  Written(old, sells, k)[i] \in Listings
  <2>1. i \in DOMAIN old /\ i \in Nat /\ i >= 1
    OBVIOUS
  <2>2. CASE i < k /\ i <= Len(sells)
    BY <1>1, <1>2, <2>1, <2>2 DEF Written
  <2>3. CASE ~ (i < k /\ i <= Len(sells)) /\ i = k /\ i <= Len(sells)
    <3>1. sells[i].slot \in InvSlots
      BY <1>1, <1>2, <2>1, <2>3
    <3> QED BY <1>3, <2>1, <2>3, <3>1 DEF Written
  <2>4. CASE ~ (i < k /\ i <= Len(sells)) /\ ~ (i = k /\ i <= Len(sells))
    BY <2>1, <2>4 DEF Written
  <2> QED BY <2>2, <2>3, <2>4
<1>5. DOMAIN Written(old, sells, k) = 1..MaxSells
  BY DEF Written
<1> HIDE DEF Written
<1> QED BY <1>4, <1>5 DEF Written

BuyLists == [1..MaxWishes -> {NoWish} \cup [item : Items, count : 1..FullStack, price : Prices]]

LEMMA Types ==
  ASSUME TypeOK
  PROVE  /\ items \in [Players -> Inventories] /\ items \in [Players -> [InvSlots -> Stacks]]
         /\ zuly \in [Players -> Nat]
         /\ open \in [Players -> BOOLEAN]
         /\ selling \in [Players -> [1..MaxSells -> Listings]]
         /\ buying \in [Players -> BuyLists]
         /\ \A p \in Players, s \in InvSlots :
              items[p][s] # Empty => items[p][s].count <= Full(items[p][s].item)
BY DEF TypeOK, HoldingsTypeOK, Inventories, BuyLists

LEMMA EntryTypes ==
  ASSUME TypeOK, NEW v \in Players
  PROVE  /\ \A i \in 1..MaxSells : selling[v][i] \in Listings
         /\ \A i \in 1..MaxWishes :
              buying[v][i] \in {NoWish} \cup [item : Items, count : 1..FullStack, price : Prices]
<1> DEFINE BuyEntries == {NoWish} \cup [item : Items, count : 1..FullStack, price : Prices]
<1>1. selling \in [Players -> [1..MaxSells -> Listings]]
  BY DEF TypeOK
<1>2. buying \in [Players -> [1..MaxWishes -> BuyEntries]]
  BY DEF TypeOK
<1> HIDE DEF BuyEntries
<1>3. selling[v] \in [1..MaxSells -> Listings] /\ buying[v] \in [1..MaxWishes -> BuyEntries]
  BY <1>1, <1>2
<1> QED BY <1>3 DEF BuyEntries

\* A listing that names a slot.
LEMMA ListingTypes ==
  ASSUME NEW listing \in Listings, listing.slot # NoSlot
  PROVE  /\ listing # NoListing /\ listing.slot \in InvSlots
         /\ listing.count \in 0..FullStack /\ listing.price \in Nat
         /\ listing = [slot |-> listing.slot, count |-> listing.count, price |-> listing.price]
         /\ \A n \in 0..FullStack : [listing EXCEPT !.count = n] \in Listings
BY ShopAssumption DEF Listings, NoListing

\* What is bought: goods in a slot of the shop, of which n fit in a slot.
LEMMA BuyTypes ==
  ASSUME TypeOK, NEW p \in Players, NEW v \in Players, NEW i \in 1..MaxSells,
         NEW n \in 1..FullStack, BuyChecked(p, v, i, n)
  PROVE  LET listing == selling[v][i]
             stock   == items[v][listing.slot]
         IN
         /\ p # v /\ p \notin Bots
         /\ listing \in Listings /\ listing.slot # NoSlot /\ listing.slot \in InvSlots
         /\ n <= listing.count
         /\ stock \in Stacks /\ stock # Empty /\ stock.item \in Items
         /\ stock.count <= Full(stock.item)
         /\ n \in Nat \ {0} /\ n <= Full(stock.item)
         /\ Cost(listing.price, n) \in Nat /\ zuly[p] >= Cost(listing.price, n)
         /\ GetNewItemSlot(items[p], Stack(stock.item, n)) # NoSlot
<1> DEFINE listing == selling[v][i]
           stock   == items[v][listing.slot]
<1>1. listing \in Listings /\ listing.slot # NoSlot
  <2>1. listing \in Listings
    BY EntryTypes
  <2>2. listing.slot # NoSlot
    BY DEF BuyChecked
  <2> QED BY <2>1, <2>2
<1>2. listing.slot \in InvSlots /\ listing.price \in Nat
  BY <1>1, ListingTypes
<1>3. stock \in Stacks /\ stock # Empty /\ stock.item \in Items /\ stock.count <= Full(stock.item)
  <2>1. stock \in Stacks /\ stock.item # NoItem
    BY <1>2, Types DEF BuyChecked
  <2> QED BY <1>2, <2>1, Types, StackTypes
<1>4. n \in Nat \ {0} /\ n <= Full(stock.item)
  BY Counts DEF BuyChecked, Full
<1>5. Cost(listing.price, n) \in Nat
  BY <1>2, <1>4, CostTypes
<1> QED BY <1>1, <1>2, <1>3, <1>4, <1>5 DEF BuyChecked

\* A sale's stock stays an inventory, its listing a listing.
LEMMA StockTypes ==
  ASSUME TypeOK, NEW p \in Players, NEW v \in Players, NEW i \in 1..MaxSells,
         NEW n \in 1..FullStack, BuyChecked(p, v, i, n)
  PROVE  /\ StockAfter(v, selling[v][i].slot, n) \in Inventories
         /\ ListingAfter(v, i, n) \in Listings
<1> DEFINE listing == selling[v][i]
           slot    == listing.slot
           stock   == items[v][slot]
<1>1. /\ listing \in Listings /\ slot # NoSlot /\ slot \in InvSlots
      /\ stock \in Stacks /\ stock # Empty /\ stock.item \in Items
      /\ n \in Nat \ {0} /\ n <= listing.count
  BY BuyTypes
<1>2. listing.count \in 0..FullStack /\ \A m \in 0..FullStack : [listing EXCEPT !.count = m] \in Listings
  BY <1>1, ListingTypes
<1>3. items[v] \in Inventories /\ items[v] \in [InvSlots -> Stacks]
  BY Types
<1>4. Full(stock.item) \in Nat \ {0} /\ Full(stock.item) \in 0..FullStack
  BY <1>1 DEF Full
<1>5. StockAfter(v, slot, n) \in Inventories
  <2>1. CASE v \in VendingBots
    <3> DEFINE full == Stack(stock.item, Full(stock.item))
    <3>1. StockAfter(v, slot, n) = [items[v] EXCEPT ![slot] = full]
      BY <1>1, <1>3, <2>1 DEF StockAfter
    <3>2. full \in Stacks /\ full.item = stock.item /\ full.count = Full(full.item)
      BY <1>1, <1>4, StackTypes
    <3>3. full.count <= Full(full.item)
      BY <1>4, <3>2
    <3> HIDE DEF full
    <3>4. [items[v] EXCEPT ![slot] = full] \in Inventories
      BY <1>1, <1>3, <3>2, <3>3 DEF Inventories
    <3> QED BY <3>1, <3>4
  <2>2. CASE v \notin VendingBots
    BY <1>1, <1>3, <2>2, TakenFits DEF StockAfter
  <2> QED BY <2>1, <2>2
<1>6. ListingAfter(v, i, n) \in Listings
  <2>1. NoListing \in Listings
    BY DEF Listings
  <2>2. CASE v \in VendingBots
    BY <1>2, <1>4, <2>2 DEF ListingAfter
  <2>3. CASE v \notin VendingBots
    <3>1. ~ (listing.count <= n) => listing.count - n \in 0..FullStack
      BY <1>1, <1>2
    <3> QED BY <1>2, <2>1, <2>3, <3>1 DEF ListingAfter, Sold
  <2> QED BY <2>2, <2>3
<1> QED BY <1>5, <1>6

LEMMA BuyKeepsTypes ==
  ASSUME TypeOK, NEW p \in Players, NEW v \in Players, NEW i \in 1..MaxSells,
         NEW n \in 1..FullStack, pakBuyShop(p, v, i, n)
  PROVE  TypeOK'
<1> DEFINE listing == selling[v][i]
           stock   == items[v][listing.slot]
           arrived == GetNewItemSlot(items[p], Stack(stock.item, n))
           mine    == Added(items[p], arrived, stock.item, n)
           left    == StockAfter(v, listing.slot, n)
           entry   == ListingAfter(v, i, n)
<1>1. BuyChecked(p, v, i, n)
  BY DEF pakBuyShop
<1>2. p # v /\ items[p] \in Inventories
  BY <1>1, BuyTypes, Types
<1>3. mine \in Inventories
  <2>1. /\ stock.item \in Items /\ n \in Nat \ {0} /\ n <= n /\ n <= Full(stock.item)
        /\ arrived # NoSlot
    BY <1>1, BuyTypes
  <2> QED BY <1>2, <2>1, AddedFits
<1>4. left \in Inventories /\ entry \in Listings
  BY <1>1, StockTypes
<1>5. zuly' \in [Players -> Nat]
  BY <1>1, <1>2, BuyTypes, PayTypes, Types DEF pakBuyShop
<1>6. /\ items' = [items EXCEPT ![p] = mine, ![v] = left]
      /\ selling' = [selling EXCEPT ![v] = [selling[v] EXCEPT ![i] = entry]]
      /\ UNCHANGED <<open, buying>>
  BY <1>2, Types DEF pakBuyShop
<1> HIDE DEF mine, left, entry
<1>7. items' \in [Players -> Inventories] /\ selling' \in [Players -> [1..MaxSells -> Listings]]
  BY <1>3, <1>4, <1>6, Types
<1>8. open' \in [Players -> BOOLEAN] /\ buying' \in [Players -> BuyLists]
  BY <1>6, Types DEF BuyLists, NoWish
<1> QED BY <1>5, <1>7, <1>8 DEF TypeOK, HoldingsTypeOK, BuyLists

LEMMA ShortKeepsTypes ==
  ASSUME TypeOK, NEW p \in Players, NEW v \in Players, NEW i \in 1..MaxSells,
         NEW n \in 1..FullStack, pakBuyShopShort(p, v, i, n)
  PROVE  TypeOK'
<1> DEFINE listing == selling[v][i]
           stock   == items[v][listing.slot].count
           entry   == [listing EXCEPT !.count = stock]
<1>1. BuyChecked(p, v, i, n) /\ stock < n
  BY DEF pakBuyShopShort
<1>2. stock \in 0..FullStack
  <2>1. stock \in Nat
    BY <1>1, BuyTypes, StackTypes
  <2> QED BY <1>1, <2>1, Counts
<1>3. entry \in Listings
  BY <1>1, <1>2, BuyTypes, ListingTypes
<1>4. zuly' \in [Players -> Nat]
  BY <1>1, BuyTypes, PayTypes, Types DEF pakBuyShopShort
<1>5. /\ selling' = [selling EXCEPT ![v] = [selling[v] EXCEPT ![i] = entry]]
      /\ UNCHANGED <<items, open, buying>>
  BY Types DEF pakBuyShopShort
<1> HIDE DEF entry
<1>6. selling' \in [Players -> [1..MaxSells -> Listings]]
  BY <1>3, <1>5, Types
<1>7. /\ items' \in [Players -> Inventories] /\ open' \in [Players -> BOOLEAN]
      /\ buying' \in [Players -> BuyLists]
  BY <1>5, Types DEF BuyLists, NoWish
<1> QED BY <1>4, <1>6, <1>7 DEF TypeOK, HoldingsTypeOK, BuyLists

\* What is sold into a wish list: goods of the seller, of which the wisher
\* takes no more than it wished for and than fit in a slot.
LEMMA SellTypes ==
  ASSUME TypeOK, NEW p \in Players, NEW v \in Players, NEW s \in InvSlots, NEW i \in 1..MaxWishes,
         NEW n \in 1..FullStack, pakSellShop(p, v, s, i, n)
  PROVE  LET it   == items[p][s].item
             wish == buying[v][i]
             sold == IF n > wish.count THEN wish.count ELSE n
         IN
         /\ p # v /\ p \notin Bots /\ it \in Items
         /\ wish \in [item : Items, count : 1..FullStack, price : Prices]
         /\ sold \in Nat \ {0} /\ sold <= Full(it) /\ sold <= wish.count
         /\ Cost(wish.price, sold) \in Nat /\ zuly[v] >= Cost(wish.price, sold)
         /\ GetNewItemSlot(items[v], Stack(it, sold)) # NoSlot
<1> DEFINE it   == items[p][s].item
           wish == buying[v][i]
           sold == IF n > wish.count THEN wish.count ELSE n
<1>1. it \in Items
  <2>1. items[p][s] \in Stacks /\ it # NoItem
    BY Types DEF pakSellShop
  <2> QED BY <2>1, StackTypes
<1>2. wish \in [item : Items, count : 1..FullStack, price : Prices]
  <2>1. wish \in {NoWish} \cup [item : Items, count : 1..FullStack, price : Prices]
    BY EntryTypes
  <2>2. wish.item = it
    BY DEF pakSellShop
  <2> QED BY <1>1, <2>1, <2>2 DEF NoWish
<1>3. wish.count \in 1..FullStack /\ wish.price \in Nat
  BY <1>2, ShopAssumption
<1>4. sold \in Nat \ {0} /\ sold <= wish.count /\ sold <= FullStack /\ sold <= n
  BY <1>3
<1>5. sold <= Full(it)
  <2>1. it \notin Stackables => n = 1
    BY DEF pakSellShop
  <2> QED BY <1>4, <2>1 DEF Full
<1>6. Cost(wish.price, sold) \in Nat
  BY <1>3, <1>4, CostTypes
<1> QED BY <1>1, <1>2, <1>4, <1>5, <1>6 DEF pakSellShop

LEMMA SellKeepsTypes ==
  ASSUME TypeOK, NEW p \in Players, NEW v \in Players, NEW s \in InvSlots, NEW i \in 1..MaxWishes,
         NEW n \in 1..FullStack, pakSellShop(p, v, s, i, n)
  PROVE  TypeOK'
<1> DEFINE it    == items[p][s].item
           wish  == buying[v][i]
           sold  == IF n > wish.count THEN wish.count ELSE n
           slot  == GetNewItemSlot(items[v], Stack(it, sold))
           left  == Taken(items[p], s, sold)
           his   == Added(items[v], slot, it, sold)
           entry == Granted(wish, sold)
<1>1. /\ p # v /\ it \in Items
      /\ wish \in [item : Items, count : 1..FullStack, price : Prices]
      /\ sold \in Nat \ {0} /\ sold <= Full(it) /\ sold <= wish.count
      /\ Cost(wish.price, sold) \in Nat /\ zuly[v] >= Cost(wish.price, sold)
      /\ slot # NoSlot
  BY SellTypes
<1>2. items[p] \in Inventories /\ items[v] \in Inventories
  BY Types
<1>3. left \in Inventories
  BY <1>1, <1>2, TakenFits
<1>4. his \in Inventories
  <2>1. sold <= sold /\ sold \in Nat
    BY <1>1
  <2> QED BY <1>1, <1>2, <2>1, AddedFits
<1>5. entry \in {NoWish} \cup [item : Items, count : 1..FullStack, price : Prices]
  <2> HIDE DEF wish, sold
  <2>1. wish.count \in 1..FullStack
    BY <1>1
  <2>2. ~ (wish.count <= sold) => wish.count - sold \in 1..FullStack
    BY <1>1, <2>1
  <2> QED BY <1>1, <2>2 DEF Granted
<1>6. zuly' \in [Players -> Nat]
  BY <1>1, PayTypes, Types DEF pakSellShop
<1>7. /\ items' = [items EXCEPT ![p] = left, ![v] = his]
      /\ buying' = [buying EXCEPT ![v] = [buying[v] EXCEPT ![i] = entry]]
      /\ UNCHANGED <<open, selling>>
  BY <1>1, Types DEF pakSellShop, BuyLists
<1> HIDE DEF left, his, entry
<1>8. items' \in [Players -> Inventories] /\ buying' \in [Players -> BuyLists]
  BY <1>3, <1>4, <1>5, <1>7, Types DEF BuyLists
<1>9. open' \in [Players -> BOOLEAN] /\ selling' \in [Players -> [1..MaxSells -> Listings]]
  BY <1>7, Types
<1> QED BY <1>6, <1>8, <1>9 DEF TypeOK, HoldingsTypeOK, BuyLists

\* What a browsing bot finds: a listing with a count and a price it can pay.
LEMMA BrowseTypes ==
  ASSUME TypeOK, NEW b \in Players, NEW v \in Players, CheckPlayerShops(b, v)
  PROVE  LET fits == {i \in 1..MaxSells :
                        /\ selling[v][i].count > 0
                        /\ selling[v][i].price > 0
                        /\ selling[v][i].slot # NoSlot
                        /\ items[v][selling[v][i].slot] # Empty
                        /\ zuly[b] >= selling[v][i].price}
             first == Min(fits)
             stock == items[v][selling[v][first].slot]
         IN
         /\ first \in fits /\ b # v /\ v \notin Bots /\ b \in Browsers
         /\ selling[v][first] \in Listings /\ selling[v][first].slot \in InvSlots
         /\ selling[v][first].count \in 1..FullStack
         /\ selling[v][first].price \in Nat /\ zuly[b] >= selling[v][first].price
         /\ stock \in Stacks /\ stock # Empty /\ stock.count <= Full(stock.item)
<1> DEFINE fits == {i \in 1..MaxSells :
                        /\ selling[v][i].count > 0
                        /\ selling[v][i].price > 0
                        /\ selling[v][i].slot # NoSlot
                        /\ items[v][selling[v][i].slot] # Empty
                        /\ zuly[b] >= selling[v][i].price}
           first == Min(fits)
<1>1. fits # {} /\ v \notin Bots /\ b \in Browsers
  BY DEF CheckPlayerShops
<1>2. fits \in SUBSET Nat
  OBVIOUS
<1> HIDE DEF fits
<1>3. first \in fits
  BY <1>1, <1>2, MinOfNaturals
<1> HIDE DEF first
<1>4. /\ first \in 1..MaxSells /\ selling[v][first].count > 0 /\ selling[v][first].slot # NoSlot
      /\ items[v][selling[v][first].slot] # Empty /\ zuly[b] >= selling[v][first].price
  BY <1>3 DEF fits
<1>5. selling[v][first] \in Listings
  BY <1>4, EntryTypes
<1>6. /\ selling[v][first].slot \in InvSlots /\ selling[v][first].count \in 0..FullStack
      /\ selling[v][first].price \in Nat
  BY <1>4, <1>5, ListingTypes
<1>7. selling[v][first].count \in 1..FullStack
  BY <1>4, <1>6
<1>8. b # v
  BY <1>1 DEF Bots
<1> DEFINE stock == items[v][selling[v][first].slot]
<1>9. stock \in Stacks /\ stock # Empty /\ stock.count <= Full(stock.item)
  BY <1>4, <1>6, Types
<1> QED BY <1>1, <1>3, <1>4, <1>5, <1>6, <1>7, <1>8, <1>9 DEF fits, first

LEMMA BrowseKeepsTypes ==
  ASSUME TypeOK, NEW b \in Players, NEW v \in Players, CheckPlayerShops(b, v)
  PROVE  TypeOK'
<1> DEFINE fits == {i \in 1..MaxSells :
                        /\ selling[v][i].count > 0
                        /\ selling[v][i].price > 0
                        /\ selling[v][i].slot # NoSlot
                        /\ items[v][selling[v][i].slot] # Empty
                        /\ zuly[b] >= selling[v][i].price}
           first   == Min(fits)
           listing == selling[v][first]
           stock   == items[v][listing.slot]
           room    == GetNewItemSlot(items[b], stock)
           left    == IF listing.count = 1 THEN [items[v] EXCEPT ![listing.slot] = Empty] ELSE items[v]
           gain    == IF room = NoSlot THEN items[b] ELSE Added(items[b], room, stock.item, stock.count)
           entry   == [listing EXCEPT !.count = listing.count - 1]
<1>1. /\ first \in 1..MaxSells /\ b # v
      /\ listing \in Listings /\ listing.slot \in InvSlots /\ listing.slot # NoSlot
      /\ listing.count \in 1..FullStack /\ listing.price \in Nat /\ zuly[b] >= listing.price
      /\ stock \in Stacks /\ stock # Empty /\ stock.count <= Full(stock.item)
  BY BrowseTypes
<1>2. /\ Pay(b, v, listing.price)
      /\ selling' = [selling EXCEPT ![v][first].count = listing.count - 1]
      /\ items' = [items EXCEPT ![v] = left, ![b] = gain]
      /\ UNCHANGED <<open, buying>>
  BY <1>1, Types DEF CheckPlayerShops
<1> HIDE DEF first
<1>3. selling' = [selling EXCEPT ![v] = [selling[v] EXCEPT ![first] = entry]]
  BY <1>1, <1>2, Types
<1>4. items[v] \in Inventories /\ items[b] \in Inventories
  BY Types
<1>5. left \in Inventories
  BY <1>1, <1>4, StackTypes DEF Inventories
<1>6. gain \in Inventories
  <2>1. stock.item \in Items /\ stock.count \in Nat \ {0} /\ stock.count \in Nat
        /\ stock.count <= stock.count
    BY <1>1, StackTypes
  <2>2. stock = Stack(stock.item, stock.count)
    BY <1>1 DEF Stacks, Stack, Empty
  <2> HIDE DEF stock
  <2>3. CASE room # NoSlot
    BY <1>1, <1>4, <2>1, <2>2, <2>3, AddedFits
  <2> QED BY <1>4, <2>3
<1>7. entry \in Listings
  BY <1>1, ListingTypes
<1>8. zuly' \in [Players -> Nat]
  BY <1>1, <1>2, PayTypes, Types
<1> HIDE DEF left, gain, entry
<1>9. items' \in [Players -> Inventories] /\ selling' \in [Players -> [1..MaxSells -> Listings]]
  <2>1. items' \in [Players -> Inventories]
    BY <1>2, <1>5, <1>6, Types
  <2>2. [selling[v] EXCEPT ![first] = entry] \in [1..MaxSells -> Listings]
    BY <1>7, Types
  <2> QED BY <1>3, <2>1, <2>2, Types
<1>10. open' \in [Players -> BOOLEAN] /\ buying' \in [Players -> BuyLists]
  BY <1>2, Types DEF BuyLists, NoWish
<1> QED BY <1>8, <1>9, <1>10 DEF TypeOK, HoldingsTypeOK, BuyLists

\* Opening, closing, teleports and new wishes leave goods alone.
LEMMA ListsKeepTypes ==
  ASSUME TypeOK, NEW p \in Players,
         \/ pakOpenShop(p) \/ pakOpenShopRefused(p) \/ pakCloseShop(p)
         \/ RestartPlayerVal(p) \/ PopulateVendingBuyList(p)
  PROVE  TypeOK'
<1> DEFINE Old == selling[p]
<1>0. Old \in [1..MaxSells -> Listings] /\ buying[p] \in BuyLists
  BY Types
<1>1. CASE pakOpenShop(p)
  <2>1. PICK n \in 0..MaxSells : \E sells \in [1..n -> Listable(p)], wishes \in [1..MaxWishes -> Wishes] :
           /\ \A i \in 1..n : ~Overlisted(p, sells[i])
           /\ selling' = [selling EXCEPT ![p] = Written(selling[p], sells, n + 1)]
           /\ buying' = [buying EXCEPT ![p] = [i \in 1..MaxWishes |->
                           IF wishes[i] = NoWish THEN buying[p][i] ELSE wishes[i]]]
    BY <1>1 DEF pakOpenShop
  <2>2. PICK sells \in [1..n -> Listable(p)], wishes \in [1..MaxWishes -> Wishes] :
           /\ selling' = [selling EXCEPT ![p] = Written(Old, sells, n + 1)]
           /\ buying' = [buying EXCEPT ![p] = [i \in 1..MaxWishes |->
                           IF wishes[i] = NoWish THEN buying[p][i] ELSE wishes[i]]]
    BY <2>1
  <2>3. n \in Nat /\ n + 1 \in Nat
    BY <2>1, ShopAssumption
  <2>4. Written(Old, sells, n + 1) \in [1..MaxSells -> Listings]
    BY <1>0, <2>3, WrittenTypes
  <2>5. selling' \in [Players -> [1..MaxSells -> Listings]]
    BY <2>2, <2>4, Types
  <2>6. [j \in 1..MaxWishes |-> IF wishes[j] = NoWish THEN buying[p][j] ELSE wishes[j]] \in BuyLists
    <3>1. \A j \in 1..MaxWishes :
            wishes[j] # NoWish => wishes[j] \in [item : Items, count : 1..FullStack, price : Prices]
      BY ShopAssumption DEF Wishes
    <3> QED BY <1>0, <3>1 DEF BuyLists
  <2>7. buying' \in [Players -> BuyLists]
    BY <2>2, <2>6, Types
  <2>8. /\ items' \in [Players -> Inventories] /\ zuly' \in [Players -> Nat]
        /\ open' \in [Players -> BOOLEAN]
    BY <1>1, Types DEF pakOpenShop
  <2> QED BY <2>5, <2>7, <2>8 DEF TypeOK, HoldingsTypeOK, BuyLists
<1>2. CASE pakOpenShopRefused(p)
  <2>1. PICK n \in 1..MaxSells : \E sells \in [1..n -> Listable(p)] :
           selling' = [selling EXCEPT ![p] = Written(Old, sells, n)]
    BY <1>2, Types DEF pakOpenShopRefused
  <2>2. PICK sells \in [1..n -> Listable(p)] :
           selling' = [selling EXCEPT ![p] = Written(Old, sells, n)]
    BY <2>1
  <2>3. n \in Nat
    BY <2>1, ShopAssumption
  <2>4. Written(Old, sells, n) \in [1..MaxSells -> Listings]
    BY <1>0, <2>3, WrittenTypes
  <2>5. selling' \in [Players -> [1..MaxSells -> Listings]]
    BY <2>2, <2>4, Types
  <2>6. UNCHANGED <<items, zuly, open, buying>>
    BY <1>2 DEF pakOpenShopRefused
  <2> QED BY <2>5, <2>6 DEF TypeOK, HoldingsTypeOK
<1>3. CASE pakCloseShop(p)
  <2>1. selling' \in [Players -> [1..MaxSells -> Listings]]
    BY <1>3, Types DEF pakCloseShop, Listings
  <2>2. buying' \in [Players -> BuyLists]
    BY <1>3, Types DEF pakCloseShop, BuyLists
  <2>3. /\ items' \in [Players -> Inventories] /\ zuly' \in [Players -> Nat]
        /\ open' \in [Players -> BOOLEAN]
    BY <1>3, Types DEF pakCloseShop
  <2> QED BY <2>1, <2>2, <2>3 DEF TypeOK, HoldingsTypeOK, BuyLists
<1>4. CASE RestartPlayerVal(p)
  <2>1. open' \in [Players -> BOOLEAN] /\ UNCHANGED <<items, zuly, selling, buying>>
    BY <1>4, Types DEF RestartPlayerVal
  <2> QED BY <2>1 DEF TypeOK, HoldingsTypeOK
<1>5. CASE PopulateVendingBuyList(p)
  <2>1. PICK wishes \in [1..MaxWishes -> Wishes] : buying' = [buying EXCEPT ![p] = wishes]
    BY <1>5 DEF PopulateVendingBuyList
  <2>2. wishes \in BuyLists
    BY ShopAssumption DEF Wishes, BuyLists
  <2>3. buying' \in [Players -> BuyLists]
    BY <2>1, <2>2, Types
  <2>4. /\ items' \in [Players -> Inventories] /\ zuly' \in [Players -> Nat]
        /\ open' \in [Players -> BOOLEAN] /\ selling' \in [Players -> [1..MaxSells -> Listings]]
    BY <1>5, ShopAssumption, Types DEF PopulateVendingBuyList
  <2> QED BY <2>3, <2>4 DEF TypeOK, HoldingsTypeOK, BuyLists
<1> QED BY <1>1, <1>2, <1>3, <1>4, <1>5

LEMMA InitTypes == Init => TypeOK
<1> SUFFICES ASSUME Init PROVE TypeOK
  OBVIOUS
<1>1. ASSUME NEW b \in Players, NEW price \in Prices
      PROVE  Catalogue(b, price) \in [1..MaxSells -> Listings]
  <2>1. ASSUME NEW i \in InvSlots, InitItems[b][i] # Empty
        PROVE  InitItems[b][i].count \in 0..FullStack
    <3>1. InitItems[b] \in Inventories
      BY ShopAssumption, StartAssumption
    <3>2. InitItems[b][i] \in Stacks /\ InitItems[b][i].count <= Full(InitItems[b][i].item)
      BY <2>1, <3>1 DEF Inventories
    <3>3. InitItems[b][i].count \in Nat /\ InitItems[b][i].item \in Items
      BY <2>1, <3>2, StackTypes
    <3> QED BY <3>2, <3>3, Counts DEF Full
  <2>2. ASSUME NEW i \in 1..MaxSells
        PROVE  (IF i \in InvSlots /\ InitItems[b][i] # Empty
                THEN [slot |-> i, count |-> InitItems[b][i].count, price |-> price]
                ELSE NoListing) \in Listings
    BY <2>1 DEF Listings
  <2> QED BY <2>2 DEF Catalogue
<1>2. PICK price \in Prices :
        selling = [p \in Players |-> IF p \in VendingBots THEN Catalogue(p, price)
                                     ELSE [i \in 1..MaxSells |-> NoListing]]
  BY DEF Init
<1>3. selling \in [Players -> [1..MaxSells -> Listings]]
  <2>1. [i \in 1..MaxSells |-> NoListing] \in [1..MaxSells -> Listings]
    BY DEF Listings
  <2> QED BY <1>1, <1>2, <2>1
<1>4. buying \in [Players -> BuyLists]
  BY DEF Init, BuyLists
<1>5. /\ items \in [Players -> Inventories] /\ zuly \in [Players -> Nat]
      /\ open \in [Players -> BOOLEAN]
  BY ShopAssumption, StartAssumption DEF Init
<1> QED BY <1>3, <1>4, <1>5 DEF TypeOK, HoldingsTypeOK, BuyLists

LEMMA ShopKeepsTypes ==
  ASSUME TypeOK, [Next]_vars
  PROVE  TypeOK'
<1>1. ASSUME NEW p \in Players,
             \/ pakOpenShop(p) \/ pakOpenShopRefused(p) \/ pakCloseShop(p)
             \/ RestartPlayerVal(p) \/ PopulateVendingBuyList(p)
      PROVE  TypeOK'
  BY <1>1, ListsKeepTypes
<1>2. ASSUME NEW p \in Players, NEW v \in Players, NEW i \in 1..MaxSells,
             NEW n \in 1..FullStack, pakBuyShop(p, v, i, n) \/ pakBuyShopShort(p, v, i, n)
      PROVE  TypeOK'
  BY <1>2, BuyKeepsTypes, ShortKeepsTypes
<1>3. ASSUME NEW p \in Players, NEW v \in Players, NEW s \in InvSlots, NEW i \in 1..MaxWishes,
             NEW n \in 1..FullStack, pakSellShop(p, v, s, i, n)
      PROVE  TypeOK'
  BY <1>3, SellKeepsTypes
<1>4. ASSUME NEW b \in Players, NEW v \in Players, CheckPlayerShops(b, v)
      PROVE  TypeOK'
  BY <1>4, BrowseKeepsTypes
<1>5. CASE UNCHANGED vars
  BY <1>5 DEF vars, TypeOK, HoldingsTypeOK
<1> QED BY <1>1, <1>2, <1>3, <1>4, <1>5 DEF Next, ShopStep, Trading

\* Whatever shops list and whoever buys from and sells to whom, every balance
\* is a number, every stack fits its slot and every list is a list.
THEOREM ShopTypeCorrect == Spec => []TypeOK
<1>1. TypeOK /\ [Next]_vars => TypeOK'
  BY ShopKeepsTypes
<1> QED BY <1>1, InitTypes, PTL DEF Spec

\* A listed slot of a vending bot holds a full stack of an item.
LEMMA ListedFull ==
  ASSUME TypeOK, BotStockFull, NEW b \in VendingBots, NEW i \in 1..MaxSells,
         selling[b][i] # NoListing
  PROVE  LET slot == selling[b][i].slot
             it   == InitItems[b][slot].item
         IN
         /\ b \in Players /\ slot \in InvSlots /\ it \in Items
         /\ items[b][slot] = Stack(it, Full(it)) /\ items[b][slot] # Empty
         /\ items[b][slot].item = it /\ items[b][slot].count = Full(it)
         /\ selling[b][i].count = Full(it)
<1> DEFINE slot == selling[b][i].slot
           it   == InitItems[b][slot].item
<1>1. b \in Players
  BY ShopAssumption DEF Bots
<1>2. slot \in InvSlots
  <2>1. selling[b][i] \in Listings
    BY <1>1, EntryTypes
  <2> QED BY <2>1 DEF Listings
<1>3. items[b][slot] = Stack(it, Full(it)) /\ selling[b][i].count = items[b][slot].count
  BY DEF BotStockFull
<1>4. items[b][slot] \in Stacks
  BY <1>1, <1>2, Types
<1> HIDE DEF slot, it
<1>5. it \in Items
  <2>1. Full(it) # 0
    BY DEF Full
  <2> QED BY <1>3, <1>4, <2>1 DEF Stacks, Stack, Empty
<1>6. Full(it) \in Nat \ {0}
  BY <1>5, StackTypes
<1> QED BY <1>1, <1>2, <1>3, <1>5, <1>6, StackTypes DEF slot, it

\* Goods and lists of vending bots that a step leaves alone stay in order.
LEMMA StockUntouched ==
  ASSUME BotStockFull,
         \A b \in VendingBots : selling'[b] = selling[b] /\ items'[b] = items[b]
  PROVE  BotStockFull'
BY DEF BotStockFull

\* A purchase restocks what it takes and lists it as before.
LEMMA BuyRestocks ==
  ASSUME TypeOK, BotStockFull, NEW p \in Players, NEW v \in Players, NEW i \in 1..MaxSells,
         NEW n \in 1..FullStack, pakBuyShop(p, v, i, n)
  PROVE  BotStockFull'
<1> DEFINE listing == selling[v][i]
           slot    == listing.slot
           it      == InitItems[v][slot].item
           arrived == GetNewItemSlot(items[p], Stack(items[v][slot].item, n))
<1>1. BuyChecked(p, v, i, n) /\ p # v /\ p \notin Bots /\ listing \in Listings /\ slot # NoSlot
  BY BuyTypes DEF pakBuyShop
<1>2. /\ items' = [items EXCEPT ![p] = Added(items[p], arrived, items[v][slot].item, n),
                                ![v] = StockAfter(v, slot, n)]
      /\ selling' = [selling EXCEPT ![v][i] = ListingAfter(v, i, n)]
  BY <1>1, Types DEF pakBuyShop
<1>3. ASSUME NEW b \in VendingBots, b # v
      PROVE  selling'[b] = selling[b] /\ items'[b] = items[b]
  <2>1. b \in Players /\ b # p
    BY <1>1, ShopAssumption DEF Bots
  <2> QED BY <1>2, <1>3, <2>1, Types
<1>4. ASSUME v \in VendingBots
      PROVE  selling'[v] = selling[v] /\ items'[v] = items[v]
  <2>1. listing # NoListing
    BY <1>1, ListingTypes
  <2>2. /\ slot \in InvSlots /\ it \in Items /\ items[v][slot] = Stack(it, Full(it))
        /\ items[v][slot].item = it /\ listing.count = Full(it)
    BY <1>4, <2>1, ListedFull
  <2>3. StockAfter(v, slot, n) = items[v]
    <3>1. items[v] \in [InvSlots -> Stacks]
      BY Types
    <3> HIDE DEF slot, it
    <3>2. StockAfter(v, slot, n) = [items[v] EXCEPT ![slot] = Stack(it, Full(it))]
      BY <1>4, <2>2, <3>1 DEF StockAfter
    <3> QED BY <2>2, <3>1, <3>2
  <2>4. ListingAfter(v, i, n) = listing
    <3>1. ListingAfter(v, i, n) = [listing EXCEPT !.count = Full(items[v][slot].item)]
      BY <1>4 DEF ListingAfter
    <3>2. listing = [slot |-> listing.slot, count |-> listing.count, price |-> listing.price]
      BY <1>1, ListingTypes
    <3> QED BY <2>2, <3>1, <3>2
  <2>5. items'[v] = items[v]
    BY <1>1, <1>2, <2>3, Types
  <2>6. selling'[v] = [selling[v] EXCEPT ![i] = listing]
    BY <1>2, <2>4, Types
  <2>7. selling[v] \in [1..MaxSells -> Listings]
    BY Types
  <2> QED BY <2>5, <2>6, <2>7
<1> QED BY <1>3, <1>4, StockUntouched

\* What a bot buys never goes onto goods it sells.
LEMMA SellSparesStock ==
  ASSUME TypeOK, BotStockFull, NEW p \in Players, NEW v \in Players, NEW s \in InvSlots,
         NEW i \in 1..MaxWishes, NEW n \in 1..FullStack, pakSellShop(p, v, s, i, n)
  PROVE  BotStockFull'
<1> DEFINE it   == items[p][s].item
           wish == buying[v][i]
           sold == IF n > wish.count THEN wish.count ELSE n
           slot == GetNewItemSlot(items[v], Stack(it, sold))
           left == Taken(items[p], s, sold)
           his  == Added(items[v], slot, it, sold)
<1>1. /\ p # v /\ p \notin Bots /\ it \in Items
      /\ sold \in Nat \ {0} /\ slot # NoSlot
  BY SellTypes
<1>2. items' = [items EXCEPT ![p] = left, ![v] = his] /\ selling' = selling
  BY Types DEF pakSellShop
<1>3. /\ slot \in InvSlots
      /\ \/ items[v][slot] = Empty
         \/ it \in Stackables /\ items[v][slot].item = it /\ items[v][slot].count + sold < FullStack
  <2>1. items[v] \in Inventories /\ sold \in Nat
    BY <1>1, Types
  <2> QED BY <1>1, <2>1, SlotFound
<1>4. items[v] \in [InvSlots -> Stacks]
  BY Types
<1>5. \A l \in InvSlots : l # slot => his[l] = items[v][l]
  BY <1>4 DEF Added
<1> HIDE DEF it, sold, slot, left, his
<1>6. ASSUME NEW b \in VendingBots, NEW j \in 1..MaxSells, selling[b][j] # NoListing
      PROVE  items'[b][selling[b][j].slot] = items[b][selling[b][j].slot]
  <2> DEFINE l    == selling[b][j].slot
             kind == InitItems[b][l].item
  <2>1. /\ b \in Players /\ l \in InvSlots /\ kind \in Items /\ items[b][l] # Empty
        /\ items[b][l].item = kind /\ items[b][l].count = Full(kind)
    BY <1>6, ListedFull
  <2> HIDE DEF l, kind
  <2>2. b # p
    BY <1>1 DEF Bots
  <2>3. CASE b # v
    BY <1>2, <2>1, <2>2, <2>3, Types DEF l
  <2>4. CASE b = v
    <3>1. l # slot
      <4> SUFFICES ASSUME l = slot PROVE FALSE
        OBVIOUS
      <4>1. kind \in Stackables /\ Full(kind) + sold < FullStack
        BY <1>3, <2>1, <2>4
      <4>2. Full(kind) = FullStack
        BY <4>1 DEF Full
      <4> QED BY <1>1, <4>1, <4>2
    <3>2. items'[v] = his
      BY <1>1, <1>2, Types
    <3> QED BY <1>5, <2>1, <2>4, <3>1, <3>2 DEF l
  <2> QED BY <2>3, <2>4
<1>7. ASSUME NEW b \in VendingBots, NEW j \in 1..MaxSells, selling'[b][j] # NoListing
      PROVE  LET l == selling'[b][j] IN
             /\ l.count = items'[b][l.slot].count
             /\ items'[b][l.slot] = Stack(InitItems[b][l.slot].item, Full(InitItems[b][l.slot].item))
  <2>1. selling'[b][j] = selling[b][j]
    BY <1>2
  <2>2. items'[b][selling[b][j].slot] = items[b][selling[b][j].slot]
    BY <1>6, <1>7, <2>1
  <2> QED BY <1>7, <2>1, <2>2 DEF BotStockFull
<1> QED BY <1>7 DEF BotStockFull

LEMMA InitStockFull == Init => BotStockFull
<1> SUFFICES ASSUME Init, NEW b \in VendingBots, NEW i \in 1..MaxSells, selling[b][i] # NoListing
             PROVE  LET slot == selling[b][i].slot
                        it   == InitItems[b][slot].item
                    IN /\ selling[b][i].count = items[b][slot].count
                       /\ items[b][slot] = Stack(it, Full(it))
  BY DEF BotStockFull
<1>1. b \in Players
  BY ShopAssumption DEF Bots
<1>2. PICK price \in Prices :
        selling = [p \in Players |-> IF p \in VendingBots THEN Catalogue(p, price)
                                     ELSE [j \in 1..MaxSells |-> NoListing]]
  BY DEF Init
<1>3. selling[b][i] = IF i \in InvSlots /\ InitItems[b][i] # Empty
                      THEN [slot |-> i, count |-> InitItems[b][i].count, price |-> price]
                      ELSE NoListing
  BY <1>1, <1>2 DEF Catalogue
<1>4. /\ i \in InvSlots /\ InitItems[b][i] # Empty
      /\ selling[b][i].slot = i /\ selling[b][i].count = InitItems[b][i].count
  BY <1>3
<1>5. InitItems[b][i].count = Full(InitItems[b][i].item)
  BY <1>4, ShopAssumption, StartAssumption
<1>6. InitItems[b][i] \in Stacks
  BY <1>1, <1>4, ShopAssumption, StartAssumption DEF Inventories
<1>7. InitItems[b][i] = Stack(InitItems[b][i].item, InitItems[b][i].count)
  BY <1>4, <1>6 DEF Stacks, Stack, Empty
<1>8. items[b][i] = InitItems[b][i]
  BY DEF Init
<1> QED BY <1>4, <1>5, <1>7, <1>8

\* The stall of a vending bot stays at full stacks and single equipment,
\* whatever players buy from it or sell to it.
THEOREM BotsStayStocked == Spec => []BotStockFull
<1>1. TypeOK /\ BotStockFull /\ [Next]_vars => BotStockFull'
  <2> SUFFICES ASSUME TypeOK, BotStockFull, [Next]_vars PROVE BotStockFull'
    OBVIOUS
  <2>0. VendingBots \subseteq Bots /\ Bots \subseteq Players /\ VendingBots \cap Browsers = {}
    BY ShopAssumption DEF Bots
  <2>1. ASSUME NEW p \in Players, pakOpenShop(p) \/ pakOpenShopRefused(p) \/ pakCloseShop(p)
        PROVE  BotStockFull'
    <3>1. p \notin Bots /\ items' = items
      BY <2>1 DEF pakOpenShop, pakOpenShopRefused, pakCloseShop
    <3>2. \A b \in Players : b # p => selling'[b] = selling[b]
      BY <2>1, Types DEF pakOpenShop, pakOpenShopRefused, pakCloseShop
    <3> QED BY <2>0, <3>1, <3>2, StockUntouched
  <2>2. ASSUME NEW p \in Players, RestartPlayerVal(p) \/ PopulateVendingBuyList(p)
        PROVE  BotStockFull'
    BY <2>2, StockUntouched DEF RestartPlayerVal, PopulateVendingBuyList
  <2>3. ASSUME NEW p \in Players, NEW v \in Players, NEW i \in 1..MaxSells,
               NEW n \in 1..FullStack, pakBuyShop(p, v, i, n)
        PROVE  BotStockFull'
    BY <2>3, BuyRestocks
  <2>4. ASSUME NEW p \in Players, NEW v \in Players, NEW i \in 1..MaxSells,
               NEW n \in 1..FullStack, pakBuyShopShort(p, v, i, n)
        PROVE  BotStockFull'
    <3>1. /\ BuyChecked(p, v, i, n) /\ items' = items
          /\ items[v][selling[v][i].slot].count < n
          /\ selling' = [selling EXCEPT ![v][i].count = items[v][selling[v][i].slot].count]
      BY <2>4 DEF pakBuyShopShort
    <3>2. v \notin VendingBots
      <4> SUFFICES ASSUME v \in VendingBots PROVE FALSE
        OBVIOUS
      <4>1. /\ selling[v][i] \in Listings /\ selling[v][i].slot # NoSlot
            /\ n <= selling[v][i].count /\ n \in Nat
        BY <3>1, BuyTypes
      <4>2. selling[v][i] # NoListing
        BY <4>1, ListingTypes
      <4>3. /\ items[v][selling[v][i].slot].count = selling[v][i].count
            /\ selling[v][i].count \in 0..FullStack
        BY <4>1, <4>2, ListedFull, ListingTypes
      <4> QED BY <3>1, <4>1, <4>3
    <3>3. \A b \in Players : b # v => selling'[b] = selling[b]
      BY <3>1, Types
    <3>4. \A b \in VendingBots : selling'[b] = selling[b] /\ items'[b] = items[b]
      BY <2>0, <3>1, <3>2, <3>3
    <3> QED BY <3>4, StockUntouched
  <2>5. ASSUME NEW p \in Players, NEW v \in Players, NEW s \in InvSlots, NEW i \in 1..MaxWishes,
               NEW n \in 1..FullStack, pakSellShop(p, v, s, i, n)
        PROVE  BotStockFull'
    BY <2>5, SellSparesStock
  <2>6. ASSUME NEW b \in Players, NEW v \in Players, CheckPlayerShops(b, v)
        PROVE  BotStockFull'
    <3>1. b \in Browsers /\ v \notin Bots
      BY <2>6 DEF CheckPlayerShops
    <3>2. \A q \in Players : q # v => selling'[q] = selling[q]
      BY <2>6, Types DEF CheckPlayerShops
    <3>3. \A q \in Players : q # v /\ q # b => items'[q] = items[q]
      BY <2>6, Types DEF CheckPlayerShops
    <3> QED BY <2>0, <3>1, <3>2, <3>3, StockUntouched
  <2>7. CASE UNCHANGED vars
    BY <2>7, StockUntouched DEF vars
  <2> QED
    BY <2>1, <2>2, <2>3, <2>4, <2>5, <2>6, <2>7 DEF Next, ShopStep, Trading
<1> QED BY <1>1, InitStockFull, ShopTypeCorrect, PTL DEF Spec

-----------------------------------------------------------------------------
(* Nothing is made or lost in a shop *)

\* What one pays the other gets, and what all have together stays.
LEMMA PayConserves ==
  ASSUME zuly \in [Players -> Nat], NEW from \in Players, NEW to \in Players, from # to,
         NEW amount \in Nat, zuly[from] >= amount, Pay(from, to, amount)
  PROVE  ZulyHeld(Players)' = ZulyHeld(Players)
<1>1. zuly' = [zuly EXCEPT ![from] = zuly[from] - amount, ![to] = zuly[to] + amount]
  BY DEF Pay
<1>2. zuly'[from] = zuly[from] - amount /\ zuly'[to] = zuly[to] + amount
  BY <1>1
<1>3. \A p \in Players \ {from, to} : zuly'[p] = zuly[p]
  BY <1>1
<1>4. zuly'[from] + zuly'[to] = zuly[from] + zuly[to]
  BY <1>2
<1>5. zuly' \in [Players -> Nat]
  BY PayTypes
<1> QED BY <1>3, <1>4, <1>5, ZulyPassed

\* A step of the shops moves zuly by a payment between two, or refills a bot.
LEMMA ShopMovesZuly ==
  ASSUME TypeOK, [Next]_vars
  PROVE  \/ ZulyHeld(Players)' = ZulyHeld(Players)
         \/ \E b \in Players : PopulateVendingBuyList(b)
<1>0. zuly \in [Players -> Nat]
  BY Types
<1>1. ASSUME zuly' = zuly PROVE ZulyHeld(Players)' = ZulyHeld(Players)
  BY <1>1 DEF ZulyHeld
<1>2. ASSUME NEW p \in Players,
             pakOpenShop(p) \/ pakOpenShopRefused(p) \/ pakCloseShop(p) \/ RestartPlayerVal(p)
      PROVE  zuly' = zuly
  BY <1>2 DEF pakOpenShop, pakOpenShopRefused, pakCloseShop, RestartPlayerVal
<1>3. ASSUME NEW p \in Players, NEW v \in Players, NEW i \in 1..MaxSells,
             NEW n \in 1..FullStack, pakBuyShop(p, v, i, n) \/ pakBuyShopShort(p, v, i, n)
      PROVE  ZulyHeld(Players)' = ZulyHeld(Players)
  <2> DEFINE price == Cost(selling[v][i].price, n)
  <2>1. BuyChecked(p, v, i, n) /\ Pay(p, v, price)
    BY <1>3 DEF pakBuyShop, pakBuyShopShort
  <2>2. p # v /\ price \in Nat /\ zuly[p] >= price
    BY <2>1, BuyTypes
  <2> HIDE DEF price
  <2> QED BY <1>0, <2>1, <2>2, PayConserves
<1>4. ASSUME NEW p \in Players, NEW v \in Players, NEW s \in InvSlots, NEW i \in 1..MaxWishes,
             NEW n \in 1..FullStack, pakSellShop(p, v, s, i, n)
      PROVE  ZulyHeld(Players)' = ZulyHeld(Players)
  <2> DEFINE wish  == buying[v][i]
             price == Cost(wish.price, IF n > wish.count THEN wish.count ELSE n)
  <2>1. Pay(v, p, price)
    BY <1>4 DEF pakSellShop
  <2>2. p # v /\ price \in Nat /\ zuly[v] >= price
    BY <1>4, SellTypes
  <2> HIDE DEF price
  <2> QED BY <1>0, <2>1, <2>2, PayConserves
<1>5. ASSUME NEW b \in Players, NEW v \in Players, CheckPlayerShops(b, v)
      PROVE  ZulyHeld(Players)' = ZulyHeld(Players)
  <2> DEFINE fits == {i \in 1..MaxSells :
                        /\ selling[v][i].count > 0
                        /\ selling[v][i].price > 0
                        /\ selling[v][i].slot # NoSlot
                        /\ items[v][selling[v][i].slot] # Empty
                        /\ zuly[b] >= selling[v][i].price}
             price == selling[v][Min(fits)].price
  <2>1. Pay(b, v, price)
    BY <1>5 DEF CheckPlayerShops
  <2>2. b # v /\ price \in Nat /\ zuly[b] >= price
    BY <1>5, BrowseTypes
  <2> HIDE DEF price
  <2> QED BY <1>0, <2>1, <2>2, PayConserves
<1>6. CASE UNCHANGED vars
  BY <1>1, <1>6 DEF vars
<1> QED BY <1>1, <1>2, <1>3, <1>4, <1>5, <1>6 DEF Next, ShopStep, Trading

\* Goods that pass from one to the other.
LEMMA GoodsMoved ==
  ASSUME NEW before \in [Players -> Inventories], NEW a \in Players, NEW b \in Players, a # b,
         NEW s \in InvSlots, NEW n \in Nat \ {0}, n <= before[a][s].count,
         NEW m \in Nat, n <= m, m <= Full(before[a][s].item), before[a][s].item \in Items,
         GetNewItemSlot(before[b], Stack(before[a][s].item, m)) # NoSlot
  PROVE  LET room == GetNewItemSlot(before[b], Stack(before[a][s].item, m))
             left == Taken(before[a], s, n)
             more == Added(before[b], room, before[a][s].item, n)
         IN
         /\ left \in Inventories /\ more \in Inventories
         /\ \A it \in Items :
              /\ CountOf(left, it) = CountOf(before[a], it) - (IF before[a][s].item = it THEN n ELSE 0)
              /\ CountOf(more, it) = CountOf(before[b], it) + (IF before[a][s].item = it THEN n ELSE 0)
              /\ CountOf(before[a], it) \in Nat /\ CountOf(before[b], it) \in Nat
<1> DEFINE kind == before[a][s].item
           room == GetNewItemSlot(before[b], Stack(kind, m))
           left == Taken(before[a], s, n)
           more == Added(before[b], room, kind, n)
<1>1. before[a] \in Inventories /\ before[b] \in Inventories
  OBVIOUS
<1>2. left \in Inventories
  BY <1>1, TakenFits
<1>3. room \in InvSlots /\ (before[b][room] = Empty \/ before[b][room].item = kind)
  BY <1>1, SlotFound
<1>4. more \in Inventories
  BY <1>1, AddedFits
<1>5. ASSUME NEW it \in Items
      PROVE  /\ CountOf(left, it) = CountOf(before[a], it) - (IF kind = it THEN n ELSE 0)
             /\ CountOf(more, it) = CountOf(before[b], it) + (IF kind = it THEN n ELSE 0)
  <2>1. CountOf(left, it) = CountOf(before[a], it) - (IF kind = it THEN n ELSE 0)
    BY <1>1, InventoryCounts, CountTaken
  <2>2. CountOf(more, it) = CountOf(before[b], it) + (IF kind = it THEN n ELSE 0)
    <3> HIDE DEF kind, room
    <3>1. kind \in Items
      BY DEF kind
    <3> QED BY <1>1, <1>3, <1>4, <3>1, InventoryCounts, CountAdded
  <2> QED BY <2>1, <2>2
<1>6. \A it : CountOf(before[a], it) \in Nat /\ CountOf(before[b], it) \in Nat
  BY <1>1, InventoryCounts
<1> QED BY <1>2, <1>4, <1>5, <1>6

\* A sale to one who is not a vending bot, and one into a list of wishes.
LEMMA SaleConserves ==
  ASSUME TypeOK,
         \/ \E p, v \in Players, i \in 1..MaxSells, n \in 1..FullStack :
              v \notin VendingBots /\ pakBuyShop(p, v, i, n)
         \/ \E p, v \in Players, s \in InvSlots, i \in 1..MaxWishes, n \in 1..FullStack :
              pakSellShop(p, v, s, i, n),
         NEW it \in Items
  PROVE  CountHeld(Players, it)' = CountHeld(Players, it)
<1>0. items \in [Players -> Inventories]
  BY Types
<1>1. \E a, b \in Players, s \in InvSlots, n \in Nat \ {0} :
        LET kind == items[a][s].item
            room == GetNewItemSlot(items[b], Stack(kind, n))
        IN /\ a # b /\ n <= items[a][s].count /\ n <= Full(kind) /\ kind \in Items /\ room # NoSlot
           /\ items' = [items EXCEPT ![b] = Added(items[b], room, kind, n), ![a] = Taken(items[a], s, n)]
  <2>1. ASSUME NEW p \in Players, NEW v \in Players, NEW i \in 1..MaxSells, NEW n \in 1..FullStack,
               v \notin VendingBots, pakBuyShop(p, v, i, n)
        PROVE  LET s    == selling[v][i].slot
                   kind == items[v][s].item
                   room == GetNewItemSlot(items[p], Stack(kind, n))
               IN /\ s \in InvSlots /\ n \in Nat \ {0}
                  /\ v # p /\ n <= items[v][s].count /\ n <= Full(kind) /\ kind \in Items /\ room # NoSlot
                  /\ items' = [items EXCEPT ![p] = Added(items[p], room, kind, n), ![v] = Taken(items[v], s, n)]
    <3>1. BuyChecked(p, v, i, n) /\ items[v][selling[v][i].slot].count >= n
      BY <2>1 DEF pakBuyShop
    <3>2. /\ selling[v][i].slot \in InvSlots /\ n \in Nat \ {0} /\ p # v
          /\ items[v][selling[v][i].slot] \in Stacks
          /\ items[v][selling[v][i].slot].item \in Items
          /\ n <= Full(items[v][selling[v][i].slot].item)
          /\ GetNewItemSlot(items[p], Stack(items[v][selling[v][i].slot].item, n)) # NoSlot
      BY <3>1, BuyTypes
    <3>3. items[v][selling[v][i].slot].count \in Nat
      BY <3>2, StackTypes
    <3>4. StockAfter(v, selling[v][i].slot, n) = Taken(items[v], selling[v][i].slot, n)
      BY <2>1 DEF StockAfter
    <3>5. n <= items[v][selling[v][i].slot].count
      BY <3>1, <3>2, <3>3
    <3>6. items' = [items EXCEPT
                      ![p] = Added(items[p], GetNewItemSlot(items[p], Stack(items[v][selling[v][i].slot].item, n)),
                                   items[v][selling[v][i].slot].item, n),
                      ![v] = Taken(items[v], selling[v][i].slot, n)]
      BY <1>0, <2>1, <3>2, <3>4 DEF pakBuyShop
    <3> QED BY <3>2, <3>5, <3>6
  <2>2. ASSUME NEW p \in Players, NEW v \in Players, NEW s \in InvSlots, NEW i \in 1..MaxWishes,
               NEW n \in 1..FullStack, pakSellShop(p, v, s, i, n)
        PROVE  LET sold == IF n > buying[v][i].count THEN buying[v][i].count ELSE n
                   kind == items[p][s].item
                   room == GetNewItemSlot(items[v], Stack(kind, sold))
               IN /\ sold \in Nat \ {0}
                  /\ p # v /\ sold <= items[p][s].count /\ sold <= Full(kind) /\ kind \in Items /\ room # NoSlot
                  /\ items' = [items EXCEPT ![v] = Added(items[v], room, kind, sold), ![p] = Taken(items[p], s, sold)]
    <3> DEFINE sold == IF n > buying[v][i].count THEN buying[v][i].count ELSE n
               kind == items[p][s].item
               room == GetNewItemSlot(items[v], Stack(kind, sold))
    <3>1. /\ p # v /\ kind \in Items /\ sold \in Nat \ {0} /\ sold <= Full(kind) /\ room # NoSlot
          /\ buying[v][i] \in [item : Items, count : 1..FullStack, price : Prices]
      BY <2>2, SellTypes
    <3>2. n <= items[p][s].count /\ items[p][s].count \in Nat
      BY <1>0, <2>2, StackTypes, Types DEF pakSellShop
    <3>3. sold <= items[p][s].count
      <4>1. buying[v][i].count \in Nat /\ n \in Nat
        BY <3>1
      <4> QED BY <3>2, <4>1
    <3>4. items' = [items EXCEPT ![p] = Taken(items[p], s, sold), ![v] = Added(items[v], room, kind, sold)]
      BY <1>0, <2>2, <3>1 DEF pakSellShop
    <3> DEFINE left == Taken(items[p], s, sold)
               more == Added(items[v], room, kind, sold)
    <3>5. items' = [items EXCEPT ![v] = more, ![p] = left]
      <4> HIDE DEF left, more
      <4>1. items' = [items EXCEPT ![p] = left, ![v] = more]
        BY <3>4 DEF left, more
      <4> QED BY <1>0, <3>1, <4>1
    <3> QED BY <3>1, <3>3, <3>5
  <2> QED BY <2>1, <2>2
<1>2. PICK a \in Players, b \in Players, s \in InvSlots, n \in Nat \ {0} :
        /\ a # b /\ n <= items[a][s].count /\ n <= Full(items[a][s].item) /\ items[a][s].item \in Items
        /\ GetNewItemSlot(items[b], Stack(items[a][s].item, n)) # NoSlot
        /\ items' = [items EXCEPT
             ![b] = Added(items[b], GetNewItemSlot(items[b], Stack(items[a][s].item, n)), items[a][s].item, n),
             ![a] = Taken(items[a], s, n)]
  BY <1>1
<1> DEFINE left == Taken(items[a], s, n)
           more == Added(items[b], GetNewItemSlot(items[b], Stack(items[a][s].item, n)), items[a][s].item, n)
           some == IF items[a][s].item = it THEN n ELSE 0
<1>3. n \in Nat /\ n <= n
  OBVIOUS
<1>4. /\ left \in Inventories /\ more \in Inventories
      /\ CountOf(left, it) = CountOf(items[a], it) - some
      /\ CountOf(more, it) = CountOf(items[b], it) + some
      /\ CountOf(items[a], it) \in Nat /\ CountOf(items[b], it) \in Nat /\ some \in Nat
  BY <1>0, <1>2, <1>3, GoodsMoved
<1>5. items' = [items EXCEPT ![b] = more, ![a] = left]
  BY <1>2
<1> HIDE DEF left, more, some
<1>6. items'[a] = left /\ items'[b] = more /\ \A p \in Players \ {a, b} : items'[p] = items[p]
  BY <1>0, <1>2, <1>5
<1>7. items' \in [Players -> Inventories]
  BY <1>0, <1>4, <1>5
<1>8. CountOf(items'[a], it) + CountOf(items'[b], it) = CountOf(items[a], it) + CountOf(items[b], it)
  BY <1>4, <1>6
<1>9. HeldIn(items', it) = HeldIn(items, it)
  <2>1. a # b /\ \A p \in Players \ {a, b} : items'[p] = items[p]
    BY <1>2, <1>6
  <2>2. ASSUME NEW after \in [Players -> Inventories], \A p \in Players \ {a, b} : after[p] = items[p],
               CountOf(after[a], it) + CountOf(after[b], it) = CountOf(items[a], it) + CountOf(items[b], it)
        PROVE  HeldIn(after, it) = HeldIn(items, it)
    BY <1>0, <2>1, <2>2, GoodsPassed
  <2> QED BY ONLY <1>7, <1>8, <2>1, <2>2, Zenon
<1> QED BY <1>9 DEF CountHeld, HeldIn

\* A step of the shops moves goods by a sale, unless a bot makes them.
LEMMA ShopMovesGoods ==
  ASSUME TypeOK, [Next]_vars
  PROVE  \/ \A it \in Items : CountHeld(Players, it)' = CountHeld(Players, it)
         \/ \E p \in Players, b \in VendingBots, i \in 1..MaxSells, n \in 1..FullStack :
              pakBuyShop(p, b, i, n)
         \/ \E b, v \in Players : CheckPlayerShops(b, v)
<1>1. ASSUME items' = items, NEW it \in Items PROVE CountHeld(Players, it)' = CountHeld(Players, it)
  BY <1>1 DEF CountHeld, CountOf
<1>2. ASSUME NEW p \in Players,
             \/ pakOpenShop(p) \/ pakOpenShopRefused(p) \/ pakCloseShop(p) \/ RestartPlayerVal(p)
             \/ PopulateVendingBuyList(p)
      PROVE  items' = items
  BY <1>2 DEF pakOpenShop, pakOpenShopRefused, pakCloseShop, RestartPlayerVal, PopulateVendingBuyList
<1>3. ASSUME NEW p \in Players, NEW v \in Players, NEW i \in 1..MaxSells,
             NEW n \in 1..FullStack, pakBuyShopShort(p, v, i, n)
      PROVE  items' = items
  BY <1>3 DEF pakBuyShopShort
<1>4. ASSUME NEW p \in Players, NEW v \in Players, NEW i \in 1..MaxSells,
             NEW n \in 1..FullStack, pakBuyShop(p, v, i, n), v \notin VendingBots, NEW it \in Items
      PROVE  CountHeld(Players, it)' = CountHeld(Players, it)
  BY <1>4, SaleConserves
<1>5. ASSUME NEW p \in Players, NEW v \in Players, NEW s \in InvSlots, NEW i \in 1..MaxWishes,
             NEW n \in 1..FullStack, pakSellShop(p, v, s, i, n), NEW it \in Items
      PROVE  CountHeld(Players, it)' = CountHeld(Players, it)
  BY <1>5, SaleConserves
<1>6. CASE UNCHANGED vars
  BY <1>1, <1>6 DEF vars
<1> QED BY <1>1, <1>2, <1>3, <1>4, <1>5, <1>6 DEF Next, ShopStep, Trading

\* No sale makes or loses zuly, whatever price * count wraps to.
THEOREM SalesConserveZuly == Spec => ZulyConserved
<1>1. TypeOK /\ [Next]_vars =>
        [zuly' # zuly => \/ ZulyHeld(Players)' = ZulyHeld(Players)
                         \/ \E b \in Players : PopulateVendingBuyList(b)]_vars
  BY ShopMovesZuly
<1> QED BY <1>1, ShopTypeCorrect, PTL DEF Spec, ZulyConserved

\* No sale makes or loses an item, whatever a list says of an inventory that
\* has changed since.
THEOREM SalesConserveGoods == Spec => GoodsConserved
<1>1. TypeOK /\ [Next]_vars =>
        [items' # items =>
           \/ \A it \in Items : CountHeld(Players, it)' = CountHeld(Players, it)
           \/ \E p \in Players, b \in VendingBots, i \in 1..MaxSells, n \in 1..FullStack :
                pakBuyShop(p, b, i, n)
           \/ \E b, v \in Players : CheckPlayerShops(b, v)]_vars
  BY ShopMovesGoods
<1> QED BY <1>1, ShopTypeCorrect, PTL DEF Spec, GoodsConserved

-----------------------------------------------------------------------------
(* A trade, place by place *)

Offers == {of \in [slot : InvSlots \cup {NoSlot}, count : 0..FullStack] :
             of.count > 0 => of.slot # NoSlot}

\* What trade windows hold.
WindowsTypeOK ==
  /\ target \in [Players -> Players \cup {NoTarget}]
  /\ status \in [Players -> Statuses]
  /\ offer \in [Players -> [1..MaxOffers -> Offers]]
  /\ zulyOffer \in [Players -> Nat]

MarketTypeOK == TypeOK /\ WindowsTypeOK

LEMMA OfferTypes ==
  ASSUME MarketTypeOK, NEW a \in Players, NEW k \in 1..MaxOffers
  PROVE  LET of == offer[a][k] IN
         /\ of \in Offers /\ of.count \in Nat /\ k \in Nat
         /\ of.count > 0 => /\ of.slot \in InvSlots /\ of.slot # NoSlot /\ of.count \in Nat \ {0}
                            /\ items[a][of.slot] \in Stacks /\ items[a][of.slot].count \in Nat
<1>1. offer[a][k] \in Offers
  <2>1. offer \in [Players -> [1..MaxOffers -> Offers]]
    BY DEF MarketTypeOK, WindowsTypeOK
  <2>2. offer[a] \in [1..MaxOffers -> Offers]
    BY <2>1
  <2> QED BY <2>2
<1>2. MaxOffers \in Nat /\ k \in Nat
  BY TradeAssumption
<1>3. offer[a][k].count \in Nat /\ (offer[a][k].count > 0 => offer[a][k].slot \in InvSlots /\ offer[a][k].slot # NoSlot)
  BY <1>1, Counts DEF Offers
<1>4. TypeOK
  BY DEF MarketTypeOK
<1>5. ASSUME NEW l \in InvSlots PROVE items[a][l] \in Stacks /\ items[a][l].count \in Nat
  BY <1>4, Types, StackTypes
<1> QED BY <1>1, <1>2, <1>3, <1>5

\* a's first k offers of an item, as the trade began.
Part(a, k, it) ==
  [j \in 1..MaxOffers |->
     IF j <= k /\ offer[a][j].count > 0 /\ items[a][offer[a][j].slot].item = it
     THEN offer[a][j].count ELSE 0]
PartSum(a, k, it) == SumFunctionOnSet(Part(a, k, it), 1..MaxOffers)

\* When a's first k places are done, the others can still be given, and a has
\* given no more than it offered in those.
OneSide(inv, a, k) ==
  /\ \A j \in 1..MaxOffers : j > k /\ offer[a][j].count > 0 =>
       /\ inv[a][offer[a][j].slot].item = items[a][offer[a][j].slot].item
       /\ inv[a][offer[a][j].slot].count >= offer[a][j].count
  /\ \A it \in Items : CountOf(items[a], it) - CountOf(inv[a], it) <= PartSum(a, k, it)

\* Goods have only passed between p and o.
Between(inv, p, o) ==
  /\ inv \in [Players -> Inventories]
  /\ \A q \in Players \ {p, o} : inv[q] = items[q]
  /\ \A it \in Items :
       CountOf(inv[p], it) + CountOf(inv[o], it) = CountOf(items[p], it) + CountOf(items[o], it)

LEMMA PartTypes ==
  ASSUME MarketTypeOK, NEW a \in Players, NEW k \in Nat, NEW it
  PROVE  /\ \A j \in 1..MaxOffers : Part(a, k, it)[j] \in Nat
         /\ PartSum(a, k, it) \in Nat
         /\ IsFiniteSet(1..MaxOffers)
<1>1. \A j \in 1..MaxOffers : Part(a, k, it)[j] \in Nat
  BY OfferTypes DEF Part
<1>2. IsFiniteSet(1..MaxOffers)
  BY TradeAssumption, FS_Interval
<1>3. SumFunctionOnSet(Part(a, k, it), 1..MaxOffers) \in Nat
  BY <1>1, <1>2, SumNat
<1> QED BY <1>1, <1>2, <1>3 DEF PartSum

\* A place that is left out changes nothing of this.
LEMMA PlaceLeftOut ==
  ASSUME MarketTypeOK, NEW a \in Players, NEW inv, inv \in [Players -> Inventories],
         NEW k \in Nat, OneSide(inv, a, k)
  PROVE  OneSide(inv, a, k + 1)
<1>1. \A j \in 1..MaxOffers : j > k + 1 => j > k
  BY TradeAssumption
<1>2. ASSUME NEW it \in Items
      PROVE  CountOf(items[a], it) - CountOf(inv[a], it) <= PartSum(a, k + 1, it)
  <2>1. \A j \in 1..MaxOffers :
          /\ Part(a, k, it)[j] \in Int /\ Part(a, k + 1, it)[j] \in Int
          /\ Part(a, k, it)[j] <= Part(a, k + 1, it)[j]
    <3> SUFFICES ASSUME NEW j \in 1..MaxOffers
                 PROVE  /\ Part(a, k, it)[j] \in Int /\ Part(a, k + 1, it)[j] \in Int
                        /\ Part(a, k, it)[j] <= Part(a, k + 1, it)[j]
      OBVIOUS
    <3>1. j \in Nat /\ offer[a][j].count \in Nat /\ (j <= k => j <= k + 1)
      BY OfferTypes
    <3> QED BY <3>1 DEF Part
  <2>2. IsFiniteSet(1..MaxOffers)
    BY PartTypes
  <2>3. PartSum(a, k, it) <= PartSum(a, k + 1, it)
    BY <2>1, <2>2, SumMonotone DEF PartSum
  <2>4. CountOf(items[a], it) - CountOf(inv[a], it) <= PartSum(a, k, it)
    BY DEF OneSide
  <2>5. CountOf(items[a], it) \in Nat /\ CountOf(inv[a], it) \in Nat
    <3>1. items[a] \in Inventories /\ inv[a] \in Inventories
      BY Types DEF MarketTypeOK
    <3> QED BY <3>1, InventoryCounts
  <2>6. PartSum(a, k, it) \in Nat /\ PartSum(a, k + 1, it) \in Nat
    BY PartTypes
  <2> QED BY <2>3, <2>4, <2>5, <2>6
<1> QED BY <1>1, <1>2 DEF OneSide

\* A place that is given: a's next places, and all b's, can still be given.
LEMMA PlaceGiven ==
  ASSUME MarketTypeOK, NEW a \in Players, NEW b \in Players, a # b, Covered(a),
         NEW inv, Between(inv, a, b), NEW k \in Nat, k + 1 \in 1..MaxOffers, NEW m \in Nat,
         OneSide(inv, a, k), OneSide(inv, b, m),
         offer[a][k + 1].count > 0, Room(inv, a, b, k + 1) # NoSlot
  PROVE  LET after == Given(inv, a, b, k + 1) IN
         Between(after, a, b) /\ OneSide(after, a, k + 1) /\ OneSide(after, b, m)
<1> DEFINE mine  == offer[a][k + 1]
           s     == mine.slot
           n     == mine.count
           stack == inv[a][s]
           room  == Room(inv, a, b, k + 1)
           left  == Taken(inv[a], s, n)
           more  == Added(inv[b], room, stack.item, n)
           after == Given(inv, a, b, k + 1)
<1>1. s \in InvSlots /\ s # NoSlot /\ n \in Nat \ {0} /\ items[a][s] \in Stacks
  BY OfferTypes
<1>2. inv \in [Players -> Inventories] /\ inv[a] \in Inventories /\ inv[b] \in Inventories
  BY DEF Between
<1>3. \A p \in {a, b}, l \in InvSlots :
        /\ inv[p][l] \in Stacks /\ inv[p][l].count \in Nat
        /\ inv[p][l] # Empty => inv[p][l].count <= Full(inv[p][l].item)
  BY <1>2, StackTypes DEF Inventories
<1>4. stack.item = items[a][s].item /\ stack.count >= n
  BY TradeAssumption DEF OneSide
<1>5. stack \in Stacks /\ stack.count \in Nat
  BY <1>1, <1>3
<1>6. /\ stack # Empty /\ stack.item \in Items /\ stack.count <= Full(stack.item)
      /\ n <= stack.count /\ stack = Stack(stack.item, stack.count)
  <2>1. stack # Empty
    BY <1>1, <1>4, <1>5, StackTypes
  <2>2. stack.item \in Items
    BY <1>5, <2>1, StackTypes
  <2>3. stack = Stack(stack.item, stack.count)
    BY <1>5, <2>1 DEF Stacks, Stack
  <2>4. stack.count <= Full(stack.item)
    BY <1>1, <1>3, <2>1
  <2>5. n <= stack.count
    BY <1>1, <1>4, <1>5
  <2> QED BY <2>1, <2>2, <2>3, <2>4, <2>5
<1>7. room = GetNewItemSlot(inv[b], Stack(stack.item, stack.count)) /\ room # NoSlot
  BY <1>6 DEF Room
<1>8. room \in InvSlots /\ (inv[b][room] = Empty \/ inv[b][room].item = stack.item)
  BY <1>2, <1>5, <1>6, <1>7, SlotFound
<1>9. /\ left \in Inventories /\ more \in Inventories
      /\ \A it \in Items :
           /\ CountOf(left, it) = CountOf(inv[a], it) - (IF stack.item = it THEN n ELSE 0)
           /\ CountOf(more, it) = CountOf(inv[b], it) + (IF stack.item = it THEN n ELSE 0)
           /\ CountOf(inv[a], it) \in Nat /\ CountOf(inv[b], it) \in Nat
  <2> DEFINE found == GetNewItemSlot(inv[b], Stack(inv[a][s].item, stack.count))
  <2>1. /\ Taken(inv[a], s, n) \in Inventories /\ Added(inv[b], found, inv[a][s].item, n) \in Inventories
        /\ \A it \in Items :
             /\ CountOf(Taken(inv[a], s, n), it) = CountOf(inv[a], it) - (IF inv[a][s].item = it THEN n ELSE 0)
             /\ CountOf(Added(inv[b], found, inv[a][s].item, n), it)
                  = CountOf(inv[b], it) + (IF inv[a][s].item = it THEN n ELSE 0)
             /\ CountOf(inv[a], it) \in Nat /\ CountOf(inv[b], it) \in Nat
    BY <1>1, <1>2, <1>5, <1>6, <1>7, GoodsMoved
  <2>2. found = room
    BY <1>7
  <2> HIDE DEF found
  <2> QED BY <2>1, <2>2
<1>10. after = [inv EXCEPT ![a] = left, ![b] = more]
  BY <1>2 DEF Given
<1>11. after[a] = left /\ after[b] = more /\ \A q \in Players \ {a, b} : after[q] = inv[q]
  <2> HIDE DEF left, more, after
  <2> QED BY <1>2, <1>10
<1>12. after \in [Players -> Inventories]
  <2> HIDE DEF left, more, after
  <2> QED BY <1>2, <1>9, <1>10
<1>13. \A it \in Items : CountOf(items[a], it) \in Nat /\ CountOf(items[b], it) \in Nat
  <2>1. items[a] \in Inventories /\ items[b] \in Inventories
    BY Types DEF MarketTypeOK
  <2> QED BY <2>1, InventoryCounts
<1>14. Between(after, a, b)
  <2>1. \A q \in Players \ {a, b} : after[q] = items[q]
    BY <1>11 DEF Between
  <2>2. ASSUME NEW it \in Items
        PROVE  CountOf(after[a], it) + CountOf(after[b], it) = CountOf(items[a], it) + CountOf(items[b], it)
    <3>1. CountOf(inv[a], it) + CountOf(inv[b], it) = CountOf(items[a], it) + CountOf(items[b], it)
      BY DEF Between
    <3> HIDE DEF left, more, after
    <3>2. CountOf(after[a], it) = CountOf(inv[a], it) - (IF stack.item = it THEN n ELSE 0)
      BY <1>9, <1>11
    <3>3. CountOf(after[b], it) = CountOf(inv[b], it) + (IF stack.item = it THEN n ELSE 0)
      BY <1>9, <1>11
    <3> HIDE DEF stack, n
    <3> QED BY <1>1, <1>9, <3>1, <3>2, <3>3
  <2> HIDE DEF after
  <2> QED BY <1>12, <2>1, <2>2 DEF Between
<1>15. OneSide(after, a, k + 1)
  <2>1. ASSUME NEW j \in 1..MaxOffers, j > k + 1, offer[a][j].count > 0
        PROVE  after[a][offer[a][j].slot] = inv[a][offer[a][j].slot]
    <3>1. j \in (k + 1) + 1..MaxOffers
      BY <2>1, TradeAssumption
    <3>2. s # offer[a][j].slot
      BY <1>1, <3>1 DEF Covered
    <3>3. offer[a][j].slot \in InvSlots /\ inv[a] \in [InvSlots -> Stacks]
      BY <1>2, <2>1, OfferTypes DEF Inventories
    <3> HIDE DEF s, n, after
    <3> QED BY <1>11, <3>2, <3>3 DEF Taken
  <2>2. ASSUME NEW it \in Items
        PROVE  CountOf(items[a], it) - CountOf(after[a], it) <= PartSum(a, k + 1, it)
    <3> DEFINE F == Part(a, k, it)
               G == Part(a, k + 1, it)
               some == IF stack.item = it THEN n ELSE 0
    <3>1. \A j \in 1..MaxOffers : F[j] \in Int /\ G[j] \in Int
      BY PartTypes
    <3>2. \A j \in 1..MaxOffers \ {k + 1} : F[j] = G[j]
      <4> SUFFICES ASSUME NEW j \in 1..MaxOffers, j # k + 1 PROVE F[j] = G[j]
        OBVIOUS
      <4>1. j \in Nat /\ (j <= k <=> j <= k + 1)
        BY TradeAssumption
      <4> QED BY <4>1 DEF Part
    <3>3. F[k + 1] = 0 /\ G[k + 1] = some
      <4>1. ~ (k + 1 <= k) /\ k + 1 <= k + 1
        OBVIOUS
      <4> QED BY <1>4, <4>1 DEF Part
    <3>4. IsFiniteSet(1..MaxOffers) /\ PartSum(a, k, it) \in Nat
      BY PartTypes
    <3> HIDE DEF F, G
    <3>5. SumFunctionOnSet(G, 1..MaxOffers) = SumFunctionOnSet(F, 1..MaxOffers) + (G[k + 1] - F[k + 1])
      <4> DEFINE e      == k + 1
                 places == 1..MaxOffers
      <4>1. e \in places /\ IsFiniteSet(places)
        BY <3>4
      <4>2. \A j \in places \ {e} : F[j] = G[j]
        BY <3>2
      <4>3. \A j \in places : F[j] \in Int /\ G[j] \in Int
        BY <3>1
      <4> HIDE DEF e, places
      <4>4. SumFunctionOnSet(G, places) = SumFunctionOnSet(F, places) + (G[e] - F[e])
        BY <4>1, <4>2, <4>3, SumChanged
      <4> QED BY <4>4 DEF e, places
    <3>6. some \in Nat
      BY <1>1
    <3>7. PartSum(a, k + 1, it) = PartSum(a, k, it) + some
      <4>1. PartSum(a, k + 1, it) = PartSum(a, k, it) + (G[k + 1] - F[k + 1])
        BY <3>5 DEF PartSum, F, G
      <4> HIDE DEF some
      <4> QED BY <3>3, <3>4, <3>6, <4>1
    <3>8. CountOf(after[a], it) = CountOf(inv[a], it) - some
      <4> HIDE DEF after, left
      <4> QED BY <1>9, <1>11
    <3>9. CountOf(items[a], it) - CountOf(inv[a], it) <= PartSum(a, k, it)
      BY DEF OneSide
    <3>10. CountOf(items[a], it) \in Nat /\ CountOf(inv[a], it) \in Nat
      BY <1>9, <1>13
    <3> HIDE DEF some, after
    <3> QED BY <3>4, <3>6, <3>7, <3>8, <3>9, <3>10
  <2>3. ASSUME NEW j \in 1..MaxOffers, j > k + 1, offer[a][j].count > 0
        PROVE  /\ after[a][offer[a][j].slot].item = items[a][offer[a][j].slot].item
               /\ after[a][offer[a][j].slot].count >= offer[a][j].count
    <3>1. j > k
      BY <2>3, TradeAssumption
    <3> HIDE DEF after
    <3> QED BY <2>1, <2>3, <3>1 DEF OneSide
  <2> HIDE DEF after
  <2> QED BY <2>2, <2>3 DEF OneSide
<1>16. OneSide(after, b, m)
  <2>1. ASSUME NEW j \in 1..MaxOffers, j > m, offer[b][j].count > 0
        PROVE  LET l == offer[b][j].slot IN
               after[b][l].item = inv[b][l].item /\ after[b][l].count >= inv[b][l].count /\ inv[b][l].count \in Nat
    <3> DEFINE l == offer[b][j].slot
    <3>1. l \in InvSlots /\ offer[b][j].count \in Nat \ {0}
      BY <2>1, OfferTypes
    <3>2. inv[b][l].count >= offer[b][j].count /\ inv[b][l].count \in Nat /\ inv[b] \in [InvSlots -> Stacks]
      BY <1>2, <1>3, <2>1, <3>1 DEF OneSide, Inventories
    <3> HIDE DEF l
    <3> DEFINE Others == /\ after[b][l].item = inv[b][l].item
                         /\ after[b][l].count >= inv[b][l].count /\ inv[b][l].count \in Nat
    <3>3. ASSUME l # room PROVE Others
      <4> HIDE DEF room, stack, n, after
      <4>1. after[b][l] = inv[b][l]
        BY <1>11, <3>1, <3>2, <3>3 DEF Added
      <4> QED BY <3>2, <4>1
    <3>4. ASSUME l = room PROVE Others
      <4>1. inv[b][room].item = stack.item
        <5>1. inv[b][l] # Empty
          BY <3>1, <3>2, StackTypes
        <5> QED BY <1>8, <3>4, <5>1
      <4> HIDE DEF room, stack, n, after
      <4>2. after[b][l] = Stack(stack.item, inv[b][l].count + n)
        BY <1>11, <3>1, <3>2, <3>4 DEF Added
      <4>3. after[b][l].item = stack.item /\ after[b][l].count = inv[b][l].count + n
        BY <4>2 DEF Stack
      <4> QED BY <1>1, <3>2, <3>4, <4>1, <4>3
    <3> QED BY <3>2, <3>3, <3>4 DEF l
  <2>2. ASSUME NEW it \in Items
        PROVE  CountOf(items[b], it) - CountOf(after[b], it) <= PartSum(b, m, it)
    <3> DEFINE some == IF stack.item = it THEN n ELSE 0
    <3>1. CountOf(items[b], it) - CountOf(inv[b], it) <= PartSum(b, m, it)
      BY DEF OneSide
    <3>2. CountOf(after[b], it) = CountOf(inv[b], it) + some
      <4> HIDE DEF after, more
      <4> QED BY <1>9, <1>11
    <3>3. some \in Nat /\ PartSum(b, m, it) \in Nat /\ CountOf(items[b], it) \in Nat /\ CountOf(inv[b], it) \in Nat
      BY <1>1, <1>9, <1>13, PartTypes
    <3> HIDE DEF some, after
    <3> QED BY <3>1, <3>2, <3>3
  <2>3. ASSUME NEW j \in 1..MaxOffers, j > m, offer[b][j].count > 0
        PROVE  /\ after[b][offer[b][j].slot].item = items[b][offer[b][j].slot].item
               /\ after[b][offer[b][j].slot].count >= offer[b][j].count
    <3> HIDE DEF after
    <3>1. /\ inv[b][offer[b][j].slot].item = items[b][offer[b][j].slot].item
          /\ inv[b][offer[b][j].slot].count >= offer[b][j].count
      BY <2>3 DEF OneSide
    <3>2. /\ after[b][offer[b][j].slot].item = inv[b][offer[b][j].slot].item
          /\ after[b][offer[b][j].slot].count >= inv[b][offer[b][j].slot].count
          /\ inv[b][offer[b][j].slot].count \in Nat
      BY <2>1, <2>3
    <3>3. after[b][offer[b][j].slot].count \in Nat /\ offer[b][j].count \in Nat
      <4>1. offer[b][j].slot \in InvSlots /\ offer[b][j].count \in Nat
        BY <2>3, OfferTypes
      <4>2. after[b] \in [InvSlots -> Stacks]
        BY <1>12 DEF Inventories
      <4> QED BY <4>1, <4>2, StackTypes
    <3> QED BY <3>1, <3>2, <3>3
  <2> HIDE DEF after
  <2> QED BY <2>2, <2>3 DEF OneSide
<1> QED BY <1>14, <1>15, <1>16

\* After the first k places of both windows.
Midway(inv, p, o, k) == Between(inv, p, o) /\ OneSide(inv, p, k) /\ OneSide(inv, o, k)

LEMMA BetweenBoth ==
  ASSUME MarketTypeOK, NEW p \in Players, NEW o \in Players, NEW inv, Between(inv, p, o)
  PROVE  Between(inv, o, p)
<1>1. {o, p} = {p, o}
  OBVIOUS
<1>2. ASSUME NEW it \in Items
      PROVE  CountOf(inv[o], it) + CountOf(inv[p], it) = CountOf(items[o], it) + CountOf(items[p], it)
  <2>1. CountOf(inv[p], it) + CountOf(inv[o], it) = CountOf(items[p], it) + CountOf(items[o], it)
    BY DEF Between
  <2>2. /\ inv[p] \in Inventories /\ inv[o] \in Inventories
        /\ items[p] \in Inventories /\ items[o] \in Inventories
    BY Types DEF Between, MarketTypeOK
  <2>3. /\ CountOf(inv[p], it) \in Nat /\ CountOf(inv[o], it) \in Nat
        /\ CountOf(items[p], it) \in Nat /\ CountOf(items[o], it) \in Nat
    BY <2>2, InventoryCounts
  <2> QED BY <2>1, <2>3
<1> QED BY <1>1, <1>2 DEF Between

LEMMA PlaceSwapped ==
  ASSUME MarketTypeOK, NEW p \in Players, NEW o \in Players, p # o, Covered(p), Covered(o),
         NEW inv, NEW k \in Nat, k + 1 \in 1..MaxOffers, Midway(inv, p, o, k)
  PROVE  Midway(Swapped(inv, p, o, k + 1), p, o, k + 1)
<1> DEFINE mine  == offer[p][k + 1].count > 0
           given == IF mine THEN Given(inv, p, o, k + 1) ELSE inv
           after == Swapped(inv, p, o, k + 1)
<1>1. Between(inv, p, o) /\ OneSide(inv, p, k) /\ OneSide(inv, o, k) /\ inv \in [Players -> Inventories]
  BY DEF Midway, Between
<1>2. OneSide(inv, p, k + 1) /\ OneSide(inv, o, k + 1)
  BY <1>1, PlaceLeftOut
<1>3. after = IF mine /\ Room(inv, p, o, k + 1) = NoSlot THEN inv
              ELSE IF offer[o][k + 1].count = 0 \/ Room(given, o, p, k + 1) = NoSlot THEN given
              ELSE Given(given, o, p, k + 1)
  BY DEF Swapped
<1>4. CASE mine /\ Room(inv, p, o, k + 1) = NoSlot
  BY <1>1, <1>2, <1>3, <1>4 DEF Midway
<1>5. CASE ~ (mine /\ Room(inv, p, o, k + 1) = NoSlot)
  <2>1. Between(given, p, o) /\ OneSide(given, p, k + 1) /\ OneSide(given, o, k)
    <3>1. CASE mine
      <4>1. Room(inv, p, o, k + 1) # NoSlot
        BY <1>5, <3>1
      <4>2. LET g == Given(inv, p, o, k + 1)
            IN Between(g, p, o) /\ OneSide(g, p, k + 1) /\ OneSide(g, o, k)
        BY <1>1, <3>1, <4>1, PlaceGiven
      <4> QED BY <3>1, <4>2
    <3>2. CASE ~mine
      BY <1>1, <1>2, <3>2
    <3> QED BY <3>1, <3>2
  <2>2. given \in [Players -> Inventories]
    BY <2>1 DEF Between
  <2>3. OneSide(given, o, k + 1)
    <3> HIDE DEF given
    <3> QED BY <2>1, <2>2, PlaceLeftOut
  <2> HIDE DEF given
  <2>4. CASE offer[o][k + 1].count = 0 \/ Room(given, o, p, k + 1) = NoSlot
    <3>1. after = given
      BY <1>3, <1>5, <2>4
    <3> HIDE DEF after
    <3> QED BY <2>1, <2>3, <3>1 DEF Midway, after
  <2>5. CASE ~ (offer[o][k + 1].count = 0 \/ Room(given, o, p, k + 1) = NoSlot)
    <3>1. offer[o][k + 1].count > 0 /\ Room(given, o, p, k + 1) # NoSlot
      BY <2>5, OfferTypes
    <3>2. Between(given, o, p)
      BY <2>1, BetweenBoth
    <3> DEFINE end == Given(given, o, p, k + 1)
    <3>3. Between(end, o, p) /\ OneSide(end, o, k + 1) /\ OneSide(end, p, k + 1)
      <4>1. o # p /\ k + 1 \in Nat
        OBVIOUS
      <4> QED BY <2>1, <3>1, <3>2, <4>1, PlaceGiven
    <3> HIDE DEF end
    <3>4. Between(end, p, o)
      BY <3>3, BetweenBoth
    <3>5. after = end
      BY <1>3, <1>5, <2>5 DEF end
    <3> HIDE DEF after
    <3> QED BY <3>3, <3>4, <3>5 DEF Midway, after
  <2> QED BY <2>4, <2>5
<1> QED BY <1>4, <1>5

\* How Exchanged goes over the places.
Placewise(g, p, o) ==
  g = [k \in 0..MaxOffers |-> IF k = 0 THEN items ELSE Swapped(g[k - 1], p, o, k)]

LEMMA PlacewiseExists ==
  ASSUME NEW p, NEW o
  PROVE  \E g : Placewise(g, p, o)
<1> DEFINE Value(g, k) == IF k = 0 THEN items ELSE Swapped(g[k - 1], p, o, k)
           T == {n \in Nat : \E g : \A k \in 0..n : g[k] = Value(g, k)}
<1>0. MaxOffers \in Nat
  BY TradeAssumption
<1>1. 0 \in T
  <2> DEFINE g == [k \in {0} |-> items]
  <2>1. \A k \in 0..0 : g[k] = Value(g, k)
    OBVIOUS
  <2> HIDE DEF g
  <2> QED BY <2>1
<1>2. ASSUME NEW n \in T PROVE n + 1 \in T
  <2>1. PICK g : \A k \in 0..n : g[k] = Value(g, k)
    OBVIOUS
  <2> DEFINE h == [k \in 0..(n + 1) |-> IF k = n + 1 THEN Value(g, k) ELSE g[k]]
  <2>2. \A k \in 0..(n + 1) : h[k] = Value(h, k)
    <3> SUFFICES ASSUME NEW k \in 0..(n + 1) PROVE h[k] = Value(h, k)
      OBVIOUS
    <3>1. k # 0 => k - 1 \in 0..n /\ h[k - 1] = g[k - 1]
      OBVIOUS
    <3>2. h[k] = Value(g, k)
      BY <2>1
    <3> HIDE DEF h
    <3> QED BY <3>1, <3>2
  <2> HIDE DEF h
  <2> QED BY <2>2
<1>3. T = Nat
  <2> HIDE DEF T
  <2>1. T \in SUBSET Nat
    BY DEF T
  <2> QED BY <1>1, <1>2, <2>1, Induction
<1>4. PICK g : \A k \in 0..MaxOffers : g[k] = Value(g, k)
  BY <1>0, <1>3
<1> DEFINE h == [k \in 0..MaxOffers |-> g[k]]
<1>5. \A k \in 0..MaxOffers : h[k] = Value(h, k)
  <2> SUFFICES ASSUME NEW k \in 0..MaxOffers PROVE h[k] = Value(h, k)
    OBVIOUS
  <2>1. k # 0 => k - 1 \in 0..MaxOffers /\ h[k - 1] = g[k - 1]
    BY <1>0
  <2>2. h[k] = Value(g, k)
    BY <1>4
  <2> HIDE DEF h
  <2> QED BY <2>1, <2>2
<1>6. h = [k \in 0..MaxOffers |-> Value(h, k)]
  <2>1. h = [k \in 0..MaxOffers |-> h[k]]
    OBVIOUS
  <2> HIDE DEF h
  <2> QED BY <1>5, <2>1
<1> HIDE DEF h
<1> QED BY <1>6 DEF Placewise

\* What a completed trade has moved.
LEMMA ExchangedIsMidway ==
  ASSUME MarketTypeOK, NEW p \in Players, NEW o \in Players, p # o, Covered(p), Covered(o)
  PROVE  Midway(Exchanged(p, o), p, o, MaxOffers)
<1>0. MaxOffers \in Nat /\ items \in [Players -> Inventories]
  BY TradeAssumption, Types DEF MarketTypeOK
<1>1. PICK g : Placewise(g, p, o) /\ Exchanged(p, o) = g[MaxOffers]
  <2>1. \E g : Placewise(g, p, o)
    BY PlacewiseExists
  <2>2. Exchanged(p, o) = (CHOOSE g : Placewise(g, p, o))[MaxOffers]
    BY DEF Exchanged, Placewise
  <2> QED BY <2>1, <2>2
<1> DEFINE T == {n \in Nat : n <= MaxOffers => Midway(g[n], p, o, n)}
<1>2. 0 \in T
  <2>1. g[0] = items
    BY <1>0, <1>1 DEF Placewise
  <2>2. \A a \in {p, o} : OneSide(items, a, 0)
    <3> SUFFICES ASSUME NEW a \in {p, o} PROVE OneSide(items, a, 0)
      OBVIOUS
    <3>1. a \in Players /\ Covered(a)
      OBVIOUS
    <3>2. \A j \in 1..MaxOffers : offer[a][j].count > 0 => items[a][offer[a][j].slot].count >= offer[a][j].count
      BY <3>1 DEF Covered
    <3>3. ASSUME NEW it \in Items PROVE CountOf(items[a], it) - CountOf(items[a], it) <= PartSum(a, 0, it)
      <4>1. CountOf(items[a], it) \in Nat
        BY <1>0, <3>1, InventoryCounts
      <4>2. PartSum(a, 0, it) \in Nat
        BY <3>1, PartTypes
      <4> QED BY <4>1, <4>2
    <3> QED BY <3>2, <3>3 DEF OneSide
  <2>3. Between(items, p, o)
    BY <1>0 DEF Between
  <2>4. Midway(g[0], p, o, 0)
    BY <2>1, <2>2, <2>3 DEF Midway
  <2> QED BY <2>4
<1>3. ASSUME NEW n \in T PROVE n + 1 \in T
  <2> SUFFICES ASSUME n + 1 <= MaxOffers PROVE Midway(g[n + 1], p, o, n + 1)
    OBVIOUS
  <2>1. n \in Nat /\ Midway(g[n], p, o, n)
    BY <1>0
  <2>2. g[n + 1] = Swapped(g[n], p, o, n + 1)
    <3>1. n + 1 \in 0..MaxOffers /\ n + 1 # 0 /\ (n + 1) - 1 = n
      BY <1>0, <2>1
    <3> QED BY <1>1, <3>1 DEF Placewise
  <2>3. n + 1 \in 1..MaxOffers
    BY <1>0, <2>1
  <2> QED BY <2>1, <2>2, <2>3, PlaceSwapped
<1>4. T = Nat
  <2> HIDE DEF T
  <2>1. T \in SUBSET Nat
    BY DEF T
  <2> QED BY <1>2, <1>3, <2>1, Induction
<1>5. Midway(g[MaxOffers], p, o, MaxOffers)
  <2>1. MaxOffers \in T /\ MaxOffers <= MaxOffers
    BY <1>0, <1>4
  <2> QED BY <2>1
<1> QED BY <1>1, <1>5

-----------------------------------------------------------------------------
(* Trades and shops together *)

\* Completing a trade: who pays and gives what.
LEMMA TradeMoves ==
  ASSUME MarketTypeOK, NEW p \in Players, NEW o \in Players, pakTradeCompletes(p, o)
  PROVE  /\ p # o /\ Midway(items', p, o, MaxOffers)
         /\ zuly'[p] = zuly[p] - zulyOffer[p] + zulyOffer[o]
         /\ zuly'[o] = zuly[o] - zulyOffer[o] + zulyOffer[p]
         /\ \A q \in Players \ {p, o} : zuly'[q] = zuly[q]
         /\ \A q \in Players : zuly[q] \in Nat /\ zulyOffer[q] \in Nat
         /\ zuly' \in [Players -> Nat]
<1>1. p # o /\ Covered(p) /\ Covered(o) /\ items' = Exchanged(p, o)
  BY DEF pakTradeCompletes, Facing
<1>2. Midway(items', p, o, MaxOffers)
  BY <1>1, ExchangedIsMidway
<1>3. zuly \in [Players -> Nat] /\ zulyOffer \in [Players -> Nat]
  BY Types DEF MarketTypeOK, WindowsTypeOK
<1>4. zuly' = [zuly EXCEPT ![p] = zuly[p] - zulyOffer[p] + zulyOffer[o],
                           ![o] = zuly[o] - zulyOffer[o] + zulyOffer[p]]
  BY <1>1, <1>3 DEF pakTradeCompletes
<1>5. /\ zuly[p] - zulyOffer[p] + zulyOffer[o] \in Nat
      /\ zuly[o] - zulyOffer[o] + zulyOffer[p] \in Nat
  <2>1. zulyOffer[p] <= zuly[p] /\ zulyOffer[o] <= zuly[o]
    BY <1>1 DEF Covered
  <2> QED BY <1>3, <2>1
<1> QED BY <1>1, <1>2, <1>3, <1>4, <1>5

LEMMA MarketKeepsTypes ==
  ASSUME MarketTypeOK, [MarketNext]_marketVars
  PROVE  MarketTypeOK'
<1>0. TypeOK /\ WindowsTypeOK /\ MaxOffers \in Nat
  BY TradeAssumption DEF MarketTypeOK
<1>1. ASSUME UNCHANGED vars PROVE TypeOK'
  BY <1>0, <1>1, ShopKeepsTypes
<1>2. ASSUME UNCHANGED tradeVars PROVE WindowsTypeOK'
  BY <1>0, <1>2 DEF tradeVars, WindowsTypeOK
<1>3. NoOffer \in Offers /\ NoOffers \in [1..MaxOffers -> Offers] /\ BotGift \in Nat
  <2>1. NoOffer \in Offers
    BY Counts DEF NoOffer, Offers
  <2> QED BY <2>1, TradeAssumption DEF NoOffers
<1>4. ASSUME NEW p \in Players, NEW o \in Players,
             \/ pakTradeBlocked(p, o) \/ pakTradeRequest(p, o) \/ pakTradeAccept(p, o)
             \/ pakTradeCancel(p, o) \/ pakTradeLock(p, o) \/ pakTradeConfirm(p, o)
             \/ pakTradeFails(p, o)
      PROVE  MarketTypeOK'
  <2>1. TypeOK'
    <3>1. UNCHANGED vars
      BY <1>4 DEF pakTradeBlocked, pakTradeRequest, pakTradeAccept, pakTradeCancel, pakTradeLock,
                  pakTradeConfirm, pakTradeFails
    <3> QED BY <1>1, <3>1
  <2>2. target' \in [Players -> Players \cup {NoTarget}]
    BY <1>0, <1>4 DEF pakTradeBlocked, pakTradeRequest, pakTradeAccept, pakTradeCancel, pakTradeLock,
                      pakTradeConfirm, pakTradeFails, Facing, WindowsTypeOK
  <2>3. status' \in [Players -> Statuses]
    BY <1>0, <1>4 DEF pakTradeBlocked, pakTradeRequest, pakTradeAccept, pakTradeCancel, pakTradeLock,
                      pakTradeConfirm, pakTradeFails, Toggled, WindowsTypeOK, Statuses
  <2>4. offer' \in [Players -> [1..MaxOffers -> Offers]] /\ zulyOffer' \in [Players -> Nat]
    <3>0. offer \in [Players -> [1..MaxOffers -> Offers]] /\ zulyOffer \in [Players -> Nat]
      BY <1>0 DEF WindowsTypeOK
    <3>1. CASE pakTradeBlocked(p, o) \/ pakTradeCancel(p, o) \/ pakTradeLock(p, o)
               \/ pakTradeConfirm(p, o) \/ pakTradeFails(p, o)
      <4>1. UNCHANGED <<offer, zulyOffer>>
        BY <3>1 DEF pakTradeBlocked, pakTradeCancel, pakTradeLock, pakTradeConfirm, pakTradeFails
      <4> QED BY <3>0, <4>1
    <3>2. CASE pakTradeRequest(p, o) \/ pakTradeAccept(p, o)
      <4>1. \/ UNCHANGED <<offer, zulyOffer>>
            \/ /\ offer' = [offer EXCEPT ![p] = NoOffers, ![o] = NoOffers]
               /\ zulyOffer' = [zulyOffer EXCEPT ![p] = 0, ![o] = BotGift]
            \/ /\ offer' = [offer EXCEPT ![p] = NoOffers, ![o] = NoOffers]
               /\ zulyOffer' = [zulyOffer EXCEPT ![p] = 0, ![o] = 0]
        BY <3>2 DEF pakTradeRequest, pakTradeAccept
      <4> DEFINE Windows == [1..MaxOffers -> Offers]
      <4>2. NoOffers \in Windows /\ offer \in [Players -> Windows]
        BY <1>3, <3>0
      <4> HIDE DEF Windows
      <4>3. offer' \in [Players -> Windows]
        BY <4>1, <4>2
      <4>4. zulyOffer' \in [Players -> Nat]
        <5>1. BotGift \in Nat /\ zulyOffer \in [Players -> Nat]
          BY <1>3, <3>0
        <5>2. \/ zulyOffer' = zulyOffer
              \/ zulyOffer' = [zulyOffer EXCEPT ![p] = 0, ![o] = BotGift]
              \/ zulyOffer' = [zulyOffer EXCEPT ![p] = 0, ![o] = 0]
          BY <4>1
        <5> QED BY <5>1, <5>2
      <4> QED BY <4>3, <4>4 DEF Windows
    <3> QED BY <1>4, <3>1, <3>2
  <2> QED BY <2>1, <2>2, <2>3, <2>4 DEF MarketTypeOK, WindowsTypeOK
<1>5. ASSUME NEW p \in Players, NEW o \in Players, pakTradeCompletes(p, o)
      PROVE  MarketTypeOK'
  <2>1. items' \in [Players -> Inventories] /\ zuly' \in [Players -> Nat]
    BY <1>5, TradeMoves DEF Midway, Between
  <2>2. UNCHANGED <<open, selling, buying>>
    BY <1>5 DEF pakTradeCompletes
  <2>3. TypeOK'
    BY <1>0, <2>1, <2>2 DEF TypeOK, HoldingsTypeOK
  <2>4. target' \in [Players -> Players \cup {NoTarget}] /\ status' \in [Players -> Statuses]
    BY <1>0, <1>5 DEF pakTradeCompletes, Facing, WindowsTypeOK, Statuses
  <2>5. UNCHANGED <<offer, zulyOffer>>
    BY <1>5 DEF pakTradeCompletes
  <2> QED BY <1>0, <2>3, <2>4, <2>5 DEF MarketTypeOK, WindowsTypeOK
<1>6. ASSUME NEW p \in Players, NEW n \in 0..MaxZuly, pakTradeAddZuly(p, n)
      PROVE  MarketTypeOK'
  <2>1. zulyOffer' \in [Players -> Nat]
    BY <1>0, <1>6, ShopAssumption DEF pakTradeAddZuly, WindowsTypeOK
  <2>2. UNCHANGED vars /\ UNCHANGED <<target, status, offer>>
    BY <1>6 DEF pakTradeAddZuly
  <2>3. TypeOK'
    BY <1>1, <2>2
  <2> QED BY <1>0, <2>1, <2>2, <2>3 DEF MarketTypeOK, WindowsTypeOK
<1>7. ASSUME NEW p \in Players, NEW k \in 1..MaxOffers, NEW slot \in InvSlots, NEW n \in 0..FullStack,
             pakTradeAdd(p, k, slot, n)
      PROVE  MarketTypeOK'
  <2> DEFINE new == IF n = 0 THEN NoOffer ELSE [slot |-> slot, count |-> n]
  <2>1. new \in Offers
    <3>1. slot # NoSlot
      BY SlotNumbers DEF NoSlot
    <3> QED BY <1>3, <3>1 DEF Offers
  <2>2. offer \in [Players -> [1..MaxOffers -> Offers]]
    BY <1>0 DEF WindowsTypeOK
  <2>3. offer' = [offer EXCEPT ![p][k] = new]
    BY <1>7 DEF pakTradeAdd
  <2> HIDE DEF new
  <2>4. offer' \in [Players -> [1..MaxOffers -> Offers]]
    BY <2>1, <2>2, <2>3
  <2>5. UNCHANGED vars /\ UNCHANGED <<target, status, zulyOffer>>
    BY <1>7 DEF pakTradeAdd
  <2>6. TypeOK'
    BY <1>1, <2>5
  <2> QED BY <1>0, <2>4, <2>5, <2>6 DEF MarketTypeOK, WindowsTypeOK
<1>8. ASSUME NEW p \in Players, RestartTrade(p)
      PROVE  MarketTypeOK'
  <2>1. TypeOK'
    <3>1. Next
      BY <1>8 DEF RestartTrade, Next
    <3> QED BY <1>0, <3>1, ShopKeepsTypes
  <2>2. target' \in [Players -> Players \cup {NoTarget}] /\ status' \in [Players -> Statuses]
    BY <1>0, <1>8 DEF RestartTrade, WindowsTypeOK, Statuses
  <2>3. UNCHANGED <<offer, zulyOffer>>
    BY <1>8 DEF RestartTrade
  <2> QED BY <1>0, <2>1, <2>2, <2>3 DEF MarketTypeOK, WindowsTypeOK
<1>9. CASE ShopStep /\ UNCHANGED tradeVars
  <2>1. TypeOK'
    <3>1. Next
      BY <1>9 DEF Next
    <3> QED BY <1>0, <3>1, ShopKeepsTypes
  <2> QED BY <1>2, <1>9, <2>1 DEF MarketTypeOK
<1>10. CASE UNCHANGED marketVars
  <2>1. UNCHANGED vars /\ UNCHANGED tradeVars
    BY <1>10 DEF marketVars
  <2> QED BY <1>1, <1>2, <2>1 DEF MarketTypeOK
<1> QED BY <1>4, <1>5, <1>6, <1>7, <1>8, <1>9, <1>10 DEF MarketNext, TradeStep

\* Trades keep every balance a number, every stack in its slot and every
\* window in order, in any order of the packets.
THEOREM MarketTypeCorrect == MarketSpec => []MarketTypeOK
<1>1. MarketInit => MarketTypeOK
  <2> SUFFICES ASSUME MarketInit PROVE MarketTypeOK
    OBVIOUS
  <2>1. TypeOK
    BY InitTypes DEF MarketInit
  <2>2. NoOffers \in [1..MaxOffers -> Offers]
    BY Counts DEF NoOffers, NoOffer, Offers
  <2>3. WindowsTypeOK
    BY <2>2 DEF MarketInit, WindowsTypeOK, Statuses
  <2> QED BY <2>1, <2>3 DEF MarketTypeOK
<1>2. MarketTypeOK /\ [MarketNext]_marketVars => MarketTypeOK'
  BY MarketKeepsTypes
<1> QED BY <1>1, <1>2, PTL DEF MarketSpec

\* A step of the market is one of the shops, the completion of a trade, or
\* leaves goods and zuly alone.
LEMMA MarketSteps ==
  ASSUME [MarketNext]_marketVars
  PROVE  \/ [Next]_vars
         \/ \E p, o \in Players : pakTradeCompletes(p, o)
<1>1. ASSUME NEW p \in Players, NEW o \in Players,
             \/ pakTradeBlocked(p, o) \/ pakTradeRequest(p, o) \/ pakTradeAccept(p, o)
             \/ pakTradeCancel(p, o) \/ pakTradeLock(p, o) \/ pakTradeConfirm(p, o)
             \/ pakTradeFails(p, o)
      PROVE  UNCHANGED vars
  BY <1>1 DEF pakTradeBlocked, pakTradeRequest, pakTradeAccept, pakTradeCancel, pakTradeLock,
              pakTradeConfirm, pakTradeFails
<1>2. ASSUME NEW p \in Players,
             \/ \E n \in 0..MaxZuly : pakTradeAddZuly(p, n)
             \/ \E k \in 1..MaxOffers, slot \in InvSlots, n \in 0..FullStack : pakTradeAdd(p, k, slot, n)
      PROVE  UNCHANGED vars
  BY <1>2 DEF pakTradeAddZuly, pakTradeAdd
<1>3. ASSUME NEW p \in Players, RestartTrade(p) PROVE Next
  BY <1>3 DEF RestartTrade, Next
<1>4. ASSUME ShopStep PROVE Next
  BY <1>4 DEF Next
<1>5. ASSUME UNCHANGED marketVars PROVE UNCHANGED vars
  BY <1>5 DEF marketVars
<1> QED BY <1>1, <1>2, <1>3, <1>4, <1>5 DEF MarketNext, TradeStep

LEMMA TradeConserves ==
  ASSUME MarketTypeOK, NEW p \in Players, NEW o \in Players, pakTradeCompletes(p, o)
  PROVE  /\ ZulyHeld(Players)' = ZulyHeld(Players)
         /\ \A it \in Items : CountHeld(Players, it)' = CountHeld(Players, it)
<1>1. /\ p # o /\ Midway(items', p, o, MaxOffers)
      /\ zuly'[p] = zuly[p] - zulyOffer[p] + zulyOffer[o]
      /\ zuly'[o] = zuly[o] - zulyOffer[o] + zulyOffer[p]
      /\ \A q \in Players \ {p, o} : zuly'[q] = zuly[q]
      /\ \A q \in Players : zuly[q] \in Nat /\ zulyOffer[q] \in Nat
      /\ zuly' \in [Players -> Nat]
  BY TradeMoves
<1>2. items \in [Players -> Inventories] /\ zuly \in [Players -> Nat]
  BY Types DEF MarketTypeOK
<1>3. ZulyHeld(Players)' = ZulyHeld(Players)
  <2>1. zuly'[p] + zuly'[o] = zuly[p] + zuly[o]
    BY <1>1
  <2> QED BY <1>1, <1>2, <2>1, ZulyPassed
<1>4. ASSUME NEW it \in Items PROVE CountHeld(Players, it)' = CountHeld(Players, it)
  <2>1. /\ items' \in [Players -> Inventories]
        /\ \A q \in Players \ {p, o} : items'[q] = items[q]
        /\ CountOf(items'[p], it) + CountOf(items'[o], it) = CountOf(items[p], it) + CountOf(items[o], it)
    BY <1>1 DEF Midway, Between
  <2>2. ASSUME NEW after \in [Players -> Inventories], \A q \in Players \ {p, o} : after[q] = items[q],
               CountOf(after[p], it) + CountOf(after[o], it) = CountOf(items[p], it) + CountOf(items[o], it)
        PROVE  HeldIn(after, it) = HeldIn(items, it)
    <3>1. p # o
      BY <1>1
    <3> QED BY <1>2, <2>2, <3>1, GoodsPassed
  <2>3. HeldIn(items', it) = HeldIn(items, it)
    BY ONLY <2>1, <2>2, Zenon
  <2> QED BY <2>3 DEF CountHeld, HeldIn
<1> QED BY <1>3, <1>4

\* Neither trades nor shops make or lose zuly or goods, although they move
\* them under each other's feet.
THEOREM MarketConservesWealth == MarketSpec => WealthConserved
<1>1. MarketTypeOK /\ [MarketNext]_marketVars =>
        [zuly' # zuly => \/ ZulyHeld(Players)' = ZulyHeld(Players)
                         \/ \E b \in Players : PopulateVendingBuyList(b)]_vars
  BY MarketSteps, TradeConserves, ShopMovesZuly DEF MarketTypeOK
<1>2. MarketTypeOK /\ [MarketNext]_marketVars =>
        [items' # items =>
           \/ \A it \in Items : CountHeld(Players, it)' = CountHeld(Players, it)
           \/ \E p \in Players, b \in VendingBots, i \in 1..MaxSells, n \in 1..FullStack :
                pakBuyShop(p, b, i, n)
           \/ \E b, v \in Players : CheckPlayerShops(b, v)]_vars
  BY MarketSteps, TradeConserves, ShopMovesGoods DEF MarketTypeOK
<1> QED BY <1>1, <1>2, MarketTypeCorrect, PTL DEF MarketSpec, WealthConserved, ZulyConserved, GoodsConserved

\* A trade takes from a player no more zuly and no more of any item than lies
\* in its window, wherever the offered slots' contents come from by then.
THEOREM OnlyTheOfferedLeaves == MarketSpec => OnlyOfferedLeaves
<1>1. ASSUME MarketTypeOK, NEW p \in Players, NEW o \in Players, pakTradeCompletes(p, o), NEW q \in Players
      PROVE  /\ zuly[q] - zuly'[q] <= (IF q \in {p, o} THEN zulyOffer[q] ELSE 0)
             /\ \A it \in Items : CountOf(items[q], it) - CountOf(items'[q], it)
                                    <= (IF q \in {p, o} THEN Offered(q, it) ELSE 0)
  <2>1. /\ p # o /\ Midway(items', p, o, MaxOffers)
        /\ zuly'[p] = zuly[p] - zulyOffer[p] + zulyOffer[o]
        /\ zuly'[o] = zuly[o] - zulyOffer[o] + zulyOffer[p]
        /\ \A r \in Players \ {p, o} : zuly'[r] = zuly[r]
        /\ \A r \in Players : zuly[r] \in Nat /\ zulyOffer[r] \in Nat
    BY <1>1, TradeMoves
  <2>2. zuly[q] - zuly'[q] <= (IF q \in {p, o} THEN zulyOffer[q] ELSE 0)
    <3>1. CASE q = p
      BY <2>1, <3>1
    <3>2. CASE q = o
      BY <2>1, <3>2
    <3>3. CASE q \notin {p, o}
      BY <2>1, <3>3
    <3> QED BY <3>1, <3>2, <3>3
  <2>3. ASSUME NEW it \in Items
        PROVE  CountOf(items[q], it) - CountOf(items'[q], it) <= (IF q \in {p, o} THEN Offered(q, it) ELSE 0)
    <3>1. CASE q \in {p, o}
      <4>1. OneSide(items', q, MaxOffers)
        BY <2>1, <3>1 DEF Midway
      <4>2. CountOf(items[q], it) - CountOf(items'[q], it) <= PartSum(q, MaxOffers, it)
        BY <4>1 DEF OneSide
      <4>3. PartSum(q, MaxOffers, it) = Offered(q, it)
        <5> DEFINE F == [k \in 1..MaxOffers |->
                           IF offer[q][k].count > 0 /\ items[q][offer[q][k].slot].item = it
                           THEN offer[q][k].count ELSE 0]
        <5>1. \A k \in 1..MaxOffers : k <= MaxOffers
          BY TradeAssumption
        <5>2. Part(q, MaxOffers, it) = F
          BY <5>1 DEF Part
        <5>3. SumFunction(F) = SumFunctionOnSet(F, 1..MaxOffers)
          BY DEF SumFunction
        <5> QED BY <5>2, <5>3 DEF PartSum, Offered
      <4> QED BY <3>1, <4>2, <4>3
    <3>2. CASE q \notin {p, o}
      <4>1. items'[q] = items[q]
        BY <2>1, <3>2 DEF Midway, Between
      <4>2. CountOf(items[q], it) \in Nat
        <5>1. items[q] \in Inventories
          BY <1>1, Types DEF MarketTypeOK
        <5> QED BY <5>1, InventoryCounts
      <4> QED BY <3>2, <4>1, <4>2
    <3> QED BY <3>1, <3>2
  <2> QED BY <2>2, <2>3
<1>2. MarketTypeOK /\ [MarketNext]_marketVars =>
        [\A p, o \in Players : pakTradeCompletes(p, o) =>
           \A q \in Players :
             /\ zuly[q] - zuly'[q] <= (IF q \in {p, o} THEN zulyOffer[q] ELSE 0)
             /\ \A it \in Items : CountOf(items[q], it) - CountOf(items'[q], it)
                                    <= (IF q \in {p, o} THEN Offered(q, it) ELSE 0)]_marketVars
  BY <1>1
<1> QED BY <1>2, MarketTypeCorrect, PTL DEF MarketSpec, OnlyOfferedLeaves

-----------------------------------------------------------------------------
(* The storage of an account *)

LEMMA StorageSlotFound ==
  ASSUME NEW st \in Storages, NEW it \in Items, NEW n \in Nat,
         GetNewStorageItemSlot(st, Stack(it, n)) # NoSlot
  PROVE  LET s == GetNewStorageItemSlot(st, Stack(it, n)) IN
         /\ s \in StorageSlots
         /\ \/ st[s] = Empty
            \/ it \in Stackables /\ st[s].item = it /\ st[s].count + n < FullStack
<1> DEFINE joins == {s \in StorageSlots : /\ it \in Joining
                                          /\ st[s].item = it
                                          /\ st[s].count + n < FullStack}
           empty == {s \in StorageSlots : st[s] = Empty}
           found == GetNewStorageItemSlot(st, Stack(it, n))
<1>1. /\ found = CASE joins # {} -> Min(joins)
                   [] joins = {} /\ empty # {} -> Min(empty)
                   [] OTHER -> NoSlot
  BY DEF GetNewStorageItemSlot, Stack
<1>2. joins \in SUBSET Nat /\ empty \in SUBSET Nat
  BY StorageAssumption
<1> HIDE DEF joins, empty, found
<1>3. CASE joins # {}
  <2>1. found \in joins
    BY <1>1, <1>2, <1>3, MinOfNaturals
  <2> QED BY <2>1, StorageAssumption DEF joins, found
<1>4. CASE joins = {} /\ empty # {}
  <2>1. found \in empty
    BY <1>1, <1>2, <1>4, MinOfNaturals
  <2> QED BY <2>1 DEF empty, found
<1>5. CASE joins = {} /\ empty = {}
  BY <1>1, <1>5 DEF found
<1> QED BY <1>3, <1>4, <1>5

\* A storage stays a storage when a slot gets a stack that fits, or none.
LEMMA StoragePut ==
  ASSUME NEW st \in Storages, NEW s \in StorageSlots, NEW new \in Stacks,
         new # Empty => new.count <= Full(new.item)
  PROVE  [st EXCEPT ![s] = new] \in Storages
BY DEF Storages

LEMMA StorageTaken ==
  ASSUME NEW st \in Storages, NEW s \in StorageSlots, NEW n \in Nat
  PROVE  Taken(st, s, n) \in Storages
<1> DEFINE left == IF st[s].count <= n THEN Empty ELSE Stack(st[s].item, st[s].count - n)
<1>1. st \in [StorageSlots -> Stacks] /\ Taken(st, s, n) = [st EXCEPT ![s] = left]
  BY DEF Taken, Storages
<1>2. left \in Stacks /\ (left # Empty => left.count <= Full(left.item))
  <2>1. CASE st[s].count <= n
    BY <2>1, StackTypes
  <2>2. CASE ~ (st[s].count <= n)
    <3>1. st[s] \in Stacks /\ st[s] # Empty
      BY <1>1, <2>2, StackTypes
    <3>2. st[s].item \in Items /\ st[s].count \in Nat \ {0} /\ st[s].count <= Full(st[s].item)
      BY <3>1, StackTypes DEF Storages
    <3>3. st[s].count - n \in Nat \ {0} /\ st[s].count - n <= st[s].count
      BY <2>2, <3>2
    <3> QED BY <2>2, <3>2, <3>3, StackTypes
  <2> QED BY <2>1, <2>2
<1> HIDE DEF left
<1>3. [st EXCEPT ![s] = left] \in Storages
  BY <1>2, StoragePut
<1> QED BY <1>1, <1>3

LEMMA StorageAdded ==
  ASSUME NEW st \in Storages, NEW it \in Items, NEW n \in Nat \ {0}, n <= Full(it),
         GetNewStorageItemSlot(st, Stack(it, n)) # NoSlot
  PROVE  Added(st, GetNewStorageItemSlot(st, Stack(it, n)), it, n) \in Storages
<1> DEFINE s == GetNewStorageItemSlot(st, Stack(it, n))
<1>1. /\ s \in StorageSlots
      /\ \/ st[s] = Empty
         \/ it \in Stackables /\ st[s].item = it /\ st[s].count + n < FullStack
  BY StorageSlotFound
<1>2. st \in [StorageSlots -> Stacks]
  BY DEF Storages
<1> HIDE DEF s
<1>3. st[s].count \in Nat
  BY <1>1, <1>2, StackTypes
<1>4. st[s].count + n \in Nat \ {0} /\ st[s].count + n <= Full(it)
  BY <1>1, <1>3, StackTypes DEF Full
<1>5. Added(st, s, it, n) = [st EXCEPT ![s] = Stack(it, st[s].count + n)]
  BY <1>1, <1>2 DEF Added
<1>6. /\ Stack(it, st[s].count + n) \in Stacks
      /\ Stack(it, st[s].count + n).count <= Full(Stack(it, st[s].count + n).item)
  BY <1>4, StackTypes
<1>7. [st EXCEPT ![s] = Stack(it, st[s].count + n)] \in Storages
  BY <1>1, <1>6, StoragePut
<1> QED BY <1>5, <1>7 DEF s

\* How much a request moves of a stack that fits.
LEMMA MovedFits ==
  ASSUME NEW stack \in Stacks, stack # Empty, stack.count <= Full(stack.item), NEW n \in Nat \ {0}
  PROVE  /\ Moved(stack, n) \in Nat \ {0}
         /\ Moved(stack, n) <= stack.count /\ Moved(stack, n) <= Full(stack.item)
         /\ Charge(stack, n) \in Nat
<1>1. stack.item \in Items /\ stack.count \in Nat \ {0}
  BY StackTypes
<1>2. Fee[stack.item] \in Nat
  BY <1>1, StorageAssumption
<1>3. n * Fee[stack.item] \in Nat
  BY <1>2
<1> QED BY <1>1, <1>2, <1>3 DEF Moved, Charge, Full

LEMMA FullStackTypes == FullStack \in Nat /\ 1..FullStack \subseteq Nat \ {0}
OBVIOUS

\* What GetSlotStorage reads is a stack that fits.
LEMMA SlotRead ==
  ASSUME StorageTypeOK, NEW p \in Players, NEW s \in StorageSlots
  PROVE  LET stack == GetSlotStorage(p, s) IN
         stack \in Stacks /\ (stack # Empty => stack.count <= Full(stack.item))
<1>1. storage[p] \in Storages /\ savedStorage[p] \in Storages
  BY DEF StorageTypeOK
<1> QED BY <1>1 DEF GetSlotStorage, Storages

\* The parts of a deposit that need a lemma.
LEMMA DepositTypes ==
  ASSUME StorageTypeOK, NEW p \in Players, NEW s \in InvSlots, NEW n \in 1..FullStack, Deposit(p, s, n)
  PROVE  /\ items' \in [Players -> Inventories] /\ zuly' \in [Players -> Nat]
         /\ storage' \in [Players -> Storages] /\ writes' \in Seq(Statements)
<1> DEFINE stack == items[p][s]
           moved == Moved(stack, n)
           room  == GetNewStorageItemSlot(storage[p], Stack(stack.item, moved))
<1>1. n \in Nat \ {0}
  BY FullStackTypes
<1>2. /\ items \in [Players -> Inventories] /\ zuly \in [Players -> Nat]
      /\ storage \in [Players -> Storages]
  BY DEF StorageTypeOK, HoldingsTypeOK
<1>3. stack \in Stacks /\ stack # Empty /\ stack.count <= Full(stack.item)
  BY <1>2 DEF Deposit, Inventories
<1>4. stack.item \in Items
  BY <1>3, StackTypes
<1>5. moved \in Nat \ {0} /\ moved <= Full(stack.item) /\ Charge(stack, n) \in Nat
  BY <1>1, <1>3, MovedFits
<1>6. Stack(stack.item, moved).count = moved /\ Stack(stack.item, moved).item = stack.item
  BY <1>4, <1>5, StackTypes
<1>7. /\ Charge(stack, n) <= zuly[p] /\ room # NoSlot
      /\ items' = [items EXCEPT ![p] = Taken(items[p], s, moved)]
      /\ zuly' = [zuly EXCEPT ![p] = zuly[p] - Charge(stack, n)]
      /\ storage' = [storage EXCEPT ![p] = Added(storage[p], room, stack.item, moved)]
      /\ writes' = <<Write(p, "storage", room), Write(p, "items", s)>>
  BY <1>2, <1>6 DEF Deposit
<1>8. Taken(items[p], s, moved) \in Inventories
  BY <1>2, <1>5, TakenFits
<1>9. Added(storage[p], room, stack.item, moved) \in Storages /\ room \in StorageSlots
  BY <1>2, <1>4, <1>5, <1>7, StorageAdded, StorageSlotFound
<1> HIDE DEF stack, moved, room
<1>10. items' \in [Players -> Inventories] /\ storage' \in [Players -> Storages]
  BY <1>2, <1>7, <1>8, <1>9
<1>11. zuly[p] - Charge(stack, n) \in Nat
  BY <1>2, <1>5, <1>7
<1>12. zuly' \in [Players -> Nat]
  BY <1>2, <1>7, <1>11
<1>13. writes' \in Seq(Statements)
  BY <1>7, <1>9 DEF Statements, Write
<1> QED BY <1>10, <1>12, <1>13

\* The parts of a withdrawal that need a lemma.
LEMMA WithdrawTypes ==
  ASSUME StorageTypeOK, NEW p \in Players, NEW s \in StorageSlots, NEW n \in 1..FullStack,
         Withdraw(p, s, n)
  PROVE  /\ items' \in [Players -> Inventories] /\ storage' \in [Players -> Storages]
         /\ writes' \in Seq(Statements)
<1> DEFINE stack == GetSlotStorage(p, s)
           moved == Moved(stack, n)
           room  == GetNewItemSlot(items[p], Stack(stack.item, moved))
           fresh == [storage[p] EXCEPT ![s] = stack]
<1>1. n \in Nat \ {0}
  BY FullStackTypes
<1>2. items \in [Players -> Inventories] /\ storage \in [Players -> Storages]
  BY DEF StorageTypeOK, HoldingsTypeOK
<1>3. stack \in Stacks /\ stack # Empty /\ stack.count <= Full(stack.item)
  BY SlotRead DEF Withdraw
<1>4. stack.item \in Items
  BY <1>3, StackTypes
<1>5. moved \in Nat \ {0} /\ moved <= Full(stack.item)
  BY <1>1, <1>3, MovedFits
<1>6. Stack(stack.item, moved).count = moved /\ Stack(stack.item, moved).item = stack.item
  BY <1>4, <1>5, StackTypes
<1>7. /\ room # NoSlot
      /\ items' = [items EXCEPT ![p] = Added(items[p], room, stack.item, moved)]
      /\ storage' = [storage EXCEPT ![p] = Taken(fresh, s, moved)]
      /\ writes' = <<Write(p, "storage", s), Write(p, "items", room)>>
  BY <1>2, <1>6 DEF Withdraw
<1>8. fresh \in Storages
  BY <1>2, <1>3, StoragePut
<1>9. Taken(fresh, s, moved) \in Storages
  BY <1>5, <1>8, StorageTaken
<1>10. moved <= moved /\ moved \in Nat
  BY <1>5
<1>11. Added(items[p], room, stack.item, moved) \in Inventories
  BY <1>2, <1>4, <1>5, <1>7, <1>10, AddedFits
<1>12. room \in InvSlots
  BY <1>2, <1>4, <1>7, <1>10, SlotFound
<1> HIDE DEF stack, moved, room, fresh
<1>13. items' \in [Players -> Inventories] /\ storage' \in [Players -> Storages]
  BY <1>2, <1>7, <1>9, <1>11
<1>14. writes' \in Seq(Statements)
  BY <1>7, <1>12 DEF Statements, Write
<1> QED BY <1>13, <1>14

\* The parts of a write that need a lemma.
LEMMA SaveTypes ==
  ASSUME StorageTypeOK, Save
  PROVE  /\ savedItems' \in [Players -> Inventories] /\ savedStorage' \in [Players -> Storages]
         /\ savedBank' \in [Players -> Nat] /\ writes' \in Seq(Statements)
<1> DEFINE w == Head(writes)
<1>1. w \in Statements /\ Tail(writes) \in Seq(Statements)
  BY HeadTailProperties DEF StorageTypeOK, Save
<1>2. /\ items \in [Players -> Inventories] /\ savedItems \in [Players -> Inventories]
      /\ storage \in [Players -> Storages] /\ savedStorage \in [Players -> Storages]
      /\ bank \in [Players -> Nat] /\ savedBank \in [Players -> Nat]
  BY DEF StorageTypeOK, HoldingsTypeOK
<1>3. /\ savedStorage' = IF w.table = "storage"
                         THEN [savedStorage EXCEPT ![w.p][w.slot] = storage[w.p][w.slot]]
                         ELSE savedStorage
      /\ savedItems' = IF w.table = "items"
                       THEN [savedItems EXCEPT ![w.p][w.slot] = items[w.p][w.slot]]
                       ELSE savedItems
      /\ savedBank' = IF w.table = "bank" THEN [savedBank EXCEPT ![w.p] = bank[w.p]]
                      ELSE savedBank
      /\ writes' = Tail(writes)
  BY DEF Save
<1> HIDE DEF w
<1>4. w.p \in Players
  BY <1>1 DEF Statements
<1>5. savedStorage' \in [Players -> Storages]
  <2>1. CASE w.table = "storage"
    <3>1. w.slot \in StorageSlots
      BY <1>1, <2>1 DEF Statements
    <3>2. storage[w.p] \in Storages /\ savedStorage[w.p] \in Storages
      BY <1>2, <1>4
    <3>3. /\ storage[w.p][w.slot] \in Stacks
          /\ storage[w.p][w.slot] # Empty =>
               storage[w.p][w.slot].count <= Full(storage[w.p][w.slot].item)
      BY <3>1, <3>2 DEF Storages
    <3>4. [savedStorage[w.p] EXCEPT ![w.slot] = storage[w.p][w.slot]] \in Storages
      BY <3>1, <3>2, <3>3, StoragePut
    <3>5. savedStorage' = [savedStorage EXCEPT ![w.p] =
                             [savedStorage[w.p] EXCEPT ![w.slot] = storage[w.p][w.slot]]]
      BY <1>2, <1>3, <1>4, <2>1
    <3> QED BY <1>2, <3>4, <3>5
  <2> QED BY <1>2, <1>3, <2>1
<1>6. savedItems' \in [Players -> Inventories]
  <2>1. CASE w.table = "items"
    <3>1. w.slot \in InvSlots
      BY <1>1, <2>1 DEF Statements
    <3>2. items[w.p] \in Inventories /\ savedItems[w.p] \in Inventories
      BY <1>2, <1>4
    <3>3. [savedItems[w.p] EXCEPT ![w.slot] = items[w.p][w.slot]] \in Inventories
      BY <3>1, <3>2 DEF Inventories
    <3>4. savedItems' = [savedItems EXCEPT ![w.p] =
                           [savedItems[w.p] EXCEPT ![w.slot] = items[w.p][w.slot]]]
      BY <1>2, <1>3, <1>4, <2>1
    <3> QED BY <1>2, <3>3, <3>4
  <2> QED BY <1>2, <1>3, <2>1
<1>7. savedBank' \in [Players -> Nat]
  BY <1>2, <1>3, <1>4
<1> QED BY <1>1, <1>3, <1>5, <1>6, <1>7

\* Balances are numbers and stacks fit, in the memory and in the database,
\* whatever is asked for and whenever the server stops.
THEOREM StorageTypeCorrect == StorageSpec => []StorageTypeOK
<1>1. StorageInit => StorageTypeOK
  <2>1. <<>> \in Seq(Statements) /\ 0 \in 0..MaxCrashes
    BY StorageAssumption
  <2> QED BY <2>1, StorageAssumption, StartAssumption DEF StorageInit, StorageTypeOK, HoldingsTypeOK
<1>2. StorageTypeOK /\ [StorageNext]_storagevars => StorageTypeOK'
  <2> SUFFICES ASSUME StorageTypeOK, [StorageNext]_storagevars PROVE StorageTypeOK'
    OBVIOUS
  <2> USE DEF StorageTypeOK, HoldingsTypeOK
  <2>1. ASSUME NEW p \in Players, NEW n \in 1..FullStack, NEW s \in InvSlots, Deposit(p, s, n)
        PROVE  StorageTypeOK'
    BY <2>1, DepositTypes DEF Deposit, disk
  <2>2. ASSUME NEW p \in Players, NEW n \in 1..FullStack, NEW s \in StorageSlots,
               Withdraw(p, s, n)
        PROVE  StorageTypeOK'
    BY <2>2, WithdrawTypes DEF Withdraw, disk
  <2>3. ASSUME NEW p \in Players, NEW n \in 1..FullStack, NEW s \in StorageSlots,
               WithdrawRefused(p, s, n)
        PROVE  StorageTypeOK'
    <3> DEFINE stack == GetSlotStorage(p, s)
               moved == Stack(stack.item, Moved(stack, n))
    <3>1. stack \in Stacks /\ stack # Empty /\ stack.count <= Full(stack.item)
      BY <2>3, SlotRead DEF WithdrawRefused
    <3>2. Moved(stack, n) \in Nat \ {0} /\ Moved(stack, n) <= Full(stack.item)
      BY <3>1, FullStackTypes, MovedFits
    <3>3. moved \in Stacks /\ moved.count <= Full(moved.item)
      BY <3>1, <3>2, StackTypes
    <3>4. storage' = [storage EXCEPT ![p] = [storage[p] EXCEPT ![s] = moved]]
      BY <2>3 DEF WithdrawRefused
    <3> HIDE DEF moved
    <3>5. [storage[p] EXCEPT ![s] = moved] \in Storages
      BY <3>3, StoragePut
    <3>6. storage' \in [Players -> Storages]
      BY <3>4, <3>5
    <3> QED BY <2>3, <3>6 DEF WithdrawRefused, disk
  <2>4. ASSUME NEW p \in Players, NEW n \in 1..FullStack, DepositZuly(p, n)
        PROVE  StorageTypeOK'
    <3>1. zuly[p] - n \in Nat /\ bank[p] + n \in Nat
      BY <2>4, FullStackTypes DEF DepositZuly
    <3>2. writes' \in Seq(Statements)
      BY <2>4 DEF DepositZuly, Statements, Write
    <3> QED BY <2>4, <3>1, <3>2 DEF DepositZuly, disk
  <2>5. ASSUME NEW p \in Players, NEW n \in 1..FullStack, WithdrawZuly(p, n)
        PROVE  StorageTypeOK'
    <3>1. zuly[p] + n \in Nat /\ savedBank[p] - n \in Nat
      BY <2>5, FullStackTypes DEF WithdrawZuly
    <3>2. writes' \in Seq(Statements)
      BY <2>5 DEF WithdrawZuly, Statements, Write
    <3> QED BY <2>5, <3>1, <3>2 DEF WithdrawZuly, disk
  <2>6. ASSUME NEW p \in Players, NEW n \in 1..FullStack, WithdrawZulyRefused(p, n)
        PROVE  StorageTypeOK'
    BY <2>6 DEF WithdrawZulyRefused, disk
  <2>7. ASSUME NEW p \in Players, savedata(p)
        PROVE  StorageTypeOK'
    BY <2>7 DEF savedata, memory
  <2>8. ASSUME NEW p \in Players, Relogin(p)
        PROVE  StorageTypeOK'
    BY <2>8 DEF Relogin
  <2>9. CASE Save
    BY <2>9, SaveTypes DEF Save, memory
  <2>10. CASE Crash
    <3>1. <<>> \in Seq(Statements) /\ crashes + 1 \in 0..MaxCrashes
      BY <2>10, StorageAssumption DEF Crash
    <3> QED BY <2>10, <3>1 DEF Crash, disk
  <2>11. CASE UNCHANGED storagevars
    BY <2>11 DEF storagevars, memory, disk
  <2> QED
    BY <2>1, <2>2, <2>3, <2>4, <2>5, <2>6, <2>7, <2>8, <2>9, <2>10, <2>11 DEF StorageNext
<1> QED BY <1>1, <1>2, PTL DEF StorageSpec

\* Of the statements still to issue only the first is gone after a Save.
LEMMA WritingTail ==
  ASSUME StorageTypeOK, Save, NEW p \in Players, NEW table, NEW slot, Writing(p, table, slot)
  PROVE  Head(writes) = Write(p, table, slot) \/ Writing(p, table, slot)'
<1> SUFFICES ASSUME NEW k \in DOMAIN writes, writes[k] = Write(p, table, slot)
             PROVE  \/ Head(writes) = Write(p, table, slot)
                    \/ \E i \in DOMAIN Tail(writes) : Tail(writes)[i] = Write(p, table, slot)
  BY DEF Writing, Save
<1>1. writes \in Seq(Statements) /\ writes # <<>>
  BY DEF StorageTypeOK, Save
<1>2. CASE k = 1
  BY <1>1, <1>2
<1>3. CASE k # 1
  <2>1. k - 1 \in DOMAIN Tail(writes) /\ Tail(writes)[k - 1] = writes[k]
    BY <1>1, <1>3, HeadTailProperties, LenProperties
  <2> QED BY <2>1
<1> QED BY <1>2, <1>3

LEMMA WritingBefore ==
  ASSUME StorageTypeOK, Save, NEW p, NEW table, NEW slot, Writing(p, table, slot)'
  PROVE  Writing(p, table, slot)
<1>1. writes \in Seq(Statements) /\ writes # <<>> /\ writes' = Tail(writes)
  BY DEF StorageTypeOK, Save
<1> SUFFICES ASSUME NEW i \in DOMAIN Tail(writes), Tail(writes)[i] = Write(p, table, slot)
             PROVE  \E k \in DOMAIN writes : writes[k] = Write(p, table, slot)
  BY <1>1 DEF Writing
<1>2. i + 1 \in DOMAIN writes /\ writes[i + 1] = Tail(writes)[i]
  BY <1>1, HeadTailProperties, LenProperties
<1> QED BY <1>2

LEMMA NothingWritten ==
  ASSUME writes = <<>>, NEW p, NEW table, NEW slot
  PROVE  ~ Writing(p, table, slot)
BY DEF Writing

\* CopiesAgree between two requests.
LEMMA AgreeIdle ==
  ASSUME CopiesAgree, writes = <<>>
  PROVE  /\ \A p \in Players, s \in InvSlots : items[p][s] = savedItems[p][s]
         /\ \A p \in Players : bank[p] = savedBank[p]
         /\ \A p \in Players, s \in StorageSlots :
              \/ storage[p][s] = Empty
              \/ /\ storage[p][s].item = savedStorage[p][s].item
                 /\ storage[p][s].count <= savedStorage[p][s].count
BY NothingWritten DEF CopiesAgree

\* A deposit or a withdrawal changes one slot of each kind, and writes both.
LEMMA MoveAgrees ==
  ASSUME CopiesAgree, writes = <<>>, NEW q \in Players, NEW r \in InvSlots, NEW room \in StorageSlots,
         writes' = <<Write(q, "storage", room), Write(q, "items", r)>>,
         UNCHANGED <<bank, savedItems, savedBank, savedStorage>>,
         \A p \in Players, s \in InvSlots : p # q \/ s # r => items'[p][s] = items[p][s],
         \A p \in Players, s \in StorageSlots :
           p # q \/ s # room => storage'[p][s] = storage[p][s]
  PROVE  CopiesAgree'
<1>1. Writing(q, "storage", room)' /\ Writing(q, "items", r)'
  <2>1. /\ 1 \in DOMAIN writes' /\ writes'[1] = Write(q, "storage", room)
        /\ 2 \in DOMAIN writes' /\ writes'[2] = Write(q, "items", r)
    OBVIOUS
  <2> QED BY <2>1 DEF Writing
<1>2. ASSUME NEW p \in Players, NEW s \in InvSlots
      PROVE  (Writing(p, "items", s) \/ items[p][s] = savedItems[p][s])'
  BY <1>1, AgreeIdle
<1>3. ASSUME NEW p \in Players
      PROVE  (bank[p] = savedBank[p])'
  BY AgreeIdle
<1>4. ASSUME NEW p \in Players, NEW s \in StorageSlots
      PROVE  (\/ Writing(p, "storage", s) \/ storage[p][s] = Empty
              \/ /\ storage[p][s].item = savedStorage[p][s].item
                 /\ storage[p][s].count <= savedStorage[p][s].count)'
  BY <1>1, AgreeIdle
<1> QED BY <1>2, <1>3, <1>4 DEF CopiesAgree

LEMMA DepositAgrees ==
  ASSUME StorageTypeOK, CopiesAgree, NEW q \in Players, NEW n \in 1..FullStack, NEW r \in InvSlots,
         Deposit(q, r, n)
  PROVE  CopiesAgree'
<1> DEFINE stack == items[q][r]
           moved == Stack(stack.item, Moved(stack, n))
           found == GetNewStorageItemSlot(storage[q], moved)
<1>1. stack \in Stacks /\ stack # Empty /\ stack.count <= Full(stack.item) /\ stack.item \in Items
  BY StackTypes DEF Deposit, StorageTypeOK, HoldingsTypeOK, Inventories
<1>2. PICK room \in StorageSlots : room = found
  <2>1. Moved(stack, n) \in Nat /\ storage[q] \in Storages /\ found # NoSlot
    BY <1>1, FullStackTypes, MovedFits DEF StorageTypeOK, Deposit
  <2> QED BY <1>1, <2>1, StorageSlotFound
<1>3. /\ writes = <<>>
      /\ items' = [items EXCEPT ![q] = Taken(items[q], r, moved.count)]
      /\ storage' = [storage EXCEPT ![q] = Added(storage[q], room, moved.item, moved.count)]
      /\ writes' = <<Write(q, "storage", room), Write(q, "items", r)>>
      /\ UNCHANGED <<bank, savedItems, savedBank, savedStorage>>
  BY <1>2 DEF Deposit, disk
<1>4. items \in [Players -> [InvSlots -> Stacks]] /\ storage \in [Players -> [StorageSlots -> Stacks]]
  BY DEF StorageTypeOK, HoldingsTypeOK, Inventories, Storages
<1>5. /\ \A p \in Players, s \in InvSlots : p # q \/ s # r => items'[p][s] = items[p][s]
      /\ \A p \in Players, s \in StorageSlots :
           p # q \/ s # room => storage'[p][s] = storage[p][s]
  BY <1>3, <1>4 DEF Taken, Added
<1> QED BY <1>3, <1>5, MoveAgrees

LEMMA WithdrawAgrees ==
  ASSUME StorageTypeOK, CopiesAgree, NEW q \in Players, NEW n \in 1..FullStack, NEW s \in StorageSlots,
         Withdraw(q, s, n)
  PROVE  CopiesAgree'
<1> DEFINE stack == GetSlotStorage(q, s)
           moved == Stack(stack.item, Moved(stack, n))
           found == GetNewItemSlot(items[q], moved)
<1>1. stack \in Stacks /\ stack # Empty /\ stack.count <= Full(stack.item) /\ stack.item \in Items
  BY SlotRead, StackTypes DEF Withdraw
<1>2. PICK room \in InvSlots : room = found
  <2>1. Moved(stack, n) \in Nat /\ items[q] \in Inventories /\ found # NoSlot
    BY <1>1, FullStackTypes, MovedFits DEF StorageTypeOK, HoldingsTypeOK, Withdraw
  <2> QED BY <1>1, <2>1, SlotFound
<1>3. /\ writes = <<>>
      /\ items' = [items EXCEPT ![q] = Added(items[q], room, moved.item, moved.count)]
      /\ storage' = [storage EXCEPT ![q] = Taken([storage[q] EXCEPT ![s] = stack], s, moved.count)]
      /\ writes' = <<Write(q, "storage", s), Write(q, "items", room)>>
      /\ UNCHANGED <<bank, savedItems, savedBank, savedStorage>>
  BY <1>2 DEF Withdraw, disk
<1>4. items \in [Players -> [InvSlots -> Stacks]] /\ storage \in [Players -> [StorageSlots -> Stacks]]
  BY DEF StorageTypeOK, HoldingsTypeOK, Inventories, Storages
<1>5. /\ \A p \in Players, r \in InvSlots : p # q \/ r # room => items'[p][r] = items[p][r]
      /\ \A p \in Players, r \in StorageSlots : p # q \/ r # s => storage'[p][r] = storage[p][r]
  BY <1>3, <1>4 DEF Taken, Added
<1> QED BY <1>3, <1>5, MoveAgrees

\* The part left in the memory of a refused withdrawal is of the saved stack.
LEMMA RefusalAgrees ==
  ASSUME StorageTypeOK, CopiesAgree, NEW q \in Players, NEW n \in 1..FullStack, NEW s \in StorageSlots,
         WithdrawRefused(q, s, n)
  PROVE  CopiesAgree'
<1> DEFINE stack == GetSlotStorage(q, s)
           moved == Stack(stack.item, Moved(stack, n))
<1>1. stack \in Stacks /\ stack # Empty /\ stack.count <= Full(stack.item) /\ stack.item \in Items
  BY SlotRead, StackTypes DEF WithdrawRefused
<1>2. /\ Moved(stack, n) \in Nat \ {0} /\ Moved(stack, n) <= stack.count
  BY <1>1, FullStackTypes, MovedFits
<1>3. moved.item = stack.item /\ moved.count = Moved(stack, n)
  BY <1>1, <1>2, StackTypes
<1>4. storage \in [Players -> [StorageSlots -> Stacks]]
      /\ savedStorage \in [Players -> [StorageSlots -> Stacks]]
  BY DEF StorageTypeOK, Storages
<1>5. /\ writes = <<>> /\ storage' = [storage EXCEPT ![q][s] = moved]
      /\ UNCHANGED <<items, bank, savedItems, savedBank, savedStorage, writes>>
  BY DEF WithdrawRefused, disk
<1>6. stack.item = savedStorage[q][s].item /\ stack.count <= savedStorage[q][s].count
  <2>1. CASE savedStorage[q][s] # Empty
    <3>1. stack = savedStorage[q][s]
      BY <2>1 DEF GetSlotStorage
    <3>2. stack.count \in Nat
      BY <1>1, StackTypes
    <3> QED BY <3>1, <3>2
  <2>2. CASE savedStorage[q][s] = Empty
    <3>1. stack = storage[q][s]
      BY <2>2 DEF GetSlotStorage
    <3>2. stack.item = NoItem
      BY <1>1, <1>5, <2>2, <3>1, AgreeIdle, StackTypes
    <3> QED BY <1>1, <3>2
  <2> QED BY <2>1, <2>2
<1>7. storage'[q][s].item = savedStorage[q][s].item /\ storage'[q][s].count <= savedStorage[q][s].count
  <2>1. savedStorage[q][s].count \in Nat /\ stack.count \in Nat
    BY <1>1, <1>4, StackTypes
  <2>2. storage'[q][s] = moved
    BY <1>4, <1>5
  <2> HIDE DEF stack, moved
  <2>3. Moved(stack, n) <= savedStorage[q][s].count
    BY <1>2, <1>6, <2>1
  <2> QED BY <1>3, <1>6, <2>2, <2>3
<1> HIDE DEF moved
<1>8. ASSUME NEW p \in Players, NEW r \in StorageSlots
      PROVE  \/ storage'[p][r] = Empty
             \/ /\ storage'[p][r].item = savedStorage'[p][r].item
                /\ storage'[p][r].count <= savedStorage'[p][r].count
  <2>1. CASE p = q /\ r = s
    BY <1>5, <1>7, <2>1
  <2>2. CASE ~ (p = q /\ r = s)
    <3>1. storage'[p][r] = storage[p][r]
      BY <1>4, <1>5, <2>2
    <3> QED BY <1>5, <3>1, AgreeIdle
  <2> QED BY <2>1, <2>2
<1>9. /\ \A p \in Players, r \in InvSlots : items'[p][r] = savedItems'[p][r]
      /\ \A p \in Players : bank'[p] = savedBank'[p]
  BY <1>5, AgreeIdle
<1> QED BY <1>8, <1>9 DEF CopiesAgree

\* A balance that changes is being written; one that is read anew is the saved.
LEMMA BankAgrees ==
  ASSUME StorageTypeOK, CopiesAgree, writes = <<>>, NEW q \in Players,
         UNCHANGED <<items, storage, savedItems, savedBank, savedStorage>>,
         \A p \in Players : p # q => bank'[p] = bank[p],
         writes' = <<Write(q, "bank", NoSlot)>> \/ bank'[q] = savedBank[q]
  PROVE  CopiesAgree'
<1>1. Writing(q, "bank", NoSlot)' \/ bank'[q] = savedBank[q]
  <2>1. CASE writes' = <<Write(q, "bank", NoSlot)>>
    <3>1. 1 \in DOMAIN writes' /\ writes'[1] = Write(q, "bank", NoSlot)
      BY <2>1
    <3> QED BY <3>1 DEF Writing
  <2> QED BY <2>1
<1>2. ASSUME NEW p \in Players
      PROVE  Writing(p, "bank", NoSlot)' \/ bank'[p] = savedBank'[p]
  BY <1>1, AgreeIdle
<1>3. /\ \A p \in Players, s \in InvSlots : items'[p][s] = savedItems'[p][s]
      /\ \A p \in Players, s \in StorageSlots :
           \/ storage'[p][s] = Empty
           \/ /\ storage'[p][s].item = savedStorage'[p][s].item
              /\ storage'[p][s].count <= savedStorage'[p][s].count
  BY AgreeIdle
<1> QED BY <1>2, <1>3 DEF CopiesAgree

\* A statement writes what the memory holds.
LEMMA SaveAgrees ==
  ASSUME StorageTypeOK, CopiesAgree, Save
  PROVE  CopiesAgree'
<1> DEFINE w == Head(writes)
<1>1. /\ savedItems \in [Players -> [InvSlots -> Stacks]] /\ savedBank \in [Players -> Nat]
      /\ storage \in [Players -> [StorageSlots -> Stacks]]
      /\ savedStorage \in [Players -> [StorageSlots -> Stacks]]
  BY DEF StorageTypeOK, Inventories, Storages
<1>2. /\ savedStorage' = IF w.table = "storage"
                         THEN [savedStorage EXCEPT ![w.p][w.slot] = storage[w.p][w.slot]]
                         ELSE savedStorage
      /\ savedItems' = IF w.table = "items"
                       THEN [savedItems EXCEPT ![w.p][w.slot] = items[w.p][w.slot]]
                       ELSE savedItems
      /\ savedBank' = IF w.table = "bank" THEN [savedBank EXCEPT ![w.p] = bank[w.p]]
                      ELSE savedBank
      /\ UNCHANGED <<items, bank, storage>>
  BY DEF Save, memory
<1>3. ASSUME NEW p \in Players, NEW s \in InvSlots
      PROVE  Writing(p, "items", s)' \/ items'[p][s] = savedItems'[p][s]
  <2>1. CASE w = Write(p, "items", s)
    <3>1. w.p = p /\ w.table = "items" /\ w.slot = s
      BY <2>1 DEF Write
    <3> HIDE DEF w
    <3> QED BY <1>1, <1>2, <3>1
  <2>2. CASE items[p][s] = savedItems[p][s]
    <3> HIDE DEF w
    <3> QED BY <1>1, <1>2, <2>2
  <2> QED BY <2>1, <2>2, WritingTail DEF CopiesAgree
<1>4. ASSUME NEW p \in Players
      PROVE  Writing(p, "bank", NoSlot)' \/ bank'[p] = savedBank'[p]
  <2>1. CASE w = Write(p, "bank", NoSlot)
    <3>1. w.p = p /\ w.table = "bank"
      BY <2>1 DEF Write
    <3> HIDE DEF w
    <3> QED BY <1>1, <1>2, <3>1
  <2>2. CASE bank[p] = savedBank[p]
    <3> HIDE DEF w
    <3> QED BY <1>1, <1>2, <2>2
  <2> QED BY <2>1, <2>2, WritingTail DEF CopiesAgree
<1>5. ASSUME NEW p \in Players, NEW s \in StorageSlots
      PROVE  \/ Writing(p, "storage", s)' \/ storage'[p][s] = Empty
             \/ /\ storage'[p][s].item = savedStorage'[p][s].item
                /\ storage'[p][s].count <= savedStorage'[p][s].count
  <2>1. storage[p][s].count <= storage[p][s].count
    BY <1>1, StackTypes
  <2>2. savedStorage'[p][s] = savedStorage[p][s] \/ savedStorage'[p][s] = storage[p][s]
    <3> HIDE DEF w
    <3> QED BY <1>1, <1>2
  <2>3. CASE w = Write(p, "storage", s)
    <3>1. w.p = p /\ w.table = "storage" /\ w.slot = s
      BY <2>3 DEF Write
    <3>2. savedStorage'[p][s] = storage[p][s]
      <4> HIDE DEF w
      <4> QED BY <1>1, <1>2, <3>1
    <3> QED BY <1>2, <2>1, <3>2
  <2>4. CASE \/ storage[p][s] = Empty
             \/ /\ storage[p][s].item = savedStorage[p][s].item
                /\ storage[p][s].count <= savedStorage[p][s].count
    BY <1>2, <2>1, <2>2, <2>4
  <2> QED BY <2>3, <2>4, WritingTail DEF CopiesAgree
<1> QED BY <1>3, <1>4, <1>5 DEF CopiesAgree

\* What was never pending agrees in both copies, whatever is requested.
THEOREM CopiesAlwaysAgree == StorageSpec => []CopiesAgree
<1>1. StorageInit => CopiesAgree
  <2> SUFFICES ASSUME StorageInit PROVE CopiesAgree
    OBVIOUS
  <2>1. ASSUME NEW p \in Players, NEW s \in StorageSlots
        PROVE  storage[p][s].item = savedStorage[p][s].item
               /\ storage[p][s].count <= savedStorage[p][s].count
    BY StorageAssumption, StartAssumption, StackTypes DEF StorageInit, Storages
  <2> QED BY <2>1 DEF StorageInit, CopiesAgree
<1>2. StorageTypeOK /\ CopiesAgree /\ [StorageNext]_storagevars => CopiesAgree'
  <2> SUFFICES ASSUME StorageTypeOK, CopiesAgree, [StorageNext]_storagevars PROVE CopiesAgree'
    OBVIOUS
  <2>0. /\ items \in [Players -> [InvSlots -> Stacks]] /\ zuly \in [Players -> Nat]
        /\ savedItems \in [Players -> [InvSlots -> Stacks]]
        /\ storage \in [Players -> [StorageSlots -> Stacks]] /\ bank \in [Players -> Nat]
        /\ savedStorage \in [Players -> [StorageSlots -> Stacks]] /\ savedBank \in [Players -> Nat]
    BY DEF StorageTypeOK, HoldingsTypeOK, Inventories, Storages
  <2>1. ASSUME NEW p \in Players, NEW n \in 1..FullStack, NEW s \in InvSlots, Deposit(p, s, n)
        PROVE  CopiesAgree'
    BY <2>1, DepositAgrees
  <2>2. ASSUME NEW p \in Players, NEW n \in 1..FullStack, NEW s \in StorageSlots,
               Withdraw(p, s, n)
        PROVE  CopiesAgree'
    BY <2>2, WithdrawAgrees
  <2>3. ASSUME NEW p \in Players, NEW n \in 1..FullStack, NEW s \in StorageSlots,
               WithdrawRefused(p, s, n)
        PROVE  CopiesAgree'
    BY <2>3, RefusalAgrees
  <2>4. ASSUME NEW p \in Players, NEW n \in 1..FullStack, DepositZuly(p, n)
        PROVE  CopiesAgree'
    BY <2>0, <2>4, BankAgrees DEF DepositZuly, disk
  <2>5. ASSUME NEW p \in Players, NEW n \in 1..FullStack, WithdrawZuly(p, n)
        PROVE  CopiesAgree'
    BY <2>0, <2>5, BankAgrees DEF WithdrawZuly, disk
  <2>6. ASSUME NEW p \in Players, NEW n \in 1..FullStack, WithdrawZulyRefused(p, n)
        PROVE  CopiesAgree'
    BY <2>0, <2>6, BankAgrees DEF WithdrawZulyRefused, disk
  <2>7. ASSUME NEW p \in Players, savedata(p)
        PROVE  CopiesAgree'
    <3>1. /\ savedItems' = [savedItems EXCEPT ![p] = items[p]]
          /\ UNCHANGED <<items, bank, storage, savedBank, savedStorage, writes>>
      BY <2>7 DEF savedata, memory
    <3>2. \A q \in Players : savedItems'[q] = savedItems[q] \/ savedItems'[q] = items[q]
      BY <2>0, <3>1
    <3> QED BY <3>1, <3>2 DEF CopiesAgree, Writing
  <2>8. ASSUME NEW p \in Players, Relogin(p)
        PROVE  CopiesAgree'
    <3>1. /\ savedItems' = [savedItems EXCEPT ![p] = items[p]]
          /\ storage' = [storage EXCEPT ![p] = savedStorage[p]]
          /\ bank' = [bank EXCEPT ![p] = savedBank[p]]
          /\ UNCHANGED <<items, savedBank, savedStorage, writes>>
      BY <2>8 DEF Relogin
    <3>2. \A q \in Players :
             /\ savedItems'[q] = savedItems[q] \/ savedItems'[q] = items[q]
             /\ storage'[q] = storage[q] \/ storage'[q] = savedStorage[q]
             /\ bank'[q] = bank[q] \/ bank'[q] = savedBank[q]
      BY <2>0, <3>1
    <3>3. \A q \in Players, s \in StorageSlots : savedStorage[q][s].count <= savedStorage[q][s].count
      BY <2>0, StackTypes
    <3> QED BY <3>1, <3>2, <3>3 DEF CopiesAgree, Writing
  <2>9. CASE Save
    BY <2>9, SaveAgrees
  <2>10. CASE Crash
    <3>1. \A q \in Players, s \in StorageSlots : savedStorage[q][s].count <= savedStorage[q][s].count
      BY <2>0, StackTypes
    <3> QED BY <2>10, <3>1 DEF Crash, disk, CopiesAgree
  <2>11. CASE UNCHANGED storagevars
    BY <2>11 DEF storagevars, memory, disk, CopiesAgree, Writing
  <2> QED
    BY <2>1, <2>2, <2>3, <2>4, <2>5, <2>6, <2>7, <2>8, <2>9, <2>10, <2>11 DEF StorageNext
<1> QED BY <1>1, <1>2, StorageTypeCorrect, PTL DEF StorageSpec

\* Between two requests what a player is shown survives a crash.
THEOREM ShownSurvives == StorageSpec => []ShownIsSaved
<1>1. StorageTypeOK /\ CopiesAgree => ShownIsSaved
  <2> SUFFICES ASSUME StorageTypeOK, CopiesAgree, writes = <<>>
               PROVE  /\ items = savedItems
                      /\ bank = savedBank
                      /\ \A p \in Players, s \in StorageSlots :
                           storage[p][s] # Empty =>
                             /\ storage[p][s].item = savedStorage[p][s].item
                             /\ storage[p][s].count <= savedStorage[p][s].count
    BY DEF ShownIsSaved
  <2>1. /\ items \in [Players -> [InvSlots -> Stacks]] /\ bank \in [Players -> Nat]
        /\ savedItems \in [Players -> [InvSlots -> Stacks]] /\ savedBank \in [Players -> Nat]
    BY DEF StorageTypeOK, HoldingsTypeOK, Inventories
  <2>2. items = savedItems
    <3>1. \A p \in Players : items[p] = savedItems[p]
      BY <2>1, AgreeIdle
    <3> QED BY <2>1, <3>1
  <2>3. bank = savedBank
    BY <2>1, AgreeIdle
  <2> QED BY <2>2, <2>3, AgreeIdle
<1> QED BY <1>1, StorageTypeCorrect, CopiesAlwaysAgree, PTL

-----------------------------------------------------------------------------
(* What a player owns *)

\* What a deposit does, with the slot and the number it finds.
LEMMA DepositDoes ==
  ASSUME StorageTypeOK, NEW q \in Players, NEW n \in 1..FullStack, NEW r \in InvSlots, Deposit(q, r, n)
  PROVE  \E room \in StorageSlots, m \in Nat \ {0}, it \in Items :
           /\ writes = <<>>
           /\ items[q][r].item = it /\ m <= items[q][r].count
           /\ storage[q][room] = Empty \/ storage[q][room].item = it
           /\ items' = [items EXCEPT ![q] = Taken(items[q], r, m)]
           /\ storage' = [storage EXCEPT ![q] = Added(storage[q], room, it, m)]
           /\ writes' = <<Write(q, "storage", room), Write(q, "items", r)>>
           /\ UNCHANGED <<bank, disk>>
<1> DEFINE stack == items[q][r]
           m == Moved(stack, n)
           it == stack.item
           found == GetNewStorageItemSlot(storage[q], Stack(it, m))
<1>1. stack \in Stacks /\ stack # Empty /\ stack.count <= Full(stack.item) /\ stack.item \in Items
  BY StackTypes DEF Deposit, StorageTypeOK, HoldingsTypeOK, Inventories
<1>2. m \in Nat \ {0} /\ m <= stack.count
  BY <1>1, FullStackTypes, MovedFits
<1>3. Stack(it, m).item = it /\ Stack(it, m).count = m
  BY <1>1, <1>2, StackTypes
<1>4. /\ writes = <<>> /\ found # NoSlot
      /\ items' = [items EXCEPT ![q] = Taken(items[q], r, m)]
      /\ storage' = [storage EXCEPT ![q] = Added(storage[q], found, it, m)]
      /\ writes' = <<Write(q, "storage", found), Write(q, "items", r)>>
      /\ UNCHANGED <<bank, disk>>
  BY <1>3 DEF Deposit
<1>5. storage[q] \in Storages
  BY DEF StorageTypeOK
<1>6. found \in StorageSlots /\ (storage[q][found] = Empty \/ storage[q][found].item = it)
  BY <1>1, <1>2, <1>4, <1>5, StorageSlotFound
<1> HIDE DEF found, m, it
<1>7. it \in Items /\ items[q][r].item = it /\ m <= items[q][r].count
  BY <1>1, <1>2 DEF it
<1> QED BY <1>2, <1>4, <1>6, <1>7

\* What a withdrawal does: what it reads is the row of the database.
LEMMA WithdrawDoes ==
  ASSUME StorageTypeOK, CopiesAgree, NEW q \in Players, NEW n \in 1..FullStack, NEW s \in StorageSlots,
         Withdraw(q, s, n)
  PROVE  \E room \in InvSlots, m \in Nat \ {0}, it \in Items :
           /\ writes = <<>>
           /\ savedStorage[q][s].item = it /\ m <= savedStorage[q][s].count
           /\ items[q][room] = Empty \/ items[q][room].item = it
           /\ items' = [items EXCEPT ![q] = Added(items[q], room, it, m)]
           /\ storage' = [storage EXCEPT ![q] =
                            Taken([storage[q] EXCEPT ![s] = savedStorage[q][s]], s, m)]
           /\ writes' = <<Write(q, "storage", s), Write(q, "items", room)>>
           /\ UNCHANGED <<bank, disk>>
<1> DEFINE stack == GetSlotStorage(q, s)
           m == Moved(stack, n)
           it == stack.item
           found == GetNewItemSlot(items[q], Stack(it, m))
<1>1. stack \in Stacks /\ stack # Empty /\ stack.count <= Full(stack.item) /\ stack.item \in Items
  BY SlotRead, StackTypes DEF Withdraw
<1>2. m \in Nat \ {0} /\ m <= stack.count
  BY <1>1, FullStackTypes, MovedFits
<1>3. Stack(it, m).item = it /\ Stack(it, m).count = m
  BY <1>1, <1>2, StackTypes
<1>4. /\ writes = <<>> /\ found # NoSlot
      /\ items' = [items EXCEPT ![q] = Added(items[q], found, it, m)]
      /\ storage' = [storage EXCEPT ![q] = Taken([storage[q] EXCEPT ![s] = stack], s, m)]
      /\ writes' = <<Write(q, "storage", s), Write(q, "items", found)>>
      /\ UNCHANGED <<bank, disk>>
  BY <1>3 DEF Withdraw
<1>5. stack = savedStorage[q][s]
  <2>1. CASE savedStorage[q][s] # Empty
    BY <2>1 DEF GetSlotStorage
  <2>2. CASE savedStorage[q][s] = Empty
    <3>1. stack = storage[q][s]
      BY <2>2 DEF GetSlotStorage
    <3>2. stack.item = NoItem
      BY <1>1, <1>4, <2>2, <3>1, AgreeIdle, StackTypes
    <3> QED BY <1>1, <3>2
  <2> QED BY <2>1, <2>2
<1>6. items[q] \in Inventories
  BY DEF StorageTypeOK, HoldingsTypeOK
<1>7. found \in InvSlots /\ (items[q][found] = Empty \/ items[q][found].item = it)
  BY <1>1, <1>2, <1>4, <1>6, SlotFound
<1>8. /\ it \in Items /\ savedStorage[q][s].item = it /\ m <= savedStorage[q][s].count
      /\ storage' = [storage EXCEPT ![q] =
                        Taken([storage[q] EXCEPT ![s] = savedStorage[q][s]], s, m)]
  BY <1>1, <1>2, <1>4, <1>5
<1> HIDE DEF found, m, it
<1> QED BY <1>2, <1>4, <1>7, <1>8

\* What a move leaves to be written: its two slots.
LEMMA WritingMove ==
  ASSUME NEW q, NEW room, NEW r,
         writes' = <<Write(q, "storage", room), Write(q, "items", r)>>
  PROVE  /\ \A p, s : Writing(p, "storage", s)' <=> p = q /\ s = room
         /\ \A p, s : Writing(p, "items", s)' <=> p = q /\ s = r
         /\ \A p : ~ Writing(p, "bank", NoSlot)'
<1>1. /\ DOMAIN writes' = {1, 2}
      /\ writes'[1] = Write(q, "storage", room) /\ writes'[2] = Write(q, "items", r)
  OBVIOUS
<1>2. \A p, table, s : Writing(p, table, s)' <=> \/ Write(q, "storage", room) = Write(p, table, s)
                                                 \/ Write(q, "items", r) = Write(p, table, s)
  BY <1>1 DEF Writing
<1>3. \A p, s : /\ Write(q, "storage", room) = Write(p, "storage", s) <=> p = q /\ s = room
                /\ Write(q, "items", r) # Write(p, "storage", s)
  BY DEF Write
<1>4. \A p, s : /\ Write(q, "items", r) = Write(p, "items", s) <=> p = q /\ s = r
                /\ Write(q, "storage", room) # Write(p, "items", s)
  BY DEF Write
<1>5. \A p : /\ Write(q, "items", r) # Write(p, "bank", NoSlot)
             /\ Write(q, "storage", room) # Write(p, "bank", NoSlot)
  BY DEF Write
<1> QED BY <1>2, <1>3, <1>4, <1>5

\* With nothing to write a player keeps what the database holds.
LEMMA KeptIdle ==
  ASSUME StorageTypeOK, writes = <<>>, NEW p \in Players
  PROVE  Kept(p) = savedStorage[p] /\ Wealth(p) = zuly[p] + savedBank[p]
<1>1. savedStorage[p] \in [StorageSlots -> Stacks]
  BY DEF StorageTypeOK, Storages
<1>2. \A table, slot : ~ Writing(p, table, slot)
  BY NothingWritten
<1> QED BY <1>1, <1>2 DEF Kept, Wealth

\* During a move a player keeps the slot it writes as the memory has it.
LEMMA KeptMove ==
  ASSUME StorageTypeOK, NEW q \in Players, NEW room \in StorageSlots, NEW r,
         writes' = <<Write(q, "storage", room), Write(q, "items", r)>>,
         savedStorage' = savedStorage, NEW p \in Players
  PROVE  Kept(p)' = IF p = q THEN Put(savedStorage[q], room, storage'[q][room]) ELSE savedStorage[p]
<1>1. savedStorage[p] \in [StorageSlots -> Stacks]
  BY DEF StorageTypeOK, Storages
<1>2. Kept(p)' = [s \in StorageSlots |-> IF p = q /\ s = room THEN storage'[p][s] ELSE savedStorage[p][s]]
  BY WritingMove DEF Kept
<1>3. CASE p = q
  BY <1>1, <1>2, <1>3 DEF Put
<1>4. CASE p # q
  BY <1>1, <1>2, <1>4
<1> QED BY <1>3, <1>4

\* What all copies count.
LEMMA CopiesCount ==
  ASSUME StorageTypeOK, NEW p \in Players
  PROVE  /\ items[p] \in [InvSlots -> Stacks] /\ savedItems[p] \in [InvSlots -> Stacks]
         /\ storage[p] \in [StorageSlots -> Stacks] /\ savedStorage[p] \in [StorageSlots -> Stacks]
         /\ Kept(p) \in [StorageSlots -> Stacks]
         /\ IsFiniteSet(InvSlots) /\ IsFiniteSet(StorageSlots)
         /\ \A it : /\ CountOf(items[p], it) \in Nat /\ CountOf(savedItems[p], it) \in Nat
                    /\ CountOf(savedStorage[p], it) \in Nat /\ CountOf(Kept(p), it) \in Nat
<1>1. /\ items[p] \in [InvSlots -> Stacks] /\ savedItems[p] \in [InvSlots -> Stacks]
      /\ storage[p] \in [StorageSlots -> Stacks] /\ savedStorage[p] \in [StorageSlots -> Stacks]
  BY DEF StorageTypeOK, HoldingsTypeOK, Inventories, Storages
<1>2. Kept(p) \in [StorageSlots -> Stacks]
  BY <1>1 DEF Kept
<1>3. IsFiniteSet(InvSlots) /\ IsFiniteSet(StorageSlots)
  BY FiniteAssumption, StorageAssumption
<1>4. \A it : CountOf(items[p], it) \in Nat
  BY <1>1, <1>3, CountIs
<1>5. \A it : CountOf(savedItems[p], it) \in Nat
  BY <1>1, <1>3, CountIs
<1>6. \A it : CountOf(savedStorage[p], it) \in Nat
  BY <1>1, <1>3, CountIs
<1>7. \A it : CountOf(Kept(p), it) \in Nat
  BY <1>2, <1>3, CountIs
<1> QED BY <1>1, <1>2, <1>3, <1>4, <1>5, <1>6, <1>7

\* What is laid in joins at most what is saved in the slot.
LEMMA DepositMakesNothing ==
  ASSUME StorageTypeOK, CopiesAgree, NEW q \in Players, NEW n \in 1..FullStack, NEW r \in InvSlots,
         Deposit(q, r, n), NEW p \in Players, NEW o \in Items
  PROVE  Owned(p, o)' <= Owned(p, o)
<1>1. PICK room \in StorageSlots, m \in Nat \ {0}, it \in Items :
           /\ writes = <<>>
           /\ items[q][r].item = it /\ m <= items[q][r].count
           /\ storage[q][room] = Empty \/ storage[q][room].item = it
           /\ items' = [items EXCEPT ![q] = Taken(items[q], r, m)]
           /\ storage' = [storage EXCEPT ![q] = Added(storage[q], room, it, m)]
           /\ writes' = <<Write(q, "storage", room), Write(q, "items", r)>>
           /\ UNCHANGED <<bank, disk>>
  BY DepositDoes
<1>2. items \in [Players -> Inventories] /\ storage \in [Players -> Storages]
  BY DEF StorageTypeOK, HoldingsTypeOK
<1>3. savedStorage' = savedStorage /\ Kept(p) = savedStorage[p]
  BY <1>1, KeptIdle DEF disk
<1>4. Kept(p)' = IF p = q THEN Put(savedStorage[q], room, storage'[q][room]) ELSE savedStorage[p]
  BY <1>1, <1>3, KeptMove
<1>5. CASE p # q
  <2>1. items'[p] = items[p] /\ Kept(p)' = Kept(p)
    BY <1>1, <1>2, <1>3, <1>4, <1>5
  <2>2. CountOf(items[p], o) \in Nat /\ CountOf(Kept(p), o) \in Nat
    BY CopiesCount
  <2> QED BY <2>1, <2>2 DEF Owned
<1>6. CASE p = q
  <2> DEFINE more == Stack(it, storage[q][room].count + m)
             old == savedStorage[q][room]
  <2>1. /\ items[q] \in [InvSlots -> Stacks] /\ IsFiniteSet(InvSlots)
        /\ savedStorage[q] \in [StorageSlots -> Stacks] /\ IsFiniteSet(StorageSlots)
        /\ storage[q] \in [StorageSlots -> Stacks]
        /\ CountOf(items[q], o) \in Nat /\ CountOf(savedStorage[q], o) \in Nat
    BY CopiesCount
  <2>2. items'[q] = Taken(items[q], r, m) /\ storage'[q] = Added(storage[q], room, it, m)
    BY <1>1, <1>2
  <2>3. CountOf(Taken(items[q], r, m), o) = CountOf(items[q], o) - (IF it = o THEN m ELSE 0)
    <3>1. m \in Nat /\ m <= items[q][r].count /\ items[q][r].item = it
      BY <1>1
    <3> QED BY <2>1, <3>1, CountTaken
  <2>4. storage'[q][room] = more
    BY <2>1, <2>2 DEF Added
  <2>5. storage[q][room].count \in Nat /\ old \in Stacks /\ old.count \in Nat
        /\ storage[q][room].count + m \in Nat \ {0}
    BY <2>1, StackTypes
  <2>6. more \in Stacks /\ more.item = it /\ more.count = storage[q][room].count + m
    BY <2>5, StackTypes
  <2> HIDE DEF more
  <2>7. CountOf(Put(savedStorage[q], room, more), o)
          = CountOf(savedStorage[q], o) + (OfItem(more, o) - OfItem(old, o))
    BY <2>1, <2>6, CountChanged
  <2>8. OfItem(more, o) \in Nat /\ OfItem(old, o) \in Nat
        /\ OfItem(more, o) <= OfItem(old, o) + (IF it = o THEN m ELSE 0)
    <3>1. CASE storage[q][room] = Empty
      <4>1. storage[q][room].count = 0
        BY <3>1, StackTypes
      <4> HIDE DEF old
      <4> QED BY <2>5, <2>6, <4>1 DEF OfItem
    <3>2. CASE storage[q][room] # Empty
      <4>1. storage[q][room].item = it /\ old.item = it /\ storage[q][room].count <= old.count
        BY <1>1, <3>2, AgreeIdle
      <4> HIDE DEF old
      <4> QED BY <2>5, <2>6, <4>1 DEF OfItem
    <3> QED BY <3>1, <3>2
  <2>9. Owned(p, o)' = CountOf(Taken(items[q], r, m), o) + CountOf(Put(savedStorage[q], room, more), o)
    BY <1>4, <1>6, <2>2, <2>4 DEF Owned
  <2>10. Owned(p, o) = CountOf(items[q], o) + CountOf(savedStorage[q], o)
    BY <1>3, <1>6 DEF Owned
  <2> HIDE DEF old
  <2> QED BY <2>1, <2>3, <2>7, <2>8, <2>9, <2>10
<1> QED BY <1>5, <1>6

\* What is taken out is what the inventory gets.
LEMMA WithdrawMakesNothing ==
  ASSUME StorageTypeOK, CopiesAgree, NEW q \in Players, NEW n \in 1..FullStack, NEW s \in StorageSlots,
         Withdraw(q, s, n), NEW p \in Players, NEW o \in Items
  PROVE  Owned(p, o)' <= Owned(p, o)
<1>1. PICK room \in InvSlots, m \in Nat \ {0}, it \in Items :
           /\ writes = <<>>
           /\ savedStorage[q][s].item = it /\ m <= savedStorage[q][s].count
           /\ items[q][room] = Empty \/ items[q][room].item = it
           /\ items' = [items EXCEPT ![q] = Added(items[q], room, it, m)]
           /\ storage' = [storage EXCEPT ![q] =
                            Taken([storage[q] EXCEPT ![s] = savedStorage[q][s]], s, m)]
           /\ writes' = <<Write(q, "storage", s), Write(q, "items", room)>>
           /\ UNCHANGED <<bank, disk>>
  BY WithdrawDoes
<1>2. items \in [Players -> Inventories] /\ storage \in [Players -> Storages]
  BY DEF StorageTypeOK, HoldingsTypeOK
<1>3. savedStorage' = savedStorage /\ Kept(p) = savedStorage[p]
  BY <1>1, KeptIdle DEF disk
<1>4. Kept(p)' = IF p = q THEN Put(savedStorage[q], s, storage'[q][s]) ELSE savedStorage[p]
  BY <1>1, <1>3, KeptMove
<1>5. CASE p # q
  <2>1. items'[p] = items[p] /\ Kept(p)' = Kept(p)
    BY <1>1, <1>2, <1>3, <1>4, <1>5
  <2>2. CountOf(items[p], o) \in Nat /\ CountOf(Kept(p), o) \in Nat
    BY CopiesCount
  <2> QED BY <2>1, <2>2 DEF Owned
<1>6. CASE p = q
  <2>1. /\ items[q] \in [InvSlots -> Stacks] /\ IsFiniteSet(InvSlots)
        /\ savedStorage[q] \in [StorageSlots -> Stacks] /\ IsFiniteSet(StorageSlots)
        /\ storage[q] \in [StorageSlots -> Stacks]
        /\ CountOf(items[q], o) \in Nat /\ CountOf(savedStorage[q], o) \in Nat
    BY CopiesCount
  <2>2. /\ items'[q] = Added(items[q], room, it, m)
        /\ storage'[q] = Taken([storage[q] EXCEPT ![s] = savedStorage[q][s]], s, m)
    BY <1>1, <1>2
  <2>3. CountOf(Added(items[q], room, it, m), o) = CountOf(items[q], o) + (IF it = o THEN m ELSE 0)
    <3>1. items[q][room] = Empty \/ items[q][room].item = it
      BY <1>1
    <3> QED BY <2>1, <3>1, CountAdded
  <2>4. CountOf(Taken(savedStorage[q], s, m), o)
          = CountOf(savedStorage[q], o) - (IF it = o THEN m ELSE 0)
    <3>1. m \in Nat /\ m <= savedStorage[q][s].count /\ savedStorage[q][s].item = it
      BY <1>1
    <3> QED BY <2>1, <3>1, CountTaken
  <2>5. Put(savedStorage[q], s, storage'[q][s]) = Taken(savedStorage[q], s, m)
    BY <2>1, <2>2 DEF Put, Taken
  <2>6. Owned(p, o)' = CountOf(Added(items[q], room, it, m), o) + CountOf(Taken(savedStorage[q], s, m), o)
    BY <1>4, <1>6, <2>2, <2>5 DEF Owned
  <2>7. Owned(p, o) = CountOf(items[q], o) + CountOf(savedStorage[q], o)
    BY <1>3, <1>6 DEF Owned
  <2> QED BY <2>1, <2>3, <2>4, <2>6, <2>7
<1> QED BY <1>5, <1>6

\* A statement writes what counted already.
LEMMA SaveKeeps ==
  ASSUME StorageTypeOK, Save, NEW p \in Players
  PROVE  Kept(p)' = Kept(p) /\ Wealth(p)' = Wealth(p)
<1> DEFINE w == Head(writes)
<1>1. writes \in Seq(Statements) /\ writes # <<>> /\ writes' = Tail(writes)
      /\ UNCHANGED <<items, zuly, storage, bank>>
  BY DEF StorageTypeOK, Save, memory
<1>2. \A table, slot : Writing(p, table, slot)' => Writing(p, table, slot)
  BY WritingBefore
<1>3. ASSUME NEW s \in StorageSlots
      PROVE  (IF Writing(p, "storage", s)' THEN storage'[p][s] ELSE savedStorage'[p][s])
               = (IF Writing(p, "storage", s) THEN storage[p][s] ELSE savedStorage[p][s])
  <2>1. savedStorage \in [Players -> [StorageSlots -> Stacks]]
    BY DEF StorageTypeOK, Storages
  <2>2. savedStorage' = IF w.table = "storage"
                        THEN [savedStorage EXCEPT ![w.p][w.slot] = storage[w.p][w.slot]]
                        ELSE savedStorage
    BY DEF Save
  <2>3. CASE w = Write(p, "storage", s)
    <3>1. Writing(p, "storage", s)
      <4>1. 1 \in DOMAIN writes /\ writes[1] = w
        BY <1>1
      <4> HIDE DEF w
      <4> QED BY <2>3, <4>1 DEF Writing
    <3>2. w.p = p /\ w.table = "storage" /\ w.slot = s
      BY <2>3 DEF Write
    <3> HIDE DEF w
    <3>3. savedStorage'[p][s] = storage[p][s]
      BY <2>1, <2>2, <3>2
    <3> QED BY <1>1, <3>1, <3>3
  <2>4. CASE w # Write(p, "storage", s)
    <3>1. Writing(p, "storage", s)' <=> Writing(p, "storage", s)
      BY <1>2, <2>4, WritingTail
    <3>2. ~ (w.table = "storage" /\ w.p = p /\ w.slot = s)
      <4>1. w \in Statements
        BY <1>1
      <4> HIDE DEF w
      <4> QED BY <2>4, <4>1 DEF Write, Statements
    <3> HIDE DEF w
    <3>3. savedStorage'[p][s] = savedStorage[p][s]
      BY <2>1, <2>2, <3>2
    <3> QED BY <1>1, <3>1, <3>3
  <2> QED BY <2>3, <2>4
<1>4. (IF Writing(p, "bank", NoSlot)' THEN bank'[p] ELSE savedBank'[p])
        = (IF Writing(p, "bank", NoSlot) THEN bank[p] ELSE savedBank[p])
  <2>1. savedBank \in [Players -> Nat]
    BY DEF StorageTypeOK
  <2>2. savedBank' = IF w.table = "bank" THEN [savedBank EXCEPT ![w.p] = bank[w.p]] ELSE savedBank
    BY DEF Save
  <2>3. CASE w = Write(p, "bank", NoSlot)
    <3>1. Writing(p, "bank", NoSlot)
      <4>1. 1 \in DOMAIN writes /\ writes[1] = w
        BY <1>1
      <4> HIDE DEF w
      <4> QED BY <2>3, <4>1 DEF Writing
    <3>2. w.p = p /\ w.table = "bank"
      BY <2>3 DEF Write
    <3> HIDE DEF w
    <3>3. savedBank'[p] = bank[p]
      BY <2>1, <2>2, <3>2
    <3> QED BY <1>1, <3>1, <3>3
  <2>4. CASE w # Write(p, "bank", NoSlot)
    <3>1. Writing(p, "bank", NoSlot)' <=> Writing(p, "bank", NoSlot)
      BY <1>2, <2>4, WritingTail
    <3>2. ~ (w.table = "bank" /\ w.p = p)
      <4>1. w \in Statements
        BY <1>1
      <4> HIDE DEF w
      <4> QED BY <2>4, <4>1 DEF Write, Statements
    <3> HIDE DEF w
    <3>3. savedBank'[p] = savedBank[p]
      BY <2>1, <2>2, <3>2
    <3> QED BY <1>1, <3>1, <3>3
  <2> QED BY <2>3, <2>4
<1>5. Kept(p)' = Kept(p)
  BY <1>3 DEF Kept
<1>6. Wealth(p)' = Wealth(p)
  BY <1>1, <1>4 DEF Wealth
<1> QED BY <1>5, <1>6

\* Zuly: a fee is lost, and what goes into the bank or comes out is what the
\* wallet misses or gets.
LEMMA ZulyKept ==
  ASSUME StorageTypeOK, CopiesAgree, NEW q \in Players, NEW n \in 1..FullStack, NEW p \in Players,
         \/ \E s \in InvSlots : Deposit(q, s, n)
         \/ \E s \in StorageSlots : Withdraw(q, s, n)
         \/ DepositZuly(q, n) \/ WithdrawZuly(q, n)
  PROVE  Wealth(p)' <= Wealth(p)
<1>1. writes = <<>> /\ n \in Nat /\ savedBank' = savedBank
  BY FullStackTypes DEF Deposit, Withdraw, DepositZuly, WithdrawZuly, disk
<1>2. zuly \in [Players -> Nat] /\ bank \in [Players -> Nat] /\ savedBank \in [Players -> Nat]
      /\ items \in [Players -> Inventories]
  BY DEF StorageTypeOK, HoldingsTypeOK
<1>3. Wealth(p) = zuly[p] + savedBank[p] /\ bank[p] = savedBank[p]
  BY <1>1, KeptIdle, AgreeIdle
<1>4. ASSUME NEW s \in InvSlots, Deposit(q, s, n) PROVE Wealth(p)' <= Wealth(p)
  <2>1. \E room : writes' = <<Write(q, "storage", room), Write(q, "items", s)>>
    BY <1>4 DEF Deposit
  <2>2. Wealth(p)' = zuly'[p] + savedBank[p]
    BY <1>1, <2>1, WritingMove DEF Wealth
  <2>3. Charge(items[q][s], n) \in Nat
    <3>1. items[q][s] \in Stacks /\ items[q][s] # Empty /\ items[q][s].count <= Full(items[q][s].item)
      BY <1>2, <1>4 DEF Deposit, Inventories
    <3> QED BY <3>1, FullStackTypes, MovedFits
  <2>4. zuly' = [zuly EXCEPT ![q] = zuly[q] - Charge(items[q][s], n)]
    BY <1>4 DEF Deposit
  <2>5. zuly'[p] <= zuly[p]
    BY <1>2, <2>3, <2>4
  <2>6. zuly'[p] \in Int
    BY <1>2, <2>3, <2>4
  <2> QED BY <1>2, <1>3, <2>2, <2>5, <2>6
<1>5. ASSUME NEW s \in StorageSlots, Withdraw(q, s, n) PROVE Wealth(p)' <= Wealth(p)
  <2>1. zuly' = zuly /\ \E room : writes' = <<Write(q, "storage", s), Write(q, "items", room)>>
    BY <1>5 DEF Withdraw
  <2>2. Wealth(p)' = zuly[p] + savedBank[p]
    BY <1>1, <2>1, WritingMove DEF Wealth
  <2> QED BY <1>2, <1>3, <2>2
<1>6. ASSUME writes' = <<Write(q, "bank", NoSlot)>>,
             p # q => zuly'[p] = zuly[p] /\ bank'[p] = bank[p],
             zuly'[q] + bank'[q] = zuly[q] + savedBank[q]
      PROVE  Wealth(p)' <= Wealth(p)
  <2>1. DOMAIN writes' = {1} /\ writes'[1] = Write(q, "bank", NoSlot)
    BY <1>6
  <2>2. Writing(p, "bank", NoSlot)' <=> p = q
    <3>1. Write(q, "bank", NoSlot) = Write(p, "bank", NoSlot) <=> p = q
      BY DEF Write
    <3> QED BY <2>1, <3>1 DEF Writing
  <2>3. CASE p = q
    <3>1. Wealth(p)' = zuly'[q] + bank'[q]
      BY <2>2, <2>3 DEF Wealth
    <3> QED BY <1>2, <1>3, <1>6, <2>3, <3>1
  <2>4. CASE p # q
    <3>1. Wealth(p)' = zuly[p] + savedBank[p]
      BY <1>1, <1>6, <2>2, <2>4 DEF Wealth
    <3> QED BY <1>2, <1>3, <3>1
  <2> QED BY <2>3, <2>4
<1>7. CASE DepositZuly(q, n)
  <2>1. /\ zuly' = [zuly EXCEPT ![q] = zuly[q] - n] /\ bank' = [bank EXCEPT ![q] = bank[q] + n]
        /\ writes' = <<Write(q, "bank", NoSlot)>>
    BY <1>7 DEF DepositZuly
  <2>2. bank[q] = savedBank[q]
    BY <1>1, AgreeIdle
  <2>3. zuly'[q] + bank'[q] = zuly[q] + savedBank[q]
    BY <1>1, <1>2, <2>1, <2>2
  <2> QED BY <1>2, <1>6, <2>1, <2>3
<1>8. CASE WithdrawZuly(q, n)
  <2>1. /\ zuly' = [zuly EXCEPT ![q] = zuly[q] + n] /\ bank' = [bank EXCEPT ![q] = savedBank[q] - n]
        /\ writes' = <<Write(q, "bank", NoSlot)>>
    BY <1>8 DEF WithdrawZuly
  <2>2. zuly'[q] + bank'[q] = zuly[q] + savedBank[q]
    BY <1>1, <1>2, <2>1
  <2> QED BY <1>2, <1>6, <2>1, <2>2
<1> QED BY <1>4, <1>5, <1>7, <1>8

\* What neither touches the inventory nor the saved storage, between requests,
\* makes nothing.
LEMMA IdleMakesNothing ==
  ASSUME StorageTypeOK, writes = <<>>, NEW p \in Players, NEW o \in Items,
         UNCHANGED <<items, savedStorage>>,
         writes' = <<>> \/ \E q : writes' = <<Write(q, "bank", NoSlot)>>
  PROVE  Owned(p, o)' <= Owned(p, o)
<1>1. \A s : ~ Writing(p, "storage", s)'
  <2>1. \A q, s : Write(q, "bank", NoSlot) # Write(p, "storage", s)
    BY DEF Write
  <2>2. CASE writes' = <<>>
    BY <2>2 DEF Writing
  <2>3. ASSUME NEW q, writes' = <<Write(q, "bank", NoSlot)>>
        PROVE  \A s : ~ Writing(p, "storage", s)'
    <3>1. DOMAIN writes' = {1} /\ writes'[1] = Write(q, "bank", NoSlot)
      BY <2>3
    <3> QED BY <2>1, <3>1 DEF Writing
  <2> QED BY <2>2, <2>3
<1>2. savedStorage[p] \in [StorageSlots -> Stacks]
  BY DEF StorageTypeOK, Storages
<1>3. Kept(p)' = savedStorage[p] /\ Kept(p) = savedStorage[p]
  BY <1>1, <1>2, KeptIdle DEF Kept
<1>4. CountOf(items[p], o) \in Nat /\ CountOf(Kept(p), o) \in Nat
  BY CopiesCount
<1> QED BY <1>3, <1>4 DEF Owned

\* No request makes goods or zuly out of the two copies.
THEOREM NothingIsMade == StorageSpec => NothingMade
<1>1. ASSUME StorageTypeOK, CopiesAgree, StorageNext, crashes' = crashes, NEW p \in Players
      PROVE  Wealth(p)' <= Wealth(p) /\ \A it \in Items : Owned(p, it)' <= Owned(p, it)
  <2>0. /\ zuly \in [Players -> Nat] /\ savedBank \in [Players -> Nat]
        /\ \A it : CountOf(items[p], it) \in Nat /\ CountOf(Kept(p), it) \in Nat
    BY <1>1, CopiesCount DEF StorageTypeOK, HoldingsTypeOK
  <2>1. ASSUME NEW q \in Players, NEW n \in 1..FullStack, NEW s \in InvSlots, Deposit(q, s, n)
        PROVE  Wealth(p)' <= Wealth(p) /\ \A it \in Items : Owned(p, it)' <= Owned(p, it)
    BY <1>1, <2>1, ZulyKept, DepositMakesNothing
  <2>2. ASSUME NEW q \in Players, NEW n \in 1..FullStack, NEW s \in StorageSlots, Withdraw(q, s, n)
        PROVE  Wealth(p)' <= Wealth(p) /\ \A it \in Items : Owned(p, it)' <= Owned(p, it)
    BY <1>1, <2>2, ZulyKept, WithdrawMakesNothing
  <2>3. ASSUME NEW q \in Players, NEW n \in 1..FullStack, DepositZuly(q, n) \/ WithdrawZuly(q, n)
        PROVE  Wealth(p)' <= Wealth(p) /\ \A it \in Items : Owned(p, it)' <= Owned(p, it)
    <3>1. Wealth(p)' <= Wealth(p)
      BY <1>1, <2>3, ZulyKept
    <3>2. /\ writes = <<>> /\ UNCHANGED <<items, savedStorage>>
          /\ writes' = <<Write(q, "bank", NoSlot)>>
      BY <2>3 DEF DepositZuly, WithdrawZuly, disk
    <3> QED BY <1>1, <3>1, <3>2, IdleMakesNothing
  <2>4. ASSUME writes = <<>>, writes' = <<>>, UNCHANGED <<items, zuly, savedStorage, savedBank>>
        PROVE  Wealth(p)' <= Wealth(p) /\ \A it \in Items : Owned(p, it)' <= Owned(p, it)
    <3>1. \A it \in Items : Owned(p, it)' <= Owned(p, it)
      BY <1>1, <2>4, IdleMakesNothing
    <3>2. Wealth(p)' = zuly[p] + savedBank[p]
      BY <2>4 DEF Wealth, Writing
    <3>3. Wealth(p) = zuly[p] + savedBank[p]
      BY <1>1, <2>4, KeptIdle
    <3> QED BY <2>0, <3>1, <3>2, <3>3
  <2>5. ASSUME NEW q \in Players, NEW n \in 1..FullStack, NEW s \in StorageSlots,
               WithdrawRefused(q, s, n)
        PROVE  Wealth(p)' <= Wealth(p) /\ \A it \in Items : Owned(p, it)' <= Owned(p, it)
    BY <2>4, <2>5 DEF WithdrawRefused, disk
  <2>6. ASSUME NEW q \in Players, NEW n \in 1..FullStack, WithdrawZulyRefused(q, n)
        PROVE  Wealth(p)' <= Wealth(p) /\ \A it \in Items : Owned(p, it)' <= Owned(p, it)
    BY <2>4, <2>6 DEF WithdrawZulyRefused, disk
  <2>7. ASSUME NEW q \in Players, savedata(q) \/ Relogin(q)
        PROVE  Wealth(p)' <= Wealth(p) /\ \A it \in Items : Owned(p, it)' <= Owned(p, it)
    BY <2>4, <2>7 DEF savedata, Relogin, memory
  <2>8. CASE Save
    <3>1. Kept(p)' = Kept(p) /\ Wealth(p)' = Wealth(p) /\ items' = items
      BY <1>1, <2>8, SaveKeeps DEF Save, memory
    <3>2. Wealth(p) \in Int
      BY <1>1 DEF Wealth, StorageTypeOK, HoldingsTypeOK
    <3> QED BY <2>0, <3>1, <3>2 DEF Owned
  <2>9. ~ Crash
    BY <1>1 DEF Crash, StorageTypeOK
  <2> QED BY <1>1, <2>1, <2>2, <2>3, <2>5, <2>6, <2>7, <2>8, <2>9 DEF StorageNext
<1>2. StorageTypeOK /\ CopiesAgree /\ [StorageNext]_storagevars =>
        [crashes' = crashes =>
           \A p \in Players : Wealth(p)' <= Wealth(p) /\ \A it \in Items : Owned(p, it)' <= Owned(p, it)]_storagevars
  BY <1>1
<1> QED BY <1>2, StorageTypeCorrect, CopiesAlwaysAgree, PTL DEF StorageSpec, NothingMade

\* Between requests nothing is pending.
LEMMA OneKindIdle ==
  ASSUME writes = <<>>,
         \A p \in Players, s \in StorageSlots : storage[p][s].item = savedStorage[p][s].item
  PROVE  OneKind
BY NothingWritten DEF OneKind

\* A move is of one kind.
LEMMA OneKindMove ==
  ASSUME NEW q \in Players, NEW r \in InvSlots, NEW room \in StorageSlots, NEW kind \in Items,
         OneKind, writes = <<>>,
         writes' = <<Write(q, "storage", room), Write(q, "items", r)>>,
         UNCHANGED <<savedItems, savedStorage>>,
         {items'[q][r].item, savedItems[q][r].item} \subseteq {kind, NoItem},
         {storage'[q][room].item, savedStorage[q][room].item} \subseteq {kind, NoItem},
         \A p \in Players, s \in StorageSlots : p # q \/ s # room => storage'[p][s] = storage[p][s]
  PROVE  OneKind'
<1>1. \A p \in Players, s \in InvSlots :
        Writing(p, "items", s)' => {items'[p][s].item, savedItems'[p][s].item} \subseteq {kind, NoItem}
  BY WritingMove
<1>2. \A p \in Players, s \in StorageSlots :
        Writing(p, "storage", s)' =>
          {storage'[p][s].item, savedStorage'[p][s].item} \subseteq {kind, NoItem}
  BY WritingMove
<1>3. \A p \in Players, s \in StorageSlots :
        Writing(p, "storage", s)' \/ storage'[p][s].item = savedStorage'[p][s].item
  BY WritingMove, NothingWritten DEF OneKind
<1> QED BY <1>1, <1>2, <1>3 DEF OneKind

LEMMA DepositOneKind ==
  ASSUME StorageTypeOK, CopiesAgree, OneKind, NEW q \in Players, NEW n \in 1..FullStack, NEW r \in InvSlots,
         Deposit(q, r, n)
  PROVE  OneKind'
<1>1. PICK room \in StorageSlots, m \in Nat \ {0}, it \in Items :
           /\ writes = <<>>
           /\ items[q][r].item = it /\ m <= items[q][r].count
           /\ storage[q][room] = Empty \/ storage[q][room].item = it
           /\ items' = [items EXCEPT ![q] = Taken(items[q], r, m)]
           /\ storage' = [storage EXCEPT ![q] = Added(storage[q], room, it, m)]
           /\ writes' = <<Write(q, "storage", room), Write(q, "items", r)>>
           /\ UNCHANGED <<bank, disk>>
  BY DepositDoes
<1>2. /\ items \in [Players -> [InvSlots -> Stacks]]
      /\ storage \in [Players -> [StorageSlots -> Stacks]]
  BY DEF StorageTypeOK, HoldingsTypeOK, Inventories, Storages
<1>3. items'[q][r].item \in {it, NoItem} /\ storage'[q][room].item = it
  BY <1>1, <1>2, StackTypes DEF Taken, Added, Stack
<1>4. savedItems[q][r] = items[q][r] /\ savedStorage[q][room].item = storage[q][room].item
  BY <1>1, AgreeIdle, NothingWritten DEF OneKind
<1>5. storage[q][room].item \in {it, NoItem}
  BY <1>1, StackTypes
<1>6. \A p \in Players, s \in StorageSlots : p # q \/ s # room => storage'[p][s] = storage[p][s]
  BY <1>1, <1>2 DEF Added
<1>7. UNCHANGED <<savedItems, savedStorage>>
  BY <1>1 DEF disk
<1> QED BY <1>1, <1>3, <1>4, <1>5, <1>6, <1>7, OneKindMove

LEMMA WithdrawOneKind ==
  ASSUME StorageTypeOK, CopiesAgree, OneKind, NEW q \in Players, NEW n \in 1..FullStack,
         NEW s \in StorageSlots, Withdraw(q, s, n)
  PROVE  OneKind'
<1>1. PICK room \in InvSlots, m \in Nat \ {0}, it \in Items :
           /\ writes = <<>>
           /\ savedStorage[q][s].item = it /\ m <= savedStorage[q][s].count
           /\ items[q][room] = Empty \/ items[q][room].item = it
           /\ items' = [items EXCEPT ![q] = Added(items[q], room, it, m)]
           /\ storage' = [storage EXCEPT ![q] =
                            Taken([storage[q] EXCEPT ![s] = savedStorage[q][s]], s, m)]
           /\ writes' = <<Write(q, "storage", s), Write(q, "items", room)>>
           /\ UNCHANGED <<bank, disk>>
  BY WithdrawDoes
<1>2. /\ items \in [Players -> [InvSlots -> Stacks]]
      /\ storage \in [Players -> [StorageSlots -> Stacks]]
  BY DEF StorageTypeOK, HoldingsTypeOK, Inventories, Storages
<1>3. items'[q][room].item = it /\ storage'[q][s].item \in {it, NoItem}
  BY <1>1, <1>2, StackTypes DEF Taken, Added, Stack
<1>4. savedItems[q][room] = items[q][room]
  BY <1>1, AgreeIdle
<1>5. items[q][room].item \in {it, NoItem}
  BY <1>1, StackTypes
<1>6. \A p \in Players, o \in StorageSlots : p # q \/ o # s => storage'[p][o] = storage[p][o]
  BY <1>1, <1>2 DEF Taken
<1>7. UNCHANGED <<savedItems, savedStorage>>
  BY <1>1 DEF disk
<1> QED BY <1>1, <1>3, <1>4, <1>5, <1>6, <1>7, OneKindMove

LEMMA RefusalOneKind ==
  ASSUME StorageTypeOK, OneKind, NEW q \in Players, NEW n \in 1..FullStack, NEW s \in StorageSlots,
         WithdrawRefused(q, s, n)
  PROVE  OneKind'
<1> DEFINE stack == GetSlotStorage(q, s)
           moved == Stack(stack.item, Moved(stack, n))
<1>1. stack \in Stacks /\ stack # Empty /\ stack.count <= Full(stack.item) /\ stack.item \in Items
  BY SlotRead, StackTypes DEF WithdrawRefused
<1>2. moved.item = stack.item
  BY <1>1, FullStackTypes, MovedFits, StackTypes
<1>3. storage \in [Players -> [StorageSlots -> Stacks]]
  BY DEF StorageTypeOK, Storages
<1>4. /\ writes = <<>> /\ storage' = [storage EXCEPT ![q][s] = moved]
      /\ UNCHANGED <<savedStorage, writes>>
  BY DEF WithdrawRefused, disk
<1>5. \A p \in Players, o \in StorageSlots : storage[p][o].item = savedStorage[p][o].item
  BY <1>4, NothingWritten DEF OneKind
<1>6. stack.item = savedStorage[q][s].item
  BY <1>5 DEF GetSlotStorage
<1> HIDE DEF stack, moved
<1>7. \A p \in Players, o \in StorageSlots : storage'[p][o].item = savedStorage'[p][o].item
  BY <1>2, <1>3, <1>4, <1>5, <1>6
<1>8. writes' = <<>>
  BY <1>4
<1> QED BY <1>7, <1>8 DEF OneKind, Writing

LEMMA SaveOneKind ==
  ASSUME StorageTypeOK, OneKind, Save
  PROVE  OneKind'
<1> DEFINE w == Head(writes)
<1>1. /\ savedItems \in [Players -> [InvSlots -> Stacks]]
      /\ savedStorage \in [Players -> [StorageSlots -> Stacks]]
  BY DEF StorageTypeOK, Inventories, Storages
<1>2. /\ savedStorage' = IF w.table = "storage"
                         THEN [savedStorage EXCEPT ![w.p][w.slot] = storage[w.p][w.slot]]
                         ELSE savedStorage
      /\ savedItems' = IF w.table = "items"
                       THEN [savedItems EXCEPT ![w.p][w.slot] = items[w.p][w.slot]]
                       ELSE savedItems
      /\ UNCHANGED <<items, storage>>
  BY DEF Save, memory
<1>3. \A p, table, slot : Writing(p, table, slot)' => Writing(p, table, slot)
  BY WritingBefore
<1>4. \A p \in Players, s \in InvSlots : savedItems'[p][s] \in {savedItems[p][s], items[p][s]}
  <2> HIDE DEF w
  <2> QED BY <1>1, <1>2
<1>5. \A p \in Players, s \in StorageSlots : savedStorage'[p][s] \in {savedStorage[p][s], storage[p][s]}
  <2> HIDE DEF w
  <2> QED BY <1>1, <1>2
<1>6. ASSUME NEW p \in Players, NEW s \in StorageSlots
      PROVE  Writing(p, "storage", s)' \/ storage'[p][s].item = savedStorage'[p][s].item
  <2>1. CASE w = Write(p, "storage", s)
    <3>1. w.p = p /\ w.table = "storage" /\ w.slot = s
      BY <2>1 DEF Write
    <3>2. savedStorage'[p][s] = storage[p][s]
      <4> HIDE DEF w
      <4> QED BY <1>1, <1>2, <3>1
    <3> QED BY <1>2, <3>2
  <2>2. CASE storage[p][s].item = savedStorage[p][s].item
    BY <1>2, <1>5, <2>2
  <2> QED BY <2>1, <2>2, WritingTail DEF OneKind
<1>7. PICK kind \in Items \cup {NoItem} :
        /\ \A p \in Players, s \in InvSlots :
             Writing(p, "items", s) => {items[p][s].item, savedItems[p][s].item} \subseteq {kind, NoItem}
        /\ \A p \in Players, s \in StorageSlots :
             Writing(p, "storage", s) =>
               {storage[p][s].item, savedStorage[p][s].item} \subseteq {kind, NoItem}
  BY DEF OneKind
<1>8. \A p \in Players, s \in InvSlots :
        Writing(p, "items", s)' => {items'[p][s].item, savedItems'[p][s].item} \subseteq {kind, NoItem}
  BY <1>2, <1>3, <1>4, <1>7
<1>9. \A p \in Players, s \in StorageSlots :
        Writing(p, "storage", s)' =>
          {storage'[p][s].item, savedStorage'[p][s].item} \subseteq {kind, NoItem}
  BY <1>2, <1>3, <1>5, <1>7
<1> QED BY <1>6, <1>8, <1>9 DEF OneKind

THEOREM OneKindAtATime == StorageSpec => []OneKind
<1>1. StorageInit => OneKind
  <2> SUFFICES ASSUME StorageInit PROVE OneKind
    OBVIOUS
  <2> QED BY OneKindIdle DEF StorageInit
<1>2. StorageTypeOK /\ CopiesAgree /\ OneKind /\ [StorageNext]_storagevars => OneKind'
  <2> SUFFICES ASSUME StorageTypeOK, CopiesAgree, OneKind, [StorageNext]_storagevars PROVE OneKind'
    OBVIOUS
  <2>0. /\ storage \in [Players -> [StorageSlots -> Stacks]]
        /\ savedStorage \in [Players -> [StorageSlots -> Stacks]]
    BY DEF StorageTypeOK, Storages
  <2>1. ASSUME NEW p \in Players, NEW n \in 1..FullStack, NEW s \in InvSlots, Deposit(p, s, n)
        PROVE  OneKind'
    BY <2>1, DepositOneKind
  <2>2. ASSUME NEW p \in Players, NEW n \in 1..FullStack, NEW s \in StorageSlots, Withdraw(p, s, n)
        PROVE  OneKind'
    BY <2>2, WithdrawOneKind
  <2>3. ASSUME NEW p \in Players, NEW n \in 1..FullStack, NEW s \in StorageSlots,
               WithdrawRefused(p, s, n)
        PROVE  OneKind'
    BY <2>3, RefusalOneKind
  <2>4. ASSUME writes = <<>>, UNCHANGED <<storage, savedStorage>>,
               writes' = <<>> \/ \E q : writes' = <<Write(q, "bank", NoSlot)>>
        PROVE  OneKind'
    <3>1. \A p \in Players, s \in StorageSlots : storage'[p][s].item = savedStorage'[p][s].item
      BY <2>4, NothingWritten DEF OneKind
    <3>2. \A p, s : ~ Writing(p, "storage", s)' /\ ~ Writing(p, "items", s)'
      <4>1. CASE writes' = <<>>
        BY <4>1 DEF Writing
      <4>2. ASSUME NEW q, writes' = <<Write(q, "bank", NoSlot)>>
            PROVE  \A p, s : ~ Writing(p, "storage", s)' /\ ~ Writing(p, "items", s)'
        <5>1. DOMAIN writes' = {1} /\ writes'[1] = Write(q, "bank", NoSlot)
          BY <4>2
        <5>2. \A p, s : /\ Write(q, "bank", NoSlot) # Write(p, "storage", s)
                        /\ Write(q, "bank", NoSlot) # Write(p, "items", s)
          BY DEF Write
        <5> QED BY <5>1, <5>2 DEF Writing
      <4> QED BY <2>4, <4>1, <4>2
    <3> QED BY <3>1, <3>2 DEF OneKind
  <2>5. ASSUME NEW p \in Players, NEW n \in 1..FullStack,
               DepositZuly(p, n) \/ WithdrawZuly(p, n) \/ WithdrawZulyRefused(p, n)
        PROVE  OneKind'
    BY <2>4, <2>5 DEF DepositZuly, WithdrawZuly, WithdrawZulyRefused, disk
  <2>6. ASSUME NEW p \in Players, savedata(p)
        PROVE  OneKind'
    BY <2>4, <2>6 DEF savedata, memory
  <2>7. ASSUME NEW p \in Players, Relogin(p)
        PROVE  OneKind'
    <3>1. writes' = <<>> /\ storage' = [storage EXCEPT ![p] = savedStorage[p]]
          /\ savedStorage' = savedStorage /\ writes = <<>>
      BY <2>7 DEF Relogin
    <3>2. \A q \in Players, s \in StorageSlots : storage'[q][s].item = savedStorage'[q][s].item
      BY <2>0, <3>1, NothingWritten DEF OneKind
    <3> QED BY <3>1, <3>2 DEF OneKind, Writing
  <2>8. CASE Save
    BY <2>8, SaveOneKind
  <2>9. CASE Crash
    <3>1. writes' = <<>> /\ storage' = savedStorage' 
      BY <2>9 DEF Crash, disk
    <3> QED BY <3>1 DEF OneKind, Writing
  <2>10. CASE UNCHANGED storagevars
    BY <2>10 DEF storagevars, memory, disk, OneKind, Writing
  <2> QED
    BY <2>1, <2>2, <2>3, <2>5, <2>6, <2>7, <2>8, <2>9, <2>10 DEF StorageNext
<1> QED BY <1>1, <1>2, StorageTypeCorrect, CopiesAlwaysAgree, PTL DEF StorageSpec

\* What is not being written counts the same after the server stops.
LEMMA OthersUntouched ==
  ASSUME StorageTypeOK, CopiesAgree, Crash, NEW p \in Players, NEW it \in Items,
         \A s \in InvSlots : Writing(p, "items", s) => items[p][s].item # it /\ savedItems[p][s].item # it,
         \A s \in StorageSlots :
           Writing(p, "storage", s) => storage[p][s].item # it /\ savedStorage[p][s].item # it
  PROVE  Owned(p, it)' = Owned(p, it)
<1>1. /\ items[p] \in [InvSlots -> Stacks] /\ savedItems[p] \in [InvSlots -> Stacks]
      /\ savedStorage[p] \in [StorageSlots -> Stacks] /\ Kept(p) \in [StorageSlots -> Stacks]
      /\ IsFiniteSet(InvSlots) /\ IsFiniteSet(StorageSlots)
  BY CopiesCount
<1>2. \A s \in InvSlots : OfItem(items[p][s], it) = OfItem(savedItems[p][s], it)
  BY DEF CopiesAgree, OfItem
<1>3. \A s \in StorageSlots : OfItem(Kept(p)[s], it) = OfItem(savedStorage[p][s], it)
  BY DEF Kept, OfItem
<1>4. CountOf(items[p], it) = CountOf(savedItems[p], it)
  <2>1. IsFiniteSet(InvSlots) /\ items[p] \in [InvSlots -> Stacks] /\ savedItems[p] \in [InvSlots -> Stacks]
    BY <1>1
  <2> QED BY <1>2, <2>1, CountAgrees
<1>5. CountOf(Kept(p), it) = CountOf(savedStorage[p], it)
  <2> DEFINE kept == Kept(p)
  <2>1. /\ IsFiniteSet(StorageSlots) /\ kept \in [StorageSlots -> Stacks]
        /\ savedStorage[p] \in [StorageSlots -> Stacks]
        /\ \A s \in StorageSlots : OfItem(kept[s], it) = OfItem(savedStorage[p][s], it)
    BY <1>1, <1>3
  <2> HIDE DEF kept
  <2>2. CountOf(kept, it) = CountOf(savedStorage[p], it)
    BY <2>1, CountAgrees
  <2> QED BY <2>2 DEF kept
<1>6. items' = savedItems /\ Kept(p)' = savedStorage[p]
  <2>1. writes' = <<>> /\ savedStorage' = savedStorage /\ items' = savedItems
    BY DEF Crash, disk
  <2> QED BY <1>1, <2>1 DEF Kept, Writing
<1> QED BY <1>4, <1>5, <1>6 DEF Owned

\* A stop of the server costs or gives the kind of item that was being moved.
THEOREM CrashesTouchOneMove == StorageSpec => CrashTouchesOneMove
<1>1. ASSUME StorageTypeOK, CopiesAgree, OneKind, Crash, NEW p \in Players, NEW it \in Items,
             Owned(p, it)' # Owned(p, it)
      PROVE  /\ writes # <<>>
             /\ \A other \in Items \ {it} : Owned(p, other)' = Owned(p, other)
  <2>1. writes # <<>>
    <3> SUFFICES ASSUME writes = <<>> PROVE FALSE
      OBVIOUS
    <3> QED BY <1>1, NothingWritten, OthersUntouched
  <2>2. PICK kind \in Items \cup {NoItem} :
          /\ \A q \in Players, s \in InvSlots :
               Writing(q, "items", s) => {items[q][s].item, savedItems[q][s].item} \subseteq {kind, NoItem}
          /\ \A q \in Players, s \in StorageSlots :
               Writing(q, "storage", s) =>
                 {storage[q][s].item, savedStorage[q][s].item} \subseteq {kind, NoItem}
    BY <1>1 DEF OneKind
  <2>3. ASSUME NEW o \in Items, o # kind PROVE Owned(p, o)' = Owned(p, o)
    <3>1. o # NoItem
      BY ItemsAssumption
    <3>2. \A s \in InvSlots : Writing(p, "items", s) => items[p][s].item # o /\ savedItems[p][s].item # o
      BY <2>2, <2>3, <3>1
    <3>3. \A s \in StorageSlots :
            Writing(p, "storage", s) => storage[p][s].item # o /\ savedStorage[p][s].item # o
      BY <2>2, <2>3, <3>1
    <3> QED BY <1>1, <3>2, <3>3, OthersUntouched
  <2>4. it = kind
    BY <1>1, <2>3
  <2> QED BY <2>1, <2>3, <2>4
<1>2. StorageTypeOK /\ CopiesAgree /\ OneKind /\ [StorageNext]_storagevars =>
        [Crash => \A p \in Players, it \in Items :
           Owned(p, it)' # Owned(p, it) =>
             /\ writes # <<>>
             /\ \A other \in Items \ {it} : Owned(p, other)' = Owned(p, other)]_storagevars
  BY <1>1
<1> QED BY <1>2, StorageTypeCorrect, CopiesAlwaysAgree, OneKindAtATime, PTL DEF StorageSpec, CrashTouchesOneMove
=============================================================================
