---------------------------- MODULE MCVendorShop ----------------------------
(***************************************************************************)
(* Small street markets: two items, one stackable; two tabs.               *)
(***************************************************************************)
EXTENDS VendorShop, TLC

CONSTANTS ann, ben, bot, guest, potion, sword

MCTab == (potion :> {1, 2}) @@ (sword :> {3})

\* A vending bot's goods lie in slots 1 and 2, the equipment tab; potions it
\* buys go to slot 3.
VendingTab == (potion :> {3}) @@ (sword :> {1, 2})

Bag(a, b, c) == <<a, b, c>>
Potions(n)   == Stack(potion, n)
Sword        == Stack(sword, 1)

\* Two players, a vending bot and a bot that browses.  With the price 3 and
\* Word 4 two potions are cheaper than one, as where price * count wraps.
StreetItems == (ann :> Bag(Empty, Empty, Potions(2))) @@ (ben :> Bag(Sword, Empty, Empty))
                 @@ (bot :> Bag(Potions(FullStack), Empty, Empty)) @@ (guest :> Bag(Empty, Empty, Empty))
StreetZuly  == (ann :> 0) @@ (ben :> 0) @@ (bot :> 3) @@ (guest :> 3)
=============================================================================
