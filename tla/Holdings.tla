------------------------------ MODULE Holdings ------------------------------
(***************************************************************************)
(* What a player owns on a world server: the zuly in CharInfo->Zulies and  *)
(* the inventory items[].  The handlers that move goods between players    *)
(* (trades, vendor shops), a storage and a clan vault all choose the slot  *)
(* of what arrives with GetNewItemSlot, which looks only at the tab of the *)
(* item.                                                                   *)
(*                                                                         *)
(* A slot holds [item, count]; every attribute of an item that no handler  *)
(* looks at when it moves goods (refine, gem, durability...) is part of    *)
(* "item".  ClearItem leaves Empty.  Slots are numbered from 1, slot 0 of  *)
(* the code's array is never used for goods.                               *)
(***************************************************************************)
EXTENDS Naturals, FiniteSets, FiniteSetsExt, Functions

CONSTANTS
  Players,     \* characters in the world, bots included
  Items,       \* kinds of item
  NoItem,      \* itemnum 0
  Stackables,  \* the items of types 10 to 13
  Tab,         \* the inventory slots of an item's tab (30 in the code)
  FullStack,   \* the largest stack (999 in the code)
  InitItems,   \* inventories at the start
  InitZuly     \* wallets at the start

ASSUME ItemsAssumption ==
  /\ Stackables \subseteq Items
  /\ NoItem \notin Items
  /\ Tab \in [Items -> SUBSET (Nat \ {0})]
  /\ FullStack \in Nat \ {0, 1}

VARIABLES
  items,   \* CPlayer::items
  zuly     \* CharInfo->Zulies

InvSlots == UNION {Tab[it] : it \in Items}
NoSlot   == 0   \* 0xffff

\* A world has so many players, and items[] is an array.
ASSUME FiniteAssumption == IsFiniteSet(Players) /\ IsFiniteSet(InvSlots)

Empty  == [item |-> NoItem, count |-> 0]
Stacks == {Empty} \cup [item : Items, count : Nat \ {0}]

Stack(it, n) == [item |-> it, count |-> n]
Full(it)     == IF it \in Stackables THEN FullStack ELSE 1

\* Inventories in which every stack fits.  (A vending bot's goods lie in the
\* equipment tab whatever they are.)
Inventories ==
  {inv \in [InvSlots -> Stacks] :
     \A s \in InvSlots : inv[s] # Empty => inv[s].count <= Full(inv[s].item)}

ASSUME StartAssumption ==
  InitItems \in [Players -> Inventories] /\ InitZuly \in [Players -> Nat]

\* A slot that has some of a stackable is taken first if the sum stays below
\* a full stack, else the first empty slot of the tab.
GetNewItemSlot(inv, stack) ==
  LET joins == {s \in Tab[stack.item] :
                  /\ stack.item \in Stackables
                  /\ inv[s].item = stack.item
                  /\ inv[s].count + stack.count < FullStack}
      empty == {s \in Tab[stack.item] : inv[s] = Empty}
  IN CASE joins # {} -> Min(joins)
       [] joins = {} /\ empty # {} -> Min(empty)
       [] OTHER -> NoSlot

\* n less in slot s; ClearItem when nothing is left.
Taken(inv, s, n) ==
  [inv EXCEPT ![s] = IF @.count <= n THEN Empty ELSE Stack(@.item, @.count - n)]

\* n of item it on top of what slot s holds.
Added(inv, s, it, n) == [inv EXCEPT ![s] = Stack(it, @.count + n)]

\* How many of an item an inventory holds; how many some players hold.
CountOf(inv, it) ==
  SumFunction([s \in DOMAIN inv |-> IF inv[s].item = it THEN inv[s].count ELSE 0])
CountHeld(owners, it) == SumFunction([p \in owners |-> CountOf(items[p], it)])
ZulyHeld(owners)      == SumFunctionOnSet(zuly, owners)

HoldingsTypeOK ==
  /\ items \in [Players -> Inventories]
  /\ zuly \in [Players -> Nat]
=============================================================================
