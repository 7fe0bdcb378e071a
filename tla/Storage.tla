------------------------------ MODULE Storage -------------------------------
(***************************************************************************)
(* The storage of an account: a player lays goods in (for a fee) and takes *)
(* them out (pakChangeStorage), and moves zuly (pakStoreZuly).             *)
(*                                                                         *)
(* The world server keeps all of it twice, in memory and in MySQL.  Of a   *)
(* move of goods it changes the memory first and then writes the storage   *)
(* slot and the inventory slot, one statement each; "writes" holds the     *)
(* statements the handler has still to issue, and the server may stop      *)
(* between any two.  The wallet is written by savedata alone: by the       *)
(* autosave of the visibility thread, under PlayerMutex and so never       *)
(* inside a handler, and when the player leaves.                           *)
(*                                                                         *)
(* An account has one character in the game.  Statements do not fail here. *)
(***************************************************************************)
EXTENDS Holdings, Sequences

CONSTANTS
  Joining,        \* items that stack in a storage (types 10 and 12)
  StorageSlots,   \* 120 or 160 in the code
  Fee,            \* fee for one of an item
  MaxCrashes,     \* bound: how often the server stops
  InitStorage     \* storages at the start

\* Storages in which every stack fits.
Storages == {st \in [StorageSlots -> Stacks] :
               \A s \in StorageSlots : st[s] # Empty => st[s].count <= Full(st[s].item)}

ASSUME StorageAssumption ==
  /\ Joining \subseteq Stackables
  /\ StorageSlots \subseteq Nat \ {0} /\ IsFiniteSet(StorageSlots)
  /\ Fee \in [Items -> Nat]
  /\ MaxCrashes \in Nat
  /\ InitStorage \in [Players -> Storages]

VARIABLES
  storage,        \* CPlayer::storageitems
  bank,           \* CharInfo->Storage_Zulies
  savedItems,     \* table items
  savedZuly,      \* characters.zuly
  savedStorage,   \* table storage
  savedBank,      \* accounts.zulystorage
  writes,         \* statements the running handler has still to issue
  crashes

memory == <<items, zuly, storage, bank>>
disk   == <<savedItems, savedZuly, savedStorage, savedBank>>
storagevars   == <<memory, disk, writes, crashes>>

Statements == [p : Players, table : {"storage"}, slot : StorageSlots]
              \cup [p : Players, table : {"items"}, slot : InvSlots]
              \cup [p : Players, table : {"bank"}, slot : {NoSlot}]
Write(p, table, slot) == [p |-> p, table |-> table, slot |-> slot]

StorageInit ==
  /\ items = InitItems /\ savedItems = InitItems
  /\ zuly = InitZuly /\ savedZuly = InitZuly
  /\ storage = InitStorage /\ savedStorage = InitStorage
  /\ bank = [p \in Players |-> 0] /\ savedBank = [p \in Players |-> 0]
  /\ writes = <<>>
  /\ crashes = 0

-----------------------------------------------------------------------------
(* Goods *)

\* The first slot whose stack stays below a full one, else the first empty.
GetNewStorageItemSlot(inv, stack) ==
  LET joins == {s \in StorageSlots : /\ stack.item \in Joining
                                     /\ inv[s].item = stack.item
                                     /\ inv[s].count + stack.count < FullStack}
      empty == {s \in StorageSlots : inv[s] = Empty}
  IN CASE joins # {} -> Min(joins)
       [] joins = {} /\ empty # {} -> Min(empty)
       [] OTHER -> NoSlot

\* How many of a stack a request for n moves; the fee is on the request.
Moved(stack, n) ==
  IF stack.item \notin Stackables THEN 1 ELSE IF n < stack.count THEN n ELSE stack.count
Charge(stack, n) == IF stack.item \in Stackables THEN n * Fee[stack.item] ELSE Fee[stack.item]

\* Mutant of Deposit: the inventory slot is left to the autosave.
DepositSlotUnsaved(p, s, n) ==
  LET stack == items[p][s]
      moved == Stack(stack.item, Moved(stack, n))
      room  == GetNewStorageItemSlot(storage[p], moved)
  IN
  /\ writes = <<>>
  /\ stack # Empty
  /\ Charge(stack, n) <= zuly[p]
  /\ room # NoSlot
  /\ items' = [items EXCEPT ![p] = Taken(@, s, moved.count)]
  /\ zuly' = [zuly EXCEPT ![p] = @ - Charge(stack, n)]
  /\ storage' = [storage EXCEPT ![p] = Added(@, room, moved.item, moved.count)]
  /\ writes' = <<Write(p, "storage", room)>>
  /\ UNCHANGED <<bank, disk, crashes>>

Deposit(p, s, n) ==
  LET stack == items[p][s]
      moved == Stack(stack.item, Moved(stack, n))
      room  == GetNewStorageItemSlot(storage[p], moved)
  IN
  /\ writes = <<>>
  /\ stack # Empty
  /\ Charge(stack, n) <= zuly[p]
  /\ room # NoSlot
  /\ items' = [items EXCEPT ![p] = Taken(@, s, moved.count)]
  /\ zuly' = [zuly EXCEPT ![p] = @ - Charge(stack, n)]
  /\ storage' = [storage EXCEPT ![p] = Added(@, room, moved.item, moved.count)]
  /\ writes' = <<Write(p, "storage", room), Write(p, "items", s)>>
  /\ UNCHANGED <<bank, disk, crashes>>

\* GetSlotStorage: the row in the database counts, if there is one.
GetSlotStorage(p, s) ==
  IF savedStorage[p][s] # Empty THEN savedStorage[p][s] ELSE storage[p][s]

\* Mutant of Withdraw: the storage slot is not written.
WithdrawUnsaved(p, s, n) ==
  LET stack == GetSlotStorage(p, s)
      moved == Stack(stack.item, Moved(stack, n))
      room  == GetNewItemSlot(items[p], moved)
  IN
  /\ writes = <<>>
  /\ stack # Empty
  /\ room # NoSlot
  /\ storage' = [storage EXCEPT ![p] = Taken([@ EXCEPT ![s] = stack], s, moved.count)]
  /\ items' = [items EXCEPT ![p] = Added(@, room, moved.item, moved.count)]
  /\ writes' = <<Write(p, "items", room)>>
  /\ UNCHANGED <<zuly, bank, disk, crashes>>

Withdraw(p, s, n) ==
  LET stack == GetSlotStorage(p, s)
      moved == Stack(stack.item, Moved(stack, n))
      room  == GetNewItemSlot(items[p], moved)
  IN
  /\ writes = <<>>
  /\ stack # Empty
  /\ room # NoSlot
  /\ storage' = [storage EXCEPT ![p] = Taken([@ EXCEPT ![s] = stack], s, moved.count)]
  /\ items' = [items EXCEPT ![p] = Added(@, room, moved.item, moved.count)]
  /\ writes' = <<Write(p, "storage", s), Write(p, "items", room)>>
  /\ UNCHANGED <<zuly, bank, disk, crashes>>

\* Without room the part asked for is put where the whole stack was.
WithdrawRefused(p, s, n) ==
  LET stack == GetSlotStorage(p, s)
      moved == Stack(stack.item, Moved(stack, n))
  IN
  /\ writes = <<>>
  /\ stack # Empty
  /\ GetNewItemSlot(items[p], moved) = NoSlot
  /\ storage' = [storage EXCEPT ![p][s] = moved]
  /\ UNCHANGED <<items, zuly, bank, disk, writes, crashes>>

-----------------------------------------------------------------------------
(* Zuly *)

DepositZuly(p, n) ==
  /\ writes = <<>>
  /\ n <= zuly[p]
  /\ zuly' = [zuly EXCEPT ![p] = @ - n]
  /\ bank' = [bank EXCEPT ![p] = @ + n]
  /\ writes' = <<Write(p, "bank", NoSlot)>>
  /\ UNCHANGED <<items, storage, disk, crashes>>

\* The balance is read anew (GetZulyStorage) before it is looked at.
WithdrawZuly(p, n) ==
  /\ writes = <<>>
  /\ n <= savedBank[p]
  /\ zuly' = [zuly EXCEPT ![p] = @ + n]
  /\ bank' = [bank EXCEPT ![p] = savedBank[p] - n]
  /\ writes' = <<Write(p, "bank", NoSlot)>>
  /\ UNCHANGED <<items, storage, disk, crashes>>

WithdrawZulyRefused(p, n) ==
  /\ writes = <<>>
  /\ n > savedBank[p]
  /\ bank' = [bank EXCEPT ![p] = savedBank[p]]
  /\ UNCHANGED <<items, zuly, storage, disk, writes, crashes>>

-----------------------------------------------------------------------------
(* The database *)

\* SaveSlotStorage, SaveSlot41, SaveZulyStorage: the value is the memory's.
Save ==
  /\ writes # <<>>
  /\ LET w == Head(writes) IN
     /\ savedStorage' = IF w.table = "storage"
                        THEN [savedStorage EXCEPT ![w.p][w.slot] = storage[w.p][w.slot]]
                        ELSE savedStorage
     /\ savedItems' = IF w.table = "items"
                      THEN [savedItems EXCEPT ![w.p][w.slot] = items[w.p][w.slot]]
                      ELSE savedItems
     /\ savedBank' = IF w.table = "bank" THEN [savedBank EXCEPT ![w.p] = bank[w.p]]
                     ELSE savedBank
  /\ writes' = Tail(writes)
  /\ UNCHANGED <<memory, savedZuly, crashes>>

\* The autosave: the wallet, and every slot of the inventory that changed.
savedata(p) ==
  /\ writes = <<>>
  /\ savedZuly' = [savedZuly EXCEPT ![p] = zuly[p]]
  /\ savedItems' = [savedItems EXCEPT ![p] = items[p]]
  /\ UNCHANGED <<memory, savedStorage, savedBank, writes, crashes>>

\* A player leaves, which saves, and comes back, which loads.
Relogin(p) ==
  /\ writes = <<>>
  /\ savedZuly' = [savedZuly EXCEPT ![p] = zuly[p]]
  /\ savedItems' = [savedItems EXCEPT ![p] = items[p]]
  /\ storage' = [storage EXCEPT ![p] = savedStorage[p]]
  /\ bank' = [bank EXCEPT ![p] = savedBank[p]]
  /\ UNCHANGED <<items, zuly, savedStorage, savedBank, writes, crashes>>

\* The server stops, mid-handler or not; everyone loads what was written.
Crash ==
  /\ crashes < MaxCrashes
  /\ items' = savedItems /\ zuly' = savedZuly
  /\ storage' = savedStorage /\ bank' = savedBank
  /\ writes' = <<>>
  /\ crashes' = crashes + 1
  /\ UNCHANGED disk

StorageNext ==
  \/ \E p \in Players, n \in 1..FullStack :
       \/ \E s \in InvSlots : Deposit(p, s, n)
       \/ \E s \in StorageSlots : Withdraw(p, s, n) \/ WithdrawRefused(p, s, n)
       \/ DepositZuly(p, n)
       \/ WithdrawZuly(p, n)
       \/ WithdrawZulyRefused(p, n)
  \/ \E p \in Players : savedata(p) \/ Relogin(p)
  \/ Save
  \/ Crash

StorageSpec == StorageInit /\ [][StorageNext]_storagevars

-----------------------------------------------------------------------------
(* Properties *)

\* Balances are numbers and stacks fit, in the memory and in the database.
StorageTypeOK ==
  /\ HoldingsTypeOK
  /\ storage \in [Players -> Storages] /\ bank \in [Players -> Nat]
  /\ savedItems \in [Players -> Inventories] /\ savedZuly \in [Players -> Nat]
  /\ savedStorage \in [Players -> Storages] /\ savedBank \in [Players -> Nat]
  /\ writes \in Seq(Statements)
  /\ crashes \in 0..MaxCrashes

\* Between two requests the storage a player is shown holds no more than is
\* saved, and the inventory is the saved one: what they see survives a crash.
ShownIsSaved ==
  writes = <<>> =>
    /\ items = savedItems
    /\ bank = savedBank
    /\ \A p \in Players, s \in StorageSlots :
         storage[p][s] # Empty =>
           /\ storage[p][s].item = savedStorage[p][s].item
           /\ storage[p][s].count <= savedStorage[p][s].count

Writing(p, table, slot) == \E i \in DOMAIN writes : writes[i] = Write(p, table, slot)

\* The inductive form: the copies agree but for what is still to be written.
CopiesAgree ==
  /\ \A p \in Players, s \in InvSlots :
       Writing(p, "items", s) \/ items[p][s] = savedItems[p][s]
  /\ \A p \in Players : Writing(p, "bank", NoSlot) \/ bank[p] = savedBank[p]
  /\ \A p \in Players, s \in StorageSlots :
       \/ Writing(p, "storage", s) \/ storage[p][s] = Empty
       \/ /\ storage[p][s].item = savedStorage[p][s].item
          /\ storage[p][s].count <= savedStorage[p][s].count

\* What a handler has still to write is of one kind of item, in both copies, and
\* where nothing is pending the copies of a storage slot are of the same kind.
OneKind ==
  /\ \E kind \in Items \cup {NoItem} :
       /\ \A p \in Players, s \in InvSlots :
            Writing(p, "items", s) => {items[p][s].item, savedItems[p][s].item} \subseteq {kind, NoItem}
       /\ \A p \in Players, s \in StorageSlots :
            Writing(p, "storage", s) =>
              {storage[p][s].item, savedStorage[p][s].item} \subseteq {kind, NoItem}
  /\ \A p \in Players, s \in StorageSlots :
       Writing(p, "storage", s) \/ storage[p][s].item = savedStorage[p][s].item

\* What a player owns once the running handler has written everything.
Kept(p)    == [s \in StorageSlots |-> IF Writing(p, "storage", s) THEN storage[p][s]
                                      ELSE savedStorage[p][s]]
Owned(p, it) == CountOf(items[p], it) + CountOf(Kept(p), it)
Wealth(p)    == zuly[p] + IF Writing(p, "bank", NoSlot) THEN bank[p] ELSE savedBank[p]

\* As long as the server runs, no sequence of requests makes goods or zuly out
\* of the two copies ("get the slot concerned to refresh it from MySQL").
NothingMade ==
  [][crashes' = crashes =>
       \A p \in Players : Wealth(p)' <= Wealth(p) /\ \A it \in Items : Owned(p, it)' <= Owned(p, it)]_storagevars

\* A crash costs or gives goods only while a handler has statements to issue,
\* and then of one kind of item.
CrashTouchesOneMove ==
  [][Crash => \A p \in Players, it \in Items :
       Owned(p, it)' # Owned(p, it) =>
         /\ writes # <<>>
         /\ \A other \in Items \ {it} : Owned(p, other)' = Owned(p, other)]_storagevars
=============================================================================
