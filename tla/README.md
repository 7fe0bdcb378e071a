# Rose Resurrected: a TLA+ model of the three servers

All sources named here are under `src/VS_Projects/src/` (the top-level `Common/` and
`Login Server/` are older copies of the same code). The repository has no tests; its
documentation is the comments, `README.md` and the to-do list.

1. [Inventory](#1-inventory)
2. [Modules and what they model](#2-modules-and-what-they-model)
3. [Runs](#3-runs)
4. [Fairness](#4-fairness)
5. [Proofs](#5-proofs)
6. [Where code and documents disagree](#6-where-code-and-documents-disagree)
7. [Not modelled](#7-not-modelled)
8. [What is left](#8-what-is-left)

## 1. Inventory

The game runs as three kinds of server, each one process, that talk over TCP and share one
MySQL database. Each has one socket loop (`Common/SocketServer.cpp`); the world server also
has worker threads. A game client connects to the login server, then to a char server, then
to a world server ("channel").

### Components

| component | state | operations | interacts with | module |
|---|---|---|---|---|
| Login server, char server sessions, world server sessions (`loginpackets.cpp`, `charpackets.cpp`, `worldserver.cpp`) | connections, `ClientList` of each server, `accounts.online`, `accounts.lastsvr`, `channels`, `ChannelList` | login, choose a channel, identify, kick, leave | each other by 0x502 and by the table | AccountSession |
| Inventories and wallets (`playerfunctions.cpp`, `datatypes.h`) | `items[]`, `CharInfo->Zulies` | find a slot, join stacks, clear | everything that moves goods | Holdings |
| Street shops, vending bots (`worldpackets.cpp`, `PlayerBot.cpp`) | `Shop`: lists for sale and of wishes | open, close, buy, sell, restock, browse | inventories; bots run on another thread | VendorShop |
| Trade window (`worldpackets.cpp`) | `Trade`: partner, status, ten places | ask, accept, lay goods, lock, confirm, cancel | inventories, shops | Trade |
| Personal storage (`worldpackets.cpp`, `playerdata.cpp`) | `storageitems`, `Storage_Zulies`, four tables | deposit, withdraw, zuly, autosave | database | Storage |
| Mail (`gmcmds.cpp`) | table `mail_list` | send, claim, delete | wallets, inventories, autosave | Mail |
| Clan bank (`worldpackets.cpp`) | `list_clan.money` and a copy in each member | deposit, withdraw | wallets | ClanBank |
| Private dungeons (`DungeonManager.cpp`, `MainProcess.cpp`, `mapfunctions.cpp`) | `MapList`, `m_activeInstances`, `m_partyInstances` | create, enter, leave, respawn, wipe, time out, destroy | parties, four threads, three mutexes | Dungeons |
| Parties (`Party.cpp`, `partyfunctions.cpp`, `extrafunctions.cpp`) | `CParty`, `PARTY` of a character, `PartyList`, ids | invite, accept, leave, kick, lead, level | a disconnect leaves the party; dungeons, drops, bots | Party |
| Friends (`community.cpp`) | `list_friend`, `FriendList` of each client | invite, accept, delete, status | clients of the char server, world server's 0xfa | CharClients, Messenger |
| Chatrooms (`charpackets.cpp`) | `chatroom_list`, `People_list`, the room of a client | list, create, join, leave | clients of the char server | CharClients, Chatrooms |
| Clan roster (`Char_Server/clan.cpp`, `World_Server/clan.cpp`) | rows of `characters`, entries and lists of the char server, copies of the world server | found, invite, leave, kick, promote, master, disband | packets both ways, savedata, restarts | ClanRoster |
| Client ids (`extrafunctions.cpp`) | `ClientIDList` | give, clear | logins, teleports, monsters, drops on three threads | ClientIds |
| Drops (`worldpackets.cpp`, `worldmap.cpp`, `mapfunctions.cpp`) | `DropsList` of a map | drop, pick up, expire | inventories, ids, threads | Field |
| Monsters and summons (`mapfunctions.cpp`, `worldmap.cpp`, `MonsterEvents.cpp`) | `MonsterSpawnList`, `MonsterList`, `cur_gauge` | spawn, die, delete, summon, give back | players on the map, threads | SpawnArea, Monsters |
| Socket loop, database layer, channel and character lists | `ClientList`, `SQLMutex`, tables | select, dispatch, query | all servers | section 7 |
| Arena, combat, quests, commands, bots' AI, NPC shops, crafting, loading, support | one character, monster or file each | handlers, timers | maps | section 7 |

`PROJECT.json` lists them with their status and the reason where one is left out.

### How they interact

* *Sessions.* `accounts.online` and `accounts.lastsvr` are shared memory of the three
  servers, read and written in separate statements. A re-login at the login server sends the
  packet 0x502 to every char server, which passes it to one world server; the packets are in
  flight while other handlers run.
* *Goods.* Shops, trades, storages, mails and drops change the same `items[]`. Lists and offers
  are copies of it that are looked at again, or not, when goods move.
* *Memory and database.* The world server changes its memory first and writes slot by slot;
  the wallet is written by `savedata` only. A server that stops loads what was written. Mail and
  the clan bank write their side at once, so a stop undoes one side of a transfer.
* *Char server and world server* both know a player, its clan and whether it is there, and tell
  each other by packets that arrive later. Each handles one packet at a time.
* *Parties* decide whose dungeon a gate leads to, and are left by a disconnect.
* *Client ids* name players, monsters and drops in every packet; three threads give them out.

### Threads and mutexes of a world server

With `usethreads = 0` (the default, `worldserver.cpp:621`) the socket loop runs every packet
handler under `PlayerMutex`. `VisibilityProcess` (bots, autosave) and `MapProcess` (player
timers, shared experience) take `PlayerMutex` and then `MapMutex`. `WorldProcess` (monsters, drops)
takes `MapMutex` for its round over the maps and calls the dungeons' `Update` with none. Hence

* handlers, bots' updates, the autosave and the party's experience are atomic with respect
  to each other, and are single actions in `VendorShop`, `Trade`, `Storage`, `Mail`, `ClanBank`, `Party`;
* the world thread is not: `Dungeons` and `Field` split what it runs beside. In `Monsters`
  the threads meet at the map's `MonsterMutex`, under which both go over `MonsterList`.

The char server has one thread. Between it and the world server only packets interleave, so in
`Community` and `ClanRoster` a handler is one step and a packet waits in a sequence.

### What is hard, and what would be correct

| component | hard | correct means |
|---|---|---|
| sessions | kicks in flight, flags read before they are written, entries that wait for `FillFDS`, crashes | one char entry and one avatar per account and server, an avatar saved before it is loaded again, a stale flag never locks an account out |
| shops, trades | stale lists, packets in any order, stacks at 999, wrapped prices, bots on another thread | nothing is made or lost but what was agreed, nothing negative, bots stay stocked |
| storage | two copies, crash between two statements | goods and zuly are never doubled while the server runs; a crash touches only the move it interrupts; what is shown is saved |
| mail, clan bank | one side in the table, one in memory; copies of a balance that are never refreshed | zuly is made and lost only where a crash or a stale copy does it |
| dungeons | three mutexes, deletion beside players that enter, slots that are reused | tables agree, a gate leads to the own dungeon, no round meets a deleted map, every instance collapses |
| parties | invitations by client and not by party, bots with caps of their own, ids that run past their table, departure of leaders | lists and pointers agree, ids within the table unique, nobody alone, never overfull, a leader after every departure |
| friends, chatrooms | two rows and two lists per friendship, statements that fail, departures reported late, two lists per room | friendships mutual, nobody shown who is not there, who is in a room is listed, a client that leaves is unlisted |
| clans | four places say who belongs to what, a server writes its copy back, requests that test no rank, packets that are not understood or go nowhere | copies agree once the packets have arrived if they were sent, one master unless another was named by somebody else, no list outrun but through the row of an outsider |
| ids, drops | `trylock` taken for "my thread holds it", pointers kept without the mutex, erasing while going round | one user per id, no id lost, one place per item, old drops go |
| monsters | a pointer that goes round groups which may be empty or unknown, an owner known by an id that changes | an area that can go on does, the gauge is what the summons cost |

`PROJECT.json` has each hazard at its line with the properties aimed at it.

## 2. Modules and what they model

```
AvatarLease <-refined by- AccountSession                       -- MCAccountSession, AccountSession_proofs
Holdings <-- VendorShop <-- Trade                              -- MCVendorShop, MCTrade, Goods_proofs
         <-- Storage                                           -- MCStorage, Goods_proofs
         <-- Mail <-- ClanBank                                 -- MCClanBank, Clan_proofs
Dungeons                                                       -- MCDungeons, Dungeons_proofs
Party                                                          -- MCParty, Party_proofs
CharClients <-- Messenger, Chatrooms <-- Community             -- MCCommunity, Community_proofs
ClanRoster                                                     -- MCClan, Clan_proofs
ClientIds <-- Field                                            -- MCField, Field_proofs
SpawnArea <-- Monsters                                         -- MCMonsters, Field_proofs
Sums_proofs (sums over sets)         used by Goods_proofs, Clan_proofs and Field_proofs
```

Action names are the handlers' names where one handler is one action. `PROJECT.json` maps each
definition to its lines. Definitions marked "Mutant" in a comment are wrong variants of the
definition after them, kept to show that a property notices the difference.

**AccountSession** composes the login server, the char server and the world servers of one
account. `pakUserLogin` with the flag set is a re-login in two steps (the kick and then the
`UPDATE` that clears the flag, `loginStep`); `pakDoIdentify` of the char server is two steps
(`SELECT online`, then `UPDATE online=1`, `charStep`). `toChar` and `toWorld` are the kicks
under way. An entry of `ClientList` is `"none"`, `"in"`, or `"dropped"`, which is inactive and
waits for `FillFDS` to free it: an inactive entry still counts in searches by user id,
and freeing it runs `OnClientDisconnect`, which saves the avatar and clears the flag.
Connections of live clients may break and servers may crash, `MaxFaults` times together. A world server connects to the char
server once, when it starts (`worldserver.cpp:496`): a char server that starts again finds it in the table `channels`, and sends players there, but has
it on no `channelList`, and forwards no kick, until the world server has started again as well.

**AvatarLease** is what that protocol promises of the character's data: on each world server,
held by one client at a time and released before it is granted again. `ImplementsLease`
states the refinement: the holder is the client that has an entry there.

**Holdings** has what a player owns, and the operators that all movers of goods share:
`GetNewItemSlot` (first slot of the item's tab whose stack stays below 999, else the first empty
one), adding and taking. A slot is an item and a count; refine, gems and durability are part
of the item since no mover looks at them.

**VendorShop** has `pakOpenShop`, `pakCloseShop`, `pakBuyShop`, `pakSellShop`, the vending bots'
lists (`PopulateVendingInventory`, `PopulateVendingBuyList`, restocking in `pakBuyShop`) and
bots that buy (`CheckPlayerShops`). Lists keep the rest of an older one as the code's arrays do.
A purchase is refused or made by the code's own tests, in their order.

**Trade** adds the trade window (`pakTradeAction`, `pakTradeAdd`) to `VendorShop`. Its `MarketSpec`
is the composition: a step is one of the trade or one of the shops, on the same inventories.
Every packet names its partner and the server keeps only the last named; the statuses are
the code's numbers. Packets come in any order, from anybody to anybody.

**Storage** keeps memory and database apart. A handler changes the memory and leaves in `writes`
the statements it has still to issue; `Save` issues one; `Crash` may come at any point, after
which everyone loads what was written.

**Mail** has `/mail send`, `claim` and `delete` of the world server: a row of `mail_list` and nothing else. What is
attached leaves and enters memory only; the tables of the players get it from `savedata`, by the autosave (`autosave`) or
when the player leaves; `Halt` is a crash. The goods of a mail never come out again: `BuildItemHead` packs no type and the
claim tests for one, so a claim of a mail with goods is refused (section 6).

**ClanBank** composes the mail with the clan's bank: the column `money` and each member's copy of it, which is
read at login. A deposit and a withdrawal test the copy, change it, and write it over the column. `made` counts what
stale copies and crashes make.

**Dungeons** has one `pc` per thread. `pakGate` looks the instance up under `m_dungeonMutex`, or creates
it (`CreateInstance`, `Register` under `MapMutex`, `Publish`), lets go of the mutex and then
teleports (`TeleportPlayer`, `TeleportPlayerArrives`). The world thread's `Update` takes a copy of
the instances, wipes or times them out (`HandlePartyWipe`, `HandleTimeout`) and destroys them
(`Unpublish`, `Unregister`, `Delete`: three steps, under one mutex, another, and none). Maps lie
on a heap whose places are reused, as slots are.

**Party** has both kinds of party: of players (on `PartyList`, with an id) and of bots (never listed).
An accepted invitation founds a party, or joins the one the inviter has by then; the one who invited may be a bot (`botParties`: parties founded
with one in them), since the client id named may have been given to it meanwhile. `Removal` is
what leaving, a kick and a disconnect have in common; `RemoveBot` is what happens to a bot instead. `GetNewPartyID` takes the first id from `last_pid` on
that is not marked: `last_pid` only goes up, `PartyIDList` ends at 0xfff (`MaxId`) and the loop at 0xffff. So after 4,095 foundations in all, even with one
party alive, it reads behind the table. What it finds there is a parameter of the action (`b0`), chosen anew each time,
and nothing initializes the table either: `strayMarks` are ids that look taken from the start.

**CharClients** has the clients of the char server: an entry is `"off"`, `"title"`, `"select"`, `"game"` or `"leaving"`, and the packets 0xfa
by which the world server reports that a player has gone (`toChar`) arrive later, and may name a player that is back.
**Messenger** adds friends: the rows of `list_friend` and each client's `FriendList`, with what the game shows (`shown`).
An accepted invitation is two `INSERT`s, of which one may fail and end the connection (`AcceptCut`);
a deletion changes the rows and leaves the copies. **Chatrooms** adds rooms: `People_list` names characters, a client knows a
number, and `GetChatroomID` answers 0xff when none is free. **Community** composes the two: whatever ends or
lists a client (`OnClientDisconnect`, `pakGetCharacters`) changes both in one step, in the order of the code's early
returns: a client whose clan is not found never reaches the chatroom part.

**ClanRoster** keeps the four places that name a character's clan apart: `row`, `entry`, `members` and `player`. The requests of the clan
window act on the first three and tell the world server by a packet (`toWorld`); the world server founds clans (`toChar`) and
writes `player` back into `row` at every `savedata`. The guards are those of the handlers and no more: any client may send a kick, a promotion, a
demotion (0x03, 0x04, 0x05) or name a master (0x09) for any character, whatever its own rank and either's clan, and may answer an invitation
that nobody sent; nothing waits for a packet on its way. The acceptance of an invitation writes `SET clanid=%i AND clan_rank=1`, so the row is wrong until
the next `savedata`. `Disband` tells nobody: its packet 0xfd is the one that is not encrypted (`clan.cpp:1120`), and the world server decrypts
everything (`SocketClient.cpp:96`), so it is an unknown command there. Nor does anything reach a world server
after a restart of the char server (`linked`) until it has started again itself (`WorldRestart`). `Overrun` is a change of rank that indexes past the list,
which stops the char server; so does one whose sender is in no clan that is listed.

Four variables are history. `decided` is what was decided last, which the properties compare with. `missed` are those whose player on the
world server was not told of it; `usurped` are clans a master was named for by somebody who did not lead them. `drifted` becomes true when
something is done on the strength of a copy that is out of date: such a row is read, a clan is founded by somebody who is decided to be in one or its news
finds the founder gone, somebody joins who is in a clan, or is kicked by somebody of another clan.

**ClientIds** has the two halves of `GetNewClientID` (search, write) and `ClearClientID`. **Field** has one map with what uses ids:
players, a bot, a monster, drops. The socket thread and the world thread each have a place in their code
(`sock`, `world`) and the mutexes they could lock; the map thread excludes both, so its steps are whole. `mixed`
becomes true when two searches are under way at once, when an id in use is cleared, or when a deleted drop is read; a
process that uses deleted memory may also end (`Crash`).

**SpawnArea** has a `CSpawnArea`: `MobPointer`, `MCount` and `ResetSpawn` of `RespawnMonster`, with the recount of `DeleteMonster` and with
`AddMonster` calls that fail because the monster's kind is unknown. **Monsters** puts one area on the map `Home` and adds players
that come, go, die and cast, and their summons with `SummonUpdate`. A summon keeps the caster's client id, which lasts until the caster
teleports or leaves (`owned`), and its user id; `paid` says that its cost is out of the gauge.

## 3. Runs

Every run is expected to pass and is exhaustive over the instance below, within the constraints named. `PROJECT.json` gives the
configuration, the properties and, for each property, a mutant of the code that violates it.

| run | instance | properties | question |
|---|---|---|---|
| `session` | 2 clients of one account, 1 world, 2 kicks in flight, 2 faults | `OneCharEntry`, `OnlyReloginUnmarksAvatar`, `ImplementsLease`, `RetryGetsIn` | exclusion on both servers, who clears the flag, the lease, getting in again |
| `shop_bots` | 2 players, a vending bot, a browsing bot, one stackable and one single item, stacks of 2, `Word` 4 | `TypeOK`, `BotStockFull`, `ZulyConserved` | wallets and stacks stay in range, the bot stays stocked, zuly is only moved |
| `trade` | 2 players and a bot that accepts, 2 places each, bags full to the last slot | `WealthConserved`, `OnlyOfferedLeaves` | goods and zuly are conserved, and only what was laid down leaves |
| `market` | 2 players with shops and trades at once, a bot that is barred from trades | `WealthConserved` | the same over the composition |
| `storage` | 3 inventory slots, 2 storage slots, stacks of 3, 1 crash | `ShownIsSaved`, `NothingMade`, `CrashTouchesOneMove` | nothing made, what is shown is saved, what a crash can touch |
| `bank` | 2 members, one a deputy; 2 mails, 1 crash, amounts 0 and 1 | `MadeTwoWaysOnly`, `LostTwoWaysOnly` | where zuly comes from and goes to |
| `dungeons` | 2 players, 1 party, 1 gate, 1 slot, 1 watcher and the world thread | `TablesAgree`, `OwnDungeon`, `RoundsUndisturbed`, `Collapses` | tables, own dungeon, rounds, collapse; no deadlock |
| `party` | 3 players and a bot, 3 parties, capacities 2 and 3, a table of the ids 1 and 2 with any marks, one byte behind it | `MembersAgree`, `IdsAgree`, `SizesRight`, `LeavingLeavesLeader` | the books of the parties |
| `community` | 2 clients, one with 2 characters; 2 regular rooms and the number that means none; 2 packets, 1 failed statement | `RowsMutual`, `CopyCoversTable`, `ShownIsThere`, `RoomsRight`, `LeavingUnlists` | friends and rooms through comings and goings |
| `clan` | 3 characters, 2 clans, 2 packets each way, 1 stop of a server | `EntriesRight`, `ListsRight`, `OneMaster`, `PlayerFollows`, `NoOverrun` | do all copies follow what was decided? |
| `field` | 2 players, 1 bot, 1 monster, 2 items, 4 ids | `IdsUnique`, `GivenIsUsed`, `ThingsKept`, `EachRoundCleans`, `DeletedTwiceOnlyOld` | ids and drops between three threads |
| `monsters` | 2 players, 2 maps, 16 rows of spawns, gauge 2, 3 summons | `ComesAgain`, `GaugeRight` | which areas go on for ever, when the gauge is wrong |

**Bounds, and why they are enough.**

* *Sessions.* Two clients are the account's old and new session; a third would be a second old
  one. Two kicks in flight let one arrive late and hit the newer session. Two faults are a crash
  and a lost connection, or a crash of both servers. With one world the char server's single
  `charChannel` is always right; section 6 says what a second one changes.
* *Goods.* `FullStack` is 2 or 3 instead of 999, so that stacks fill within a few moves; tabs
  have one or two slots, so that a bag is full, joins, or is empty within the run. `Word` is
  4 so that `price * count` wraps at prices that fit the instance. `MaxZuly` caps what the
  bots are given (the refill is the only source of zuly). `can_trade` of a bot is never initialized:
  `trade` has a bot for which it is on (`Barred = {}`), `market` one for which it is off.
* *Storage.* Two storage slots distinguish "joins", "first empty" and "no room". One crash is enough:
  a crash leaves no trace but the tables, and the state after it is an ordinary one.
* *Bank.* Two members are two copies that can differ; amounts 0 and 1 include the deposit of nothing. `LittleMade` stops
  a behaviour once `MaxMade` zuly have come out of nothing, after which the same would happen at larger sums.
* *Dungeons.* One slot and one map make every reuse of either happen at once; `MaxPartyChanges`
  1 lets a player change its party between the lookup and the teleport. With two slots the run
  would exceed what TLC does in minutes; the safety properties are proved for any number.
* *Party.* Parties of 2 and 3, one level apart, reach "full", "last two" and "dissolve". The table has two ids, of which any may be marked from the start, and
  the loop reads one byte more (`MaxId` 2, `LastIndex` 3), so ids go past the table and come round again after three foundations. Players are symmetric, and so are the handles of parties.
* *Community.* `OneAtRest` keeps friends or chatrooms in their initial state: they share the clients and nothing else.
  Its part `NoLatePackets` lets chatrooms look at departures that are not overtaken by a login, since chatrooms ignore the packet.
  `LastRoom` 3 gives two regular rooms and the number that means none, which becomes a room as well; `FewRooms` stops where a regular room is founded beside
  that one and the other. Rooms hold one more than their size, and `MaxListed` bounds how often a member can be listed.
* *Clan.* `UpToDrift` ends a behaviour when something is done on the strength of a copy that is out of date, since all properties speak of the time before.
  `NotTooMuch` counts what is out of the ordinary (packets on their way, characters connected to one server only, `missed`, `usurped`, a stop,
  the second clan and, twice, the third character) and allows `MaxAtOnce` of it, three, at a time: enough for a stop with a clan that was
  usurped and a packet, or a third character with a packet or half a connection. `NoMasterOutside` goes no further from a state where a character without a clan has
  a master's rank, which 0x09 may give; from there it founds or joins like others. `TopRank` is 1 instead of 5: ranks between are alike. Characters are symmetric: the order
  of a list of members, which SYMMETRY does not respect under `SELECT ... ORDER BY`, is looked at by no step and no property before a drift.
  The theorems have none of these bounds.
* *Field.* `UntilMixed` ends a behaviour when an id is mixed up, and `FewLeaks` (`MaxLeaks` 1) when a second id is
  forgotten; all safety properties of the run are also proved, without these bounds. Four ids are the most that the run's things can use at once
  beside a leak; one item per bag makes a full inventory an ordinary case.
* *Monsters.* The rows of `MCRows` have groups that are full, empty, or of unknown monsters, in every combination that `MobPointer` treats
  differently. Groups count 0, 1 or 2. The area and the summons share only the players, so `MCInit` looks at each row with players that
  cast nothing, and at one player's summons beside an area that never changes. `MaxSummons` 3 exceeds the gauge of 2, which a cost that is given
  back too early makes possible. `Life` 2 is one visit that leaves a summon alive and one that does not.

Deadlock is checked in all runs but `session`: there faults are bounded and
clients may leave for good, after which nothing need happen.

## 4. Fairness

*Sessions* (`FairSpec` of `AccountSession`, weak fairness only). The socket loops keep running: a
handler that has begun ends, a kick that was sent is read, `FillFDS` frees inactive entries, a dead
connection is noticed, a crashed world server is restarted. A client that is alive keeps trying. No fairness is
put on leaving. `RetryGetsIn` says: if in the end one client of the account is left and no kick is in
flight when it goes from the login to the char server, it is in the world again and again (in spite
of the flags and entries its predecessors left). The second condition is needed: a re-login
sends a kick for its own account, and when this arrives after the player has identified it kicks the newcomer,
who logs in again, and so on. The kick travels over a local connection while the
player has to type a password, so the code relies on it arriving first.

*Dungeons* (`FairSpec` of `Dungeons`). The watchers leave their rounds (weak). The world thread and `Register` wait
for mutexes that others take again and again, so they need strong fairness: the threads sleep between
rounds, and a mutex that is free again and again is got in the end. `Publish` follows `Register`, and the clock of
an instance runs (`Expire`). Nothing is assumed of players: `Collapses` holds although
one may walk in at every look.

*Monsters* (`Fairness` of `Monsters`, weak). The world thread comes to `RespawnMonster` and the map thread to dead monsters on every map
with players (`MainProcess.cpp:964`, `:88`), as long as the server runs. Nothing is assumed of players, of how long monsters live, or of summons.
`ComesAgain` therefore asks that players be on the map from some time on; the first half would be false if they only passed by.

The other specifications are safety specifications and state no fairness.

## 5. Proofs

All proofs are checked by TLAPS for every value of the constants, from the named assumptions of the
modules, which the runs evaluate. They say that sentinels are not members, bounds are numbers, initial holdings are well formed
(`StartAssumption`), a vending bot's goods are full stacks (as in `VendingCatalog`), capacities do not fall with the level, and that there
are finitely many players and inventory slots (`FiniteAssumption`: the code has arrays), without which a sum over them would mean nothing.
Every property of a run that is not a liveness property is stated by a theorem.

* **AccountSession_proofs.** `TypeCorrect`, `CharExclusion`, `AvatarExclusion`, `LeaseRefinement`. One char entry
  per account is not inductive: `pakDoIdentify` looks for rivals in one step and adds the entry
  in another. The strengthening says that while a client is between the two (`charStep`) it has no
  rivals, and that the single thread lets no other identification in. For the
  world server, where the test and the entry are one step, `OneAvatarPerWorld` is inductive with
  the types. The refinement then maps each step to a grant, a release, the loss of all, or a stutter.
  The account's flag `online` is shared by the worlds. `ReloginUnmarks` is `OnlyReloginUnmarksAvatar`, which is about one world server and therefore
  has `Worlds = {world}` as a hypothesis; `ReloginOrElsewhereUnmarks` says for any number what else may clear the flag under an avatar
  (`ElsewhereUnmarked`: another world server ends an entry of its own, or starts again). Both need `OneAvatarPerWorld`: a late disconnect
  clears the flag of its account, and finds no second entry of it on its server; and `DownIsEmpty`: a world server that is down has no entries.
* **Sums_proofs.** What `SumFunctionOnSet` and `SumFunction` compute: type and sign, one term added, changed, passed from one place to another or left out, two functions added,
  a set split in two, and terms gathered by a function (`SumGathered`). The community modules define the sum by a fold
  over an arbitrary order; `SumIs` and `SummingUnique` show that no order matters. The induction is over the number of elements:
  the library's induction theorem takes a predicate, which the provers cannot be given, so `Induction` has a set of numbers in its place.
* **Goods_proofs.** First what `GetNewItemSlot` returns: a slot of the right tab that is empty or has room
  for the whole stack, or none; with it adding and taking keep `Inventories`.
  * *Shops.* `ShopTypeCorrect` says that wallets stay natural numbers and stacks fit
    whatever stale list is sold from. `BotsStayStocked`: the slots a vending bot lists are
    full stacks; buying from players cannot disturb them because `GetNewItemSlot` never chooses a
    full slot, and a sale restocks in the same handler. `SalesConserveZuly` and `SalesConserveGoods` (`GoodsConserved`) are action properties: what leaves one wallet or inventory
    is what another gets, and only a bot's refill and restock add anything.
  * *Market.* `MarketTypeCorrect` is the inductive invariant: the types of inventories, wallets and windows. An exchange goes over the places of two windows one after another,
    and where the goods of a place end up depends on all places before it. The proof follows the recursive function `Exchanged`/`Swapped` place by place, with a
    statement about what both have together and about what each has lost so far; `MarketConservesWealth` and `OnlyTheOfferedLeaves` follow.
  * *Storage.* `ShownIsSaved` speaks only of the moments between requests. The inductive form `CopiesAgree`
    says that memory and database agree on every slot and balance that no pending statement names,
    where the storage in memory may hold less of the same item (that is what a refused withdrawal leaves behind,
    see section 6). `NothingIsMade` counts an item over an inventory and the storage that the pending statements will leave. `CrashesTouchOneMove` needs
    the strengthening `OneKind`: the statements still to be issued are about one kind of item, and the two copies of every other storage slot are of one kind.
* **Dungeons_proofs.** `IInv` has the tables (`TablesAgree`), who holds which mutex at which `pc` (`Locks`), what
  the socket thread (`Creating`) and the world thread (`Destroying`) are in the middle of, and `OwnDungeon`. A step is either
  quiet (it leaves tables and mutexes alone) or one of the loud ones, which are treated one by one.
  `OneInstance` and `RoundsAreUndisturbed` follow: a map is added to or removed from `MapList.Map` under `MapMutex`,
  which a round holds. That the heap's places and the slots are reused makes `OwnDungeon` the delicate part: the map
  found at a slot must still be the one of the request when the player arrives, or be no map at all.
* **Party_proofs.** The invariants are inductive together with two additions: `OfUsers`, only players are in a party that was founded without a bot,
  and `FreeIsMaster`. `RemoveBot` takes a bot out without dissolving anything, and without the
  first a party of players might shrink to one. `PartySizes` is from `NobodyAlone` and `RoomKept`; `LeaderAfterLeaving` is an action property from the same
  invariant. `GetNewPartyID` is used as what it is: an id within the table that it returns was not marked, and of one behind the table nothing is known. So `IdsAlwaysAgree`
  says that the ids within the table are distinct and marked whatever `last_pid` is, and claims nothing of the others.
* **Community_proofs.** `IInv` says whom an entry plays (`Entries`), that a cut friendship is cut for both (`TornMutual`), and two
  facts that need each other: `Copies` (the copy of everyone that has chosen a character covers the table) and `Views` (whoever is shown is there *and has the
  viewer on its copy*, or is excused). The clause about the viewer is what makes `ShownIsThere` inductive: a friend's end reaches those on the friend's
  copy, not those that show it. So `CopyCoversTable` has to survive the window between identifying and choosing, which is why `Copies` speaks of
  entries that the property does not.
  For the chatrooms, `CInv` adds `Chats`: types, `Seated` (who has left the world or has no character is in no room) and `RoomsRight` itself. The number that a new room gets
  (`NumberIsFree`) and what a cleaning leaves of a list are proved by induction. `RoomsStayRight` and the action property `LeavingTakesOff` follow.
* **Clan_proofs, the roster.** The properties speak of quiet moments before a drift. `Right` says what holds in between. `NewsRight` and `ClansRight`: news of a
  clan is about one that the char server does not list yet, and whose only member is its founder; every clan that it does not list has its news under way; and no clan has two
  leaders but a usurped one (`DecisionsRight`). `EntriesFollow` and `MembersRight`: entries and lists
  follow what was decided, but for a founder whose news is under way. `Fits` is the part that makes it inductive: the notices on
  their way, read in order, end in what was decided (`Following`),
  and a player's present clan and rank, with the notices about it still to come, gives the same (`Current`), for all characters but the `missed`. `TellClan`, `TellRank` and `NotTold` say so of one
  decision, with a notice or without one; `Cut` says what a lost tail of notices leaves. The invariant is `drifted \/ Right`: after a drift
  nothing is claimed. `EntriesStayRight`, `ListsStayRight`, `OneMasterEach`, `PlayersFollowTheChars` and `NothingOverrun` follow, each
  with the exemptions its comment names: they are what the code does, not what the clan window suggests.
* **Clan_proofs, the bank.** `MadeTwoWaysOnly` says that what is in play is at most what there was and what was `made`. It is inductive with the types and `Unsent` (a mail that has not been written yet is blank, so that
  sending one adds exactly its own zuly to the sum over the mails). A crash is the hard case: wallets go back to their rows, mails stay, and what that makes is at most `Exposure`. `LostTwoWaysOnly` is
  an action property from the same invariant.
* **Field_proofs.** `IInv` has who holds which mutex where (`Locks`), what a handler that is between its search and its write knows (`HandlerAsks`),
  what one that holds a pointer to a drop may rely on (`HandlerKnows`: while the drop is listed its id is the one read, and until it is taken nobody carries the
  item), and that a round that has met no old drop has one ahead (`RoundKnows`, from which `EachRoundCleans`). `Things_` is `ThingsKept` with finite bags.
  `AllUsed` needs no mutex: an id is given and used in one step. `~mixed => IdsOK` holds the three uses of ids apart;
  in the write of a handler's search it needs that no other search was under way, which `mixed` records.
* **Field_proofs, the summons.** `GaugeStaysRight` from `GaugeRight` with types. Summons are a bag, and a gauge is compared with the sum over the part of the bag that its owner still pays for. `OneMore` and `OneFewer` say what
  adding and removing one summon does to that sum, `SomeGone` what a deletion of several does. `Gathered` is about all summons recorded anew: two of them may become equal records, whose counts add up (`SumGathered`).

**Only model-checked:** liveness (`RetryGetsIn`, `Collapses`, `ComesAgain`), which needs fairness and ENABLED. `OnePlayerPerAccount` and `GoodsConserved` are defined but no run lists them: the first is violated with two worlds (section 6), the second
is a part of `WealthConserved` and proved. `TypeOK` of Party, Dungeons, AccountSession, ClanRoster and Field, and `StorageTypeOK`, are proved and not listed in a run.

## 6. Where code and documents disagree

Shown by a run:

* `monsters`: "if the spawn didn't contain any entries then MCount will still be zero so the pointer will move on next time around"
  (`mapfunctions.cpp:424`). With no second group the pointer comes to the same empty group again each time, and the area has monsters once and never
  again: `ComesAgain` says exactly which rows go on (`Endures`). 201 of the 12219 rows that the loader takes from `Database/spawns.sql` have only a first
  group. A tactical group comes only if all five basic groups are filled. "check that all the monsters in the spawn are valid" (`startup.cpp:1420`)
  precedes `for(int i=1;i==5;i++)`, which never runs; so a group of unknown monsters sets `MCount` and stops its area.

Met while modelling and allowed for by the properties, which name each as the exception it is:

* The check "to avoid multi client on the same account" (`charpackets.cpp:71`)
  counts the char server's entries only, and a kick goes to the channel of the entry found. After
  a re-login on another channel both avatars play: with a second world in `MCAccountSession.cfg` the invariant `OnePlayerPerAccount` of `AccountSession`
  is violated.
* A shop's listing names a slot and a count, copied when the shop opened. If the goods are gone by
  the time of a sale the buyer's zuly is moved before the stock is looked at, and the buyer pays for nothing.
* A bot accepts a trade, lays zuly in its window, and never confirms, so a trade with a bot never completes.
* A storage withdrawal that finds no room puts the part asked for where the whole stack was
  (`worldpackets.cpp:6459`); the next deposit that joins the slot writes it to the database, and the rest is lost.
* "players are safely evacuated" (`README.md:436`) holds for those on the copied list.
  A player who has the map from the lookup and is not yet on it arrives on a map that is deleted.
* Mail "attachments" (`README.md:452`): goods that were attached can never be claimed, as the item's type is lost on the way.
* A deposit of nothing in the clan bank writes a stale copy over the balance (`worldpackets.cpp:6726`).
* The clan vault's statements name columns that `Database/changes.sql:24` does not create.
* `SummonUpdate` gives a summon's cost back at every visit while its caster is on another map or dead, though the summon lives on;
  game masters' deletions give nothing back (`GaugeRight` names both).
* An accepted clan invitation writes a truth value as the clan (`Char_Server/clan.cpp:1143`).
* Request 0x09, "Give Master" (`clan.cpp:929`), tests neither the sender's rank nor its clan, so a clan may have two masters (`OneMaster` exempts it), and a disbanded clan's member
  keeps it on the world server and writes it back (`PlayerFollows`).
* `GetNewPartyID` reads and marks memory behind `PartyIDList` once 4,095 parties have been founded since the start.

## 7. Not modelled

Whole components are listed in `PROJECT.json` with the reason. Inside the modelled ones:

* *Sessions:* packets other than those of login and leaving; ports, passwords, bans; several char servers.
* *Shops and trades:* buying from or trading with oneself; requests for a count of zero; maps with player
  fighting, where shops are off; a player who leaves the map in between.
* *Storage:* statements that fail; requests for none of a stack, which the handlers accept (`worldpackets.cpp:6337`, `:6442`): they put an empty stack into a
  slot, whose row is deleted, or dropped when it is loaded; the item that expands a storage;
  a second character of the account (it would need a login).
* *Mail and bank:* statements that fail; items whose number does not fit 11 bits, which `BuildItemHead` cuts off; the clan vault, whose statements
  fail on the repository's schema.
* *Dungeons:* the game master's wipe; bots that follow their party; the vectors inside one map, whose accesses are atomic here.
* *Parties:* the options, the amounts of shared experience, `/partylvl`, `RemoveAllBots`.
* *Community:* messages and their texts; the lists that a client is shown of rooms. After a restart of the char server the departures are reported as
  before, as if the world servers had been restarted too; without that a client that logs out stays connected, and found, until its connection ends.
* *Clans:* statements that fail; points, level and slogan; what a char server reads through a null pointer when a change of rank comes from a client
  without a clan, which is taken for its end. A handler's statements and packets are one step, as both servers have one thread for them.
* *Ids and drops:* the ten seconds that an id rests and the order of the search, which only leave fewer ids to find; zuly on the ground, stacks, goods that
  act when picked up; the tables of what a monster drops. The vectors' own data races are not modelled, only their order at the level of entries.
* *Monsters:* what monsters do, which is in AI files; monsters and summons that those files or items create (they cost no gauge); an id that is
  given to somebody else while a summon lives; dungeon instances, where `nb_summons` is never initialized; the game master's refresh of a spawn, which deletes one
  monster and takes another off the list.

Combat, stats, quests, commands and crafting make up most of the code that no definition maps. They are formulas over tables of the client,
or one handler on one character under `PlayerMutex`, and no document of the repository says what they must yield.

## 8. What is left

1. **Database**: `SQLMutex` held from `QStore` to `QFree`, reconnects, and what a caller can tell; then the statements of Storage, Mail and ClanRoster that fail.
2. **SocketServer**: framing, and the loops over `ClientList` that erase while they go.
3. **Arena**: teams and scores by client id, and players that disconnect (`OnPlayerDisconnect` is called from nowhere).
4. **NPC shops, crafting, `pakChangeEquip`** on Holdings, the last for trades whose partner changes equipment.
5. **ClanVault**, once its schema is settled.

Abstract specifications worth stating beside AvatarLease: a shared clan bank, and an exclusive pool of ids that ClientIds and Party's ids both
implement. Theorems worth proving next: those refinements; that `Endures` decides the spawn area's fate, of which the safety half (an area that does not endure, once it is empty and its pointer
rests, never gets a monster again) needs no fairness; and what remains of `OnePlayerPerAccount` with several worlds.
