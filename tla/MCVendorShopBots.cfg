SPECIFICATION Spec
CONSTANTS
  ann = ann
  ben = ben
  bot = bot
  guest = guest
  potion = potion
  sword = sword
  NoItem = NoItem
  Players = {ann, ben, bot, guest}
  VendingBots = {bot}
  Browsers = {guest}
  Barred = {}
  Items = {potion, sword}
  Stackables = {potion}
  Tab <- VendingTab
  FullStack = 2
  Prices = {3}
  WishCounts = {1}
  MaxSells = 1
  MaxWishes = 1
  Word = 4
  BotZuly = 3
  MaxZuly = 6
  InitItems <- StreetItems
  InitZuly <- StreetZuly
INVARIANTS TypeOK BotStockFull
PROPERTY ZulyConserved
