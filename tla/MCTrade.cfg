SPECIFICATION TradeOnlySpec
CONSTANTS
  ann = ann
  ben = ben
  bot = bot
  potion = potion
  scroll = scroll
  NoItem = NoItem
  NoTarget = NoTarget
  Players = {ann, ben, bot}
  VendingBots = {}
  Browsers = {bot}
  Barred = {}
  Items = {potion, scroll}
  Stackables = {potion}
  Tab <- TightTab
  FullStack = 3
  Prices = {1}
  WishCounts = {1}
  MaxSells = 0
  MaxWishes = 0
  Word = 4
  BotZuly = 0
  BotGift = 1
  MaxZuly = 1
  MaxOffers = 2
  InitItems <- TwoOffersItems
  InitZuly <- TwoOffersZuly
PROPERTIES WealthConserved OnlyOfferedLeaves
SYMMETRY BothPlayers
