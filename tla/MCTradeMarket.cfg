SPECIFICATION MarketSpec
CONSTANTS
  ann = ann
  ben = ben
  bot = bot
  potion = potion
  scroll = scroll
  NoItem = NoItem
  NoTarget = NoTarget
  Players = {ann, ben, bot}
  VendingBots = {}
  Browsers = {bot}
  Barred = {bot}
  Items = {potion}
  Stackables = {potion}
  Tab <- MCTab
  FullStack = 2
  Prices = {1}
  WishCounts = {1}
  MaxSells = 1
  MaxWishes = 0
  Word = 4
  BotZuly = 0
  BotGift = 1
  MaxZuly = 1
  MaxOffers = 1
  InitItems <- MarketItems
  InitZuly <- MarketZuly
PROPERTY WealthConserved
