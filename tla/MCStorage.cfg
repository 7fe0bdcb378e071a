SPECIFICATION StorageSpec
CONSTANTS
  ann = ann
  potion = potion
  gem = gem
  NoItem = NoItem
  Players = {ann}
  Items = {potion, gem}
  Stackables = {potion, gem}
  Joining = {potion}
  Tab <- MCTab
  FullStack = 3
  StorageSlots = {1, 2}
  Fee <- MCFee
  MaxCrashes = 1
  InitItems <- BagItems
  InitZuly <- BagZuly
  InitStorage <- BagStorage
INVARIANT ShownIsSaved
PROPERTIES NothingMade CrashTouchesOneMove
