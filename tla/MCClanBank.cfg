SPECIFICATION BankSpec
CONSTANTS
  ann = ann
  ben = ben
  potion = potion
  NoItem = NoItem
  Players = {ann, ben}
  Deputies = {ann}
  Items = {potion}
  Stackables = {potion}
  Tab <- MCTab
  FullStack = 3
  MaxMails = 2
  MaxStops = 1
  Amounts = {0, 1}
  InitItems <- MCBags
  InitZuly <- MCZuly
  InitMoney = 1
  MaxMade = 1
CONSTRAINT LittleMade
INVARIANT MadeTwoWaysOnly
PROPERTY LostTwoWaysOnly
