SPECIFICATION Spec
CONSTANTS
  ann = ann
  bob = bob
  x1 = x1
  x2 = x2
  y1 = y1
  Clients = {ann, bob}
  Chars = {x1, x2, y1}
  OwnerOf <- MCOwnerOf
  NoChar = NoChar
  MaxPackets = 2
  MaxFaults = 1
  MayBefriend <- MCMayBefriend
  LastRoom = 3
  MayChat = {ann, bob}
  Sizes = {1}
  MaxListed = 3
  Clanned = {y1}
INVARIANTS RowsMutual CopyCoversTable ShownIsThere RoomsRight
PROPERTY LeavingUnlists
CONSTRAINT OneAtRest
