SPECIFICATION Spec
CONSTANTS
  ann = ann
  bob = bob
  cid = cid
  Chars = {ann, bob, cid}
  MaxClan = 2
  TopRank = 1
  Master = 2
  ExMaster = 0
  MaxPackets = 2
  MaxCrashes = 1
  MaxAtOnce = 3
INVARIANTS EntriesRight ListsRight OneMaster PlayerFollows NoOverrun
SYMMETRY Symmetric
CONSTRAINTS UpToDrift NotTooMuch NoMasterOutside
