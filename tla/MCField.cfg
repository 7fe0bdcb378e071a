SPECIFICATION Spec
SYMMETRY Alike
CONSTANTS
  ann = ann
  bob = bob
  robot = robot
  sword = sword
  shield = shield
  i1 = i1
  i2 = i2
  i3 = i3
  i4 = i4
  noId = noId
  nobody = nobody
  MaxLeaks = 1
  Ids = {i1, i2, i3, i4}
  NoId = noId
  Players = {ann, bob}
  Bot = robot
  Things = {sword, shield}
  BagSize = 1
  NoOne = nobody
INVARIANTS IdsUnique GivenIsUsed ThingsKept EachRoundCleans
PROPERTY DeletedTwiceOnlyOld
CONSTRAINTS UntilMixed FewLeaks
