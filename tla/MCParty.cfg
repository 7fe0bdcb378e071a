SPECIFICATION Spec
CONSTANTS
  Users = {u1, u2, u3}
  Bots = {bot}
  Parties = {r1, r2, r3}
  NoParty = NoParty
  Levels = 2
  Capacity <- MCCapacity
  BotCap = 3
  MaxId = 2
  LastIndex = 3
INVARIANTS MembersAgree IdsAgree SizesRight
PROPERTY LeavingLeavesLeader
SYMMETRY Symmetric
