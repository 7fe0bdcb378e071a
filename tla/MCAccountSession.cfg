CONSTANTS
  a1 = a1
  Clients = {c1, c2}
  Accounts = {a1}
  Worlds = {w1}
  AccountOf <- OneAccount
  NoClient = NoClient
  NoWorld = NoWorld
  MaxKicks = 2
  MaxFaults = 2
SPECIFICATION FairSpec
INVARIANT OneCharEntry
PROPERTIES OnlyReloginUnmarksAvatar ImplementsLease RetryGetsIn
CHECK_DEADLOCK FALSE
