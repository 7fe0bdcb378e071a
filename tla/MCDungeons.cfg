SPECIFICATION FairSpec
CONSTANTS
  p1 = p1
  p2 = p2
  ours = ours
  Players = {p1, p2}
  Parties = {ours}
  Zones = {1}
  Ids = {1}
  Maps = {m1}
  Watchers = {watcher}
  MaxPartyChanges = 1
  Outside = Outside
  Gone = Gone
  Null = Null
  NoThread = NoThread
INVARIANTS TablesAgree OwnDungeon
PROPERTIES RoundsUndisturbed Collapses
