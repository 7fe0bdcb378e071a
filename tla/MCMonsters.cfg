SPECIFICATION MCSpec
CONSTANTS
  ann = ann
  bob = bob
  home = home
  away = away
  Characters <- MCPlayers
  Maps <- MCMaps
  Home = home
  Rows <- MCRows
  Limit = 2
  Life = 2
  MaxSummons = 3
INVARIANTS GaugeRight
PROPERTY ComesAgain
