SPECIFICATION Spec
CONSTANTS
  Leagues = {"NFL", "CFB", "MLB", "NHL", "SOCCER"}
  Direct <- MCDirect
  FamilyMembers <- MCFamilyMembers
  SettledBySport <- MCSettledBySport
  ClosedNames <- MCClosedNames
  Orders = {"single", "parlay"}
  TickerOf <- MCTickerOf
  TickerOrder <- MCTickerOrder
  EventOf <- MCEventOf
  SeriesOf <- MCSeriesOf
  Catalogues <- MCCatalogues
  Lively <- MCLively
  Fragile <- MCFragile
  Trading = {"single"}
  Routed = {"NFL", "MLB"}
  Shaped = {"NFL", "MLB", "SOCCER"}
  ComboRecorders = {"NFL"}
  Cutover = 0
  Window = 2
  MaxClock = 4
  MaxFills = 2
  MaxChanges = 2
  MaxFaults = 1
  Contradictory = TRUE
  MaxDeviations = 1
INVARIANT NoOpMeansNothingToDo
