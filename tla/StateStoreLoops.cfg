SPECIFICATION Spec
CONSTANTS
  Colonies = {home, away}
  Home = home
  NoColony = NoColony
  Schemas = {1, 2}
  Missing = Missing
  Damaged = Damaged
  MaxTick = 1
  MaxVersion = 2
  Fetchable <- MCFetchable
  MaxDecisions = 2
  MaxFaults = 0
INVARIANT LoopsAreCarried
