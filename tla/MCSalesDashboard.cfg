SPECIFICATION DashboardSpec
CONSTANTS
  Filters = {all, pdv}
  Readers = {r1, r2}
  Writers = {w1}
  MayDie = TRUE
  MaxWrites = 2
INVARIANT StalenessExplained
PROPERTY CatchesUp
