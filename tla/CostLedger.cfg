CONSTANTS
  Clients = {c1, c2}
  Runners = {q1, q2}
  Names = {1, 2}
  Unique = {1}
  Attributions <- AttributionsMC
  Limits = {1}
  LastDay = 1
  MaxCalls = 3
  MaxBudgets = 1
  MaxFaults = 1
  MaxErrors = 1
SPECIFICATION AllSpec
INVARIANTS TypeOK OverspendBounded FirstUseSettles
  AggregatesTypeOK NeverOvercounts
PROPERTY RunCatchesUp
CONSTRAINT Followed
SYMMETRY Symmetry
