SPECIFICATION WindowSpec
CONSTANTS
  Threads = {t1, t2}
  Keys = {k1}
  Sizes = {0, 2}
  LimitOf <- LimitOfMC
  Scopes <- ScopesMC
  Minute = 2
  MaxTicks = 2
  None = None
  NoRow = NoRow
  Closed = Closed
SYMMETRY Symmetry
CONSTRAINT Followed
INVARIANTS TypeOK RateBound
PROPERTIES OnlyGenuine ScopesFresh RevocationSticks StaysSettled
