CONSTANTS
  Checkers = {c1, c2}
  Loop = c1
  Budgets = {b1}
  Usages = {"ok", "approaching", "exceeded", "overflowing"}
  Alerts = {a1}
  Webhooks = {"pager", "chat"}
  Accepts <- AcceptsMC
  Untouched = {"pager"}
  Attempts = 2
  MaxFaults = 1
  MaxPeriods = 1
  None = None
SPECIFICATION Spec
INVARIANTS TypeOK SentMeansTried SentMeansPosted
PROPERTIES CycleAdvances ImplementsOutbox
SYMMETRY Symmetry
