CONSTANTS
  Checkers = {"loop"}
  Loop = "loop"
  Budgets = {b1, b2}
  Usages = {"ok", "exceeded", "overflowing"}
  Alerts = {a1, a2}
  Webhooks = {"pager"}
  Accepts <- AcceptsMC
  Untouched = {"pager"}
  Attempts = 1
  MaxFaults = 0
  MaxPeriods = 0
  None = None
SPECIFICATION FairSpec
PROPERTY AlertsAreDelivered
