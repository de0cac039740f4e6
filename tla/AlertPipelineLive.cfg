CONSTANTS
  Checkers = {"loop"}
  Loop = "loop"
  Budgets = {b1}
  Usages = {"ok", "approaching", "exceeded"}
  Alerts = {a1, a2}
  Webhooks = {"pager", "chat"}
  Accepts <- AcceptsMC
  Untouched = {"chat"}
  Attempts = 2
  MaxFaults = 1
  MaxPeriods = 0
  None = None
SPECIFICATION FairSpec
PROPERTIES ExceededIsAlerted AlertsAreDelivered
