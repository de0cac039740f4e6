CONSTANTS
  Checkers = {"loop", "check_now"}
  Loop = "loop"
  Budgets = {b1}
  Usages = {"ok", "exceeded"}
  Alerts = {a1, a2}
  Webhooks = {"pager"}
  Accepts <- AcceptsMC
  Untouched = {"pager"}
  Attempts = 2
  MaxFaults = 0
  MaxPeriods = 0
  None = None
SPECIFICATION Spec
INVARIANT OneAlertPerPeriod
