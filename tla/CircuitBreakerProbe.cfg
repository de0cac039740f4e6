CONSTANTS
  Workers = {w1, w2}
  FailureThreshold = 2
  RecoveryTimeout = 2
  NoFailure = NoFailure
SPECIFICATION Spec
INVARIANT SingleProbe
