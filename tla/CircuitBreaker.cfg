CONSTANTS
  Workers = {w1, w2, w3}
  FailureThreshold = 2
  RecoveryTimeout = 2
  NoFailure = NoFailure
SPECIFICATION FairSpec
INVARIANTS TypeOK ClosedBelowThreshold TimerArmed
PROPERTIES ImplementsMachine OpenRecovers
