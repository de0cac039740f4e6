CONSTANTS
  Threads = {w1, w2}
  Keys = {k1}
  Buckets = {b1, b2, b3, b4}
  NoBucket = NoBucket
  Minute = 2
  BucketTTLSeconds = 0
  DefaultRpm = 2
  DefaultTpm = 3
  RpmOverrides = {NoOverride, 1}
  TpmOverrides = {0}
  NoOverride = NoOverride
  TokenCounts = {0, 2}
  NoCall = NoCall
SPECIFICATION Spec
INVARIANTS TypeOK HonestRetryAfter
PROPERTY ImplementsQuota
SYMMETRY Symmetry
