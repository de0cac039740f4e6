CONSTANTS
  Callers = {c1}
  Threads = {t1, t2}
  None = None
SPECIFICATION Spec
INVARIANT StartTakesEffect
