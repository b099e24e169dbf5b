CONSTANTS
  Threads = {t1, t2, t3}
  Finalizer = finalizer
SPECIFICATION Spec
INVARIANTS DestroyedOnce FaultNeedsMisuse
CHECK_DEADLOCK FALSE
