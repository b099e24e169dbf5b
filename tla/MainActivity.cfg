CONSTANTS
  Workers = {w1, w2}
  Self = w1
  Finalizer = finalizer
SPECIFICATION Spec
PROPERTIES ImplementsHandle PausedWorkersStop
