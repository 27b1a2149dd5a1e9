SPECIFICATION Spec
CONSTANTS
  x = x
  y = y
  deferred = deferred
  other = other
  Callers <- MCCallers
  Closers <- MCClosers
  Installs = 1
  MaxCalls = 2
SYMMETRY Symmetric
ACTION_CONSTRAINT ClosersAlone
INVARIANTS
  StartIsCurrent
  OneHandle
  ClosedOnce
