\* No call at all: the target of a hook that has one is changed.
CONSTANTS
  Funcs = {f1, f2}
  NoFunc = NoFunc
  Calls = {c1}
  MaxInners = 2
SPECIFICATION Spec
INVARIANT ChangeReleasesOwnMemory
\* After a fault the process is gone.
CHECK_DEADLOCK FALSE
