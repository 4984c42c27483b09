\* One call that uninstall() does not wait for, and a new target.
CONSTANTS
  Funcs = {f1, f2}
  NoFunc = NoFunc
  Calls = {c1}
  MaxInners = 2
SPECIFICATION Spec
INVARIANT EveryCallItsOriginal
\* After a fault the process is gone.
CHECK_DEADLOCK FALSE
