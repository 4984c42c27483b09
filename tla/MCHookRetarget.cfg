\* Two functions, two calls, three Inner objects.
CONSTANTS
  Funcs = {f1, f2}
  NoFunc = NoFunc
  Calls = {c1, c2}
  MaxInners = 3
SPECIFICATION Spec
INVARIANT TypeOK
INVARIANT InstalledHeadIsLive
INVARIANT OriginalOfCurrent
INVARIANT NoStaleUse
INVARIANT CallsOwnOriginal
\* After a fault the process is gone.
CHECK_DEADLOCK FALSE
