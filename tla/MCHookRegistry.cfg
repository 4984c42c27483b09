\* h1 exists, h2 and h3 may be created; two threads, two operations each.
CONSTANTS
  h1 = h1  h2 = h2  h3 = h3
  Threads = {t1, t2}
  NoThread = NoThread
  Hooks = {h1, h2, h3}
  NoHook = NoHook
  InitialInsts <- OneHook
  HasTarget = {h1, h2}
  NameOf <- Names
  DetoursCallApi = TRUE
  MaxOps = 2
SPECIFICATION FairSpec
INVARIANT TypeOK
INVARIANT NamesUnique
INVARIANT NoCircularWait
PROPERTY EachHookLives
PROPERTY SweepSeesTo
PROPERTY OperationsAdvance
PROPERTY EveryOperationEnds
\* Threads that have used up their operations stop.
CHECK_DEADLOCK FALSE
