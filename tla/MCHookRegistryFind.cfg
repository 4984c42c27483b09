\* A detour that looks a hook up while its own hook is being uninstalled.
CONSTANTS
  h1 = h1  h2 = h2  h3 = h3
  Threads = {t1, t2}
  NoThread = NoThread
  Hooks = {h1, h2, h3}
  NoHook = NoHook
  InitialInsts <- OneHook
  HasTarget = {h1}
  NameOf <- Names
  DetoursCallApi = TRUE
  MaxOps = 2
SPECIFICATION FairSpec
PROPERTY FindReturns
CHECK_DEADLOCK FALSE
