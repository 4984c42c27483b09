\* Three calls that keep coming, two controllers that compete for the hook.
CONSTANTS
  Calls = {c1, c2, c3}
  Controllers = {k1, k2}
  NoThread = NoThread
  SizeMax = 7
SPECIFICATION FairSpec
INVARIANT TypeOK
INVARIANT CountIsExact
INVARIANT NoLostWakeup
INVARIANT FlagMatchesHead
INVARIANT UninstallDrains
INVARIANT OnlyUncountedRemain
PROPERTY ImplementsBarrier
PROPERTY ImplementsFairBarrier
PROPERTY ImplementsLife
PROPERTY UninstallTerminates
