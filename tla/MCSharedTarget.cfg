\* Three hooks; a jump of three bytes over two instructions of two bytes each,
\* the second of them on the next page.
CONSTANTS
  Hooks = {a, b, c}
  Func = f
  NoSite = NoSite
  Calls = {k1}
  JmpSize = 3
  PatchSize = 4
  HeadStarts <- TheHeadStarts
  PageEnd = 2
SPECIFICATION Spec
SYMMETRY Symmetry
INVARIANT TypeOK
INVARIANT PatchedByInstalled
INVARIANT LostOnlyToSibling
INVARIANT MixtureOnlyDuringWrite
INVARIANT DetoursRunAsInstalled
\* A call that has crashed ends the process.
CHECK_DEADLOCK FALSE
