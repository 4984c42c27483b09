\* Targets near both ends of the address space and in its middle.
CONSTANTS
  AddrLimit = 20
  PageSize = 2
  MaxSearchDist = 13
  StepEvery = 2
  MaxExponent = 2
  MaxFactor = 3
  Shifted <- Powers
  RelMax = 20
  NearAddrs = {3, 11, 19}
  NoPage = NoPage
SPECIFICATION FairSpec
INVARIANT TypeOK
INVARIANT JumpAlwaysEncodes
INVARIANT NearPagesNotSkipped
PROPERTY SearchEnds
\* The search is over once a page is found or none is.
CHECK_DEADLOCK FALSE
