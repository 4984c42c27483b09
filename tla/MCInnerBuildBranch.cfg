\* What the documentation says of relocation.  Displacements have 9 bits instead of 32; the page is as small as it may be.
CONSTANTS
  Memories <- TheMemories
  Pointers <- ThePointers
  Null = 0
  Pages <- ThePages
  PageSize = 47
  RelJmpSize = 5
  PureJmpSize = 14
  MaxLength = 15
  Reach = 256
SPECIFICATION Spec
INVARIANT RefusedOnlyOutOfReach
CHECK_DEADLOCK FALSE
