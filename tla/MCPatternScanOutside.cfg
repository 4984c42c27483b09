\* Bytes of one bit, patterns of up to two.
CONSTANTS
  MaxByte = 1
  Any = Any
  Unmapped = Unmapped
  LastAddress = 5
  Words <- TheWords
  Wild <- TheWild
  Stoul <- TheStoul
  NoNumber = NoNumber
  ModuleName = "mod"
  Maps <- TheMaps
  MaxPattern = 2
SPECIFICATION Spec
INVARIANT ScanStaysInModule
\* A search returns, throws or crashes.
CHECK_DEADLOCK FALSE
