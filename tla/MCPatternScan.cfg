\* Bytes of one bit, patterns of up to three.
CONSTANTS
  MaxByte = 1
  Any = Any
  Unmapped = Unmapped
  LastAddress = 5
  Words <- TheWords
  Wild <- TheWild
  Stoul <- TheStoul
  NoNumber = NoNumber
  ModuleName = "mod"
  Maps <- TheMaps
  MaxPattern = 3
SPECIFICATION Spec
INVARIANT TypeOK
INVARIANT OccurrencesReported
INVARIANT ResultsSound
INVARIANT OneIsTheOnlyOne
PROPERTY ScanAdvances
\* A search returns, throws or crashes.
CHECK_DEADLOCK FALSE
