SPECIFICATION Spec
CONSTANTS
  Words <- WordSet
  Number <- Numbers
  After <- Rests
  Kilos <- KiloWords
  Megas <- MegaWords
  Attribute <- Attributes
  Garbage = {0, 2000, 49152}
  Modulus = 32
  Kilo = 2
  Keys <- KeySet
  Files <- AllFiles
  Busy = {3000}
INVARIANTS
  TypeOK
  AcceptedAsNested
  CrashesAsKnown
  SettingsStayInTheirBlock
  NumbersAsWritten
  MethodsNarrow
  StartsAllOrNothing
