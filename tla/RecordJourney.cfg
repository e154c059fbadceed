CONSTANTS
  MaxFields = 24
  MaxRecords = 2
  Max32 = 1
  FullScale = 1
  MaxHistoryWindow = 1
  Words = 16
  FormatVersion = 1
  MaxText = 3
  DecodedRetired = 2
  DecodedEvidence = 2
  DecodedSources = 2
  MaxLinks = 2
  MaxSources = 2
  MaxSlots = 2
  MaxTransitions = 2
  Records <- MCRecords
  OtherLines <- MCOtherLines
  NewFields <- MCNewFields
  NewValues <- MCNewValues
  NewWords = {0, 1, 2, 3, 8, 12, 15}
  Held <- MCHeld
  Hash <- MCHash
  Bytes <- MCBytes
  MaxEdits = 2
  MaxDamage = 1
SPECIFICATION Spec
INVARIANTS NoFieldIgnored BatchSaysTheText LoadedIsSaved DecodingIsExact
CHECK_DEADLOCK FALSE
