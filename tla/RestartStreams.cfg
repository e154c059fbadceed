CONSTANTS
  SourceIds = {s1}
  LinkIds = {l1, l2}
  Generations = {g1}
  Provenances = {"unknown", "real"}
  Authorities = {1}
  NoGeneration = NoGeneration
  MaxSources = 1
  MaxLinks = 1
  MaxRetiredGenerations = 1
  AllowImplicitLinks = TRUE
  CounterWidths = {2}
  MachineBits = 2
  Incarnations = {i1, i2, i3}
  Epochs = {e1}
  NoScope = NoScope
  MaxSequence = 2
  Keys = {k1, k2}
  CounterKeys = {k1, k2}
  EnabledKeys = {k1, k2}
  Readings <- OneReading
  Times <- OneTime
  Validity = {TRUE, FALSE}
  MaxRetiredScopes = 1
  MaxEvidence = 2
  States = {"healthy"}
  Texts = {"none"}
  NoVerdict = NoVerdict
  MaxSubmitted = 2
  DecodedRetired = 1
  DecodedEvidence = 2
  DecodedSources = 1
  MaxSaves = 2
  MaxRestarts = 1
  MaxDeclared = 1
SYMMETRY StreamSymmetry
SPECIFICATION LifeSpec
INVARIANTS TypeOK AcceptedRevisionsFenced DeltaNeverSpansLoss SavedIsRestorable TotalsAgree
CHECK_DEADLOCK FALSE
