CONSTANTS
  SourceIds = {s1, s2}
  LinkIds = {l1, l2}
  Generations = {g1, g2, g3}
  Provenances = {"unknown", "real"}
  Authorities = {1, 2}
  NoGeneration = NoGeneration
  MaxSources = 2
  MaxLinks = 1
  MaxRetiredGenerations = 2
  AllowImplicitLinks = TRUE
  CounterWidths = {2}
  MachineBits = 2
  Incarnations = {i1, i2}
  Epochs = {e1}
  NoScope = NoScope
  MaxSequence = 1
  Keys = {k1, k2}
  CounterKeys = {k1}
  EnabledKeys = {k1}
  Readings <- TwoReadings
  Times <- OneTime
  Validity = {TRUE}
  MaxRetiredScopes = 1
  MaxEvidence = 2
  States = {"healthy"}
  Texts = {"none"}
  NoVerdict = NoVerdict
  MaxSubmitted = 3
  MaxDeclared = 3
SYMMETRY TopologySymmetry
SPECIFICATION Spec
INVARIANTS GenerationsFenced StandingKept Accounting
PROPERTY NoRevival
CHECK_DEADLOCK FALSE
