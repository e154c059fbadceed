CONSTANTS
  CounterWidths = {4}
  MachineBits = 8
  Sources = {1}
  Authority <- AllPrimary
  KeyOrder <- QualityKeyOrder
  Capacity <- InboundOnly
  FullScale = 10
  FreshWithin <- ShortFresh
  UsableWithin <- LongUsable
  SaturationPpb = 9
  DegradedQualityPpb = 5
  ErrorRatioPpb = 1
  DiscardRatioPpb = 1
  ConflictTolerancePpb = 1
  FlapThreshold = 2
  FlapWindow = 2
  DerivationWindow = 2
  MaxContenders = 8
  MaxResultRows = 8
  Payloads <- TrafficPayloads
  Lags <- PromptOnly
  MaxEvidence = 3
  MaxTransitions = 2
  MaxTime = 1
  MaxScope = 1
  MaxGeneration = 0
  MaxGaps = 0
  MaxObservations = 3
SPECIFICATION Spec
INVARIANT LowQualityReported
CHECK_DEADLOCK FALSE
