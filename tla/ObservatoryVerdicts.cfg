CONSTANTS
  CounterWidths = {4}
  MachineBits = 8
  Sources = {1, 2, 3}
  Authority <- TwoPrimary
  KeyOrder <- MetricKeyOrder
  Capacity <- InboundOnly
  FullScale = 10
  FreshWithin <- ShortFresh
  UsableWithin <- LongUsable
  SaturationPpb = 9
  DegradedQualityPpb = 5
  ErrorRatioPpb = 1
  DiscardRatioPpb = 1
  ConflictTolerancePpb = 1
  FlapThreshold = 2
  FlapWindow = 2
  DerivationWindow = 2
  MaxContenders = 8
  MaxResultRows = 8
  Payloads <- EitherPayloads
  Lags <- MixedLags
  MaxEvidence = 3
  MaxTransitions = 2
  MaxTime = 2
  MaxScope = 2
  MaxGeneration = 1
  MaxGaps = 1
  MaxObservations = 4
SPECIFICATION MCSpec
INVARIANTS WinnerBeatsAll HealthyIsWarranted DisagreementReported ConfidenceIsEarned OldEvidenceClaimsNothing WinnerIsSampled NothingAdverseHidden ErroringIsMeasured LogIsFaithful
PROPERTY AgeingNeverRefreshes
CHECK_DEADLOCK FALSE
