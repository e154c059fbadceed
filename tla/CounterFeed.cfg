CONSTANTS
  CounterWidths = {3}
  MachineBits = 3
  Width = 3
  MaxTotal = 9
  MaxRevisions = 3
  MaxHidden = 1
  MaxWindow = 1
SPECIFICATION Spec
INVARIANTS DeltaIsExact ObserveAndDeriveAgree OnlyTopQuarterAmbiguous
CHECK_DEADLOCK FALSE
