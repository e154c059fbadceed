CONSTANTS
  MaxSaves = 5
  MaxCrashes = 3
  MaxFailures = 3
  MaxDamage = 1
SPECIFICATION Spec
INVARIANTS SavedSurvives UnreadIsKept
CHECK_DEADLOCK FALSE
