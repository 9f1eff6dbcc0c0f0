SPECIFICATION Spec
CONSTANTS
  None = None
  Half = 6
  Limits <- SoftLimitPairs
  MaxVelocity = 1
  MaxDrift = 2
INVARIANTS
  TypeOK
  GoesWhereAsked
PROPERTIES
  BeyondLimitsOnlyStacked
  DirectionAsAsked
