SPECIFICATION MCSpec
CONSTANTS
  Delimiter = Delimiter
  Noise = Noise
  Failure = Failure
  Sizes = {3, 4}
  MaxSent = 3
  MaxDamage = 2
  MaxFrame = 4
  MaxRx = 4
  Chunk = 3
  Block = 4
  MaxLength = 6
INVARIANTS
  BuffersBounded
  InOrder
  DamageIsLocal
  ErrorsTellDamage
  StuffingFaithful
CHECK_DEADLOCK FALSE
