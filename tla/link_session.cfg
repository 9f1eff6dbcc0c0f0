SPECIFICATION Spec
CONSTANTS
  None = None
  Commands <- MCCommands
  Resends = TRUE
  MaxSeq = 3
  MaxSessions = 2
  Capacity = 2
INVARIANTS
  TypeOK
  AnswerIsMine
  EffectOnceInOrder
