SPECIFICATION Spec
CONSTANTS
  None = None
  Commands <- MCCommands
  Resends = FALSE
  MaxSeq = 2
  MaxSessions = 2
  Capacity = 2
INVARIANTS
  NoFalseDuplicate
