SPECIFICATION Spec
CONSTANTS
  d1 = d1
  d2 = d2
  Unconfigured = Unconfigured
  NothingStored = NothingStored
  DriverSettings = {d1, d2}
  Intervals = {0, 1}
  ValidConfigs <- EditConfigs
  Defaults <- DefaultConfig
  FrameErrors = {}
  MayFail = {"configure", "save", "reset", "uart"}
  Mistakes = {}
  AgeCap = 2
  MaxGeneration = 1
INVARIANTS
  ConfigSync
PROPERTIES
  EnableOnlyConfigured
  ChipFaultReported
  ConfigFrozenInMotion
  StagedEditsKept
