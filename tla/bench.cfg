SPECIFICATION BenchSpec
CONSTANTS
  d1 = d1
  Unconfigured = Unconfigured
  NothingStored = NothingStored
  DriverSettings = {d1}
  Intervals = {0, 1}
  ValidConfigs <- MCConfigs
  Defaults <- MCDefaults
  FrameErrors = {"BAD_CRC"}
  MayFail = {"configure", "enable", "motion", "save", "uart"}
  Mistakes = {}
  AgeCap = 3
  MaxGeneration = 8
  TestTimeout = 1
  TestInterval = 1
  MaxFailures = 2
INVARIANTS
  PassedMeansRestored
  CleanupLeavesSafe
  CleanupRestores
PROPERTIES
  BehindOnlyByFailedSave
CHECK_DEADLOCK FALSE
