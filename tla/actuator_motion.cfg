SPECIFICATION FairSpec
CONSTANTS
  d1 = d1
  d2 = d2
  Unconfigured = Unconfigured
  NothingStored = NothingStored
  DriverSettings = {d1}
  Intervals = {0}
  ValidConfigs <- MotionConfigs
  Defaults <- DefaultConfig
  FrameErrors = {"RX_FRAME"}
  MayFail = {"motion", "enable"}
  Mistakes = {"SOFT_LIMIT", "UNSUPPORTED_COMMAND"}
  AgeCap = 2
  MaxGeneration = 1
INVARIANTS
  TypeOK
  MotionStateFaithful
PROPERTIES
  RunawayOnlyByFault
  EventsReported
  MotorPromise
  StopCompletes
  SilentHostStopsOrFaults
