SPECIFICATION FairSpec
CONSTANTS
  d1 = d1
  d2 = d2
  Unconfigured = Unconfigured
  NothingStored = NothingStored
  DriverSettings = {d1}
  Intervals = {0}
  ValidConfigs <- MotionConfigs
  Defaults <- DefaultConfig
  FrameErrors = {"BAD_CRC"}
  MayFail = {}
  Mistakes = {}
  AgeCap = 2
  MaxGeneration = 1
PROPERTIES
  SilentHostStops
