SPECIFICATION Spec
CONSTANTS
  Wrap = 8
  Timeout = 3
  Interval = 2
  RxCap = 2
PROPERTIES
  NeverEarly
  WatchdogTrips
