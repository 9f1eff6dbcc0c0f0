SPECIFICATION Spec
CONSTANTS
  U16Max = 255
  I32Max = 32767
  Version = 1
  Microsteps = {1, 2}
  MaxMicrosteps = 4
  MinTimeout = 100
  MaxTimeout = 600
  Defaults <- MCDefaults
  Inputs <- MCInputs
  Targets <- MCTargets
  ByteValues = 16
  MinBlob = 96
  MaxBlob = 128
INVARIANTS
  TypeOK
  Restorable
  BlobRoundTrip
