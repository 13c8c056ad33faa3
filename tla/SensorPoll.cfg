CONSTANTS
  Rotation <- MCRotation
  TempSensor = "ibcTemp"
  AdcSensors = {"mcutemp"}
  Refreshing = {"ibcTemp", "vin48"}
  Hosted = {"iin"}
  Timeout = 12
  MaxPolls = 1
  MaxLosses = 1
SPECIFICATION FairSpec
INVARIANTS
  PollTypeOK
  ReadingsWhole
  HostGetsWhole
PROPERTIES
  RotationGoesOn
