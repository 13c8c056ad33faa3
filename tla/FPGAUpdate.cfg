CONSTANTS
  Files <- MCFiles
  MagicLen = 2
  BufSize = 20
  WriteBlock = 5
  SectorSize = 8
  ImageOffset = 0
  ImageSize = 48
  Golden = {}
  MaxChunk = 9
  CutsE = FALSE
SPECIFICATION FairSpec
INVARIANTS
  UpdateTypeOK
  DoneMeansFlashed
  SoundFileFlashed
PROPERTIES
  OtherDeviceHarmless
  HandlersReturn
