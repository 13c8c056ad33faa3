CONSTANTS
  Absent = Absent
  MaxKeys = 3
  PublicKey = {ka, kb}
  Nickname = {na}
  NoKey = NoKey
  Blank = Blank
  Address = {a0, a1}
  DefaultServer = a0
  Offset = {z0, z1}
  DefaultOffset = z0
  Octets = 2
  Bits = 2
  Word = 1000
  Texts <- MCTexts
  LastPort = 2
  Taps = {0, 42}
  Configs = {0, 255}
  Speed = {s10, s100, s1000}
  Slowest = s10
  Groups = 2
  Lanes = {0, 1}
  NumChannels = 2
  LogName <- MCLogName
  OtherNames = {"clock"}
  NoName = NoName
  NTasks = 2
  Period <- MCPeriod
  Shift = 10
  MaxLoop = 2
  Delay = 4
  Images = {i1, i2}
  NBlocks = 2
  MayDecay = {1, 2}
  None = None
SPECIFICATION BoardSpec
INVARIANTS
  CommittedSurvives
  SavedSurvivesUnlessOff
  ConfiguredAsMeant
  RegistersOnPage
  SpeedIsPresent
  LinesAsAsked
  LogChannelsWhole
  TimerTypeOK
  WaitBounded
  DelayNeverOverruns
  BootTypeOK
PROPERTIES
  RemovalLocksOut
  NeverEarly
  BootedImageIsRecorded
  NoCrashLoop
  BootedImageBootsAgain
