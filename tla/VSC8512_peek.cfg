CONSTANTS
  LastPort = 1
  Taps = {0, 42}
  Configs = {0, 255}
SPECIFICATION PhySpec
PROPERTY TapKeepsOtherBits
