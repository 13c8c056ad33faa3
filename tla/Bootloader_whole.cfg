CONSTANTS
  Images = {i1, i2}
  NBlocks = 2
  MayDecay = {}
  None = None
SPECIFICATION BootSpec
ACTION_CONSTRAINT UpdateCompletes
PROPERTIES
  WholeImageNeverRefused
