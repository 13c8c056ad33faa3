\* Three rails and three reset lines; OnFault() may hang or return.  Rail 0 is
\* the input supply, rail 1 is critical and has power-good feedback, rail 2 has
\* none.  A time-delay line sits between two devices with done pins.
CONSTANTS
  NRails = 3
  NResets = 3
  PGoodRails = {0, 1}
  Critical = {1, 2}
  InputSupply = {0}
  DoneLines = {0, 2}
  DelayLines = {1}
  PollTicks = 2
  FaultOutcomes = {"idle", "hung"}
SPECIFICATION FairSpec
INVARIANTS
  TypeOK
  FlagsMatchPins
  ReadyAskedOnlyWhenReleased
  ResetReleasedNeedsPower
PROPERTIES
  ImplementsSequencer
  RailLossShutsDown
  ResetsComplete
  NotReadyHoldsLaterLines
