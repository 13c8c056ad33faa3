CONSTANTS
  Core = c0
  Producers = {c0}
  Byte = {a, nl}
  Newline = nl
  Size = 3
  TxSize = 3
  Reserve = 2
SPECIFICATION LogFairSpec
INVARIANT LogTypeOK
PROPERTIES
  ImplementsMailbox
  ImplementsStream
  LogArrives
