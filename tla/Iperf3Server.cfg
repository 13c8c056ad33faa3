CONSTANTS
  c1 = c1
  c2 = c2
  c3 = c3
  i1 = i1
  i2 = i2
  p1 = p1
  p2 = p2
  MaxClients = 2
  Socket = {k1, k2}
  Client = {c1, c2, c3}
  Host <- MCHost
  SourcePort <- MCSourcePort
  Nothing = Nothing
  Segments <- MCSegments
  CookieSize = 2
  FifoSize = 3
  Word = 2
SPECIFICATION FairSpec
INVARIANT IperfTypeOK
PROPERTIES
  ImplementsSessions
  StreamStarts
