CONSTANTS
  Address = {a0, a1}
  DefaultServer = a0
  Offset = {z0, z1}
  DefaultOffset = z0
  Absent = Absent
SPECIFICATION NtpSpec
INVARIANT SavedSurvives
