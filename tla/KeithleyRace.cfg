SPECIFICATION Spec
CONSTANTS
  Channels = {smua}
  Polled = {smua}
  Reachable = {smua}
  Callers = {x, y}
  MaxEpoch = 5
  MaxOffEpoch = 5
  MaxGen = 2
SYMMETRY Symmetric
INVARIANTS
  TypeOK
  OffEvidenceHonest
  ReportedOffIsOff
  OutputsAccountedFor
PROPERTIES
  WireAuthorised
CHECK_DEADLOCK FALSE
