SPECIFICATION Spec
CONSTANTS
  Channels = {smua, smub}
  Runs = {r}
  Stops = {s}
  Alarms = {a}
  Owners = {r, s, a}
SYMMETRY Symmetric
INVARIANTS
  TypeOK
  EvidenceHonest
  SettledStateAgrees
PROPERTIES
  SuccessHolds
  NoStartAfterAbort
  LatchSurvives
