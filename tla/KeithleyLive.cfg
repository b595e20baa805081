SPECIFICATION FairSpec
CONSTANTS
  Channels = {smua, smub}
  Polled = {smua}
  Reachable = {}
  Callers = {x}
  MaxEpoch = 3
  MaxOffEpoch = 3
  MaxGen = 1
INVARIANTS
  VerifiedMeansOff
PROPERTIES
  CallsSettle
CHECK_DEADLOCK FALSE
