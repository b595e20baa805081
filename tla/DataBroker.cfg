SPECIFICATION Spec
CONSTANTS
  Requests = {r1, r2}
  Capacity = 2
  SubCapacity = 2
  MaxTelemetry = 3
INVARIANTS
  TypeOK
  VerdictHonest
  PublicationAccounts
PROPERTIES
  CallerSettles
CHECK_DEADLOCK FALSE
