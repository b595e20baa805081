SPECIFICATION Spec
CONSTANTS
  Instruments = {a, b}
  MaxPolls = 2
  Capacities = {1, 2}
INVARIANTS
  TypeOK
  PublishedIsDurable
  OutageIsShown
PROPERTIES
  AcquisitionSettles
CHECK_DEADLOCK FALSE
