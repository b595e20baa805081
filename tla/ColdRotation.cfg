SPECIFICATION Spec
CONSTANTS
  Days = {"d1", "d2"}
  Sites <- MCSites
INVARIANTS
  TypeOK
  QueryComplete
PROPERTIES
  StoreSpec
CHECK_DEADLOCK FALSE
