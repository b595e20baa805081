SPECIFICATION FairSpec
CONSTANTS
  Experiments = {e1, e2}
  Titles = {t1, t2}
  Phases = {p1}
  Aged = {e1}
  NoExperiment = NoExperiment
  NoPhase = NoPhase
  MaxRevision = 3
  MaxFaults = 2
INVARIANTS
  TypeOK
  LifecycleConsistent
PROPERTIES
  CommandsStayBound
  ImplementsLedger
  RestartSettles
CHECK_DEADLOCK FALSE
