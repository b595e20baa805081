SPECIFICATION Spec
CONSTANTS
    MaxIncarnation = 3
    Keys = {k1}
    Contents = {c1}
    LogLane = 1
    LogBudget = 1
    NoContent = NoContent
    NoRegistry = NoRegistry
    Requests = {r1}
    AckLane = 1
    MaxActivations = 1
    AckBudget = 1
    NoRequest = NoRequest
    Lanes = {"log"}
PROPERTY
    StrandedDayIsSwept
CHECK_DEADLOCK FALSE
