SPECIFICATION Spec
CONSTANTS
    MaxIncarnation = 2
    Keys = {k1, k2}
    Contents = {c1, c2}
    LogLane = 2
    LogBudget = 3
    NoContent = NoContent
    NoRegistry = NoRegistry
    Requests = {r1, r2}
    AckLane = 2
    MaxActivations = 2
    AckBudget = 3
    NoRequest = NoRequest
    Lanes = {"log", "ack"}
INVARIANTS
    TypeOK
    AnswersHold
    LogStoresAgree
    AckStoresAgree
PROPERTIES
    CommittedIsPublished
CHECK_DEADLOCK FALSE
