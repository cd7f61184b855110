CONSTANTS
    MaxSockets = 2
    MaxLoads = 2
    MaxAttempts = 1
    MaxCalls = 1
    MaxEvents = 2
    Diag = {d1}
SPECIFICATION FairSpec
INVARIANTS AnswersKeepToTheirSide EventsInOrder EventsAccounted
           AttachedWhileOpen
PROPERTIES DetachedEnds
CHECK_DEADLOCK FALSE
