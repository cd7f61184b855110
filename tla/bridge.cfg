CONSTANTS
    None = None
    App = {a1}
    Topic = {t1}
    MaxChannels = 2
    MaxJoins = 2
    MaxPending = 1
    MaxCalls = 3
    MaxStreams = 2
SPECIFICATION FairSpec
INVARIANTS WithinLimits ConsentFirst
PROPERTIES JoinSettles StreamEndLeaves
CHECK_DEADLOCK FALSE
