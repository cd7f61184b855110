CONSTANTS
    None = None
    Doc = {d1, d2}
    Term = {t1, t2}
    Content = {{}, {t1}, {t1, t2}}
    IndexCall = {i1, i2}
    BindCall = {b1}
    RevokeCall = {r1}
    MaxDocs = 1
    Slack = 1
    OldSeq = 1
    MaxCrashes = 1
    MayMisread = TRUE
SPECIFICATION FairSpec
INVARIANTS IndexWhole
PROPERTIES CallSettles FreshPageStays
CHECK_DEADLOCK FALSE
