CONSTANTS
    None = None
    Doc = {d1}
    Term = {t1}
    Content = {{t1}}
    IndexCall = {i1}
    BindCall = {b1}
    RevokeCall = {r1}
    MaxDocs = 1
    Slack = 1
    OldSeq = 0
    MaxCrashes = 1
    MayMisread = FALSE
SPECIFICATION Spec
INVARIANT RevokeSticks
CHECK_DEADLOCK FALSE
