CONSTANTS
    None = None
    p1 = p1  p2 = p2  a1 = a1  a2 = a2
    s1 = s1  m1 = m1  m2 = m2
    Page = {p1, p2}
    Ask = {a1, a2}
    StreamOf <- MCStreamOf
    Model = {m1, m2}
    ModelOf <- MCModelOf
    MaxQueue = 1
SPECIFICATION FairSpec
INVARIANTS InUseStaysLoaded ClosedIsQuiet
PROPERTIES RequestSettles MemoryReleased
CHECK_DEADLOCK FALSE
