\* An older transaction draws a later number than a younger one.
SPECIFICATION Spec
CONSTANTS
    k1 = k1
    k2 = k2
    k3 = k3
    s1 = s1
    s2 = s2
    Streams = {s1}
    Joined = {s1}
    Keys = {k1, k2}
    StreamOf <- OneStream
    Txns = {t1, t2}
    None = None
    MaxSeq = 3
    PageLimit = 1
INVARIANTS NothingBeneath
CHECK_DEADLOCK FALSE
