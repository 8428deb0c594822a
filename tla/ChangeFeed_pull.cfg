\* A learner's cards and a language pair, written by the same transactions.
SPECIFICATION FairSpec
CONSTANTS
    k1 = k1
    k2 = k2
    k3 = k3
    s1 = s1
    s2 = s2
    Streams = {s1, s2}
    Joined = {s1}
    Keys = {k1, k2, k3}
    StreamOf <- TwoStreams
    Txns = {t1, t2}
    None = None
    MaxSeq = 3
    PageLimit = 1
INVARIANTS TypeOK CursorAnswered ReplyAccepted PromiseKept Converged
PROPERTIES Delivered
CHECK_DEADLOCK FALSE
