\* A batch sent twice beside a web answer; crossing batches with refused answers.
SPECIFICATION FairSpec
CONSTANTS
    r1 = r1
    r2 = r2
    r3 = r3
    w = w
    a1 = a1
    a2 = a2
    a3 = a3
    a4 = a4
    a5 = a5
    a6 = a6
    d1 = d1
    d2 = d2
    Cards = {1, 2}
    Answers = {a1, a2, a3, a4, a5, a6}
    IdOf <- IdOfAll
    CardOf <- CardOfAll
    At <- AtAll
    Requests = {r1, r2, r3, w}
    Plans <- RetryAndMixed
    Batch <- BatchAll
    Web = {w}
    Devices = {d1, d2}
    DeviceOf <- DeviceAll
    Legacies = {{1}, {1, 2}}
    Migrated = 2
    Now = 3
    Ahead = 1
INVARIANTS TypeOK RepliesStayTrue
PROPERTIES Implements Answered
CHECK_DEADLOCK FALSE
