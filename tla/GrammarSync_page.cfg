\* An item is inserted and promoted before the device asks.
SPECIFICATION FairSpec
CONSTANTS
    a1 = a1
    a2 = a2
    w1 = w1
    u1 = u1
    u2 = u2
    Items <- OneItem
    RuleOf <- RuleOfOne
    Rewritable = {1}
    Statements = 1
    Failures = 0
    Answers = {a1, a2}
    WebAnswers = {w1}
    ItemOf <- ItemOfAll
    At <- AtOfAll
    Uploads = {u1, u2}
    BatchLimit = 2
    PageLimit = 2
    BankWrites = 3
    Plans <- OnePlan
INVARIANTS BankHeld
