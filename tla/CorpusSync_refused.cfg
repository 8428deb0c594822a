\* A change of one pair moves the snapshot's watermark of another.
SPECIFICATION SpecAll
CONSTANTS
    Pairs = {1, 2}
    Ids = {1, 2, 3}
    PairOf <- TwoPairs
    Existing = {1, 2}
    PageLimit = 1
    MaxChanges = 1
    MaxDownloads = 2
    Cards = {1}
    Answers = {1}
    WebAnswers = {2}
    CardOf <- TwoAnswers
    Misdated = {}
    Deletable = {}
    BatchLimit = 1
    CardLimit = 1
PROPERTY PairsFollowed
CHECK_DEADLOCK FALSE
