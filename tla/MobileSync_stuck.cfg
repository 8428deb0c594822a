\* A card is deleted on the server while an answer for it is pending.
SPECIFICATION SpecAll
CONSTANTS
    Pairs = {1}
    Ids = {1}
    PairOf <- OnePair
    Existing = {1}
    PageLimit = 1
    MaxChanges = 0
    MaxDownloads = 0
    Cards = {1}
    Answers = {1}
    WebAnswers = {2}
    CardOf <- TwoAnswers
    Misdated = {}
    Deletable = {1}
    BatchLimit = 1
    CardLimit = 1
PROPERTY AnswersUploaded
CHECK_DEADLOCK FALSE
