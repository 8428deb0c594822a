\* Two pairs, the corpus rewritten while it is downloaded page by page; and a
\* learner's cards, with lost replies, late uploads, a misdated answer, answers
\* elsewhere and a deleted translation.
SPECIFICATION SpecAll
CONSTANTS
    Pairs = {1, 2}
    Ids = {1, 2, 3}
    PairOf <- TwoPairs
    Existing = {1, 2}
    PageLimit = 1
    MaxChanges = 2
    MaxDownloads = 2
    Cards = {1, 2}
    Answers = {1, 2, 3}
    WebAnswers = {4}
    CardOf <- FourAnswers
    Misdated = {3}
    Deletable = {1}
    BatchLimit = 2
    CardLimit = 1
INVARIANTS TypeOK SnapshotPlusFeed CardsTruthful
PROPERTIES CorpusFollowed CardsArrive
CHECK_DEADLOCK FALSE
