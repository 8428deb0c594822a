\* Scenes of the background work of the host.
SPECIFICATION FairSpec
CONSTANTS
    Workers = {"u"}
    Pairs <- TwoPairs
    Archives <- ThreeArchives
    ForeignOf <- ThePairOf
    Missing = {"gd2"}
    VoicedPairs = {"gd", "fr"}
    Outages = {"none", "llm", "tts", "image"}
    Lines = 2
    Slots = 2
    Faults = 1
    Kills = 2
    PrunesOfGlosses = 1
    Books = {1}
    Length = 2
    RunMax = 2
    Spellings = {1, 2}
    FormsOf <- OneForm
    VoicedSpellings = {1, 2}
    VoiceBatch = 1
    Requests = {"r"}
    Troubles = 1
    PrunesOfClips = 1
    Writers = {"v", "w"}
    Cards = {"c1", "c2"}
    Prints = {"f1", "f2"}
    Edits = 1
    Mishaps = 1
INVARIANTS TypeOK ArchiveTruthful MadeOnce FilesAgree
PROPERTIES OutagesApart Quiet Healed
CHECK_DEADLOCK FALSE
