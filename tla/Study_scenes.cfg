\* Scenes of making study material and studying it.
CONSTANTS
    Askers = {"x", "y", "z"}
    Questions = {"p", "q"}
    AskBreaks = 3
    Slugs = {"a", "b", "c"}
    SenseOf <- TwoOfASense
    Calls <- OneDocument
    Importers = {"x", "y"}
    SynthesisBatch = 1
    RulesPerLevel = 2
    DocumentRulesPerLevel = 2
    Proposals = 1
    Lectures <- TwoLectures
    Pupils = {1, 2}
    Lesson <- TwoItems
    Samples = {3}
    RuleAt <- RulesOfFour
    Voices = {1, 2}
    Players = {"a", "b"}
    ClipLimit = 1
    ClipEdits = 1
    PlayerMishaps = 0
    PlayerTurns = 0
    DeviceMishaps = 1
    DeviceTurns = 2
    MoreSamples = {3, 4}
    ListLimit = 2
    ListEdits = 0
    ListMishaps = 1
    ListTurns = 2
    FastSizes = {1, 3}
    PicturedAt = {0}
    PreloadWindow = 1
    FastRuns = 2
    FastAnswers = 2
    Translations = {1, 2, 3}
    Phrases = {3}
    Sittings = {1, 2}
    Events = {1, 2}
    DeckSize = 2
    PhraseEvery = 2
    LastMoment = 2
    Incidents = 1
    SentencesBefore = 1
    SentencesAfter = 3
    ChapterSize = 2
    ParagraphSize = 2
    WordForms = {"mar", "rio"}
    PlainBefore = 1
    PlainAfter = 1
    PlainSize = 1
    PlainWords = {"mar"}
    DeckNames = {"d"}
    Additions = {1, 2}
    MarkLimit = 1
    NoteLimit = 1
    Rounds = {1, 2}
    Uploads = {"r", "q"}
    BatchOfSessions = 2
    UploadUpsets = 3
    Responses = {"r"}
    Results <- ThreeResults
    Level = 2
    Interval = 4000
    ResponseUpsets = 2
    PlayPools <- TwoPools
    PlayThrows <- ThreeThrows
    PlayKeys = {"audio"}
    PlayLevels = {1, 2}
    PlayTrials = 6
    PlayMishaps = 1
    Users = {1, 2}
    Issuable = {1, 2, 3}
    Devices = {1, 2}
    Logins = {1, 2}
    Rations <- FourRations
SPECIFICATION Spec
INVARIANTS TypeOK LessonsTaught Accounted MediaKept DealtAndJudged CountedOnce PagesInStep LearnersApart
CHECK_DEADLOCK FALSE
