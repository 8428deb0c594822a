---------------------------- MODULE StudyScenes -----------------------------
(***************************************************************************)
(* What a learner does and how its material is made and shown, as          *)
(* thirteen scenes.                                                        *)
(*                                                                         *)
(* The learner's: sessions of dual n-back handed over by a device (hand),  *)
(* played in the browser (nback) and at the terminal (play), flashcards on *)
(* a device (device), and the learners who sign in on it (accounts).       *)
(*                                                                         *)
(* The material's: the syllabus of a language (lessons) and the answers of *)
(* the language model (answers); the clips of sentences on a page (spoken),*)
(* on a device that fetches one (fetched) or a list of them (listed); a    *)
(* deck that runs by itself (fast); a book that is read (paged) and whose  *)
(* words go into decks (worded).                                           *)
(*                                                                         *)
(* They share no rows, so a behaviour plays one of them, or another scene  *)
(* of MCStudy, and what is not played stays as it was.                     *)
(***************************************************************************)
EXTENDS Integers, FiniteSets, Sequences

VARIABLE scene          \* the scene that is played

-----------------------------------------------------------------------------
(* The learner                                                             *)

CONSTANTS
    \* NbackUpload
    Rounds, Uploads, BatchOfSessions, UploadUpsets,
    \* NbackWeb
    Responses, Results, Level, Interval, ResponseUpsets,
    \* NbackPlay
    PlayPools, PlayThrows, PlayKeys, PlayLevels, PlayTrials, PlayMishaps,
    \* DeviceLearn
    Translations, Phrases, Sittings, Events, DeckSize, PhraseEvery, LastMoment, Incidents,
    \* DeviceAccounts
    Users, Issuable, Devices, Logins, Rations

ASSUME NbackAssumption ==
    /\ Rounds \subseteq Nat /\ IsFiniteSet(Rounds) /\ "rest" \notin Uploads
    /\ BatchOfSessions \in Nat \ {0} /\ UploadUpsets \in Nat /\ ResponseUpsets \in Nat
    /\ Level \in Int /\ Interval \in Int /\ Results \subseteq [audio : BOOLEAN, visual : BOOLEAN]

\* The random generator gives each channel of a trial an item and whether it matches.
ASSUME PlayAssumption ==
    /\ PlayThrows \subseteq [match : [{"audio", "visual"} -> BOOLEAN],
                             item : [{"audio", "visual"} -> UNION PlayPools]]
    /\ PlayLevels \subseteq Int /\ PlayMishaps \in Nat

\* Translations are numbered from 1.
ASSUME DeviceAssumption ==
    /\ Translations \subseteq Nat \ {0} /\ IsFiniteSet(Sittings) /\ IsFiniteSet(Events)
    /\ LastMoment \in Nat \ {0}

\* Users, tokens and installations are numbered; who has signed in before has the
\* installation of that number.
ASSUME AccountAssumption ==
    /\ Users \subseteq Nat \ {0} /\ Issuable \subseteq Nat \ {0} /\ Devices \subseteq Nat \ {0}
    /\ Rations \subseteq [logins : Nat, runs : Nat, ends : Nat, deaths : Nat,
                          before : SUBSET (Users \cap Devices)]

VARIABLES
    \* NbackUpload
    outbox, whole, stored, waits, upload, unheard, losses,
    \* NbackWeb
    trial, state, final, board, press, twice, slips,
    \* NbackPlay
    game, pooled, thrown, played, hardness, keyed, tally, walked, scored, totals, marks, stumbles,
    \* DeviceLearn
    pair, entries, cards, reviews, sessions, clock, incidents, ahead,
    \* DeviceAccounts
    issued, live, registered, credited, credential, active, installed, pending, copies, cursor,
    app, login, restore, sync, crossed, mixed, doubt, ration

Upload == INSTANCE NbackUpload WITH
    rows <- stored, run <- waits, request <- upload, upsets <- losses,
    Requests <- Uploads, Limit <- BatchOfSessions, Upsets <- UploadUpsets

Nback == INSTANCE NbackWeb WITH
    page <- board, request <- press, upsets <- slips,
    Requests <- Responses, Upsets <- ResponseUpsets

Play == INSTANCE NbackPlay WITH
    step <- game, pool <- pooled, generated <- thrown, completed <- played, state <- hardness,
    pressed <- keyed, count <- tally, quit <- walked, rows <- scored, final <- totals,
    ratings <- marks, mishaps <- stumbles,
    Pools <- PlayPools, Throws <- PlayThrows, Keys <- PlayKeys, Levels <- PlayLevels,
    MaxTrials <- PlayTrials, Mishaps <- PlayMishaps

Device == INSTANCE DeviceLearn WITH
    rows <- entries, outbox <- reviews, session <- sessions, upsets <- incidents,
    Sessions <- Sittings, Size <- DeckSize, Every <- PhraseEvery, Horizon <- LastMoment,
    Upsets <- Incidents

Accounts == INSTANCE DeviceAccounts WITH
    left <- ration, Tokens <- Issuable, Plans <- Rations

hand    == <<outbox, whole, stored, waits, upload, unheard, losses>>
nback   == <<trial, state, final, board, press, twice, slips>>
play    == <<game, pooled, thrown, played, hardness, keyed, tally, walked, scored, totals, marks,
             stumbles>>
local   == <<pair, entries, cards, reviews, sessions, clock, incidents, ahead>>
signing == <<issued, live, registered, credited, credential, active, installed, pending, copies,
             cursor, app, login, restore, sync, crossed, mixed, doubt, ration>>
learner == <<scene, hand, nback, play, local, signing>>

LearnerInit == Upload!Init /\ Nback!Init /\ Play!Init /\ Device!Init /\ Accounts!Init

LearnerNext ==
    \/ scene = "hand" /\ Upload!Next /\ UNCHANGED <<scene, nback, play, local, signing>>
    \/ scene = "nback" /\ Nback!Next /\ UNCHANGED <<scene, hand, play, local, signing>>
    \/ scene = "play" /\ Play!Next /\ UNCHANGED <<scene, hand, nback, local, signing>>
    \/ scene = "device" /\ Device!Next /\ UNCHANGED <<scene, hand, nback, play, signing>>
    \/ scene = "accounts" /\ Accounts!Next /\ UNCHANGED <<scene, hand, nback, play, local>>

LearnerSpec == LearnerInit /\ [][LearnerNext]_learner

-----------------------------------------------------------------------------
\* What a learner has done counts once: a session of dual n-back is stored once however
\* often it is sent, and its difficulty moves as its answers say; at the terminal its stored
\* trials tell which of them match and earn the difficulty of the next, and it is completed
\* with what it stored; each answer of a device is in its outbox once and its session beside
\* it, with a card that can be answered (dnb/upload.rs, nback/scoring.rs, nback/mod.rs,
\* storage/learning.rs).
CountedOnce ==
    /\ scene = "hand" => Upload!KeptOnce
    /\ scene = "nback" => Nback!ScoredAsPlayed
    /\ scene = "play" => Play!MatchesTold /\ Play!EarnedByRows /\ Play!CountedAsPlayed
    /\ scene = "device" => /\ Device!SessionInStep /\ Device!AnsweredOnce
                           /\ Device!PendingHasCard /\ Device!Answerable

\* Two learners of one device: an answer is counted for whoever gave it, also when
\* another signs in under the run that sends it, cards land in their own learner's
\* tables, the app shows the learner the store works for; each of the three names
\* the sign-ins at work beside it that it excepts (application/profile.rs,
\* sync/engine.rs, storage/sqlite.rs).
LearnersApart == scene = "accounts" =>
    Accounts!AnswersOwn /\ Accounts!CopiesOwn /\ Accounts!ShownAsStored

-----------------------------------------------------------------------------
(* The material                                                            *)

CONSTANTS
    \* LlmCache
    Askers, Questions, AskBreaks,
    \* RuleImport
    Slugs, SenseOf, Calls, Importers, SynthesisBatch, RulesPerLevel, DocumentRulesPerLevel,
    Proposals, Lectures,
    \* SentenceClips
    Pupils, Lesson, Samples, RuleAt, Voices, Players, ClipLimit, ClipEdits, PlayerMishaps,
    PlayerTurns, DeviceMishaps, DeviceTurns, MoreSamples, ListLimit, ListEdits, ListMishaps,
    ListTurns,
    \* FastPlay
    FastSizes, PicturedAt, PreloadWindow, FastRuns, FastAnswers,
    \* Reading
    SentencesBefore, SentencesAfter, ChapterSize, ParagraphSize, WordForms,
    PlainBefore, PlainAfter, PlainSize, PlainWords, DeckNames, Additions, MarkLimit, NoteLimit

\* A document without chunks is refused (pdf_incremental.rs).
ASSUME ImportAssumption ==
    /\ Calls \in Seq([level : Nat, chunks : Seq(SUBSET Slugs) \ {<<>>}]) \ {<<>>}

\* The rows of items have positive numbers, and the server starts with a voice.
ASSUME ClipAssumption == Lesson \in Seq(Nat \ {0}) /\ 1 \in Voices

ASSUME FastAssumption == FastSizes \subseteq Nat /\ PreloadWindow \in Nat

\* The word of a popover is never empty; a page sends small numbers.
ASSUME ReadingAssumption ==
    /\ "" \notin WordForms \cup PlainWords /\ NoteLimit \in Nat
    /\ {SentencesBefore, SentencesAfter, PlainBefore, PlainAfter} \subseteq Nat
    /\ {ChapterSize, ParagraphSize, PlainSize} \subseteq Nat \ {0}

VARIABLES
    \* LlmCache
    answer, request, breaks,
    \* RuleImport
    rules, progress, saved, importer, author, aside, plan,
    \* SentenceClips
    right, voice, recorded, earned, card, verdict, playing, failed, asking, wanted, moved,
    shelf, files, temp, signed, work, spoilt, vouched, edits, mishaps, turns,
    \* FastPlay
    strip, round, length, index, generation, media, fetches, requested, playback, element, settled,
    starting,
    \* Reading
    books, texts, declined, glossed, mark, boxes, boxed, minted, links, leaf, open, note, showing,
    menu, saves, wondered, missed, add, added

Answers == INSTANCE LlmCache WITH
    Processes <- Askers, Prompts <- Questions, Breaks <- AskBreaks

Lessons == INSTANCE RuleImport WITH
    job <- importer, writer <- author, late <- aside,
    Runs <- Importers, Batch <- SynthesisBatch, Plans <- Lectures

\* The web's practice, with another client of its routes; then a device that fetches
\* one clip or two, by a prefetch and by a tap.
Spoken == INSTANCE SentenceClips WITH
    clips <- recorded, request <- asking, named <- wanted, rows <- shelf, active <- signed,
    Learners <- Pupils, Deck <- Lesson, Examples <- Samples, RuleOf <- RuleAt, Slots <- Players,
    Limit <- ClipLimit, Edits <- ClipEdits, Mishaps <- PlayerMishaps, Turns <- PlayerTurns

Fetched == INSTANCE SentenceClips WITH
    clips <- recorded, request <- asking, named <- wanted, rows <- shelf, active <- signed,
    Learners <- Pupils, Deck <- Lesson, Examples <- Samples, RuleOf <- RuleAt, Slots <- {},
    Limit <- ClipLimit, Edits <- ClipEdits, Mishaps <- DeviceMishaps, Turns <- DeviceTurns

Listed == INSTANCE SentenceClips WITH
    clips <- recorded, request <- asking, named <- wanted, rows <- shelf, active <- signed,
    Learners <- Pupils, Deck <- Lesson, Examples <- MoreSamples, RuleOf <- RuleAt, Slots <- {},
    Limit <- ListLimit, Edits <- ListEdits, Mishaps <- ListMishaps, Turns <- ListTurns

Fast == INSTANCE FastPlay WITH
    page <- strip, run <- round, size <- length, answers <- settled,
    Sizes <- FastSizes, Pictured <- PicturedAt, Window <- PreloadWindow, MaxRuns <- FastRuns,
    MaxAnswers <- FastAnswers

\* A file of one chapter whose second revision has two, with the notes of two words; then a
\* file of one sentence with a word that two requests put into a deck.
Paged == INSTANCE Reading WITH
    stored <- books, refused <- declined, place <- mark, decks <- boxes, deckCards <- boxed,
    cards <- minted, page <- leaf, asked <- wondered,
    Before <- SentencesBefore, After <- SentencesAfter,
    PerChapter <- ChapterSize, PerParagraph <- ParagraphSize,
    Words <- WordForms, Names <- {}, Tasks <- {}, MaxSaves <- MarkLimit, MaxAsked <- NoteLimit

Worded == INSTANCE Reading WITH
    stored <- books, refused <- declined, place <- mark, decks <- boxes, deckCards <- boxed,
    cards <- minted, page <- leaf, asked <- wondered,
    Before <- PlainBefore, After <- PlainAfter,
    PerChapter <- PlainSize, PerParagraph <- PlainSize,
    Words <- PlainWords, Names <- DeckNames, Tasks <- Additions,
    MaxSaves <- MarkLimit, MaxAsked <- NoteLimit

answers == <<answer, request, breaks>>
lessons == <<rules, progress, saved, importer, author, aside, plan>>
voicing == <<right, voice, recorded, earned, card, verdict, playing, failed, asking, wanted, moved,
    shelf, files, temp, signed, work, spoilt, vouched, edits, mishaps, turns>>
fast    == <<strip, round, length, index, generation, media, fetches, requested, playback, element,
             settled, starting>>
reading == <<books, texts, declined, glossed, mark, boxes, boxed, minted, links, leaf, open, note,
             showing, menu, saves, wondered, missed, add, added>>
material == <<scene, answers, lessons, voicing, fast, reading>>

MaterialInit ==
    /\ Answers!Init /\ Lessons!Init /\ Fast!Init
    /\ IF scene = "fetched" THEN Fetched!Init ELSE IF scene = "listed" THEN Listed!Init
       ELSE Spoken!Init
    /\ IF scene = "worded" THEN Worded!Init ELSE Paged!Init

MaterialNext ==
    \/ scene = "answers" /\ Answers!Next /\ UNCHANGED <<scene, lessons, voicing, fast, reading>>
    \/ scene = "lessons" /\ Lessons!Next /\ UNCHANGED <<scene, answers, voicing, fast, reading>>
    \/ scene = "spoken" /\ Spoken!Next /\ UNCHANGED <<scene, answers, lessons, fast, reading>>
    \/ scene = "fetched" /\ Fetched!Next /\ UNCHANGED <<scene, answers, lessons, fast, reading>>
    \/ scene = "listed" /\ Listed!Next /\ UNCHANGED <<scene, answers, lessons, fast, reading>>
    \/ scene = "fast" /\ Fast!Next /\ UNCHANGED <<scene, answers, lessons, voicing, reading>>
    \/ scene = "paged" /\ Paged!Next /\ UNCHANGED <<scene, answers, lessons, voicing, fast>>
    \/ scene = "worded" /\ Worded!Next /\ UNCHANGED <<scene, answers, lessons, voicing, fast>>

MaterialSpec == MaterialInit /\ [][MaterialNext]_material

-----------------------------------------------------------------------------
\* What an import of grammar has left behind is taught, and nothing twice under the
\* lock of its language; nor is a prompt paid for while its answer is stored
\* (pdf_incremental.rs, llm/cache.rs).
LessonsTaught ==
    /\ scene = "lessons" => Lessons!ReadThrough /\ Lessons!TaughtOnce
    /\ scene = "answers" => Answers!PaidOnce
    /\ scene = "spoken" => Spoken!NothingWrongSpoken
    /\ scene = "fetched" => Fetched!NothingWrongSpoken

\* What is played is of what is shown, and is kept: files and rows of a device name each
\* other; the player of an answer has the answer's clip; a running deck has asked once for
\* each clip of its window, and sounds those of its own run (sync/media.rs,
\* components/grammar/session.rs, learn/preload.rs, fast/mod.rs).
MediaKept ==
    /\ scene = "fetched" => Fetched!FileIsItsName /\ Fetched!RowHasFile
    /\ scene = "listed" => Listed!FileIsItsName /\ Listed!RowHasFile
    /\ scene = "spoken" => Spoken!PlayerIsOfTheCard
    /\ scene = "fast" => Fast!RightClip /\ Fast!WindowKept

\* Pages keep step with what is stored: a running deck does not stop for good; a book's
\* chapter is whole on the page, which sends the place of the sentence that was tapped and
\* shows the note of the open word, and a word added from it has its card
\* (fast/playback.rs, reader/page.rs, api/decks.rs).
PagesInStep ==
    /\ scene = "fast" => Fast!NeverStranded
    /\ scene = "paged" => Paged!ShownWhole /\ Paged!PlaceTapped /\ Paged!NoteExplained
    /\ scene = "worded" => Worded!NoteExplained /\ Worded!AddedKept
=============================================================================
