# Wisecrow: models and proofs

TLA+ specifications of the parts of Wisecrow whose correctness depends on the
order in which things happen: the change feeds of the server, the review ledger,
the synchronisation of a device with both, the work the host does in the
background, the making of study material, and the sessions a learner plays. Paths
below are relative to the repository.

## 1. The system

Wisecrow is a vocabulary and grammar trainer. A PostgreSQL server holds the
corpus and every learner's progress; a web client and a terminal work on the
server directly; a mobile client keeps its own SQLite store, works offline and
synchronises; a host script fills the corpus, the media and the books.

| Component | State it keeps | Operations | What is hard about it |
|---|---|---|---|
| Change feeds (`migrations/022`, `031`, `032`, `api/mobile_sync.rs`, `api/grammar_sync.rs`) | `corpus_changes`, `card_changes`, grammar feeds: one row per row change, numbered by a sequence, stamped with the writer's transaction id | triggers on insert, update, delete; read a page above a cursor | numbers and ids are drawn at different moments by concurrent transactions; watermark and page, or keys and rows, are two statements |
| Review ledger (`wisecrow-core/src/srs/reviews.rs`) | `cards`, `card_review_baselines`, `review_events` | `apply_batch` (device upload), `apply_in_transaction` (web answer) | concurrent transactions, repeated batches, lock order, refusals decided outside the transaction |
| Device store (`wisecrow-mobile/src/storage`) | outboxes, local cards, cursors, phase, snapshots, grammar tables | answer, acknowledge, apply a page, advance a phase | each is one local transaction; the device computes cards the server computes too |
| Sync engine (`wisecrow-mobile/src/sync/engine.rs`) | nothing of its own (the phase is in the store) | one run: negotiate, upload phases, download phases | runs are killed anywhere and resume at the stored phase; a reply may be lost after the server acted |
| Scheduler (`wisecrow-learning/src/srs.rs`) | none | `schedule`, `replay` | pure: a fold of FSRS over sorted answers |
| Flashcard sessions (`srs/session.rs`, `api/learn.rs`, `tui/app.rs`, `components/learn`) | `sessions`, `session_cards`; the deck and index of each window | create, resume, answer, pause, complete | several windows play one session; a prune deletes cards under them; resuming is three statements |
| Fast download (`components/fast`, `learn/preload.rs`) | nothing stored: the page's window of fetched media, its playback state, the audio element | start, pause, resume, tick, restart | requests and play() are answered late, after a pause, another card or a restart |
| Pruning (`wisecrow-core/src/pruning.rs`) | none | delete translations, demote them | cascades to cards, answers and feeds; takes locks in another order than the ledger |
| Corpus snapshots (`api/mobile_sync.rs`, `storage/corpus.rs`) | per pair: status, position, watermark, change cursor | begin, apply page, finish, follow the feed | the snapshot is read from the live table over many requests |
| Grammar mastery (`grammar/mastery.rs`) | `grammar_attempts`, baselines, `grammar_mastery` | record an attempt, replay and store the projection | late attempts move the baseline back; concurrent attempts must see each other |
| Grammar sessions, items, quiz | items and their statuses, sessions, attempts | adopt, answer, complete; insert, promote, retire, rewrite examples | the bank changes under a session and under a device that follows it |
| Placement (`grammar/placement.rs`, `components/grammar/placement.rs`) | `placement_attempts`, the answers of its session | start, submit a level, finish | replies are lost and levels submitted again; the bank changes on the way; the end is two statements |
| n-back (`dnb/*`, `api/nback.rs`, `wisecrow-learning/src/nback`) | sessions, trials, adaptation state; uploads keyed by client id | play, score, upload | uploads are retried; state is read and written in separate statements |
| Media cache (`media/cache.rs`) | files and the rows that name them | fetch, publish, share, remove, sweep | file and row are written one after the other; a crash or another publisher between |
| Media preparation (`media/prefetch.rs`) | the budget and report of a run | prepare chunks, cancel | workers share a budget; a cancelled worker has charged what it will not report |
| LLM cache (`llm/cache.rs`) | answers by prompt | look up or ask | a lock is held across a provider call |
| Corpus unit (`pipeline/*`, `downloader.rs`, `ingesting/*`) | archive ledger, rank stamps, turn and cursors | one step per wake | wakes are killed; providers stay out; the evidence changes |
| Phrase mining (`pipeline/phrase_mine.rs`) | mine, counts, stamp | mine a page, abandon, publish | several workers; the corpus changes while it is mined |
| Syllabus import (`grammar/pdf_incremental.rs`, `seeder.rs`, `syllabus.rs`) | rules of a language, saved answers, progress of each call | one round per transaction; seed, fill, curate | rounds fail between answer and commit; other writers do not take the import's lock |
| Words (`words/*`, `glossing.rs`) | candidates, their links to rows, presentations | extract and publish, promote, enrich | the rows promotion makes must not be counted as evidence; the model is asked outside the transaction |
| Practice areas and verb forms (`grammar/areas.rs`, `paradigms.rs`, `words/classes.rs`) | area of a rule, class of a word, forms, faces and rows of a verb | label a batch, generate one paradigm, voice the forms, report idle | commands run side by side and store what an older state was asked with |
| Vocabulary and decks (`vocabulary.rs`, `frequency.rs`, `decks.rs`) | counts, statuses and cards of rows | rank, choose a deck, put a word into a deck | a deck is several statements; rows change between them |
| Sentence clips (`api/media.rs`, `api/mobile_media.rs`, `sync/media.rs`) | clips by fingerprint; on a device files and, per learner, rows | speak an example or an answer; fetch, publish, look up | what is spoken may change meanwhile; learners share files |
| Device accounts (`application/profile.rs`, `services.rs`, `server/auth.rs`) | stored credential, active user, installation ids, tokens | login, restore, logout, expire; `active_scope` | credential, identity and the shown user are written by different steps, a run goes on meanwhile |
| Reader (`reader/*`, `pipeline/reader_step.rs`) | books, progress, glosses, clips | import, translate, gloss, voice | long provider calls; host and readers' requests make the same clip; prune beside both |
| Reader's page (`components/reader`, `api/reader.rs`, `api/decks.rs`, `reader/library.rs`) | books and translations as the host stores them; places, decks and cards of the learner; the note shown | list, open, tap a sentence or a word, add a word to a deck | the host goes on translating; requests overlap, fail and outlive the page; adding a word is three requests |
| Quiz, exercises, library sync, covers, rate limit, presentation, deployment | see section 6 | | |

How they meet. A device *upload* (`mobile_upload_reviews`) becomes one ledger
transaction; the ledger writes `cards`, whose trigger writes `card_changes`; the
device later *pulls* `card_changes` above its cursor. The reply of an upload
carries cards as well, so a card reaches a device by two routes. A web answer is
the same ledger transaction without a device; so are the reviews of an uploaded
n-back session. Pruning deletes translations under all of them. The corpus unit
and the reader's host share the media cache and its locks with the requests of
readers; both ask the language model through the LLM cache, as do the imports of a
syllabus, the promotion of words and the generation of verb forms. A run of the
engine works for the learner it found when it began, and the transactions of the
store for the one the profile names at that moment.

## 2. Modules

| Module | Models | State and actions |
|---|---|---|
| `ChangeFeed` | Feed rows, transaction ids, sequence numbers, watermark, page, cursor | `Begin`/`Write`/`Commit`/`Abort` are a writing transaction; `Ask` and `Answer` are the two statements of one request; `Apply` is the device's local transaction; `Drop` loses the request or the reply |
| `ReviewStore` | What the ledger promises: a set of accepted answers and, per card, the schedule they give | `Accept(group)`, `Forget(card)` |
| `ReviewLedger` | The ledger's transaction statement by statement, row by row where rows are locked | `Receive` (validation outside the transaction), `BeginTransaction`, `EnsureCard`, `EnsureBaseline`, `LockCard`, `InsertAnswers`, `Replay`, `Commit`, `Abort`; `PruneLock`/`PruneDelete`/`PruneRollback`; `Revoke` |
| `MobileSync` | The device's outbox, cards, cursor and phase, a run of the engine, the server behind it | `Answer`, `Start`, `Stop`, `Advance`, `SendBatch`, `ApplyReply`, `AskCards`, `ApplyPage`; `ReceiveUpload`, `ServePage`, `AnswerElsewhere`, `DeleteTranslation` |
| `CorpusSync` | A server table with its feed, a device's copy, a checkpoint per language pair, runs over the two phases that touch the corpus | `Insert`/`Update`/`Delete` with their trigger; `BeginSnapshot`; `Start`/`Stop`/`Advance`; per pair `Ask`, `Serve` (a page of the snapshot or of the feed), `Apply` |
| `GrammarSync` | The item bank and its feed, mastery and its feed, sessions adopted from a device, the device's grammar outbox (when each answer was queued) and its tables | `Bank` (insert, promote, retire, rewrite examples, statement by statement); per answer look up, adopt, lock and move the baseline, replay, commit, or `Reject`; `Ask` (a page of keys) and the rows, later; `ApplyPage`, `ApplyReply`, `Backfill`, `Start`/`Stop` |
| `PhraseMine` | The rows of a mine, its counts, the published phrases and the stamp; per worker the statement it is at and what its open transaction has read and written | `Begin`; `ReadChecksum`, `OpenMine`, `Look`, `ReadPage`, `Count`, `Claim` for a page; `ReadChecksumAgain`, `Decide`, then `Bump`/`Abandon` or `PublishRead`/`DropStart`/`DropDone`/`Final`; `Fail`, `Victim`; `Grow`, `Leave`, `Rank` beside them |
| `CorpusUnit` | A wake of `prepare-corpus`: archives, ranking, one mine, then the turn of gloss, phrase speech and word media | `ReadArchive`, `Downloaded`, `Lock`, `Persist`, `EndOfFile`, `ParseError`, `MarkIngested`, `MarkUnavailable`; `Rank`; `Mine`; `BeginTurn`, `Gloss`, `VoicePhrases`, `WordMedia`, `Empty`, `StoreCursor`, `StoreTurn`; `Kill`, `Prune`. Which pair comes next is `FirstIn` of a set in the order of the pair file, or `InRotation` from the cursor |
| `BookPipeline` | The host's work on books, a reader's request to voice a row, the clips and the prune | `Wake`, `Extract`, `Translate`, `Gloss`, `SelectSentences`, `NextOfBatch`, `EndOfBatch`; `Ask`; `LookAgain`, `Speak`, `WriteFile`, `StoreClip`, `Name`; `BeginPrune`, `ListClips`, `DeleteClip`, `RemoveFile`; `Kill` |
| `PictureCache` | Pictures shared by the cards whose subject has their fingerprint | `Ask`, then `Step`: look, lock, look again, attach or download, rename, commit, remove the file before; `Crash`, `Edit` |
| `Prefetch` | A run of media preparation over chunks of a deck | `NextChunk`, `Work` (speech, then picture: probe, download, charge, publish), `ChangeEntry`, `Cancel` |
| `LlmCache` | The paid answers of the language model | `Generate`, `Locked`, `Call`, `StoreAnswer`, `Die`, `Stricter` |
| `LearnSession` | A flashcard session and the windows that play it | `Start` (resume or create, in its statements), `Play`, `AnswerCard`, `Reply`, `LoseReply`, `PruneCard` |
| `NbackUpload` | n-back sessions played on a device and handed over | `SaveSession`, `Send`, `Serve`, `GiveUp`, `Crash`, `PruneWord` |
| `NbackScoring` | `scoring.rs`: the window, the accuracy of a channel and the difficulty that follows (`Adapted`) | operators of `NbackWeb` and `NbackPlay` |
| `NbackPlay` | A session of n-back at the terminal with its engine, trial after trial | `Open`, `NextTrial` (a match of the trial as many before as the level is now, or any other item), `Key`, `Submit`, `SaveTrial`, `Quit`, `Complete`, `Rate` |
| `NbackWeb` | A session of n-back in the browser and its adaptation | `Press`, `RecordResponse`, `LoadAnsweredTrials`, `LoadState`, `UpdateState`, `Reply`; `CompleteLoad`, `CompleteStore` |
| `Placement` | A placement run and the page that climbs it | `Start`, `Submit`, `LoadRun`, `EnsureOpen`, `RecordAttempts`, `LevelScores`, `Advance`, `Finish`, `CloseSession`, `Reply`; `LoseReply`, `Crash`, `ChangeBank` |
| `RuleImport` | The syllabus of a language and what writes it | `Import` (`Begin`, `BeginRound`, `Synthesise`, `Commit`, `Fail`, `IsComplete`), `AskForLevel`, `PlaceRule`, `LevelWritten`, `Curate` |
| `WordStudy` | Candidates, their links and presentations beside the corpus they come from | `BeginScan`, `ReadPage`, `Publish`; `Promotion` (`BeginPromotion`, `Sort`, `Load`, asking, `Promote`, `Insert`, `MarkFailed`), `Kill`; `AskPresentations`, `StorePresentations`; `Import`, `Prune` |
| `VerbForms` | Areas, classes, verb forms, their faces, rows and clips, and the commands that make them | `Start`, `ReadRules`/`LabelRules`/`WriteRules`, the same of words, `Choose`, `Ask`, `Store`, `ListForms`, `Voice`, `Stop` |
| `DeckChoice` | Rows with counts, glosses, phrases and cards; a deck in the making | `Begin`, `Words1`, `OnceWords`, `Phrases1`, `OncePhrases`, `EnsureCards`, `LoadCards`, `Finish`; `Rank`, `GlossWord`, `Demote`, `Prune`, `PromotePhrase`, `CardOfAnother`, `AddWord` beside them |
| `DeviceLearn` | Flashcard sessions, cards and outbox in the store of a device | `CreateSession`, `Answer`, `Acknowledge`, `FeedCard`, `FeedRow`, `Snapshot`, `Tick` |
| `GrammarDrill` | A sitting of grammar practice in the browser and on the device, exposures and answers | `Start`, `Choose`, `Expose`, `BreakOff`, `Started`, `StartOnDevice`; `Check`, `Hear`, `Record`, `Verdict`, `Fail`, `GoOn`, `Leave`; `Queue`, `UploadAnswer`, `Close`, `SetStatus`, `Mirror` |
| `SentenceClips` | Clips of examples and answers: server, players of the practice page, files and rows of a device | `Edit`, `Revoice`; `AskExample`, `Check`, `AskAnswer`, `Load`, `Speak`, `Deliver`, `Forward`; `Sign`, `PullBank`, `BeginPrefetch`, `NextClip`, `Tap`, then `Fetch`, `Write`, `Rename`, `Register`, `Look`; `Stop` |
| `DeviceAccounts` | Two learners on one profile of a device: tokens, credential, identities, the run under way | `Authenticate`, `SaveCredential`, `AskMe`, `Name`, `Register`, `SaveIdentity`, `Lose`, `CleanUp`; `Restore`, `RestoreMe`, `Restored`; `Leave`, `Left`; `Begin`, `Validate`, `Gather`, `Send`, `Acknowledge`, `Pull`, `ApplyPage`, `Expire`; `SessionEnds`, `Crash` |
| `FastPlay` | A deck that runs on a timer: the preload window, the playback reducer (`On…`, one operator per event) with its commands, the audio element, the requests under way | `CountWords`, `ChangeArea`, `StartRun`, `DeckLoaded`, `DeckFailed`, `Fetched`, `Tick`, `Settle`, `PlayAnswered`, `ChooseSound`, `ChooseSilence`, `PauseOrResume`, `Restart`; the page's two effects (`Show`) are part of each |
| `Reading` | The shelf, an open chapter, the popover, the learner's place and the words taken into decks, over the tables the host fills | `Stores`, `Translates`, `Glosses`; `ListBooks`, `OpenBook`, `StartAt`, `CheckBook`, `ReadChapter`, `ListDecks`, `ChapterLost`, `Leave`; `TapSentence`, `SavePlace`, `LosePlace`; `TapWord`, `NoteComes`, `NoteLost`; `PressAdd`, `CreateDeck`, `AddWord`, `MakeCard`, `ListAgain`, `SetMenu`, `AddFails` |
| `DeviceCards` | The tables of `MobileSync`, what they are made of and what must be true of them (`CardsTruthful`) | constants, variables and properties, shared by `MobileSync` and `MCDevice` |
| `MCChangeFeed`, `MCReviewLedger`, `MCPhraseMine`, `MCGrammarSync` | Instances for TLC | |
| `MCDevice` | `CorpusSync` and `MobileSync` as two scenes of one instance | `scene` says which one a behaviour plays; `MobileSync_stuck` plays the second alone, `CorpusSync_refused` the first with one change |
| `MCBackground` | `CorpusUnit`, `BookPipeline` and `PictureCache` as three scenes | the same; its constants are parameters, and its theorems hold for all their values |
| `StudyScenes` | `NbackUpload`, `NbackWeb`, `NbackPlay`, `DeviceLearn` and `DeviceAccounts` as five scenes, and `RuleImport`, `LlmCache`, `SentenceClips` (three scenes), `FastPlay` and `Reading` (two) as eight | `LearnerNext` is a step of one of the five that is played, `MaterialNext` of one of the eight; the constants are parameters, and the theorems hold for all their values |
| `MCStudy` | These thirteen and the other seven modules, as twenty scenes of one instance | the same; the constants of the seven are given in the module |
| `ChangeFeedProofs`, `ReviewLedgerProofs`, `GrammarSyncProofs`, `PhraseMineProofs`, `DeviceProofs`, `BackgroundProofs`, `LearnerProofs`, `MaterialProofs` | Theorems (section 5) | |

How they compose. The server of `MobileSync` is the one of `ReviewStore` (an
upload is one step, because `ReviewLedger` implements `ReviewStore`) with a feed
that shows a change at once (what `ChangeFeed` promises when `PromiseKept`
applies). `CorpusSync` and `GrammarSync` use the same abstract feed and model
what `MobileSync` leaves out. `begin_snapshot` has no caller in the program yet
(only tests call it); the model lets it happen between two runs, with any
watermark the server has reported by then. `CorpusUnit` takes a mine as one step
whose detail is `PhraseMine`; answering a card in `LearnSession` is one step
whose detail is `ReviewLedger`; an import of grammar, a promotion and a paradigm ask
the model in steps whose detail is `LlmCache`. The modules of `MCDevice`,
`MCBackground` and `MCStudy` share tables with each other but no rows, so each
behaviour plays one scene and the others keep an initial state: an instance is the
union of its scenes, not their product.

`PhraseMine` and `ReviewLedger` have explicit row locks, because what one
transaction may still commit while another one deletes decides the result.

What is abstracted. A checksum of the corpus is the set of surfaces it was taken
over. A card's schedule is the set of answers it accounts for: the scheduler is
a deterministic fold over the answers in the order of (`occurred_at`,
`event_id`), which `src/wisecrow-learning/src/srs.rs` sorts first, so the set
decides the state; the same holds of a mastery row. The `Values` of a feed are
the transactions that wrote them. A text, a clip or a picture is its fingerprint.
Times are small numbers and the server's clock stands still. Logins, promoters and
the identifiers a device draws are alike, so the first idle or unused one is taken. The
language model is a choice among the answers its validators let pass, and among those
they refuse.

## 3. Runs

| Run | Question | Bounds and why they are enough |
|---|---|---|
| `ChangeFeed_pull` | Is a cursor ever refused, a reply unacceptable, a change lost? Does every change arrive? | Two streams (one of each feed), two cards and a translation, two transactions, three numbers, one row per page: enough for one transaction to overtake another in id and number, for two rows of one key, for a page to end between them, and for both streams to share a transaction |
| `ChangeFeed_unordered` | Does the promise of migration 031 hold as it is written? (It does not.) | Two transactions, one stream |
| `ReviewLedger_requests` | Is an answer applied once when its batch is sent twice beside a web answer? Do requests deadlock? Does what was answered stay true? Is the ledger atomic? | Two plans. *Retry*: one batch sent twice beside a web answer, over two cards, with aborts and a pruning at every point. *Mixed*: two requests that visit the same two cards in opposite orders, a refused answer of each kind, one id used twice, revocation. Cards are new or migrated (`Legacies`) |
| `Device_copies` | *Corpus*: do snapshot pages read at different times and the feed after them make one copy of the server's table, and does every download end? *Cards*: do outbox and cursor tell the truth, and does everything arrive? | *Corpus*: two pairs that share one feed, one with two translations so that its snapshot has two pages, one row per page, two changes (one behind and one ahead of the page in flight), two downloads, runs stopped anywhere. *Cards*: two cards; two answers for the first and one for the second on the device, one of them misdated, and one elsewhere; two answers per batch and one change per page, so that a batch is full or not and pages repeat; the translation of one card can be deleted, which rejects its answers. 177,276 states |
| `MobileSync_stuck` | Does a tombstone wait only for a time? (It does not.) | The card scene of `MCDevice`: one card, one answer on the device and one elsewhere |
| `CorpusSync_refused` | Does every pair catch up without any condition? (It does not.) | The same pairs, one change |
| `PhraseMine_workers` | Is a page counted twice, does an abandoned mine leave counts, is what is published what the corpus says, is it published at all? | Two workers, a corpus of one surface that gains another one in front of it (behind the cursor or ahead of it, as the mine stands), one surface per page, two phrases that both contain (so that workers lock their counts in opposite orders), and one mishap: a surface that leaves or a worker that is killed |
| `PhraseMine_stamp` | Is that so when workers overlap? (It is not.) | Two workers, a surface that is appended |
| `GrammarSync_follow` | Is an answer lost? Does the projection account for every answer? Does the device end as the server? | One item of one point, three writes of the bank and one rewriting of its examples, two changes per page (so that a page can name a key twice), two answers per batch, one database failure; as plans: an answer in the browser beside an older one of the device, two answers of the device, one answer in a request that is served late beside the next one |
| `GrammarSync_page` | Does a device hold what the feed has sent it? (Not when a page names a key twice.) | One item, one answer |
| `Background_work` | Is anything marked before it is whole, made twice, or left behind by what the host does? Does every loop come to rest? | Three scenes (below); 378,119 states |
| `Study_scenes` | Is study material made right, and is studying counted right? | Twenty scenes (below); 1,962,912 states |

The scenes of `Background_work` and their bounds:

* *unit* (`CorpusUnit`): two pairs, one with an archive the mirror does not have;
  archives of two batches, two phrases and words a language, one failure that
  passes, two killed wakes, one pruned gloss; from the start one provider or none
  may be out for ever. A wake can be killed in a first archive and again in its
  repetition.
* *book* (`BookPipeline`): one book of two sentences, runs of at most two (so a
  refused run halves), two spellings with one word form of both (a sentence and a
  word share a clip), batches of one, one reader's request, one trouble, one prune.
* *picture* (`PictureCache`): two writers, two cards, two subjects, one edit, one
  mishap: both cards can want one file, leave it and come back.

The scenes of `Study_scenes`:

* *prepare* (`Prefetch`): three entries in chunks of two, two workers, a budget of
  four for media of six (a shared picture of two among them), two upsets
  (failures, cancellation, edited entries).
* *answers* (`LlmCache`): three processes, two prompts, three breaks (failing
  providers, killed processes, stricter readers).
* *learn* (`LearnSession`): a tab and a terminal on a deck of three, two clicks
  under way, one upset. (Two upsets, checked once for this scene alone: 165,466
  states, no error.)
* *hand* (`NbackUpload`): two sessions, two requests, batches of two, three upsets.
* *nback* (`NbackWeb`): a full session of five trials with three kinds of result,
  from a level and an interval both directions can move, two upsets.
* *play* (`NbackPlay`): up to six trials, one more than the window, from level one or
  two and an interval both directions can move; a vocabulary that suffices and one that
  does not; three outcomes of the generator, one key, one failing statement. 147 thousand.
* *place* (`Placement`): three levels, the real sample of six (`PLACEMENT_SAMPLE`)
  with three or four right (below and above the pass mark), two requests, one upset.
  (Two upsets, checked once for this scene alone: 1,301,315 states, no error.)

* *lessons* (`RuleImport`): three titles of two senses, one call of two chunks,
  rounds of one point; one import with a mishap and another writer, or two imports
  with a mishap. 36 thousand states.
* *words* (`WordStudy`): two words in four sentences and a line of decoding debris,
  pages of two, a limit of one candidate, two promoters; six plans, each with three
  to six of extraction, promotion, enrichment, imports, prunes and kills. One has a
  sentence whose first row is too long to be quoted, and one has two extractions, two
  promotions, an import and a prune: a link to a row that is gone is repaired for a
  candidate whose examples have changed. 234 thousand states.
* *accounts* (`DeviceAccounts`): two learners, three tokens, two installations, two
  logins under way at once; as plans two logins and a run, before which nobody or both
  have signed in; a login and a run with a death of the app, and a login and two runs
  with a session that ends, after both have signed in. 225 thousand.
* *decks* (`DeckChoice`): six rows of four words (two words with two or more rows,
  one too short to be shown without a gloss), decks of three with a phrase in every
  second place, two words from a book, one or two decks and changes. 122 thousand.
* *device* (`DeviceLearn`): three translations, one a phrase, two sessions of two
  cards, two answers, a server that is ahead or behind, one upset. 82 thousand.
* *drill* (`GrammarDrill`): three items of two points, up to three sittings in the
  browser and one on the device, of two items each, up to three presses; six plans.
  168 thousand.
* *verbs* (`VerbForms`): two native languages, two rules, three words, two verbs with
  two slots, four answers of the model, two processes; five plans, each of two to four
  runs of commands. 33 thousand.
* *spoken* (`SentenceClips`): a deck of two items and one example, two voices, two
  requests, one edit. 170 thousand. *fetched*: a device with two learners that
  fetches one clip by a prefetch and a tap, one edit, one mishap, two sign-ins. 50
  thousand. *listed*: two examples of two rules, a prefetch of two clips, one mishap.
  186 thousand.
* *fast* (`FastPlay`): two runs, of decks of one card and of three, a picture on the
  first card, a window of one card ahead, two answers of the audio element not yet
  handled: a deck smaller than the window and one it slides over, and every answer of
  the first run can come in the second. `requested` counts the requests for each place,
  so that a second one shows. 145 thousand.
* *paged* (`Reading`): a file whose first revision has one sentence and whose second has
  three in two chapters; two words, each asked for once at a time, one place under
  way: the shelf may list either revision, and a chapter can be read before, while and
  after it is translated. 54 thousand. *worded*: one word that two additions put into
  one deck, failing anywhere. 135 thousand.

What they check. In the background: `ArchiveTruthful` (an archive is marked only
when all of it is in the table), `OutagesApart` (a provider that stays out leaves
the work of the others running), `MadeOnce` (nothing is spoken or downloaded twice
while it is stored), `FilesAgree` (rows and files name each other), `Quiet` (the
reader's loop comes to rest), `Healed` (every card ends with the picture of its
subject). Of study:

* `LessonsTaught`: an import leaves nothing untaught behind and teaches no sense
  twice, no prompt is paid for while its answer is stored, nothing wrong or unearned is
  spoken.
* `Accounted`: a media run keeps to its budget and reports what it made; words and verb
  forms are counted from the corpus and never from their own cards.
* `MediaKept`: files and rows of a device name each other, a player plays for the card on
  the screen, a running deck has asked once for each clip of its window and sounds its own.
* `DealtAndJudged`: a deck is whole and without doubles, no card of a session is passed
  over, the forms of a verb are those kept, a sitting serves items in turn, a rating is
  what the learner did, a placement verdict is what its answers say.
* `CountedOnce`: an upload and an adaptation of n-back count once; at the terminal the
  matches that are stored are matches, each trial has the difficulty the rows before it
  earn, and the session that is completed counts its rows; outbox and sessions of a device
  agree and a card can be answered.
* `PagesInStep`: a running deck does not stop for good, a chapter is shown whole and a tap
  sends the place of its sentence, the note shown is of the open word, a word added from a
  book has its card.
* `LearnersApart`: an answer is counted for whoever gave it and a page is stored for whoever
  it is of, though another learner signs in under the run; the app shows the learner the
  store works for. What the code does not keep is in section 4.

`CHECK_DEADLOCK FALSE` is set where an instance has finitely many transactions,
requests or answers and stops when they are used up. `GrammarSync` starts runs for
ever, so there deadlock is checked.

### Fairness

* `ChangeFeed`: every transaction ends (PostgreSQL ends those whose client is
  gone); a device keeps asking; a reply that is lost again and again gets
  through in the end (strong fairness of `Answer` and `Apply`), because runs are
  scheduled again after a failure.
* `ReviewLedger`: a request whose next statement is possible again and again is
  served, because PostgreSQL queues lock waiters; a deadlock of a request with
  the pruner is broken by PostgreSQL's detector. Deadlocks among requests get no
  such help in the model, so `Answered` shows that there are none.
* `MobileSync` (in `MCDevice`): runs are started again and again, and a step of a run that is
  possible again and again happens in the end. Nothing forces the learner to
  answer, the run to be killed, or a late upload to arrive.
* `CorpusSync` (in `MCDevice`): as `MobileSync`; strong fairness is per pair, because a run
  serves the pairs in order and may be stopped at any of them. Nothing forces a
  change of the corpus or a download to begin. `MCDevice` states the two fairnesses
  together: an action of one scene is never enabled in the other, so each conjunct
  is the fairness of one module in each scene.
* `GrammarSync`: a request that is being served goes on and its session ends or is
  kept; runs are started again, go on, and are in the end no longer stopped.
  Nothing forces an answer, a write of the bank or a late request.
* `PhraseMine`: the unit wakes again and again and a worker goes on unless it is
  killed (weak fairness of `Work`), and stale ranks are renewed. `Stamped`
  excepts workers that deadlock for ever: the model does not say that the row
  lock goes to who has waited for it, PostgreSQL does.
* `MCBackground`: the scripts of the host call their unit in a loop and systemd
  starts them again (weak fairness of the step of each invocation and of the reader's
  host); a request that runs goes on (weak fairness of each actor that voices and of
  each writer of pictures); a card stays in a deck that is shown again and again
  (strong fairness of asking for it). Kills, outages, edits, prunes and requests are
  not forced.
* `MCStudy` states safety only.

## 4. What the checks found

Five promises of the documentation that the code does not keep. Each has a run that
shows it and an entry under "findings" in `PROJECT.json`:

* **A feed number can appear beneath a cursor** (`ChangeFeed_unordered`). The
  guard compares transaction ids, the cursor compares sequence numbers. They
  disagree when a transaction that took its id first draws its number last.
  `PromiseKept` says when the guard suffices: the rows of the stream have their
  numbers in the order of their writers' ids.
* **A tombstone can stop a device for good** (`MobileSync_stuck`). A deleted card
  with a pending answer fails the cards phase, and a run that resumes there
  never reaches the reviews phase that would clear the answer.
* **A finished snapshot can stop the deltas** (`CorpusSync_refused`). The
  watermark of a snapshot counts the changes of all pairs, the check on a
  delta's cursor only those of the pair itself. A download that was begun after
  a change of another pair therefore ends with a cursor the server refuses, and
  the refusal ends the run in the deltas phase, for all pairs, until the pair
  itself changes often enough. `FollowedIfServed` is what holds.
* **A worker can publish a mine that another one has just restarted**
  (`PhraseMine_stamp`). `finish_or_abandon` reads the mine again and compares its
  checksum, not whether its pages have been read. With two workers at the end of
  a mine and a corpus that has grown, the first abandons it (new generation, new
  checksum, no counts) and the second publishes it as it is: the stamp matches,
  and the language is not mined again until the corpus changes. With one worker
  at a time `AloneIsRight` holds.
* **A page of the grammar bank can delete the item it brings** (`GrammarSync_page`).
  The row of an item travels with the first change that names it on a page; the
  second change has no row, and the device takes that for a withdrawal. `Mirrored`
  excepts the items this happened to (`ColouredTwice`).

Narrower things met while modelling. The properties except exactly these cases, or
the instance leaves them out; each exception is named here:

* A run that resumes in a download phase pulls before it uploads, although
  `docs/src/api/wisecrow-mobile.md` says "Answers go up before anything comes down".
* The baseline of a new card is fixed by the batch that arrives first
  (`reviews.rs:240`), so two devices that answered one new card offline get
  different schedules in different orders of arrival. Within one order the ledger
  implements `ReviewStore`.
* A rejected answer stays in the schedule the device has computed for itself
  (`mobile_sync.rs:340` sends no card for it). `CursorCovers` and `Mirrored` of
  `MobileSync` except the cards of rejected answers.
* Two invocations of the unit download one archive into the same scratch file, and
  the second empties it under the parser of the first (`downloader.rs:239`): the
  archive is then marked ingested without all its lines. The instance has one
  invocation, as the host's units run it, and `ReadWhole` is proved for one
  (`OneInvocation`).
* A pair whose language has no voice, once chosen as the cursor of phrase speech,
  keeps the pairs after it waiting (`prepare.rs:163`). In the instance all pairs
  have a voice.
* A text without a voice stays unnamed, and `reader-status` reports work that no
  step does (`reader_step.rs:317`): the loop of the host never sleeps. In the
  instance all spellings have a voice.
* A prune that overlaps a voicing removes a clip that a row then names, and nothing
  speaks it again (`grammar_audio.rs:332`). `NamedClipsKept` excepts it (`raced`).
* A second press while an answer is under way, or a reply that is lost, can review
  a card twice; resuming ends the pause before the client has the deck, so a tab
  closed at that moment leaves a session that is not offered again
  (`srs/session.rs:364`). `NothingSkipped` excepts a prune that ran between the
  statements of a resume (`torn`).
* `learn-tui.md:59` says that the terminal's timer rates a card Good; the code shows
  the back first and then rates Again (`tui/app.rs:444`).
* In the browser's n-back, the last trial given twice, or one trial twice at once,
  adapts the difficulty twice (`api/nback.rs:132`). `ScoredAsPlayed` excepts it
  (`twice`). A word pruned under a session deletes its trial, and the page cannot
  go on.
* A terminal session of n-back counts the trial in which the learner leaves, though it was
  not answered and has no row (`wisecrow.rs`, `nback_game_loop`): `CountedAsPlayed` adds it.
  An answer that cannot be stored is in the accuracy of the session all the same.
* An n-back session whose reply was lost and one of whose words is pruned before the retry is
  called rejected although it is stored (`dnb/upload.rs` looks for its words
  before it looks for the session). `KeptOnce` excepts sessions with a lost reply
  (`unheard`).
* Answers of a repeated placement level that arrive while another request finishes
  the run are not in the verdict it stores, but in the one `latest_completed`
  replays (`placement.rs:203`). `VerdictStands`, of `DealtAndJudged`, excepts it (`tangled`).
* A level too thin to test that fills up during a run is tested later than levels
  above it, and can end the ladder without a level reached although a higher one
  was passed (`placement.rs:5` says "The level reported is the highest one
  passed"). The verdict still is what the replay says, which is what
  `VerdictStands` states.
* An item revised after it was drawn makes every retry of its level a conflict
  (`placement.rs:268`), until the run is abandoned.

* *Grammar status never idle for Gaelic.* `grammar_areas_idle` counts the verbs of
  a language with a slot table as work (`pipeline/grammar_status.rs:158`), and
  `generate-paradigms` refuses Gaelic, which has one (`bin/wisecrow.rs:1756`): once a
  Gaelic verb is frequent, `grammar-status` reports work for ever, which
  `DEPLOYMENT.md:375` and `docs/src/reference/cli-reference.md:227` take for a state
  that ends. `IdleIsDealt` says what holds when the status is idle.
* *Verb forms.* A form is one per language, so that an answer for another native
  language rewrites it while the first one's cards keep the old spelling; two commands
  on one verb can store two answers, and the first one's rows are then owned by
  nobody and count as evidence. `ShownIsKept` and `GeneratedApart` except verbs that
  were asked for again (`stores`). A rejected verb ends its command, though others
  have work (`paradigms.rs:463`).
* *Practice in the browser.* Check stays enabled while a submission is under way, and
  the verdict of a second press marks the next item
  (`components/grammar/session.rs:196`); `PassedOverInHaste` counts how many. The
  player is known by the id of an item for an answer and by the id of an example for
  an example: where the two tables gave one number, an example's clip can play in the
  player of the answer, which "is not what this plays" (its comment at line 307). `PlayerIsOfTheCard` is about
  the other items.
* *Clips on a device.* A registration that fails removes the file all learners share
  (`sync/media.rs:84`); `RowHasFile` excepts those clips (`spoilt`). A new voice of
  the server does not move the feed of the bank, so devices keep the old one's
  fingerprints. A stored clip of an example that has since been marked incorrect is
  still served by its fingerprint.
* *Decks.* `carded_ids` has no user filter, so a word that any learner has a card
  for is not new for another (`vocabulary.rs:170`). A ranking undoes the demotion of a
  prune (`frequency.rs`). A word whose count rises from one to two between the two
  statements of a selection is in neither (`vocabulary.rs:478`), and a deck can stay short of
  it: `DealtInFull` speaks of the words that nothing changed meanwhile.
* *Flashcards on a device.* A session has no way past a card that is not yet due: one that
  another clock, ahead of this one, has reviewed leaves the session waiting.
  `Answerable` excepts it (`ahead`).
* *Accounts on a device.* One sign-in under a run is safe for the answers: the run goes on
  to send those of the learner who has come, with the installation of the one it began
  for, and the server refuses it (`AnswersOwn`). Not so where sign-ins overlap, or a
  further one comes under the same run: the credential is stored before the identity
  (`profile.rs:65`), so that an installation can be registered for the learner of the other
  sign-in, and the run can then send one learner's answers as the other's. `AnswersOwn`
  excepts a run that met this, and an installation registered so (`torn`). A page of the
  feed that was asked for, or waits, while a sign-in is between its two statements, or
  after one was cut off there, can be stored for the other learner (`CopiesOwn` excepts
  that page alone). An app restored while a sign-in is there, or after one cut off there,
  can show a learner whom the store does not work for, until someone signs in
  (`ShownAsStored`, `doubt`).
* *A running deck.* A first clip that cannot be had while the learner's start with
  sound waits for it keeps `StartingSound` and stops the timer
  (`fast/playback.rs:102`): neither Resume nor Retry leads on (Retry plays a source
  there is none of, and nothing is fetched again), only a new page does.
  `NeverStranded` excepts exactly this. The answers of play() carry no generation, so
  that one which comes after a restart is taken for an answer in the choice of the
  next run. The element modelled is the browser's; a native build evaluates its
  commands through another channel.
* *The note of a word.* `popover.rs:1` says "The note shown for one tapped word". A tap
  on a second word leaves the note of the first on the screen until its own is
  answered, for good if that request fails (`reader/page.rs:214`), while the buttons
  act on the second: a learner who adds the word whose meaning is shown gets a card
  for the other one. `NoteExplained` says when the two differ.
* *A book of more than one chapter* cannot be finished: the page opens the saved
  chapter, or the first (`reader/page.rs:69`), saves places of that chapter only, and
  has no way to the next, while `progress.rs` calls a book finished at its last
  sentence.
* *Syllabus.* A writer that does not take the import's lock can store a point that an
  import teaches under another title at the same time; `TaughtOnce` excepts it
  (`late`). `ensure_syllabus` rewrites a point of the same title and level.

## 5. Proofs

Eight modules of theorems, checked by TLAPS for all values of the constants. Each inductive invariant was first checked by TLC on the
instance of its run, and each theorem is composed of the same three facts: the initial
states have the invariant, every step keeps it (one lemma or case per action), and it
implies the property.

| Theorem | States | Rests on |
|---|---|---|
| `ChangeFeedProofs!TypeCorrect` | `TypeOK` | |
| `ChangeFeedProofs!CursorsAnswered` | `CursorAnswered` | `WriterInv`, `CursorInv` |
| `ChangeFeedProofs!NothingAppearsBeneath` | `PromiseKept` | and `NumberInv` |
| `ChangeFeedProofs!RepliesAccepted` | `ReplyAccepted` | and `AskedInv` |
| `ChangeFeedProofs!DevicesConverge` | `Converged` | and `LockInv`, `TableInv`, `CopyInv`, `ReplyInv` |
| `ReviewLedgerProofs!TypeCorrect` | `TypeOK` | |
| `ReviewLedgerProofs!RepliesTrue` | `RepliesStayTrue` | `LedgerIInv` |
| `ReviewLedgerProofs!Refinement` | `Implements` (that is `ReviewStore!Spec`) | `LedgerIInv` |
| `GrammarSyncProofs!TypeCorrect` | `TypeOK` | `StateInv` |
| `GrammarSyncProofs!ProjectionIsWhole` | `ProjectionWhole` | `LedgerInv` |
| `GrammarSyncProofs!OutboxKeeps` | `KeptUnlessRefused` | `OutboxInv` |
| `GrammarSyncProofs!MirrorsServer` | `Mirrored` | `OutboxInv`, `MirrorInv` |
| `PhraseMineProofs!TypeCorrect` | `TypeOK` | |
| `PhraseMineProofs!CountedOnce` | `PagesOnce` | `OnceInv` |
| `PhraseMineProofs!RestartedRight` | `RestartedCountsRight` | itself |
| `PhraseMineProofs!AloneRight` | `AloneIsRight` | `OnceInv`, `PastInv`, `AloneInv`, `WholeInv` |
| `DeviceProofs!TypeCorrect` | `TypeOK` | `FiniteInv` |
| `DeviceProofs!CopyConsistent` | `SnapshotPlusFeed` | `CopyInv` |
| `DeviceProofs!DeviceTruthful` | `CardsTruthful` (`OutboxTrue` and `CursorTrue` are its two halves) | `DeviceInv` |
| `BackgroundProofs!TypeCorrect` | `TypeOK` | `UnitInv`, `BookInv`, `PictureInv` |
| `BackgroundProofs!ReadWhole` | `ArchiveTruthful`, with one invocation | `UnitInv`, `Reading` |
| `BackgroundProofs!OnlyOnce` | `MadeOnce` | `BookInv`, `PictureInv` |
| `BackgroundProofs!RowsAndFilesAgree` | `FilesAgree` | `BookInv`, `PictureInv` |
| `LearnerProofs!CountedSound` | `CountedOnce` | `HandInv`, `NbackInv`, `LearnInv` |
| `LearnerProofs!LearnersSound` | `LearnersApart` | `AccountsInv` |
| `MaterialProofs!LessonsSound` | `LessonsTaught` | `ImportInv`, `PaidInv`, `VoicedInv` |
| `MaterialProofs!MediaSound` | `MediaKept` | `FilesInv`, `PlayerInv`, `FastInv` |
| `MaterialProofs!PagesSound` | `PagesInStep` | `FastInv`, `StartInv`, `PageInv`, `NoteInv`, `AddInv` |

Why the invariants are what they are.

**ChangeFeed.** `CursorAnswered` is not inductive: a cursor is answered because every
number the server has handed out (in a cursor, a watermark or a reply) is the number
of a row that is visible *now* (`CursorInv`). That lasts because a visible row stays
visible (`VisibleStays`): a transaction that begins later has a larger id, which
needs `WriterInv`. A row in flight beneath a cursor would have a smaller number and
a larger id than the visible row the cursor names (`InFlightAbove`), which
`InIdOrder` excludes; `NumberInv` says that numbers are unique. A reply is accepted
although its watermark is older than its page (`AskedInv`: the watermark is not below
the cursor it was asked for). `Converged` needs what a copy is worth on the way: a
key has the value of its last committed row (`TableInv`), which holds because whoever
has an uncommitted write of the key wrote it after all others had committed
(`LockInv`, the row lock of PostgreSQL); a key all of whose committed rows have been
read is as the server has it (`CopyInv`), and will be once the reply on its way is
applied (`Fresh`).
The order of numbers and ids is asked of the committed rows only (`Ordered`), so that
a transaction that is still open may yet break it without breaking the invariant.

**ReviewLedger.** That an answer is applied once and a schedule is the replay of
exactly the answers in the ledger is a matter of locks: from its insert to its commit a
transaction holds the row lock of every card it touches, its answers are new or
stored, none before the baseline (`InsertedInv`); at most one transaction is about to
give a card its baseline (`BaselineInv`); what is about to be committed accounts for
the answers in the table as well as its own (`ScheduleInv`). With that each commit is
`Accept` of the abstract store, a deletion is `Forget`, every other step stutters
(`Refinement`). What a device was told stays true because a reason to refuse never
goes away (`RefusedInv`, over `LedgerInv`: no answer of the ledger may be refused) and
because an applied answer leaves only with its translation (`AppliedInv`).

**GrammarSync.** A projection is whole because who writes it holds the row lock of its
point (`LockInv`), so that the replay is still of everything recorded when it commits
(`RowInv`), and because no baseline lies after a recorded answer. The outbox: a
request tells the device only of answers recorded or refused (`ToldInv`), however late
it is served. The mirror: what the device has of an item or a point is what the
server has, or a change of it is still to come in the feed, or the last page named it
twice (`BankInv`, `MasteryInv`); a page in hand reaches no further than its end, and
what it carries is current or has changed beyond its end (`ReadInv`, `PageInv`).
That is where the two statements of a request are harmless: rows newer than their
page are named again by the feed.

**PhraseMine.** A surface is counted once because what is counted lies at or below
the cursor (`MinedInv`), what a worker has read lies above the place it read at
(`AboveInv`), and a claim compares that place with the cursor. `AloneIsRight` has a
long way to go: that only one worker is at work (`OneAtWork`), what it holds at each
statement (`Hand`), that checksums are of a corpus that was, and surfaces once gone
make it another one (`PastInv`), and that a mine whose checksum is still the corpus's
has counted the corpus up to its cursor (`WholeInv`: `MineWhole`, `PageWhole`,
`EndWhole`, `StampWhole`).

**Cards of a device.** The outbox is truthful because acceptability only ever ends
(`LedgerInv`), so that a late, repeated or lost reply cannot say what a later state
takes back (`ReplyInv`). The cursor is truthful because every change draws a number
above all those given out (`NumberInv`): whatever a reply or a page in hand says of a
card is what the server has, or a change above the cursor corrects it (`PageInv`).

**Corpus of a device.** Whether a page may be applied depends on what was true when the
server read it. `CopyInv` adds what a page in hand is worth *now*: `SnapshotPage` (each
row is as the table has it, or the feed has changed it since the watermark, and the
same of each row that is missing) and `ChangesPage` (no change of the pair between the
cursor and the end of the page is missing). A change of the server keeps both,
because it lies beyond every watermark reached so far (`Recorded`). The smaller parts
are `PositionInv`, `TableInv`, `FreshInv` and `TodoInv`.

**Background.** The three scenes have one invariant each, and a step of one leaves the
others alone. *Pictures*: no two writers hold one fingerprint (`PrintLockInv`), so the
second look finds what the first published; unless a writer died or a card was asked
for twice at once (`tangled`), each card has one writer, who knows the file its row
names, and a file that no row names has a writer who is about to name or to remove it
(`TidyInv`). *Books*: the same of spellings (`SpellingLockInv`), and while no prune ran
beside a voicing, a clip is complete when its row is named and a prune keeps whatever
the rows named when it began (`CalmInv`). *Archives*: with one invocation, what is read
is the whole scratch file, every batch counted is stored, and the mark follows the
last (the invariant `Reading` of `BackgroundProofs`). `ReadWhole` has that as its hypothesis, `OneInvocation`, because two
invocations break it in the code (section 4); the host's units run one.

**Study.** A behaviour of `MCStudy` plays one scene and leaves the variables of the
others alone, so a step is a step of the scene's module or a stutter of it (`SceneSteps`),
and an invariant of a scene is proved from that module's actions. The theorems are about
`LearnerSpec` and `MaterialSpec`, for any scene. `Init` and `Next` of `MCStudy` are made of
theirs: its initial states satisfy `LearnerInit` and `MaterialInit`, a step of it is a step
of the one and a stutter of the other, or a stutter of both. So what is proved of the two
holds of `Spec` of `MCStudy`. They are modules of their own because a proof sees every
definition of the module it extends: with all twenty scenes the provers do not end.

* *hand*: a session is stored once because whoever has reserved its id is alone with it and
  it is new (`LockInv`), and what is stored was heard, is being told or was unheard
  (`HeardInv`); a request is about sessions of the outbox until it is given up (`BatchInv`).
* *nback*: the difficulty moves once because until the fifth answer it is the one of a new
  session (`BeforeInv`), and the one request that finds the window full reads the state it
  started with (`AfterInv`). That needs one response at a time, for the trial on the page
  (`TurnInv`), which the code does not keep when a trial is given twice: hence `twice`.
* *play*: a trial shown has the level and interval the trials before it earned, because the
  difficulty depends on them alone and not on how it was reached (`EarnedAlike`, from
  `MovedWithinBounds`); it matches the trial its own level before it exactly when its row
  says so, because a trial that is not to match is drawn anew (`ShownInTurn`). The rows are
  the answered trials in order, all but the last when one could not be stored (`TrialInv`,
  `EarnInv`, `EndInv`).
* *accounts*: an installation belongs to the learner it was drawn for, and to another only when
  sign-ins that overlapped registered it so (`DeviceInv`, `Owned`). While the store works
  for the learner of a run, so does all the run reads, and once it was validated the
  credential is that learner's, but in the midst of a sign-in (`OwnInv`). Once another has
  signed in under it, the credential is that one's and never again the run's (`OtherInv`),
  so that the server refuses what it sends with its installation. A page that met no
  sign-in is of the learner the store works for (`PageInv`). Between sign-ins a stored
  credential is of the learner the profile names (`ForceInv`), and so is what a restore
  learns with it (`RestoredInv`).
* *lessons*: one import has the lock of the language (`RoundInv`); what it has seen is
  taught (`SeenInv`), and an answer that brings nothing new, at hand or saved, leaves
  nothing of its chunk to bring (`FoundInv`, `SavedInv`). *answers*: who asks holds the
  lock, and what is asked for is not stored (`PaidInv`). *spoken*, *fetched*: the sentence
  of a request that has read it was right then (`VoicedInv`).
* *fetched*, *listed*: a name on the device has its own clip or no file, because what is
  about to be renamed is what was asked for (`WorkInv`); a row lacks its file only where one
  was lost (`StoreInv`). *spoken*: a request names the item of the card it was asked on
  (`PlayerInv`).
* *fast*: a run of the page has the number of its generation (`DeckInv`), and a request is
  for a card of the deck of its generation and the only one (`Requests`), so an answer for
  an earlier run changes nothing. Each place up to the end of the window has been asked
  for once, because a place that is tracked is not asked for again and one that was
  evicted lies behind (`AskedOnce`). A start with sound whose first clip is there waits
  for the audio element or for its answer to be handled (`StartInv`): nothing strands the
  deck.
* *device*: each answer of a session is one answer of the outbox because for each
  translation there are as many of the one as of the other (`CountInv`), and a card can be
  answered because no review is later than the clock unless another clock is ahead (`ClockInv`).
* *paged*, *worded*: a link and an open book are of a revision that is readable and stays so
  (`PageInv`); that the segmenter's numbers divide into chapters and paragraphs is
  arithmetic of quotients (`DivUnique`). The note shown is of the open word, unless that
  one's is asked for or was lost (`NoteInv`). What the page sends is of decks there are, so
  each addition that was acknowledged has its deck, its row and its card (`AddInv`).

The assumptions are on constants only, named, and evaluated by TLC in every run of
their modules: `FeedAssumption`, `LedgerAssumption`, `GrammarAssumption`,
`MineAssumption`, `AnswersAssumption`, `CorpusAssumption`, `UnitAssumption`,
`BookAssumption`, `PictureAssumption`, and of `StudyScenes` `NbackAssumption`,
`PlayAssumption`, `DeviceAssumption`, `AccountAssumption`, `ImportAssumption`,
`ClipAssumption`, `FastAssumption`, `ReadingAssumption`. They say which sets the constants are from,
that limits are positive where the code has them positive, and that a corpus, a
learner's cards and answers and a bank are finite.

Model-checked only:

* Liveness under fairness, which is beyond the prover: `Delivered`, `Answered`,
  `CorpusFollowed`, `CardsArrive`, `Drained`, `Stamped`, `OutagesApart`, `Quiet`,
  `Healed`.
* Of `MCStudy`, `Accounted`: the spending of a run is a sum over its entries, a word's
  count is made page by page, and what holds of such a fold for every input is induction
  over data. `DealtAndJudged`: a deck is sorted and dealt by folds, a verdict replays the
  levels of a run, a rating counts what came before, for the same reason. `TypeOK`: the
  types the other theorems need are parts of their invariants (`HandTypes`, `NbackTypes`,
  `AccountTypes`, `ImportTypes`, `FastTypes`, `LearnTypes`, and in `FilesInv` and `PaidInv`);
  those of the scenes without a theorem are only checked.
* What a recursive computation gives for every input (the replay of a schedule, the
  ladder of a placement): induction over data is beyond the prover, and the models
  take such a computation as the set of its arguments.

## 6. What is not modelled

* The numeric content of FSRS, of mastery and of grading: pure functions of their
  arguments, tested as such in the repository. Their folds are modelled by the set
  of what they have folded in.
* Of publishing a mine, the update of translations already linked to a phrase: it
  repeats the counts of the statement before it. A checksum is taken in pages over
  a table that may change meanwhile; the model takes it at once. A mixture is the
  checksum of no corpus and is abandoned.
* The eviction of media on a device and the quizzes it keeps; several server
  profiles on one device.
* Pruning's choice of what to delete and to demote (the deletion is modelled beside
  the ledger, the sessions and the unit, the demotion beside the decks).
* The text inside a document, an archive, a page of a book or a sentence; the
  prompts; exporting and refreshing a syllabus; generating exercises.
* Queries of lists and of the front ends.
* The library sync client: a one-way copy by id without a stored cursor.
* Password hashing, cookies and administration, rate limits, covers, the transport.
* Of reading: the shelf of files made into pages, the cutting into sentences and their
  tokens (pure functions), covers, and the tables of books by level.
* Presentation, command line, deployment: the commands are the callers of the
  operations modelled here.

Hazards without a property (they have a note in `PROJECT.json`) are two of
section 4 that the code does not meet and no weaker property would say more about:
the rejected answer, and work that no step does (a text without a voice, Gaelic verbs).

## 7. Plan

1. Done: `ChangeFeed`, `ReviewStore`, `ReviewLedger`, `MobileSync`, first theorems.
2. Done: `CorpusSync`, `PhraseMine`, `GrammarSync`.
3. Done: the host (`CorpusUnit`, `BookPipeline`, `PictureCache`) and the learner
   (`LearnSession`, `NbackUpload`, `NbackWeb`, `NbackPlay`, `Placement`, `Prefetch`, `LlmCache`).
4. Done: material (`RuleImport`, `WordStudy`, `VerbForms`, `SentenceClips`) and
   studying (`DeckChoice`, `DeviceLearn`, `GrammarDrill`, `DeviceAccounts`, `FastPlay`,
   `Reading`).
5. Done: the safety properties of every instance but `MCStudy` are theorems.
6. Done: theorems about thirteen scenes of `MCStudy`, whose properties are not about folds
   (`StudyScenes`); their constants are parameters.
7. Left: media eviction on a device, the quiz.
