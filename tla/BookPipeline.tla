---------------------------- MODULE BookPipeline ----------------------------
(***************************************************************************)
(* The books of the reader: pipeline/reader_step.rs with reader/import.rs, *)
(* reader/notes.rs, reader/audio.rs, and the sentence clips of             *)
(* media/cache.rs.                                                         *)
(*                                                                         *)
(* The host asks reader-status and then does one piece of work: store a    *)
(* book, translate one run, gloss one batch, voice one batch of sentences  *)
(* or of words.  A reader's request voices one row by itself, with the     *)
(* same protocol: look, take the fingerprint's lock, look again, speak,    *)
(* rename the file, commit the clip, and only then name it in the row.     *)
(* The prune of the grammar audio removes the clips that nothing names.    *)
(* A spelling is a number: a sentence of one word and the word are equal.  *)
(***************************************************************************)
EXTENDS Naturals, FiniteSets

CONSTANTS Books,        \* the shelf, 1..n: the books of the table in id order
          Length,       \* sentences of a readable book
          RunMax,       \* translate.rs: sentences of one run, at most
          Spellings,    \* 1..n: what can be spoken, in the order of the text
          FormsOf,      \* the word forms of a translation
          Voiced,       \* the spellings the speaker has a voice for
          VoiceBatch,   \* SENTENCE_BATCH, WORD_BATCH
          Requests,     \* readers' requests that may be in flight
          Troubles,     \* bound: outages, refusals, failing speech, killed hosts
          Prunes        \* bound: prune runs

VARIABLES status,       \* books: not there, ready, or stored without a text
          cursor,       \* book_import_progress
          skipped,      \* positions of the failed runs
          text,         \* book_translations, 0 where there is none
          gloss,        \* book_glosses of the pair
          named,        \* rows whose audio_fingerprint is set
          clip,         \* sentence_media
          clipFile,     \* the files of the cache directory
          job,          \* the host, and every request
          prune,        \* the prune run
          raced,        \* a prune overlapped a voicing
          troubles, prunes

books == <<status, cursor, skipped, text, gloss>>
vars == <<status, cursor, skipped, text, gloss, named, clip, clipFile, job, prune,
          raced, troubles, prunes>>
bounds == <<troubles, prunes>>

Actors == {"host"} \cup Requests
Sentences == Books \X (0 .. Length - 1)
Forms == UNION {FormsOf[s] : s \in Spellings}
Idle == [at |-> "rest", kind |-> "", batch |-> {}, spelling |-> 0, row |-> <<>>, marked |-> FALSE]
NoPrune == [at |-> "off", keep |-> {}, listed |-> {}, spelling |-> 0]

Init ==
    /\ status = [b \in Books |-> "none"]
    /\ cursor = [b \in Books |-> 0]
    /\ skipped = {} /\ named = {} /\ clip = {} /\ clipFile = {}
    /\ text = [s \in Sentences |-> 0]
    /\ gloss = [f \in Forms |-> "none"]
    /\ job = [a \in Actors |-> Idle]
    /\ prune = NoPrune
    /\ raced = FALSE
    /\ troubles = 0 /\ prunes = 0

Trouble == troubles < Troubles /\ troubles' = troubles + 1 /\ UNCHANGED prunes

-----------------------------------------------------------------------------
(* What there is to do                                                     *)

Unstored == {b \in Books : status[b] = "none"}
\* Mutant of Untranslated: a book with a failed run is never finished.
UntranslatedAgain == {b \in Books : status[b] = "ready" /\
                        (cursor[b] < Length \/ \E s \in skipped : s[1] = b)}
Untranslated == {b \in Books : status[b] = "ready" /\ cursor[b] < Length}
Unglossed ==
    {f \in Forms : gloss[f] = "none" /\ \E s \in Sentences : text[s] # 0 /\ f \in FormsOf[text[s]]}
SentenceRow(s) == <<"sentence", s[1], s[2]>>
WordRow(f) == <<"word", f>>
\* The rows of one spelling that a batch of this kind would mark.
RowsOf(kind, spelling) ==
    (IF kind = "sentence"
     THEN {SentenceRow(s) : s \in {r \in Sentences : text[r] = spelling}}
     ELSE {WordRow(f) : f \in {g \in Forms \cap {spelling} : gloss[g] = "ok"}}) \ named
Unvoiced(kind) == {s \in Spellings : RowsOf(kind, s) # {}}

\* reader_has_work
HasWork ==
    \/ Unstored # {} \/ Untranslated # {} \/ Unglossed # {}
    \/ \E kind \in {"sentence", "word"} : Unvoiced(kind) # {}

Live(s) == s \in clip /\ s \in clipFile
Holds(a) == job[a].at \in {"speak", "write", "row"}
LockFree(s) == \A a \in Actors : ~(Holds(a) /\ job[a].spelling = s)
On(a, step) == job[a].at = step
To(a, step) == job' = [job EXCEPT ![a].at = step]
First(set) == CHOOSE x \in set : \A y \in set : x <= y
UpTo(n, set) == {x \in set : Cardinality({y \in set : y < x}) < n}

-----------------------------------------------------------------------------
(* The host, up to the voices                                              *)

\* reader-status exits 10; prepare-readers runs.
Wake ==
    /\ On("host", "rest") /\ HasWork
    /\ To("host", "step")
    /\ UNCHANGED <<books, named, clip, clipFile, prune, raced, bounds>>

\* store_book: the book with its sentences, or without any where the pages
\* have no text.
Extract ==
    /\ On("host", "step") /\ Unstored # {}
    /\ \E s \in {"ready", "thin"} : status' = [status EXCEPT ![First(Unstored)] = s]
    /\ To("host", "rest")
    /\ UNCHANGED <<cursor, skipped, text, gloss, named, clip, clipFile, prune, raced, bounds>>

AfterRefusal(b, n) == skipped \cup {<<b, p>> : p \in cursor[b] .. cursor[b] + n - 1}

\* Mutant of Passed: the run ends one sentence further than it was asked.
PassedOneMore(b, n) == cursor[b] + n + 1
Passed(b, n) == cursor[b] + n

\* translate_book_run: one transaction under the pair's lock.  Two refusals
\* record the run and pass it; an outage leaves everything.
Translate ==
    /\ On("host", "step") /\ Unstored = {} /\ Untranslated # {}
    /\ LET b == First(Untranslated) IN
       \E n \in 1 .. RunMax :
          /\ cursor[b] + n <= Length
          /\ \/ /\ \E answer \in [cursor[b] .. cursor[b] + n - 1 -> Spellings] :
                      text' = [s \in Sentences |->
                                 IF s[1] = b /\ s[2] \in DOMAIN answer /\ text[s] = 0
                                 THEN answer[s[2]] ELSE text[s]]
                /\ cursor' = [cursor EXCEPT ![b] = Passed(b, n)]
                /\ UNCHANGED <<skipped, bounds>>
             \/ /\ Trouble
                /\ skipped' = AfterRefusal(b, n)
                /\ cursor' = [cursor EXCEPT ![b] = Passed(b, n)]
                /\ UNCHANGED text
             \/ /\ Trouble
                /\ UNCHANGED <<cursor, skipped, text>>
    /\ To("host", "rest")
    /\ UNCHANGED <<status, gloss, named, clip, clipFile, prune, raced>>

\* gloss_forms: every form of the batch is described or failed, in one
\* transaction; an outage writes no row.
Gloss ==
    /\ On("host", "step") /\ Unstored \cup Untranslated = {} /\ Unglossed # {}
    /\ \/ /\ \E told \in SUBSET Unglossed :
                gloss' = [f \in Forms |-> IF f \notin Unglossed THEN gloss[f]
                                          ELSE IF f \in told THEN "ok" ELSE "failed"]
          /\ UNCHANGED bounds
       \/ Trouble /\ UNCHANGED gloss
    /\ To("host", "rest")
    /\ UNCHANGED <<status, cursor, skipped, text, named, clip, clipFile, prune, raced>>

-----------------------------------------------------------------------------
(* Voices                                                                  *)

\* A live clip is found from the pool, without the lock.
HitOrLock(s) == IF Live(s) THEN "name" ELSE "lock"

Batch(kind) == UpTo(VoiceBatch, Unvoiced(kind))

SelectSentences ==
    /\ On("host", "step") /\ Unstored \cup Untranslated \cup Unglossed = {}
    /\ job' = [job EXCEPT !["host"].at = "batch", !["host"].kind = "sentence",
                          !["host"].batch = Batch("sentence")]
    /\ UNCHANGED <<books, named, clip, clipFile, prune, raced, bounds>>

\* The next spelling of the batch; one without a voice is passed over.
NextOfBatch ==
    LET j == job["host"] IN
    /\ On("host", "batch") /\ j.batch # {}
    /\ LET s == First(j.batch) IN
       /\ job' = [job EXCEPT !["host"].batch = @ \ {s}, !["host"].spelling = s,
                             !["host"].at = IF s \in Voiced THEN HitOrLock(s) ELSE "batch"]
       /\ raced' = (raced \/ (s \in Voiced /\ prune.at # "off"))
    /\ UNCHANGED <<books, named, clip, clipFile, prune, bounds>>

\* A batch that marked no row is no work: the words follow the sentences.
EndOfBatch ==
    LET j == job["host"] IN
    /\ On("host", "batch") /\ j.batch = {}
    /\ job' = [job EXCEPT !["host"] =
                  IF j.kind = "sentence" /\ ~j.marked
                  THEN [Idle EXCEPT !.at = "batch", !.kind = "word", !.batch = Batch("word")]
                  ELSE Idle]
    /\ UNCHANGED <<books, named, clip, clipFile, prune, raced, bounds>>

\* sentence_clip, word_clip: a row that is not named is voiced at once.
Ask(r, kind, spelling) ==
    /\ On(r, "rest") /\ spelling \in Voiced
    /\ \E row \in RowsOf(kind, spelling) :
          job' = [job EXCEPT ![r] = [Idle EXCEPT !.at = HitOrLock(spelling), !.kind = kind,
                                        !.spelling = spelling, !.row = row]]
    /\ raced' = (raced \/ prune.at # "off")
    /\ UNCHANGED <<books, named, clip, clipFile, prune, bounds>>

\* Mutant of Afresh: the second look, under the lock, is left out.
AfreshUnseen(s) == TRUE
Afresh(s) == ~Live(s)

LookAgain(a) ==
    /\ On(a, "lock") /\ LockFree(job[a].spelling)
    /\ To(a, IF Afresh(job[a].spelling) THEN "speak" ELSE "name")
    /\ UNCHANGED <<books, named, clip, clipFile, prune, raced, bounds>>

\* A speaker that fails ends the host's step, or the request.
Speak(a) ==
    /\ On(a, "speak")
    /\ \/ To(a, "write") /\ UNCHANGED bounds
       \/ Trouble /\ job' = [job EXCEPT ![a] = Idle]
    /\ UNCHANGED <<books, named, clip, clipFile, prune, raced>>

WriteFile(a) ==
    /\ On(a, "write")
    /\ clipFile' = clipFile \cup {job[a].spelling}
    /\ To(a, "row")
    /\ UNCHANGED <<books, named, clip, prune, raced, bounds>>

StoreClip(a) ==
    /\ On(a, "row")
    /\ clip' = clip \cup {job[a].spelling}
    /\ To(a, "name")
    /\ UNCHANGED <<books, named, clipFile, prune, raced, bounds>>

\* The host marks every row of the spelling, a request its own.
Marked(a) ==
    IF a = "host" THEN RowsOf(job[a].kind, job[a].spelling)
    ELSE {job[a].row} \ named
Name(a) ==
    /\ On(a, "name")
    /\ named' = named \cup Marked(a)
    /\ job' = [job EXCEPT ![a] = IF a = "host"
                  THEN [job[a] EXCEPT !.at = "batch",
                             !.marked = job[a].marked \/ Marked(a) # {}] ELSE Idle]
    /\ UNCHANGED <<books, clip, clipFile, prune, raced, bounds>>

\* The host's process is killed; the transaction it has open is rolled back.
Kill ==
    /\ ~On("host", "rest") /\ Trouble
    /\ job' = [job EXCEPT !["host"] = Idle]
    /\ UNCHANGED <<books, named, clip, clipFile, prune, raced>>

-----------------------------------------------------------------------------
(* The prune: grammar_audio.rs prune, then MediaCache::prune_sentences     *)

SpellingOf(row) == IF row[1] = "word" THEN row[2] ELSE text[<<row[2], row[3]>>]
\* Mutant of KeepList: the words of the books are forgotten.
KeepListOfSentences == {SpellingOf(row) : row \in {r \in named : r[1] = "sentence"}} \cap Voiced
KeepList == {SpellingOf(row) : row \in named} \cap Voiced

BeginPrune ==
    /\ prune.at = "off" /\ prunes < Prunes
    /\ prunes' = prunes + 1
    /\ prune' = [NoPrune EXCEPT !.at = "list", !.keep = KeepList]
    /\ raced' = (raced \/ \E a \in Actors :
                    job[a].at \in {"lock", "speak", "write", "row", "name"})
    /\ UNCHANGED <<books, named, clip, clipFile, job, troubles>>

ListClips ==
    /\ prune.at = "list"
    /\ prune' = [prune EXCEPT !.at = "row", !.listed = clip \ prune.keep]
    /\ UNCHANGED <<books, named, clip, clipFile, job, raced, bounds>>

DeleteClip ==
    /\ prune.at = "row"
    /\ \/ /\ prune.listed = {} /\ prune' = NoPrune /\ UNCHANGED clip
       \/ \E s \in prune.listed :
             /\ clip' = clip \ {s}
             /\ prune' = [prune EXCEPT !.at = "file", !.listed = @ \ {s}, !.spelling = s]
    /\ UNCHANGED <<books, named, clipFile, job, raced, bounds>>

RemoveFile ==
    /\ prune.at = "file"
    /\ clipFile' = clipFile \ {prune.spelling}
    /\ prune' = [prune EXCEPT !.at = "row"]
    /\ UNCHANGED <<books, named, clip, job, raced, bounds>>

-----------------------------------------------------------------------------
Host == Wake \/ Extract \/ Translate \/ Gloss \/ SelectSentences \/ NextOfBatch \/ EndOfBatch
Voice(a) ==
    LookAgain(a) \/ Speak(a) \/ WriteFile(a) \/ StoreClip(a) \/ Name(a)
Prune == ListClips \/ DeleteClip \/ RemoveFile

Next ==
    \/ Host \/ Kill \/ BeginPrune \/ Prune
    \/ \E a \in Actors : Voice(a)
    \/ \E r \in Requests, s \in Spellings, kind \in {"sentence", "word"} : Ask(r, kind, s)

-----------------------------------------------------------------------------
TypeOK ==
    /\ status \in [Books -> {"none", "ready", "thin"}]
    /\ cursor \in [Books -> 0 .. Length]
    /\ skipped \subseteq Sentences
    /\ text \in [Sentences -> Spellings \cup {0}]
    /\ gloss \in [Forms -> {"none", "ok", "failed"}]
    /\ clip \subseteq Spellings /\ clipFile \subseteq Spellings
    /\ named \subseteq {SentenceRow(s) : s \in Sentences} \cup {WordRow(f) : f \in Forms}

\* One spelling is spoken once (audio.rs): while anyone speaks, or has spoken and
\* not yet written, there is no clip of it, whoever else asks for the sentence.
SpokenOnce ==
    \A a \in Actors : job[a].at \in {"speak", "write"} => ~Live(job[a].spelling)

\* A row that names a clip finds it, row and file, unless a prune ran beside a
\* voicing.  Nothing else repairs it: a stored fingerprint is not spoken again.
NamedClipsKept == ~raced => \A row \in named : Live(SpellingOf(row))
=============================================================================
