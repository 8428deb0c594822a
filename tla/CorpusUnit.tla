----------------------------- MODULE CorpusUnit -----------------------------
(***************************************************************************)
(* The corpus unit: one invocation of prepare-corpus takes one step, and   *)
(* the host calls it again and again (pipeline/prepare.rs, turn.rs,        *)
(* archives.rs, media_step.rs, ranking.rs, phrases.rs).                    *)
(*                                                                         *)
(* Every archive no ledger row names is read first, then every language    *)
(* whose rank stamp differs from the evidence is ranked, then one language *)
(* is mined (PhraseMine has the detail), and only then the turn goes round *)
(* gloss, phrase speech and word audio.  A wake may be killed between any  *)
(* two database statements; an outage of one provider may last for ever.   *)
(***************************************************************************)
EXTENDS Integers, Sequences, FiniteSets, SequencesExt

CONSTANTS Workers,      \* invocations that may run at the same time
          Pairs,        \* the pair file: a sequence of foreign languages
          Archives,     \* the archives of all pairs, in the order of the file
          ForeignOf,    \* the pair an archive belongs to
          Missing,      \* archives the mirror answers 404 for
          Voiced,       \* pairs whose language has a speech voice
          Outages,      \* providers that may be out for the whole behaviour
          Lines,        \* lines of an archive (one insert batch each)
          Slots,        \* phrases, and ranked words, of a language
          Faults,       \* bound: failures that pass
          Kills,        \* bound: killed wakes
          Prunes        \* bound: translations deleted behind a gloss

VARIABLES ledger,       \* pipeline_archives
          rows,         \* lines of an archive that are translations rows
          scratch,      \* length of the unpacked archive in the scratch directory
          stamp,        \* pipeline_rank_stamps
          mined,        \* pipeline_phrase_stamps
          phrases,      \* phrases and phrase_translations
          words,        \* media of the ranked words
          turn,         \* pipeline_corpus_turn.kind
          cursor,       \* pipeline_corpus_turn.gloss_pair, phrase_audio_pair
          wake,         \* where each invocation is
          out,          \* the provider that is out, or "none"
          faults, kills, prunes

base    == <<ledger, rows, scratch, stamp, mined>>
content == <<phrases, words>>
bounds  == <<out, faults, kills, prunes>>
vars    == <<base, content, turn, cursor, wake, bounds>>

PairSet    == Range(Pairs)
ArchiveSet == Range(Archives)
Kinds      == {"gloss", "phrase_audio", "word_audio"}
Rest       == [at |-> "rest", pair |-> "", archive |-> "", seen |-> 0,
               kind |-> "", tries |-> 0]

\* The evidence of a language: the rows its archives left.
Evidence(p) == {<<a, rows[a]>> : a \in {b \in ArchiveSet : ForeignOf[b] = p}}
Counted(p)  == \E a \in ArchiveSet : ForeignOf[a] = p /\ rows[a] > 0

Init ==
    /\ ledger  = [a \in ArchiveSet |-> "none"]
    /\ rows    = [a \in ArchiveSet |-> 0]
    /\ scratch = [a \in ArchiveSet |-> 0]
    /\ stamp   = [p \in PairSet |-> {}]
    /\ mined   = [p \in PairSet |-> {}]
    /\ phrases = [p \in PairSet |-> [n \in 1..Slots |-> "unmined"]]
    /\ words   = [p \in PairSet |-> [n \in 1..Slots |-> "bare"]]
    /\ turn    = "gloss"
    /\ cursor  = [k \in {"gloss", "phrase_audio"} |-> ""]
    /\ wake    = [w \in Workers |-> Rest]
    /\ out \in Outages
    /\ faults = 0 /\ kills = 0 /\ prunes = 0

-----------------------------------------------------------------------------
(* leading_work: what beats the turn                                       *)

NeedsDownload(a) == ledger[a] = "none"
PendingArchives  == {a \in ArchiveSet : NeedsDownload(a)}
StaleRanks       == {p \in PairSet : stamp[p] # Evidence(p)}
DueMines         == {p \in PairSet : mined[p] # Evidence(p)}

\* The first of a set, in the order of a sequence that has it.
FirstIn(seq, set) == seq[Min({i \in DOMAIN seq : seq[i] \in set})]

\* The advisory lock of a pair is held while rows and their mark are written.
Locked(p, w) ==
    \E v \in Workers \ {w} : wake[v].pair = p /\ wake[v].at \in {"read", "mark"}

At(w, step) == wake[w].at = step
Go(w, step) == wake' = [wake EXCEPT ![w].at = step]
Sleep(w)    == wake' = [wake EXCEPT ![w] = Rest]

MayFail(provider)  == out = provider \/ faults < Faults
Works(provider)    == out # provider
Failed(provider)   == /\ MayFail(provider)
                      /\ faults' = IF out = provider THEN faults ELSE faults + 1

\* The download starts: the file is created, or emptied if it is there.
ReadArchive(w) ==
    /\ At(w, "rest") /\ PendingArchives # {}
    /\ LET a == FirstIn(Archives, PendingArchives) IN
       IF a \in Missing
       THEN /\ wake' = [wake EXCEPT ![w] = [Rest EXCEPT !.at = "missing",
                                                !.archive = a, !.pair = ForeignOf[a]]]
            /\ UNCHANGED scratch
       ELSE /\ wake' = [wake EXCEPT ![w] = [Rest EXCEPT !.at = "download",
                                                !.archive = a, !.pair = ForeignOf[a]]]
            /\ scratch' = [scratch EXCEPT ![a] = 0]
    /\ UNCHANGED <<ledger, rows, stamp, mined, content, turn, cursor, bounds>>

MarkUnavailable(w) ==
    LET a == wake[w].archive IN
    /\ At(w, "missing") /\ ~Locked(wake[w].pair, w)
    /\ ledger' = [ledger EXCEPT ![a] = IF @ = "none" THEN "unavailable" ELSE @]
    /\ Sleep(w)
    /\ UNCHANGED <<rows, scratch, stamp, mined, content, turn, cursor, bounds>>

Downloaded(w) ==
    LET a == wake[w].archive IN
    /\ At(w, "download")
    /\ \/ /\ scratch' = [scratch EXCEPT ![a] = Lines]
          /\ Go(w, "lock")
          /\ UNCHANGED bounds
       \/ /\ Failed("mirror")                           \* retry: nothing recorded
          /\ Sleep(w)
          /\ UNCHANGED <<scratch, out, kills, prunes>>
    /\ UNCHANGED <<ledger, rows, stamp, mined, content, turn, cursor>>

\* The pair's lock is taken and the ledger is read again.
Lock(w) ==
    /\ At(w, "lock") /\ ~Locked(wake[w].pair, w)
    /\ IF NeedsDownload(wake[w].archive) THEN Go(w, "read") ELSE Sleep(w)
    /\ UNCHANGED <<base, content, turn, cursor, bounds>>

\* One insert batch, in a transaction of its own.
Persist(w) ==
    LET a == wake[w].archive  n == wake[w].seen + 1 IN
    /\ At(w, "read") /\ n <= scratch[a]
    /\ rows' = [rows EXCEPT ![a] = IF @ < n THEN n ELSE @]
    /\ wake' = [wake EXCEPT ![w].seen = n]
    /\ UNCHANGED <<ledger, scratch, stamp, mined, content, turn, cursor, bounds>>

\* Mutant of ReadToEnd: the mark is written once the first batch is stored.
ReadToEndOfBatch(w) == wake[w].seen > 0
\* The parser stops at the end of the file, wherever that is.
ReadToEnd(w) == wake[w].seen >= scratch[wake[w].archive]

EndOfFile(w) ==
    /\ At(w, "read") /\ ReadToEnd(w)
    /\ IF wake[w].seen > 0 THEN Go(w, "mark")
       ELSE Sleep(w)                                    \* no accepted pairs: an error
    /\ UNCHANGED <<base, content, turn, cursor, bounds>>

\* A file cut inside an element is a syntax error.
ParseError(w) ==
    /\ At(w, "read") /\ wake[w].seen >= scratch[wake[w].archive]
    /\ scratch[wake[w].archive] < Lines
    /\ Sleep(w)
    /\ UNCHANGED <<base, content, turn, cursor, bounds>>

MarkIngested(w) ==
    LET a == wake[w].archive IN
    /\ At(w, "mark")
    /\ ledger' = [ledger EXCEPT ![a] = IF @ = "none" THEN "ingested" ELSE @]
    /\ scratch' = [scratch EXCEPT ![a] = 0]             \* discard_archive
    /\ Sleep(w)
    /\ UNCHANGED <<rows, stamp, mined, content, turn, cursor, bounds>>

Rank(w) ==
    /\ At(w, "rest") /\ PendingArchives = {} /\ StaleRanks # {}
    /\ LET p == FirstIn(Pairs, StaleRanks) IN
       /\ ~Locked(p, w)
       /\ stamp' = [stamp EXCEPT ![p] = Evidence(p)]
    /\ UNCHANGED <<ledger, rows, scratch, mined, content, turn, cursor, wake, bounds>>

Mine(w) ==
    /\ At(w, "rest") /\ PendingArchives = {} /\ StaleRanks = {} /\ DueMines # {}
    /\ LET p == FirstIn(Pairs, DueMines) IN
       /\ mined' = [mined EXCEPT ![p] = Evidence(p)]
       /\ phrases' = [phrases EXCEPT ![p] =
             [n \in 1..Slots |-> IF @[n] = "unmined" /\ Counted(p) THEN "staged" ELSE @[n]]]
    /\ UNCHANGED <<ledger, rows, scratch, stamp, words, turn, cursor, wake, bounds>>

-----------------------------------------------------------------------------
(* run_cycle: gloss, phrase speech, word audio                             *)

BeginTurn(w) ==
    /\ At(w, "rest")
    /\ PendingArchives = {} /\ StaleRanks = {} /\ DueMines = {}
    /\ wake' = [wake EXCEPT ![w] = [Rest EXCEPT !.at = "cycle", !.kind = turn]]
    /\ UNCHANGED <<base, content, turn, cursor, bounds>>

Advance(kind) ==
    CASE kind = "gloss" -> "phrase_audio"
      [] kind = "phrase_audio" -> "word_audio"
      [] kind = "word_audio" -> "gloss"

\* The first of a set of pairs from the cursor on, or else of those before it.
Position(p)  == CHOOSE i \in DOMAIN Pairs : Pairs[i] = p
RotationStart(c) == IF c \in PairSet THEN Position(c) ELSE 1
InRotation(c, set) ==
    LET ahead == {Pairs[i] : i \in RotationStart(c) .. Len(Pairs)} \cap set IN
    FirstIn(Pairs, IF ahead # {} THEN ahead ELSE set)
Following(p) == IF Position(p) < Len(Pairs) THEN Pairs[Position(p) + 1] ELSE ""

Attempting(w, kind) == At(w, "cycle") /\ wake[w].kind = kind

\* The kind the next wake takes up after this one.
Settled(kind, result) == Advance(kind)

\* What an attempt leaves for the rest of the wake.
Worked(w, p) ==
    wake' = [wake EXCEPT ![w].at = IF wake[w].kind = "word_audio" THEN "turn" ELSE "cursor",
                         ![w].pair = p,
                         ![w].archive = "worked"]
Retried(w) ==
    wake' = [wake EXCEPT ![w].at = "turn", ![w].archive = "retry"]

\* Mutant of NeedsGloss: a gloss that lost its link is not looked for.
NeedsGlossStaged(p) == \E n \in 1..Slots : phrases[p][n] = "staged"
NeedsGloss(p) == \E n \in 1..Slots : phrases[p][n] \in {"staged", "orphan"}
GlossWork     == {p \in PairSet : NeedsGloss(p)}
NeedsClip(p)  == \E n \in 1..Slots : phrases[p][n] = "linked"
\* Without a voice the word waits for its picture only.
Bare(p, n)    == words[p][n] = "bare" /\ p \in Voiced
NeedsMedia(p) == stamp[p] # {} /\ Counted(p) /\ \E n \in 1..Slots : words[p][n] # "whole"

Turned(p, from, to, S) ==
    [phrases EXCEPT ![p] = [n \in 1..Slots |-> IF n \in S /\ @[n] = from THEN to ELSE @[n]]]

\* Deleted links are restored from the stored English; the rest goes to the model.
Relinked(p) ==
    [n \in 1..Slots |-> IF phrases[p][n] = "orphan" THEN "linked" ELSE phrases[p][n]]
Glossed(p, S) ==
    [phrases EXCEPT ![p] =
        [n \in 1..Slots |-> IF n \in S /\ @[n] = "staged" THEN "linked" ELSE Relinked(p)[n]]]

Gloss(w) ==
    /\ Attempting(w, "gloss") /\ GlossWork # {}
    /\ LET p == InRotation(cursor.gloss, GlossWork) IN
       \/ /\ Works("llm")
          /\ phrases' = Glossed(p, 1..Slots)
          /\ Worked(w, p)
          /\ UNCHANGED faults
       \/ /\ Failed("llm")                              \* an outage ends the batch
          /\ \E n \in IF out = "llm" THEN {0} ELSE 0..(Slots - 1) : phrases' = Glossed(p, 1..n)
          /\ Retried(w)
       \/ /\ Works("llm") /\ Failed("llm")              \* a malformed answer skips it
          /\ phrases' = Glossed(p, {})
          /\ Worked(w, p)
    /\ UNCHANGED <<base, words, turn, cursor, out, kills, prunes>>

\* A pair that needs no clip is passed over; one that has no voice is not.
SpeechWork == {p \in PairSet : p \notin Voiced \/ NeedsClip(p)}

VoicePhrases(w) ==
    /\ Attempting(w, "phrase_audio") /\ SpeechWork # {}
    /\ LET p == InRotation(cursor.phrase_audio, SpeechWork) IN
       \/ /\ p \notin Voiced
          /\ Retried(w)
          /\ UNCHANGED <<phrases, faults>>
       \/ /\ p \in Voiced /\ Works("tts")
          /\ phrases' = Turned(p, "linked", "voiced", 1..Slots)
          /\ Worked(w, p)
          /\ UNCHANGED faults
       \/ /\ p \in Voiced /\ Failed("tts")
          /\ \E n \in IF out = "tts" THEN {0} ELSE 0..(Slots - 1) :
                phrases' = Turned(p, "linked", "voiced", 1..n)
          /\ Retried(w)
    /\ UNCHANGED <<base, words, turn, cursor, out, kills, prunes>>

\* Words in id order; each is spoken, then given its picture or a recorded miss.
MediaWork == {p \in PairSet : NeedsMedia(p)}
Illustrated(p, n, last) ==
    [words EXCEPT ![p] = [m \in 1..Slots |-> IF m < n THEN "whole"
                                             ELSE IF m = n THEN last ELSE @[m]]]
\* The batch gets as far as word n without needing a provider that is out.
Reaches(p, n) ==
    \A m \in 1..(n - 1) : words[p][m] # "whole" =>
        Works("image") /\ (Bare(p, m) => Works("tts"))

WordMedia(w) ==
    /\ Attempting(w, "word_audio") /\ MediaWork # {}
    /\ LET p == FirstIn(Pairs, MediaWork) IN
       \/ /\ Reaches(p, Slots + 1)
          /\ words' = [words EXCEPT ![p] = [n \in 1..Slots |-> "whole"]]
          /\ Worked(w, p)
          /\ UNCHANGED faults
       \/ \E n \in 1..Slots :
             /\ Reaches(p, n) /\ words[p][n] # "whole"
             /\ \/ /\ Bare(p, n) /\ Failed("tts")
                   /\ words' = Illustrated(p, n, "bare")
                \/ /\ Bare(p, n) => Works("tts")
                   /\ Failed("image")
                   /\ words' = Illustrated(p, n, "spoken")
             /\ Retried(w)
    /\ UNCHANGED <<base, phrases, turn, cursor, out, kills, prunes>>

NothingFor(kind) ==
    CASE kind = "gloss" -> GlossWork = {}
      [] kind = "phrase_audio" -> SpeechWork = {}
      [] kind = "word_audio" -> MediaWork = {}

\* An empty kind passes the turn on inside the wake; three make the wake idle.
Empty(w) ==
    /\ At(w, "cycle") /\ wake[w].tries < 3 /\ NothingFor(wake[w].kind)
    /\ wake' = [wake EXCEPT ![w].kind = Settled(@, "empty"), ![w].tries = @ + 1]
    /\ UNCHANGED <<base, content, turn, cursor, bounds>>

Idle(w) ==
    /\ At(w, "cycle") /\ wake[w].tries = 3
    /\ turn' = "gloss"
    /\ Sleep(w)
    /\ UNCHANGED <<base, content, cursor, bounds>>

StoreCursor(w) ==
    /\ At(w, "cursor")
    /\ cursor' = [cursor EXCEPT ![wake[w].kind] = Following(wake[w].pair)]
    /\ Go(w, "turn")
    /\ UNCHANGED <<base, content, turn, bounds>>

StoreTurn(w) ==
    /\ At(w, "turn")
    /\ turn' = Settled(wake[w].kind, wake[w].archive)
    /\ Sleep(w)
    /\ UNCHANGED <<base, content, cursor, bounds>>

-----------------------------------------------------------------------------
\* The process dies: what its transactions committed stays, and its file.
Kill(w) ==
    /\ ~At(w, "rest") /\ kills < Kills
    /\ kills' = kills + 1
    /\ Sleep(w)
    /\ UNCHANGED <<base, content, turn, cursor, out, faults, prunes>>

\* A translation is deleted: its gloss keeps the English and loses link and clip.
Prune(p, n) ==
    /\ prunes < Prunes /\ phrases[p][n] \in {"linked", "voiced"}
    /\ prunes' = prunes + 1
    /\ phrases' = [phrases EXCEPT ![p][n] = "orphan"]
    /\ UNCHANGED <<base, words, turn, cursor, wake, out, faults, kills>>

Step(w) ==
    \/ ReadArchive(w) \/ MarkUnavailable(w) \/ Downloaded(w) \/ Lock(w) \/ Persist(w)
    \/ EndOfFile(w) \/ ParseError(w) \/ MarkIngested(w) \/ Rank(w) \/ Mine(w)
    \/ BeginTurn(w) \/ Gloss(w) \/ VoicePhrases(w) \/ WordMedia(w) \/ Empty(w)
    \/ Idle(w) \/ StoreCursor(w) \/ StoreTurn(w)

Next ==
    \/ \E w \in Workers : Step(w) \/ Kill(w)
    \/ \E p \in PairSet, n \in 1..Slots : Prune(p, n)

-----------------------------------------------------------------------------
TypeOK ==
    /\ ledger \in [ArchiveSet -> {"none", "ingested", "unavailable"}]
    /\ rows \in [ArchiveSet -> 0..Lines] /\ scratch \in [ArchiveSet -> 0..Lines]
    /\ \A p \in PairSet : stamp[p] \subseteq ArchiveSet \X (0..Lines)
                          /\ mined[p] \subseteq ArchiveSet \X (0..Lines)
    /\ phrases \in [PairSet -> [1..Slots -> {"unmined", "staged", "orphan", "linked", "voiced"}]]
    /\ words \in [PairSet -> [1..Slots -> {"bare", "spoken", "whole"}]]
    /\ turn \in Kinds
    /\ cursor \in [{"gloss", "phrase_audio"} -> PairSet \cup {""}]
    /\ \A w \in Workers :
          /\ wake[w].at \in {"rest", "download", "missing", "lock", "read", "mark",
                             "cycle", "cursor", "turn"}
          /\ wake[w].seen \in 0..Lines /\ wake[w].tries \in 0..3
    /\ faults \in 0..Faults /\ kills \in 0..Kills /\ prunes \in 0..Prunes

\* The ledger names archives that were read to the end: a marked archive has
\* every one of its lines in the corpus, whatever was killed while it was read.
ArchiveTruthful == \A a \in ArchiveSet : ledger[a] = "ingested" => rows[a] = Lines

GlossDone == \A p \in PairSet, n \in 1..Slots : phrases[p][n] \in {"linked", "voiced"}
VoiceDone(p) == \A n \in 1..Slots : phrases[p][n] = "voiced"
WordsDone == \A p \in PairSet, n \in 1..Slots : words[p][n] = "whole"

\* An outage of one provider, however long, stops only the kinds that need it:
\* the others finish their work, and keep up with it.
Unstopped ==
    /\ out \notin {"llm"} => GlossDone
    /\ out \notin {"llm", "tts"} => \A p \in Voiced : VoiceDone(p)
    /\ out \notin {"tts", "image"} => WordsDone
=============================================================================
