---------------------------- MODULE PictureCache ----------------------------
(***************************************************************************)
(* The pictures of the media cache (media/cache.rs): one row per card, one *)
(* file per fingerprint, shared by every card whose subject has it.        *)
(*                                                                         *)
(* A writer holds the advisory lock of the fingerprint, looks again,       *)
(* attaches a file another card already has or downloads one, renames it   *)
(* into place, commits the row, and only then, with nothing held, removes  *)
(* the card's previous file if no row names it.  Files are outside every   *)
(* transaction: a writer that dies leaves what it renamed.                 *)
(***************************************************************************)
EXTENDS Naturals, FiniteSets

CONSTANTS Writers,      \* requests that may be in flight together
          Cards, Prints,
          Edits,        \* bound: changes of a card's subject
          Mishaps       \* bound: downloads that fail, writers that die

VARIABLES subject,      \* the fingerprint a card's subject has now
          configured,   \* a provider of pictures is configured
          missed,       \* pipeline_picture_misses: searches known to find nothing
          row,          \* media_cache: the card's fingerprint and file
          files,        \* the files of the cache directory
          temp,         \* writers whose temporary file exists
          job,          \* where each request is
          edits, mishaps,
          tangled       \* a writer died, or two requests of one card overlapped

vars == <<subject, configured, missed, row, files, temp, job, edits, mishaps, tangled>>

Grammar == ""                      \* a phrase, or a word no photograph can show
NoRow   == [print |-> "", path |-> ""]
AtRest  == [at |-> "rest", card |-> "", print |-> "", path |-> "", previous |-> "",
            attach |-> FALSE]
OwnFile(c) == c                    \* the per-card file of an older build
Paths   == Prints \cup {OwnFile(c) : c \in Cards}

Init ==
    /\ subject \in [Cards -> Prints] /\ configured \in BOOLEAN /\ missed = {}
    /\ \E old \in SUBSET Cards :
          /\ row = [c \in Cards |-> IF c \in old
                       THEN [print |-> subject[c], path |-> OwnFile(c)] ELSE NoRow]
          /\ files = {OwnFile(c) : c \in old}
    /\ temp = {}
    /\ job = [w \in Writers |-> AtRest]
    /\ edits = 0 /\ mishaps = 0 /\ tangled = FALSE

On(w, step)   == job[w].at = step
To(w, step)   == job' = [job EXCEPT ![w].at = step]
Finish(w)     == job' = [job EXCEPT ![w] = AtRest]
searches      == <<configured, missed>>
store         == <<subject, searches, row, files>>
rest          == <<edits, mishaps, tangled>>

\* Mutant of Live: the row is believed, its file not looked for.
LiveByRow(c, print) == row[c].print = print
\* The row of the card is of this fingerprint and its file is there.
Live(c, print) == row[c].print = print /\ row[c].path \in files

\* The lock of a fingerprint, held until the transaction ends.
Holds(w)      == job[w].at \in {"look", "fetch", "write", "rename", "sweep", "remember"}
LockFree(print) == \A w \in Writers : ~(Holds(w) /\ job[w].print = print)

\* Without a provider no fingerprint can be named, and any live file will do.
StoredPublished(c) == row[c].print # "" /\ row[c].path \in files
\* Mutant of CachedPicture: a search that found nothing is made again.
CachedPictureForgetful(c) ==
    IF subject[c] = Grammar THEN "not applicable" ELSE
    IF IF configured THEN Live(c, subject[c]) ELSE StoredPublished(c) THEN "hit" ELSE "missing"
\* What a card's request is told before anything is fetched.
CachedPicture(c) ==
    IF subject[c] = Grammar THEN "not applicable" ELSE
    IF IF configured THEN Live(c, subject[c]) ELSE StoredPublished(c) THEN "hit" ELSE
    IF configured /\ subject[c] \in missed THEN "known miss" ELSE "missing"

\* Only a missing picture is asked for; without a provider the answer is a 503.
Wanted(c) == CachedPicture(c) = "missing" /\ configured

\* A hit is served from the pool, without the lock.
Ask(w, c, attach) ==
    /\ On(w, "rest") /\ Wanted(c)
    /\ job' = [job EXCEPT ![w] = [AtRest EXCEPT !.at = "lock", !.card = c,
                                     !.print = subject[c], !.attach = attach]]
    /\ tangled' = (tangled \/ \E v \in Writers : ~On(v, "rest") /\ job[v].card = c)
    /\ UNCHANGED <<store, temp, edits, mishaps>>

BeginLocked(w) ==
    /\ On(w, "lock") /\ LockFree(job[w].print)
    /\ To(w, "look")
    /\ UNCHANGED <<store, temp, rest>>

\* Mutant of PublishedImage: only the card's own row is looked at.
PublishedImageOfNone(print) == {}
\* Files the rows of this fingerprint name and the directory has.
PublishedImage(print) == {row[c].path : c \in {d \in Cards : Live(d, print)}}

Look(w) ==
    LET j == job[w] IN
    /\ On(w, "look")
    /\ IF Live(j.card, j.print) THEN Finish(w)
       ELSE \/ \E path \in PublishedImage(j.print) :
                  job' = [job EXCEPT ![w].at = "remember", ![w].path = path,
                                     ![w].previous = row[j.card].path]
            \/ /\ PublishedImage(j.print) = {} /\ j.attach
               /\ Finish(w)
            \/ /\ PublishedImage(j.print) = {} /\ ~j.attach
               /\ job' = [job EXCEPT ![w].at = "fetch",
                                     ![w].previous = row[j.card].path]
    /\ UNCHANGED <<store, temp, rest>>

\* A search that failed leaves nothing; one that found nothing is remembered by the
\* media step of the pipeline, and by nobody else.
RecordMiss(print) == missed' \in {missed, missed \cup {print}}

Fetch(w) ==
    /\ On(w, "fetch")
    /\ \/ To(w, "write") /\ UNCHANGED <<missed, mishaps>>
       \/ /\ mishaps < Mishaps /\ mishaps' = mishaps + 1
          /\ Finish(w)
          /\ RecordMiss(job[w].print)
    /\ UNCHANGED <<subject, configured, row, files, temp, edits, tangled>>

WriteTemp(w) ==
    /\ On(w, "write")
    /\ temp' = temp \cup {w}
    /\ To(w, "rename")
    /\ UNCHANGED <<store, rest>>

\* Mutant of SharedPath: the file keeps the writer's temporary name.
SharedPathOfTemp(w) == w
SharedPath(w) == job[w].print
\* The rename fails when another writer's sweep took the temporary file.
Rename(w) ==
    /\ On(w, "rename")
    /\ IF w \in temp
       THEN /\ files' = files \cup {SharedPath(w)}
            /\ job' = [job EXCEPT ![w].at = "sweep", ![w].path = SharedPath(w)]
       ELSE Finish(w) /\ UNCHANGED files
    /\ temp' = temp \ {w}
    /\ UNCHANGED <<subject, searches, row, rest>>

\* remove_shared_tmp_orphans: any temporary picture, in the order of the
\* directory, until one is gone already.
Sweep(w) ==
    /\ On(w, "sweep")
    /\ \E left \in SUBSET temp : temp' = left
    /\ To(w, "remember")
    /\ UNCHANGED <<store, rest>>

Remember(w) ==
    LET j == job[w] IN
    /\ On(w, "remember")
    /\ row' = [row EXCEPT ![j.card] = [print |-> j.print, path |-> j.path]]
    /\ IF j.previous \in {"", j.path} THEN Finish(w) ELSE To(w, "check")
    /\ UNCHANGED <<subject, searches, files, temp, rest>>

Referenced(path) == \E c \in Cards : row[c].path = path

\* cache_path_referenced, with no lock held.
CheckPrevious(w) ==
    /\ On(w, "check")
    /\ IF Referenced(job[w].previous) THEN Finish(w) ELSE To(w, "remove")
    /\ UNCHANGED <<store, temp, rest>>

\* Mutant of Kept: the previous file is never removed.
KeptAlways(path) == files
Kept(path) == files \ {path}

RemovePrevious(w) ==
    /\ On(w, "remove")
    /\ files' = Kept(job[w].previous)
    /\ Finish(w)
    /\ UNCHANGED <<subject, searches, row, temp, rest>>

\* The subject of a card changes: its picture must have another fingerprint.
Edit(c, print) ==
    /\ edits < Edits /\ print # subject[c]
    /\ subject' = [subject EXCEPT ![c] = print]
    /\ edits' = edits + 1
    /\ UNCHANGED <<searches, row, files, temp, job, mishaps, tangled>>

\* The process of a request dies; its transaction is rolled back.
Crash(w) ==
    /\ ~On(w, "rest") /\ mishaps < Mishaps
    /\ mishaps' = mishaps + 1 /\ tangled' = TRUE
    /\ temp' = temp \ {w}
    /\ Finish(w)
    /\ UNCHANGED <<store, edits>>

Step(w) ==
    \/ BeginLocked(w) \/ Look(w) \/ Fetch(w) \/ WriteTemp(w)
    \/ Rename(w) \/ Sweep(w) \/ Remember(w) \/ CheckPrevious(w) \/ RemovePrevious(w)

Next ==
    \/ \E w \in Writers : Step(w) \/ Crash(w) \/ \E c \in Cards, b \in BOOLEAN : Ask(w, c, b)
    \/ \E c \in Cards, print \in Prints \cup {Grammar} : Edit(c, print)

-----------------------------------------------------------------------------
TypeOK ==
    /\ subject \in [Cards -> Prints \cup {Grammar}] /\ configured \in BOOLEAN /\ missed \subseteq Prints
    /\ row \in [Cards -> [print : Prints \cup {""}, path : Paths \cup {""}]]
    /\ files \subseteq Paths /\ temp \subseteq Writers
    /\ \A w \in Writers : /\ job[w].card \in Cards \cup {""}
                          /\ job[w].path \in Paths \cup {""}
    /\ edits \in 0..Edits /\ mishaps \in 0..Mishaps

\* A picture is downloaded only while no card has it: as long as a download of a
\* fingerprint runs, no row of that fingerprint has its file.
FetchedOnce ==
    \A w \in Writers : job[w].at \in {"fetch", "write", "rename"} =>
        \A c \in Cards : ~(row[c].print = job[w].print /\ row[c].path \in files)

\* When every request is over, no file is left that no row names.
NothingLeftBehind ==
    (~tangled /\ \A w \in Writers : On(w, "rest")) =>
        \A path \in files : Referenced(path)

\* A file of a row goes missing only under a request that was checking it while
\* another card took it up; with every request over, a card that is shown again
\* ends with the picture its subject asks for, unless its search is known to find
\* none or nothing can be searched.
Settled ==
    configured => \A c \in Cards :
        \/ subject[c] \in missed \cup {Grammar}
        \/ row[c].print = subject[c] /\ row[c].path \in files
=============================================================================
