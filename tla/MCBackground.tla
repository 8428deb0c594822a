---------------------------- MODULE MCBackground ----------------------------
(***************************************************************************)
(* What the host does without anybody looking, as scenes of one instance:  *)
(* the corpus unit, the books of the reader, and the pictures.  They share *)
(* tables but no rows, so each behaviour plays one scene, and the others   *)
(* stay at an initial state.                                               *)
(***************************************************************************)
EXTENDS Integers, Sequences, TLC

CONSTANTS
    \* CorpusUnit
    Workers, Pairs, Archives, ForeignOf, Missing, VoicedPairs, Outages, Lines, Slots,
    Faults, Kills, PrunesOfGlosses,
    \* BookPipeline
    Books, Length, RunMax, Spellings, FormsOf, VoicedSpellings, VoiceBatch, Requests,
    Troubles, PrunesOfClips,
    \* PictureCache
    Writers, Cards, Prints, Edits, Mishaps

VARIABLES scene,
    \* CorpusUnit
    ledger, rows, scratch, stamp, mined, phrases, words, turn, place, wake, out,
    faults, kills, uprunes,
    \* BookPipeline
    state, position, skipped, text, gloss, named, clip, clipFile, voicing, prune, raced,
    troubles, prunes,
    \* PictureCache
    subject, configured, missed, row, files, temp, writer, edits, mishaps, tangled

Unit == INSTANCE CorpusUnit WITH
    prunes <- uprunes, cursor <- place, Voiced <- VoicedPairs, Prunes <- PrunesOfGlosses

Book == INSTANCE BookPipeline WITH
    status <- state, cursor <- position, job <- voicing,
    Voiced <- VoicedSpellings, Prunes <- PrunesOfClips

Picture == INSTANCE PictureCache WITH job <- writer

\* The pair file lists its pairs and their archives in order; books and spellings are
\* numbered, no reader is the host; and the files of the pictures are named by their
\* cards or by their fingerprints, and by nothing else.
ASSUME UnitAssumption ==
    /\ Pairs \in Seq(STRING) /\ Archives \in Seq(STRING)
    /\ ForeignOf \in [Unit!ArchiveSet -> Unit!PairSet]
    /\ Lines \in Nat /\ Slots \in Nat
    /\ Faults \in Nat /\ Kills \in Nat /\ PrunesOfGlosses \in Nat
ASSUME BookAssumption ==
    /\ Books \subseteq Nat /\ Spellings \subseteq Nat \ {0}
    /\ Length \in Nat /\ RunMax \in Nat /\ "host" \notin Requests
ASSUME PictureAssumption ==
    /\ Cards \cap Prints = {} /\ "" \notin Cards \cup Prints
    /\ Edits \in Nat /\ Mishaps \in Nat

\* The values of the instance: one archive of Gaelic is missing on the mirror; a
\* sentence of one word and the word are one spelling.
TwoPairs      == <<"gd", "fr">>
ThreeArchives == <<"gd1", "gd2", "fr1">>
ThePairOf     == [a \in {"gd1", "gd2", "fr1"} |-> IF a = "fr1" THEN "fr" ELSE "gd"]
OneForm       == <<{}, {1}>>

unit    == <<ledger, rows, scratch, stamp, mined, phrases, words, turn, place, wake, out,
             faults, kills, uprunes>>
book    == <<state, position, skipped, text, gloss, named, clip, clipFile, voicing, prune,
             raced, troubles, prunes>>
picture == <<subject, configured, missed, row, files, temp, writer, edits, mishaps, tangled>>
all     == <<scene, unit, book, picture>>

Init ==
    /\ scene \in {"unit", "book", "picture"}
    /\ Unit!Init    /\ (scene # "unit" => out = "none")
    /\ Book!Init
    /\ Picture!Init /\ (scene # "picture" => /\ configured /\ files = {}
                                            /\ \A c \in Cards : subject[c] = CHOOSE f \in Prints : TRUE)

Playing(s) ==
    /\ scene = s /\ UNCHANGED scene
    /\ s # "unit" => UNCHANGED unit
    /\ s # "book" => UNCHANGED book
    /\ s # "picture" => UNCHANGED picture

Next ==
    \/ Playing("unit") /\ Unit!Next
    \/ Playing("book") /\ Book!Next
    \/ Playing("picture") /\ Picture!Next

\* The scripts of the host call their unit again and again and systemd restarts
\* them; a request that is running goes on, and a card stays in a deck that is
\* shown again and again.
Fairness ==
    /\ \A u \in Workers : WF_all(Playing("unit") /\ Unit!Step(u))
    /\ WF_all(Playing("book") /\ Book!Host)
    /\ \A a \in Requests \cup {"host"} : WF_all(Playing("book") /\ Book!Voice(a))
    /\ \A w \in Writers : WF_all(Playing("picture") /\ Picture!Step(w))
    /\ \A c \in Cards : SF_all(Playing("picture") /\ \E w \in Writers : Picture!Ask(w, c, FALSE))

Spec == Init /\ [][Next]_all
FairSpec == Spec /\ Fairness

-----------------------------------------------------------------------------
\* Every table, file and request of the scenes keeps its type.
TypeOK == Unit!TypeOK /\ Book!TypeOK /\ Picture!TypeOK

\* An archive the ledger calls ingested was read to its end (archives.rs).
ArchiveTruthful == Unit!ArchiveTruthful
\* An outage of one provider leaves the work of the others running (prepare.rs).
OutagesApart == <>[](scene = "unit" => Unit!Unstopped)
\* Nothing is made twice under a fingerprint's lock: no spelling is spoken and no
\* picture downloaded while it is stored (media/cache.rs).
MadeOnce == Book!SpokenOnce /\ Picture!FetchedOnce
\* A row of a book that names a clip finds it, unless a prune ran beside a voicing;
\* with every request for pictures over, every file of them is named by a row.
FilesAgree == Book!NamedClipsKept /\ Picture!NothingLeftBehind
\* reader-status ends at "idle" (reader_step.rs).
Quiet == <>[](scene = "book" => ~Book!HasWork)
\* A card that is shown again ends with the picture its subject asks for.
Healed == <>[](scene = "picture" => Picture!Settled)
=============================================================================
