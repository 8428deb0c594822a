----------------------------- MODULE PhraseMine -----------------------------
(***************************************************************************)
(* The phrases of one language are mined from its corpus, page by page,    *)
(* and published when the corpus is still the one that was mined.  Workers *)
(* hold no lock over a mine: what they share is the row of the mine (its   *)
(* generation, cursor and checksum) and the rows of the counts, and each   *)
(* page and the publication are READ COMMITTED transactions over them.     *)
(*                                                                         *)
(* A checksum is the set of surfaces it was taken over, a cursor the       *)
(* surface it stands at.  A surface that leaves the corpus never comes     *)
(* back: a row inserted again has a new id and with it a new checksum.     *)
(* The archives of the language are recorded before anything here starts.  *)
(***************************************************************************)
EXTENDS Integers, FiniteSets

CONSTANTS
    Workers,
    Surfaces,   \* in the order of the text, numbered from 1
    Initial,    \* surfaces of the corpus when the model begins
    Phrases,
    PhrasesOf,  \* the phrases a surface contains
    PageSize,   \* MINE_PAGE
    Min,        \* MIN_SENTENCES
    MaxMishaps  \* bound on the surfaces that leave the corpus and the workers
                \* that are killed, together

ASSUME MineAssumption ==
    /\ IsFiniteSet(Surfaces) /\ Surfaces \subseteq Nat \ {0}
    /\ Initial \subseteq Surfaces
    /\ PhrasesOf \in [Surfaces -> SUBSET Phrases]
    /\ PageSize \in Nat \ {0}
    /\ Min \in Nat \ {0}
    /\ MaxMishaps \in Nat

VARIABLES
    evidence,   \* surfaces of the corpus
    gone,       \* surfaces that have left it
    rank,       \* pipeline_rank_stamps
    mine,       \* pipeline_phrase_mines, as committed
    counts,     \* pipeline_phrase_counts, as committed; 0 is no row
    phrases,    \* phrases, as committed; 0 is no row
    stamp,      \* pipeline_phrase_stamps
    pc,         \* the step each worker is at
    sum,        \* the checksum a worker has read
    at,         \* generation and cursor a worker has read
    draft,      \* workers whose open transaction inserted the mine
    page,       \* surfaces of the page in a worker's hands
    todo,       \* phrases of that page a worker has still to count
    pub,        \* counts a worker's open transaction has published
    dropped,    \* count rows a worker's DELETE has seen
    fails,      \* how many workers were killed
    mined,      \* ghost: how often the mine counted each surface
    together    \* ghost: two workers have been at work at once

corpusVars == <<evidence, gone, rank>>
tableVars == <<mine, counts, phrases, stamp, mined>>
workVars == <<sum, at, draft, page, todo, pub, dropped>>
boundVars == <<fails, together>>
vars == <<corpusVars, tableVars, pc, workVars, boundVars>>

Unstamped == {0}   \* no checksum: not a set of surfaces
Checksums == SUBSET Surfaces
NoMine == [open |-> FALSE, sum |-> {}, gen |-> 0, cursor |-> 0]
Start == [gen |-> 1, cursor |-> 0]

\* "open" to "count" are within the transaction of a page, "decide" to "final"
\* within the one that ends the mine.
Steps == {"idle", "page", "open", "look", "read", "count", "finish", "decide",
          "bump", "abandon", "publish", "insert", "dropping", "final"}

TypeOK ==
    /\ evidence \in Checksums /\ gone \in Checksums
    /\ rank \in Checksums \cup {Unstamped}
    /\ stamp \in Checksums \cup {Unstamped}
    /\ mine \in [open : BOOLEAN, sum : Checksums, gen : Nat, cursor : Nat]
    /\ counts \in [Phrases -> Nat] /\ phrases \in [Phrases -> Nat]
    /\ pc \in [Workers -> Steps]
    /\ sum \in [Workers -> Checksums]
    /\ at \in [Workers -> [gen : Nat, cursor : Nat]]
    /\ draft \subseteq Workers
    /\ page \in [Workers -> Checksums]
    /\ todo \in [Workers -> SUBSET Phrases]
    /\ pub \in [Workers -> [Phrases -> Nat]]
    /\ dropped \in [Workers -> SUBSET Phrases]
    /\ fails \in Nat
    /\ mined \in [Surfaces -> Nat]
    /\ together \in BOOLEAN

None == [p \in Phrases |-> 0]

Init ==
    /\ evidence = Initial /\ gone = {} /\ rank = Unstamped
    /\ mine = NoMine /\ counts = None /\ phrases = None /\ stamp = Unstamped
    /\ mined = [s \in Surfaces |-> 0]
    /\ pc = [w \in Workers |-> "idle"]
    /\ sum = [w \in Workers |-> {}]
    /\ at = [w \in Workers |-> Start]
    /\ draft = {}
    /\ page = [w \in Workers |-> {}]
    /\ todo = [w \in Workers |-> {}]
    /\ pub = [w \in Workers |-> None]
    /\ dropped = [w \in Workers |-> {}]
    /\ fails = 0 /\ together = FALSE
-----------------------------------------------------------------------------
(***************************************************************************)
(* The corpus and its ranking, beside the miners.                          *)
(***************************************************************************)

\* An archive is read, a reader adds a line.
Grow(s) ==
    /\ s \notin evidence \cup gone
    /\ evidence' = evidence \cup {s}
    /\ UNCHANGED <<gone, rank, tableVars, pc, workVars, boundVars>>

\* A translation is pruned.
Leave(s) ==
    /\ s \in evidence
    /\ Cardinality(gone) + fails < MaxMishaps
    /\ evidence' = evidence \ {s}
    /\ gone' = gone \cup {s}
    /\ UNCHANGED <<rank, tableVars, pc, workVars, boundVars>>

\* rank_if_stale.
Rank ==
    /\ rank # evidence
    /\ rank' = evidence
    /\ UNCHANGED <<evidence, gone, tableVars, pc, workVars, boundVars>>
-----------------------------------------------------------------------------
(***************************************************************************)
(* Row locks.  A worker waits for the open transactions that wrote the     *)
(* rows it is about to write.                                              *)
(***************************************************************************)
Tally(set, p) == Cardinality({s \in set : p \in PhrasesOf[s]})

InPage(w) == {p \in Phrases : Tally(page[w], p) > 0}
Published(w) == {p \in Phrases : pub[w][p] > 0}
Counted == {p \in Phrases : counts[p] > 0}

\* Workers whose open transaction has updated the mine.
Restarting == {w \in Workers : pc[w] = "abandon"}

\* Workers whose open transaction has written the count of a phrase.
Writers(p) ==
    {w \in Workers : \/ pc[w] = "count" /\ p \in InPage(w) \ todo[w]
                     \/ pc[w] = "final" /\ p \in dropped[w]}

\* Workers whose open transaction has written one of these phrases.
Publishers(set) ==
    {w \in Workers : pc[w] \in {"dropping", "final"} /\ Published(w) \cap set # {}}

\* The transactions a worker waits for at its next statement.  An insert of
\* the mine waits for another insert; an update does not see one.
WaitsFor(w) ==
    (CASE pc[w] = "open"                            -> Restarting \cup draft
       [] pc[w] \in {"bump", "final"}               -> Restarting
       [] pc[w] = "count" /\ todo[w] = {}           -> Restarting
       [] pc[w] = "count" /\ \A p \in todo[w] : Writers(p) \ {w} # {}
                                                    -> UNION {Writers(p) : p \in todo[w]}
       [] pc[w] = "insert"                          -> Publishers(Published(w))
       [] pc[w] = "dropping"                        -> UNION {Writers(p) : p \in dropped[w]}
       [] pc[w] = "abandon"                         -> UNION {Writers(p) : p \in Counted}
       [] OTHER                                     -> {}) \ {w}

Goto(w, step) == pc' = [pc EXCEPT ![w] = step]

\* A worker is at a statement and does not wait.
At(w, step) == pc[w] = step /\ WaitsFor(w) = {}

\* The transaction ends, with it what it held.
Ended(w) ==
    /\ sum' = [sum EXCEPT ![w] = {}]
    /\ at' = [at EXCEPT ![w] = Start]
    /\ draft' = draft \ {w}
    /\ page' = [page EXCEPT ![w] = {}]
    /\ todo' = [todo EXCEPT ![w] = {}]
    /\ pub' = [pub EXCEPT ![w] = None]
    /\ dropped' = [dropped EXCEPT ![w] = {}]

\* The worker's run is over and nothing of its transaction stays.
Return(w) ==
    /\ Goto(w, "idle")
    /\ Ended(w)
-----------------------------------------------------------------------------
(***************************************************************************)
(* A worker's run.                                                         *)
(***************************************************************************)

\* Mutant of Due: a mine that was left unfinished is not taken up.
DueUnmined == stamp # evidence /\ ~mine.open

\* mine_is_due.
Due == mine.open \/ stamp # evidence

\* A run goes on only where the ranking is current.  Whatever changes between
\* the two checks may as well change before the first statement of the mine.
Begin(w) ==
    /\ pc[w] = "idle"
    /\ Due
    /\ rank = evidence
    /\ Goto(w, "page")
    /\ together' = (together \/ \E v \in Workers \ {w} : pc[v] # "idle")
    /\ UNCHANGED <<corpusVars, tableVars, workVars, fails>>

\* The checksum of commit_mine_page is taken outside its transaction.
ReadChecksum(w) ==
    /\ pc[w] = "page"
    /\ sum' = [sum EXCEPT ![w] = evidence]
    /\ Goto(w, "open")
    /\ UNCHANGED <<corpusVars, tableVars, at, draft, page, todo, pub, dropped, boundVars>>

\* INSERT ON CONFLICT DO NOTHING: only a mine that is new takes the checksum.
OpenMine(w) ==
    /\ At(w, "open")
    /\ IF mine.open
       THEN sum' = [sum EXCEPT ![w] = {}] /\ UNCHANGED draft
       ELSE draft' = draft \cup {w} /\ UNCHANGED sum
    /\ Goto(w, "look")
    /\ UNCHANGED <<corpusVars, tableVars, at, page, todo, pub, dropped, boundVars>>

\* The mine as the worker's transaction reads it; published in between, it is
\* gone and the run fails.
Look(w) ==
    /\ pc[w] = "look"
    /\ IF w \in draft \/ mine.open
       THEN /\ Goto(w, "read")
            /\ at' = [at EXCEPT ![w] = IF w \in draft THEN Start
                                       ELSE [gen |-> mine.gen, cursor |-> mine.cursor]]
            /\ UNCHANGED <<sum, draft, page, todo, pub, dropped>>
       ELSE Return(w)
    /\ UNCHANGED <<corpusVars, tableVars, boundVars>>

\* The first page of surfaces above the cursor.
PageAbove(cursor) ==
    {s \in evidence :
        s > cursor /\ Cardinality({r \in evidence : cursor < r /\ r <= s}) <= PageSize}

ReadPage(w) ==
    /\ pc[w] = "read"
    /\ page' = [page EXCEPT ![w] = PageAbove(at[w].cursor)]
    /\ todo' = [todo EXCEPT ![w] = {p \in Phrases : Tally(PageAbove(at[w].cursor), p) > 0}]
    /\ Goto(w, "count")
    /\ UNCHANGED <<corpusVars, tableVars, sum, at, draft, pub, dropped, boundVars>>

\* The counts of a page are added one by one, in the order of a HashMap.
Count(w, p) ==
    /\ pc[w] = "count"
    /\ p \in todo[w]
    /\ Writers(p) \ {w} = {}
    /\ todo' = [todo EXCEPT ![w] = @ \ {p}]
    /\ UNCHANGED <<corpusVars, tableVars, pc, sum, at, draft, page, pub, dropped, boundVars>>

\* Mutant of Claimable: the generation alone is compared.
ClaimableByGeneration(w) == w \in draft \/ (mine.open /\ mine.gen = at[w].gen)

\* The mine still stands where the worker read it.
Claimable(w) ==
    \/ w \in draft
    \/ mine.open /\ mine.gen = at[w].gen /\ mine.cursor = at[w].cursor

\* The mine the claim updates: the one the transaction inserted, or the one
\* it found.
Claimed(w) ==
    IF w \in draft THEN [open |-> TRUE, sum |-> sum[w], gen |-> 1, cursor |-> 0] ELSE mine

\* Mutant of Last: an empty page leaves no cursor.
LastOrNone(set, from) ==
    IF set = {} THEN -1 ELSE CHOOSE s \in set : \A r \in set : r <= s

Last(set, from) ==
    IF set = {} THEN from ELSE CHOOSE s \in set : \A r \in set : r <= s

\* The claim, and with it the counts, commit or roll back together.  An empty
\* page ends the loop.
Claim(w) ==
    /\ At(w, "count")
    /\ todo[w] = {}
    /\ IF Claimable(w)
       THEN /\ mine' = [Claimed(w) EXCEPT !.cursor = Last(page[w], at[w].cursor)]
            /\ counts' = [p \in Phrases |-> counts[p] + Tally(page[w], p)]
            /\ mined' = [s \in Surfaces |-> IF s \in page[w] THEN mined[s] + 1 ELSE mined[s]]
            /\ Goto(w, IF page[w] = {} THEN "finish" ELSE "page")
            /\ Ended(w)
       ELSE Return(w) /\ UNCHANGED <<mine, counts, mined>>
    /\ UNCHANGED <<corpusVars, phrases, stamp, boundVars>>

\* The checksum of finish_or_abandon is taken outside its transaction, too.
ReadChecksumAgain(w) ==
    /\ pc[w] = "finish"
    /\ sum' = [sum EXCEPT ![w] = evidence]
    /\ Goto(w, "decide")
    /\ UNCHANGED <<corpusVars, tableVars, at, draft, page, todo, pub, dropped, boundVars>>

\* A mine of the corpus as it is now is published, another one abandoned.
Decide(w) ==
    /\ pc[w] = "decide"
    /\ IF mine.open
       THEN /\ at' = [at EXCEPT ![w].gen = mine.gen]
            /\ Goto(w, IF mine.sum = sum[w] THEN "publish" ELSE "bump")
            /\ UNCHANGED <<sum, draft, page, todo, pub, dropped>>
       ELSE Return(w)
    /\ UNCHANGED <<corpusVars, tableVars, boundVars>>

SameMine(w) == mine.open /\ mine.gen = at[w].gen

\* abandon updates the mine.
Bump(w) ==
    /\ At(w, "bump")
    /\ IF SameMine(w)
       THEN Goto(w, "abandon") /\ UNCHANGED workVars
       ELSE Return(w)
    /\ UNCHANGED <<corpusVars, tableVars, boundVars>>

\* Mutant of Restarted: the cursor stays where it was.
RestartedThere(w) == [mine EXCEPT !.gen = @ + 1, !.sum = sum[w]]

\* The mine after an abandon.
Restarted(w) == [mine EXCEPT !.gen = @ + 1, !.cursor = 0, !.sum = sum[w]]

\* Mutant of Cleared: the counts stay.
ClearedNot == counts

\* The DELETE of an abandon.
Cleared == None

\* abandon deletes the counts and commits.  While it holds the mine nobody
\* else can commit a count.
Abandon(w) ==
    /\ At(w, "abandon")
    /\ mine' = Restarted(w)
    /\ counts' = Cleared
    /\ mined' = [s \in Surfaces |-> 0]
    /\ Return(w)
    /\ UNCHANGED <<corpusVars, phrases, stamp, boundVars>>

\* publish: the statement that copies the counts reads them when it starts, ...
PublishRead(w) ==
    /\ pc[w] = "publish"
    /\ pub' = [pub EXCEPT ![w] = [p \in Phrases |-> IF counts[p] >= Min THEN counts[p] ELSE 0]]
    /\ Goto(w, "insert")
    /\ UNCHANGED <<corpusVars, tableVars, sum, at, draft, page, todo, dropped, boundVars>>

\* ... and waits for the rows another publisher has written.  The DELETE of the
\* counts sees those that are committed when it starts, ...
DropStart(w) ==
    /\ At(w, "insert")
    /\ dropped' = [dropped EXCEPT ![w] = Counted]
    /\ Goto(w, "dropping")
    /\ UNCHANGED <<corpusVars, tableVars, sum, at, draft, page, todo, pub, boundVars>>

\* ... and waits for whoever is writing one of them.
DropDone(w) ==
    /\ At(w, "dropping")
    /\ Goto(w, "final")
    /\ UNCHANGED <<corpusVars, tableVars, workVars, boundVars>>

\* The stamp is written and the mine deleted; without a mine of this
\* generation all of it is rolled back.
Final(w) ==
    /\ At(w, "final")
    /\ IF SameMine(w)
       THEN /\ phrases' = [p \in Phrases |-> IF pub[w][p] > 0 THEN pub[w][p] ELSE phrases[p]]
            /\ counts' = [p \in Phrases |-> IF p \in dropped[w] THEN 0 ELSE counts[p]]
            /\ stamp' = sum[w]
            /\ mine' = NoMine
            /\ mined' = [s \in Surfaces |-> 0]
       ELSE UNCHANGED tableVars
    /\ Return(w)
    /\ UNCHANGED <<corpusVars, boundVars>>

\* A worker is killed, or a statement of its fails.
Fail(w) ==
    /\ pc[w] # "idle"
    /\ Cardinality(gone) + fails < MaxMishaps
    /\ fails' = fails + 1
    /\ Return(w)
    /\ UNCHANGED <<corpusVars, tableVars, together>>

\* Transactions that wait for each other: PostgreSQL fails one of them.
Victim(w) ==
    /\ \E cycle \in SUBSET Workers :
         w \in cycle /\ \A v \in cycle : WaitsFor(v) \cap cycle # {}
    /\ Return(w)
    /\ UNCHANGED <<corpusVars, tableVars, boundVars>>
-----------------------------------------------------------------------------
PageStep(w) ==
    \/ ReadChecksum(w) \/ OpenMine(w) \/ Look(w) \/ ReadPage(w)
    \/ \E p \in Phrases : Count(w, p)
    \/ Claim(w)

EndStep(w) ==
    \/ ReadChecksumAgain(w) \/ Decide(w) \/ Bump(w) \/ Abandon(w)
    \/ PublishRead(w) \/ DropStart(w) \/ DropDone(w) \/ Final(w)

Work(w) == Begin(w) \/ PageStep(w) \/ EndStep(w) \/ Victim(w)

Corpus == \E s \in Surfaces : Grow(s) \/ Leave(s)

Next == Corpus \/ Rank \/ \E w \in Workers : Work(w) \/ Fail(w)

Spec == Init /\ [][Next]_vars

\* The unit wakes again and again, ranks what is stale and goes on working
\* unless it is killed.  Nothing makes the corpus change.
FairSpec == Spec /\ WF_vars(Rank) /\ \A w \in Workers : WF_vars(Work(w))
-----------------------------------------------------------------------------
(***************************************************************************)
(* Properties                                                              *)
(***************************************************************************)

\* "so a second claim of the same page rolls back": whatever workers, failures
\* and changes of the corpus come between, a mine counts no surface twice.
PagesOnce == \A s \in Surfaces : mined[s] <= 1

\* The counts of a mine that was started again are those of the surfaces it
\* has read since: nothing that a page of the abandoned mine has added, or was
\* adding when it was abandoned, stays in them.
RestartedCountsRight ==
    mine.open /\ mine.gen > 1
    => \A p \in Phrases : counts[p] = Tally({s \in Surfaces : mined[s] = 1}, p)

\* A surface came and went: the checksum is again what it was.
Fleeting == gone \cap (Surfaces \ Initial) # {}

\* Every phrase that is frequent enough has the count the corpus gives it.
PublishedRight ==
    stamp = evidence /\ ~mine.open
    => \A p \in Phrases : Tally(evidence, p) >= Min => phrases[p] = Tally(evidence, p)

\* With one worker at a time, killed and followed by others at any point, a
\* stamp that matches the corpus says that every phrase has the count the
\* corpus gives it (a phrase below MIN_SENTENCES keeps the count it had).
AloneIsRight == ~together /\ ~Fleeting => PublishedRight

\* The same without a condition on who works, as finish_or_abandon promises it
\* ("Publishes the mine when its checksum still matches, otherwise drops it"):
\* the stamp is what keeps the unit from mining again.
StampTold == ~Fleeting => PublishedRight

\* The corpus is mined and published in the end, however often it changes
\* while it is mined, and although workers wait for, fail and overtake each
\* other.  The exception are workers that deadlock over the order of their
\* counts for ever, each time before the survivor has gone on.
Stamped ==
    []<><<\E w \in Workers : Victim(w)>>_vars \/ <>[](stamp = evidence)
=============================================================================
