----------------------------- MODULE CorpusSync -----------------------------
(***************************************************************************)
(* A device downloads the corpus of its language pairs and then follows    *)
(* their changes.  A snapshot is read from the live table, one page per    *)
(* request and over any number of sync runs; it is finished by applying    *)
(* the feed from the watermark that was current before its first page.     *)
(*                                                                         *)
(* The feed is the abstract one that ChangeFeed promises where PromiseKept *)
(* applies: a change is visible when it is made.  A value is the number of *)
(* the change that wrote it, so values never repeat.  A run walks the      *)
(* phases the store remembers; of those only the two that touch the corpus *)
(* are told apart.  begin_snapshot is called between runs.                 *)
(***************************************************************************)
EXTENDS Integers, Sequences, FiniteSets

CONSTANTS
    Pairs,         \* language pairs, in the order sync_pairs lists them
    Ids,           \* translation ids
    PairOf,        \* the pair of each translation
    Existing,      \* translations written before the feed existed
    PageLimit,     \* rows per page
    MaxChanges,    \* bound on the changes to the corpus
    MaxDownloads   \* bound on the downloads that are begun

ASSUME CorpusAssumption ==
    /\ Pairs \subseteq Nat
    /\ Ids \subseteq Nat \ {0}
    /\ IsFiniteSet(Ids)
    /\ PairOf \in [Ids -> Pairs]
    /\ Existing \subseteq Ids
    /\ PageLimit \in Nat \ {0}
    /\ MaxChanges \in Nat
    /\ MaxDownloads \in Nat

VARIABLES
    table,      \* server: the value of each translation
    feed,       \* server: the changes, in the order of their numbers
    local,      \* device: its copy of each translation
    pair,       \* device: how far each pair has come
    downloads,  \* device: how many downloads were begun
    phase,      \* device: the phase the sync has reached
    step,       \* run: where it is within the phase
    todo,       \* run: the pairs it has still to serve in this phase
    page        \* run: the reply in its hands

serverVars == <<table, feed>>
deviceVars == <<local, pair, downloads, phase>>
runVars == <<step, todo, page>>
vars == <<table, feed, local, pair, downloads, phase, step, todo, page>>

Absent == -1
Values == Nat \cup {Absent}

Change == [id : Ids, value : Values]

\* PairCheckpoint.
Checkpoint == [status : {"absent", "downloading", "ready"},
               watermark : Nat, after : Nat, cursor : Nat]

\* A row of a page stands at its id in a snapshot, at its number in the feed.
Row == [at : Nat, id : Ids, value : Values]
NoPage == [rows |-> {}, next |-> 0, more |-> FALSE]
Page == [rows : SUBSET Row, next : Nat, more : BOOLEAN]

TypeOK ==
    /\ table \in [Ids -> Values]
    /\ feed \in Seq(Change)
    /\ local \in [Ids -> Values]
    /\ pair \in [Pairs -> Checkpoint]
    /\ downloads \in Nat
    /\ phase \in {"rest", "snapshots", "deltas"}
    /\ step \in {"off", "on", "asked", "answered"}
    /\ todo \subseteq Pairs
    /\ page \in Page

Init ==
    /\ table = [i \in Ids |-> IF i \in Existing THEN 0 ELSE Absent]
    /\ feed = <<>>
    /\ local = [i \in Ids |-> Absent]
    /\ pair = [p \in Pairs |-> [status |-> "absent", watermark |-> 0, after |-> 0, cursor |-> 0]]
    /\ downloads = 0
    /\ phase = "rest"
    /\ step = "off"
    /\ todo = {}
    /\ page = NoPage
-----------------------------------------------------------------------------
(***************************************************************************)
(* The server.                                                             *)
(***************************************************************************)

\* The trigger on translations: a change is recorded with the values it left.
Record(i, value) ==
    /\ Len(feed) < MaxChanges
    /\ table' = [table EXCEPT ![i] = value]
    /\ feed' = Append(feed, [id |-> i, value |-> value])
    /\ UNCHANGED <<deviceVars, runVars>>

\* Ids come from a sequence, so a translation is inserted once.
Insert(i) ==
    /\ i \notin Existing
    /\ \A n \in 1..Len(feed) : feed[n].id # i
    /\ Record(i, Len(feed) + 1)

Update(i) == table[i] # Absent /\ Record(i, Len(feed) + 1)
Delete(i) == table[i] # Absent /\ Record(i, Absent)

\* snapshot_watermark: over all pairs.
SnapshotWatermark == Len(feed)

NumbersOf(p) == {n \in 1..Len(feed) : PairOf[feed[n].id] = p}

\* corpus_change_watermark: of the pair alone.
ChangeWatermark(p) ==
    CHOOSE w \in NumbersOf(p) \cup {0} : \A n \in NumbersOf(p) : n <= w

\* trim_page: one row more than the limit is read to learn whether there are
\* more.
FirstPage(rows) ==
    {r \in rows : Cardinality({q \in rows : q.at <= r.at}) <= PageLimit}

\* A page ends at its last row, an empty page where the one before it ended.
EndOf(rows, from) ==
    IF rows = {} THEN from
    ELSE LET last == CHOOSE r \in rows : \A q \in rows : q.at <= r.at IN last.at

PageOf(rows, from) ==
    [rows |-> FirstPage(rows), next |-> EndOf(FirstPage(rows), from),
     more |-> FirstPage(rows) # rows]
-----------------------------------------------------------------------------
(***************************************************************************)
(* The device.                                                             *)
(***************************************************************************)

\* begin_snapshot: the pair starts afresh below a watermark that the server
\* has reported.
BeginSnapshot(p) ==
    /\ step = "off"
    /\ downloads < MaxDownloads
    /\ downloads' = downloads + 1
    /\ \E w \in 0..SnapshotWatermark :
         pair' = [pair EXCEPT ![p] = [status |-> "downloading", watermark |-> w,
                                      after |-> 0, cursor |-> 0]]
    /\ local' = [i \in Ids |-> IF PairOf[i] = p THEN Absent ELSE local[i]]
    /\ UNCHANGED <<serverVars, phase, runVars>>

\* sync_pairs, filtered by pull_snapshots and pull_deltas.
PairsOf(ph) ==
    CASE ph = "snapshots" -> {p \in Pairs : pair[p].status = "downloading"}
      [] ph = "deltas"    -> {p \in Pairs : pair[p].status = "ready"}
      [] OTHER            -> {}

\* A run starts in the phase the store holds and reads the pairs it serves.
Start ==
    /\ step = "off"
    /\ step' = "on"
    /\ todo' = PairsOf(phase)
    /\ UNCHANGED <<serverVars, deviceVars, page>>

End ==
    /\ step' = "off"
    /\ todo' = {}
    /\ page' = NoPage

\* Cancelled, killed, a network error or a lost reply.
Stop ==
    /\ step # "off"
    /\ End
    /\ UNCHANGED <<serverVars, deviceVars>>

\* advance_sync_phase is durable at once.  The run goes through all phases and
\* ends with record_sync_success.
Advance ==
    /\ step = "on"
    /\ todo = {}
    /\ \/ /\ phase = "rest"
          /\ phase' = "snapshots"
          /\ todo' = PairsOf("snapshots")
          /\ UNCHANGED step
       \/ /\ phase = "snapshots"
          /\ phase' = "deltas"
          /\ todo' = PairsOf("deltas")
          /\ UNCHANGED step
       \/ /\ phase = "deltas"
          /\ phase' = "rest"
          /\ step' = "off"
          /\ UNCHANGED todo
    /\ UNCHANGED <<serverVars, local, pair, downloads, page>>

\* The pair in hand is the first that is left.
InHand(p) == p \in todo /\ \A q \in todo : p <= q

Ask(p) ==
    /\ step = "on"
    /\ InHand(p)
    /\ step' = "asked"
    /\ UNCHANGED <<serverVars, deviceVars, todo, page>>

\* load_snapshot_rows: the live rows of the pair above the position.
SnapshotRows(p) ==
    {[at |-> i, id |-> i, value |-> table[i]] :
        i \in {j \in Ids : PairOf[j] = p /\ table[j] # Absent /\ j > pair[p].after}}

\* load_corpus_changes.
ChangeRows(p) ==
    {[at |-> n, id |-> feed[n].id, value |-> feed[n].value] :
        n \in {m \in NumbersOf(p) : m > pair[p].cursor}}

Served(reply) ==
    /\ page' = reply
    /\ step' = "answered"
    /\ UNCHANGED todo

\* corpus_snapshot.  A watermark the server has not reached is refused.
AnswerSnapshot(p) ==
    /\ step = "asked" /\ phase = "snapshots" /\ InHand(p)
    /\ IF pair[p].watermark > SnapshotWatermark
       THEN End
       ELSE Served(PageOf(SnapshotRows(p), pair[p].after))
    /\ UNCHANGED <<serverVars, deviceVars>>

\* corpus_changes.  A cursor ahead of the pair's watermark is refused, and the
\* run fails.
AnswerChanges(p) ==
    /\ step = "asked" /\ phase = "deltas" /\ InHand(p)
    /\ IF pair[p].cursor > ChangeWatermark(p)
       THEN End
       ELSE Served(PageOf(ChangeRows(p), pair[p].cursor))
    /\ UNCHANGED <<serverVars, deviceVars>>

\* The rows of a page are applied in their order, so the last one of an id
\* stays.
LocalAfter(i) ==
    IF \E r \in page.rows : r.id = i
    THEN (CHOOSE r \in page.rows :
            r.id = i /\ \A q \in page.rows : q.id = i => q.at <= r.at).value
    ELSE local[i]

\* The run goes on with this pair or with the next one.
Continue(p) ==
    /\ todo' = IF page.more THEN todo ELSE todo \ {p}
    /\ step' = "on"
    /\ page' = NoPage

\* Mutant of Finished: without COALESCE a page in the middle clears the cursor.
FinishedUncoalesced(p) ==
    IF page.more
    THEN [pair[p] EXCEPT !.after = page.next, !.cursor = Absent]
    ELSE [pair[p] EXCEPT !.after = page.next, !.status = "ready", !.cursor = pair[p].watermark]

\* Mutant of Finished: an empty last page is taken for one applied before.
FinishedWithRows(p) ==
    IF page.more \/ page.next = pair[p].after
    THEN [pair[p] EXCEPT !.after = page.next]
    ELSE [pair[p] EXCEPT !.after = page.next, !.status = "ready", !.cursor = pair[p].watermark]

\* Mutant of Finished: the feed is followed from where it is by then.
FinishedNow(p) ==
    IF page.more
    THEN [pair[p] EXCEPT !.after = page.next]
    ELSE [pair[p] EXCEPT !.after = page.next, !.status = "ready",
                         !.cursor = ChangeWatermark(p)]

\* advance_snapshot: the last page makes the pair ready to follow the feed.
Finished(p) ==
    IF page.more
    THEN [pair[p] EXCEPT !.after = page.next]
    ELSE [pair[p] EXCEPT !.after = page.next, !.status = "ready", !.cursor = pair[p].watermark]

\* apply_snapshot_page, one local transaction.  An empty last page finishes
\* the download, too.
ApplySnapshot(p) ==
    /\ step = "answered" /\ phase = "snapshots" /\ InHand(p)
    /\ local' = [i \in Ids |-> LocalAfter(i)]
    /\ pair' = [pair EXCEPT ![p] = Finished(p)]
    /\ Continue(p)
    /\ UNCHANGED <<serverVars, downloads, phase>>

\* apply_change_page, one local transaction.  A page that does not move the
\* cursor changes nothing.
ApplyChanges(p) ==
    /\ step = "answered" /\ phase = "deltas" /\ InHand(p)
    /\ IF page.next = pair[p].cursor
       THEN UNCHANGED <<local, pair>>
       ELSE /\ local' = [i \in Ids |-> LocalAfter(i)]
            /\ pair' = [pair EXCEPT ![p].cursor = page.next]
    /\ Continue(p)
    /\ UNCHANGED <<serverVars, downloads, phase>>
-----------------------------------------------------------------------------
Server == \E i \in Ids : Insert(i) \/ Update(i) \/ Delete(i)

Serve(p) == AnswerSnapshot(p) \/ AnswerChanges(p)
Apply(p) == ApplySnapshot(p) \/ ApplyChanges(p)

Next ==
    \/ Server
    \/ \E p \in Pairs : BeginSnapshot(p)
    \/ Start \/ Stop \/ Advance
    \/ \E p \in Pairs : Ask(p) \/ Serve(p) \/ Apply(p)

Spec == Init /\ [][Next]_vars
-----------------------------------------------------------------------------
(***************************************************************************)
(* Properties                                                              *)
(***************************************************************************)

\* The number up to which the device's copy of a translation is complete: the
\* snapshot's watermark while it is downloaded, the cursor after it.
Base(p) == IF pair[p].status = "ready" THEN pair[p].cursor ELSE pair[p].watermark

Reached(i) ==
    CASE pair[PairOf[i]].status = "ready"       -> TRUE
      [] pair[PairOf[i]].status = "downloading" -> i <= pair[PairOf[i]].after
      [] OTHER                                  -> FALSE

\* The feed changes a translation beyond a position.
Later(i, position) == \E n \in 1..Len(feed) : feed[n].id = i /\ n > position

\* Snapshot pages read at different times and a feed followed from the
\* watermark before them make one consistent copy: whatever the device does
\* not have as the server has it, the feed beyond its position will send
\* again.  Rows deleted, inserted or rewritten between two pages are the hard
\* case.
SnapshotPlusFeed ==
    \A i \in Ids :
        Reached(i) /\ local[i] # table[i] => Later(i, Base(PairOf[i]))

\* Runs keep being started; a step of a run that is possible again and again
\* happens in the end, although any run may be stopped.
Fairness ==
    /\ WF_vars(Start)
    /\ SF_vars(Advance)
    /\ \A p \in Pairs : SF_vars(Ask(p)) /\ SF_vars(Serve(p)) /\ SF_vars(Apply(p))

FairSpec == Spec /\ Fairness

Mirrored(p) ==
    /\ pair[p].status \in {"absent", "ready"}
    /\ pair[p].status = "ready" =>
         \A i \in Ids : PairOf[i] = p => local[i] = table[i]

\* Every pair that is downloaded mirrors the server's corpus in the end.
Followed == \A p \in Pairs : <>[]Mirrored(p)

Refused(p) == pair[p].status = "ready" /\ pair[p].cursor > ChangeWatermark(p)

\* That is so, however often runs are stopped and whatever is written while
\* the pages are read, if in the end no pair stands ahead of its own watermark.
FollowedIfServed == (<>[]~(\E p \in Pairs : Refused(p))) => Followed
=============================================================================
