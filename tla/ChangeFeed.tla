----------------------------- MODULE ChangeFeed -----------------------------
(***************************************************************************)
(* The change feeds of the server (card_changes and corpus_changes) and    *)
(* the devices that follow them.                                           *)
(*                                                                         *)
(* A trigger on the mirrored table records one feed row per row change.    *)
(* The feed row takes its number from a sequence when it is inserted and   *)
(* carries the id of the writing PostgreSQL transaction.  A device asks    *)
(* for the rows above its cursor; the server answers in two statements,    *)
(* first the watermark, then the page, and both filter by the transaction  *)
(* id (VISIBLE in mobile_sync.rs).                                         *)
(*                                                                         *)
(* A stream is what one request reads: one learner's cards, or one         *)
(* language pair.  The streams of a feed share one sequence.  Here the two *)
(* feeds share one as well: numbers are only compared within a stream, so  *)
(* a feed with its own sequence is one whose numbers have other gaps.      *)
(***************************************************************************)
EXTENDS Integers, FiniteSets

CONSTANTS
    Streams,      \* learners (card feed) and language pairs (corpus feed)
    Joined,       \* the streams of the card feed, whose rows are joined to
                  \* the live card; corpus feed rows carry their own values
    Keys,         \* the mirrored rows
    StreamOf,     \* the stream each key belongs to
    Txns,         \* write transactions, each used at most once
    None,         \* the value of a key with no row
    MaxSeq,       \* bound on the sequence numbers drawn
    PageLimit     \* rows per page

ASSUME FeedAssumption ==
    /\ Joined \subseteq Streams
    /\ StreamOf \in [Keys -> Streams]
    /\ None \notin Txns
    /\ MaxSeq \in Nat
    /\ PageLimit \in Nat \ {0}

VARIABLES
    status,       \* state of each write transaction
    xid,          \* its transaction id, 0 before it has one
    nextXid,      \* the next transaction id
    nextSeq,      \* the next number of the feed's sequence
    feed,         \* feed rows written and not rolled back
    table,        \* the committed value of each key
    cursor,       \* per stream, the cursor the device has stored
    copy,         \* the device's value of each key
    call          \* per stream, the request in progress

writerVars == <<status, xid, nextXid, nextSeq, feed, table>>
readerVars == <<cursor, copy, call>>
vars == <<status, xid, nextXid, nextSeq, feed, table, cursor, copy, call>>

Seqs == 1 .. MaxSeq
Cursors == 0 .. MaxSeq
Values == Txns \cup {None}
Row == [seq : Seqs, txn : Txns, key : Keys, val : Values]
Entry == [seq : Seqs, key : Keys, val : Values]

NoCall == [step |-> "idle"]
Asked == [step : {"asked"}, watermark : Cursors]
Answered == [step : {"answered"}, watermark : Cursors, page : SUBSET Entry,
             next : Cursors, more : BOOLEAN]
Calls == {NoCall} \cup Asked \cup Answered

TypeOK ==
    /\ status \in [Txns -> {"idle", "open", "committed", "aborted"}]
    /\ xid \in [Txns -> Nat]
    /\ nextXid \in Nat \ {0}
    /\ nextSeq \in Nat \ {0}
    /\ feed \subseteq Row
    /\ table \in [Keys -> Values]
    /\ cursor \in [Streams -> Cursors]
    /\ copy \in [Keys -> Values]
    /\ call \in [Streams -> Calls]

Init ==
    /\ status = [t \in Txns |-> "idle"]
    /\ xid = [t \in Txns |-> 0]
    /\ nextXid = 1
    /\ nextSeq = 1
    /\ feed = {}
    /\ table = [k \in Keys |-> None]
    /\ cursor = [s \in Streams |-> 0]
    /\ copy = [k \in Keys |-> None]
    /\ call = [s \in Streams |-> NoCall]
-----------------------------------------------------------------------------
(***************************************************************************)
(* Writers: PostgreSQL transactions on the mirrored table.                 *)
(***************************************************************************)

\* A transaction takes its id at its first write, to any table.
Begin(t) ==
    /\ status[t] = "idle"
    /\ status' = [status EXCEPT ![t] = "open"]
    /\ xid' = [xid EXCEPT ![t] = nextXid]
    /\ nextXid' = nextXid + 1
    /\ UNCHANGED <<nextSeq, feed, table, readerVars>>

RowsOf(t, k) == {r \in feed : r.txn = t /\ r.key = k}

\* What transaction t reads in row k: its own last write, else what is committed.
Reads(t, k) ==
    IF RowsOf(t, k) = {}
    THEN table[k]
    ELSE (CHOOSE r \in RowsOf(t, k) : \A q \in RowsOf(t, k) : q.seq <= r.seq).val

\* The row lock: nobody else has an uncommitted write of k.
Unlocked(t, k) ==
    \A r \in feed : r.key = k /\ r.txn # t => status[r.txn] # "open"

\* An insert or update (v = t) or a delete (v = None) of row k.  The trigger
\* draws the sequence number at once; the transaction id was drawn earlier.
Write(t, k, v) ==
    /\ status[t] = "open"
    /\ nextSeq <= MaxSeq
    /\ Unlocked(t, k)
    /\ v = None => Reads(t, k) # None
    /\ feed' = feed \cup {[seq |-> nextSeq, txn |-> t, key |-> k, val |-> v]}
    /\ nextSeq' = nextSeq + 1
    /\ UNCHANGED <<status, xid, nextXid, table, readerVars>>

Commit(t) ==
    /\ status[t] = "open"
    /\ status' = [status EXCEPT ![t] = "committed"]
    /\ table' = [k \in Keys |-> Reads(t, k)]
    /\ UNCHANGED <<xid, nextXid, nextSeq, feed, readerVars>>

\* The numbers a rolled-back transaction drew are never used again.
Abort(t) ==
    /\ status[t] = "open"
    /\ status' = [status EXCEPT ![t] = "aborted"]
    /\ feed' = {r \in feed : r.txn # t}
    /\ UNCHANGED <<xid, nextXid, nextSeq, table, readerVars>>
-----------------------------------------------------------------------------
(***************************************************************************)
(* The server's side of a request.                                         *)
(***************************************************************************)

\* Mutant of Visible: committed is enough, the guard on the id is dropped.
CommittedOnly(r) == status[r.txn] = "committed"

\* VISIBLE: the row is committed and its transaction id is below
\* pg_snapshot_xmin, the oldest id still in flight.
Visible(r) ==
    /\ status[r.txn] = "committed"
    /\ \A t \in Txns : status[t] = "open" => xid[r.txn] < xid[t]

\* Mutant of Served: an inner join to the live row, which drops tombstones.
ServedIfLive(s) == {r \in feed : StreamOf[r.key] = s /\ Visible(r) /\ table[r.key] # None}

Served(s) == {r \in feed : StreamOf[r.key] = s /\ Visible(r)}

\* COALESCE(MAX(sequence), 0) over the visible rows of the stream.
IsWatermark(s, w) ==
    /\ w = 0 \/ \E r \in Served(s) : r.seq = w
    /\ \A r \in Served(s) : r.seq <= w

\* First statement.  A cursor above the watermark is refused with status 400,
\* and the request changes nothing.
Ask(s) ==
    /\ call[s] = NoCall
    /\ \E w \in Cursors :
        /\ IsWatermark(s, w)
        /\ cursor[s] <= w
        /\ call' = [call EXCEPT ![s] = [step |-> "asked", watermark |-> w]]
    /\ UNCHANGED <<writerVars, cursor, copy>>

\* Mutants of Due: one row short of the cursor; and no upper bound.
DueSkipsOne(s, w) == {r \in Served(s) : cursor[s] + 1 < r.seq /\ r.seq <= w}
DueUnbounded(s, w) == {r \in Served(s) : cursor[s] < r.seq}

Due(s, w) == {r \in Served(s) : cursor[s] < r.seq /\ r.seq <= w}

\* The card feed lists the last row of each key only (DISTINCT ON).
Listed(s, rows) ==
    IF s \in Joined
    THEN {r \in rows : \A q \in rows : q.key = r.key => q.seq <= r.seq}
    ELSE rows

\* Mutant of FirstPage: one row less than the limit.
ShortPage(rows) ==
    {r \in rows : Cardinality({q \in rows : q.seq <= r.seq}) < PageLimit}

FirstPage(rows) ==
    {r \in rows : Cardinality({q \in rows : q.seq <= r.seq}) <= PageLimit}

\* Mutant of EntryOf: the sequence column is read into the value.
EntryWrongColumn(r) == [seq |-> r.seq, key |-> r.key, val |-> r.seq]

\* The card feed joins each row to the card as it now is.
EntryOf(r) ==
    [seq |-> r.seq, key |-> r.key,
     val |-> IF StreamOf[r.key] \in Joined THEN table[r.key] ELSE r.val]

IsNext(s, page, n) ==
    IF page = {}
    THEN n = cursor[s]
    ELSE (\E r \in page : r.seq = n) /\ (\A r \in page : r.seq <= n)

\* Second statement, with its own snapshot.
Answer(s) ==
    /\ call[s].step = "asked"
    /\ LET listed == Listed(s, Due(s, call[s].watermark))
           page == FirstPage(listed)
       IN \E n \in Cursors :
            /\ IsNext(s, page, n)
            /\ call' = [call EXCEPT ![s] =
                          [step |-> "answered", watermark |-> call[s].watermark,
                           page |-> {EntryOf(r) : r \in page}, next |-> n,
                           more |-> page # listed]]
    /\ UNCHANGED <<writerVars, cursor, copy>>
-----------------------------------------------------------------------------
(***************************************************************************)
(* The device's side.                                                      *)
(***************************************************************************)

\* validate_*_envelope.
WellFormed(reply) ==
    /\ reply.next <= reply.watermark
    /\ ~reply.more => reply.next = reply.watermark

\* validate_*_progress.
Progress(s, reply) ==
    /\ cursor[s] <= reply.next
    /\ reply.more => reply.next # cursor[s]
    /\ \A e \in reply.page : cursor[s] < e.seq /\ e.seq <= reply.next
    /\ reply.page # {} => \E e \in reply.page : e.seq = reply.next

\* A page that ends where the device already is returns before the second test.
Acceptable(s, reply) ==
    /\ WellFormed(reply)
    /\ reply.next = cursor[s] \/ Progress(s, reply)

EntriesOf(page, k) == {e \in page : e.key = k}

\* The page is applied in order, so the last entry of a key wins.
Applied(page, k) ==
    IF EntriesOf(page, k) = {}
    THEN copy[k]
    ELSE (CHOOSE e \in EntriesOf(page, k) :
            \A f \in EntriesOf(page, k) : f.seq <= e.seq).val

\* One local transaction: the entries and the cursor, or, when the page is
\* not acceptable, neither.
Apply(s) ==
    /\ call[s].step = "answered"
    /\ IF Acceptable(s, call[s])
       THEN /\ copy' = IF call[s].next = cursor[s]
                       THEN copy
                       ELSE [k \in Keys |-> Applied(call[s].page, k)]
            /\ cursor' = [cursor EXCEPT ![s] = call[s].next]
       ELSE UNCHANGED <<copy, cursor>>
    /\ call' = [call EXCEPT ![s] = NoCall]
    /\ UNCHANGED writerVars

\* The reply is lost, or the sync is cancelled or killed before it is applied.
Drop(s) ==
    /\ call[s] # NoCall
    /\ call' = [call EXCEPT ![s] = NoCall]
    /\ UNCHANGED <<writerVars, cursor, copy>>
-----------------------------------------------------------------------------
Writer ==
    \E t \in Txns :
        \/ Begin(t)
        \/ \E k \in Keys, v \in {t, None} : Write(t, k, v)
        \/ Commit(t)
        \/ Abort(t)

Reader == \E s \in Streams : Ask(s) \/ Answer(s) \/ Apply(s) \/ Drop(s)

Next == Writer \/ Reader

Spec == Init /\ [][Next]_vars
-----------------------------------------------------------------------------
(***************************************************************************)
(* Properties                                                              *)
(***************************************************************************)

\* A cursor the server has handed out is never refused as "ahead of the
\* server watermark" (validate_cursor_watermark): what was visible to one
\* statement is visible to every later one, whoever commits or aborts.
CursorAnswered ==
    \A s \in Streams :
        \E w \in Cursors : IsWatermark(s, w) /\ cursor[s] <= w

\* The device's validators accept every reply, although the server computes
\* the watermark and the page in two statements with commits in between: in
\* particular a last page always ends at the watermark.  Every page but the
\* last moves the cursor, without which the device would ask for it forever.
ReplyAccepted ==
    \A s \in Streams : call[s].step = "answered" =>
        /\ Acceptable(s, call[s])
        /\ call[s].more => cursor[s] < call[s].next

NothingBeneathIn(s) ==
    \A r \in feed : StreamOf[r.key] = s /\ status[r.txn] = "open" => cursor[s] < r.seq

\* What migration 031 promises: a sequence number is handed out only once
\* nothing can still appear beneath it.
NothingBeneath == \A s \in Streams : NothingBeneathIn(s)

\* The rows of a stream have their numbers in the order of their writers' ids.
InIdOrder(s) ==
    \A r, q \in feed :
        /\ StreamOf[r.key] = s
        /\ StreamOf[q.key] = s
        /\ r.seq < q.seq
        => xid[r.txn] <= xid[q.txn]

\* Where that is so the promise is kept: VISIBLE holds a number back for as
\* long as a lower one may still be committed.
PromiseKept == \A s \in Streams : InIdOrder(s) => NothingBeneathIn(s)

ReadToTheEnd(s) ==
    \A r \in feed : StreamOf[r.key] = s => status[r.txn] = "committed" /\ r.seq <= cursor[s]

\* Then a device that has read its stream to the end holds the server's
\* table: no change was skipped, applied in the wrong order or undone by a
\* page, although the card feed shows only the last row of each card and the
\* card as it is by then.
Converged ==
    \A s \in Streams : InIdOrder(s) /\ ReadToTheEnd(s) =>
        \A k \in Keys : StreamOf[k] = s => copy[k] = table[k]

\* Every transaction ends, and a device keeps asking and is answered; a reply
\* that is lost again and again is applied in the end.
Fairness ==
    /\ \A t \in Txns : WF_vars(Commit(t) \/ Abort(t))
    /\ \A s \in Streams : /\ WF_vars(Ask(s))
                          /\ SF_vars(Answer(s))
                          /\ SF_vars(Apply(s))

FairSpec == Spec /\ Fairness

\* Then every device also ends up with the server's value of every key.
Delivered ==
    \A k \in Keys : []InIdOrder(StreamOf[k]) => <>[](copy[k] = table[k])
=============================================================================
