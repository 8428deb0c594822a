---------------------------- MODULE ReviewLedger ----------------------------
(***************************************************************************)
(* The review ledger of the server (wisecrow-core, srs/reviews.rs) for one *)
(* learner: concurrent requests, each one PostgreSQL transaction at READ   *)
(* COMMITTED that creates missing cards and baselines, locks the cards,    *)
(* checks and inserts the answers and replays the cards they touch.        *)
(*                                                                         *)
(* A request is an upload of a device (upload_reviews), whose answers are  *)
(* first sorted into acceptable and refused ones outside the transaction,  *)
(* or an answer given on the web (answer_card), which goes straight in.    *)
(* The state of a card is a deterministic fold over its answers in the     *)
(* order of (occurred_at, event_id), so the set of answers stands for it.  *)
(***************************************************************************)
EXTENDS Integers, FiniteSets

CONSTANTS
    Cards,        \* translation ids
    Answers,      \* submitted review events
    IdOf,         \* their UUIDs; two answers with one id differ in payload
    CardOf,       \* the card each answer is for
    At,           \* when each answer was given, by the clock of its device
    Requests,
    Plans,        \* the sets of requests that may meet in one behaviour
    Batch,        \* the answers of each request
    Web,          \* the requests that are answers given on the web
    Devices,
    DeviceOf,     \* the device that sends a request that is not Web
    Legacies,     \* which cards may have had a schedule when migration 022 ran, ...
    Migrated,     \* ... and the time of that migration
    Now,          \* the server's clock, which stands still
    Ahead         \* how far ahead of it a device's clock may run

ASSUME LedgerAssumption ==
    /\ Cards \subseteq Nat
    /\ CardOf \in [Answers -> Cards]
    /\ At \in [Answers -> Nat \ {0}]
    /\ Batch \in [Requests -> SUBSET Answers]
    /\ Web \subseteq Requests
    /\ Plans \subseteq SUBSET Requests
    /\ DeviceOf \in [Requests \ Web -> Devices]
    /\ Legacies \subseteq SUBSET Cards
    /\ Migrated \in Nat \ {0}
    /\ Now \in Nat \ {0}
    /\ Ahead \in Nat

VARIABLES
    known,        \* the translations that exist
    rows,         \* the cards that exist
    baseline,     \* captured_at of each card's baseline, 0 if it has none
    ledger,       \* committed review events
    schedule,     \* for each card, the answers its state accounts for
    revoked,      \* revoked devices
    pruning,      \* translations locked by an uncommitted delete
    pc,           \* where each request is
    todo,         \* the cards its current statement has still to visit
    refused,      \* the answers refused before its transaction
    tx,           \* what its transaction has written and locked
    reply         \* what it answered about each of its answers

requestVars == <<pc, todo, refused, tx, reply>>
tableVars == <<known, rows, baseline, ledger, schedule>>
vars == <<known, rows, baseline, ledger, schedule, revoked, pruning,
          pc, todo, refused, tx, reply>>

NothingWritten ==
    [rows |-> {}, baseline |-> [c \in Cards |-> 0], locked |-> {},
     answers |-> {}, schedule |-> [c \in Cards |-> {}]]

Status == {"none", "rejected", "applied", "already"}
NoReply == [a \in Answers |-> "none"]

TypeOK ==
    /\ known \subseteq Cards
    /\ rows \subseteq Cards
    /\ baseline \in [Cards -> Nat]
    /\ ledger \subseteq Answers
    /\ schedule \in [Cards -> SUBSET Answers]
    /\ revoked \subseteq Devices
    /\ pruning \subseteq Cards
    /\ pc \in [Requests -> {"absent", "idle", "checked", "cards", "baselines", "locks", "answers",
                            "replay", "commit", "done", "failed"}]
    /\ todo \in [Requests -> SUBSET Cards]
    /\ refused \in [Requests -> SUBSET Answers]
    /\ tx \in [Requests -> [rows : SUBSET Cards, baseline : [Cards -> Nat],
                            locked : SUBSET Cards, answers : SUBSET Answers,
                            schedule : [Cards -> SUBSET Answers]]]
    /\ reply \in [Requests -> [Answers -> Status]]

\* A card may exist before its first answer, without a baseline.
Init ==
    /\ known = Cards
    /\ \E legacy \in Legacies :
          /\ rows \in {R \in SUBSET Cards : legacy \subseteq R}
          /\ baseline = [c \in Cards |-> IF c \in legacy THEN Migrated ELSE 0]
    /\ ledger = {}
    /\ schedule = [c \in Cards |-> {}]
    /\ revoked = {}
    /\ pruning = {}
    /\ \E plan \in Plans : pc = [r \in Requests |-> IF r \in plan THEN "idle" ELSE "absent"]
    /\ todo = [r \in Requests |-> {}]
    /\ refused = [r \in Requests |-> {}]
    /\ tx = [r \in Requests |-> NothingWritten]
    /\ reply = [r \in Requests |-> NoReply]
-----------------------------------------------------------------------------
InTransaction(r) ==
    pc[r] \in {"cards", "baselines", "locks", "answers", "replay", "commit"}

Others(r) == {q \in Requests \ {r} : InTransaction(q)}

Valid(r) == Batch[r] \ refused[r]
Affected(r) == {CardOf[a] : a \in Valid(r)}
For(c, answers) == {a \in answers : CardOf[a] = c}

\* Mutant of NextCard: the cards are visited in the order of the answers.
InOrderOfAnswers(r) ==
    CardOf[CHOOSE a \in Valid(r) :
             /\ CardOf[a] \in todo[r]
             /\ \A b \in Valid(r) : CardOf[b] \in todo[r] => At[a] <= At[b]]

\* affected_translation_ids is sorted, and every statement visits in that order.
NextCard(r) == CHOOSE c \in todo[r] : \A d \in todo[r] : c <= d

\* The statement has visited card c; after the last one the next begins.
Visited(r, c, next) ==
    /\ pc' = [pc EXCEPT ![r] = IF todo[r] = {c} THEN next ELSE @]
    /\ todo' = [todo EXCEPT ![r] = IF todo[r] = {c} THEN Affected(r) ELSE @ \ {c}]

\* The transaction is rolled back and the request ends with an error.
Fail(r) ==
    /\ pc' = [pc EXCEPT ![r] = "failed"]
    /\ todo' = [todo EXCEPT ![r] = {}]
    /\ tx' = [tx EXCEPT ![r] = NothingWritten]
    /\ UNCHANGED <<tableVars, revoked, pruning, refused, reply>>

\* review_rejection_reason, over what is committed when the request arrives.
Refusable(a) ==
    \/ At[a] > Now + Ahead
    \/ CardOf[a] \notin known
    \/ baseline[CardOf[a]] # 0 /\ At[a] < baseline[CardOf[a]]

\* A request arrives.  That a device is active is asked here and again when
\* the transaction begins; a web answer enters its transaction directly.
Receive(r) ==
    /\ pc[r] = "idle"
    /\ IF r \notin Web /\ DeviceOf[r] \in revoked
       THEN Fail(r)
       ELSE /\ pc' = [pc EXCEPT ![r] = "checked"]
            /\ refused' = [refused EXCEPT ![r] =
                             IF r \in Web THEN {} ELSE {a \in Batch[r] : Refusable(a)}]
            /\ UNCHANGED <<tableVars, revoked, pruning, todo, tx, reply>>

\* Mutant of Rejected: the reason stands where the status belongs.
RejectedForReason(r) ==
    [a \in Answers |-> IF a \in refused[r] THEN "predates" ELSE "none"]

Rejected(r) == [a \in Answers |-> IF a \in refused[r] THEN "rejected" ELSE "none"]

\* validate_batch, validate_device and the early return for nothing to do.
BeginTransaction(r) ==
    /\ pc[r] = "checked"
    /\ IF \/ \E a \in Valid(r) : At[a] > Now + Ahead
          \/ r \notin Web /\ DeviceOf[r] \in revoked
       THEN Fail(r)
       ELSE /\ IF Valid(r) = {}
               THEN /\ pc' = [pc EXCEPT ![r] = "done"]
                    /\ reply' = [reply EXCEPT ![r] = Rejected(r)]
                    /\ UNCHANGED todo
               ELSE /\ pc' = [pc EXCEPT ![r] = "cards"]
                    /\ todo' = [todo EXCEPT ![r] = Affected(r)]
                    /\ UNCHANGED reply
            /\ UNCHANGED <<tableVars, revoked, pruning, refused, tx>>

\* ensure_cards: INSERT .. ON CONFLICT DO NOTHING waits for an uncommitted
\* insert of the same row, and for a delete of the translation it refers to.
EnsureCard(r) ==
    /\ pc[r] = "cards"
    /\ LET c == NextCard(r) IN
        /\ \A q \in Others(r) : c \notin tx[q].rows
        /\ IF c \in known \ rows
           THEN c \notin pruning /\ tx' = [tx EXCEPT ![r].rows = @ \cup {c}]
           ELSE UNCHANGED tx
        /\ Visited(r, c, "baselines")
    /\ UNCHANGED <<tableVars, revoked, pruning, refused, reply>>

Earliest(r) == CHOOSE t \in {At[a] : a \in Valid(r)} : \A a \in Valid(r) : t <= At[a]

\* A card never answered starts at the earliest answer of the batch.  A card
\* that had a schedule before the ledger has its baseline already.
CapturedAt(r, c) ==
    IF schedule[c] = {} /\ Earliest(r) < Now THEN Earliest(r) ELSE Now

\* ensure_baselines, with the same waits.
EnsureBaseline(r) ==
    /\ pc[r] = "baselines"
    /\ LET c == NextCard(r) IN
        /\ \A q \in Others(r) : tx[q].baseline[c] = 0
        /\ IF c \in rows \cup tx[r].rows /\ baseline[c] = 0
           THEN /\ c \notin pruning
                /\ tx' = [tx EXCEPT ![r].baseline[c] = CapturedAt(r, c)]
           ELSE UNCHANGED tx
        /\ Visited(r, c, "locks")
    /\ UNCHANGED <<tableVars, revoked, pruning, refused, reply>>

\* Mutant of LockCard: the rows are read, not locked (no FOR UPDATE).
ReadCard(r) ==
    /\ pc[r] = "locks"
    /\ LET c == NextCard(r) IN
        /\ IF c \in rows \cup tx[r].rows
           THEN tx' = [tx EXCEPT ![r].locked = @ \cup {c}]
           ELSE UNCHANGED tx
        /\ Visited(r, c, "answers")
    /\ UNCHANGED <<tableVars, revoked, pruning, refused, reply>>

\* lock_cards: SELECT .. ORDER BY translation_id FOR UPDATE, row by row.
LockCard(r) ==
    /\ pc[r] = "locks"
    /\ LET c == NextCard(r) IN
        /\ \A q \in Others(r) : c \notin tx[q].locked
        /\ IF c \in rows \cup tx[r].rows
           THEN tx' = [tx EXCEPT ![r].locked = @ \cup {c}]
           ELSE UNCHANGED tx
        /\ Visited(r, c, "answers")
    /\ UNCHANGED <<tableVars, revoked, pruning, refused, reply>>

\* The baseline as the transaction sees it: its own or the committed one.
BaselineOf(r, c) == IF tx[r].baseline[c] # 0 THEN tx[r].baseline[c] ELSE baseline[c]

\* Mutant of BeforeBaseline: the timestamps are not checked under the lock.
NeverBefore(r) == FALSE

\* validate_event_times.
BeforeBaseline(r) == \E a \in Valid(r) : At[a] < BaselineOf(r, CardOf[a])

New(r) == {a \in Valid(r) : \A b \in ledger : IdOf[b] # IdOf[a]}

\* compare_existing_event: the id is taken by an answer with another payload.
Collision(r) ==
    \E a \in Valid(r), b \in ledger \cup Valid(r) : IdOf[a] = IdOf[b] /\ a # b

\* A row was locked for every card and has a baseline, the times are right
\* and no id is taken: the answers that are not in the ledger are inserted.
\* The insert waits for an uncommitted answer with the same id and for a
\* delete of the translation.
InsertAnswers(r) ==
    /\ pc[r] = "answers"
    /\ IF \/ tx[r].locked # Affected(r)
          \/ \E c \in Affected(r) : BaselineOf(r, c) = 0
          \/ BeforeBaseline(r)
       THEN Fail(r)
       ELSE /\ \A q \in Others(r) : \A a \in Valid(r), b \in tx[q].answers : IdOf[a] # IdOf[b]
            /\ Affected(r) \cap pruning = {}
            /\ IF Collision(r)
               THEN Fail(r)
               ELSE /\ tx' = [tx EXCEPT ![r].answers = New(r)]
                    /\ pc' = [pc EXCEPT ![r] = "replay"]
                    /\ todo' = [todo EXCEPT ![r] = {}]
                    /\ UNCHANGED <<tableVars, revoked, pruning, refused, reply>>

\* load_review_events of one card, from the baseline on.
Replayed(r, c) ==
    {a \in For(c, ledger \cup tx[r].answers) : At[a] >= BaselineOf(r, c)}

Outcome(r) ==
    [a \in Answers |->
        CASE a \in refused[r]    -> "rejected"
          [] a \in tx[r].answers -> "applied"
          [] a \in Valid(r)      -> "already"
          [] OTHER               -> "none"]

\* Mutant of Replay: the answer goes out before the commit.
ReplyBeforeCommit(r) ==
    /\ pc[r] = "replay"
    /\ pc' = [pc EXCEPT ![r] = "commit"]
    /\ tx' = [tx EXCEPT ![r].schedule = [c \in Cards |->
                IF For(c, tx[r].answers) # {} THEN Replayed(r, c) ELSE {}]]
    /\ reply' = [reply EXCEPT ![r] = Outcome(r)]
    /\ UNCHANGED <<tableVars, revoked, pruning, todo, refused>>

\* reconcile_cards: each card with a new answer is replayed and stored.
Replay(r) ==
    /\ pc[r] = "replay"
    /\ pc' = [pc EXCEPT ![r] = "commit"]
    /\ tx' = [tx EXCEPT ![r].schedule = [c \in Cards |->
                IF For(c, tx[r].answers) # {} THEN Replayed(r, c) ELSE {}]]
    /\ UNCHANGED <<tableVars, revoked, pruning, todo, refused, reply>>

Commit(r) ==
    /\ pc[r] = "commit"
    /\ pc' = [pc EXCEPT ![r] = "done"]
    /\ rows' = rows \cup tx[r].rows
    /\ baseline' = [c \in Cards |-> BaselineOf(r, c)]
    /\ ledger' = ledger \cup tx[r].answers
    /\ schedule' = [c \in Cards |->
                      IF For(c, tx[r].answers) # {} THEN tx[r].schedule[c] ELSE schedule[c]]
    /\ reply' = [reply EXCEPT ![r] = Outcome(r)]
    /\ tx' = [tx EXCEPT ![r] = NothingWritten]
    /\ UNCHANGED <<known, revoked, pruning, todo, refused>>

\* The connection breaks, the server stops, or the deadlock detector picks
\* this transaction: PostgreSQL rolls it back.
Abort(r) == InTransaction(r) /\ Fail(r)
-----------------------------------------------------------------------------
(***************************************************************************)
(* The rest of the server.                                                 *)
(***************************************************************************)

\* Deletes a translation (pruning.rs).  The row lock waits for transactions
\* that inserted rows referring to it; then the delete cascades.
PruneLock(c) ==
    /\ pruning = {}
    /\ c \in known
    /\ \A r \in Requests :
        /\ c \notin tx[r].rows
        /\ tx[r].baseline[c] = 0
        /\ For(c, tx[r].answers) = {}
    /\ pruning' = {c}
    /\ UNCHANGED <<tableVars, revoked, requestVars>>

\* The cascade removes the card when nobody holds its lock, and all it owns.
PruneDelete(c) ==
    /\ c \in pruning
    /\ \A r \in Requests : c \notin tx[r].locked
    /\ pruning' = {}
    /\ known' = known \ {c}
    /\ rows' = rows \ {c}
    /\ baseline' = [baseline EXCEPT ![c] = 0]
    /\ ledger' = ledger \ For(c, ledger)
    /\ schedule' = [schedule EXCEPT ![c] = {}]
    /\ UNCHANGED <<revoked, requestVars>>

PruneRollback ==
    /\ pruning # {}
    /\ pruning' = {}
    /\ UNCHANGED <<tableVars, revoked, requestVars>>

\* A revocation that no request can meet any more is left out.
Revoke(d) ==
    /\ d \notin revoked
    /\ \E r \in Requests \ Web : DeviceOf[r] = d /\ pc[r] \in {"idle", "checked"}
    /\ revoked' = revoked \cup {d}
    /\ UNCHANGED <<tableVars, pruning, requestVars>>

Serve(r) ==
    \/ Receive(r)
    \/ BeginTransaction(r)
    \/ EnsureCard(r)
    \/ EnsureBaseline(r)
    \/ LockCard(r)
    \/ InsertAnswers(r)
    \/ Replay(r)
    \/ Commit(r)

Next ==
    \/ \E r \in Requests : Serve(r) \/ Abort(r)
    \/ \E c \in Cards : PruneLock(c) \/ PruneDelete(c)
    \/ PruneRollback
    \/ \E d \in Devices : Revoke(d)

Spec == Init /\ [][Next]_vars
-----------------------------------------------------------------------------
(***************************************************************************)
(* Properties                                                              *)
(***************************************************************************)

\* The ledger and the cards implement the abstract store: answers become
\* visible in whole groups, and at no moment does a card's schedule disagree
\* with the answers in the ledger, whatever requests run side by side.
Store == INSTANCE ReviewStore WITH accepted <- ledger
Implements == Store!Spec

\* What a request was told stays true: the device forgets an answer reported
\* as applied, already applied or rejected and never sends it again.  Only
\* deleting the translation takes an answer out of the ledger.
RepliesStayTrue ==
    \A r \in Requests, a \in Answers :
        /\ reply[r][a] = "rejected" => a \notin ledger
        /\ reply[r][a] \in {"applied", "already"} => a \in ledger \/ CardOf[a] \notin known

\* The pruner and request r wait for each other: r holds a card whose
\* translation is being deleted and needs that translation to insert.
PrunerDeadlock(r) ==
    pc[r] = "answers" /\ Affected(r) \cap pruning \cap tx[r].locked # {}

\* Requests are served, lock waiters in the order they queued (so a request
\* whose lock is free again and again gets it), an uncommitted delete ends,
\* and PostgreSQL breaks a deadlock with the pruner.
Fairness ==
    /\ \A r \in Requests : SF_vars(Serve(r)) /\ WF_vars(PrunerDeadlock(r) /\ Abort(r))
    /\ \A c \in Cards : WF_vars(PruneDelete(c))

FairSpec == Spec /\ Fairness

\* Every request that arrived is answered in the end, with or without an error:
\* requests never wait for each other in a circle, because every statement visits
\* the cards in the same order (affected_translation_ids).
Answered == \A r \in Requests : pc[r] = "checked" ~> pc[r] \in {"done", "failed"}
=============================================================================
