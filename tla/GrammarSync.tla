---------------------------- MODULE GrammarSync ----------------------------
(***************************************************************************)
(* Grammar on a device.  The learner answers items of a bank the device    *)
(* mirrors; answers wait in an outbox, are uploaded one transaction each,  *)
(* and come back as mastery rows.  Bank and mastery travel over two change *)
(* feeds whose pages name keys only: the server reads a page of keys and   *)
(* then, in another statement, the rows as they are by now (hydration).    *)
(*                                                                         *)
(* A feed shows a change at once, which is what ChangeFeed promises when   *)
(* its PromiseKept applies.  An item's content never changes (migration    *)
(* 029), so an item is its status.  A mastery row is the set of answers it *)
(* was replayed from: the replay sorts them, so the set decides the row.   *)
(* One language and one learner.                                           *)
(***************************************************************************)
EXTENDS Integers, Sequences, FiniteSets

CONSTANTS
    Items,        \* quiz items
    RuleOf,       \* the grammar point of each item
    Rewritable,   \* points whose examples an operator writes again
    Statements,   \* the statements that takes
    Answers,      \* answers given on the device
    WebAnswers,   \* answers given in the browser
    ItemOf,       \* the item of each answer
    At,           \* when it was given
    Failures,     \* bound: answers the database may fail on
    Uploads,      \* requests the server can be serving for the device at once
    BatchLimit,   \* answers per upload
    PageLimit,    \* changes per page
    BankWrites,   \* bound: statements that write the bank
    Plans         \* bound: the answers and uploads a behaviour may have

AllAnswers == Answers \cup WebAnswers
Rules == {RuleOf[i] : i \in Items}
Handlers == Uploads \cup WebAnswers
RuleFor(a) == RuleOf[ItemOf[a]]
Nobody == "nobody"

ASSUME GrammarAssumption ==
    /\ IsFiniteSet(Items) /\ IsFiniteSet(Answers) /\ DOMAIN RuleOf = Items
    /\ Rewritable \subseteq Rules /\ Statements \in Nat
    /\ Answers \cap WebAnswers = {} /\ Uploads \cap WebAnswers = {}
    /\ Nobody \notin Handlers
    /\ ItemOf \in [AllAnswers -> Items] /\ At \in [AllAnswers -> Nat]
    /\ BatchLimit \in Nat \ {0} /\ PageLimit \in Nat \ {0}

VARIABLES
    status,         \* server: the state of each item of the bank
    rewritten,      \* server: how far the examples of a point have been written
    bankFeed,       \* server: the items of quiz_item_changes, by sequence
    recorded,       \* server: grammar_attempts
    baseline,       \* server: where the replay of a point starts, if anywhere
    mastery,        \* server: the answers each mastery row accounts for
    masteryFeed,    \* server: the points of grammar_changes, by sequence
    sessionOpen,    \* server: the device's session has not been completed
    locked,         \* server: the baseline rows locked, and by whom
    job,            \* server: what each request is doing
    given,          \* device: the answers given so far
    outbox,         \* device: the queued_at of each answer, 0 if it is not queued
    held,           \* device: the items it holds
    posed,          \* device: items it has held and may have on the screen
    cell,           \* device: its copy of each mastery row
    cursor,         \* device: its position in both feeds
    followed,       \* device: grammar_sync_state has a row
    backfilled,     \* device: the bank has been pulled again for its examples
    phase,          \* device: the phase the sync has reached
    run,            \* device: what the run is doing, lost when it stops
    plan,           \* bound: who takes part, of Plans
    refused,        \* history: answers a request was told are rejected
    repeated        \* history: keys the last page that named them named twice

bankVars == <<status, rewritten, bankFeed>>
ledgerVars == <<recorded, baseline, mastery, masteryFeed>>
storeVars == <<outbox, held, posed, cell, cursor, followed, backfilled, phase>>
vars == <<bankVars, ledgerVars, sessionOpen, locked, job, given, storeVars,
          run, plan, refused, repeated>>

None == -1
Feeds == {"bank", "mastery"}
Idle == [step |-> "idle", left |-> <<>>, told |-> {}, row |-> {}]
Off == [step |-> "off"]
On == [step |-> "on"]
Pulled == [step |-> "pulled"]

\* A device's copy: the answers the server's row accounted for, and those the
\* device has folded into the colour since.
NoCell == [row |-> {}, folded |-> {}]

TypeOK ==
    /\ status \in [Items -> {"absent", "candidate", "active", "retired", "rejected"}]
    /\ rewritten \in [Rewritable -> 0..Statements]
    /\ bankFeed \in Seq(Items)
    /\ recorded \subseteq AllAnswers
    /\ baseline \in [Rules -> Nat \cup {None}]
    /\ mastery \in [Rules -> SUBSET AllAnswers]
    /\ masteryFeed \in Seq(Rules)
    /\ sessionOpen \in BOOLEAN
    /\ locked \in [Rules -> Handlers \cup {Nobody}]
    /\ job \in [Handlers -> [step : {"idle", "lookup", "adopt", "ensure", "write", "commit",
                                     "reply"},
                             left : Seq(AllAnswers), told : SUBSET AllAnswers,
                             row : SUBSET AllAnswers]]
    /\ given \subseteq AllAnswers
    /\ outbox \in [Answers -> Nat]
    /\ held \subseteq posed
    /\ posed \subseteq Items
    /\ cell \in [Rules -> [row : SUBSET AllAnswers, folded : SUBSET Answers]]
    /\ cursor \in [Feeds -> Nat]
    /\ followed \in BOOLEAN
    /\ backfilled \in BOOLEAN
    /\ phase \in {"grammar_attempts", "grammar_bank", "grammar_mastery", "finishing"}
    /\ run.step \in {"off", "on", "sent", "read", "page", "pulled"}
    /\ plan \in Plans
    /\ refused \subseteq Answers
    /\ repeated \in [Feeds -> SUBSET (Items \cup Rules)]

Init ==
    /\ status = [i \in Items |-> "absent"]
    /\ rewritten = [r \in Rewritable |-> 0]
    /\ bankFeed = <<>>
    /\ recorded = {}
    /\ baseline = [r \in Rules |-> None]
    /\ mastery = [r \in Rules |-> {}]
    /\ masteryFeed = <<>>
    /\ sessionOpen = TRUE
    /\ locked = [r \in Rules |-> Nobody]
    /\ job = [h \in Handlers |-> Idle]
    /\ given = {}
    /\ outbox = [a \in Answers |-> 0]
    /\ held = {}
    /\ posed = {}
    /\ cell = [r \in Rules |-> NoCell]
    /\ cursor = [f \in Feeds |-> 0]
    /\ followed = FALSE
    /\ backfilled = FALSE
    /\ phase = "grammar_attempts"
    /\ run = Off
    /\ plan \in Plans
    /\ refused = {}
    /\ repeated = [f \in Feeds |-> {}]
-----------------------------------------------------------------------------
(***************************************************************************)
(* The bank.  Every write of an item, and every statement that writes      *)
(* examples of its point, is a row of the item feed.                       *)
(***************************************************************************)

\* ItemRepository::insert_candidates: a draft is stored as a candidate, or as
\* rejected when a gate refuses it.
InsertItem(i) ==
    /\ status[i] = "absent"
    /\ \E s \in {"candidate", "rejected"} : status' = [status EXCEPT ![i] = s]
    /\ bankFeed' = Append(bankFeed, i)

\* ItemRepository::promote, reject, retire.
SetStatus(i) ==
    /\ \/ status[i] = "candidate" /\ status' = [status EXCEPT ![i] = "active"]
       \/ status[i] = "candidate" /\ status' = [status EXCEPT ![i] = "rejected"]
       \/ status[i] = "active" /\ status' = [status EXCEPT ![i] = "retired"]
    /\ bankFeed' = Append(bankFeed, i)

Active(r) == {i \in Items : RuleOf[i] = r /\ status[i] = "active"}

\* RuleRepository::upsert_rule, which is no transaction: the examples are
\* deleted in one statement and inserted one by one, and each statement
\* reports every active item of the point once.
WriteExamples(r) ==
    /\ rewritten[r] < Statements
    /\ rewritten' = [rewritten EXCEPT ![r] = @ + 1]
    /\ \E reported \in [1..Cardinality(Active(r)) -> Active(r)] :
         /\ \A i \in Active(r) : \E n \in DOMAIN reported : reported[n] = i
         /\ bankFeed' = bankFeed \o reported

Bank ==
    /\ Len(bankFeed) < BankWrites
    /\ \/ \E i \in Items : (InsertItem(i) \/ SetStatus(i)) /\ UNCHANGED rewritten
       \/ \E r \in Rewritable : WriteExamples(r) /\ UNCHANGED status
    /\ UNCHANGED <<ledgerVars, sessionOpen, locked, job, given, storeVars,
                   run, plan, refused, repeated>>
-----------------------------------------------------------------------------
(***************************************************************************)
(* Recording an answer, one transaction each.                              *)
(***************************************************************************)

Current(h) == Head(job[h].left)

\* The answer at hand has its result, and the request goes on.
Next1(h, told) ==
    LET left == Tail(job[h].left)
    IN job' = [job EXCEPT ![h] =
                 [step |-> IF left = <<>> THEN "reply" ELSE "lookup",
                  left |-> left, told |-> @.told \cup told, row |-> {}]]

At1(h, step) == job[h].step = step
GoTo(h, step) == job' = [job EXCEPT ![h].step = step]

\* The learner answers in the browser: submit, without a lookup.
AnswerOnWeb(w) ==
    /\ job[w] = Idle /\ w \in plan \ given
    /\ status[ItemOf[w]] \in {"active", "retired"}
    /\ given' = given \cup {w}
    /\ job' = [job EXCEPT ![w] = [step |-> "ensure", left |-> <<w>>, told |-> {}, row |-> {}]]
    /\ UNCHANGED <<bankVars, ledgerVars, sessionOpen, locked, storeVars,
                   run, refused, repeated, plan>>

\* apply_attempt: stored_verdict is asked before the transaction.
Lookup(h) ==
    /\ At1(h, "lookup")
    /\ IF Current(h) \in recorded THEN Next1(h, {Current(h)}) ELSE GoTo(h, "adopt")
    /\ UNCHANGED <<bankVars, ledgerVars, sessionOpen, locked, given, storeVars,
                   run, refused, repeated, plan>>

\* adopt, ensure_open and load_item: a completed session refuses the answer.
Adopt(h) ==
    /\ At1(h, "adopt")
    /\ IF sessionOpen
       THEN GoTo(h, "ensure") /\ UNCHANGED refused
       ELSE Next1(h, {Current(h)}) /\ refused' = refused \cup {Current(h)}
    /\ UNCHANGED <<bankVars, ledgerVars, sessionOpen, locked, given, storeVars,
                   run, repeated, plan>>

\* Mutant of EnsureBaseline: the row of the baseline is not locked.
EnsureUnlocked(h) ==
    /\ At1(h, "ensure")
    /\ GoTo(h, "write")
    /\ UNCHANGED <<bankVars, ledgerVars, sessionOpen, locked, given, storeVars,
                   run, refused, repeated, plan>>

\* ensure_baseline: the row is inserted or moved back, and stays locked.
EnsureBaseline(h) ==
    LET r == RuleFor(Current(h))
    IN /\ At1(h, "ensure")
       /\ locked[r] = Nobody
       /\ locked' = [locked EXCEPT ![r] = h]
       /\ GoTo(h, "write")
       /\ UNCHANGED <<bankVars, ledgerVars, sessionOpen, given, storeVars,
                      run, refused, repeated, plan>>

\* The captured_at that ensure_baseline leaves behind.
MovedBack(r, a) ==
    IF baseline[r] = None \/ At[a] < baseline[r] THEN At[a] ELSE baseline[r]

\* load_attempts: what the replay folds in.
Replayed(r, start, answers) ==
    {a \in answers : RuleFor(a) = r /\ At[a] >= start}

\* insert_attempt, replay and persist_projection: what the transaction sees is
\* what is committed, and its own answer.
Replay(h) ==
    LET a == Current(h)
        r == RuleFor(a)
    IN /\ At1(h, "write")
       /\ job' = [job EXCEPT ![h].step = "commit",
                            ![h].row = Replayed(r, MovedBack(r, a), recorded \cup {a})]
       /\ UNCHANGED <<bankVars, ledgerVars, sessionOpen, locked, given, storeVars,
                      run, refused, repeated, plan>>

\* COMMIT.  The trigger reports the mastery row whether or not it has changed.
Committed(h) ==
    LET a == Current(h)
        r == RuleFor(a)
    IN /\ recorded' = recorded \cup {a}
       /\ baseline' = [baseline EXCEPT ![r] = MovedBack(r, a)]
       /\ mastery' = [mastery EXCEPT ![r] = job[h].row]
       /\ masteryFeed' = Append(masteryFeed, r)
       /\ locked' = [locked EXCEPT ![r] = Nobody]

Record(h) ==
    /\ At1(h, "commit")
    /\ Committed(h)
    /\ Next1(h, {Current(h)})
    /\ UNCHANGED <<bankVars, sessionOpen, given, storeVars, run, refused, repeated, plan>>

\* record_attempt turns every error of the database into a rejection: the
\* transaction is rolled back, or its commit succeeds and the answer is lost.
Reject(h) ==
    /\ h \in Uploads
    /\ Cardinality(refused) < Failures
    /\ job[h].step \in {"adopt", "ensure", "write", "commit"}
    /\ \/ /\ locked' = [r \in Rules |-> IF locked[r] = h THEN Nobody ELSE locked[r]]
          /\ UNCHANGED ledgerVars
       \/ At1(h, "commit") /\ Committed(h)
    /\ Next1(h, {Current(h)})
    /\ refused' = refused \cup {Current(h)}
    /\ UNCHANGED <<bankVars, sessionOpen, given, storeVars, run, repeated, plan>>

\* A request that nobody waits for any more ends with its last answer.
Ended(h) ==
    /\ At1(h, "reply")
    /\ ~(run.step = "sent" /\ run.by = h)
    /\ job' = [job EXCEPT ![h] = Idle]
    /\ UNCHANGED <<bankVars, ledgerVars, sessionOpen, locked, given, storeVars,
                   run, refused, repeated, plan>>

\* complete_grammar_session, with the device's session.
CompleteSession ==
    /\ sessionOpen
    /\ sessionOpen' = FALSE
    /\ UNCHANGED <<bankVars, ledgerVars, locked, job, given, storeVars,
                   run, refused, repeated, plan>>
-----------------------------------------------------------------------------
(***************************************************************************)
(* The device.                                                             *)
(***************************************************************************)

Queued == {a \in Answers : outbox[a] # 0}

\* MAX(queued_at) + 1, or 1 in an empty outbox.
NextTicket ==
    IF Queued = {} THEN 1
    ELSE 1 + outbox[CHOOSE a \in Queued : \A b \in Queued : outbox[b] <= outbox[a]]

\* queue_attempt with project_local_mastery: an item the device no longer
\* holds is answered all the same, and colours nothing.
Answer(a) ==
    /\ a \in plan \ given
    /\ ItemOf[a] \in posed
    /\ given' = given \cup {a}
    /\ outbox' = [outbox EXCEPT ![a] = NextTicket]
    /\ cell' = IF ItemOf[a] \in held
               THEN [cell EXCEPT ![RuleFor(a)].folded = @ \cup {a}]
               ELSE cell
    /\ UNCHANGED <<bankVars, ledgerVars, sessionOpen, locked, job, held, posed,
                   cursor, followed, backfilled, phase, run, refused, repeated, plan>>

\* SyncEngine::run resumes at the stored phase.
Start ==
    /\ run = Off
    /\ run' = On
    /\ phase' = IF phase = "finishing" THEN "grammar_attempts" ELSE phase
    /\ UNCHANGED <<bankVars, ledgerVars, sessionOpen, locked, job, given, outbox, held,
                   posed, cell, cursor, followed, backfilled, refused, repeated, plan>>

\* Cancelled, killed, a request refused or a reply lost.
Stop ==
    /\ run # Off /\ phase # "finishing"
    /\ run' = Off
    /\ UNCHANGED <<bankVars, ledgerVars, sessionOpen, locked, job, given, storeVars,
                   refused, repeated, plan>>

\* A run ends when it reaches the last phase; the next one starts again.
AdvanceTo(next) ==
    /\ phase' = next
    /\ run' = IF next = "finishing" THEN Off ELSE On
    /\ UNCHANGED <<bankVars, ledgerVars, sessionOpen, locked, job, given, outbox, held,
                   posed, cell, cursor, followed, backfilled, refused, repeated, plan>>

Advance ==
    \/ phase = "grammar_attempts" /\ run = On /\ Queued = {} /\ AdvanceTo("grammar_bank")
    \/ phase = "grammar_bank" /\ run = Pulled /\ AdvanceTo("grammar_mastery")
    \/ phase = "grammar_mastery" /\ run = Pulled /\ AdvanceTo("finishing")

\* pending_attempts: the first of the outbox, in the order they were queued.
Pending(left) ==
    /\ \A m, n \in DOMAIN left : m < n => outbox[left[m]] < outbox[left[n]]
    /\ \A a \in Queued \ {left[n] : n \in DOMAIN left} :
          Len(left) = BatchLimit /\ \A n \in DOMAIN left : outbox[left[n]] < outbox[a]

\* upload_grammar_attempts, as far as the request.
SendBatch(h) ==
    /\ phase = "grammar_attempts" /\ run = On
    /\ h \in plan /\ job[h] = Idle
    /\ \E size \in 1..BatchLimit : \E left \in [1..size -> Queued] :
          /\ Pending(left)
          /\ job' = [job EXCEPT ![h] = [step |-> "lookup", left |-> left, told |-> {}, row |-> {}]]
    /\ run' = [step |-> "sent", by |-> h]
    /\ UNCHANGED <<bankVars, ledgerVars, sessionOpen, locked, given, storeVars,
                   refused, repeated, plan>>

\* Mutants of Remaining: everything leaves; what was refused stays.
NothingRemaining(h) == {}
RemainingIfRefused(h) == Queued \ (job[h].told \cap recorded)

Remaining(h) == Queued \ job[h].told

\* apply_attempt_response: accepted, duplicate and rejected answers all leave
\* the outbox.
ApplyReply(h) ==
    /\ run.step = "sent" /\ run.by = h /\ At1(h, "reply")
    /\ outbox' = [a \in Answers |-> IF a \in Remaining(h) THEN outbox[a] ELSE 0]
    /\ job' = [job EXCEPT ![h] = Idle]
    /\ run' = On
    /\ UNCHANGED <<bankVars, ledgerVars, sessionOpen, locked, given, held, posed, cell,
                   cursor, followed, backfilled, phase, refused, repeated, plan>>

\* begin_example_backfill, when the server serves media: a store that already
\* follows the bank goes back to its start, once.
Backfill ==
    /\ phase = "grammar_bank" /\ run = On
    /\ ~backfilled
    /\ backfilled' = TRUE
    /\ followed' = TRUE
    /\ cursor' = [cursor EXCEPT !["bank"] = 0]
    /\ UNCHANGED <<bankVars, ledgerVars, sessionOpen, locked, job, given, outbox, held,
                   posed, cell, phase, run, refused, repeated, plan>>

FeedOf(p) == IF p = "grammar_bank" THEN "bank" ELSE "mastery"
Feed(f) == IF f = "bank" THEN bankFeed ELSE masteryFeed

HasMore(f) == Len(Feed(f)) > cursor[f] + PageLimit

\* Mutant of PageEnd: an empty page ends nowhere.
PageEndOfRows(f) ==
    IF Len(Feed(f)) = cursor[f] THEN None
    ELSE IF HasMore(f) THEN cursor[f] + PageLimit ELSE Len(Feed(f))

\* page_from: a page ends at its last row, an empty one where it began.
PageEnd(f) == IF HasMore(f) THEN cursor[f] + PageLimit ELSE Len(Feed(f))

\* grammar_cursors and the request, answered from the feed in one statement:
\* visible_item_changes, visible_grammar_changes and page_from.
Ask ==
    /\ phase \in {"grammar_bank", "grammar_mastery"} /\ run = On
    /\ LET f == FeedOf(phase)
       IN run' = [step |-> "read", feed |-> f,
                  keys |-> SubSeq(Feed(f), cursor[f] + 1, PageEnd(f)),
                  next |-> PageEnd(f), more |-> HasMore(f)]
    /\ UNCHANGED <<bankVars, ledgerVars, sessionOpen, locked, job, given, storeVars,
                   refused, repeated, plan>>

\* Mutant of Row: an item is sent whatever its status.
RowOfAny(feed, key) == IF feed = "bank" THEN {key} ELSE mastery[key]

\* bank_items and mastery_states: the row of a key as it is now, if any.
Row(feed, key) ==
    IF feed = "bank"
    THEN IF status[key] = "active" THEN {key} ELSE {}
    ELSE mastery[key]

IsFirst(keys, n) == \A m \in 1..(n - 1) : keys[m] # keys[n]

\* held.remove takes the row out of the map, so that the second change of a
\* key carries none.
Hydrated(feed, keys) ==
    [n \in 1..Len(keys) |->
       [key |-> keys[n], row |-> IF IsFirst(keys, n) THEN Row(feed, keys[n]) ELSE {}]]

Hydrate ==
    /\ run.step = "read"
    /\ run' = [step |-> "page", feed |-> run.feed, changes |-> Hydrated(run.feed, run.keys),
               next |-> run.next, more |-> run.more]
    /\ UNCHANGED <<bankVars, ledgerVars, sessionOpen, locked, job, given, storeVars,
                   refused, repeated, plan>>

KeysIn(changes) == {changes[n].key : n \in DOMAIN changes}

\* What the changes of a page leave a key with: each one overwrites the one
\* before.
Left(changes, key) ==
    LET last == CHOOSE n \in DOMAIN changes :
                  /\ changes[n].key = key
                  /\ \A m \in DOMAIN changes : changes[m].key = key => m <= n
    IN changes[last].row

\* Mutant of Coloured: what the device has folded in stays.
ColouredTwice(changes, r) == [row |-> Left(changes, r), folded |-> cell[r].folded]

\* The server's row replaces what the device made of its own answers.
Coloured(changes, r) == [row |-> Left(changes, r), folded |-> {}]

\* apply_bank_page and apply_mastery_page.  A change without a row deletes.
\* The mastery cursor is an update of a row that the bank's page inserted.
ApplyPage ==
    LET f == run.feed
        changes == run.changes
        keys == KeysIn(changes)
    IN /\ run.step = "page"
       /\ IF f = "bank"
          THEN /\ held' = (held \ keys) \cup {i \in keys : Left(changes, i) # {}}
               /\ posed' = posed \cup held'
               /\ followed' = TRUE
               /\ UNCHANGED cell
          ELSE /\ cell' = [r \in Rules |->
                             IF r \in keys THEN Coloured(changes, r) ELSE cell[r]]
               /\ UNCHANGED <<held, posed, followed>>
       /\ cursor' = IF f = "bank" \/ followed THEN [cursor EXCEPT ![f] = run.next] ELSE cursor
       /\ repeated' = [repeated EXCEPT ![f] =
            (@ \ keys) \cup {k \in keys : \E m, n \in DOMAIN changes :
                               m # n /\ changes[m].key = k /\ changes[n].key = k}]
       /\ run' = IF run.more THEN On ELSE Pulled
       /\ UNCHANGED <<bankVars, ledgerVars, sessionOpen, locked, job, given, outbox,
                      backfilled, phase, refused, plan>>
-----------------------------------------------------------------------------
Serve(h) == Lookup(h) \/ Adopt(h) \/ EnsureBaseline(h) \/ Replay(h) \/ Record(h)

Sync ==
    \/ Advance
    \/ \E h \in Uploads : SendBatch(h) \/ ApplyReply(h)
    \/ Ask \/ Hydrate \/ ApplyPage

Next ==
    \/ Bank
    \/ \E w \in WebAnswers : AnswerOnWeb(w)
    \/ \E h \in Handlers : Serve(h) \/ Reject(h) \/ Ended(h)
    \/ CompleteSession
    \/ \E a \in Answers : Answer(a)
    \/ Start \/ Stop \/ Backfill
    \/ Sync

Spec == Init /\ [][Next]_vars

\* The server serves what it has begun, runs start again, a run goes on unless
\* it is stopped, and from some moment on it is not: the network holds for long
\* enough in the end.
Fairness ==
    /\ \A h \in Handlers : WF_vars(Serve(h)) /\ WF_vars(Ended(h))
    /\ WF_vars(Start) /\ WF_vars(Sync)
    /\ <>[][~Stop]_vars

FairSpec == Spec /\ Fairness
-----------------------------------------------------------------------------
InHand(f) == run.step \in {"read", "page"} /\ run.feed = f

\* A mastery row accounts for every answer recorded for its point, however late
\* an answer arrives and whatever else is recorded at the time
\* (record_attempt_in_transaction: the baseline moves back, and its row lock
\* makes concurrent replays wait).
ProjectionWhole ==
    \A r \in Rules : mastery[r] = {a \in recorded : RuleFor(a) = r}

\* An answer given on the device is in the outbox until the server has it or
\* has refused it (queue_attempt, apply_attempt_response), across lost replies,
\* stopped runs and requests served late.
KeptUnlessRefused ==
    given \cap Answers \subseteq Queued \cup recorded \cup refused

\* A device that has followed the bank's feed to its end holds exactly the
\* active items, except those that the last page to name them named twice
\* (apply_bank_page, bank_changes): hydration reads rows newer than the page,
\* and nothing is missed for it.
BankMirrored ==
    cursor["bank"] = Len(bankFeed) /\ ~InHand("bank") =>
        \A i \in Items : i \in repeated["bank"] \/ (i \in held <=> status[i] = "active")

\* The same of a mastery row, once no answer of the device is under way: what
\* the device has folded in by itself has been replaced by the server's row.
\* A refused answer stays folded in until the point changes again.
MasteryMirrored ==
    cursor["mastery"] = Len(masteryFeed) /\ ~InHand("mastery") /\ Queued = {} =>
        \A r \in Rules :
            \/ r \in repeated["mastery"]
            \/ \E a \in refused : RuleFor(a) = r
            \/ cell[r] = [row |-> mastery[r], folded |-> {}]

\* A device at the end of its feeds mirrors the server, the bank as well as the
\* colour of every grammar point (apply_bank_page, apply_mastery_page).
Mirrored == BankMirrored /\ MasteryMirrored

\* "An item the server withheld is one the device must stop holding, whether it
\* was deleted or merely unpromoted" (storage/grammar.rs), and no other:
\* whatever the pages repeat, a device at the end of the feed holds the bank.
BankHeld ==
    cursor["bank"] = Len(bankFeed) /\ ~InHand("bank") =>
        held = {i \in Items : status[i] = "active"}

\* Every answer leaves the device in the end, and every feed is followed to
\* its end: no retry, late request or resumed phase goes round for ever.
Drained ==
    /\ <>[](Queued = {})
    /\ <>[](cursor["bank"] = Len(bankFeed) /\ cursor["mastery"] = Len(masteryFeed))
=============================================================================
