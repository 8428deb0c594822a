----------------------------- MODULE NbackUpload -----------------------------
(***************************************************************************)
(* Dual n-back sessions played on a device and handed over (dnb/upload.rs, *)
(* the n-back outbox of the device, upload_nback of the sync engine).      *)
(*                                                                         *)
(* The sessions of a batch are applied one after the other, each in a      *)
(* transaction of its own that first reserves the session's id; an error   *)
(* ends the request and leaves what was applied before it.  The device     *)
(* gives a request up and asks again while the first may still run.        *)
(***************************************************************************)
EXTENDS Naturals, FiniteSets

CONSTANTS Rounds,       \* numbers: the sessions of the device, in the order of their ids
          Requests,     \* requests that may be in flight together
          Limit,        \* sessions in a batch
          Upsets        \* bound: words pruned, replies lost, transactions that fail

VARIABLES outbox,       \* nback_outbox.status
          whole,        \* the words of a session are all in the corpus
          rows,         \* dnb_sessions: how often a session was stored, with its reviews
          run,          \* where the device is
          request,
          unheard,      \* sessions of a request the device has given up
          upsets

vars == <<outbox, whole, rows, run, request, unheard, upsets>>

\* The sessions of a request that are still to be applied, and what is said of those
\* that were.
Idle == [at |-> "idle", todo |-> {}, acks |-> {}]

Init ==
    /\ outbox = [s \in Rounds |-> "none"]
    /\ whole = [s \in Rounds |-> TRUE]
    /\ rows = [s \in Rounds |-> 0]
    /\ run = "rest"                     \* or the request it waits for
    /\ request = [r \in Requests |-> Idle]
    /\ unheard = {} /\ upsets = 0

Upset == upsets < Upsets /\ upsets' = upsets + 1
At(r, step) == request[r].at = step
Session(r) == CHOOSE s \in request[r].todo : \A t \in request[r].todo : s <= t
Acked(r) == {a.session : a \in request[r].acks}
Pending == {s \in Rounds : outbox[s] = "pending"}
Batch == {s \in Pending : Cardinality({t \in Pending : t <= s}) <= Limit}

\* save_nback: the same session again changes nothing.
SaveSession(s) ==
    /\ outbox[s] = "none"
    /\ outbox' = [outbox EXCEPT ![s] = "pending"]
    /\ UNCHANGED <<whole, rows, run, request, unheard, upsets>>

Send(r) ==
    /\ run = "rest" /\ Pending # {} /\ At(r, "idle")
    /\ request' = [request EXCEPT ![r] = [at |-> "prepare", todo |-> Batch, acks |-> {}]]
    /\ run' = r
    /\ UNCHANGED <<outbox, whole, rows, unheard, upsets>>

\* The next session, or the reply.
Onward(r, told) ==
    request' = [request EXCEPT ![r] =
        [at |-> IF @.todo = {Session(r)} THEN "reply" ELSE "prepare",
         todo |-> @.todo \ {Session(r)},
         acks |-> @.acks \cup {[session |-> Session(r), told |-> told]}]]

\* prepare: the answers are played again over the words of the session.
Prepare(r) ==
    /\ At(r, "prepare")
    /\ IF whole[Session(r)]
       THEN request' = [request EXCEPT ![r].at = "reserve"]
       ELSE Onward(r, "rejected")
    /\ UNCHANGED <<outbox, whole, rows, run, unheard, upsets>>

\* Mutant of Known: a session is looked up before the one that stores it commits.
KnownNever(s) == FALSE
Known(s) == rows[s] > 0

\* Insert the id; a request that has inserted it and is not committed is waited for.
ReserveUpload(r) ==
    /\ At(r, "reserve")
    /\ \A q \in Requests : At(q, "persist") => Session(q) # Session(r)
    /\ IF Known(Session(r))
       THEN Onward(r, "already")
       ELSE request' = [request EXCEPT ![r].at = "persist"]
    /\ UNCHANGED <<outbox, whole, rows, run, unheard, upsets>>

\* A trial names its words: one that is gone makes the insert fail.
PersistNew(r) ==
    /\ At(r, "persist") /\ whole[Session(r)]
    /\ rows' = [rows EXCEPT ![Session(r)] = @ + 1]
    /\ Onward(r, "applied")
    /\ UNCHANGED <<outbox, whole, run, unheard, upsets>>

Fail(r) ==
    /\ request[r].at \in {"reserve", "persist"}
    /\ IF At(r, "persist") /\ ~whole[Session(r)] THEN UNCHANGED upsets ELSE Upset
    /\ request' = [request EXCEPT ![r] = Idle]
    /\ run' = IF run = r THEN "rest" ELSE run
    /\ unheard' = unheard \cup Acked(r)
    /\ UNCHANGED <<outbox, whole, rows>>

Told(s) == [applied |-> "applied", already |-> "applied", rejected |-> "rejected"][s]

\* apply_nback_response, one transaction of the device.
Reply(r) ==
    /\ At(r, "reply")
    /\ outbox' = IF run # r THEN outbox ELSE
          [s \in Rounds |->
              IF s \in Acked(r)
              THEN Told((CHOOSE a \in request[r].acks : a.session = s).told)
              ELSE outbox[s]]
    /\ request' = [request EXCEPT ![r] = Idle]
    /\ run' = IF run = r THEN "rest" ELSE run
    /\ UNCHANGED <<whole, rows, unheard, upsets>>

\* The run is cancelled or its connection fails; the request goes on.
GiveUp(r) ==
    /\ run = r /\ Upset
    /\ run' = "rest"
    /\ unheard' = unheard \cup Acked(r) \cup request[r].todo
    /\ UNCHANGED <<outbox, whole, rows, request>>

\* The server dies: what was not committed is gone.
Crash(r) ==
    /\ ~At(r, "idle") /\ Upset
    /\ request' = [request EXCEPT ![r] = Idle]
    /\ run' = IF run = r THEN "rest" ELSE run
    /\ unheard' = unheard \cup Acked(r)
    /\ UNCHANGED <<outbox, whole, rows>>

\* A word of the session is pruned; no session played before can have it again.
PruneWord(s) ==
    /\ whole[s] /\ Upset
    /\ whole' = [whole EXCEPT ![s] = FALSE]
    /\ UNCHANGED <<outbox, rows, run, request, unheard>>

Serve(r) == Prepare(r) \/ ReserveUpload(r) \/ PersistNew(r) \/ Fail(r) \/ Reply(r)

Next ==
    \/ \E s \in Rounds : SaveSession(s) \/ PruneWord(s)
    \/ \E r \in Requests : Send(r) \/ Serve(r) \/ GiveUp(r) \/ Crash(r)

-----------------------------------------------------------------------------
TypeOK ==
    /\ outbox \in [Rounds -> {"none", "pending", "applied", "rejected"}]
    /\ rows \in [Rounds -> Nat] /\ run \in Requests \cup {"rest"}
    /\ \A r \in Requests : Cardinality(request[r].todo) + Cardinality(request[r].acks) <= Limit

\* A session is stored at most once however often it is sent; the device calls
\* applied what is stored, and rejected what lost a word and, unless a reply about
\* it went unheard, is not.
KeptOnce ==
    \A s \in Rounds :
        /\ rows[s] <= 1
        /\ outbox[s] = "applied" => rows[s] = 1
        /\ outbox[s] = "rejected" => ~whole[s] /\ (s \notin unheard => rows[s] = 0)
=============================================================================
