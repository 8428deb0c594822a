------------------------------ MODULE Prefetch ------------------------------
(***************************************************************************)
(* A run of media preparation: prefetch_media, run_batch, prepare_medium   *)
(* and ByteBudget of media/prefetch.rs, over the cache of media/cache.rs.  *)
(*                                                                         *)
(* At most MaxTasks workers take the selected entries in order; each       *)
(* prepares the speech of its entry and then the picture.  What is         *)
(* downloaded is charged to the budget before it is published; a refusal   *)
(* turns the later ones into probes.  Cancelling aborts the workers where  *)
(* they are: what they charged stays charged.                              *)
(***************************************************************************)
EXTENDS Naturals, FiniteSets, FiniteSetsExt

CONSTANTS Items,        \* 1..n: the deck in its order
          Chunk,        \* SELECTED_BATCH
          MaxTasks,     \* MAX_CONCURRENT_FETCHES
          SizeOf,       \* the bytes of a payload, by its key
          KeyOf,        \* the fingerprint of a medium: entries share pictures
          Budget,
          Upsets        \* bound: failing downloads, changed entries

VARIABLES have,         \* units whose row and file are there
          task,         \* the worker of each entry: waiting, where it is, collected
          outcome,      \* what it reports of each medium
          chunk,        \* the entries the run has reached
          used, refused,
          run,          \* going, done, cancelled, refused
          published,    \* units this run published
          upset         \* how often something was upset; entries that changed

vars == <<have, task, outcome, chunk, used, refused, run, published, upset>>

Units == Items \X {"audio", "image"}
Nothing == "none"

Init ==
    /\ have \in SUBSET {<<i, "audio">> : i \in Items}
    /\ task = [i \in Items |-> [at |-> "waiting", medium |-> "audio"]]
    /\ outcome = [u \in Units |-> Nothing]
    /\ chunk = 0 /\ used = 0 /\ refused = FALSE /\ run = "going"
    /\ published = {}
    /\ upset = [times |-> 0, changed |-> {}]

Unit(i) == <<i, task[i].medium>>
On(i, step) == run = "going" /\ task[i].at = step
To(i, step) == task' = [task EXCEPT ![i].at = step]
Reached == {i \in Items : i <= chunk}
Outstanding == {i \in Reached : task[i].at \notin {"waiting", "collected"}}
Upset == upset.times < Upsets
bookkeeping == <<chunk, run, upset>>

\* The chunk before it is collected; its rows are read again and must still be
\* the ones that were selected.
NextChunk ==
    /\ run = "going"
    /\ \A i \in Reached : task[i].at = "collected"
    /\ IF Reached = Items THEN run' = "done" /\ UNCHANGED chunk
       ELSE LET rows == {i \in Items : chunk < i /\ i <= chunk + Chunk} IN
            IF rows \cap upset.changed # {} THEN run' = "refused" /\ UNCHANGED chunk
            ELSE chunk' = chunk + Chunk /\ UNCHANGED run
    /\ UNCHANGED <<have, task, outcome, used, refused, published, upset>>

ChangeEntry(i) ==
    /\ run = "going" /\ Upset
    /\ upset' = [times |-> upset.times + 1, changed |-> upset.changed \cup {i}]
    /\ UNCHANGED <<have, task, outcome, chunk, used, refused, run, published>>

\* run_batch: finished workers that are not collected count as well.
Launch(i) ==
    /\ run = "going" /\ i \in Reached /\ task[i].at = "waiting"
    /\ \A j \in Reached : j < i => task[j].at # "waiting"
    /\ Cardinality(Outstanding) < MaxTasks
    /\ To(i, "flag")
    /\ UNCHANGED <<have, outcome, used, refused, published, bookkeeping>>

\* The worker's report on a medium; speech first, then the picture.
Report(i, what) ==
    /\ outcome' = [outcome EXCEPT ![Unit(i)] = what]
    /\ task' = [task EXCEPT ![i] = IF task[i].medium = "audio"
                   THEN [at |-> "flag", medium |-> "image"]
                   ELSE [at |-> "finished", medium |-> "image"]]

\* prepare_medium: a refusal seen here makes it a probe.
ReadFlag(i) ==
    /\ On(i, "flag")
    /\ IF refused THEN Report(i, IF Unit(i) \in have THEN "cached" ELSE "exhausted")
       ELSE IF Unit(i) \in have THEN Report(i, "cached")
       ELSE To(i, "lock") /\ UNCHANGED outcome
    /\ UNCHANGED <<have, used, refused, published, bookkeeping>>

Holds(i) == run = "going" /\ task[i].at \in {"fetch", "publish"}
Shared(i) == task[i].medium = "image" /\ \E u \in have : KeyOf[u] = KeyOf[Unit(i)]

\* Under the lock of the fingerprint: a picture another entry has is attached.
LockAndLook(i) ==
    /\ On(i, "lock")
    /\ \A j \in Items : ~(Holds(j) /\ KeyOf[Unit(j)] = KeyOf[Unit(i)])
    /\ IF Unit(i) \in have \/ Shared(i)
       THEN have' = have \cup {Unit(i)} /\ Report(i, "cached")
       ELSE To(i, "fetch") /\ UNCHANGED <<have, outcome>>
    /\ UNCHANGED <<used, refused, published, bookkeeping>>

\* Mutant of Fits: the budget is looked at before the payload, not with it.
FitsBefore(bytes) == used < Budget
Fits(bytes) == used + bytes <= Budget

\* The payload arrives and is charged before anything is written.
FetchAndCharge(i) ==
    LET bytes == SizeOf[KeyOf[Unit(i)]] IN
    /\ On(i, "fetch")
    /\ \/ /\ Fits(bytes)
          /\ used' = used + bytes
          /\ To(i, "publish")
          /\ UNCHANGED <<outcome, refused, upset>>
       \/ /\ ~Fits(bytes)
          /\ refused' = TRUE
          /\ Report(i, "exhausted")
          /\ UNCHANGED <<used, upset>>
       \/ /\ Upset /\ upset' = [upset EXCEPT !.times = @ + 1]
          /\ Report(i, "failed")
          /\ UNCHANGED <<used, refused>>
    /\ UNCHANGED <<have, published, chunk, run>>

\* File and row; a write that fails leaves the charge.
Publish(i) ==
    /\ On(i, "publish")
    /\ \/ /\ have' = have \cup {Unit(i)}
          /\ published' = published \cup {Unit(i)}
          /\ Report(i, "generated")
          /\ UNCHANGED upset
       \/ /\ Upset /\ upset' = [upset EXCEPT !.times = @ + 1]
          /\ Report(i, "failed")
          /\ UNCHANGED <<have, published>>
    /\ UNCHANGED <<used, refused, chunk, run>>

Collect(i) ==
    /\ On(i, "finished")
    /\ To(i, "collected")
    /\ UNCHANGED <<have, outcome, used, refused, published, bookkeeping>>

\* abort_all, then every worker is waited for.
Cancel ==
    /\ run = "going" /\ Outstanding # {}
    /\ run' = "cancelled"
    /\ UNCHANGED <<have, task, outcome, chunk, used, refused, published, upset>>

Work(i) == Launch(i) \/ ReadFlag(i) \/ LockAndLook(i) \/ FetchAndCharge(i) \/ Publish(i) \/ Collect(i)
Next == NextChunk \/ Cancel \/ \E i \in Items : Work(i) \/ ChangeEntry(i)

-----------------------------------------------------------------------------
TypeOK ==
    /\ have \subseteq Units /\ published \subseteq have
    /\ outcome \in [Units -> {Nothing, "cached", "generated", "exhausted", "failed"}]
    /\ run \in {"going", "done", "cancelled", "refused"}

Bytes(units) == LET size(u) == SizeOf[KeyOf[u]] IN MapThenSumSet(size, units)

\* The run keeps to its budget however the workers are interleaved: what it
\* published was charged, no payload was bought twice, nobody was told that a
\* medium is there when it is not, and what makes the rest "exhausted" is a
\* payload that does not fit in what is left to the end of the run; a run that
\* ends reports every medium of every entry.
Accounted ==
    /\ used <= Budget
    /\ Bytes(published) <= used
    /\ \A u, v \in published : KeyOf[u] = KeyOf[v] => u = v
    /\ \A u \in Units : /\ outcome[u] \in {"cached", "generated"} => u \in have
                        /\ outcome[u] = "exhausted" => refused
                        /\ run = "done" => outcome[u] # Nothing
    /\ refused => \E u \in Units : /\ outcome[u] = "exhausted" /\ u \notin have
                                   /\ used + SizeOf[KeyOf[u]] > Budget
=============================================================================
