------------------------------ MODULE NbackPlay -----------------------------
(***************************************************************************)
(* A session of dual n-back at the terminal (handle_nback in wisecrow.rs)  *)
(* with its engine (DnbEngine in learning/nback).                          *)
(*                                                                         *)
(* Each trial is generated when the last one has been answered, at the     *)
(* difficulty that has been reached.  An answer is recorded by the engine, *)
(* which adapts, and is then stored.  The session ends when the learner    *)
(* quits, at the last trial, or when nothing is learned any more; what the *)
(* loop fails with is logged, and the session is completed all the same.   *)
(* Names are left out: an item of the vocabulary is its number.            *)
(***************************************************************************)
EXTENDS NbackScoring, Sequences, SequencesExt

CONSTANTS Pools,        \* vocabularies the learner may have
          Throws,       \* bound: what the random generator may give for a trial
          Keys,         \* bound: the match keys that are used
          Levels, Interval, \* the configurations of a session
          MaxTrials,    \* MAX_TRIALS of the loop
          Mishaps       \* bound: failing statements

VARIABLES step,         \* where the program is
          pool,         \* the items of the engine
          generated,    \* the trials shown so far
          completed,    \* the trials answered, with what was right of them
          state,        \* the engine's difficulty
          pressed,      \* the match keys that are on
          count,        \* trial_count of the loop
          quit,         \* the learner has left the last trial
          rows,         \* dnb_trials of the session
          final,        \* dnb_sessions: the completed session
          ratings,      \* what the scheduler is told of the items
          mishaps

vars == <<step, pool, generated, completed, state, pressed, count, quit, rows, final, ratings,
          mishaps>>

MinPool == 8            \* MIN_VOCAB_POOL_SIZE

Unfinished == [done |-> FALSE, count |-> 0, level |-> 1, interval |-> 1500,
               accuracy |-> [c \in Channels |-> 0]]

Init ==
    /\ step = "opening" /\ pool = {} /\ generated = <<>> /\ completed = <<>>
    /\ state \in {NewState(l, Interval) : l \in Levels}
    /\ pressed = {} /\ count = 0 /\ quit = FALSE
    /\ rows = <<>> /\ final = Unfinished /\ ratings = {} /\ mishaps = 0

Fails == mishaps < Mishaps /\ mishaps' = mishaps + 1
To(s) == step' = s

\* The vocabulary is loaded; with too little of it, or if the session cannot be stored,
\* nothing is played.
Open ==
    /\ step = "opening"
    /\ \E p \in Pools :
          /\ pool' = p
          /\ \/ Cardinality(p) < MinPool /\ To("closed") /\ UNCHANGED mishaps
             \/ Cardinality(p) >= MinPool /\ To("next") /\ UNCHANGED mishaps
             \/ To("closed") /\ Fails
    /\ UNCHANGED <<generated, completed, state, pressed, count, quit, rows, final, ratings>>
-----------------------------------------------------------------------------
(* The engine                                                              *)

\* The trial that a new one may match, at the level that has been reached.
Before == Len(generated) + 1 - state.level

\* generate_trial: a match only of an earlier trial, and otherwise any other item.
NextTrial ==
    /\ step = "next"
    /\ \E t \in Throws :
          LET match == [c \in Channels |-> Before >= 1 /\ t.match[c]]
              item == [c \in Channels |->
                          IF match[c] THEN generated[Before].item[c] ELSE t.item[c]]
          IN  /\ \A c \in Channels :
                    ~match[c] => /\ t.item[c] \in pool
                                 /\ Before >= 1 => t.item[c] # generated[Before].item[c]
              /\ generated' = Append(generated,
                    [number |-> Len(generated) + 1, level |-> state.level,
                     interval |-> state.interval, item |-> item, match |-> match])
    /\ To("reading")
    /\ UNCHANGED <<pool, completed, state, pressed, count, quit, rows, final, ratings, mishaps>>

\* handle_nback_key: a key of a channel turns its answer over.
Key(c) ==
    /\ step = "reading"
    /\ pressed' = IF c \in pressed THEN pressed \ {c} ELSE pressed \cup {c}
    /\ UNCHANGED <<step, pool, generated, completed, state, count, quit, rows, final, ratings,
                   mishaps>>

Judged(t, keys) ==
    [number |-> t.number, level |-> t.level, interval |-> t.interval, item |-> t.item,
     match |-> t.match, audio |-> t.match["audio"] = ("audio" \in keys),
     visual |-> t.match["visual"] = ("visual" \in keys)]

\* record_response, on Enter or when the time is up: the answer is that of the trial
\* that waits for one, and the difficulty follows.
Submit ==
    /\ step = "reading"
    /\ completed' = Append(completed, Judged(generated[Len(completed) + 1], pressed))
    /\ state' = Adapted(state, completed')
    /\ pressed' = {} /\ To("saving")
    /\ UNCHANGED <<pool, generated, count, quit, rows, final, ratings, mishaps>>
-----------------------------------------------------------------------------
(* The loop                                                                *)

\* The trial is stored and counted; the loop goes on unless it is over.  A trial that
\* cannot be stored ends it uncounted.
SaveTrial ==
    /\ step = "saving"
    /\ \/ /\ rows' = Append(rows, Last(completed)) /\ count' = count + 1
          /\ To(IF Terminates(state, completed) \/ count' >= MaxTrials THEN "over" ELSE "next")
          /\ UNCHANGED mishaps
       \/ To("over") /\ Fails /\ UNCHANGED <<rows, count>>
    /\ UNCHANGED <<pool, generated, completed, state, pressed, quit, final, ratings>>

\* The trial that is left is counted.
Quit ==
    /\ step = "reading"
    /\ count' = count + 1 /\ quit' = TRUE /\ pressed' = {} /\ To("over")
    /\ UNCHANGED <<pool, generated, completed, state, rows, final, ratings, mishaps>>

\* Per cent of all the answers of a channel.
Share(trials, c) ==
    IF trials = <<>> THEN 0
    ELSE (100 * Cardinality({n \in DOMAIN trials : trials[n][c]})) \div Len(trials)

\* finalize_nback_session: the session is completed, then the items are rated.
Complete ==
    /\ step = "over"
    /\ \/ /\ final' = [done |-> TRUE, count |-> count, level |-> state.level,
                       interval |-> state.interval,
                       accuracy |-> [c \in Channels |-> Share(completed, c)]]
          /\ To("rating") /\ UNCHANGED mishaps
       \/ To("closed") /\ Fails /\ UNCHANGED final
    /\ UNCHANGED <<pool, generated, completed, state, pressed, count, quit, rows, ratings>>

\* How often an item was right, and was wrong.
Times(item, right) ==
    Cardinality({n \in DOMAIN completed :
                    completed[n].item["audio"] = item /\ completed[n].audio = right})
        + Cardinality({n \in DOMAIN completed :
                    completed[n].item["visual"] = item /\ completed[n].visual = right})

\* apply_srs_feedback, a batch of the review ledger.
Rate ==
    /\ step = "rating"
    /\ \/ /\ ratings' = {[item |-> i, rating |-> "good"] :
                            i \in {j \in pool : Times(j, TRUE) > Times(j, FALSE)}}
                   \cup {[item |-> i, rating |-> "again"] :
                            i \in {j \in pool : Times(j, TRUE) < Times(j, FALSE)}}
          /\ UNCHANGED mishaps
       \/ Fails /\ UNCHANGED ratings
    /\ To("closed")
    /\ UNCHANGED <<pool, generated, completed, state, pressed, count, quit, rows, final>>

Next ==
    \/ Open \/ NextTrial \/ (\E c \in Keys : Key(c)) \/ Submit
    \/ SaveTrial \/ Quit \/ Complete \/ Rate

-----------------------------------------------------------------------------
TypeOK ==
    /\ step \in {"opening", "next", "reading", "saving", "over", "rating", "closed"}
    /\ state.level \in 1..9 /\ state.interval \in 1500..5000
    /\ count \in 0..MaxTrials /\ mishaps \in 0..Mishaps

\* A stored trial is a match of the trial stored its own level before it exactly when
\* its row says so, whatever the level was then and however it has moved since
\* (learning/nback/mod.rs: n_back_index, select_index).
MatchesTold ==
    \A k \in DOMAIN rows, c \in Channels :
        LET before == k - rows[k].level
        IN  rows[k].match[c] <=> before >= 1 /\ rows[before].item[c] = rows[k].item[c]

\* The difficulty of each stored trial is the one that the rows before it earn, and the
\* loop goes on after none at which nothing was learned (learning/nback/scoring.rs,
\* wisecrow.rs: nback_game_loop).
EarnedByRows ==
    \A k \in DOMAIN rows : k + 1 \in DOMAIN rows =>
        LET before == SubSeq(rows, 1, k)
            earned == Adapted([state EXCEPT !.level = rows[k].level,
                                            !.interval = rows[k].interval], before)
        IN  /\ rows[k + 1].level = earned.level /\ rows[k + 1].interval = earned.interval
            /\ ~(k >= Window /\ \A c \in Channels : Accuracy(before, c) < 40)

\* A completed session has a row for each trial it counts but the one that was left, and
\* the accuracy it keeps is theirs unless a trial could not be stored; then it counts
\* one fewer than were answered.  What is rated was shown in an answered trial.
CountedAsPlayed ==
    /\ final.done =>
        /\ final.count = Len(rows) + (IF quit THEN 1 ELSE 0)
        /\ Len(rows) \in {Len(completed), Len(completed) - 1}
        /\ mishaps = 0 => \A c \in Channels : final.accuracy[c] = Share(rows, c)
    /\ \A r \in ratings : /\ final.done
                          /\ \E n \in DOMAIN completed, c \in Channels : completed[n].item[c] = r.item
=============================================================================
