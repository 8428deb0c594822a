------------------------------ MODULE NbackWeb ------------------------------
(***************************************************************************)
(* A dual n-back session in the browser (api/nback.rs, components/nback).  *)
(*                                                                         *)
(* The trials are generated when the session starts.  A response is        *)
(* recorded, the answered trials and the state are read, and the adapted   *)
(* state is written, each in a statement of its own.  The button of the    *)
(* page does not wait, and the page moves on by one for every reply.  The  *)
(* reply's advice to stop is not looked at and is left out.                *)
(***************************************************************************)
EXTENDS NbackScoring, Functions

CONSTANTS Requests,     \* requests that may be in flight together
          Results,      \* what a response gets: is audio right, is visual
          Level, Interval,  \* the configuration of a session
          Upsets        \* bound: second presses, lost replies

VARIABLES trial,        \* dnb_trials: the result of each, or "none"
          state,        \* dnb_sessions: the live adaptation state
          final,        \* what completing the session stored
          page, request,
          twice,        \* a trial was submitted beside itself, or the last one again
          upsets

vars == <<trial, state, final, page, request, twice, upsets>>

Generated == 5          \* GENERATED_TRIALS

-----------------------------------------------------------------------------
NoTrial == [audio |-> FALSE, visual |-> FALSE, answered |-> FALSE]
Answer(r) == [audio |-> r.audio, visual |-> r.visual, answered |-> TRUE]
NoTrials == [n \in {} |-> NoTrial]
NoState == NewState(1, 1500)
Idle == [at |-> "idle", n |-> 0, result |-> NoTrial, seen |-> NoTrials, state |-> NoState]

Init ==
    /\ trial = [n \in 1..Generated |-> NoTrial]
    /\ state = NewState(Level, Interval)
    /\ final = [state |-> NoState, count |-> 0, done |-> FALSE]
    /\ page = [at |-> "playing", index |-> 1]
    /\ request = [r \in Requests |-> Idle]
    /\ twice = FALSE /\ upsets = 0

Upset == upsets < Upsets /\ upsets' = upsets + 1
At(r, step) == request[r].at = step
To(r, step) == request' = [request EXCEPT ![r].at = step]
Finish(r)   == request' = [request EXCEPT ![r] = Idle]
UnderWay(n) == \E r \in Requests : request[r].n = n

Press(r) ==
    /\ page.at = "playing" /\ page.index <= Generated /\ At(r, "idle")
    /\ IF UnderWay(page.index) THEN Upset ELSE UNCHANGED upsets
    /\ twice' = (twice \/ UnderWay(page.index)
                       \/ (page.index = Generated /\ trial[Generated].answered))
    /\ \E result \in Results :
          request' = [request EXCEPT ![r] = [at |-> "record", n |-> page.index,
                                             result |-> Answer(result),
                                             seen |-> NoTrials, state |-> NoState]]
    /\ UNCHANGED <<trial, state, final, page>>

RecordResponse(r) ==
    /\ At(r, "record")
    /\ trial' = [trial EXCEPT ![request[r].n] = request[r].result]
    /\ To(r, "trials")
    /\ UNCHANGED <<state, final, page, twice, upsets>>

\* Mutant of AnsweredTrials: trials without a response count as wrong answers.
AllTrials == trial
AnsweredTrials == Restrict(trial, {n \in DOMAIN trial : trial[n].answered})

LoadAnsweredTrials(r) ==
    /\ At(r, "trials")
    /\ request' = [request EXCEPT ![r].at = "state", ![r].seen = AnsweredTrials]
    /\ UNCHANGED <<trial, state, final, page, twice, upsets>>

LoadState(r) ==
    /\ At(r, "state")
    /\ request' = [request EXCEPT ![r].at = "update", ![r].state = state]
    /\ UNCHANGED <<trial, state, final, page, twice, upsets>>

UpdateState(r) ==
    /\ At(r, "update")
    /\ state' = Adapted(request[r].state, request[r].seen)
    /\ To(r, "reply")
    /\ UNCHANGED <<trial, final, page, twice, upsets>>

Reply(r) ==
    /\ At(r, "reply") /\ Finish(r)
    /\ \/ page' = [page EXCEPT !.index = @ + 1] /\ UNCHANGED upsets
       \/ Upset /\ UNCHANGED page
    /\ UNCHANGED <<trial, state, final, twice>>

\* complete: the state, the trials, and one row that keeps both.
CompleteLoad ==
    /\ page.at = "playing" /\ page.index > Generated
    /\ page' = [page EXCEPT !.at = "loaded"]
    /\ final' = [final EXCEPT !.state = state]
    /\ UNCHANGED <<trial, state, request, twice, upsets>>

CompleteStore ==
    /\ page.at = "loaded"
    /\ page' = [page EXCEPT !.at = "results"]
    /\ final' = [final EXCEPT !.count = Cardinality(DOMAIN AnsweredTrials), !.done = TRUE]
    /\ state' = final.state
    /\ UNCHANGED <<trial, request, twice, upsets>>

Serve(r) == RecordResponse(r) \/ LoadAnsweredTrials(r) \/ LoadState(r) \/ UpdateState(r)
            \/ Reply(r)

Next ==
    \/ \E r \in Requests : Press(r) \/ Serve(r)
    \/ CompleteLoad \/ CompleteStore

-----------------------------------------------------------------------------
TypeOK ==
    /\ state.level \in 1..9 /\ state.peak \in 1..9 /\ state.interval \in 1500..5000
    /\ \A r \in Requests : request[r].n \in 0..Generated

\* The difficulty the server works out anew with every response is the one of the
\* answers, though a reply was lost and the trial answered again: a completed
\* session has all its trials, and its state moved once, as its window says.  The
\* last trial given twice, or one trial twice at once, moves it again.
ScoredAsPlayed ==
    ~twice =>
        /\ final.done => /\ final.count = Generated
                         /\ final.state = Adapted(NewState(Level, Interval), trial)
        /\ state \in {NewState(Level, Interval), Adapted(NewState(Level, Interval), trial)}
=============================================================================
