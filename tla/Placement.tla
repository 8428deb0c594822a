------------------------------ MODULE Placement ------------------------------
(***************************************************************************)
(* A placement run: the ladder of grammar/placement.rs, the answers it     *)
(* takes through the grammar session, and the page that climbs it.         *)
(*                                                                         *)
(* The answers of a level are one transaction; where the run stands is     *)
(* worked out afterwards from the attempts of the session and from what    *)
(* each level can offer, read one after the other.  A run ends by two      *)
(* statements.  A reply can be lost while its request goes on; the page    *)
(* then offers the same level again, and its answers get new ids.  Which   *)
(* items are drawn, and a start whose reply is lost (it leaves a run       *)
(* nobody returns to), are left out.                                       *)
(***************************************************************************)
EXTENDS Integers, FiniteSets, Sequences, SequencesExt

CONSTANTS Levels,       \* 1..n: the levels in their order
          Sample,       \* items drawn at a level
          Rights,       \* how many of them are answered right
          Requests, Upsets  \* bound: changes of the bank, lost replies, crashes

VARIABLES run,          \* placement_attempts: completed, and level_reached (0 is none)
          closed,       \* grammar_sessions.completed_at
          score,        \* grammar_attempts of the session, by the level of their rule
          wide,         \* the levels with enough active items to be tested
          stale,        \* the levels with an item revised since it was drawn
          page, request,
          tangled,      \* answers came in once a request was working the run out
          upsets

vars == <<run, closed, score, wide, stale, page, request, tangled, upsets>>

NoScore == [asked |-> 0, right |-> 0]
Fresh == [reached |-> 0, tested |-> {}, skipped |-> {}, failures |-> 0]
Idle == [at |-> "idle", level |-> 0, right |-> 0, seen |-> [l \in Levels |-> NoScore],
         ladder |-> Fresh, next |-> 1]

Init ==
    /\ run = [done |-> FALSE, reached |-> 0] /\ closed = FALSE
    /\ score = [l \in Levels |-> NoScore]
    /\ wide \in SUBSET Levels /\ stale = {}
    /\ page = [at |-> "start", level |-> 0, told |-> Fresh]
    /\ request = [r \in Requests |-> Idle]
    /\ tangled = FALSE /\ upsets = 0

Upset == upsets < Upsets /\ upsets' = upsets + 1
At(r, step) == request[r].at = step
To(r, step) == request' = [request EXCEPT ![r].at = step]

-----------------------------------------------------------------------------
(* The ladder                                                              *)

Top == Cardinality(Levels)
Passed(s) == s.asked > 0 /\ 10 * s.right >= 6 * s.asked     \* PLACEMENT_PASS
Ended(ladder) == ladder.failures >= 2                       \* PLACEMENT_MAX_FAILURES

\* Ladder::record.
Record(ladder, l, s) ==
    IF Passed(s)
    THEN [ladder EXCEPT !.reached = l, !.failures = 0, !.tested = @ \cup {l}]
    ELSE [ladder EXCEPT !.failures = @ + 1, !.tested = @ \cup {l}]

\* Mutant of Skip: a level that cannot be tested counts as failed.
SkipAsFailed(ladder, l) == [ladder EXCEPT !.skipped = @ \cup {l}, !.failures = @ + 1]
Skip(ladder, l) == [ladder EXCEPT !.skipped = @ \cup {l}]

\* replay_finished.
Replayed(scores) ==
    FoldLeft(LAMBDA ladder, l :
                 IF Ended(ladder) THEN ladder
                 ELSE IF scores[l].asked > 0 THEN Record(ladder, l, scores[l])
                 ELSE [ladder EXCEPT !.skipped = @ \cup {l}],
             Fresh, [l \in 1..Top |-> l])

-----------------------------------------------------------------------------
(* The page                                                                *)

\* The button is off while the page waits; page.at is the request waited for.
Start(r) ==
    /\ page.at = "start"
    /\ page' = [page EXCEPT !.at = r]
    /\ To(r, "scores")
    /\ UNCHANGED <<run, closed, score, wide, stale, tangled, upsets>>

\* An item left unanswered is submitted empty.
Submit(r) ==
    /\ page.at = "testing" /\ At(r, "idle")
    /\ \E right \in Rights :
          request' = [request EXCEPT ![r] = [Idle EXCEPT !.at = "load", !.level = page.level,
                                                         !.right = right]]
    /\ page' = [page EXCEPT !.at = r]
    /\ UNCHANGED <<run, closed, score, wide, stale, tangled, upsets>>

\* An error leaves the level on the page.
Fails(r) == page' = IF page.at = r THEN [page EXCEPT !.at = "testing"] ELSE page

-----------------------------------------------------------------------------
(* A request                                                               *)

Refused(r) ==
    /\ request' = [request EXCEPT ![r] = Idle] /\ Fails(r)
    /\ UNCHANGED <<run, closed, score, wide, stale, tangled, upsets>>

LoadRun(r) ==
    /\ At(r, "load")
    /\ IF run.done THEN Refused(r)
       ELSE /\ To(r, "open")
            /\ UNCHANGED <<run, closed, score, wide, stale, page, tangled, upsets>>

\* ensure_open and load_item.
EnsureOpen(r) ==
    /\ At(r, "open")
    /\ IF closed \/ request[r].level \in stale THEN Refused(r)
       ELSE /\ To(r, "commit")
            /\ UNCHANGED <<run, closed, score, wide, stale, page, tangled, upsets>>

\* The answers are regraded; their ids are new, so none is a repetition.
Counted(r, l) == [asked |-> score[l].asked + Sample, right |-> score[l].right + request[r].right]

RecordAttempts(r) ==
    /\ At(r, "commit")
    /\ score' = [score EXCEPT ![request[r].level] = Counted(r, request[r].level)]
    /\ tangled' = (tangled \/ run.done
                           \/ \E q \in Requests : request[q].at \in {"walk", "finish", "close"})
    /\ To(r, "scores")
    /\ UNCHANGED <<run, closed, wide, stale, page, upsets>>

LevelScores(r) ==
    /\ At(r, "scores")
    /\ request' = [request EXCEPT ![r] = [@ EXCEPT !.at = "walk", !.seen = score]]
    /\ UNCHANGED <<run, closed, score, wide, stale, page, tangled, upsets>>

\* advance: one level of the walk.
Advance(r) ==
    LET q == request[r]
        l == q.next
        Ladder(new) == request' = [request EXCEPT ![r] = [q EXCEPT !.ladder = new, !.next = l + 1]]
    IN  /\ At(r, "walk")
        /\ IF Ended(q.ladder) \/ l > Top THEN To(r, "finish") /\ UNCHANGED stale
           ELSE IF q.seen[l].asked > 0
                THEN Ladder(Record(q.ladder, l, q.seen[l])) /\ UNCHANGED stale
           ELSE IF l \in wide THEN To(r, "reply") /\ stale' = stale \ {l}
           ELSE Ladder(Skip(q.ladder, l)) /\ UNCHANGED stale
        /\ UNCHANGED <<run, closed, score, wide, page, tangled, upsets>>

Finish(r) ==
    /\ At(r, "finish")
    /\ run' = [done |-> TRUE, reached |-> request[r].ladder.reached]
    /\ To(r, "close")
    /\ UNCHANGED <<closed, score, wide, stale, page, tangled, upsets>>

CloseSession(r) ==
    /\ At(r, "close")
    /\ closed' = TRUE
    /\ To(r, "told")
    /\ UNCHANGED <<run, score, wide, stale, page, tangled, upsets>>

Reply(r) ==
    /\ request[r].at \in {"reply", "told"}
    /\ request' = [request EXCEPT ![r] = Idle]
    /\ page' = CASE page.at # r -> page
                 [] At(r, "reply") -> [page EXCEPT !.at = "testing", !.level = request[r].next]
                 [] OTHER -> [page EXCEPT !.at = "done", !.told = request[r].ladder]
    /\ UNCHANGED <<run, closed, score, wide, stale, tangled, upsets>>

-----------------------------------------------------------------------------
(* What goes wrong                                                         *)

\* The page stops waiting; the request goes on.
LoseReply(r) ==
    /\ page.at = r /\ request[r].level > 0 /\ Upset /\ Fails(r)
    /\ UNCHANGED <<run, closed, score, wide, stale, request, tangled>>

\* The server dies: what was not committed is gone.
Crash(r) ==
    /\ request[r].level > 0 /\ Upset /\ Fails(r)
    /\ request' = [request EXCEPT ![r] = Idle]
    /\ UNCHANGED <<run, closed, score, wide, stale, tangled>>

\* Items of a level are promoted or retired, or one of them is revised.
ChangeBank(l) ==
    /\ Upset
    /\ \/ wide' = wide \cup {l} /\ l \notin wide /\ UNCHANGED stale
       \/ wide' = wide \ {l} /\ l \in wide /\ UNCHANGED stale
       \/ stale' = stale \cup {l} /\ UNCHANGED wide
    /\ UNCHANGED <<run, closed, score, page, request, tangled>>

Serve(r) == LoadRun(r) \/ EnsureOpen(r) \/ RecordAttempts(r) \/ LevelScores(r) \/ Advance(r)
            \/ Finish(r) \/ CloseSession(r) \/ Reply(r)

Next ==
    \/ \E r \in Requests : Start(r) \/ Submit(r) \/ Serve(r) \/ LoseReply(r) \/ Crash(r)
    \/ \E l \in Levels : ChangeBank(l)

-----------------------------------------------------------------------------
TypeOK ==
    /\ run.reached \in {0} \cup Levels /\ wide \subseteq Levels /\ stale \subseteq Levels
    /\ \A l \in Levels : score[l].asked % Sample = 0 /\ score[l].right <= score[l].asked
    /\ page.at \in {"start", "testing", "done"} \cup Requests

\* A finished run and what the learner was told of it are what its answers say for
\* ever after, levels too thin to test being skipped and not failed, though replies
\* were lost, a level was answered twice and the bank changed on the way.  Answers
\* that come in while another request works the run out are not seen by it.
VerdictStands ==
    ~tangled =>
        /\ run.done => run.reached = Replayed(score).reached
        /\ page.at = "done" => run.done /\ page.told = Replayed(score)
=============================================================================
