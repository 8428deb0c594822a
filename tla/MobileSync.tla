----------------------------- MODULE MobileSync -----------------------------
(***************************************************************************)
(* One learner's device and the server: answers given offline wait in an   *)
(* outbox, and a sync run walks the phases of SyncEngine, sending the      *)
(* outbox up and pulling the learner's cards down.                         *)
(*                                                                         *)
(* What the device's store holds survives a crash; what a run holds does   *)
(* not.  A run may stop at any moment (cancelled, killed by the scheduler, *)
(* network error, reply lost), and an upload it has sent may still reach   *)
(* the server afterwards.  The server's review ledger and card feed are    *)
(* the abstract ones of ReviewStore and ChangeFeed: an upload is one step, *)
(* and a change is visible when it is made.  One run per profile is active *)
(* at a time (acquire_profile_permit), so one run is modelled.             *)
(***************************************************************************)
EXTENDS DeviceCards

deviceVars == <<outbox, localCards, cursor, syncPhase>>
runVars == <<runStep, held>>
serverVars == <<known, carded, ledger, changed, lastChange>>
vars == <<outbox, localCards, cursor, syncPhase, runStep, held, wire,
          known, carded, ledger, changed, lastChange>>

PhaseAfter ==
    [p \in Phases |->
        CASE p = "idle"             -> "reviews"
          [] p = "reviews"          -> "nback"
          [] p = "nback"            -> "grammar_attempts"
          [] p = "grammar_attempts" -> "cards"
          [] p = "cards"            -> "snapshots"
          [] p = "snapshots"        -> "deltas"
          [] p = "deltas"           -> "grammar_bank"
          [] p = "grammar_bank"     -> "grammar_mastery"
          [] p = "grammar_mastery"  -> "finishing"
          [] p = "finishing"        -> "idle"]

Init ==
    /\ outbox = [a \in Answers |-> "none"]
    /\ localCards = [c \in Cards |-> NoCard]
    /\ cursor = 0
    /\ syncPhase = "idle"
    /\ runStep = "off"
    /\ held = Nothing
    /\ wire = {}
    /\ known = Cards
    /\ carded = {}
    /\ ledger = {}
    /\ changed = [c \in Cards |-> 0]
    /\ lastChange = 0
-----------------------------------------------------------------------------
(***************************************************************************)
(* The learner answers a card of an offline session.                       *)
(***************************************************************************)

\* LearningRepository::answer, one local transaction: the card is scheduled
\* from the local copy and the answer is queued.  An answer given again
\* (repeated_answer) changes nothing.
Answer(a) ==
    /\ outbox[a] = "none"
    /\ outbox' = [outbox EXCEPT ![a] = "pending"]
    /\ localCards' = [localCards EXCEPT ![CardOf[a]] =
                        [answers |-> @.answers \cup {a}, guess |-> TRUE, exists |-> TRUE]]
    /\ UNCHANGED <<cursor, syncPhase, runVars, wire, serverVars>>
-----------------------------------------------------------------------------
(***************************************************************************)
(* The run: SyncEngine::run and what it calls.                             *)
(***************************************************************************)

\* A run starts in the phase the store holds.
Start ==
    /\ runStep = "off"
    /\ runStep' = "on"
    /\ UNCHANGED <<deviceVars, held, wire, serverVars>>

\* The run ends: what it holds is gone, an upload it has sent is on its own.
End ==
    /\ runStep' = "off"
    /\ held' = Nothing
    /\ wire' = {[u EXCEPT !.live = FALSE] : u \in wire}

\* Cancelled, killed, a network error or a lost reply.
Stop ==
    /\ runStep # "off"
    /\ End
    /\ UNCHANGED <<deviceVars, serverVars>>

\* The last answer of the outbox is acknowledged, the last page of cards is
\* applied; the work of the other phases is not modelled here.
PhaseDone ==
    CASE syncPhase = "reviews" -> runStep = "on" /\ Pending = {}
      [] syncPhase = "cards"   -> runStep = "pulled"
      [] OTHER                 -> runStep = "on"

\* advance_sync_phase is durable at once; record_sync_success ends the run.
Advance ==
    /\ PhaseDone
    /\ syncPhase' = PhaseAfter[syncPhase]
    /\ runStep' = IF syncPhase = "finishing" THEN "off" ELSE "on"
    /\ UNCHANGED <<outbox, localCards, cursor, held, wire, serverVars>>

\* Mutant of Oldest: the query does not ask for pending answers.
OldestOfAll(answers) ==
    {a \in Answers : Cardinality({b \in Answers : b <= a}) <= BatchLimit}

\* pending_reviews: the oldest answers first.
Oldest(answers) ==
    {a \in answers : Cardinality({b \in answers : b <= a}) <= BatchLimit}

SendBatch ==
    /\ syncPhase = "reviews"
    /\ runStep = "on"
    /\ Pending # {}
    /\ runStep' = "sent"
    /\ held' = [kind |-> "batch", batch |-> Oldest(Pending)]
    /\ wire' = wire \cup {[live |-> TRUE, batch |-> Oldest(Pending)]}
    /\ UNCHANGED <<deviceVars, serverVars>>

\* apply_acknowledgement.
Acknowledged(a) ==
    CASE a \in held.applied  -> "applied"
      [] a \in held.rejected -> "rejected"
      [] OTHER               -> outbox[a]

\* apply_review_response, one local transaction: the states of the answers and
\* the cards the server sent.
ApplyReply ==
    /\ runStep = "replied"
    /\ outbox' = [a \in Answers |-> Acknowledged(a)]
    /\ localCards' = [c \in Cards |-> IF c \in held.cards THEN held.copies[c] ELSE localCards[c]]
    /\ runStep' = "on"
    /\ held' = Nothing
    /\ UNCHANGED <<cursor, syncPhase, wire, serverVars>>

AskCards ==
    /\ syncPhase = "cards"
    /\ runStep = "on"
    /\ runStep' = "asked"
    /\ UNCHANGED <<deviceVars, held, wire, serverVars>>

\* delete_card refuses while an answer for the card is pending.
Blocked == \E e \in held.changes : ~e.copy.exists /\ For(e.card, Pending) # {}

\* The feed has one change per card.
LocalAfterPage(c) ==
    IF \E e \in held.changes : e.card = c
    THEN (CHOOSE e \in held.changes : e.card = c).copy
    ELSE localCards[c]

\* apply_card_page, one local transaction: the changes and the cursor, or
\* nothing and the run ends with a conflict.
ApplyPage ==
    /\ runStep = "paged"
    /\ IF Blocked
       THEN End /\ UNCHANGED deviceVars
       ELSE /\ localCards' = [c \in Cards |-> LocalAfterPage(c)]
            /\ cursor' = held.next
            /\ runStep' = IF held.more THEN "on" ELSE "pulled"
            /\ held' = Nothing
            /\ UNCHANGED <<outbox, syncPhase, wire>>
    /\ UNCHANGED serverVars
-----------------------------------------------------------------------------
(***************************************************************************)
(* The server.                                                             *)
(***************************************************************************)

\* The cards changed by a transaction draw their numbers in ascending order.
Renumbered(cards) ==
    [c \in Cards |->
        IF c \in cards THEN lastChange + Cardinality({d \in cards : d <= c}) ELSE changed[c]]

\* The ledger takes answers: their cards exist and are replayed.
Accept(answers) ==
    LET cards == {CardOf[a] : a \in answers}
    IN /\ ledger' = ledger \cup answers
       /\ carded' = carded \cup cards
       /\ changed' = Renumbered(cards)
       /\ lastChange' = lastChange + Cardinality(cards)
       /\ UNCHANGED known

\* Mutant of Acceptable: an answer that was sent before is refused.
FirstTimeOnly(a) == CardOf[a] \in known /\ a \notin Misdated \cup ledger

\* review_rejection_reason.
Acceptable(a) == CardOf[a] \in known /\ a \notin Misdated

\* upload_reviews.  The reply carries the cards of the acceptable answers; it
\* reaches the run only if the run still waits for it.
ReceiveUpload(u) ==
    /\ u \in wire
    /\ wire' = wire \ {u}
    /\ LET valid == {a \in u.batch : Acceptable(a)}
       IN /\ Accept(valid \ ledger)
          /\ IF u.live
             THEN /\ runStep' = "replied"
                  /\ held' = [kind |-> "reply", applied |-> valid,
                              rejected |-> u.batch \ valid,
                              cards |-> {CardOf[a] : a \in valid},
                              copies |-> [c \in Cards |-> ServerCopy(c)']]
             ELSE UNCHANGED runVars
    /\ UNCHANGED deviceVars

Changes == {c \in Cards : changed[c] > cursor}

\* card_changes: the last change of each card above the cursor, in order.
ServePage ==
    /\ runStep = "asked"
    /\ LET page == {c \in Changes :
                      Cardinality({d \in Changes : changed[d] <= changed[c]}) <= CardLimit}
       IN \E n \in {changed[c] : c \in page} \cup {cursor} :
            /\ \A c \in page : changed[c] <= n
            /\ held' = [kind |-> "page", next |-> n, more |-> page # Changes,
                        changes |-> {[seq |-> changed[c], card |-> c, copy |-> ServerCopy(c)]
                                       : c \in page}]
    /\ runStep' = "paged"
    /\ UNCHANGED <<deviceVars, wire, serverVars>>

\* The learner answers on the web or on another device.
AnswerElsewhere(a) ==
    /\ a \notin ledger
    /\ CardOf[a] \in known
    /\ Accept({a})
    /\ UNCHANGED <<deviceVars, runVars, wire>>

\* A translation is deleted with its card and its answers.
DeleteTranslation(c) ==
    /\ c \in known
    /\ known' = known \ {c}
    /\ carded' = carded \ {c}
    /\ ledger' = ledger \ For(c, ledger)
    /\ changed' = IF c \in carded THEN Renumbered({c}) ELSE changed
    /\ lastChange' = IF c \in carded THEN lastChange + 1 ELSE lastChange
    /\ UNCHANGED <<deviceVars, runVars, wire>>
-----------------------------------------------------------------------------
Run == Start \/ Advance \/ SendBatch \/ ApplyReply \/ AskCards \/ ApplyPage

Server ==
    \/ \E u \in wire : ReceiveUpload(u)
    \/ ServePage
    \/ \E a \in WebAnswers : AnswerElsewhere(a)
    \/ \E c \in Deletable : DeleteTranslation(c)

Next ==
    \/ \E a \in Answers : Answer(a)
    \/ Run
    \/ Stop
    \/ Server

Spec == Init /\ [][Next]_vars
-----------------------------------------------------------------------------
(***************************************************************************)
(* Properties                                                              *)
(***************************************************************************)

\* Runs keep being started; a step of a run or of the server that is possible
\* again and again happens in the end, although any run may be stopped.
Fairness ==
    /\ WF_vars(Start)
    /\ SF_vars(Advance)
    /\ SF_vars(SendBatch)
    /\ SF_vars(\E u \in wire : u.live /\ ReceiveUpload(u))
    /\ SF_vars(ApplyReply)
    /\ SF_vars(AskCards)
    /\ SF_vars(ServePage)
    /\ SF_vars(ApplyPage)

FairSpec == Spec /\ Fairness

\* Every answer is acknowledged in the end.
Uploaded == \A a \in Answers : outbox[a] = "pending" ~> outbox[a] \in {"applied", "rejected"}

NothingDeleted == [](known = Cards)

\* Every answer is acknowledged in the end, however often runs are stopped,
\* replies lost and batches sent again, as long as no translation is deleted.
UploadedIfKept == NothingDeleted => Uploaded

\* Then the device also holds, in the end and from then on, every card as the
\* server has it, whatever is answered elsewhere and in whatever order replies
\* and pages arrive.  Cards of rejected answers are exempt.
Mirrored ==
    NothingDeleted =>
        \A c \in Cards : <>[](For(c, Rejected) = {} => localCards[c] = ServerCopy(c))
=============================================================================
