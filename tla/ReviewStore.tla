---------------------------- MODULE ReviewStore -----------------------------
(***************************************************************************)
(* What the review ledger promises to its callers: a set of accepted       *)
(* answers, and for every card the scheduling state that replaying all its *)
(* accepted answers gives, with no moment at which the two disagree.       *)
(* Answers are accepted in groups; deleting a translation forgets its card *)
(* and its answers together.                                               *)
(***************************************************************************)
CONSTANTS
    Cards,        \* the cards of one learner
    Answers,      \* the answers that may be submitted
    CardOf        \* the card each answer is for

VARIABLES
    accepted,     \* the answers in the ledger
    schedule      \* for each card, the answers its state accounts for

vars == <<accepted, schedule>>

For(c, answers) == {a \in answers : CardOf[a] = c}

Init ==
    /\ accepted = {}
    /\ schedule = [c \in Cards |-> {}]

Accept(group) ==
    /\ accepted' = accepted \cup group
    /\ schedule' = [c \in Cards |-> For(c, accepted')]

Forget(c) ==
    /\ accepted' = accepted \ For(c, accepted)
    /\ schedule' = [schedule EXCEPT ![c] = {}]

Next ==
    \/ \E group \in SUBSET Answers : Accept(group)
    \/ \E c \in Cards : Forget(c)

Spec == Init /\ [][Next]_vars
=============================================================================
