---------------------------- MODULE DeviceCards ----------------------------
(***************************************************************************)
(* What a learner answers on one device and elsewhere, what the device, a  *)
(* run and the server keep of it, and what must be true of that: the state *)
(* and the safety properties of MobileSync, which has the steps.           *)
(***************************************************************************)
EXTENDS Integers, FiniteSets

CONSTANTS
    Cards,        \* translation ids
    Answers,      \* answers given on the device, numbered by occurred_at
    WebAnswers,   \* answers given elsewhere
    CardOf,       \* the card of each answer
    Misdated,     \* answers whose timestamp the server does not accept
    Deletable,    \* translations the server may delete
    BatchLimit,   \* answers per upload
    CardLimit     \* card changes per page

ASSUME AnswersAssumption ==
    /\ IsFiniteSet(Cards) /\ Cards \subseteq Nat
    /\ Answers \subseteq Nat
    /\ Answers \cap WebAnswers = {}
    /\ CardOf \in [Answers \cup WebAnswers -> Cards]
    /\ Misdated \subseteq Answers
    /\ Deletable \subseteq Cards
    /\ BatchLimit \in Nat \ {0}
    /\ CardLimit \in Nat \ {0}

VARIABLES
    outbox,       \* device: the state of each answer
    localCards,   \* device: its copy of each card
    cursor,       \* device: its position in the card feed
    syncPhase,    \* device: the phase the sync has reached
    runStep,      \* run: where it is within the phase
    held,         \* run: the batch, reply or page in its hands
    wire,         \* uploads sent and not yet received
    known,        \* server: the translations that exist
    carded,       \* server: the cards that exist
    ledger,       \* server: the answers it has accepted
    changed,      \* server: the number of each card's last change, 0 if none
    lastChange    \* server: the last number drawn

Phases == {"idle", "reviews", "nback", "grammar_attempts", "cards", "snapshots",
           "deltas", "grammar_bank", "grammar_mastery", "finishing"}

AllAnswers == Answers \cup WebAnswers

\* A copy of a card: the answers its schedule accounts for, and whether the
\* device computed it itself (guess) or the server did.
NoCard == [answers |-> {}, guess |-> FALSE, exists |-> FALSE]
Copy == [answers : SUBSET AllAnswers, guess : BOOLEAN, exists : BOOLEAN]

Entry == [seq : Nat, card : Cards, copy : Copy]

\* What a run may hold.
Nothing == [kind |-> "nothing"]
Batch == [kind : {"batch"}, batch : SUBSET Answers]
Reply == [kind : {"reply"}, applied : SUBSET Answers, rejected : SUBSET Answers,
          cards : SUBSET Cards, copies : [Cards -> Copy]]
CardPage == [kind : {"page"}, changes : SUBSET Entry, next : Nat, more : BOOLEAN]

\* Every table of the device and the server, and what a run holds, keep their types.
CardTypes ==
    /\ outbox \in [Answers -> {"none", "pending", "applied", "rejected"}]
    /\ localCards \in [Cards -> Copy]
    /\ cursor \in Nat
    /\ syncPhase \in Phases
    /\ runStep \in {"off", "on", "sent", "replied", "asked", "paged", "pulled"}
    /\ held \in {Nothing} \cup Batch \cup Reply \cup CardPage
    /\ wire \subseteq [live : BOOLEAN, batch : SUBSET Answers]
    /\ known \subseteq Cards
    /\ carded \subseteq Cards
    /\ ledger \subseteq AllAnswers
    /\ changed \in [Cards -> Nat]
    /\ lastChange \in Nat

Pending == {a \in Answers : outbox[a] = "pending"}
Rejected == {a \in Answers : outbox[a] = "rejected"}
For(c, answers) == {a \in answers : CardOf[a] = c}

\* What the server answers when it is asked for a card.
ServerCopy(c) ==
    IF c \in carded
    THEN [answers |-> For(c, ledger), guess |-> FALSE, exists |-> TRUE]
    ELSE NoCard
-----------------------------------------------------------------------------
\* What the outbox says of an answer is what became of it, whatever uploads
\* were lost, repeated or received after their run was gone: an applied answer
\* is in the ledger until its translation is deleted, a rejected one is not.
OutboxTruthful ==
    \A a \in Answers :
        /\ outbox[a] = "applied" => a \in ledger \/ CardOf[a] \notin known
        /\ outbox[a] = "rejected" => a \notin ledger

\* The cursor stands for what the device has: a card whose last change lies at
\* or below it is held as the server has it, unless an answer for it is still
\* pending or was rejected.  Uploads change local cards without moving the
\* cursor, and pages move it past changes the device itself caused.
CursorCovers ==
    \A c \in Cards :
        /\ changed[c] <= cursor
        /\ For(c, Pending \cup Rejected) = {}
        => localCards[c] = ServerCopy(c)

\* Outbox and cursor together, with the types: the device never misreports an
\* answer or a card (storage/learning.rs, storage/corpus.rs).
CardsTruthful == CardTypes /\ OutboxTruthful /\ CursorCovers
=============================================================================
