------------------------- MODULE ReviewLedgerProofs -------------------------
(***************************************************************************)
(* Proofs about ReviewLedger, for every number of cards, answers, requests *)
(* and devices.                                                            *)
(***************************************************************************)
EXTENDS ReviewLedger, TLAPS, WellFoundedInduction, FiniteSetTheorems

\* Every nonempty set of naturals has a least element.
LEMMA LeastExists ==
    ASSUME NEW T, T \subseteq Nat, T # {}
    PROVE  \E x \in T : \A y \in T : x <= y
<1>1. PICK x \in T : \A y \in T : <<y, x>> \notin OpToRel(<, Nat)
  BY NatLessThanWellFounded, WFMin
<1>2. ASSUME NEW y \in T
      PROVE  x <= y
  <2>1. <<y, x>> \notin {p \in Nat \X Nat : p[1] < p[2]}
    BY <1>1, <1>2 DEF OpToRel
  <2>2. x \in Nat /\ y \in Nat
    OBVIOUS
  <2> QED
    BY <2>1, <2>2
<1> QED
  BY <1>2

\* The cards of the valid answers are cards.
LEMMA AffectedType ==
    ASSUME TypeOK, NEW r \in Requests
    PROVE  Valid(r) \subseteq Answers /\ Affected(r) \subseteq Cards
BY LedgerAssumption DEF Valid, Affected, TypeOK

\* A batch with valid answers has an earliest one.
LEMMA EarliestType ==
    ASSUME TypeOK, NEW r \in Requests, Valid(r) # {}
    PROVE  Earliest(r) \in Nat
<1> DEFINE T == {At[a] : a \in Valid(r)}
<1>1. T \subseteq Nat /\ T # {}
  BY AffectedType, LedgerAssumption
<1>2. PICK t \in T : \A u \in T : t <= u
  <2> HIDE DEF T
  <2> QED
    BY <1>1, LeastExists
<1>3. \A a \in Valid(r) : t <= At[a]
  BY <1>2
<1>4. t \in {At[a] : a \in Valid(r)}
  OBVIOUS
<1> HIDE DEF T
<1> QED
  BY <1>1, <1>3, <1>4 DEF Earliest, T

NonEmptyInv ==
    \A r \in Requests : InTransaction(r) => Valid(r) # {}

\* No request is in a transaction yet.
LEMMA InitTypeOK == Init => TypeOK /\ NonEmptyInv
<1> SUFFICES ASSUME Init
             PROVE  TypeOK /\ NonEmptyInv
  OBVIOUS
<1>1. PICK plan \in Plans : pc = [r \in Requests |-> IF r \in plan THEN "idle" ELSE "absent"]
  BY DEF Init
<1>2. NonEmptyInv
  BY <1>1 DEF NonEmptyInv, InTransaction
<1>3. tx \in [Requests -> [rows : SUBSET Cards, baseline : [Cards -> Nat],
                            locked : SUBSET Cards, answers : SUBSET Answers,
                            schedule : [Cards -> SUBSET Answers]]]
  BY DEF Init, NothingWritten
<1>4. rows \subseteq Cards /\ baseline \in [Cards -> Nat]
  BY LedgerAssumption DEF Init
<1>5. reply \in [Requests -> [Answers -> Status]]
  BY DEF Init, NoReply, Status
<1> QED
  BY <1>1, <1>2, <1>3, <1>4, <1>5 DEF Init, TypeOK

\* What a transaction may hold.
Transactions ==
    [rows : SUBSET Cards, baseline : [Cards -> Nat], locked : SUBSET Cards,
     answers : SUBSET Answers, schedule : [Cards -> SUBSET Answers]]

\* A transaction with one field written is a transaction.
LEMMA TransactionWith ==
    ASSUME NEW t \in Transactions
    PROVE  /\ \A R \in SUBSET Cards : [t EXCEPT !.rows = R] \in Transactions
           /\ \A R \in SUBSET Cards : [t EXCEPT !.locked = R] \in Transactions
           /\ \A B \in [Cards -> Nat] : [t EXCEPT !.baseline = B] \in Transactions
           /\ \A A \in SUBSET Answers : [t EXCEPT !.answers = A] \in Transactions
           /\ \A S \in [Cards -> SUBSET Answers] : [t EXCEPT !.schedule = S] \in Transactions
BY DEF Transactions

\* A failed request keeps the types.
LEMMA FailTypeOK ==
    ASSUME TypeOK, NonEmptyInv, NEW r \in Requests, Fail(r)
    PROVE  TypeOK' /\ NonEmptyInv'
<1>1. tx' \in [Requests -> Transactions]
  BY DEF Fail, TypeOK, NothingWritten, Transactions
<1>2. TypeOK'
  BY <1>1 DEF Fail, TypeOK, Transactions, tableVars
<1>3. NonEmptyInv'
  BY DEF Fail, NonEmptyInv, InTransaction, Valid, TypeOK
<1> QED
  BY <1>2, <1>3

\* A statement that visits one card moves its request on within the transaction.
LEMMA VisitedType ==
    ASSUME TypeOK, NEW r \in Requests, NEW c, NEW next, Visited(r, c, next),
           next \in {"baselines", "locks", "answers"}
    PROVE  /\ pc' \in [Requests -> {"absent", "idle", "checked", "cards", "baselines", "locks",
                                    "answers", "replay", "commit", "done", "failed"}]
           /\ todo' \in [Requests -> SUBSET Cards]
           /\ \A q \in Requests : q # r => pc'[q] = pc[q]
           /\ pc'[r] \in {pc[r], next}
BY AffectedType DEF Visited, TypeOK

\* A transaction with answers keeps them, whatever statement it is at.
LEMMA NonEmptyStays ==
    ASSUME NonEmptyInv, refused' = refused,
           \A q \in Requests : InTransaction(q)' => InTransaction(q)
    PROVE  NonEmptyInv'
BY DEF NonEmptyInv, Valid

\* The same of a statement that visits a card.
LEMMA VisitedNonEmpty ==
    ASSUME TypeOK, NonEmptyInv, NEW r \in Requests, NEW c, NEW next, Visited(r, c, next),
           next \in {"baselines", "locks", "answers"}, InTransaction(r), refused' = refused
    PROVE  NonEmptyInv'
<1>1. \A q \in Requests : InTransaction(q)' => InTransaction(q)
  BY VisitedType DEF InTransaction
<1> QED
  BY <1>1, NonEmptyStays

\* Every step of a request keeps the types.
LEMMA ServeTypeOK ==
    ASSUME TypeOK, NonEmptyInv, NEW r \in Requests, Serve(r)
    PROVE  TypeOK' /\ NonEmptyInv'
<1> USE LedgerAssumption
<1>1. CASE Receive(r)
  <2>1. CASE Fail(r)
    BY <2>1, FailTypeOK
  <2>2. CASE ~Fail(r)
    <3> DEFINE R == IF r \in Web THEN {} ELSE {a \in Batch[r] : Refusable(a)}
    <3>1. /\ pc' = [pc EXCEPT ![r] = "checked"]
          /\ refused' = [refused EXCEPT ![r] = R]
          /\ UNCHANGED <<tableVars, revoked, pruning, todo, tx, reply>>
      BY <1>1, <2>2 DEF Receive
    <3>2. R \in SUBSET Answers
      OBVIOUS
    <3> HIDE DEF R
    <3>3. TypeOK'
      BY <3>1, <3>2 DEF TypeOK, tableVars
    <3>4. NonEmptyInv'
      BY <3>1 DEF TypeOK, NonEmptyInv, InTransaction, Valid
    <3> QED
      BY <3>3, <3>4
  <2> QED
    BY <2>1, <2>2
<1>2. CASE BeginTransaction(r)
  <2>1. CASE Fail(r)
    BY <2>1, FailTypeOK
  <2>2. CASE ~Fail(r)
    <3>1. Rejected(r) \in [Answers -> Status]
      BY DEF Rejected, Status
    <3>2. /\ UNCHANGED <<tableVars, revoked, pruning, refused, tx>>
          /\ \/ /\ pc' = [pc EXCEPT ![r] = "done"]
                /\ reply' = [reply EXCEPT ![r] = Rejected(r)]
                /\ UNCHANGED todo
             \/ /\ Valid(r) # {}
                /\ pc' = [pc EXCEPT ![r] = "cards"]
                /\ todo' = [todo EXCEPT ![r] = Affected(r)]
                /\ UNCHANGED reply
      BY <1>2, <2>2 DEF BeginTransaction
    <3>3. TypeOK'
      <4>1. pc' \in [Requests -> {"absent", "idle", "checked", "cards", "baselines", "locks",
                                  "answers", "replay", "commit", "done", "failed"}]
        BY <3>2 DEF TypeOK
      <4>2. reply' \in [Requests -> [Answers -> Status]]
        <5>1. reply' = [reply EXCEPT ![r] = Rejected(r)] \/ reply' = reply
          BY <3>2
        <5>2. reply \in [Requests -> [Answers -> Status]]
          BY DEF TypeOK
        <5> QED
          BY <3>1, <5>1, <5>2
      <4>3. todo' \in [Requests -> SUBSET Cards]
        <5>1. todo' = [todo EXCEPT ![r] = Affected(r)] \/ todo' = todo
          BY <3>2
        <5>2. todo \in [Requests -> SUBSET Cards] /\ Affected(r) \in SUBSET Cards
          BY AffectedType DEF TypeOK
        <5> QED
          BY <5>1, <5>2
      <4> QED
        BY <3>2, <4>1, <4>2, <4>3 DEF TypeOK, tableVars
    <3>4. NonEmptyInv'
      BY <3>2 DEF TypeOK, NonEmptyInv, InTransaction, Valid
    <3> QED
      BY <3>3, <3>4
  <2> QED
    BY <2>1, <2>2
<1>3. CASE EnsureCard(r)
  <2>1. Visited(r, NextCard(r), "baselines") /\ pc[r] = "cards"
    BY <1>3 DEF EnsureCard
  <2>2. tx' \in [Requests -> Transactions]
    <3> DEFINE c == NextCard(r)
               t == [tx[r] EXCEPT !.rows = @ \cup {c}]
    <3>1. tx \in [Requests -> Transactions]
      BY DEF TypeOK, Transactions
    <3>2. CASE c \in Cards /\ tx' = [tx EXCEPT ![r] = t]
      <4>1. tx[r].rows \cup {c} \in SUBSET Cards
        BY <3>1, <3>2 DEF Transactions
      <4>2. t \in Transactions
        BY <3>1, <4>1, TransactionWith
      <4> QED
        BY <3>1, <3>2, <4>2
    <3>3. UNCHANGED tx \/ (c \in Cards /\ tx' = [tx EXCEPT ![r] = t])
      BY <1>3, <3>1 DEF EnsureCard, TypeOK, Transactions
    <3> QED
      BY <3>1, <3>2, <3>3
  <2>3. TypeOK'
    BY <1>3, <2>1, <2>2, VisitedType DEF EnsureCard, TypeOK, Transactions, tableVars
  <2>4. NonEmptyInv'
    BY <1>3, <2>1, VisitedNonEmpty DEF EnsureCard, InTransaction
  <2> QED
    BY <2>3, <2>4
<1>4. CASE EnsureBaseline(r)
  <2>1. Visited(r, NextCard(r), "locks") /\ pc[r] = "baselines"
    BY <1>4 DEF EnsureBaseline
  <2>2. \A c \in Cards : CapturedAt(r, c) \in Nat
    BY <2>1, EarliestType DEF CapturedAt, NonEmptyInv, InTransaction
  <2>3. tx' \in [Requests -> Transactions]
    <3> DEFINE c == NextCard(r)
    <3>1. CASE UNCHANGED tx
      BY <3>1 DEF TypeOK, Transactions
    <3>2. CASE c \in rows \cup tx[r].rows /\ tx' = [tx EXCEPT ![r].baseline[c] = CapturedAt(r, c)]
      <4>1. c \in Cards
        BY <3>2 DEF TypeOK
      <4>2. CapturedAt(r, c) \in Nat
        BY <4>1, <2>2
      <4> DEFINE B == [tx[r].baseline EXCEPT ![c] = CapturedAt(r, c)]
      <4>3. tx \in [Requests -> Transactions]
        BY DEF TypeOK, Transactions
      <4>4. B \in [Cards -> Nat]
        BY <4>2, <4>3 DEF Transactions
      <4>5. [tx[r] EXCEPT !.baseline = B] \in Transactions
        BY <4>3, <4>4, TransactionWith
      <4>6. tx' = [tx EXCEPT ![r] = [tx[r] EXCEPT !.baseline = B]]
        BY <3>2
      <4> QED
        BY <4>3, <4>5, <4>6
    <3> QED
      BY <1>4, <3>1, <3>2 DEF EnsureBaseline
  <2>4. TypeOK'
    BY <1>4, <2>1, <2>3, VisitedType DEF EnsureBaseline, TypeOK, Transactions, tableVars
  <2>5. NonEmptyInv'
    BY <1>4, <2>1, VisitedNonEmpty DEF EnsureBaseline, InTransaction
  <2> QED
    BY <2>4, <2>5
<1>5. CASE LockCard(r)
  <2>1. Visited(r, NextCard(r), "answers") /\ pc[r] = "locks"
    BY <1>5 DEF LockCard
  <2>2. tx' \in [Requests -> Transactions]
    <3> DEFINE c == NextCard(r)
               t == [tx[r] EXCEPT !.locked = @ \cup {c}]
    <3>1. tx \in [Requests -> Transactions]
      BY DEF TypeOK, Transactions
    <3>2. CASE c \in Cards /\ tx' = [tx EXCEPT ![r] = t]
      <4>1. tx[r].locked \cup {c} \in SUBSET Cards
        BY <3>1, <3>2 DEF Transactions
      <4>2. t \in Transactions
        BY <3>1, <4>1, TransactionWith
      <4> QED
        BY <3>1, <3>2, <4>2
    <3>3. UNCHANGED tx \/ (c \in Cards /\ tx' = [tx EXCEPT ![r] = t])
      BY <1>5, <3>1 DEF LockCard, TypeOK, Transactions
    <3> QED
      BY <3>1, <3>2, <3>3
  <2>3. TypeOK'
    BY <1>5, <2>1, <2>2, VisitedType DEF LockCard, TypeOK, Transactions, tableVars
  <2>4. NonEmptyInv'
    BY <1>5, <2>1, VisitedNonEmpty DEF LockCard, InTransaction
  <2> QED
    BY <2>3, <2>4
<1>6. CASE InsertAnswers(r)
  <2>1. CASE Fail(r)
    BY <2>1, FailTypeOK
  <2>2. CASE ~Fail(r)
    <3>1. New(r) \subseteq Answers
      BY AffectedType DEF New
    <3>2. tx' \in [Requests -> Transactions]
      <4>1. tx \in [Requests -> Transactions]
        BY DEF TypeOK, Transactions
      <4>2. [tx[r] EXCEPT !.answers = New(r)] \in Transactions
        BY <3>1, <4>1, TransactionWith
      <4>3. tx' = [tx EXCEPT ![r] = [tx[r] EXCEPT !.answers = New(r)]]
        BY <1>6, <2>2 DEF InsertAnswers
      <4> QED
        BY <4>1, <4>2, <4>3
    <3>3. /\ pc' = [pc EXCEPT ![r] = "replay"] /\ pc[r] = "answers"
          /\ todo' = [todo EXCEPT ![r] = {}]
          /\ UNCHANGED <<tableVars, revoked, pruning, refused, reply>>
      BY <1>6, <2>2 DEF InsertAnswers
    <3>4. TypeOK'
      BY <3>2, <3>3 DEF TypeOK, Transactions, tableVars
    <3>5. \A q \in Requests : InTransaction(q)' => InTransaction(q)
      BY <3>3 DEF TypeOK, InTransaction
    <3>6. NonEmptyInv'
      BY <3>3, <3>5, NonEmptyStays
    <3> QED
      BY <3>4, <3>6
  <2> QED
    BY <2>1, <2>2
<1>7. CASE Replay(r)
  <2>1. \A c \in Cards : Replayed(r, c) \subseteq Answers
    BY DEF Replayed, For, TypeOK
  <2> DEFINE S == [c \in Cards |-> IF For(c, tx[r].answers) # {} THEN Replayed(r, c) ELSE {}]
  <2>2. S \in [Cards -> SUBSET Answers]
    BY <2>1
  <2>3. tx' \in [Requests -> Transactions]
    <3>1. tx \in [Requests -> Transactions]
      BY DEF TypeOK, Transactions
    <3>2. [tx[r] EXCEPT !.schedule = S] \in Transactions
      BY <2>2, <3>1, TransactionWith
    <3>3. tx' = [tx EXCEPT ![r] = [tx[r] EXCEPT !.schedule = S]]
      BY <1>7 DEF Replay
    <3> QED
      BY <3>1, <3>2, <3>3
  <2>4. TypeOK'
    BY <1>7, <2>3 DEF Replay, TypeOK, Transactions, tableVars
  <2>5. NonEmptyInv'
    BY <1>7, NonEmptyStays DEF Replay, TypeOK, InTransaction
  <2> QED
    BY <2>4, <2>5
<1>8. CASE Commit(r)
  <2>1. Outcome(r) \in [Answers -> Status]
    BY DEF Outcome, Status
  <2>2. reply' \in [Requests -> [Answers -> Status]]
    BY <1>8, <2>1 DEF Commit, TypeOK
  <2>3. tx' \in [Requests -> Transactions]
    BY <1>8 DEF Commit, TypeOK, Transactions, NothingWritten
  <2>4. baseline' \in [Cards -> Nat] /\ schedule' \in [Cards -> SUBSET Answers]
    BY <1>8 DEF Commit, TypeOK, BaselineOf
  <2>5. TypeOK'
    BY <1>8, <2>2, <2>3, <2>4 DEF Commit, TypeOK, Transactions
  <2>6. NonEmptyInv'
    BY <1>8, NonEmptyStays DEF Commit, TypeOK, InTransaction
  <2> QED
    BY <2>5, <2>6
<1> QED
  BY <1>1, <1>2, <1>3, <1>4, <1>5, <1>6, <1>7, <1>8 DEF Serve

\* Every step keeps every variable in its type.
LEMMA StepTypeOK == TypeOK /\ NonEmptyInv /\ [Next]_vars => TypeOK' /\ NonEmptyInv'
<1> SUFFICES ASSUME TypeOK, NonEmptyInv, [Next]_vars
             PROVE  TypeOK' /\ NonEmptyInv'
  OBVIOUS
<1> USE LedgerAssumption
<1>1. ASSUME NEW r \in Requests, Abort(r)
      PROVE  TypeOK' /\ NonEmptyInv'
  BY <1>1, FailTypeOK DEF Abort
<1>2. ASSUME NEW c \in Cards, PruneLock(c)
      PROVE  TypeOK' /\ NonEmptyInv'
  BY <1>2 DEF PruneLock, TypeOK, NonEmptyInv, InTransaction, Valid, tableVars, requestVars
<1>3. ASSUME NEW c \in Cards, PruneDelete(c)
      PROVE  TypeOK' /\ NonEmptyInv'
  BY <1>3 DEF PruneDelete, TypeOK, NonEmptyInv, InTransaction, Valid, For, requestVars
<1>4. CASE PruneRollback
  BY <1>4 DEF PruneRollback, TypeOK, NonEmptyInv, InTransaction, Valid, tableVars, requestVars
<1>5. ASSUME NEW d \in Devices, Revoke(d)
      PROVE  TypeOK' /\ NonEmptyInv'
  BY <1>5 DEF Revoke, TypeOK, NonEmptyInv, InTransaction, Valid, tableVars, requestVars
<1>6. CASE UNCHANGED vars
  BY <1>6 DEF vars, TypeOK, NonEmptyInv, InTransaction, Valid
<1> QED
  BY <1>1, <1>2, <1>3, <1>4, <1>5, <1>6, ServeTypeOK DEF Next

\* Every table, transaction and reply of the ledger keeps its type.
THEOREM TypeCorrect == Spec => []TypeOK
BY InitTypeOK, StepTypeOK, PTL DEF Spec
-----------------------------------------------------------------------------
(***************************************************************************)
(* The inductive invariant.  A transaction holds the rows it has inserted  *)
(* and the locks it has taken alone, so that what it read under its locks  *)
(* still holds when it commits; and the ledger never holds an answer that  *)
(* may be refused.                                                         *)
(***************************************************************************)

\* What an open transaction has written is its own, and its rows exist.
RowsInv ==
    /\ rows \subseteq known
    /\ \A r \in Requests :
         /\ ~InTransaction(r) => tx[r] = NothingWritten
         /\ tx[r].rows \subseteq known \ pruning
         /\ tx[r].locked \subseteq known
         /\ \A q \in Requests \ {r} : tx[r].locked \cap tx[q].locked = {}

\* One transaction at most is about to give a card its baseline, and none
\* while the card has one.
BaselineInv ==
    \A r \in Requests, c \in Cards :
        tx[r].baseline[c] # 0 =>
            baseline[c] = 0 /\ \A q \in Requests \ {r} : tx[q].baseline[c] = 0

\* From its insert to its commit a transaction holds the lock of every card it
\* touches, and its answers are new or stored, and none before the baseline.
InsertedInv ==
    \A r \in Requests :
        /\ InTransaction(r) => \A a \in Valid(r) : At[a] <= Now + Ahead
        /\ pc[r] \notin {"replay", "commit"} => tx[r].answers = {}
        /\ pc[r] \in {"replay", "commit"} =>
             /\ tx[r].locked = Affected(r)
             /\ tx[r].answers \subseteq Valid(r)
             /\ Valid(r) \subseteq ledger \cup tx[r].answers
             /\ \A a \in Valid(r) :
                  BaselineOf(r, CardOf[a]) # 0 /\ BaselineOf(r, CardOf[a]) <= At[a]

\* No answer of the ledger may be refused, and its card has a baseline.
LedgerInv ==
    \A a \in ledger : ~Refusable(a) /\ baseline[CardOf[a]] # 0

\* A schedule accounts for all answers of its card, in the tables and in what
\* a transaction is about to commit.
ScheduleInv ==
    /\ \A c \in Cards : schedule[c] = For(c, ledger)
    /\ \A r \in Requests, c \in Cards :
         pc[r] = "commit" /\ For(c, tx[r].answers) # {} =>
             tx[r].schedule[c] = For(c, ledger \cup tx[r].answers)

\* What was refused may be refused for ever.
RefusedInv ==
    \A r \in Requests, a \in Answers :
        /\ pc[r] = "idle" => refused[r] = {}
        /\ a \in refused[r] => Refusable(a)
        /\ reply[r][a] = "rejected" => a \in refused[r]

\* What was told applied is there as long as its translation.
AppliedInv ==
    \A r \in Requests, a \in Answers :
        reply[r][a] \in {"applied", "already"} => a \in ledger \/ CardOf[a] \notin known

LedgerIInv ==
    /\ RowsInv /\ BaselineInv /\ InsertedInv
    /\ LedgerInv /\ ScheduleInv /\ RefusedInv /\ AppliedInv

\* Nothing is written, locked, refused or told yet, and the ledger is empty.
LEMMA InitLedgerIInv == Init => LedgerIInv
<1> SUFFICES ASSUME Init
             PROVE  LedgerIInv
  OBVIOUS
<1> USE LedgerAssumption
<1>1. \A r \in Requests : pc[r] \in {"idle", "absent"} /\ tx[r] = NothingWritten
  BY DEF Init
<1>2. RowsInv
  BY <1>1 DEF Init, RowsInv, NothingWritten
<1>3. BaselineInv
  BY <1>1 DEF BaselineInv, NothingWritten
<1>4. InsertedInv
  BY <1>1 DEF InsertedInv, NothingWritten, InTransaction
<1>5. LedgerInv /\ RefusedInv /\ AppliedInv
  BY DEF Init, LedgerInv, RefusedInv, AppliedInv, NoReply
<1>6. ScheduleInv
  BY <1>1 DEF Init, ScheduleInv, For, NothingWritten
<1> QED
  BY <1>2, <1>3, <1>4, <1>5, <1>6 DEF LedgerIInv

\* A step that touches no table, no reply and no refusal.
LEMMA TablesKept ==
    ASSUME LedgerIInv, UNCHANGED <<tableVars, refused, reply>>,
           \A r \in Requests : pc'[r] = "idle" => pc[r] = "idle"
    PROVE  LedgerInv' /\ RefusedInv' /\ AppliedInv'
BY DEF LedgerIInv, LedgerInv, RefusedInv, AppliedInv, Refusable, tableVars

\* The statements of one transaction, up to its insert.
Within(r) ==
    /\ UNCHANGED <<tableVars, pruning, refused, reply>>
    /\ InTransaction(r) /\ pc'[r] \in {"cards", "baselines", "locks", "answers"}
    /\ pc[r] \in {"cards", "baselines", "locks", "answers"}
    /\ \A q \in Requests \ {r} : pc'[q] = pc[q] /\ tx'[q] = tx[q]
    /\ tx'[r].answers = tx[r].answers

\* Such a statement keeps everything but what it says of rows and baselines.
LEMMA WithinKeeps ==
    ASSUME TypeOK, LedgerIInv, NEW r \in Requests, Within(r)
    PROVE  LedgerInv' /\ RefusedInv' /\ AppliedInv' /\ InsertedInv' /\ ScheduleInv'
<1>1. LedgerInv' /\ RefusedInv' /\ AppliedInv'
  BY TablesKept DEF Within
<1>2. InsertedInv'
  <2> SUFFICES ASSUME NEW q \in Requests
               PROVE  /\ InTransaction(q)' => \A a \in Valid(q)' : At[a] <= Now + Ahead
                      /\ pc'[q] \notin {"replay", "commit"} => tx'[q].answers = {}
                      /\ pc'[q] \in {"replay", "commit"} =>
                           /\ tx'[q].locked = Affected(q)'
                           /\ tx'[q].answers \subseteq Valid(q)'
                           /\ Valid(q)' \subseteq ledger' \cup tx'[q].answers
                           /\ \A a \in Valid(q)' :
                                BaselineOf(q, CardOf[a])' # 0 /\ BaselineOf(q, CardOf[a])' <= At[a]
    BY DEF InsertedInv
  <2>1. Valid(q)' = Valid(q) /\ Affected(q)' = Affected(q)
    BY DEF Within, Valid, Affected
  <2>2. CASE q = r
    BY <2>1, <2>2 DEF Within, LedgerIInv, InsertedInv
  <2>3. CASE q # r
    BY <2>1, <2>3 DEF Within, LedgerIInv, InsertedInv, InTransaction, BaselineOf, tableVars
  <2> QED
    BY <2>2, <2>3
<1>3. ScheduleInv'
  BY DEF Within, LedgerIInv, ScheduleInv, For, tableVars
<1> QED
  BY <1>1, <1>2, <1>3

\* A rolled-back transaction gives up what it has written and locked.
LEMMA FailLedgerIInv ==
    ASSUME TypeOK, LedgerIInv, NEW r \in Requests, Fail(r)
    PROVE  LedgerIInv'
<1>1. /\ pc'[r] = "failed" /\ tx'[r] = NothingWritten
      /\ \A q \in Requests \ {r} : pc'[q] = pc[q] /\ tx'[q] = tx[q]
      /\ UNCHANGED <<tableVars, pruning, refused, reply>>
  BY DEF Fail, TypeOK
<1>2. LedgerInv' /\ RefusedInv' /\ AppliedInv'
  BY <1>1, TablesKept
<1>3. RowsInv'
  <2>1. tx'[r].rows = {} /\ tx'[r].locked = {}
    BY <1>1 DEF NothingWritten
  <2>2. \A q \in Requests \ {r} : InTransaction(q)' = InTransaction(q)
    BY <1>1 DEF InTransaction
  <2>3. ~InTransaction(r)'
    BY <1>1 DEF InTransaction
  <2> QED
    BY <1>1, <2>1, <2>2, <2>3 DEF LedgerIInv, RowsInv, NothingWritten, tableVars
<1>4. BaselineInv'
  BY <1>1 DEF LedgerIInv, BaselineInv, NothingWritten, tableVars
<1>5. InsertedInv'
  BY <1>1 DEF LedgerIInv, InsertedInv, InTransaction, NothingWritten, tableVars,
              Valid, Affected, BaselineOf
<1>6. ScheduleInv'
  BY <1>1 DEF LedgerIInv, ScheduleInv, For, tableVars
<1> QED
  BY <1>2, <1>3, <1>4, <1>5, <1>6 DEF LedgerIInv

\* What is refused on arrival may be refused.
LEMMA ReceiveLedgerIInv ==
    ASSUME TypeOK, LedgerIInv, NEW r \in Requests, Receive(r)
    PROVE  LedgerIInv'
<1>1. CASE Fail(r)
  BY <1>1, FailLedgerIInv
<1>2. CASE ~Fail(r)
  <2> DEFINE R == IF r \in Web THEN {} ELSE {a \in Batch[r] : Refusable(a)}
  <2>1. /\ pc[r] = "idle" /\ pc' = [pc EXCEPT ![r] = "checked"]
        /\ refused' = [refused EXCEPT ![r] = R]
        /\ UNCHANGED <<tableVars, pruning, tx, reply>>
    BY <1>2 DEF Receive
  <2>2. \A a \in R : Refusable(a)
    OBVIOUS
  <2> HIDE DEF R
  <2>3. pc'[r] = "checked" /\ \A q \in Requests \ {r} : pc'[q] = pc[q]
    BY <2>1 DEF TypeOK
  <2>4. refused'[r] = R /\ \A q \in Requests \ {r} : refused'[q] = refused[q]
    BY <2>1 DEF TypeOK
  <2>5. \A q \in Requests : InTransaction(q)' = InTransaction(q)
    BY <2>1, <2>3 DEF InTransaction
  <2>6. RowsInv' /\ BaselineInv'
    BY <2>1, <2>5 DEF LedgerIInv, RowsInv, BaselineInv, tableVars
  <2>7. InsertedInv'
    BY <2>1, <2>3, <2>4, <2>5 DEF LedgerIInv, InsertedInv, InTransaction, tableVars,
                                  Valid, Affected, BaselineOf
  <2>8. LedgerInv' /\ ScheduleInv' /\ AppliedInv'
    BY <2>1, <2>3 DEF LedgerIInv, LedgerInv, ScheduleInv, AppliedInv, Refusable, For, tableVars
  <2>9. RefusedInv'
    <3>1. \A a \in Answers : Refusable(a)' = Refusable(a)
      BY <2>1 DEF Refusable, tableVars
    <3> QED
      BY <2>1, <2>2, <2>3, <2>4, <3>1 DEF LedgerIInv, RefusedInv
  <2> QED
    BY <2>6, <2>7, <2>8, <2>9 DEF LedgerIInv
<1> QED
  BY <1>1, <1>2

\* The clock is checked before anything is written.
LEMMA BeginLedgerIInv ==
    ASSUME TypeOK, LedgerIInv, NEW r \in Requests, BeginTransaction(r)
    PROVE  LedgerIInv'
<1>1. CASE Fail(r)
  BY <1>1, FailLedgerIInv
<1>2. CASE ~Fail(r)
  <2>1. /\ pc[r] = "checked" /\ pc'[r] \in {"done", "cards"}
        /\ \A a \in Valid(r) : ~(At[a] > Now + Ahead)
        /\ \A q \in Requests \ {r} : pc'[q] = pc[q] /\ reply'[q] = reply[q]
        /\ reply'[r] \in {reply[r], Rejected(r)}
        /\ UNCHANGED <<tableVars, pruning, refused, tx>>
    BY <1>2 DEF BeginTransaction, TypeOK
  <2>2. \A a \in Valid(r) : At[a] <= Now + Ahead
    BY <2>1, AffectedType, LedgerAssumption
  <2>3. tx[r] = NothingWritten
    BY <2>1 DEF LedgerIInv, RowsInv, InTransaction
  <2>4. RowsInv'
    <3>1. \A q \in Requests \ {r} : InTransaction(q)' = InTransaction(q)
      BY <2>1 DEF InTransaction
    <3> QED
      BY <2>1, <2>3, <3>1 DEF LedgerIInv, RowsInv, tableVars
  <2>5. BaselineInv'
    BY <2>1 DEF LedgerIInv, BaselineInv, tableVars
  <2>6. InsertedInv'
    BY <2>1, <2>2, <2>3 DEF LedgerIInv, InsertedInv, InTransaction, tableVars,
                            Valid, Affected, BaselineOf, NothingWritten
  <2>7. LedgerInv' /\ ScheduleInv'
    BY <2>1 DEF LedgerIInv, LedgerInv, ScheduleInv, Refusable, For, tableVars
  <2>8. RefusedInv' /\ AppliedInv'
    <3>1. \A a \in Answers : Refusable(a)' = Refusable(a)
      BY <2>1 DEF Refusable, tableVars
    <3>2. \A a \in Answers : /\ Rejected(r)[a] = "rejected" => a \in refused[r]
                             /\ Rejected(r)[a] \notin {"applied", "already"}
      BY DEF Rejected
    <3> QED
      BY <2>1, <3>1, <3>2 DEF LedgerIInv, RefusedInv, AppliedInv, tableVars
  <2> QED
    BY <2>4, <2>5, <2>6, <2>7, <2>8 DEF LedgerIInv
<1> QED
  BY <1>1, <1>2

\* A card is inserted only for a translation that nobody is deleting.
LEMMA EnsureCardLedgerIInv ==
    ASSUME TypeOK, LedgerIInv, NEW r \in Requests, EnsureCard(r)
    PROVE  LedgerIInv'
<1> DEFINE c == NextCard(r)
<1>1. /\ pc[r] = "cards" /\ Visited(r, c, "baselines")
      /\ UNCHANGED <<tableVars, pruning, refused, reply>>
      /\ \/ UNCHANGED tx
         \/ c \in known \ pruning /\ tx' = [tx EXCEPT ![r].rows = @ \cup {c}]
  BY DEF EnsureCard
<1> HIDE DEF c
<1>2. pc'[r] \in {"cards", "baselines"} /\ \A q \in Requests \ {r} : pc'[q] = pc[q]
  BY <1>1, VisitedType
<1>3. /\ \A q \in Requests \ {r} : tx'[q] = tx[q]
      /\ \/ tx'[r].rows = tx[r].rows
         \/ c \in known \ pruning /\ tx'[r].rows = tx[r].rows \cup {c}
      /\ tx'[r].locked = tx[r].locked /\ tx'[r].answers = tx[r].answers
      /\ tx'[r].baseline = tx[r].baseline
  BY <1>1 DEF TypeOK
<1>4. Within(r)
  BY <1>1, <1>2, <1>3 DEF Within, InTransaction
<1>5. RowsInv'
  <2>1. \A q \in Requests : InTransaction(q)' = InTransaction(q)
    BY <1>1, <1>2 DEF InTransaction
  <2>2. InTransaction(r)
    BY <1>1 DEF InTransaction
  <2> QED
    BY <1>1, <1>3, <2>1, <2>2 DEF LedgerIInv, RowsInv, tableVars
<1>6. BaselineInv'
  BY <1>1, <1>3 DEF LedgerIInv, BaselineInv, tableVars
<1> QED
  BY <1>4, <1>5, <1>6, WithinKeeps DEF LedgerIInv

\* A baseline is inserted when nobody else is about to insert it.
LEMMA EnsureBaselineLedgerIInv ==
    ASSUME TypeOK, LedgerIInv, NEW r \in Requests, EnsureBaseline(r)
    PROVE  LedgerIInv'
<1> DEFINE c == NextCard(r)
           t == CapturedAt(r, c)
<1>1. /\ pc[r] = "baselines" /\ Visited(r, c, "locks")
      /\ \A q \in Others(r) : tx[q].baseline[c] = 0
      /\ UNCHANGED <<tableVars, pruning, refused, reply>>
      /\ \/ UNCHANGED tx
         \/ c \in rows \cup tx[r].rows /\ baseline[c] = 0
            /\ tx' = [tx EXCEPT ![r].baseline[c] = t]
  BY DEF EnsureBaseline
<1> HIDE DEF c, t
<1>2. pc'[r] \in {"baselines", "locks"} /\ \A q \in Requests \ {r} : pc'[q] = pc[q]
  BY <1>1, VisitedType
<1>3. /\ \A q \in Requests \ {r} : tx'[q] = tx[q]
      /\ tx'[r].locked = tx[r].locked /\ tx'[r].answers = tx[r].answers
      /\ tx'[r].rows = tx[r].rows
  BY <1>1 DEF TypeOK
<1>4. \/ tx'[r].baseline = tx[r].baseline
      \/ c \in Cards /\ baseline[c] = 0 /\ tx'[r].baseline = [tx[r].baseline EXCEPT ![c] = t]
  BY <1>1 DEF TypeOK
<1>5. Within(r)
  BY <1>1, <1>2, <1>3 DEF Within, InTransaction
<1>6. RowsInv'
  <2>1. \A q \in Requests : InTransaction(q)' = InTransaction(q)
    BY <1>1, <1>2 DEF InTransaction
  <2>2. InTransaction(r)
    BY <1>1 DEF InTransaction
  <2> QED
    BY <1>1, <1>3, <2>1, <2>2 DEF LedgerIInv, RowsInv, tableVars
<1>7. BaselineInv'
  <2>1. c \in Cards => \A q \in Requests \ {r} : tx[q].baseline[c] = 0
    BY <1>1 DEF Others, LedgerIInv, RowsInv, NothingWritten
  <2>2. tx[r].baseline \in [Cards -> Nat] /\ baseline' = baseline
    BY <1>1 DEF TypeOK, tableVars
  <2> QED
    BY <1>3, <1>4, <2>1, <2>2 DEF LedgerIInv, BaselineInv
<1> QED
  BY <1>5, <1>6, <1>7, WithinKeeps DEF LedgerIInv

\* A card is locked when nobody else holds it.
LEMMA LockCardLedgerIInv ==
    ASSUME TypeOK, LedgerIInv, NEW r \in Requests, LockCard(r)
    PROVE  LedgerIInv'
<1> DEFINE c == NextCard(r)
<1>1. /\ pc[r] = "locks" /\ Visited(r, c, "answers")
      /\ \A q \in Others(r) : c \notin tx[q].locked
      /\ UNCHANGED <<tableVars, pruning, refused, reply>>
      /\ \/ UNCHANGED tx
         \/ c \in rows \cup tx[r].rows /\ tx' = [tx EXCEPT ![r].locked = @ \cup {c}]
  BY DEF LockCard
<1> HIDE DEF c
<1>2. pc'[r] \in {"locks", "answers"} /\ \A q \in Requests \ {r} : pc'[q] = pc[q]
  BY <1>1, VisitedType
<1>3. /\ \A q \in Requests \ {r} : tx'[q] = tx[q]
      /\ \/ tx'[r].locked = tx[r].locked
         \/ c \in rows \cup tx[r].rows /\ tx'[r].locked = tx[r].locked \cup {c}
      /\ tx'[r].rows = tx[r].rows /\ tx'[r].answers = tx[r].answers
      /\ tx'[r].baseline = tx[r].baseline
  BY <1>1 DEF TypeOK
<1>4. Within(r)
  BY <1>1, <1>2, <1>3 DEF Within, InTransaction
<1>5. RowsInv'
  <2>1. \A q \in Requests : InTransaction(q)' = InTransaction(q)
    BY <1>1, <1>2 DEF InTransaction
  <2>2. InTransaction(r)
    BY <1>1 DEF InTransaction
  <2>3. \A q \in Requests \ {r} : c \notin tx[q].locked
    BY <1>1 DEF Others, LedgerIInv, RowsInv, NothingWritten
  <2>4. rows \cup tx[r].rows \subseteq known
    BY DEF LedgerIInv, RowsInv
  <2> QED
    BY <1>1, <1>3, <2>1, <2>2, <2>3, <2>4 DEF LedgerIInv, RowsInv, tableVars
<1>6. BaselineInv'
  BY <1>1, <1>3 DEF LedgerIInv, BaselineInv, tableVars
<1> QED
  BY <1>4, <1>5, <1>6, WithinKeeps DEF LedgerIInv

\* The checks that come before the insert hold of every valid answer.
LEMMA InsertLedgerIInv ==
    ASSUME TypeOK, LedgerIInv, NEW r \in Requests, InsertAnswers(r)
    PROVE  LedgerIInv'
<1>1. CASE Fail(r)
  BY <1>1, FailLedgerIInv
<1>2. CASE ~Fail(r)
  <2>1. /\ pc[r] = "answers" /\ pc' = [pc EXCEPT ![r] = "replay"]
        /\ tx[r].locked = Affected(r)
        /\ \A c \in Affected(r) : BaselineOf(r, c) # 0
        /\ ~BeforeBaseline(r) /\ ~Collision(r)
        /\ tx' = [tx EXCEPT ![r].answers = New(r)]
        /\ UNCHANGED <<tableVars, pruning, refused, reply>>
    BY <1>2 DEF InsertAnswers
  <2>2. /\ pc'[r] = "replay"
        /\ \A q \in Requests \ {r} : pc'[q] = pc[q] /\ tx'[q] = tx[q]
        /\ tx'[r].rows = tx[r].rows /\ tx'[r].locked = tx[r].locked
        /\ tx'[r].baseline = tx[r].baseline /\ tx'[r].answers = New(r)
    BY <2>1 DEF TypeOK
  <2>3. \A q \in Requests : InTransaction(q)' = InTransaction(q)
    BY <2>1, <2>2 DEF InTransaction
  <2>4. LedgerInv' /\ RefusedInv' /\ AppliedInv'
    BY <2>1, <2>2, TablesKept
  <2>5. InTransaction(r)
    BY <2>1 DEF InTransaction
  <2>6. RowsInv' /\ BaselineInv'
    BY <2>1, <2>2, <2>3, <2>5 DEF LedgerIInv, RowsInv, BaselineInv, tableVars
  <2>7. Valid(r) \subseteq ledger \cup New(r)
    BY <2>1, AffectedType DEF New, Collision
  <2>8. \A a \in Valid(r) : BaselineOf(r, CardOf[a]) # 0 /\ BaselineOf(r, CardOf[a]) <= At[a]
    <3> SUFFICES ASSUME NEW a \in Valid(r)
                 PROVE  BaselineOf(r, CardOf[a]) # 0 /\ BaselineOf(r, CardOf[a]) <= At[a]
      OBVIOUS
    <3>1. a \in Answers /\ CardOf[a] \in Cards /\ At[a] \in Nat
      BY AffectedType, LedgerAssumption
    <3>2. BaselineOf(r, CardOf[a]) \in Nat
      BY <3>1 DEF BaselineOf, TypeOK
    <3>3. CardOf[a] \in Affected(r)
      BY DEF Affected
    <3>4. ~(At[a] < BaselineOf(r, CardOf[a]))
      BY <2>1 DEF BeforeBaseline
    <3> QED
      BY <2>1, <3>1, <3>2, <3>3, <3>4
  <2>9. InsertedInv'
    <3> SUFFICES ASSUME NEW q \in Requests
                 PROVE  /\ InTransaction(q)' => \A a \in Valid(q)' : At[a] <= Now + Ahead
                        /\ pc'[q] \notin {"replay", "commit"} => tx'[q].answers = {}
                        /\ pc'[q] \in {"replay", "commit"} =>
                             /\ tx'[q].locked = Affected(q)'
                             /\ tx'[q].answers \subseteq Valid(q)'
                             /\ Valid(q)' \subseteq ledger' \cup tx'[q].answers
                             /\ \A a \in Valid(q)' :
                                  BaselineOf(q, CardOf[a])' # 0 /\ BaselineOf(q, CardOf[a])' <= At[a]
      BY DEF InsertedInv
    <3>1. Valid(q)' = Valid(q) /\ Affected(q)' = Affected(q)
      BY <2>1 DEF Valid, Affected
    <3>2. \A c : BaselineOf(q, c)' = BaselineOf(q, c)
      BY <2>1, <2>2 DEF BaselineOf, tableVars
    <3>3. New(r) \subseteq Valid(r)
      BY DEF New
    <3>4. CASE q = r
      BY <2>1, <2>2, <2>3, <2>7, <2>8, <3>1, <3>2, <3>3, <3>4
         DEF LedgerIInv, InsertedInv, tableVars
    <3>5. CASE q # r
      BY <2>1, <2>2, <2>3, <3>1, <3>2, <3>5 DEF LedgerIInv, InsertedInv, tableVars
    <3> QED
      BY <3>4, <3>5
  <2>10. ScheduleInv'
    BY <2>1, <2>2 DEF LedgerIInv, ScheduleInv, For, tableVars
  <2> QED
    BY <2>4, <2>6, <2>9, <2>10 DEF LedgerIInv
<1> QED
  BY <1>1, <1>2

\* Nothing a card has in the ledger, or in the transaction, lies before the
\* baseline: the replay from the baseline leaves none of it out.
LEMMA ReplayLedgerIInv ==
    ASSUME TypeOK, LedgerIInv, NEW r \in Requests, Replay(r)
    PROVE  LedgerIInv'
<1> DEFINE S == [c \in Cards |-> IF For(c, tx[r].answers) # {} THEN Replayed(r, c) ELSE {}]
<1>1. /\ pc[r] = "replay" /\ pc' = [pc EXCEPT ![r] = "commit"]
      /\ tx' = [tx EXCEPT ![r].schedule = S]
      /\ UNCHANGED <<tableVars, pruning, refused, reply>>
  BY DEF Replay
<1>2. \A c \in Cards : For(c, tx[r].answers) # {} => S[c] = For(c, ledger \cup tx[r].answers)
  <2> SUFFICES ASSUME NEW c \in Cards, For(c, tx[r].answers) # {},
                      NEW a \in For(c, ledger \cup tx[r].answers)
               PROVE  At[a] >= BaselineOf(r, c)
    BY DEF Replayed
  <2>1. PICK b \in tx[r].answers : CardOf[b] = c
    BY DEF For
  <2>2. b \in Valid(r) /\ BaselineOf(r, c) # 0
    BY <1>1, <2>1 DEF LedgerIInv, InsertedInv
  <2>3. a \in Answers /\ At[a] \in Nat /\ CardOf[a] = c
    BY LedgerAssumption DEF For, TypeOK
  <2>4. BaselineOf(r, c) \in Nat
    BY DEF BaselineOf, TypeOK
  <2>5. CASE a \in tx[r].answers
    <3>1. a \in Valid(r)
      BY <1>1, <2>5 DEF LedgerIInv, InsertedInv
    <3>2. BaselineOf(r, c) <= At[a]
      BY <1>1, <2>3, <3>1 DEF LedgerIInv, InsertedInv
    <3> QED
      BY <3>2, <2>3, <2>4
  <2>6. CASE a \in ledger
    <3>1. baseline[c] # 0 /\ ~(At[a] < baseline[c])
      BY <2>3, <2>6 DEF LedgerIInv, LedgerInv, Refusable
    <3>2. tx[r].baseline[c] = 0
      BY <3>1 DEF LedgerIInv, BaselineInv
    <3> QED
      BY <2>3, <2>4, <3>1, <3>2 DEF BaselineOf
  <2> QED
    BY <2>5, <2>6 DEF For
<1> HIDE DEF S
<1>3. /\ pc'[r] = "commit"
      /\ \A q \in Requests \ {r} : pc'[q] = pc[q] /\ tx'[q] = tx[q]
      /\ tx'[r].rows = tx[r].rows /\ tx'[r].locked = tx[r].locked
      /\ tx'[r].baseline = tx[r].baseline /\ tx'[r].answers = tx[r].answers
      /\ tx'[r].schedule = S
  BY <1>1 DEF TypeOK
<1>4. \A q \in Requests : InTransaction(q)' = InTransaction(q)
  BY <1>1, <1>3 DEF InTransaction
<1>5. InTransaction(r)
  BY <1>1 DEF InTransaction
<1>6. LedgerInv' /\ RefusedInv' /\ AppliedInv'
  BY <1>1, <1>3, TablesKept
<1>7. RowsInv' /\ BaselineInv'
  BY <1>1, <1>3, <1>4, <1>5 DEF LedgerIInv, RowsInv, BaselineInv, tableVars
<1>8. InsertedInv'
  <2>1. \A q \in Requests : /\ Valid(q)' = Valid(q) /\ Affected(q)' = Affected(q)
                            /\ \A c : BaselineOf(q, c)' = BaselineOf(q, c)
    BY <1>1, <1>3 DEF Valid, Affected, BaselineOf, tableVars
  <2> QED
    BY <1>1, <1>3, <1>4, <2>1 DEF LedgerIInv, InsertedInv, tableVars
<1>9. ScheduleInv'
  BY <1>1, <1>2, <1>3 DEF LedgerIInv, ScheduleInv, For, tableVars
<1> QED
  BY <1>6, <1>7, <1>8, <1>9 DEF LedgerIInv

\* A commit takes no baseline away, so that what may be refused stays so; and it
\* touches no card of a transaction that has its own replay ready.
LEMMA CommitLedgerIInv ==
    ASSUME TypeOK, LedgerIInv, NEW r \in Requests, Commit(r)
    PROVE  LedgerIInv'
<1>1. /\ pc[r] = "commit" /\ pc'[r] = "done"
      /\ \A q \in Requests \ {r} : pc'[q] = pc[q] /\ tx'[q] = tx[q] /\ reply'[q] = reply[q]
      /\ tx'[r] = NothingWritten /\ reply'[r] = Outcome(r)
      /\ rows' = rows \cup tx[r].rows
      /\ baseline' = [c \in Cards |-> BaselineOf(r, c)]
      /\ ledger' = ledger \cup tx[r].answers
      /\ schedule' = [c \in Cards |->
                        IF For(c, tx[r].answers) # {} THEN tx[r].schedule[c] ELSE schedule[c]]
      /\ UNCHANGED <<known, pruning, refused>>
  BY DEF Commit, TypeOK
<1>2. /\ tx[r].locked = Affected(r) /\ tx[r].answers \subseteq Valid(r)
      /\ Valid(r) \subseteq ledger \cup tx[r].answers
      /\ \A a \in Valid(r) : BaselineOf(r, CardOf[a]) # 0 /\ BaselineOf(r, CardOf[a]) <= At[a]
      /\ \A a \in Valid(r) : At[a] <= Now + Ahead
  BY <1>1 DEF LedgerIInv, InsertedInv, InTransaction
<1>3. \A c \in Cards : baseline[c] # 0 => baseline'[c] = baseline[c]
  BY <1>1 DEF BaselineOf, LedgerIInv, BaselineInv
<1>4. ~InTransaction(r)' /\ \A q \in Requests \ {r} : InTransaction(q)' = InTransaction(q)
  BY <1>1 DEF InTransaction
<1>5. RowsInv'
  <2>1. tx'[r].rows = {} /\ tx'[r].locked = {}
    BY <1>1 DEF NothingWritten
  <2>2. tx[r].rows \subseteq known /\ rows' \subseteq known'
    BY <1>1 DEF LedgerIInv, RowsInv
  <2> QED
    BY <1>1, <1>4, <2>1, <2>2 DEF LedgerIInv, RowsInv
<1>6. BaselineInv'
  <2> SUFFICES ASSUME NEW q \in Requests, NEW c \in Cards, tx'[q].baseline[c] # 0
               PROVE  baseline'[c] = 0 /\ \A p \in Requests \ {q} : tx'[p].baseline[c] = 0
    BY DEF BaselineInv
  <2>1. q # r /\ tx[q].baseline[c] # 0
    BY <1>1 DEF NothingWritten
  <2>2. baseline[c] = 0 /\ \A p \in Requests \ {q} : tx[p].baseline[c] = 0
    BY <2>1 DEF LedgerIInv, BaselineInv
  <2>3. baseline'[c] = 0
    BY <1>1, <2>1, <2>2 DEF BaselineOf
  <2> QED
    BY <1>1, <2>2, <2>3 DEF NothingWritten
<1>7. InsertedInv'
  <2> SUFFICES ASSUME NEW q \in Requests
               PROVE  /\ InTransaction(q)' => \A a \in Valid(q)' : At[a] <= Now + Ahead
                      /\ pc'[q] \notin {"replay", "commit"} => tx'[q].answers = {}
                      /\ pc'[q] \in {"replay", "commit"} =>
                           /\ tx'[q].locked = Affected(q)'
                           /\ tx'[q].answers \subseteq Valid(q)'
                           /\ Valid(q)' \subseteq ledger' \cup tx'[q].answers
                           /\ \A a \in Valid(q)' :
                                BaselineOf(q, CardOf[a])' # 0 /\ BaselineOf(q, CardOf[a])' <= At[a]
    BY DEF InsertedInv
  <2>1. Valid(q)' = Valid(q) /\ Affected(q)' = Affected(q)
    BY <1>1 DEF Valid, Affected
  <2>2. CASE q = r
    BY <1>1, <1>4, <2>2 DEF NothingWritten
  <2>3. CASE q # r
    <3>1. \A c \in Cards : BaselineOf(q, c) # 0 => BaselineOf(q, c)' = BaselineOf(q, c)
      BY <1>1, <1>3, <2>3 DEF BaselineOf
    <3>2. \A a \in Valid(q) : CardOf[a] \in Cards
      BY AffectedType, LedgerAssumption
    <3> QED
      BY <1>1, <1>4, <2>1, <2>3, <3>1, <3>2 DEF LedgerIInv, InsertedInv
  <2> QED
    BY <2>2, <2>3
<1>8. LedgerInv'
  <2> SUFFICES ASSUME NEW a \in ledger'
               PROVE  ~Refusable(a)' /\ baseline'[CardOf[a]] # 0
    BY DEF LedgerInv
  <2>1. a \in Answers /\ CardOf[a] \in Cards /\ At[a] \in Nat
    BY <1>1, <1>2, AffectedType, LedgerAssumption DEF TypeOK
  <2>2. CASE a \in ledger
    BY <1>1, <1>3, <2>1, <2>2 DEF LedgerIInv, LedgerInv, Refusable
  <2>3. CASE a \in tx[r].answers
    <3>1. a \in Valid(r)
      BY <1>2, <2>3
    <3>2. CardOf[a] \in known
      BY <1>2, <3>1 DEF Affected, LedgerIInv, RowsInv
    <3>3. baseline'[CardOf[a]] # 0 /\ baseline'[CardOf[a]] <= At[a]
      BY <1>1, <1>2, <2>1, <3>1
    <3>4. baseline'[CardOf[a]] \in Nat
      BY <1>1, <2>1 DEF BaselineOf, TypeOK
    <3>5. At[a] <= Now + Ahead
      BY <1>2, <3>1
    <3> QED
      BY <1>1, <2>1, <3>2, <3>3, <3>4, <3>5, LedgerAssumption DEF Refusable
  <2> QED
    BY <1>1, <2>2, <2>3
<1>9. ScheduleInv'
  <2>1. \A c \in Cards : schedule'[c] = For(c, ledger')
    <3> SUFFICES ASSUME NEW c \in Cards
                 PROVE  schedule'[c] = For(c, ledger')
      OBVIOUS
    <3>1. CASE For(c, tx[r].answers) # {}
      BY <1>1, <3>1 DEF LedgerIInv, ScheduleInv
    <3>2. CASE For(c, tx[r].answers) = {}
      BY <1>1, <3>2 DEF LedgerIInv, ScheduleInv, For
    <3> QED
      BY <3>1, <3>2
  <2>2. ASSUME NEW q \in Requests, NEW c \in Cards,
               pc'[q] = "commit", For(c, tx'[q].answers) # {}
        PROVE  tx'[q].schedule[c] = For(c, ledger' \cup tx'[q].answers)
    <3>1. q # r /\ tx'[q] = tx[q] /\ pc[q] = "commit"
      BY <1>1, <2>2
    <3>2. tx[q].locked = Affected(q) /\ tx[q].answers \subseteq Valid(q)
      BY <3>1 DEF LedgerIInv, InsertedInv
    <3>3. c \in tx[q].locked
      BY <2>2, <3>1, <3>2 DEF For, Affected
    <3>4. c \notin tx[r].locked
      BY <3>1, <3>3 DEF LedgerIInv, RowsInv
    <3>5. For(c, tx[r].answers) = {}
      BY <1>2, <3>4 DEF For, Affected
    <3>6. For(c, ledger' \cup tx[q].answers) = For(c, ledger \cup tx[q].answers)
      BY <1>1, <3>5 DEF For
    <3> QED
      BY <2>2, <3>1, <3>6 DEF LedgerIInv, ScheduleInv
  <2> QED
    BY <2>1, <2>2 DEF ScheduleInv, For
<1>10. RefusedInv'
  <2>1. \A a \in Answers : Refusable(a) => Refusable(a)'
    BY <1>1, <1>3, LedgerAssumption DEF Refusable
  <2>2. \A a \in Answers : Outcome(r)[a] = "rejected" => a \in refused[r]
    BY DEF Outcome
  <2> QED
    BY <1>1, <2>1, <2>2 DEF LedgerIInv, RefusedInv
<1>11. AppliedInv'
  <2>1. \A a \in Answers : Outcome(r)[a] \in {"applied", "already"} => a \in ledger'
    BY <1>1, <1>2 DEF Outcome
  <2> QED
    BY <1>1, <2>1 DEF LedgerIInv, AppliedInv
<1> QED
  BY <1>5, <1>6, <1>7, <1>8, <1>9, <1>10, <1>11 DEF LedgerIInv

\* The lock of the pruner waits for the rows that refer to the translation.
LEMMA PruneLockLedgerIInv ==
    ASSUME TypeOK, LedgerIInv, NEW c \in Cards, PruneLock(c)
    PROVE  LedgerIInv'
<1>1. /\ UNCHANGED <<tableVars, requestVars>> /\ pruning' = {c}
      /\ \A r \in Requests : c \notin tx[r].rows
  BY DEF PruneLock
<1>2. RowsInv'
  BY <1>1 DEF LedgerIInv, RowsInv, InTransaction, tableVars, requestVars
<1>3. BaselineInv' /\ InsertedInv' /\ ScheduleInv'
  BY <1>1 DEF LedgerIInv, BaselineInv, InsertedInv, ScheduleInv, InTransaction, Valid, Affected,
              BaselineOf, For, tableVars, requestVars
<1>4. LedgerInv' /\ RefusedInv' /\ AppliedInv'
  BY <1>1, TablesKept DEF requestVars
<1> QED
  BY <1>2, <1>3, <1>4 DEF LedgerIInv

\* The cascade meets no transaction that has got as far as its insert with the
\* card: it waits for the lock of the card.
LEMMA PruneDeleteLedgerIInv ==
    ASSUME TypeOK, LedgerIInv, NEW c \in Cards, PruneDelete(c)
    PROVE  LedgerIInv'
<1>1. /\ c \in pruning /\ pruning' = {}
      /\ \A r \in Requests : c \notin tx[r].locked
      /\ known' = known \ {c} /\ rows' = rows \ {c}
      /\ baseline' = [baseline EXCEPT ![c] = 0]
      /\ ledger' = ledger \ For(c, ledger)
      /\ schedule' = [schedule EXCEPT ![c] = {}]
      /\ UNCHANGED requestVars
  BY DEF PruneDelete
<1>2. \A r \in Requests : /\ InTransaction(r)' = InTransaction(r)
                          /\ Valid(r)' = Valid(r) /\ Affected(r)' = Affected(r)
  BY <1>1 DEF InTransaction, Valid, Affected, requestVars
<1>3. \A r \in Requests : c \notin tx[r].rows
  BY <1>1 DEF LedgerIInv, RowsInv
<1>4. /\ \A d \in Cards \ {c} : baseline'[d] = baseline[d] /\ schedule'[d] = schedule[d]
      /\ baseline'[c] = 0 /\ schedule'[c] = {}
  BY <1>1 DEF TypeOK
<1>5. \A a \in ledger' : a \in ledger /\ a \in Answers /\ CardOf[a] \in Cards \ {c}
  BY <1>1, LedgerAssumption DEF For, TypeOK
<1>6. RowsInv'
  BY <1>1, <1>2, <1>3 DEF LedgerIInv, RowsInv, requestVars
<1>7. BaselineInv'
  BY <1>1, <1>4 DEF LedgerIInv, BaselineInv, requestVars
<1>8. InsertedInv'
  <2> SUFFICES ASSUME NEW q \in Requests
               PROVE  /\ InTransaction(q)' => \A a \in Valid(q)' : At[a] <= Now + Ahead
                      /\ pc'[q] \notin {"replay", "commit"} => tx'[q].answers = {}
                      /\ pc'[q] \in {"replay", "commit"} =>
                           /\ tx'[q].locked = Affected(q)'
                           /\ tx'[q].answers \subseteq Valid(q)'
                           /\ Valid(q)' \subseteq ledger' \cup tx'[q].answers
                           /\ \A a \in Valid(q)' :
                                BaselineOf(q, CardOf[a])' # 0 /\ BaselineOf(q, CardOf[a])' <= At[a]
    BY DEF InsertedInv
  <2>1. pc' = pc /\ tx' = tx
    BY <1>1 DEF requestVars
  <2>2. CASE pc[q] \notin {"replay", "commit"}
    BY <1>2, <2>1, <2>2 DEF LedgerIInv, InsertedInv
  <2>3. CASE pc[q] \in {"replay", "commit"}
    <3>1. tx[q].locked = Affected(q)
      BY <2>3 DEF LedgerIInv, InsertedInv
    <3>2. \A a \in Valid(q) : a \in Answers /\ CardOf[a] \in Cards \ {c}
      BY <1>1, <3>1, AffectedType, LedgerAssumption DEF Affected
    <3>3. \A a \in Valid(q) : BaselineOf(q, CardOf[a])' = BaselineOf(q, CardOf[a])
      BY <1>4, <2>1, <3>2 DEF BaselineOf
    <3>4. Valid(q) \subseteq ledger' \cup tx[q].answers
      BY <1>1, <2>3, <3>2 DEF LedgerIInv, InsertedInv, For
    <3> QED
      BY <1>2, <2>1, <2>3, <3>1, <3>3, <3>4 DEF LedgerIInv, InsertedInv
  <2> QED
    BY <2>2, <2>3
<1>9. LedgerInv'
  BY <1>1, <1>4, <1>5 DEF LedgerIInv, LedgerInv, Refusable
<1>10. ScheduleInv'
  <2>1. \A d \in Cards : schedule'[d] = For(d, ledger')
    BY <1>1, <1>4 DEF LedgerIInv, ScheduleInv, For
  <2>2. ASSUME NEW q \in Requests, NEW d \in Cards,
               pc'[q] = "commit", For(d, tx'[q].answers) # {}
        PROVE  tx'[q].schedule[d] = For(d, ledger' \cup tx'[q].answers)
    <3>1. pc[q] = "commit" /\ tx'[q] = tx[q]
      BY <1>1, <2>2 DEF requestVars
    <3>2. tx[q].locked = Affected(q) /\ tx[q].answers \subseteq Valid(q)
      BY <3>1 DEF LedgerIInv, InsertedInv
    <3>3. d # c
      BY <1>1, <2>2, <3>1, <3>2 DEF For, Affected
    <3>4. For(d, ledger' \cup tx[q].answers) = For(d, ledger \cup tx[q].answers)
      BY <1>1, <3>3 DEF For
    <3> QED
      BY <2>2, <3>1, <3>4 DEF LedgerIInv, ScheduleInv
  <2> QED
    BY <2>1, <2>2 DEF ScheduleInv, For
<1>11. RefusedInv'
  <2>1. \A a \in Answers : Refusable(a) => Refusable(a)'
    BY <1>1, <1>4, LedgerAssumption DEF Refusable
  <2> QED
    BY <1>1, <2>1 DEF LedgerIInv, RefusedInv, requestVars
<1>12. AppliedInv'
  BY <1>1 DEF LedgerIInv, AppliedInv, For, requestVars
<1> QED
  BY <1>6, <1>7, <1>8, <1>9, <1>10, <1>11, <1>12 DEF LedgerIInv

\* A step of none of them changes what the invariant speaks of.
LEMMA OtherLedgerIInv ==
    ASSUME TypeOK, LedgerIInv, UNCHANGED <<tableVars, requestVars>>,
           pruning' \subseteq pruning
    PROVE  LedgerIInv'
<1>1. RowsInv'
  BY DEF LedgerIInv, RowsInv, InTransaction, tableVars, requestVars
<1>2. BaselineInv' /\ InsertedInv' /\ ScheduleInv'
  BY DEF LedgerIInv, BaselineInv, InsertedInv, ScheduleInv, InTransaction, Valid, Affected,
         BaselineOf, For, tableVars, requestVars
<1>3. LedgerInv' /\ RefusedInv' /\ AppliedInv'
  BY TablesKept DEF requestVars
<1> QED
  BY <1>1, <1>2, <1>3 DEF LedgerIInv

\* Every step keeps the invariant.
LEMMA StepLedgerIInv == TypeOK /\ LedgerIInv /\ [Next]_vars => LedgerIInv'
<1> SUFFICES ASSUME TypeOK, LedgerIInv, [Next]_vars
             PROVE  LedgerIInv'
  OBVIOUS
<1>1. ASSUME NEW r \in Requests, Serve(r) \/ Abort(r)
      PROVE  LedgerIInv'
  BY <1>1, FailLedgerIInv, ReceiveLedgerIInv, BeginLedgerIInv, EnsureCardLedgerIInv,
     EnsureBaselineLedgerIInv, LockCardLedgerIInv, InsertLedgerIInv, ReplayLedgerIInv,
     CommitLedgerIInv DEF Serve, Abort
<1>2. ASSUME NEW c \in Cards, PruneLock(c) \/ PruneDelete(c)
      PROVE  LedgerIInv'
  BY <1>2, PruneLockLedgerIInv, PruneDeleteLedgerIInv
<1>3. CASE PruneRollback
  BY <1>3, OtherLedgerIInv DEF PruneRollback
<1>4. ASSUME NEW d \in Devices, Revoke(d)
      PROVE  LedgerIInv'
  BY <1>4, OtherLedgerIInv DEF Revoke
<1>5. CASE UNCHANGED vars
  BY <1>5, OtherLedgerIInv DEF vars, tableVars, requestVars
<1> QED
  BY <1>1, <1>2, <1>3, <1>4, <1>5 DEF Next

\* The types and the inductive invariant hold in every reachable state.
LEMMA Invariant == Spec => [](TypeOK /\ LedgerIInv)
BY InitTypeOK, StepTypeOK, InitLedgerIInv, StepLedgerIInv, PTL DEF Spec

\* What a device was told of an answer stays true, so that it may forget it: a
\* refused answer never enters the ledger, and an applied one leaves it only
\* with its translation.
THEOREM RepliesTrue == Spec => []RepliesStayTrue
<1>1. TypeOK /\ LedgerIInv => RepliesStayTrue
  BY DEF RepliesStayTrue, LedgerIInv, RefusedInv, LedgerInv, AppliedInv
<1> QED
  BY <1>1, Invariant, PTL
-----------------------------------------------------------------------------
(***************************************************************************)
(* The refinement: a commit accepts the answers of its transaction, the    *)
(* cascade of a delete forgets a card, and no other step is seen.          *)
(***************************************************************************)

\* The tables start empty on both sides.
LEMMA InitRefines == Init => Store!Init
BY DEF Init, Store!Init

\* Commit is Accept, PruneDelete is Forget, all else is not seen.
LEMMA StepRefines ==
    TypeOK /\ LedgerIInv /\ LedgerIInv' /\ [Next]_vars => [Store!Next]_Store!vars
<1> SUFFICES ASSUME TypeOK, LedgerIInv, LedgerIInv', [Next]_vars
             PROVE  Store!Next \/ UNCHANGED <<ledger, schedule>>
  BY DEF Store!vars
<1>1. ASSUME NEW r \in Requests, Commit(r)
      PROVE  Store!Next
  <2>1. tx[r].answers \in SUBSET Answers /\ ledger' = ledger \cup tx[r].answers
    BY <1>1 DEF Commit, TypeOK
  <2>2. DOMAIN schedule' = Cards /\ schedule' = [c \in Cards |-> schedule'[c]]
    BY <1>1 DEF Commit
  <2>3. \A c \in Cards : schedule'[c] = Store!For(c, ledger')
    BY DEF LedgerIInv, ScheduleInv, For, Store!For
  <2>4. schedule' = [c \in Cards |-> Store!For(c, ledger')]
    BY <2>2, <2>3
  <2>5. Store!Accept(tx[r].answers)
    BY <2>1, <2>4 DEF Store!Accept
  <2> QED
    BY <2>1, <2>5 DEF Store!Next
<1>2. ASSUME NEW c \in Cards, PruneDelete(c)
      PROVE  Store!Next
  <2>1. Store!Forget(c)
    BY <1>2 DEF PruneDelete, Store!Forget, For, Store!For
  <2> QED
    BY <2>1 DEF Store!Next
<1>3. ASSUME NEW r \in Requests, Serve(r) \/ Abort(r), ~Commit(r)
      PROVE  UNCHANGED <<ledger, schedule>>
  BY <1>3 DEF Serve, Abort, Fail, Receive, BeginTransaction, EnsureCard, EnsureBaseline,
              LockCard, InsertAnswers, Replay, tableVars
<1>4. ASSUME NEW c \in Cards, PruneLock(c)
      PROVE  UNCHANGED <<ledger, schedule>>
  BY <1>4 DEF PruneLock, tableVars
<1>5. CASE PruneRollback \/ \E d \in Devices : Revoke(d)
  BY <1>5 DEF PruneRollback, Revoke, tableVars
<1>6. CASE UNCHANGED vars
  BY <1>6 DEF vars
<1> QED
  BY <1>1, <1>2, <1>3, <1>4, <1>5, <1>6 DEF Next

\* The review ledger implements the abstract store: at no moment does a card's
\* schedule disagree with the answers in the ledger, whatever requests, deletes
\* and revocations run side by side.
THEOREM Refinement == Spec => Implements
<1>1. Init => Store!Init
  BY InitRefines
<1> QED
  BY <1>1, StepRefines, Invariant, PTL DEF Spec, Implements, Store!Spec
=============================================================================
