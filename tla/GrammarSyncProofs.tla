------------------------- MODULE GrammarSyncProofs --------------------------
(***************************************************************************)
(* Proofs about GrammarSync, for every bank, every number of answers and   *)
(* requests, and every size of a page and of a batch.                      *)
(***************************************************************************)
EXTENDS GrammarSync, TLAPS, WellFoundedInduction, FiniteSetTheorems, SequenceTheorems

\* Every nonempty finite set of naturals has a greatest element: a smallest
\* set without one would lose its only candidate with any of its elements.
LEMMA GreatestOfFinite ==
    ASSUME NEW S, S \subseteq Nat, IsFiniteSet(S), S # {}
    PROVE  \E m \in S : \A n \in S : n <= m
<1> DEFINE HasGreatest(A) == \E m \in A : \A n \in A : n <= m
           Bad == {A \in SUBSET S : A # {} /\ ~HasGreatest(A)}
<1> SUFFICES Bad = {}
  OBVIOUS
<1> SUFFICES ASSUME Bad # {}
             PROVE  FALSE
  OBVIOUS
<1>1. IsWellFoundedOn(StrictSubsetOrdering(S), SUBSET S)
  BY FS_StrictSubsetOrderingWellFounded, FS_FiniteSubsetsOfFinite
<1>2. PICK A \in Bad : \A B \in Bad : <<B, A>> \notin StrictSubsetOrdering(S)
  <2>1. Bad \subseteq SUBSET S
    OBVIOUS
  <2> HIDE DEF Bad
  <2> QED
    BY <1>1, <2>1, WFMin
<1>3. PICK x \in A : TRUE
  BY <1>2
<1>4. CASE A \ {x} = {}
  <2>1. \A n \in A : n = x
    BY <1>4
  <2>2. x \in Nat
    BY <1>2, <1>3
  <2>3. HasGreatest(A)
    BY <2>1, <2>2, <1>3
  <2> QED
    BY <2>3, <1>2
<1>5. CASE A \ {x} # {}
  <2>1. A \ {x} \notin Bad
    <3>1. <<A \ {x}, A>> \in StrictSubsetOrdering(S)
      BY <1>2, <1>3 DEF StrictSubsetOrdering
    <3> QED
      BY <3>1, <1>2
  <2>2. PICK y \in A \ {x} : \A n \in A \ {x} : n <= y
    BY <2>1, <1>2, <1>5
  <2>3. x \in Nat /\ y \in Nat /\ A \subseteq Nat
    BY <1>2, <1>3
  <2>4. HasGreatest(A)
    <3>1. CASE x <= y
      BY <3>1, <2>2
    <3>2. CASE y <= x
      <4>1. \A n \in A : n <= x
        BY <3>2, <2>2, <2>3
      <4> QED
        BY <4>1, <1>3
    <3> QED
      BY <3>1, <3>2, <2>3
  <2> QED
    BY <2>4, <1>2
<1> QED
  BY <1>4, <1>5

\* What the definitions say of answers and their points.
LEMMA AnswerFacts ==
    /\ \A i \in Items : RuleOf[i] \in Rules
    /\ \A a \in AllAnswers : ItemOf[a] \in Items /\ RuleFor(a) \in Rules /\ At[a] \in Nat
    /\ Answers \subseteq AllAnswers /\ WebAnswers \subseteq AllAnswers
    /\ Uploads \subseteq Handlers /\ WebAnswers \subseteq Handlers
    /\ \A h \in Handlers : h \in Uploads \/ h \in WebAnswers
    /\ \A w \in WebAnswers : w \notin Uploads /\ w \notin Answers
BY GrammarAssumption DEF Rules, RuleFor, AllAnswers, Handlers
-----------------------------------------------------------------------------
(***************************************************************************)
(* Types.  A run is one of the records that the phases write, a page lies  *)
(* between the cursor and the end of its feed, and a request at work has   *)
(* an answer at hand, of the device unless it is one of the browser.       *)
(***************************************************************************)

Jobs == [step : {"idle", "lookup", "adopt", "ensure", "write", "commit", "reply"},
         left : Seq(AllAnswers), told : SUBSET AllAnswers, row : SUBSET AllAnswers]

\* The type of a run, which TypeOK leaves to its step.
RunInv ==
    \/ run \in {Off, On, Pulled}
    \/ run \in [step : {"sent"}, by : Uploads]
    \/ run \in [step : {"read"}, feed : {"bank"}, keys : Seq(Items), next : Nat, more : BOOLEAN]
    \/ run \in [step : {"read"}, feed : {"mastery"}, keys : Seq(Rules), next : Nat, more : BOOLEAN]
    \/ run \in [step : {"page"}, feed : {"bank"},
                changes : Seq([key : Items, row : SUBSET Items]), next : Nat, more : BOOLEAN]
    \/ run \in [step : {"page"}, feed : {"mastery"},
                changes : Seq([key : Rules, row : SUBSET AllAnswers]), next : Nat, more : BOOLEAN]

\* The device is nowhere beyond the end of a feed.
PlaceInv ==
    /\ \A f \in Feeds : cursor[f] <= Len(Feed(f))
    /\ run.step \in {"read", "page"} =>
         cursor[run.feed] <= run.next /\ run.next <= Len(Feed(run.feed))

\* A request at work has an answer at hand; the browser's has one only.
JobsInv ==
    \A h \in Handlers :
        /\ job[h].step \notin {"idle", "reply"} => job[h].left # <<>>
        /\ h \in Uploads => job[h].left \in Seq(Answers)
        /\ h \in WebAnswers => job[h].step \notin {"lookup", "adopt"} /\ Len(job[h].left) <= 1

StateInv == TypeOK /\ RunInv /\ PlaceInv /\ JobsInv

\* The feeds are sequences of items and of points.
LEMMA FeedType ==
    ASSUME StateInv
    PROVE  /\ Feed("bank") \in Seq(Items) /\ Feed("mastery") \in Seq(Rules)
           /\ \A f \in Feeds : Len(Feed(f)) \in Nat /\ cursor[f] \in Nat /\ cursor[f] <= Len(Feed(f))
BY DEF StateInv, TypeOK, PlaceInv, Feed, Feeds

\* The answer at hand is an answer, of the device if the request is.
LEMMA CurrentType ==
    ASSUME StateInv, NEW h \in Handlers, job[h].step \notin {"idle", "reply"}
    PROVE  /\ job[h].left \in Seq(AllAnswers) /\ job[h].left # <<>>
           /\ Current(h) \in AllAnswers /\ RuleFor(Current(h)) \in Rules
           /\ At[Current(h)] \in Nat
           /\ h \in Uploads => Current(h) \in Answers
<1>1. job[h].left \in Seq(AllAnswers) /\ job[h].left # <<>>
  BY DEF StateInv, TypeOK, JobsInv
<1>2. Current(h) \in AllAnswers
  BY <1>1, HeadTailProperties DEF Current
<1>3. h \in Uploads => Current(h) \in Answers
  BY <1>1, HeadTailProperties DEF Current, StateInv, JobsInv
<1> QED
  BY <1>1, <1>2, <1>3, AnswerFacts

\* A request that has the result of its answer goes on with the next one.
LEMMA NextOne ==
    ASSUME StateInv, NEW h \in Handlers, job[h].step \notin {"idle", "reply"},
           NEW told \in SUBSET AllAnswers, Next1(h, told)
    PROVE  /\ job' \in [Handlers -> Jobs]
           /\ \A g \in Handlers \ {h} : job'[g] = job[g]
           /\ job'[h].step \in {"lookup", "reply"}
           /\ job'[h].left = Tail(job[h].left)
           /\ job'[h].told = job[h].told \cup told
           /\ JobsInv'
<1> DEFINE left == Tail(job[h].left)
<1>1. /\ left \in Seq(AllAnswers)
      /\ h \in Uploads => left \in Seq(Answers)
      /\ Len(left) = Len(job[h].left) - 1
      /\ Len(job[h].left) \in Nat
  BY CurrentType, HeadTailProperties, LenProperties DEF StateInv, JobsInv
<1>2. job' = [job EXCEPT ![h] = [step |-> IF left = <<>> THEN "reply" ELSE "lookup",
                                 left |-> left, told |-> job[h].told \cup told, row |-> {}]]
  BY DEF Next1, StateInv, TypeOK
<1>3. job \in [Handlers -> Jobs]
  BY DEF StateInv, TypeOK, Jobs
<1>4. h \in WebAnswers => left = <<>>
  <2> SUFFICES ASSUME h \in WebAnswers
               PROVE  left = <<>>
    OBVIOUS
  <2>1. Len(left) <= 0
    BY <1>1 DEF StateInv, JobsInv
  <2> QED
    BY <1>1, <2>1, EmptySeq
<1> HIDE DEF left
<1>5. job' \in [Handlers -> Jobs]
  BY <1>1, <1>2, <1>3 DEF Jobs
<1>6. /\ \A g \in Handlers \ {h} : job'[g] = job[g]
      /\ job'[h] = [step |-> IF left = <<>> THEN "reply" ELSE "lookup",
                    left |-> left, told |-> job[h].told \cup told, row |-> {}]
  BY <1>2, <1>3
<1>7. JobsInv'
  BY <1>1, <1>4, <1>6, EmptySeq, AnswerFacts DEF JobsInv, StateInv
<1> QED
  BY <1>5, <1>6, <1>7 DEF left

\* A request that goes on with the same answer.
LEMMA GoesTo ==
    ASSUME StateInv, NEW h \in Handlers, job[h].step \notin {"idle", "reply"},
           NEW step \in {"adopt", "ensure", "write"}, GoTo(h, step),
           step = "adopt" => h \in Uploads
    PROVE  /\ job' \in [Handlers -> Jobs]
           /\ \A g \in Handlers \ {h} : job'[g] = job[g]
           /\ job'[h].step = step /\ job'[h].left = job[h].left
           /\ job'[h].told = job[h].told /\ job'[h].row = job[h].row
           /\ JobsInv'
<1>1. job \in [Handlers -> Jobs]
  BY DEF StateInv, TypeOK, Jobs
<1>2. job' = [job EXCEPT ![h].step = step]
  BY DEF GoTo
<1>3. job'[h] = [job[h] EXCEPT !.step = step] /\ \A g \in Handlers \ {h} : job'[g] = job[g]
  BY <1>1, <1>2
<1>4. job'[h] \in Jobs /\ job'[h].step = step /\ job'[h].left = job[h].left
      /\ job'[h].told = job[h].told /\ job'[h].row = job[h].row
  <2>1. \A j \in Jobs : [j EXCEPT !.step = step] \in Jobs
    BY DEF Jobs
  <2>2. job[h] \in Jobs
    BY <1>1
  <2>3. job'[h] \in Jobs
    BY <1>3, <2>1, <2>2
  <2> QED
    BY <1>3, <2>2, <2>3 DEF Jobs
<1>5. job' \in [Handlers -> Jobs]
  BY <1>1, <1>2, <1>3, <1>4
<1>6. JobsInv'
  BY <1>3, <1>4, AnswerFacts DEF StateInv, JobsInv
<1> QED
  BY <1>3, <1>4, <1>5, <1>6

\* A page ends between the cursor and the end of the feed.
LEMMA PageEndType ==
    ASSUME StateInv, NEW f \in Feeds
    PROVE  PageEnd(f) \in Nat /\ cursor[f] <= PageEnd(f) /\ PageEnd(f) <= Len(Feed(f))
BY FeedType, GrammarAssumption DEF PageEnd, HasMore

\* The keys, the rows and the changes of a feed.
KeysOf(f) == IF f = "bank" THEN Items ELSE Rules
RowsOf(f) == IF f = "bank" THEN Items ELSE AllAnswers
Change(f) == [key : KeysOf(f), row : SUBSET RowsOf(f)]
Changes(f) == Seq(Change(f))

\* What the rows of a page are made of.
LEMMA RowType ==
    ASSUME StateInv, NEW f \in Feeds, NEW k \in KeysOf(f)
    PROVE  Row(f, k) \in SUBSET RowsOf(f)
BY DEF StateInv, TypeOK, Row, KeysOf, RowsOf, Feeds

\* Hydration gives every change its row, the first of its key the current one.
LEMMA HydratedType ==
    ASSUME StateInv, NEW f \in Feeds, NEW keys \in Seq(KeysOf(f))
    PROVE  /\ Hydrated(f, keys) \in Changes(f)
           /\ DOMAIN Hydrated(f, keys) = DOMAIN keys
           /\ \A n \in DOMAIN keys :
                /\ Hydrated(f, keys)[n].key = keys[n]
                /\ IsFirst(keys, n) => Hydrated(f, keys)[n].row = Row(f, keys[n])
<1> DEFINE At2(n) == [key |-> keys[n],
                      row |-> IF IsFirst(keys, n) THEN Row(f, keys[n]) ELSE {}]
<1>1. Len(keys) \in Nat /\ DOMAIN keys = 1..Len(keys)
  BY LenProperties
<1>2. \A n \in 1..Len(keys) : At2(n) \in Change(f)
  <2> SUFFICES ASSUME NEW n \in 1..Len(keys)
               PROVE  At2(n) \in Change(f)
    OBVIOUS
  <2>1. keys[n] \in KeysOf(f)
    BY <1>1, ElementOfSeq
  <2>2. Row(f, keys[n]) \in SUBSET RowsOf(f)
    BY <2>1, RowType
  <2> QED
    BY <2>1, <2>2 DEF Change
<1>3. Hydrated(f, keys) = [n \in 1..Len(keys) |-> At2(n)]
  BY DEF Hydrated
<1>4. Hydrated(f, keys) \in Changes(f)
  <2> HIDE DEF At2
  <2>1. [n \in 1..Len(keys) |-> At2(n)] \in [1..Len(keys) -> Change(f)]
    BY <1>2
  <2> QED
    BY <1>1, <1>3, <2>1, SeqDef DEF Changes
<1> QED
  BY <1>1, <1>3, <1>4

\* Every change of a page has a key and a row.
LEMMA ChangeType ==
    ASSUME NEW f \in Feeds, NEW changes \in Changes(f)
    PROVE  /\ Len(changes) \in Nat /\ DOMAIN changes = 1..Len(changes)
           /\ \A n \in DOMAIN changes : changes[n] \in Change(f)
           /\ KeysIn(changes) \subseteq KeysOf(f)
<1>1. Len(changes) \in Nat /\ DOMAIN changes = 1..Len(changes)
  BY LenProperties DEF Changes
<1>2. \A n \in DOMAIN changes : changes[n] \in Change(f)
  BY <1>1, ElementOfSeq DEF Changes
<1> QED
  BY <1>1, <1>2 DEF KeysIn, Change

\* The last change of a key in a page, and the row it leaves.
LEMMA LeftType ==
    ASSUME NEW f \in Feeds, NEW changes \in Changes(f), NEW k \in KeysIn(changes)
    PROVE  \E n \in DOMAIN changes :
              /\ changes[n].key = k
              /\ \A m \in DOMAIN changes : changes[m].key = k => m <= n
              /\ Left(changes, k) = changes[n].row /\ Left(changes, k) \in SUBSET RowsOf(f)
<1> DEFINE N == {n \in DOMAIN changes : changes[n].key = k}
           P(n) == changes[n].key = k /\ \A m \in DOMAIN changes : changes[m].key = k => m <= n
<1>1. Len(changes) \in Nat /\ DOMAIN changes = 1..Len(changes)
  BY ChangeType
<1>2. N \subseteq Nat /\ N # {}
  BY <1>1 DEF KeysIn
<1>3. \E n \in N : \A m \in N : m <= n
  <2>1. N \subseteq 1..Len(changes)
    BY <1>1
  <2> HIDE DEF N, P
  <2>2. IsFiniteSet(1..Len(changes))
    BY <1>1, FS_Interval
  <2>3. IsFiniteSet(N)
    BY <2>1, <2>2, FS_Subset
  <2> QED
    BY <1>2, <2>3, GreatestOfFinite
<1>4. \E n \in DOMAIN changes : P(n)
  BY <1>3
<1> DEFINE last == CHOOSE n \in DOMAIN changes : P(n)
<1>5. last \in DOMAIN changes /\ P(last)
  <2> HIDE DEF P
  <2> QED
    BY <1>4
<1>6. Left(changes, k) = changes[last].row
  BY DEF Left
<1> HIDE DEF last
<1>7. changes[last] \in Change(f)
  BY <1>5, ChangeType
<1> QED
  BY <1>5, <1>6, <1>7 DEF Change

\* Nothing has happened.
LEMMA InitStateInv == Init => StateInv
<1> SUFFICES ASSUME Init
             PROVE  StateInv
  OBVIOUS
<1>0. /\ <<>> \in Seq(Items) /\ <<>> \in Seq(Rules) /\ <<>> \in Seq(AllAnswers)
      /\ <<>> \in Seq(Answers) /\ Len(<<>>) = 0
  BY EmptySeq
<1>1. TypeOK
  <2>1. Idle \in Jobs
    BY <1>0 DEF Idle, Jobs
  <2>2. job \in [Handlers -> Jobs]
    BY <2>1 DEF Init
  <2>3. cell \in [Rules -> [row : SUBSET AllAnswers, folded : SUBSET Answers]]
    BY DEF Init, NoCell
  <2>4. run.step = "off"
    BY DEF Init, Off
  <2>5. rewritten \in [Rewritable -> 0..Statements] /\ cursor \in [Feeds -> Nat]
        /\ outbox \in [Answers -> Nat]
    BY GrammarAssumption DEF Init
  <2> QED
    BY <1>0, <2>2, <2>3, <2>4, <2>5 DEF Init, TypeOK, Jobs
<1>2. RunInv
  BY DEF Init, RunInv
<1>3. PlaceInv
  BY <1>0 DEF Init, PlaceInv, Feed, Feeds, Off
<1>4. JobsInv
  <2>1. \A h \in Handlers : job[h].step = "idle" /\ job[h].left = <<>>
    BY DEF Init, Idle
  <2>2. ASSUME NEW h \in Handlers
        PROVE  job[h].left \in Seq(Answers) /\ Len(job[h].left) <= 1
    <3>1. job[h].left \in Seq(Answers)
      BY <1>0, <2>1
    <3>2. Len(job[h].left) = 0
      BY <2>1, EmptySeq
    <3> QED
      BY <3>1, <3>2
  <2>3. \A h \in Handlers : job[h].step \in {"idle"}
    BY <2>1
  <2> QED
    BY <2>2, <2>3 DEF JobsInv
<1> QED
  BY <1>1, <1>2, <1>3, <1>4 DEF StateInv

\* A feed that only grows is a feed beyond every place of a device.
LEMMA GrownFeeds ==
    ASSUME StateInv, UNCHANGED <<cursor, run>>,
           Len(bankFeed) <= Len(bankFeed'), Len(masteryFeed) <= Len(masteryFeed'),
           bankFeed' \in Seq(Items), masteryFeed' \in Seq(Rules)
    PROVE  PlaceInv' /\ RunInv'
<1>1. RunInv'
  BY DEF StateInv, RunInv
<1>2. /\ Len(bankFeed) \in Nat /\ Len(bankFeed') \in Nat
      /\ Len(masteryFeed) \in Nat /\ Len(masteryFeed') \in Nat
  BY DEF StateInv, TypeOK
<1>3. \A f \in Feeds : Len(Feed(f)) <= Len(Feed(f)')
  BY DEF Feed, Feeds
<1>4. run.step \in {"read", "page"} => run.feed \in Feeds /\ run.next \in Nat
  BY DEF StateInv, RunInv, Off, On, Pulled, Feeds
<1>5. \A f \in Feeds : Len(Feed(f)) \in Nat /\ Len(Feed(f)') \in Nat /\ cursor[f] \in Nat
  BY <1>2 DEF Feed, Feeds, StateInv, TypeOK
<1>6. \A f \in Feeds : cursor'[f] <= Len(Feed(f)')
  BY <1>3, <1>5 DEF StateInv, PlaceInv
<1>7. ASSUME run.step \in {"read", "page"}
      PROVE  cursor[run.feed] <= run.next /\ run.next <= Len(Feed(run.feed)')
  <2>1. run.feed \in Feeds /\ run.next \in Nat
    BY <1>4, <1>7
  <2>2. cursor[run.feed] <= run.next /\ run.next <= Len(Feed(run.feed))
    BY <1>7 DEF StateInv, PlaceInv
  <2>3. Len(Feed(run.feed)) <= Len(Feed(run.feed)')
    BY <2>1 DEF Feed, Feeds
  <2>4. Len(Feed(run.feed)) \in Nat /\ Len(Feed(run.feed)') \in Nat
    BY <1>2 DEF Feed
  <2> QED
    BY <2>1, <2>2, <2>3, <2>4
<1> QED
  BY <1>1, <1>6, <1>7 DEF PlaceInv

\* A write of an item is one row of the feed, a statement that writes examples
\* one for each active item at least.
LEMMA BankGrows ==
    ASSUME StateInv, Bank
    PROVE  /\ status' \in [Items -> {"absent", "candidate", "active", "retired", "rejected"}]
           /\ rewritten' \in [Rewritable -> 0..Statements]
           /\ bankFeed' \in Seq(Items) /\ Len(bankFeed) <= Len(bankFeed')
           /\ \A n \in 1..Len(bankFeed) : bankFeed'[n] = bankFeed[n]
           /\ \A i \in Items : \/ status'[i] = status[i]
                               \/ \E n \in (Len(bankFeed) + 1)..Len(bankFeed') : bankFeed'[n] = i
<1>1. bankFeed \in Seq(Items) /\ Len(bankFeed) \in Nat
  BY DEF StateInv, TypeOK
<1>2. ASSUME NEW i \in Items, InsertItem(i) \/ SetStatus(i), UNCHANGED rewritten
      PROVE  /\ status' \in [Items -> {"absent", "candidate", "active", "retired", "rejected"}]
             /\ rewritten' \in [Rewritable -> 0..Statements]
             /\ bankFeed' = Append(bankFeed, i)
             /\ \A j \in Items \ {i} : status'[j] = status[j]
  BY <1>2 DEF InsertItem, SetStatus, StateInv, TypeOK
<1>3. ASSUME NEW i \in Items, InsertItem(i) \/ SetStatus(i), UNCHANGED rewritten
      PROVE  /\ bankFeed' \in Seq(Items) /\ Len(bankFeed') = Len(bankFeed) + 1
             /\ \A n \in 1..Len(bankFeed) : bankFeed'[n] = bankFeed[n]
             /\ bankFeed'[Len(bankFeed) + 1] = i
  <2>1. bankFeed' = Append(bankFeed, i)
    BY <1>2, <1>3
  <2> QED
    BY <1>1, <2>1, AppendProperties
<1>4. ASSUME NEW r \in Rewritable, WriteExamples(r), UNCHANGED status
      PROVE  /\ rewritten' \in [Rewritable -> 0..Statements]
             /\ bankFeed' \in Seq(Items) /\ Len(bankFeed) <= Len(bankFeed')
             /\ \A n \in 1..Len(bankFeed) : bankFeed'[n] = bankFeed[n]
  <2>1. IsFiniteSet(Active(r)) /\ Active(r) \subseteq Items
    BY GrammarAssumption, FS_Subset DEF Active
  <2>2. Cardinality(Active(r)) \in Nat
    BY <2>1, FS_CardinalityType
  <2>3. PICK reported \in [1..Cardinality(Active(r)) -> Active(r)] :
               bankFeed' = bankFeed \o reported
    BY <1>4 DEF WriteExamples
  <2>4. reported \in Seq(Items)
    <3>1. reported \in [1..Cardinality(Active(r)) -> Items]
      BY <2>1
    <3> QED
      BY <2>2, <3>1, SeqDef
  <2>5. Len(reported) \in Nat
    BY <2>4, LenProperties
  <2>6. rewritten' \in [Rewritable -> 0..Statements]
    BY <1>4, GrammarAssumption DEF WriteExamples, StateInv, TypeOK
  <2> QED
    BY <1>1, <2>3, <2>4, <2>5, <2>6, ConcatProperties
<1>5. CASE \E i \in Items : (InsertItem(i) \/ SetStatus(i)) /\ UNCHANGED rewritten
  <2>1. PICK i \in Items : (InsertItem(i) \/ SetStatus(i)) /\ UNCHANGED rewritten
    BY <1>5
  <2> QED
    BY <1>1, <1>2, <1>3, <2>1
<1>6. CASE \E r \in Rewritable : WriteExamples(r) /\ UNCHANGED status
  BY <1>4, <1>6 DEF StateInv, TypeOK
<1> QED
  BY <1>5, <1>6 DEF Bank

\* The bank keeps the types.
LEMMA BankStateInv ==
    ASSUME StateInv, Bank
    PROVE  StateInv'
<1>1. UNCHANGED <<ledgerVars, sessionOpen, locked, job, given, storeVars,
                  run, plan, refused, repeated>>
  BY DEF Bank
<1>2. TypeOK'
  BY <1>1, BankGrows DEF StateInv, TypeOK, ledgerVars, storeVars
<1>3. PlaceInv' /\ RunInv'
  BY <1>1, BankGrows, GrownFeeds DEF StateInv, TypeOK, ledgerVars, storeVars
<1>4. JobsInv'
  BY <1>1 DEF StateInv, JobsInv
<1> QED
  BY <1>2, <1>3, <1>4 DEF StateInv

\* A step of a request that leaves the feeds and the device alone.
LEMMA RequestStateInv ==
    ASSUME StateInv, job' \in [Handlers -> Jobs], JobsInv',
           locked' \in [Rules -> Handlers \cup {Nobody}],
           given' \subseteq AllAnswers, refused' \subseteq Answers,
           UNCHANGED <<bankVars, ledgerVars, sessionOpen, storeVars, run, repeated, plan>>
    PROVE  StateInv'
<1>1. TypeOK'
  BY DEF StateInv, TypeOK, Jobs, bankVars, ledgerVars, storeVars
<1>2. PlaceInv' /\ RunInv'
  BY GrownFeeds DEF StateInv, TypeOK, bankVars, ledgerVars, storeVars
<1> QED
  BY <1>1, <1>2 DEF StateInv

\* A request of the browser has one answer, its own.
LEMMA AnswerOnWebStateInv ==
    ASSUME StateInv, NEW w \in WebAnswers, AnswerOnWeb(w)
    PROVE  StateInv'
<1> DEFINE J == [step |-> "ensure", left |-> <<w>>, told |-> {}, row |-> {}]
<1>1. w \in AllAnswers /\ w \in Handlers /\ w \notin Uploads
  BY AnswerFacts
<1>2. J \in Jobs /\ J.left # <<>> /\ Len(J.left) <= 1 /\ J.step = "ensure"
  BY <1>1 DEF Jobs
<1>3. /\ job' = [job EXCEPT ![w] = J] /\ given' = given \cup {w}
      /\ UNCHANGED <<bankVars, ledgerVars, sessionOpen, locked, storeVars, run, refused,
                     repeated, plan>>
  BY DEF AnswerOnWeb
<1> HIDE DEF J
<1>4. job \in [Handlers -> Jobs] /\ given \subseteq AllAnswers
      /\ locked \in [Rules -> Handlers \cup {Nobody}] /\ refused \subseteq Answers
  BY DEF StateInv, TypeOK, Jobs
<1>5. job' \in [Handlers -> Jobs] /\ job'[w] = J /\ \A g \in Handlers \ {w} : job'[g] = job[g]
  BY <1>1, <1>2, <1>3, <1>4
<1>6. JobsInv'
  BY <1>1, <1>2, <1>5 DEF StateInv, JobsInv
<1> QED
  BY <1>1, <1>3, <1>4, <1>5, <1>6, RequestStateInv

\* A request of the device looks its answer up and adopts its session.
LEMMA LookupStateInv ==
    ASSUME StateInv, NEW h \in Handlers, Lookup(h) \/ Adopt(h)
    PROVE  StateInv'
<1>1. job[h].step \in {"lookup", "adopt"} /\ h \in Uploads
  BY AnswerFacts DEF Lookup, Adopt, At1, StateInv, JobsInv
<1>2. Current(h) \in Answers /\ Current(h) \in AllAnswers
  BY <1>1, CurrentType
<1>3. locked \in [Rules -> Handlers \cup {Nobody}] /\ given \subseteq AllAnswers
      /\ refused \subseteq Answers
  BY DEF StateInv, TypeOK
<1>4. /\ UNCHANGED <<bankVars, ledgerVars, sessionOpen, locked, given, storeVars, run,
                     repeated, plan>>
      /\ refused' \subseteq Answers
      /\ Next1(h, {Current(h)}) \/ GoTo(h, "adopt") \/ GoTo(h, "ensure")
  BY <1>2, <1>3 DEF Lookup, Adopt
<1>5. job' \in [Handlers -> Jobs] /\ JobsInv'
  <2>1. CASE Next1(h, {Current(h)})
    BY <1>1, <1>2, <2>1, NextOne
  <2>2. CASE GoTo(h, "adopt")
    BY <1>1, <2>2, GoesTo
  <2>3. CASE GoTo(h, "ensure")
    BY <1>1, <2>3, GoesTo
  <2> QED
    BY <1>4, <2>1, <2>2, <2>3
<1> QED
  BY <1>3, <1>4, <1>5, RequestStateInv

\* A request takes the lock of its point.
LEMMA EnsureStateInv ==
    ASSUME StateInv, NEW h \in Handlers, EnsureBaseline(h)
    PROVE  StateInv'
<1> DEFINE r == RuleFor(Current(h))
<1>1. /\ job[h].step = "ensure" /\ locked' = [locked EXCEPT ![r] = h] /\ GoTo(h, "write")
      /\ UNCHANGED <<bankVars, ledgerVars, sessionOpen, given, storeVars, run, refused,
                     repeated, plan>>
  BY DEF EnsureBaseline, At1
<1> HIDE DEF r
<1>2. job' \in [Handlers -> Jobs] /\ JobsInv'
  BY <1>1, GoesTo
<1>3. locked' \in [Rules -> Handlers \cup {Nobody}]
  BY <1>1 DEF StateInv, TypeOK
<1> QED
  BY <1>1, <1>2, <1>3, RequestStateInv DEF StateInv, TypeOK

\* What the replay makes of a job.
LEMMA ReplayEffect ==
    ASSUME StateInv, NEW h \in Handlers, Replay(h)
    PROVE  LET a == Current(h)
               r == RuleFor(a)
           IN /\ job' \in [Handlers -> Jobs]
              /\ \A g \in Handlers \ {h} : job'[g] = job[g]
              /\ job'[h].step = "commit" /\ job'[h].left = job[h].left
              /\ job'[h].told = job[h].told
              /\ job'[h].row = Replayed(r, MovedBack(r, a), recorded \cup {a})
              /\ JobsInv'
<1> DEFINE a == Current(h)
           r == RuleFor(a)
           row == Replayed(r, MovedBack(r, a), recorded \cup {a})
<1>1. job[h].step = "write" /\ job' = [job EXCEPT ![h].step = "commit", ![h].row = row]
  BY DEF Replay, At1
<1>2. row \subseteq AllAnswers
  BY <1>1, CurrentType DEF Replayed, StateInv, TypeOK
<1> HIDE DEF a, r, row
<1>3. job \in [Handlers -> Jobs] /\ job[h] \in Jobs
  BY DEF StateInv, TypeOK, Jobs
<1>4. \A j \in Jobs : LET k == [j EXCEPT !.step = "commit", !.row = row]
                      IN /\ k \in Jobs /\ k.step = "commit" /\ k.left = j.left
                         /\ k.told = j.told /\ k.row = row
  BY <1>2 DEF Jobs
<1>5. job'[h] = [job[h] EXCEPT !.step = "commit", !.row = row]
      /\ \A g \in Handlers \ {h} : job'[g] = job[g]
  BY <1>1, <1>3
<1>6. /\ job'[h] \in Jobs /\ job'[h].step = "commit" /\ job'[h].left = job[h].left
      /\ job'[h].told = job[h].told /\ job'[h].row = row
  BY <1>3, <1>4, <1>5
<1>7. job' \in [Handlers -> Jobs]
  BY <1>1, <1>3, <1>5, <1>6
<1>8. JobsInv'
  BY <1>1, <1>5, <1>6 DEF StateInv, JobsInv
<1> QED
  BY <1>5, <1>6, <1>7, <1>8 DEF a, r, row

\* A request replays its point.
LEMMA ReplayStateInv ==
    ASSUME StateInv, NEW h \in Handlers, Replay(h)
    PROVE  StateInv'
<1>1. UNCHANGED <<bankVars, ledgerVars, sessionOpen, locked, given, storeVars, run, refused,
                  repeated, plan>>
  BY DEF Replay
<1> QED
  BY <1>1, ReplayEffect, RequestStateInv DEF StateInv, TypeOK

\* What a commit does to the tables.
LEMMA CommitEffect ==
    ASSUME StateInv, NEW h \in Handlers, job[h].step = "commit", Committed(h)
    PROVE  LET a == Current(h)
               r == RuleFor(a)
           IN /\ recorded' = recorded \cup {a} /\ recorded' \subseteq AllAnswers
              /\ baseline' = [baseline EXCEPT ![r] = MovedBack(r, a)]
              /\ baseline' \in [Rules -> Nat \cup {None}]
              /\ mastery' = [mastery EXCEPT ![r] = job[h].row]
              /\ mastery' \in [Rules -> SUBSET AllAnswers]
              /\ masteryFeed' \in Seq(Rules) /\ Len(masteryFeed') = Len(masteryFeed) + 1
              /\ \A n \in 1..Len(masteryFeed) : masteryFeed'[n] = masteryFeed[n]
              /\ masteryFeed'[Len(masteryFeed) + 1] = r
              /\ locked' = [locked EXCEPT ![r] = Nobody]
              /\ locked' \in [Rules -> Handlers \cup {Nobody}]
<1> DEFINE a == Current(h)
           r == RuleFor(a)
<1>1. a \in AllAnswers /\ r \in Rules /\ At[a] \in Nat
  BY CurrentType
<1>2. /\ recorded' = recorded \cup {a} /\ baseline' = [baseline EXCEPT ![r] = MovedBack(r, a)]
      /\ mastery' = [mastery EXCEPT ![r] = job[h].row]
      /\ masteryFeed' = Append(masteryFeed, r) /\ locked' = [locked EXCEPT ![r] = Nobody]
  BY DEF Committed
<1>3. /\ baseline \in [Rules -> Nat \cup {None}] /\ mastery \in [Rules -> SUBSET AllAnswers]
      /\ masteryFeed \in Seq(Rules) /\ locked \in [Rules -> Handlers \cup {Nobody}]
      /\ recorded \subseteq AllAnswers /\ job[h].row \subseteq AllAnswers
  BY DEF StateInv, TypeOK
<1>4. MovedBack(r, a) \in Nat
  BY <1>1, <1>3 DEF MovedBack, None
<1> HIDE DEF a, r
<1>5. /\ masteryFeed' \in Seq(Rules) /\ Len(masteryFeed') = Len(masteryFeed) + 1
      /\ \A n \in 1..Len(masteryFeed) : masteryFeed'[n] = masteryFeed[n]
      /\ masteryFeed'[Len(masteryFeed) + 1] = r
  BY <1>1, <1>2, <1>3, AppendProperties
<1>6. /\ recorded' \subseteq AllAnswers /\ baseline' \in [Rules -> Nat \cup {None}]
      /\ mastery' \in [Rules -> SUBSET AllAnswers]
      /\ locked' \in [Rules -> Handlers \cup {Nobody}]
  BY <1>1, <1>2, <1>3, <1>4
<1> QED
  BY <1>2, <1>5, <1>6 DEF a, r

\* The step that ends an answer: a commit, which may be lost, or a rollback.
\* Record and Reject are such steps.
LEMMA EndsAnswer ==
    ASSUME StateInv, NEW h \in Handlers, Record(h) \/ Reject(h)
    PROVE  /\ job[h].step \in {"adopt", "ensure", "write", "commit"}
           /\ Next1(h, {Current(h)})
           /\ \/ job[h].step = "commit" /\ Committed(h)
              \/ /\ locked' = [r \in Rules |-> IF locked[r] = h THEN Nobody ELSE locked[r]]
                 /\ UNCHANGED ledgerVars
                 /\ refused' = refused \cup {Current(h)}
           /\ refused' \in {refused, refused \cup {Current(h)}} /\ refused' \subseteq Answers
           /\ UNCHANGED <<bankVars, sessionOpen, given, storeVars, run, repeated, plan>>
<1>1. refused \subseteq Answers
  BY DEF StateInv, TypeOK
<1>2. CASE Record(h)
  BY <1>1, <1>2 DEF Record, At1
<1>3. CASE Reject(h)
  <2>1. h \in Uploads /\ job[h].step \in {"adopt", "ensure", "write", "commit"}
    BY <1>3 DEF Reject
  <2>2. Current(h) \in Answers
    BY <2>1, CurrentType
  <2> QED
    BY <1>1, <1>3, <2>1, <2>2 DEF Reject, At1
<1> QED
  BY <1>2, <1>3

\* A request ends its answer, recorded or refused.
LEMMA EndsAnswerStateInv ==
    ASSUME StateInv, NEW h \in Handlers, Record(h) \/ Reject(h)
    PROVE  StateInv'
<1>1. job[h].step \notin {"idle", "reply"}
  BY EndsAnswer
<1>2. {Current(h)} \in SUBSET AllAnswers
  BY <1>1, CurrentType
<1>3. job' \in [Handlers -> Jobs] /\ JobsInv'
  BY <1>1, <1>2, EndsAnswer, NextOne
<1>4. /\ UNCHANGED <<bankVars, sessionOpen, given, storeVars, run, repeated, plan>>
      /\ refused' \subseteq Answers
  BY EndsAnswer
<1>5. /\ recorded' \subseteq AllAnswers /\ baseline' \in [Rules -> Nat \cup {None}]
      /\ mastery' \in [Rules -> SUBSET AllAnswers]
      /\ masteryFeed' \in Seq(Rules) /\ Len(masteryFeed) <= Len(masteryFeed')
      /\ locked' \in [Rules -> Handlers \cup {Nobody}]
  <2>1. masteryFeed \in Seq(Rules) /\ Len(masteryFeed) \in Nat
    BY DEF StateInv, TypeOK
  <2>2. CASE job[h].step = "commit" /\ Committed(h)
    BY <2>1, <2>2, CommitEffect
  <2>3. CASE /\ locked' = [r \in Rules |-> IF locked[r] = h THEN Nobody ELSE locked[r]]
             /\ UNCHANGED ledgerVars
    BY <2>1, <2>3 DEF StateInv, TypeOK, ledgerVars
  <2> QED
    BY <2>2, <2>3, EndsAnswer
<1>6. TypeOK'
  BY <1>3, <1>4, <1>5 DEF StateInv, TypeOK, Jobs, bankVars, storeVars
<1>7. PlaceInv' /\ RunInv'
  <2>1. UNCHANGED <<cursor, run>> /\ bankFeed' = bankFeed
    BY <1>4 DEF bankVars, storeVars
  <2>2. bankFeed' \in Seq(Items) /\ Len(bankFeed) <= Len(bankFeed')
    BY <2>1 DEF StateInv, TypeOK
  <2> QED
    BY <1>5, <2>1, <2>2, GrownFeeds
<1> QED
  BY <1>3, <1>6, <1>7 DEF StateInv

\* A request that ends, or begins with a batch.
LEMMA JobReplaced ==
    ASSUME StateInv, NEW h \in Handlers, NEW j \in Jobs, job' = [job EXCEPT ![h] = j],
           \/ j = Idle
           \/ h \in Uploads /\ j.left \in Seq(Answers) /\ j.left # <<>>
    PROVE  /\ job' \in [Handlers -> Jobs] /\ job'[h] = j
           /\ \A g \in Handlers \ {h} : job'[g] = job[g]
           /\ JobsInv'
<1>1. job \in [Handlers -> Jobs]
  BY DEF StateInv, TypeOK, Jobs
<1>2. job' \in [Handlers -> Jobs] /\ job'[h] = j /\ \A g \in Handlers \ {h} : job'[g] = job[g]
  BY <1>1
<1>3. CASE j = Idle
  <2>1. j.step \in {"idle"} /\ j.left = <<>>
    BY <1>3 DEF Idle
  <2>2. j.left \in Seq(Answers)
    BY <2>1, EmptySeq
  <2>3. Len(j.left) = 0
    BY <2>1, EmptySeq
  <2>4. job'[h].step = "idle" /\ job'[h].left \in Seq(Answers)
    BY <1>2, <2>1, <2>2
  <2>5. Len(job'[h].left) <= 1
    <3>1. job'[h].left = j.left
      BY <1>2
    <3>2. Len(job'[h].left) = 0
      BY <2>3, <3>1
    <3> QED
      BY <3>2
  <2> QED
    BY <1>2, <2>4, <2>5 DEF StateInv, JobsInv
<1>4. CASE h \in Uploads /\ j.left \in Seq(Answers) /\ j.left # <<>>
  BY <1>2, <1>4, AnswerFacts DEF StateInv, JobsInv
<1> QED
  BY <1>2, <1>3, <1>4

\* The job of a request that has ended.
LEMMA IdleType == Idle \in Jobs
<1>1. <<>> \in Seq(AllAnswers)
  BY EmptySeq
<1> QED
  BY <1>1 DEF Idle, Jobs

\* A request nobody waits for ends.
LEMMA EndedStateInv ==
    ASSUME StateInv, NEW h \in Handlers, Ended(h)
    PROVE  StateInv'
<1>1. job' = [job EXCEPT ![h] = Idle]
      /\ UNCHANGED <<bankVars, ledgerVars, sessionOpen, locked, given, storeVars, run, refused,
                     repeated, plan>>
  BY DEF Ended
<1>2. job' \in [Handlers -> Jobs] /\ JobsInv'
  BY <1>1, JobReplaced, IdleType
<1> QED
  BY <1>1, <1>2, RequestStateInv DEF StateInv, TypeOK

\* A batch is a sequence of queued answers.
LEMMA BatchType ==
    ASSUME StateInv, NEW size \in 1..BatchLimit, NEW left \in [1..size -> Queued]
    PROVE  /\ left \in Seq(Queued) /\ left \in Seq(Answers) /\ left \in Seq(AllAnswers)
           /\ left # <<>> /\ DOMAIN left = 1..size
<1>1. size \in Nat /\ size # 0
  BY GrammarAssumption
<1>2. Queued \subseteq Answers /\ Queued \subseteq AllAnswers
  BY AnswerFacts DEF Queued
<1>3. left \in Seq(Queued) /\ Len(left) = size
  <2>1. left \in Seq(Queued)
    BY <1>1, SeqDef
  <2>2. DOMAIN left = 1..size /\ DOMAIN left = 1..Len(left) /\ Len(left) \in Nat
    BY <2>1, LenProperties
  <2> QED
    BY <1>1, <2>1, <2>2
<1>4. left # <<>>
  BY <1>1, <1>3, EmptySeq
<1> QED
  BY <1>2, <1>3, <1>4, SeqMonotonic

\* What SendBatch makes of the job.
LEMMA SendEffect ==
    ASSUME StateInv, NEW h \in Uploads, SendBatch(h)
    PROVE  \E j \in Jobs :
              /\ job' = [job EXCEPT ![h] = j] /\ j.step = "lookup" /\ j.told = {}
              /\ j.left \in Seq(Queued) /\ j.left \in Seq(Answers) /\ j.left # <<>>
<1>0. PICK size \in 1..BatchLimit : \E left \in [1..size -> Queued] :
             job' = [job EXCEPT ![h] = [step |-> "lookup", left |-> left, told |-> {},
                                        row |-> {}]]
  BY DEF SendBatch
<1>1. PICK left \in [1..size -> Queued] :
             job' = [job EXCEPT ![h] = [step |-> "lookup", left |-> left, told |-> {},
                                        row |-> {}]]
  BY <1>0
<1> DEFINE j == [step |-> "lookup", left |-> left, told |-> {}, row |-> {}]
<1>2. left \in Seq(Queued) /\ left \in Seq(Answers) /\ left \in Seq(AllAnswers) /\ left # <<>>
  BY BatchType
<1>3. j \in Jobs /\ j.step = "lookup" /\ j.told = {} /\ j.left = left
  BY <1>2 DEF Jobs
<1> HIDE DEF j
<1> QED
  BY <1>1, <1>2, <1>3 DEF j

\* A batch is sent.
LEMMA SendStateInv ==
    ASSUME StateInv, NEW h \in Uploads, SendBatch(h)
    PROVE  StateInv'
<1>1. /\ run' = [step |-> "sent", by |-> h] /\ run = On
      /\ UNCHANGED <<bankVars, ledgerVars, sessionOpen, locked, given, storeVars,
                     refused, repeated, plan>>
  BY DEF SendBatch
<1>2. h \in Handlers
  BY AnswerFacts
<1>3. job' \in [Handlers -> Jobs] /\ JobsInv'
  BY <1>2, SendEffect, JobReplaced
<1>4. run' \in [step : {"sent"}, by : Uploads] /\ run'.step = "sent"
  BY <1>1
<1>5. TypeOK'
  BY <1>1, <1>3, <1>4 DEF StateInv, TypeOK, Jobs, bankVars, ledgerVars, storeVars
<1>6. RunInv'
  BY <1>4 DEF RunInv
<1>7. PlaceInv'
  BY <1>1, <1>4 DEF StateInv, PlaceInv, Feed, Feeds, bankVars, ledgerVars, storeVars
<1> QED
  BY <1>3, <1>5, <1>6, <1>7 DEF StateInv

\* A reply is applied, and the device goes on.
LEMMA ApplyReplyStateInv ==
    ASSUME StateInv, NEW h \in Uploads, ApplyReply(h)
    PROVE  StateInv'
<1>1. /\ outbox' = [a \in Answers |-> IF a \in Remaining(h) THEN outbox[a] ELSE 0]
      /\ job' = [job EXCEPT ![h] = Idle] /\ run' = On
      /\ UNCHANGED <<bankVars, ledgerVars, sessionOpen, locked, given, held, posed, cell,
                     cursor, followed, backfilled, phase, refused, repeated, plan>>
  BY DEF ApplyReply
<1>2. job' \in [Handlers -> Jobs] /\ JobsInv'
  BY <1>1, IdleType, JobReplaced, AnswerFacts
<1>3. outbox' \in [Answers -> Nat]
  BY <1>1 DEF StateInv, TypeOK
<1>4. run'.step = "on"
  BY <1>1 DEF On
<1>5. TypeOK'
  BY <1>1, <1>2, <1>3, <1>4 DEF StateInv, TypeOK, Jobs, bankVars, ledgerVars
<1>6. RunInv'
  BY <1>1 DEF RunInv
<1>7. PlaceInv'
  BY <1>1, <1>4 DEF StateInv, PlaceInv, Feed, bankVars, ledgerVars
<1> QED
  BY <1>2, <1>5, <1>6, <1>7 DEF StateInv

\* The ticket of a new row of the outbox.
LEMMA TicketType ==
    ASSUME StateInv
    PROVE  NextTicket \in Nat \ {0}
<1> DEFINE T == {outbox[a] : a \in Queued}
<1>1. CASE Queued = {}
  BY <1>1 DEF NextTicket
<1>2. CASE Queued # {}
  <2>0. Queued \subseteq Answers /\ \A a \in Queued : outbox[a] \in Nat
    BY DEF Queued, StateInv, TypeOK
  <2>1. T \subseteq Nat /\ T # {}
    BY <1>2, <2>0
  <2>2. IsFiniteSet(T)
    <3> DEFINE f == [a \in Queued |-> outbox[a]]
    <3>1. f \in Surjection(Queued, T)
      BY DEF Surjection
    <3>2. IsFiniteSet(Queued)
      BY <2>0, GrammarAssumption, FS_Subset
    <3> HIDE DEF f, T
    <3> QED
      BY <3>1, <3>2, FS_Surjection
  <2>3. PICK m \in T : \A n \in T : n <= m
    <3> HIDE DEF T
    <3> QED
      BY <2>1, <2>2, GreatestOfFinite
  <2>4. \E a \in Queued : \A b \in Queued : outbox[b] <= outbox[a]
    BY <2>3
  <2> DEFINE latest == CHOOSE a \in Queued : \A b \in Queued : outbox[b] <= outbox[a]
  <2>5. latest \in Queued
    BY <2>4
  <2>6. NextTicket = 1 + outbox[latest]
    BY <1>2 DEF NextTicket
  <2> HIDE DEF latest
  <2> QED
    BY <2>5, <2>6 DEF Queued, StateInv, TypeOK
<1> QED
  BY <1>1, <1>2

\* An answer is given on the device.
LEMMA AnswerStateInv ==
    ASSUME StateInv, NEW a \in Answers, Answer(a)
    PROVE  StateInv'
<1>1. /\ given' = given \cup {a} /\ outbox' = [outbox EXCEPT ![a] = NextTicket]
      /\ cell' = IF ItemOf[a] \in held
                 THEN [cell EXCEPT ![RuleFor(a)].folded = @ \cup {a}] ELSE cell
      /\ UNCHANGED <<bankVars, ledgerVars, sessionOpen, locked, job, held, posed,
                     cursor, followed, backfilled, phase, run, refused, repeated, plan>>
  BY DEF Answer
<1>2. outbox' \in [Answers -> Nat]
  BY <1>1, TicketType DEF StateInv, TypeOK
<1>3. cell' \in [Rules -> [row : SUBSET AllAnswers, folded : SUBSET Answers]]
  BY <1>1, AnswerFacts DEF StateInv, TypeOK
<1>4. given' \subseteq AllAnswers
  BY <1>1, AnswerFacts DEF StateInv, TypeOK
<1>5. TypeOK'
  BY <1>1, <1>2, <1>3, <1>4 DEF StateInv, TypeOK, bankVars, ledgerVars
<1>6. RunInv' /\ PlaceInv' /\ JobsInv'
  BY <1>1 DEF StateInv, RunInv, PlaceInv, JobsInv, Feed, bankVars, ledgerVars
<1> QED
  BY <1>5, <1>6 DEF StateInv

\* Steps of the device that touch no more than its phase and its run, and steps
\* that touch the session or the backfill.
LEMMA RunStateInv ==
    ASSUME StateInv, UNCHANGED <<bankVars, ledgerVars, locked, job, given, outbox, held, posed,
                                 cell, followed, refused, repeated, plan>>,
           run' \in {Off, On, Pulled} \/ UNCHANGED run,
           sessionOpen' \in BOOLEAN, backfilled' \in BOOLEAN,
           phase' \in {"grammar_attempts", "grammar_bank", "grammar_mastery", "finishing"},
           UNCHANGED cursor
    PROVE  StateInv'
<1>1. run'.step \in {"off", "on", "sent", "read", "page", "pulled"}
  BY DEF Off, On, Pulled, StateInv, TypeOK
<1>2. TypeOK'
  BY <1>1 DEF StateInv, TypeOK, bankVars, ledgerVars
<1>3. RunInv' /\ JobsInv'
  BY DEF StateInv, RunInv, JobsInv
<1>4. PlaceInv'
  BY DEF StateInv, PlaceInv, Feed, bankVars, ledgerVars, Off, On, Pulled
<1> QED
  BY <1>2, <1>3, <1>4 DEF StateInv

\* A run starts, stops or goes on to its next phase.
LEMMA PhaseStateInv ==
    ASSUME StateInv, CompleteSession \/ Start \/ Stop \/ Advance
    PROVE  StateInv'
<1>1. CASE CompleteSession
  BY <1>1, RunStateInv DEF CompleteSession, StateInv, TypeOK, storeVars
<1>2. CASE Start
  BY <1>2, RunStateInv DEF Start, StateInv, TypeOK
<1>3. CASE Stop
  BY <1>3, RunStateInv DEF Stop, StateInv, TypeOK, storeVars
<1>4. CASE Advance
  BY <1>4, RunStateInv DEF Advance, AdvanceTo, StateInv, TypeOK
<1> QED
  BY <1>1, <1>2, <1>3, <1>4

\* The bank is to be pulled again.
LEMMA BackfillStateInv ==
    ASSUME StateInv, Backfill
    PROVE  StateInv'
<1>1. /\ run = On /\ backfilled' = TRUE /\ followed' = TRUE
      /\ cursor' = [cursor EXCEPT !["bank"] = 0]
      /\ UNCHANGED <<bankVars, ledgerVars, sessionOpen, locked, job, given, outbox, held,
                     posed, cell, phase, run, refused, repeated, plan>>
  BY DEF Backfill
<1>2. cursor' \in [Feeds -> Nat]
  BY <1>1 DEF StateInv, TypeOK
<1>3. TypeOK'
  BY <1>1, <1>2 DEF StateInv, TypeOK, bankVars, ledgerVars
<1>4. RunInv' /\ JobsInv'
  BY <1>1 DEF StateInv, RunInv, JobsInv
<1>5. PlaceInv'
  <2>1. \A f \in Feeds : cursor'[f] <= cursor[f]
    BY <1>1 DEF StateInv, TypeOK, Feeds
  <2>2. \A f \in Feeds : Feed(f)' = Feed(f)
    BY <1>1 DEF Feed, bankVars, ledgerVars
  <2>3. \A f \in Feeds : cursor'[f] <= Len(Feed(f))
    BY <1>2, <2>1, FeedType
  <2> QED
    BY <1>1, <2>2, <2>3 DEF PlaceInv, On
<1> QED
  BY <1>3, <1>4, <1>5 DEF StateInv

\* A page has the changes from the cursor to its end, all of them.
LEMMA AskEffect ==
    ASSUME StateInv, Ask
    PROVE  \E f \in Feeds : \E keys \in Seq(KeysOf(f)) : \E more \in BOOLEAN :
              /\ run' = [step |-> "read", feed |-> f, keys |-> keys, next |-> PageEnd(f),
                         more |-> more]
              /\ \A n \in (cursor[f] + 1)..PageEnd(f) :
                    \E m \in DOMAIN keys : keys[m] = Feed(f)[n]
<1> DEFINE f == FeedOf(phase)
           keys == SubSeq(Feed(f), cursor[f] + 1, PageEnd(f))
<1>1. f \in Feeds
  BY DEF FeedOf, Feeds
<1>2. run' = [step |-> "read", feed |-> f, keys |-> keys, next |-> PageEnd(f),
              more |-> HasMore(f)]
  BY DEF Ask
<1> HIDE DEF f
<1>3. PageEnd(f) \in Nat /\ PageEnd(f) <= Len(Feed(f)) /\ cursor[f] \in Nat
      /\ cursor[f] <= PageEnd(f) /\ Len(Feed(f)) \in Nat
  BY <1>1, PageEndType, FeedType
<1>4. Feed(f) \in Seq(KeysOf(f))
  BY <1>1, FeedType DEF Feeds, KeysOf
<1>5. \A i \in (cursor[f] + 1)..PageEnd(f) : Feed(f)[i] \in KeysOf(f)
  BY <1>3, <1>4, ElementOfSeq
<1>6. /\ keys \in Seq(KeysOf(f))
      /\ \A i \in 1..(PageEnd(f) - cursor[f]) : keys[i] = Feed(f)[cursor[f] + i]
      /\ Len(keys) = PageEnd(f) - cursor[f]
  <2> DEFINE first == cursor[f] + 1
             last == PageEnd(f)
             s == Feed(f)
             K == KeysOf(f)
  <2>1. first \in Int /\ last \in Int /\ \A i \in first..last : s[i] \in K
    BY <1>3, <1>5
  <2>2. /\ SubSeq(s, first, last) \in Seq(K)
        /\ Len(SubSeq(s, first, last)) = IF first <= last THEN last - first + 1 ELSE 0
        /\ \A i \in 1..(last - first + 1) : SubSeq(s, first, last)[i] = s[first + i - 1]
    <3> HIDE DEF first, last, s, K
    <3> QED
      BY <2>1, SubSeqProperties
  <2> QED
    BY <1>3, <2>2
<1> HIDE DEF keys
<1>7. \A n \in (cursor[f] + 1)..PageEnd(f) : \E m \in DOMAIN keys : keys[m] = Feed(f)[n]
  <2> SUFFICES ASSUME NEW n \in (cursor[f] + 1)..PageEnd(f)
               PROVE  \E m \in DOMAIN keys : keys[m] = Feed(f)[n]
    OBVIOUS
  <2>1. n - cursor[f] \in 1..(PageEnd(f) - cursor[f])
    BY <1>3
  <2>2. DOMAIN keys = 1..(PageEnd(f) - cursor[f])
    BY <1>6, LenProperties
  <2>3. keys[n - cursor[f]] = Feed(f)[cursor[f] + (n - cursor[f])]
    BY <1>6, <2>1
  <2>4. cursor[f] + (n - cursor[f]) = n
    BY <1>3
  <2> QED
    BY <2>1, <2>2, <2>3, <2>4
<1>8. HasMore(f) \in BOOLEAN
  BY DEF HasMore
<1> QED
  BY <1>1, <1>2, <1>6, <1>7, <1>8

\* A page of keys is read.
LEMMA AskStateInv ==
    ASSUME StateInv, Ask
    PROVE  StateInv'
<1>1. PICK f \in Feeds, more \in BOOLEAN : \E keys \in Seq(KeysOf(f)) :
          run' = [step |-> "read", feed |-> f, keys |-> keys, next |-> PageEnd(f), more |-> more]
  BY AskEffect
<1>2. PICK keys \in Seq(KeysOf(f)) :
          run' = [step |-> "read", feed |-> f, keys |-> keys, next |-> PageEnd(f), more |-> more]
  BY <1>1
<1>3. UNCHANGED <<bankVars, ledgerVars, sessionOpen, locked, job, given, storeVars,
                  refused, repeated, plan>>
  BY DEF Ask
<1>4. PageEnd(f) \in Nat /\ cursor[f] <= PageEnd(f) /\ PageEnd(f) <= Len(Feed(f))
  BY PageEndType
<1>5. run'.step = "read" /\ run'.feed = f /\ run'.next = PageEnd(f)
  BY <1>2
<1>6. TypeOK'
  BY <1>3, <1>5 DEF StateInv, TypeOK, bankVars, ledgerVars, storeVars
<1>7. RunInv'
  BY <1>2, <1>4 DEF RunInv, Feeds, KeysOf
<1>8. PlaceInv'
  <2>1. cursor' = cursor /\ \A g \in Feeds : Feed(g)' = Feed(g)
    BY <1>3 DEF Feed, bankVars, ledgerVars, storeVars
  <2>2. Feed(run.feed)' = Feed(f)
    BY <1>3, <1>5 DEF Feed, bankVars, ledgerVars
  <2> QED
    BY <1>4, <1>5, <2>1, <2>2 DEF StateInv, PlaceInv
<1>9. JobsInv'
  BY <1>3 DEF StateInv, JobsInv
<1> QED
  BY <1>6, <1>7, <1>8, <1>9 DEF StateInv

\* A run that has read a page of keys, and one that has a page in hand.
LEMMA InHandType ==
    ASSUME StateInv
    PROVE  /\ run.step = "read" =>
                /\ run.feed \in Feeds /\ run.keys \in Seq(KeysOf(run.feed))
                /\ run.next \in Nat /\ run.more \in BOOLEAN
           /\ run.step = "page" =>
                /\ run.feed \in Feeds /\ run.changes \in Changes(run.feed)
                /\ run.next \in Nat /\ run.more \in BOOLEAN
<1>1. ASSUME run.step = "read"
      PROVE  /\ run.feed \in Feeds /\ run.keys \in Seq(KeysOf(run.feed))
             /\ run.next \in Nat /\ run.more \in BOOLEAN
  <2>1. \/ run \in [step : {"read"}, feed : {"bank"}, keys : Seq(Items), next : Nat,
                    more : BOOLEAN]
        \/ run \in [step : {"read"}, feed : {"mastery"}, keys : Seq(Rules), next : Nat,
                    more : BOOLEAN]
    BY <1>1 DEF StateInv, RunInv, Off, On, Pulled
  <2> QED
    BY <2>1 DEF Feeds, KeysOf
<1>2. ASSUME run.step = "page"
      PROVE  /\ run.feed \in Feeds /\ run.changes \in Changes(run.feed)
             /\ run.next \in Nat /\ run.more \in BOOLEAN
  <2>1. \/ run \in [step : {"page"}, feed : {"bank"},
                    changes : Seq([key : Items, row : SUBSET Items]), next : Nat,
                    more : BOOLEAN]
        \/ run \in [step : {"page"}, feed : {"mastery"},
                    changes : Seq([key : Rules, row : SUBSET AllAnswers]), next : Nat,
                    more : BOOLEAN]
    BY <1>2 DEF StateInv, RunInv, Off, On, Pulled
  <2>2. CASE run \in [step : {"page"}, feed : {"bank"},
                      changes : Seq([key : Items, row : SUBSET Items]), next : Nat,
                      more : BOOLEAN]
    BY <2>2 DEF Feeds, KeysOf, RowsOf, Change, Changes
  <2>3. CASE run \in [step : {"page"}, feed : {"mastery"},
                      changes : Seq([key : Rules, row : SUBSET AllAnswers]), next : Nat,
                      more : BOOLEAN]
    BY <2>3 DEF Feeds, KeysOf, RowsOf, Change, Changes
  <2> QED
    BY <2>1, <2>2, <2>3
<1> QED
  BY <1>1, <1>2

\* Hydration keeps the keys of the page and its place.
LEMMA HydrateEffect ==
    ASSUME StateInv, Hydrate
    PROVE  /\ run.feed \in Feeds /\ run.keys \in Seq(KeysOf(run.feed))
           /\ \E changes \in Changes(run.feed) :
                /\ run' = [step |-> "page", feed |-> run.feed, changes |-> changes,
                           next |-> run.next, more |-> run.more]
                /\ DOMAIN changes = DOMAIN run.keys
                /\ \A n \in DOMAIN run.keys :
                      /\ changes[n].key = run.keys[n]
                      /\ IsFirst(run.keys, n) =>
                           changes[n].row = Row(run.feed, run.keys[n])
<1>1. run.step = "read" /\ run' = [step |-> "page", feed |-> run.feed,
                                   changes |-> Hydrated(run.feed, run.keys),
                                   next |-> run.next, more |-> run.more]
  BY DEF Hydrate
<1>2. run.feed \in Feeds /\ run.keys \in Seq(KeysOf(run.feed))
  BY <1>1, InHandType
<1>4. /\ Hydrated(run.feed, run.keys) \in Changes(run.feed)
      /\ DOMAIN Hydrated(run.feed, run.keys) = DOMAIN run.keys
      /\ \A n \in DOMAIN run.keys :
            /\ Hydrated(run.feed, run.keys)[n].key = run.keys[n]
            /\ IsFirst(run.keys, n) =>
                 Hydrated(run.feed, run.keys)[n].row = Row(run.feed, run.keys[n])
  BY <1>2, HydratedType
<1> HIDE DEF Hydrated
<1> QED
  BY <1>1, <1>2, <1>4

\* The rows of a page are read.
LEMMA HydrateStateInv ==
    ASSUME StateInv, Hydrate
    PROVE  StateInv'
<1>1. /\ run.step = "read"
      /\ UNCHANGED <<bankVars, ledgerVars, sessionOpen, locked, job, given, storeVars,
                     refused, repeated, plan>>
  BY DEF Hydrate
<1>2. PICK changes \in Changes(run.feed) :
          run' = [step |-> "page", feed |-> run.feed, changes |-> changes,
                  next |-> run.next, more |-> run.more]
  BY HydrateEffect
<1>3. run.feed \in Feeds /\ run.next \in Nat /\ run.more \in BOOLEAN
  BY <1>1, InHandType
<1>4. run'.step = "page" /\ run'.feed = run.feed /\ run'.next = run.next
  BY <1>2
<1>5. TypeOK'
  BY <1>1, <1>4 DEF StateInv, TypeOK, bankVars, ledgerVars, storeVars
<1>6. RunInv'
  <2>1. CASE run.feed = "bank"
    <3>1. changes \in Seq([key : Items, row : SUBSET Items])
      BY <2>1 DEF Change, Changes, KeysOf, RowsOf
    <3> QED
      BY <1>2, <1>3, <2>1, <3>1 DEF RunInv
  <2>2. CASE run.feed = "mastery"
    <3>1. changes \in Seq([key : Rules, row : SUBSET AllAnswers])
      BY <2>2 DEF Change, Changes, KeysOf, RowsOf
    <3> QED
      BY <1>2, <1>3, <2>2, <3>1 DEF RunInv
  <2> QED
    BY <1>3, <2>1, <2>2 DEF Feeds
<1>7. PlaceInv'
  <2>1. cursor' = cursor /\ \A f \in Feeds : Feed(f)' = Feed(f)
    BY <1>1 DEF Feed, bankVars, ledgerVars, storeVars
  <2>2. cursor[run.feed] <= run.next /\ run.next <= Len(Feed(run.feed))
    BY <1>1 DEF StateInv, PlaceInv
  <2>3. Feed(run.feed)' = Feed(run.feed)
    BY <1>1, <1>4 DEF Feed, bankVars, ledgerVars
  <2> QED
    BY <1>4, <2>1, <2>2, <2>3 DEF StateInv, PlaceInv
<1>8. JobsInv'
  BY <1>1 DEF StateInv, JobsInv
<1> QED
  BY <1>5, <1>6, <1>7, <1>8 DEF StateInv

\* What a page does to the device: the cursor moves to its end, unless it is a
\* page of mastery and the bank has not been followed yet.
LEMMA ApplyEffect ==
    ASSUME StateInv, ApplyPage
    PROVE  LET f == run.feed
               keys == KeysIn(run.changes)
           IN /\ run.step = "page" /\ f \in Feeds /\ run.changes \in Changes(f)
              /\ keys \subseteq KeysOf(f)
              /\ f = "bank" =>
                   /\ held' = (held \ keys) \cup {i \in keys : Left(run.changes, i) # {}}
                   /\ posed' = posed \cup held' /\ cell' = cell
                   /\ followed' = TRUE /\ cursor' = [cursor EXCEPT ![f] = run.next]
              /\ f = "mastery" =>
                   /\ UNCHANGED <<held, posed, followed>>
                   /\ cell' = [r \in Rules |->
                                 IF r \in keys THEN Coloured(run.changes, r) ELSE cell[r]]
                   /\ cursor' \in {cursor, [cursor EXCEPT ![f] = run.next]}
              /\ repeated' = [repeated EXCEPT ![f] =
                     (repeated[f] \ keys) \cup
                     {k \in keys : \E m, n \in DOMAIN run.changes :
                         m # n /\ run.changes[m].key = k /\ run.changes[n].key = k}]
              /\ run' \in {On, Pulled}
              /\ UNCHANGED <<bankVars, ledgerVars, sessionOpen, locked, job, given, outbox,
                             backfilled, phase, refused, plan>>
<1>1. run.step = "page"
  BY DEF ApplyPage
<1>2. run.feed \in Feeds /\ run.changes \in Changes(run.feed)
  BY <1>1, InHandType
<1>3. KeysIn(run.changes) \subseteq KeysOf(run.feed)
  BY <1>2, ChangeType
<1>4. repeated \in [Feeds -> SUBSET (Items \cup Rules)]
  BY DEF StateInv, TypeOK
<1> QED
  BY <1>1, <1>2, <1>3, <1>4 DEF ApplyPage

\* A page is applied.
LEMMA ApplyPageStateInv ==
    ASSUME StateInv, ApplyPage
    PROVE  StateInv'
<1> DEFINE f == run.feed
           keys == KeysIn(run.changes)
<1>1. /\ run.step = "page" /\ f \in Feeds /\ run.changes \in Changes(f)
      /\ keys \subseteq KeysOf(f)
      /\ run' \in {On, Pulled}
      /\ UNCHANGED <<bankVars, ledgerVars, sessionOpen, locked, job, given, outbox,
                     backfilled, phase, refused, plan>>
  BY ApplyEffect
<1>2. run.next \in Nat /\ run.next <= Len(Feed(f))
  BY <1>1, InHandType DEF StateInv, PlaceInv
<1>3. cursor \in [Feeds -> Nat] /\ repeated \in [Feeds -> SUBSET (Items \cup Rules)]
      /\ held \subseteq posed /\ posed \subseteq Items /\ followed \in BOOLEAN
      /\ cell \in [Rules -> [row : SUBSET AllAnswers, folded : SUBSET Answers]]
  BY DEF StateInv, TypeOK
<1>4. cursor' \in {cursor, [cursor EXCEPT ![f] = run.next]}
  BY <1>1, ApplyEffect DEF Feeds
<1>5. cursor' \in [Feeds -> Nat]
  BY <1>1, <1>2, <1>3, <1>4
<1>6. repeated' \in [Feeds -> SUBSET (Items \cup Rules)]
  <2>1. repeated' = [repeated EXCEPT ![f] =
                       (repeated[f] \ keys) \cup
                       {k \in keys : \E m, n \in DOMAIN run.changes :
                          m # n /\ run.changes[m].key = k /\ run.changes[n].key = k}]
    BY ApplyEffect
  <2>2. keys \subseteq Items \cup Rules
    BY <1>1 DEF KeysOf
  <2> HIDE DEF f, keys
  <2> QED
    BY <1>1, <1>3, <2>1, <2>2 DEF f
<1>7. /\ held' \subseteq posed' /\ posed' \subseteq Items /\ followed' \in BOOLEAN
      /\ cell' \in [Rules -> [row : SUBSET AllAnswers, folded : SUBSET Answers]]
  <2>1. CASE f = "bank"
    <3>1. /\ held' = (held \ keys) \cup {i \in keys : Left(run.changes, i) # {}}
          /\ posed' = posed \cup held' /\ cell' = cell /\ followed' = TRUE
      BY <2>1, ApplyEffect
    <3>2. keys \subseteq Items
      BY <1>1, <2>1 DEF KeysOf
    <3> HIDE DEF keys
    <3> QED
      BY <1>3, <3>1, <3>2
  <2>2. CASE f = "mastery"
    <3>1. /\ UNCHANGED <<held, posed, followed>>
          /\ cell' = [r \in Rules |->
                        IF r \in keys THEN Coloured(run.changes, r) ELSE cell[r]]
      BY <2>2, ApplyEffect
    <3>3. \A r \in keys : Left(run.changes, r) \in SUBSET AllAnswers
      BY <1>1, <2>2, LeftType DEF RowsOf
    <3> HIDE DEF keys
    <3> QED
      BY <1>3, <3>1, <3>3 DEF Coloured
  <2> QED
    BY <1>1, <2>1, <2>2 DEF Feeds
<1>8. run'.step \in {"on", "pulled"}
  BY <1>1 DEF On, Pulled
<1> HIDE DEF f, keys
<1>9. TypeOK'
  BY <1>1, <1>5, <1>6, <1>7, <1>8 DEF StateInv, TypeOK, bankVars, ledgerVars
<1>10. RunInv' /\ JobsInv'
  BY <1>1 DEF StateInv, RunInv, JobsInv
<1>11. PlaceInv'
  <2>1. \A g \in Feeds : Feed(g)' = Feed(g)
    BY <1>1 DEF Feed, bankVars, ledgerVars
  <2>2. \A g \in Feeds : cursor'[g] <= Len(Feed(g))
    BY <1>1, <1>2, <1>3, <1>4, FeedType
  <2> QED
    BY <1>8, <2>1, <2>2 DEF PlaceInv
<1> QED
  BY <1>9, <1>10, <1>11 DEF StateInv

\* Every step keeps the types.
LEMMA StepStateInv == StateInv /\ [Next]_vars => StateInv'
<1> SUFFICES ASSUME StateInv, [Next]_vars
             PROVE  StateInv'
  OBVIOUS
<1>1. CASE Bank
  BY <1>1, BankStateInv
<1>2. ASSUME NEW w \in WebAnswers, AnswerOnWeb(w)
      PROVE  StateInv'
  BY <1>2, AnswerOnWebStateInv
<1>3. ASSUME NEW h \in Handlers, Serve(h) \/ Reject(h) \/ Ended(h)
      PROVE  StateInv'
  BY <1>3, LookupStateInv, EnsureStateInv, ReplayStateInv, EndsAnswerStateInv, EndedStateInv
     DEF Serve
<1>4. CASE CompleteSession \/ Start \/ Stop \/ Advance
  BY <1>4, PhaseStateInv
<1>5. ASSUME NEW a \in Answers, Answer(a)
      PROVE  StateInv'
  BY <1>5, AnswerStateInv
<1>6. ASSUME NEW h \in Uploads, SendBatch(h) \/ ApplyReply(h)
      PROVE  StateInv'
  BY <1>6, SendStateInv, ApplyReplyStateInv
<1>7. CASE Backfill
  BY <1>7, BackfillStateInv
<1>8. CASE Ask \/ Hydrate \/ ApplyPage
  BY <1>8, AskStateInv, HydrateStateInv, ApplyPageStateInv
<1>9. CASE UNCHANGED vars
  <2>1. UNCHANGED <<bankVars, ledgerVars, sessionOpen, locked, job, given, storeVars,
                    run, plan, refused, repeated>>
    BY <1>9 DEF vars
  <2> QED
    BY <2>1, RequestStateInv DEF StateInv, TypeOK, Jobs, JobsInv
<1> QED
  BY <1>1, <1>2, <1>3, <1>4, <1>5, <1>6, <1>7, <1>8, <1>9 DEF Next, Sync

\* Bank, ledger, requests, outbox and copies keep their types: the cursors are
\* numbers whatever the pages, and only answers of the device are refused.
THEOREM TypeCorrect == Spec => []TypeOK
<1>1. StateInv => TypeOK
  BY DEF StateInv
<1> QED
  BY <1>1, InitStateInv, StepStateInv, PTL DEF Spec
-----------------------------------------------------------------------------
(***************************************************************************)
(* The ledger.  A request that writes holds the row lock of its point, so  *)
(* that what it replayed is still what is committed when it commits; and   *)
(* no replay starts after an answer that is recorded.                      *)
(***************************************************************************)

LockInv ==
    \A h \in Handlers :
        job[h].step \in {"write", "commit"} => locked[RuleFor(Current(h))] = h

RowInv ==
    \A h \in Handlers :
        job[h].step = "commit" =>
            job[h].row = {a \in recorded \cup {Current(h)} : RuleFor(a) = RuleFor(Current(h))}

BaselineInv ==
    \A a \in recorded : baseline[RuleFor(a)] # None /\ baseline[RuleFor(a)] <= At[a]

LedgerInv == LockInv /\ RowInv /\ BaselineInv /\ ProjectionWhole

\* Nothing is recorded and nobody writes.
LEMMA InitLedgerInv == Init => LedgerInv
<1> SUFFICES ASSUME Init
             PROVE  LedgerInv
  OBVIOUS
<1>1. recorded = {} /\ mastery = [r \in Rules |-> {}]
  BY DEF Init
<1>2. \A h \in Handlers : job[h].step = "idle"
  BY DEF Init, Idle
<1> QED
  BY <1>1, <1>2 DEF LedgerInv, LockInv, RowInv, BaselineInv, ProjectionWhole

\* A step that leaves the ledger, the locks and the requests at work alone.
LEMMA LedgerKept ==
    ASSUME LedgerInv, UNCHANGED <<ledgerVars, locked>>,
           \A h \in Handlers : job'[h].step \in {"write", "commit"} => job'[h] = job[h]
    PROVE  LedgerInv'
<1>1. \A h \in Handlers : job'[h] = job[h] => Current(h)' = Current(h)
  BY DEF Current
<1>2. UNCHANGED <<recorded, baseline, mastery>> /\ locked' = locked
  BY DEF ledgerVars
<1>3. LockInv'
  BY <1>1, <1>2 DEF LedgerInv, LockInv
<1>4. RowInv'
  BY <1>1, <1>2 DEF LedgerInv, RowInv
<1>5. BaselineInv' /\ ProjectionWhole'
  BY <1>2 DEF LedgerInv, BaselineInv, ProjectionWhole
<1> QED
  BY <1>3, <1>4, <1>5 DEF LedgerInv

\* ensure_baseline waits for the lock, so nobody else holds it.
LEMMA EnsureLedgerInv ==
    ASSUME StateInv, LedgerInv, NEW h \in Handlers, EnsureBaseline(h)
    PROVE  LedgerInv'
<1> DEFINE r == RuleFor(Current(h))
<1>1. /\ job[h].step = "ensure" /\ locked[r] = Nobody /\ locked' = [locked EXCEPT ![r] = h]
      /\ GoTo(h, "write") /\ UNCHANGED ledgerVars
  BY DEF EnsureBaseline, At1
<1>2. /\ \A g \in Handlers \ {h} : job'[g] = job[g]
      /\ job'[h].step = "write" /\ job'[h].left = job[h].left
  BY <1>1, GoesTo
<1>3. \A g \in Handlers : Current(g)' = Current(g)
  BY <1>2 DEF Current
<1>4. r \in Rules /\ locked \in [Rules -> Handlers \cup {Nobody}]
  BY <1>1, CurrentType DEF StateInv, TypeOK
<1>5. UNCHANGED <<recorded, baseline, mastery>>
  BY <1>1 DEF ledgerVars
<1>6. ASSUME NEW g \in Handlers \ {h}, job[g].step \in {"write", "commit"}
      PROVE  locked'[RuleFor(Current(g))] = g
  <2>1. locked[RuleFor(Current(g))] = g
    BY <1>6 DEF LedgerInv, LockInv
  <2>2. g # Nobody
    BY GrammarAssumption
  <2>3. RuleFor(Current(g)) # r
    BY <1>1, <2>1, <2>2
  <2> HIDE DEF r
  <2> QED
    BY <1>1, <1>4, <2>1, <2>3
<1>7. locked'[r] = h
  BY <1>1, <1>4
<1>8. LockInv'
  BY <1>2, <1>3, <1>6, <1>7 DEF LockInv
<1>9. RowInv'
  BY <1>2, <1>3, <1>5 DEF LedgerInv, RowInv
<1>10. BaselineInv' /\ ProjectionWhole'
  BY <1>5 DEF LedgerInv, BaselineInv, ProjectionWhole
<1> QED
  BY <1>8, <1>9, <1>10 DEF LedgerInv

\* The baseline that ensure_baseline leaves is before every answer of its point.
LEMMA MovedBackFirst ==
    ASSUME StateInv, BaselineInv, NEW a \in AllAnswers
    PROVE  LET r == RuleFor(a)
           IN /\ MovedBack(r, a) \in Nat
              /\ \A b \in recorded \cup {a} : RuleFor(b) = r => MovedBack(r, a) <= At[b]
<1> DEFINE r == RuleFor(a)
<1>1. r \in Rules /\ At[a] \in Nat /\ baseline[r] \in Nat \cup {None}
  BY AnswerFacts DEF StateInv, TypeOK
<1>2. MovedBack(r, a) \in Nat /\ MovedBack(r, a) <= At[a]
  BY <1>1 DEF MovedBack, None
<1>3. ASSUME NEW b \in recorded, RuleFor(b) = r
      PROVE  MovedBack(r, a) <= At[b]
  <2>1. At[b] \in Nat
    BY AnswerFacts DEF StateInv, TypeOK
  <2>2. baseline[r] # None /\ baseline[r] <= At[b]
    BY <1>3 DEF BaselineInv
  <2> QED
    BY <1>1, <2>1, <2>2 DEF MovedBack, None
<1> QED
  BY <1>2, <1>3

\* The replay therefore takes in every answer of its point.
LEMMA ReplayLedgerInv ==
    ASSUME StateInv, LedgerInv, NEW h \in Handlers, Replay(h)
    PROVE  LedgerInv'
<1> DEFINE a == Current(h)
           r == RuleFor(a)
<1>1. job[h].step = "write" /\ UNCHANGED <<ledgerVars, locked>>
  BY DEF Replay, At1
<1>2. /\ \A g \in Handlers \ {h} : job'[g] = job[g]
      /\ job'[h].step = "commit" /\ job'[h].left = job[h].left
      /\ job'[h].row = Replayed(r, MovedBack(r, a), recorded \cup {a})
  BY ReplayEffect
<1>3. \A g \in Handlers : Current(g)' = Current(g)
  BY <1>2 DEF Current
<1>4. UNCHANGED <<recorded, baseline, mastery, locked>>
  BY <1>1 DEF ledgerVars
<1>5. a \in AllAnswers
  BY <1>1, CurrentType
<1>6. job'[h].row = {b \in recorded \cup {a} : RuleFor(b) = r}
  <2>1. MovedBack(r, a) \in Nat
        /\ \A b \in recorded \cup {a} : RuleFor(b) = r => MovedBack(r, a) <= At[b]
    BY <1>5, MovedBackFirst DEF LedgerInv
  <2>2. \A b \in recorded \cup {a} : At[b] \in Nat
    BY <1>5, AnswerFacts DEF StateInv, TypeOK
  <2> HIDE DEF a, r
  <2>3. \A b \in recorded \cup {a} : RuleFor(b) = r => At[b] >= MovedBack(r, a)
    BY <2>1, <2>2
  <2> QED
    BY <1>2, <2>3 DEF Replayed
<1>7. LockInv'
  BY <1>1, <1>2, <1>3, <1>4 DEF LedgerInv, LockInv
<1>8. RowInv'
  BY <1>2, <1>3, <1>4, <1>6 DEF LedgerInv, RowInv
<1>9. BaselineInv' /\ ProjectionWhole'
  BY <1>4 DEF LedgerInv, BaselineInv, ProjectionWhole
<1> QED
  BY <1>7, <1>8, <1>9 DEF LedgerInv

\* A request that has ended its answer neither writes nor holds a lock, and what
\* the others hold is of other points.
LEMMA EndsAnswerLedgerInv ==
    ASSUME StateInv, LedgerInv, NEW h \in Handlers, Record(h) \/ Reject(h)
    PROVE  LedgerInv'
<1> DEFINE a == Current(h)
           r == RuleFor(a)
<1>1. job[h].step \in {"adopt", "ensure", "write", "commit"} /\ Next1(h, {a})
  BY EndsAnswer
<1>2. a \in AllAnswers /\ r \in Rules /\ {a} \in SUBSET AllAnswers
  BY <1>1, CurrentType
<1>3. (\A g \in Handlers \ {h} : job'[g] = job[g]) /\ job'[h].step \in {"lookup", "reply"}
  BY <1>1, <1>2, NextOne
<1>4. \A g \in Handlers \ {h} : Current(g)' = Current(g)
  BY <1>3 DEF Current
<1>5. locked \in [Rules -> Handlers \cup {Nobody}]
  BY DEF StateInv, TypeOK
<1>6. ASSUME NEW g \in Handlers \ {h}, job[g].step \in {"write", "commit"}
      PROVE  RuleFor(Current(g)) \in Rules /\ locked[RuleFor(Current(g))] = g
  BY <1>6, CurrentType DEF LedgerInv, LockInv
<1>7. CASE job[h].step = "commit" /\ Committed(h)
  <2>1. /\ recorded' = recorded \cup {a} /\ baseline' = [baseline EXCEPT ![r] = MovedBack(r, a)]
        /\ mastery' = [mastery EXCEPT ![r] = job[h].row]
        /\ locked' = [locked EXCEPT ![r] = Nobody]
    BY <1>7, CommitEffect
  <2>2. locked[r] = h /\ job[h].row = {b \in recorded \cup {a} : RuleFor(b) = r}
    BY <1>7 DEF LedgerInv, LockInv, RowInv
  <2>3. \A g \in Handlers \ {h} : job[g].step \in {"write", "commit"} => RuleFor(Current(g)) # r
    BY <1>6, <2>2
  <2>4. /\ baseline \in [Rules -> Nat \cup {None}] /\ mastery \in [Rules -> SUBSET AllAnswers]
        /\ recorded \subseteq AllAnswers
    BY DEF StateInv, TypeOK
  <2>5. /\ MovedBack(r, a) \in Nat
        /\ \A b \in recorded \cup {a} : RuleFor(b) = r => MovedBack(r, a) <= At[b]
    BY <1>2, MovedBackFirst DEF LedgerInv
  <2> HIDE DEF a, r
  <2>6. LockInv'
    BY <1>3, <1>4, <1>5, <1>6, <2>1, <2>3 DEF LockInv
  <2>7. RowInv'
    <3> SUFFICES ASSUME NEW g \in Handlers \ {h}, job[g].step = "commit"
                 PROVE  job[g].row = {b \in recorded' \cup {Current(g)} :
                                        RuleFor(b) = RuleFor(Current(g))}
      BY <1>3, <1>4 DEF RowInv
    <3>1. RuleFor(Current(g)) # r /\ RuleFor(a) = r
      BY <2>3 DEF r
    <3>2. job[g].row = {b \in recorded \cup {Current(g)} : RuleFor(b) = RuleFor(Current(g))}
      BY DEF LedgerInv, RowInv
    <3> QED
      BY <2>1, <3>1, <3>2
  <2>8. BaselineInv'
    <3> SUFFICES ASSUME NEW b \in recorded \cup {a}
                 PROVE  baseline'[RuleFor(b)] # None /\ baseline'[RuleFor(b)] <= At[b]
      BY <2>1 DEF BaselineInv
    <3>1. RuleFor(b) \in Rules
      BY <1>2, <2>4, AnswerFacts
    <3>2. CASE RuleFor(b) = r
      <4>1. baseline'[r] = MovedBack(r, a)
        BY <1>2, <2>1, <2>4
      <4> QED
        BY <2>5, <3>2, <4>1 DEF None
    <3>3. CASE RuleFor(b) # r
      <4>1. b \in recorded
        BY <3>3 DEF r
      <4>2. baseline'[RuleFor(b)] = baseline[RuleFor(b)]
        BY <2>1, <2>4, <3>1, <3>3
      <4> QED
        BY <4>1, <4>2 DEF LedgerInv, BaselineInv
    <3> QED
      BY <3>2, <3>3
  <2>9. ProjectionWhole'
    <3> SUFFICES ASSUME NEW q \in Rules
                 PROVE  mastery'[q] = {b \in recorded \cup {a} : RuleFor(b) = q}
      BY <2>1 DEF ProjectionWhole
    <3>1. CASE q = r
      BY <2>1, <2>2, <2>4, <3>1
    <3>2. CASE q # r
      <4>1. mastery'[q] = mastery[q] /\ mastery[q] = {b \in recorded : RuleFor(b) = q}
        BY <2>1, <2>4, <3>2 DEF LedgerInv, ProjectionWhole
      <4>2. RuleFor(a) # q
        BY <3>2 DEF r
      <4> QED
        BY <4>1, <4>2
    <3> QED
      BY <3>1, <3>2
  <2> QED
    BY <2>6, <2>7, <2>8, <2>9 DEF LedgerInv
<1>8. CASE /\ locked' = [q \in Rules |-> IF locked[q] = h THEN Nobody ELSE locked[q]]
           /\ UNCHANGED ledgerVars
  <2>1. UNCHANGED <<recorded, baseline, mastery>>
    BY <1>8 DEF ledgerVars
  <2>2. LockInv'
    BY <1>3, <1>4, <1>6, <1>8 DEF LockInv
  <2>3. RowInv'
    BY <1>3, <1>4, <2>1 DEF LedgerInv, RowInv
  <2>4. BaselineInv' /\ ProjectionWhole'
    BY <2>1 DEF LedgerInv, BaselineInv, ProjectionWhole
  <2> QED
    BY <2>2, <2>3, <2>4 DEF LedgerInv
<1> QED
  BY <1>7, <1>8, EndsAnswer

\* What the other steps do to a request: they begin one, tell it the fate of an
\* answer, or end it.
LEMMA RequestsAtWork ==
    ASSUME StateInv, Next,
           ~\E h \in Handlers : EnsureBaseline(h) \/ Replay(h) \/ Record(h) \/ Reject(h)
    PROVE  /\ UNCHANGED <<ledgerVars, locked>>
           /\ \A h \in Handlers : job'[h].step \in {"write", "commit"} => job'[h] = job[h]
<1> DEFINE Done == /\ UNCHANGED <<ledgerVars, locked>>
                   /\ \A h \in Handlers : job'[h].step \in {"write", "commit"} => job'[h] = job[h]
<1>0. job \in [Handlers -> Jobs]
  BY DEF StateInv, TypeOK, Jobs
<1>1. CASE Bank \/ CompleteSession \/ Start \/ Stop \/ Backfill \/ Advance \/ Ask \/ Hydrate
           \/ ApplyPage
  BY <1>1 DEF Bank, CompleteSession, Start, Stop, Backfill, Advance, AdvanceTo, Ask, Hydrate,
              ApplyPage
<1>2. ASSUME NEW a \in Answers, Answer(a)
      PROVE  Done
  BY <1>2 DEF Answer
<1>3. ASSUME NEW w \in WebAnswers, AnswerOnWeb(w)
      PROVE  Done
  <2>1. UNCHANGED <<ledgerVars, locked>>
        /\ job' = [job EXCEPT ![w] = [step |-> "ensure", left |-> <<w>>, told |-> {}, row |-> {}]]
    BY <1>3 DEF AnswerOnWeb
  <2>2. job'[w].step = "ensure" /\ \A g \in Handlers \ {w} : job'[g] = job[g]
    BY <1>0, <2>1, AnswerFacts
  <2> QED
    BY <2>1, <2>2
<1>4. ASSUME NEW h \in Handlers, Lookup(h) \/ Adopt(h)
      PROVE  Done
  <2>1. job[h].step \in {"lookup", "adopt"} /\ h \in Uploads
    BY <1>4, AnswerFacts DEF Lookup, Adopt, At1, StateInv, JobsInv
  <2>2. {Current(h)} \in SUBSET AllAnswers
    BY <2>1, CurrentType
  <2>3. UNCHANGED <<ledgerVars, locked>>
        /\ (Next1(h, {Current(h)}) \/ GoTo(h, "adopt") \/ GoTo(h, "ensure"))
    BY <1>4 DEF Lookup, Adopt
  <2>4. CASE Next1(h, {Current(h)})
    <3>1. job'[h].step \in {"lookup", "reply"} /\ \A g \in Handlers \ {h} : job'[g] = job[g]
      BY <2>1, <2>2, <2>4, NextOne
    <3> QED
      BY <2>3, <3>1
  <2>5. CASE GoTo(h, "adopt")
    <3>1. job'[h].step = "adopt" /\ \A g \in Handlers \ {h} : job'[g] = job[g]
      BY <2>1, <2>5, GoesTo
    <3> QED
      BY <2>3, <3>1
  <2>6. CASE GoTo(h, "ensure")
    <3>1. job'[h].step = "ensure" /\ \A g \in Handlers \ {h} : job'[g] = job[g]
      BY <2>1, <2>6, GoesTo
    <3> QED
      BY <2>3, <3>1
  <2> QED
    BY <2>3, <2>4, <2>5, <2>6
<1>5. ASSUME NEW h \in Handlers, Ended(h)
      PROVE  Done
  <2>1. UNCHANGED <<ledgerVars, locked>> /\ job' = [job EXCEPT ![h] = Idle]
    BY <1>5 DEF Ended
  <2>2. job'[h].step = "idle" /\ \A g \in Handlers \ {h} : job'[g] = job[g]
    BY <1>0, <2>1 DEF Idle
  <2> QED
    BY <2>1, <2>2
<1>6. ASSUME NEW h \in Uploads, SendBatch(h) \/ ApplyReply(h)
      PROVE  Done
  <2>1. UNCHANGED <<ledgerVars, locked>> /\ h \in Handlers
    BY <1>6, AnswerFacts DEF SendBatch, ApplyReply
  <2>2. \E j \in Jobs : job' = [job EXCEPT ![h] = j] /\ j.step \in {"lookup", "idle"}
    BY <1>6, SendEffect, IdleType DEF ApplyReply, Idle
  <2>3. job'[h].step \in {"lookup", "idle"} /\ \A g \in Handlers \ {h} : job'[g] = job[g]
    BY <1>0, <2>1, <2>2
  <2> QED
    BY <2>1, <2>3
<1> QED
  BY <1>1, <1>2, <1>3, <1>4, <1>5, <1>6 DEF Next, Sync, Serve

\* Every step keeps the ledger's invariant.
LEMMA StepLedgerInv == StateInv /\ LedgerInv /\ [Next]_vars => LedgerInv'
<1> SUFFICES ASSUME StateInv, LedgerInv, [Next]_vars
             PROVE  LedgerInv'
  OBVIOUS
<1>1. CASE \E h \in Handlers : EnsureBaseline(h) \/ Replay(h) \/ Record(h) \/ Reject(h)
  BY <1>1, EnsureLedgerInv, ReplayLedgerInv, EndsAnswerLedgerInv
<1>2. CASE Next /\ ~\E h \in Handlers : EnsureBaseline(h) \/ Replay(h) \/ Record(h) \/ Reject(h)
  BY <1>2, RequestsAtWork, LedgerKept
<1>3. CASE UNCHANGED vars
  BY <1>3, LedgerKept DEF vars
<1> QED
  BY <1>1, <1>2, <1>3

\* A mastery row accounts for every answer recorded for its point, however late
\* an answer arrives and however many requests record at the same time.
THEOREM ProjectionIsWhole == Spec => []ProjectionWhole
<1>1. LedgerInv => ProjectionWhole
  BY DEF LedgerInv
<1> QED
  BY <1>1, InitStateInv, StepStateInv, InitLedgerInv, StepLedgerInv, PTL DEF Spec
-----------------------------------------------------------------------------
(***************************************************************************)
(* The outbox.  A request tells the device only of answers that are        *)
(* recorded or refused, so that no other ever leaves the outbox; and every *)
(* answer on its way was given.                                            *)
(***************************************************************************)

ToldInv == \A h \in Handlers : job[h].told \subseteq recorded \cup refused

GivenInv ==
    /\ recorded \subseteq given /\ Queued \subseteq given
    /\ \A h \in Handlers : \A n \in DOMAIN job[h].left : job[h].left[n] \in given

OutboxInv == ToldInv /\ GivenInv /\ KeptUnlessRefused

\* Nothing has been given.
LEMMA InitOutboxInv == Init => OutboxInv
<1> SUFFICES ASSUME Init
             PROVE  OutboxInv
  OBVIOUS
<1>1. recorded = {} /\ given = {} /\ Queued = {}
  BY DEF Init, Queued
<1>2. \A h \in Handlers : job[h].told = {} /\ job[h].left = <<>>
  BY DEF Init, Idle
<1>3. \A h \in Handlers : DOMAIN job[h].left = {}
  <2>1. DOMAIN <<>> = {}
    OBVIOUS
  <2> QED
    BY <1>2, <2>1
<1> QED
  BY <1>1, <1>2, <1>3 DEF OutboxInv, ToldInv, GivenInv, KeptUnlessRefused

\* What a request tells and what it has left, in steps that only let the tables
\* grow and leave the outbox alone.
LEMMA OutboxKept ==
    ASSUME OutboxInv, UNCHANGED outbox, given \subseteq given',
           recorded \subseteq recorded', refused \subseteq refused', recorded' \subseteq given',
           given' \cap Answers \subseteq given,
           \A h \in Handlers :
              /\ job'[h].told \subseteq recorded' \cup refused'
              /\ \A n \in DOMAIN job'[h].left : job'[h].left[n] \in given'
    PROVE  OutboxInv'
<1>1. Queued' = Queued
  BY DEF Queued
<1> QED
  BY <1>1 DEF OutboxInv, ToldInv, GivenInv, KeptUnlessRefused

\* What is left of a request after its answer was left before.
LEMMA TailOf ==
    ASSUME NEW S, NEW s \in Seq(S), s # <<>>, NEW T, \A n \in DOMAIN s : s[n] \in T
    PROVE  Head(s) \in T /\ \A n \in DOMAIN Tail(s) : Tail(s)[n] \in T
<1>1. Len(s) \in Nat \ {0} /\ DOMAIN s = 1..Len(s) /\ Head(s) = s[1]
  BY HeadTailProperties, LenProperties, EmptySeq
<1>2. /\ Tail(s) \in Seq(S) /\ Len(Tail(s)) = Len(s) - 1
      /\ \A n \in 1..Len(Tail(s)) : Tail(s)[n] = s[n + 1]
  BY HeadTailProperties
<1>3. DOMAIN Tail(s) = 1..Len(Tail(s))
  BY <1>2, LenProperties
<1> QED
  BY <1>1, <1>2, <1>3

\* Answers at hand were given.
LEMMA AtHandGiven ==
    ASSUME StateInv, GivenInv, NEW h \in Handlers, job[h].step \notin {"idle", "reply"}
    PROVE  /\ Current(h) \in given
           /\ \A n \in DOMAIN Tail(job[h].left) : Tail(job[h].left)[n] \in given
<1>1. job[h].left \in Seq(AllAnswers) /\ job[h].left # <<>>
  BY CurrentType
<1>2. \A n \in DOMAIN job[h].left : job[h].left[n] \in given
  BY DEF GivenInv
<1> QED
  BY <1>1, <1>2, TailOf DEF Current

\* A request that has the result of its answer.
LEMMA NextOneOutbox ==
    ASSUME StateInv, OutboxInv, NEW h \in Handlers, job[h].step \notin {"idle", "reply"},
           Next1(h, {Current(h)}), UNCHANGED <<outbox, given>>,
           recorded' \in {recorded, recorded \cup {Current(h)}},
           refused' \in {refused, refused \cup {Current(h)}},
           Current(h) \in recorded' \cup refused'
    PROVE  OutboxInv'
<1>1. {Current(h)} \in SUBSET AllAnswers
  BY CurrentType
<1>2. /\ \A g \in Handlers \ {h} : job'[g] = job[g]
      /\ job'[h].left = Tail(job[h].left) /\ job'[h].told = job[h].told \cup {Current(h)}
  BY <1>1, NextOne
<1>3. Current(h) \in given
      /\ \A n \in DOMAIN Tail(job[h].left) : Tail(job[h].left)[n] \in given
  BY AtHandGiven DEF OutboxInv
<1>4. recorded \subseteq given
  BY DEF OutboxInv, GivenInv
<1>5. ASSUME NEW g \in Handlers
      PROVE  /\ job'[g].told \subseteq recorded' \cup refused'
             /\ \A n \in DOMAIN job'[g].left : job'[g].left[n] \in given'
  <2>1. job[g].told \subseteq recorded \cup refused
        /\ \A n \in DOMAIN job[g].left : job[g].left[n] \in given
    BY DEF OutboxInv, ToldInv, GivenInv
  <2>2. CASE g = h
    BY <1>2, <1>3, <2>1, <2>2
  <2>3. CASE g # h
    BY <1>2, <2>1, <2>3
  <2> QED
    BY <2>2, <2>3
<1> QED
  BY <1>3, <1>4, <1>5, OutboxKept

\* A request that goes on with the answer at hand.
LEMMA SameAnswersOutbox ==
    ASSUME OutboxInv, UNCHANGED <<outbox, given, recorded, refused>>,
           \A h \in Handlers : job'[h].told = job[h].told /\ job'[h].left = job[h].left
    PROVE  OutboxInv'
<1>1. \A h \in Handlers :
         /\ job'[h].told \subseteq recorded' \cup refused'
         /\ \A n \in DOMAIN job'[h].left : job'[h].left[n] \in given'
  BY DEF OutboxInv, ToldInv, GivenInv
<1>2. recorded \subseteq given
  BY DEF OutboxInv, GivenInv
<1> QED
  BY <1>1, <1>2, OutboxKept

\* The requests of the server.
LEMMA ServeOutboxInv ==
    ASSUME StateInv, OutboxInv, NEW h \in Handlers, Serve(h) \/ Reject(h)
    PROVE  OutboxInv'
<1>1. UNCHANGED <<outbox, given>>
  BY DEF Serve, Lookup, Adopt, EnsureBaseline, Replay, Record, Reject, storeVars
<1>2. CASE Lookup(h)
  <2>1. job[h].step = "lookup" /\ h \in Uploads /\ UNCHANGED <<recorded, refused>>
    BY <1>2, AnswerFacts DEF Lookup, At1, StateInv, JobsInv, ledgerVars
  <2>2. CASE Current(h) \in recorded /\ Next1(h, {Current(h)})
    BY <1>1, <2>1, <2>2, NextOneOutbox
  <2>3. CASE GoTo(h, "adopt")
    <3>1. \A g \in Handlers : job'[g].told = job[g].told /\ job'[g].left = job[g].left
      BY <2>1, <2>3, GoesTo
    <3> QED
      BY <1>1, <2>1, <3>1, SameAnswersOutbox
  <2> QED
    BY <1>2, <2>2, <2>3 DEF Lookup
<1>3. CASE Adopt(h)
  <2>1. job[h].step = "adopt" /\ UNCHANGED recorded
    BY <1>3 DEF Adopt, At1, ledgerVars
  <2>2. CASE Next1(h, {Current(h)}) /\ refused' = refused \cup {Current(h)}
    BY <1>1, <2>1, <2>2, NextOneOutbox
  <2>3. CASE GoTo(h, "ensure") /\ UNCHANGED refused
    <3>1. \A g \in Handlers : job'[g].told = job[g].told /\ job'[g].left = job[g].left
      BY <2>1, <2>3, GoesTo
    <3> QED
      BY <1>1, <2>1, <2>3, <3>1, SameAnswersOutbox
  <2> QED
    BY <1>3, <2>2, <2>3 DEF Adopt
<1>4. CASE EnsureBaseline(h)
  <2>1. job[h].step = "ensure" /\ GoTo(h, "write") /\ UNCHANGED <<recorded, refused>>
    BY <1>4 DEF EnsureBaseline, At1, ledgerVars
  <2>2. \A g \in Handlers : job'[g].told = job[g].told /\ job'[g].left = job[g].left
    BY <2>1, GoesTo
  <2> QED
    BY <1>1, <2>1, <2>2, SameAnswersOutbox
<1>5. CASE Replay(h)
  <2>1. UNCHANGED <<recorded, refused>>
    BY <1>5 DEF Replay, ledgerVars
  <2>2. \A g \in Handlers : job'[g].told = job[g].told /\ job'[g].left = job[g].left
    BY <1>5, ReplayEffect
  <2> QED
    BY <1>1, <2>1, <2>2, SameAnswersOutbox
<1>6. CASE Record(h) \/ Reject(h)
  <2>1. /\ job[h].step \notin {"idle", "reply"} /\ Next1(h, {Current(h)})
        /\ refused' \in {refused, refused \cup {Current(h)}}
    BY <1>6, EndsAnswer
  <2>2. CASE job[h].step = "commit" /\ Committed(h)
    <3>1. recorded' = recorded \cup {Current(h)}
      BY <2>2 DEF Committed
    <3> QED
      BY <1>1, <2>1, <3>1, NextOneOutbox
  <2>3. CASE UNCHANGED ledgerVars /\ refused' = refused \cup {Current(h)}
    <3>1. UNCHANGED recorded
      BY <2>3 DEF ledgerVars
    <3> QED
      BY <1>1, <2>1, <2>3, <3>1, NextOneOutbox
  <2> QED
    BY <1>6, <2>2, <2>3, EndsAnswer
<1> QED
  BY <1>2, <1>3, <1>4, <1>5, <1>6 DEF Serve

\* An answer that is given is queued: its ticket is never 0.
LEMMA AnswerOutboxInv ==
    ASSUME StateInv, OutboxInv, NEW a \in Answers, Answer(a)
    PROVE  OutboxInv'
<1>1. /\ given' = given \cup {a} /\ outbox' = [outbox EXCEPT ![a] = NextTicket]
      /\ UNCHANGED <<recorded, refused, job>>
  BY DEF Answer, ledgerVars
<1>2. Queued' = Queued \cup {a}
  <2>1. NextTicket # 0
    BY TicketType
  <2>2. outbox \in [Answers -> Nat]
    BY DEF StateInv, TypeOK
  <2> HIDE DEF NextTicket
  <2> QED
    BY <1>1, <2>1, <2>2 DEF Queued
<1> QED
  BY <1>1, <1>2 DEF OutboxInv, ToldInv, GivenInv, KeptUnlessRefused

\* An answer given in the browser is never in the outbox.
LEMMA AnswerOnWebOutboxInv ==
    ASSUME StateInv, OutboxInv, NEW w \in WebAnswers, AnswerOnWeb(w)
    PROVE  OutboxInv'
<1> DEFINE J == [step |-> "ensure", left |-> <<w>>, told |-> {}, row |-> {}]
<1>1. /\ given' = given \cup {w} /\ job' = [job EXCEPT ![w] = J]
      /\ UNCHANGED <<recorded, refused, outbox>>
  BY DEF AnswerOnWeb, ledgerVars, storeVars
<1>2. J.told = {} /\ \A n \in DOMAIN J.left : J.left[n] = w
  OBVIOUS
<1> HIDE DEF J
<1>3. w \in Handlers /\ w \notin Answers /\ job \in [Handlers -> Jobs]
  BY AnswerFacts DEF StateInv, TypeOK, Jobs
<1>4. job'[w] = J /\ \A g \in Handlers \ {w} : job'[g] = job[g]
  BY <1>1, <1>3
<1>5. \A g \in Handlers : /\ job'[g].told \subseteq recorded' \cup refused'
                          /\ \A n \in DOMAIN job'[g].left : job'[g].left[n] \in given'
  BY <1>1, <1>2, <1>4 DEF OutboxInv, ToldInv, GivenInv
<1>6. recorded \subseteq given
  BY DEF OutboxInv, GivenInv
<1> QED
  BY <1>1, <1>3, <1>5, <1>6, OutboxKept

\* A request begins with queued answers, and ends with none.
LEMMA RequestOutboxInv ==
    ASSUME StateInv, OutboxInv,
           \/ \E h \in Handlers : Ended(h)
           \/ \E h \in Uploads : SendBatch(h)
    PROVE  OutboxInv'
<1>1. UNCHANGED <<outbox, given, recorded, refused>>
  BY DEF Ended, SendBatch, ledgerVars, storeVars
<1>2. PICK h \in Handlers : \E j \in Jobs :
         /\ job' = [job EXCEPT ![h] = j] /\ j.told = {}
         /\ \A n \in DOMAIN j.left : j.left[n] \in given
  <2>1. ASSUME NEW h \in Handlers, Ended(h)
        PROVE  /\ job' = [job EXCEPT ![h] = Idle] /\ Idle.told = {}
               /\ \A n \in DOMAIN Idle.left : Idle.left[n] \in given
    <3>1. Idle.told = {} /\ Idle.left = <<>>
      BY DEF Idle
    <3>2. DOMAIN <<>> = {}
      OBVIOUS
    <3> QED
      BY <2>1, <3>1, <3>2 DEF Ended
  <2>2. ASSUME NEW h \in Uploads, SendBatch(h)
        PROVE  \E j \in Jobs : /\ job' = [job EXCEPT ![h] = j] /\ j.told = {}
                               /\ \A n \in DOMAIN j.left : j.left[n] \in given
    <3>1. PICK j \in Jobs : /\ job' = [job EXCEPT ![h] = j] /\ j.told = {}
                            /\ j.left \in Seq(Queued)
      BY <2>2, SendEffect
    <3>2. \A n \in DOMAIN j.left : j.left[n] \in Queued
      BY <3>1, LenProperties, ElementOfSeq
    <3> QED
      BY <3>1, <3>2 DEF OutboxInv, GivenInv
  <2> QED
    BY <2>1, <2>2, IdleType, AnswerFacts
<1>3. PICK j \in Jobs : /\ job' = [job EXCEPT ![h] = j] /\ j.told = {}
                        /\ \A n \in DOMAIN j.left : j.left[n] \in given
  BY <1>2
<1>4. job \in [Handlers -> Jobs]
  BY DEF StateInv, TypeOK, Jobs
<1>5. job'[h] = j /\ \A g \in Handlers \ {h} : job'[g] = job[g]
  BY <1>3, <1>4
<1>6. \A g \in Handlers : /\ job'[g].told \subseteq recorded' \cup refused'
                          /\ \A n \in DOMAIN job'[g].left : job'[g].left[n] \in given'
  BY <1>1, <1>3, <1>5 DEF OutboxInv, ToldInv, GivenInv
<1>7. recorded \subseteq given
  BY DEF OutboxInv, GivenInv
<1> QED
  BY <1>1, <1>6, <1>7, OutboxKept

\* A reply takes out of the outbox what its request was told.
LEMMA ApplyReplyOutboxInv ==
    ASSUME StateInv, OutboxInv, NEW h \in Uploads, ApplyReply(h)
    PROVE  OutboxInv'
<1>1. /\ outbox' = [a \in Answers |-> IF a \in Remaining(h) THEN outbox[a] ELSE 0]
      /\ job' = [job EXCEPT ![h] = Idle] /\ UNCHANGED <<given, recorded, refused>>
  BY DEF ApplyReply, ledgerVars
<1>2. Queued' = Queued \ job[h].told
  <2>1. Queued' = {a \in Answers : outbox'[a] # 0}
    BY DEF Queued
  <2>2. \A a \in Answers : outbox'[a] # 0 <=> a \in Queued /\ a \notin job[h].told
    BY <1>1 DEF Remaining, Queued
  <2>3. Queued \subseteq Answers
    BY DEF Queued
  <2> QED
    BY <2>1, <2>2, <2>3
<1>3. h \in Handlers /\ job \in [Handlers -> Jobs]
  BY AnswerFacts DEF StateInv, TypeOK, Jobs
<1>4. job'[h] = Idle /\ \A g \in Handlers \ {h} : job'[g] = job[g]
  BY <1>1, <1>3
<1>5. Idle.told = {} /\ DOMAIN Idle.left = {}
  <2>1. Idle.told = {} /\ Idle.left = <<>>
    BY DEF Idle
  <2>2. DOMAIN <<>> = {}
    OBVIOUS
  <2> QED
    BY <2>1, <2>2
<1>6. ToldInv' /\ GivenInv'
  BY <1>1, <1>2, <1>4, <1>5 DEF OutboxInv, ToldInv, GivenInv
<1>7. KeptUnlessRefused'
  BY <1>1, <1>2, <1>3 DEF OutboxInv, ToldInv, KeptUnlessRefused
<1> QED
  BY <1>6, <1>7 DEF OutboxInv

\* Every step keeps the outbox's invariant.
LEMMA StepOutboxInv == StateInv /\ OutboxInv /\ [Next]_vars => OutboxInv'
<1> SUFFICES ASSUME StateInv, OutboxInv, [Next]_vars
             PROVE  OutboxInv'
  OBVIOUS
<1>1. CASE Bank \/ CompleteSession \/ Start \/ Stop \/ Backfill \/ Advance \/ Ask \/ Hydrate
           \/ ApplyPage
  <2>1. UNCHANGED <<outbox, given, recorded, refused, job>>
    BY <1>1 DEF Bank, CompleteSession, Start, Stop, Backfill, Advance, AdvanceTo, Ask, Hydrate,
                ApplyPage, ledgerVars, storeVars
  <2> QED
    BY <2>1, SameAnswersOutbox
<1>2. CASE \E a \in Answers : Answer(a)
  BY <1>2, AnswerOutboxInv
<1>3. CASE \E w \in WebAnswers : AnswerOnWeb(w)
  BY <1>3, AnswerOnWebOutboxInv
<1>4. CASE \E h \in Handlers : Serve(h) \/ Reject(h)
  BY <1>4, ServeOutboxInv
<1>5. CASE (\E h \in Handlers : Ended(h)) \/ \E h \in Uploads : SendBatch(h)
  BY <1>5, RequestOutboxInv
<1>6. CASE \E h \in Uploads : ApplyReply(h)
  BY <1>6, ApplyReplyOutboxInv
<1>7. CASE UNCHANGED vars
  <2>1. UNCHANGED <<outbox, given, recorded, refused, job>>
    BY <1>7 DEF vars, ledgerVars, storeVars
  <2> QED
    BY <2>1, SameAnswersOutbox
<1> QED
  BY <1>1, <1>2, <1>3, <1>4, <1>5, <1>6, <1>7 DEF Next, Sync

\* An answer given on the device stays in its outbox until the server has it or
\* has refused it, across lost replies, stopped runs and requests served late.
THEOREM OutboxKeeps == Spec => []KeptUnlessRefused
<1>1. OutboxInv => KeptUnlessRefused
  BY DEF OutboxInv
<1> QED
  BY <1>1, InitStateInv, StepStateInv, InitOutboxInv, StepOutboxInv, PTL DEF Spec
-----------------------------------------------------------------------------
(***************************************************************************)
(* The mirror.  What a device has of an item or a point is what the server *)
(* has, or a change of it is still to come in the feed, or the last page   *)
(* named it twice.  A page in hand reaches no further than its end, and    *)
(* what it carries is current or has changed beyond its end.               *)
(***************************************************************************)

After(feed, p) == {feed[n] : n \in (p + 1)..Len(feed)}
Beyond(f, p) == After(Feed(f), p)

BankInv ==
    \A i \in Items :
        \/ i \in Beyond("bank", cursor["bank"])
        \/ i \in repeated["bank"]
        \/ i \in held <=> status[i] = "active"

MasteryInv ==
    \A r \in Rules :
        \/ r \in Beyond("mastery", cursor["mastery"])
        \/ r \in repeated["mastery"]
        \/ cell[r].row = mastery[r]

\* An answer the device has folded in and the server has recorded is one whose
\* point is still to come.
FoldedInv ==
    \A r \in Rules : \A a \in cell[r].folded :
        /\ RuleFor(a) = r /\ a \in given
        /\ a \in recorded => r \in Beyond("mastery", cursor["mastery"])

ReadInv ==
    run.step = "read" =>
        \A n \in (cursor[run.feed] + 1)..run.next :
            \E m \in DOMAIN run.keys : run.keys[m] = Feed(run.feed)[n]

PageInv ==
    run.step = "page" =>
        /\ \A n \in (cursor[run.feed] + 1)..run.next : Feed(run.feed)[n] \in KeysIn(run.changes)
        /\ \A n \in DOMAIN run.changes :
             (\A m \in 1..(n - 1) : run.changes[m].key # run.changes[n].key) =>
                \/ run.changes[n].row = Row(run.feed, run.changes[n].key)
                \/ run.changes[n].key \in Beyond(run.feed, run.next)

MirrorInv == BankInv /\ MasteryInv /\ FoldedInv /\ ReadInv /\ PageInv

\* The end of a feed: it grows, and from an earlier place there is more of it.
LEMMA AfterGrows ==
    ASSUME NEW s, NEW t, Len(s) \in Nat, Len(t) \in Nat, Len(s) <= Len(t),
           \A n \in 1..Len(s) : t[n] = s[n], NEW p \in Nat
    PROVE  /\ After(s, p) \subseteq After(t, p)
           /\ p <= Len(s) => After(t, Len(s)) \subseteq After(t, p)
BY DEF After

\* From a later place there is less of it, by what is between the two.
LEMMA AfterLater ==
    ASSUME NEW s, Len(s) \in Nat, NEW p \in Nat, NEW q \in Nat, p <= q, q <= Len(s)
    PROVE  /\ After(s, q) \subseteq After(s, p)
           /\ \A k \in After(s, p) : k \in After(s, q) \/ \E n \in (p + 1)..q : s[n] = k
BY DEF After

\* The device holds nothing, and nothing exists.
LEMMA InitMirrorInv == Init => MirrorInv
<1> SUFFICES ASSUME Init
             PROVE  MirrorInv
  OBVIOUS
<1>1. /\ \A i \in Items : i \notin held /\ status[i] # "active"
      /\ \A r \in Rules : cell[r].row = mastery[r] /\ cell[r].folded = {}
      /\ run.step = "off"
  BY DEF Init, NoCell, Off
<1> QED
  BY <1>1 DEF MirrorInv, BankInv, MasteryInv, FoldedInv, ReadInv, PageInv

\* Whatever the server does, it adds to a feed what it has changed.
Reports ==
    /\ Len(bankFeed') \in Nat /\ Len(bankFeed) <= Len(bankFeed')
    /\ \A n \in 1..Len(bankFeed) : bankFeed'[n] = bankFeed[n]
    /\ Len(masteryFeed') \in Nat /\ Len(masteryFeed) <= Len(masteryFeed')
    /\ \A n \in 1..Len(masteryFeed) : masteryFeed'[n] = masteryFeed[n]
    /\ \A i \in Items : status'[i] = status[i] \/ i \in After(bankFeed', Len(bankFeed))
    /\ \A r \in Rules : mastery'[r] = mastery[r] \/ r \in After(masteryFeed', Len(masteryFeed))
    /\ \A a \in recorded' \ recorded : RuleFor(a) \in After(masteryFeed', Len(masteryFeed))

\* What is after a place of the device before such a step is after it still, and
\* so is what the step has changed.
LEMMA ReportsAfter ==
    ASSUME StateInv, Reports, NEW p \in Nat
    PROVE  /\ After(bankFeed, p) \subseteq After(bankFeed', p)
           /\ After(masteryFeed, p) \subseteq After(masteryFeed', p)
           /\ p <= Len(bankFeed) =>
                \A i \in Items : status'[i] = status[i] \/ i \in After(bankFeed', p)
           /\ p <= Len(masteryFeed) =>
                /\ \A r \in Rules : mastery'[r] = mastery[r] \/ r \in After(masteryFeed', p)
                /\ \A a \in recorded' \ recorded : RuleFor(a) \in After(masteryFeed', p)
<1>1. Len(bankFeed) \in Nat /\ Len(masteryFeed) \in Nat
  BY DEF StateInv, TypeOK
<1>2. /\ After(bankFeed, p) \subseteq After(bankFeed', p)
      /\ p <= Len(bankFeed) => After(bankFeed', Len(bankFeed)) \subseteq After(bankFeed', p)
  BY <1>1, AfterGrows DEF Reports
<1>3. /\ After(masteryFeed, p) \subseteq After(masteryFeed', p)
      /\ p <= Len(masteryFeed) =>
           After(masteryFeed', Len(masteryFeed)) \subseteq After(masteryFeed', p)
  BY <1>1, AfterGrows DEF Reports
<1> QED
  BY <1>2, <1>3 DEF Reports

\* The device's places, as the server's steps find them.
LEMMA Places ==
    ASSUME StateInv
    PROVE  /\ cursor["bank"] \in Nat /\ cursor["bank"] <= Len(bankFeed)
           /\ cursor["mastery"] \in Nat /\ cursor["mastery"] <= Len(masteryFeed)
           /\ Len(bankFeed) \in Nat /\ Len(masteryFeed) \in Nat
           /\ run.step \in {"read", "page"} =>
                /\ run.feed \in Feeds /\ run.next \in Nat
                /\ cursor[run.feed] <= run.next /\ run.next <= Len(Feed(run.feed))
<1>1. /\ cursor["bank"] \in Nat /\ cursor["bank"] <= Len(bankFeed)
      /\ cursor["mastery"] \in Nat /\ cursor["mastery"] <= Len(masteryFeed)
      /\ Len(bankFeed) \in Nat /\ Len(masteryFeed) \in Nat
  BY FeedType DEF Feed, Feeds
<1>2. ASSUME run.step \in {"read", "page"}
      PROVE  /\ run.feed \in Feeds /\ run.next \in Nat
             /\ cursor[run.feed] <= run.next /\ run.next <= Len(Feed(run.feed))
  BY <1>2, InHandType DEF StateInv, PlaceInv
<1> QED
  BY <1>1, <1>2

\* A step of the server, or of nobody.
LEMMA ServerMirrorInv ==
    ASSUME StateInv, MirrorInv, Reports, UNCHANGED <<held, cell, cursor, run, repeated>>,
           given \subseteq given'
    PROVE  MirrorInv'
<1>1. /\ cursor["bank"] \in Nat /\ cursor["bank"] <= Len(bankFeed)
      /\ cursor["mastery"] \in Nat /\ cursor["mastery"] <= Len(masteryFeed)
      /\ Len(bankFeed) \in Nat /\ Len(masteryFeed) \in Nat
  BY Places
<1>2. BankInv'
  BY <1>1, ReportsAfter DEF MirrorInv, BankInv, Beyond, Feed
<1>3. MasteryInv'
  BY <1>1, ReportsAfter DEF MirrorInv, MasteryInv, Beyond, Feed
<1>4. FoldedInv'
  <2> SUFFICES ASSUME NEW r \in Rules, NEW a \in cell[r].folded
               PROVE  /\ RuleFor(a) = r /\ a \in given'
                      /\ a \in recorded' => r \in After(masteryFeed', cursor["mastery"])
    BY DEF FoldedInv, Beyond, Feed
  <2>1. /\ RuleFor(a) = r /\ a \in given
        /\ a \in recorded => r \in After(masteryFeed, cursor["mastery"])
    BY DEF MirrorInv, FoldedInv, Beyond, Feed
  <2>2. After(masteryFeed, cursor["mastery"]) \subseteq After(masteryFeed', cursor["mastery"])
        /\ \A b \in recorded' \ recorded : RuleFor(b) \in After(masteryFeed', cursor["mastery"])
    BY <1>1, ReportsAfter
  <2> QED
    BY <2>1, <2>2
<1>5. ASSUME run.step \in {"read", "page"},
             NEW n \in (cursor[run.feed] + 1)..run.next
      PROVE  Feed(run.feed)'[n] = Feed(run.feed)[n]
  <2>1. /\ run.feed \in Feeds /\ run.next \in Nat /\ run.next <= Len(Feed(run.feed))
        /\ cursor[run.feed] \in Nat
    BY <1>1, <1>5, Places DEF Feeds
  <2>2. CASE run.feed = "bank"
    <3>1. n \in 1..Len(bankFeed)
      BY <1>1, <2>1, <2>2 DEF Feed
    <3> QED
      BY <2>2, <3>1 DEF Reports, Feed
  <2>3. CASE run.feed = "mastery"
    <3>1. n \in 1..Len(masteryFeed)
      BY <1>1, <2>1, <2>3 DEF Feed
    <3> QED
      BY <2>3, <3>1 DEF Reports, Feed
  <2> QED
    BY <2>1, <2>2, <2>3 DEF Feeds
<1>6. ReadInv'
  BY <1>5 DEF MirrorInv, ReadInv
<1>7. PageInv'
  <2> SUFFICES ASSUME run.step = "page"
               PROVE  /\ \A n \in (cursor[run.feed] + 1)..run.next :
                            Feed(run.feed)'[n] \in KeysIn(run.changes)
                      /\ \A n \in DOMAIN run.changes :
                           (\A m \in 1..(n - 1) : run.changes[m].key # run.changes[n].key) =>
                              \/ run.changes[n].row = Row(run.feed, run.changes[n].key)'
                              \/ run.changes[n].key \in After(Feed(run.feed)', run.next)
    BY DEF PageInv, Beyond, KeysIn
  <2>1. \A n \in (cursor[run.feed] + 1)..run.next : Feed(run.feed)'[n] \in KeysIn(run.changes)
    BY <1>5 DEF MirrorInv, PageInv
  <2>2. ASSUME NEW n \in DOMAIN run.changes,
               \A m \in 1..(n - 1) : run.changes[m].key # run.changes[n].key
        PROVE  \/ run.changes[n].row = Row(run.feed, run.changes[n].key)'
               \/ run.changes[n].key \in After(Feed(run.feed)', run.next)
    <3>1. /\ run.feed \in Feeds /\ run.next \in Nat /\ run.next <= Len(Feed(run.feed))
      BY Places
    <3>2. run.changes[n].key \in KeysOf(run.feed)
      BY <3>1, InHandType, ChangeType DEF Change
    <3>3. \/ run.changes[n].row = Row(run.feed, run.changes[n].key)
          \/ run.changes[n].key \in After(Feed(run.feed), run.next)
      BY <2>2 DEF MirrorInv, PageInv, Beyond
    <3>4. CASE run.feed = "bank"
      <4>1. /\ After(bankFeed, run.next) \subseteq After(bankFeed', run.next)
            /\ \A i \in Items : status'[i] = status[i] \/ i \in After(bankFeed', run.next)
        BY <3>1, <3>4, ReportsAfter DEF Feed
      <4> QED
        BY <3>2, <3>3, <3>4, <4>1 DEF Feed, Row, KeysOf
    <3>5. CASE run.feed = "mastery"
      <4>1. /\ After(masteryFeed, run.next) \subseteq After(masteryFeed', run.next)
            /\ \A r \in Rules : mastery'[r] = mastery[r] \/ r \in After(masteryFeed', run.next)
        BY <3>1, <3>5, ReportsAfter DEF Feed
      <4> QED
        BY <3>2, <3>3, <3>5, <4>1 DEF Feed, Row, KeysOf
    <3> QED
      BY <3>1, <3>4, <3>5 DEF Feeds
  <2> QED
    BY <2>1, <2>2
<1> QED
  BY <1>2, <1>3, <1>4, <1>6, <1>7 DEF MirrorInv

\* A step that leaves the tables and their feeds alone reports nothing.
LEMMA NothingReported ==
    ASSUME StateInv, UNCHANGED <<bankVars, ledgerVars>>
    PROVE  Reports
BY DEF StateInv, TypeOK, Reports, bankVars, ledgerVars

\* A step of the device that goes no further in a feed and has no page in hand
\* after it.
LEMMA DeviceMirrorInv ==
    ASSUME StateInv, MirrorInv, UNCHANGED <<bankVars, ledgerVars, held, cell, given, repeated>>,
           cursor' \in {cursor, [cursor EXCEPT !["bank"] = 0]},
           run'.step \notin {"read", "page"}
    PROVE  MirrorInv'
<1>1. UNCHANGED <<bankFeed, masteryFeed, status, mastery, recorded>>
  BY DEF bankVars, ledgerVars
<1>2. cursor \in [Feeds -> Nat] /\ cursor["bank"] \in Nat /\ cursor["bank"] <= Len(bankFeed)
      /\ Len(bankFeed) \in Nat
  BY Places DEF StateInv, TypeOK
<1>3. cursor'["mastery"] = cursor["mastery"] /\ cursor'["bank"] \in {cursor["bank"], 0}
  BY <1>2 DEF Feeds
<1>4. After(bankFeed, cursor["bank"]) \subseteq After(bankFeed, cursor'["bank"])
  BY <1>2, <1>3, AfterLater
<1>5. BankInv'
  BY <1>1, <1>4 DEF MirrorInv, BankInv, Beyond, Feed
<1>6. MasteryInv' /\ FoldedInv'
  BY <1>1, <1>3 DEF MirrorInv, MasteryInv, FoldedInv, Beyond, Feed
<1>7. ReadInv' /\ PageInv'
  BY DEF ReadInv, PageInv
<1> QED
  BY <1>5, <1>6, <1>7 DEF MirrorInv

\* The server reports every write of the bank.
LEMMA BankReports ==
    ASSUME StateInv, Bank
    PROVE  Reports
<1>1. UNCHANGED ledgerVars /\ Len(bankFeed) \in Nat /\ Len(masteryFeed) \in Nat
  BY DEF Bank, StateInv, TypeOK
<1>2. Len(bankFeed') \in Nat
  BY BankGrows
<1>3. \A i \in Items : status'[i] = status[i] \/ i \in After(bankFeed', Len(bankFeed))
  BY BankGrows DEF After
<1> QED
  BY <1>1, <1>2, <1>3, BankGrows DEF Reports, ledgerVars

\* And every answer it records, with the row of its point.
LEMMA AnswerReports ==
    ASSUME StateInv, NEW h \in Handlers, Record(h) \/ Reject(h)
    PROVE  Reports /\ UNCHANGED <<held, cell, cursor, run, repeated, given>>
<1> DEFINE a == Current(h)
           r == RuleFor(a)
<1>1. UNCHANGED <<bankVars, given, storeVars, run, repeated>>
  BY EndsAnswer
<1>2. UNCHANGED <<held, cell, cursor, run, repeated, given, status, bankFeed>>
  BY <1>1 DEF bankVars, storeVars
<1>3. CASE UNCHANGED ledgerVars
  BY <1>1, <1>2, <1>3, NothingReported
<1>4. CASE job[h].step = "commit" /\ Committed(h)
  <2>1. /\ recorded' = recorded \cup {a}
        /\ mastery' = [mastery EXCEPT ![r] = job[h].row]
        /\ masteryFeed' \in Seq(Rules) /\ Len(masteryFeed') = Len(masteryFeed) + 1
        /\ \A n \in 1..Len(masteryFeed) : masteryFeed'[n] = masteryFeed[n]
        /\ masteryFeed'[Len(masteryFeed) + 1] = r
    BY <1>4, CommitEffect
  <2>2. Len(masteryFeed) \in Nat /\ Len(bankFeed) \in Nat /\ mastery \in [Rules -> SUBSET AllAnswers]
    BY DEF StateInv, TypeOK
  <2> HIDE DEF a
  <2>3. r \in After(masteryFeed', Len(masteryFeed))
    BY <2>1, <2>2 DEF After
  <2>4. \A b \in recorded' \ recorded : b = a
    BY <2>1
  <2>5. \A q \in Rules : mastery'[q] = mastery[q] \/ q = r
    BY <2>1, <2>2
  <2> QED
    BY <1>2, <2>1, <2>2, <2>3, <2>4, <2>5 DEF Reports
<1> QED
  BY <1>3, <1>4, EndsAnswer

\* An answer given on the device is not recorded yet.
LEMMA AnswerMirrorInv ==
    ASSUME StateInv, OutboxInv, MirrorInv, NEW a \in Answers, Answer(a)
    PROVE  MirrorInv'
<1>1. /\ a \notin given /\ given' = given \cup {a}
      /\ cell' = IF ItemOf[a] \in held
                 THEN [cell EXCEPT ![RuleFor(a)].folded = @ \cup {a}] ELSE cell
      /\ UNCHANGED <<bankVars, ledgerVars, held, cursor, run, repeated>>
  BY DEF Answer
<1>2. UNCHANGED <<status, bankFeed, recorded, mastery, masteryFeed>>
  BY <1>1 DEF bankVars, ledgerVars
<1>3. a \notin recorded
  BY <1>1 DEF OutboxInv, GivenInv
<1>4. \A r \in Rules :
         /\ cell'[r].row = cell[r].row
         /\ cell'[r].folded \subseteq cell[r].folded \cup (IF r = RuleFor(a) THEN {a} ELSE {})
  <2>1. cell \in [Rules -> [row : SUBSET AllAnswers, folded : SUBSET Answers]]
    BY DEF StateInv, TypeOK
  <2>2. RuleFor(a) \in Rules
    BY AnswerFacts
  <2> QED
    BY <1>1, <2>1, <2>2
<1>5. BankInv' /\ ReadInv' /\ PageInv'
  BY <1>1, <1>2 DEF MirrorInv, BankInv, ReadInv, PageInv, Beyond, Feed, Row
<1>6. MasteryInv'
  BY <1>1, <1>2, <1>4 DEF MirrorInv, MasteryInv, Beyond, Feed
<1>7. FoldedInv'
  <2> SUFFICES ASSUME NEW r \in Rules, NEW b \in cell'[r].folded
               PROVE  /\ RuleFor(b) = r /\ b \in given'
                      /\ b \in recorded => r \in Beyond("mastery", cursor["mastery"])
    BY <1>1, <1>2 DEF FoldedInv, Beyond, Feed
  <2>1. CASE b \in cell[r].folded
    BY <1>1, <2>1 DEF MirrorInv, FoldedInv
  <2>2. CASE r = RuleFor(a) /\ b = a
    BY <1>1, <1>3, <2>2
  <2> QED
    BY <1>4, <2>1, <2>2
<1> QED
  BY <1>5, <1>6, <1>7 DEF MirrorInv

\* A page of keys leaves nothing out up to its end.
LEMMA AskMirrorInv ==
    ASSUME StateInv, MirrorInv, Ask
    PROVE  MirrorInv'
<1>1. UNCHANGED <<bankVars, ledgerVars, given, storeVars, repeated>>
  BY DEF Ask
<1>2. UNCHANGED <<status, bankFeed, recorded, mastery, masteryFeed, given, held, cell, cursor,
                  repeated>>
  BY <1>1 DEF bankVars, ledgerVars, storeVars
<1>3. PICK f \in Feeds : \E keys \in Seq(KeysOf(f)) : \E more \in BOOLEAN :
              /\ run' = [step |-> "read", feed |-> f, keys |-> keys, next |-> PageEnd(f),
                         more |-> more]
              /\ \A n \in (cursor[f] + 1)..PageEnd(f) :
                    \E m \in DOMAIN keys : keys[m] = Feed(f)[n]
  BY AskEffect
<1>4. PICK keys \in Seq(KeysOf(f)), more \in BOOLEAN :
              /\ run' = [step |-> "read", feed |-> f, keys |-> keys, next |-> PageEnd(f),
                         more |-> more]
              /\ \A n \in (cursor[f] + 1)..PageEnd(f) :
                    \E m \in DOMAIN keys : keys[m] = Feed(f)[n]
  BY <1>3
<1>5. /\ run'.step = "read" /\ run'.feed = f /\ run'.keys = keys /\ run'.next = PageEnd(f)
  BY <1>4
<1>6. BankInv' /\ MasteryInv' /\ FoldedInv'
  BY <1>2 DEF MirrorInv, BankInv, MasteryInv, FoldedInv, Beyond, Feed
<1>7. Feed(run.feed)' = Feed(f)
  BY <1>2, <1>5 DEF Feed
<1>8. ReadInv'
  BY <1>2, <1>4, <1>5, <1>7 DEF ReadInv
<1>9. PageInv'
  BY <1>5 DEF PageInv
<1> QED
  BY <1>6, <1>8, <1>9 DEF MirrorInv

\* Rows are read after the page of keys, and are current when they are.
LEMMA HydrateMirrorInv ==
    ASSUME StateInv, MirrorInv, Hydrate
    PROVE  MirrorInv'
<1>1. run.step = "read" /\ UNCHANGED <<bankVars, ledgerVars, given, storeVars, repeated>>
  BY DEF Hydrate
<1>2. UNCHANGED <<status, bankFeed, recorded, mastery, masteryFeed, given, held, cell, cursor,
                  repeated>>
  BY <1>1 DEF bankVars, ledgerVars, storeVars
<1>3. run.keys \in Seq(KeysOf(run.feed))
  BY HydrateEffect
<1>4. PICK changes \in Changes(run.feed) :
         /\ run' = [step |-> "page", feed |-> run.feed, changes |-> changes,
                    next |-> run.next, more |-> run.more]
         /\ DOMAIN changes = DOMAIN run.keys
         /\ \A n \in DOMAIN run.keys :
               /\ changes[n].key = run.keys[n]
               /\ IsFirst(run.keys, n) => changes[n].row = Row(run.feed, run.keys[n])
  BY HydrateEffect
<1>5. /\ run'.step = "page" /\ run'.feed = run.feed /\ run'.next = run.next
      /\ run'.changes = changes
  BY <1>4
<1>6. BankInv' /\ MasteryInv' /\ FoldedInv'
  BY <1>2 DEF MirrorInv, BankInv, MasteryInv, FoldedInv, Beyond, Feed
<1>7. Feed(run.feed)' = Feed(run.feed)
  BY <1>2, <1>5 DEF Feed
<1>8. ReadInv'
  BY <1>5 DEF ReadInv
<1>9. \A n \in (cursor[run.feed] + 1)..run.next : Feed(run.feed)[n] \in KeysIn(changes)
  <2>1. \A n \in (cursor[run.feed] + 1)..run.next :
           \E m \in DOMAIN run.keys : run.keys[m] = Feed(run.feed)[n]
    BY <1>1 DEF MirrorInv, ReadInv
  <2> QED
    BY <1>4, <2>1 DEF KeysIn
<1>10. ASSUME NEW n \in DOMAIN changes,
              \A m \in 1..(n - 1) : changes[m].key # changes[n].key
       PROVE  changes[n].row = Row(run.feed, changes[n].key)
  <2>1. DOMAIN run.keys = 1..Len(run.keys) /\ Len(run.keys) \in Nat
    BY <1>3, LenProperties
  <2>2. \A m \in 1..(n - 1) : m \in DOMAIN run.keys
    BY <1>4, <2>1
  <2>3. IsFirst(run.keys, n)
    BY <1>4, <1>10, <2>2 DEF IsFirst
  <2> QED
    BY <1>4, <2>3
<1>11. \A k : Row(run.feed, k)' = Row(run.feed, k)
  BY <1>2, <1>5 DEF Row
<1>12. PageInv'
  BY <1>2, <1>5, <1>7, <1>9, <1>10, <1>11 DEF PageInv
<1> QED
  BY <1>6, <1>8, <1>12 DEF MirrorInv

\* What a page says of a key it names once is current, or changed since beyond
\* its end.
LEMMA NamedOnce ==
    ASSUME StateInv, MirrorInv, run.step = "page", NEW k \in KeysIn(run.changes),
           ~\E m, n \in DOMAIN run.changes :
              m # n /\ run.changes[m].key = k /\ run.changes[n].key = k
    PROVE  Left(run.changes, k) = Row(run.feed, k) \/ k \in Beyond(run.feed, run.next)
<1>1. run.feed \in Feeds /\ run.changes \in Changes(run.feed)
  BY InHandType
<1>2. PICK n \in DOMAIN run.changes :
          run.changes[n].key = k /\ Left(run.changes, k) = run.changes[n].row
  BY <1>1, LeftType
<1>3. DOMAIN run.changes = 1..Len(run.changes) /\ Len(run.changes) \in Nat
  BY <1>1, ChangeType
<1>4. \A m \in 1..(n - 1) : run.changes[m].key # run.changes[n].key
  BY <1>2, <1>3
<1> QED
  BY <1>2, <1>4 DEF MirrorInv, PageInv

\* What the page does not name and is not beyond its end was not to come.
LEMMA NotNamed ==
    ASSUME StateInv, MirrorInv, run.step = "page", NEW k,
           k \notin KeysIn(run.changes), k \in Beyond(run.feed, cursor[run.feed])
    PROVE  k \in Beyond(run.feed, run.next)
<1>1. /\ run.feed \in Feeds /\ run.next \in Nat /\ cursor[run.feed] <= run.next
      /\ run.next <= Len(Feed(run.feed))
  BY Places
<1>2. cursor[run.feed] \in Nat /\ Len(Feed(run.feed)) \in Nat
  BY <1>1, FeedType
<1>3. k \in After(Feed(run.feed), run.next)
      \/ \E n \in (cursor[run.feed] + 1)..run.next : Feed(run.feed)[n] = k
  BY <1>1, <1>2, AfterLater DEF Beyond
<1>4. \A n \in (cursor[run.feed] + 1)..run.next : Feed(run.feed)[n] \in KeysIn(run.changes)
  BY DEF MirrorInv, PageInv
<1> QED
  BY <1>3, <1>4 DEF Beyond

\* What is beyond the end of a page is beyond the place it began at.
LEMMA FurtherOn ==
    ASSUME StateInv, run.step = "page"
    PROVE  Beyond(run.feed, run.next) \subseteq Beyond(run.feed, cursor[run.feed])
<1>1. /\ run.feed \in Feeds /\ run.next \in Nat /\ cursor[run.feed] <= run.next
      /\ run.next <= Len(Feed(run.feed))
  BY Places
<1>2. cursor[run.feed] \in Nat /\ Len(Feed(run.feed)) \in Nat
  BY <1>1, FeedType
<1> QED
  BY <1>1, <1>2, AfterLater DEF Beyond

\* A page applied.
LEMMA ApplyPageMirrorInv ==
    ASSUME StateInv, MirrorInv, ApplyPage
    PROVE  MirrorInv'
<1> DEFINE keys == KeysIn(run.changes)
           Twice(k) == \E m, n \in DOMAIN run.changes :
                          m # n /\ run.changes[m].key = k /\ run.changes[n].key = k
<1>1. /\ run.step = "page" /\ run.feed \in Feeds /\ run.changes \in Changes(run.feed)
      /\ keys \subseteq KeysOf(run.feed)
      /\ repeated' = [repeated EXCEPT ![run.feed] =
                        (repeated[run.feed] \ keys) \cup {k \in keys : Twice(k)}]
      /\ run' \in {On, Pulled}
      /\ UNCHANGED <<bankVars, ledgerVars, given>>
  BY ApplyEffect
<1>2. UNCHANGED <<status, bankFeed, recorded, mastery, masteryFeed, given>>
  BY <1>1 DEF bankVars, ledgerVars
<1>3. cursor \in [Feeds -> Nat] /\ repeated \in [Feeds -> SUBSET (Items \cup Rules)]
      /\ cell \in [Rules -> [row : SUBSET AllAnswers, folded : SUBSET Answers]]
  BY DEF StateInv, TypeOK
<1>4. ASSUME NEW k \in keys, ~Twice(k)
      PROVE  Left(run.changes, k) = Row(run.feed, k) \/ k \in Beyond(run.feed, run.next)
  BY <1>1, <1>4, NamedOnce
<1>5. ASSUME NEW k, k \notin keys, k \in Beyond(run.feed, cursor[run.feed])
      PROVE  k \in Beyond(run.feed, run.next)
  BY <1>1, <1>5, NotNamed
<1>6. Beyond(run.feed, run.next) \subseteq Beyond(run.feed, cursor[run.feed])
  BY <1>1, FurtherOn
<1>7. /\ \A g \in Feeds \ {run.feed} : repeated'[g] = repeated[g]
      /\ repeated'[run.feed] = (repeated[run.feed] \ keys) \cup {k \in keys : Twice(k)}
  <2> HIDE DEF keys, Twice
  <2> QED
    BY <1>1, <1>3
<1>8. ReadInv' /\ PageInv'
  BY <1>1 DEF ReadInv, PageInv, On, Pulled
<1>9. CASE run.feed = "bank"
  <2>1. /\ held' = (held \ keys) \cup {i \in keys : Left(run.changes, i) # {}}
        /\ cell' = cell /\ cursor' = [cursor EXCEPT !["bank"] = run.next]
    BY <1>9, ApplyEffect
  <2>2. cursor'["bank"] = run.next /\ cursor'["mastery"] = cursor["mastery"]
        /\ repeated'["mastery"] = repeated["mastery"]
    BY <1>3, <1>7, <1>9, <2>1 DEF Feeds
  <2>3. MasteryInv' /\ FoldedInv'
    BY <1>2, <2>1, <2>2 DEF MirrorInv, MasteryInv, FoldedInv, Beyond, Feed
  <2>4. BankInv'
    <3> SUFFICES ASSUME NEW i \in Items
                 PROVE  \/ i \in Beyond("bank", run.next)
                        \/ i \in repeated'["bank"]
                        \/ i \in held' <=> status[i] = "active"
      BY <1>2, <2>2 DEF BankInv, Beyond, Feed
    <3>1. CASE i \in keys /\ Twice(i)
      BY <1>7, <1>9, <3>1
    <3>2. CASE i \in keys /\ ~Twice(i)
      <4>1. i \in Beyond("bank", run.next)
            \/ Left(run.changes, i) = (IF status[i] = "active" THEN {i} ELSE {})
        BY <1>4, <1>9, <3>2 DEF Row
      <4>2. i \in held' <=> Left(run.changes, i) # {}
        BY <2>1, <3>2
      <4> HIDE DEF keys, Twice
      <4> QED
        BY <4>1, <4>2
    <3>3. CASE i \notin keys
      <4>1. i \in held' <=> i \in held
        BY <2>1, <3>3
      <4>2. i \in repeated["bank"] => i \in repeated'["bank"]
        BY <1>7, <1>9, <3>3
      <4>3. \/ i \in Beyond("bank", cursor["bank"])
            \/ i \in repeated["bank"]
            \/ i \in held <=> status[i] = "active"
        BY DEF MirrorInv, BankInv
      <4>4. i \in Beyond("bank", cursor["bank"]) => i \in Beyond("bank", run.next)
        BY <1>5, <1>9, <3>3
      <4> QED
        BY <4>1, <4>2, <4>3, <4>4
    <3> QED
      BY <3>1, <3>2, <3>3
  <2> QED
    BY <1>8, <2>3, <2>4 DEF MirrorInv
<1>10. CASE run.feed = "mastery"
  <2>1. /\ held' = held
        /\ cell' = [r \in Rules |-> IF r \in keys THEN Coloured(run.changes, r) ELSE cell[r]]
        /\ cursor' \in {cursor, [cursor EXCEPT !["mastery"] = run.next]}
    BY <1>10, ApplyEffect
  <2>2. cursor'["bank"] = cursor["bank"] /\ cursor'["mastery"] \in {cursor["mastery"], run.next}
        /\ repeated'["bank"] = repeated["bank"]
    BY <1>3, <1>7, <1>10, <2>1 DEF Feeds
  <2>3. BankInv'
    BY <1>2, <2>1, <2>2 DEF MirrorInv, BankInv, Beyond, Feed
  <2>4. /\ \A r \in Rules : r \in Beyond("mastery", run.next) =>
                              r \in Beyond("mastery", cursor'["mastery"])
        /\ \A r \in Rules : r \notin keys /\ r \in Beyond("mastery", cursor["mastery"]) =>
                              r \in Beyond("mastery", cursor'["mastery"])
    BY <1>5, <1>6, <1>10, <2>2
  <2>5. MasteryInv'
    <3> SUFFICES ASSUME NEW r \in Rules
                 PROVE  \/ r \in Beyond("mastery", cursor'["mastery"])
                        \/ r \in repeated'["mastery"]
                        \/ cell'[r].row = mastery[r]
      BY <1>2 DEF MasteryInv, Beyond, Feed
    <3>1. CASE r \in keys /\ Twice(r)
      BY <1>7, <1>10, <3>1
    <3>2. CASE r \in keys /\ ~Twice(r)
      <4>1. r \in Beyond("mastery", run.next) \/ Left(run.changes, r) = mastery[r]
        BY <1>4, <1>10, <3>2 DEF Row
      <4>2. cell'[r].row = Left(run.changes, r)
        BY <2>1, <3>2 DEF Coloured
      <4> QED
        BY <2>4, <4>1, <4>2
    <3>3. CASE r \notin keys
      <4>1. cell'[r] = cell[r] /\ (r \in repeated["mastery"] => r \in repeated'["mastery"])
        BY <1>7, <1>10, <2>1, <3>3
      <4> QED
        BY <2>4, <3>3, <4>1 DEF MirrorInv, MasteryInv
    <3> QED
      BY <3>1, <3>2, <3>3
  <2>6. FoldedInv'
    <3> SUFFICES ASSUME NEW r \in Rules, NEW a \in cell'[r].folded
                 PROVE  /\ RuleFor(a) = r /\ a \in given
                        /\ a \in recorded => r \in Beyond("mastery", cursor'["mastery"])
      BY <1>2 DEF FoldedInv, Beyond, Feed
    <3>1. r \notin keys /\ cell'[r] = cell[r]
      BY <2>1 DEF Coloured
    <3> QED
      BY <2>4, <3>1 DEF MirrorInv, FoldedInv
  <2> QED
    BY <1>8, <2>3, <2>5, <2>6 DEF MirrorInv
<1> QED
  BY <1>1, <1>9, <1>10 DEF Feeds

\* Every step keeps the mirror's invariant.
LEMMA StepMirrorInv == StateInv /\ OutboxInv /\ MirrorInv /\ [Next]_vars => MirrorInv'
<1> SUFFICES ASSUME StateInv, OutboxInv, MirrorInv, [Next]_vars
             PROVE  MirrorInv'
  OBVIOUS
<1>1. CASE Bank
  <2>1. UNCHANGED <<held, cell, cursor, run, repeated, given>>
    BY <1>1 DEF Bank, storeVars
  <2> QED
    BY <1>1, <2>1, BankReports, ServerMirrorInv
<1>2. ASSUME NEW h \in Handlers, Record(h) \/ Reject(h)
      PROVE  MirrorInv'
  BY <1>2, AnswerReports, ServerMirrorInv
<1>3. CASE CompleteSession \/ UNCHANGED vars
           \/ (\E w \in WebAnswers : AnswerOnWeb(w))
           \/ \E h \in Handlers : Lookup(h) \/ Adopt(h) \/ EnsureBaseline(h) \/ Replay(h)
                                  \/ Ended(h)
  <2>1. UNCHANGED <<bankVars, ledgerVars, storeVars, run, repeated>>
    BY <1>3 DEF CompleteSession, vars, AnswerOnWeb, Lookup, Adopt, EnsureBaseline, Replay, Ended
  <2>2. given \subseteq given'
    BY <1>3 DEF CompleteSession, vars, AnswerOnWeb, Lookup, Adopt, EnsureBaseline, Replay, Ended
  <2>3. UNCHANGED <<held, cell, cursor, run, repeated>>
    BY <2>1 DEF storeVars
  <2> QED
    BY <2>1, <2>2, <2>3, NothingReported, ServerMirrorInv
<1>4. ASSUME NEW a \in Answers, Answer(a)
      PROVE  MirrorInv'
  BY <1>4, AnswerMirrorInv
<1>5. CASE Start \/ Stop \/ Advance \/ Backfill
           \/ \E h \in Uploads : SendBatch(h) \/ ApplyReply(h)
  <2>1. UNCHANGED <<bankVars, ledgerVars, held, cell, given, repeated>>
    BY <1>5 DEF Start, Stop, Advance, AdvanceTo, Backfill, SendBatch, ApplyReply, storeVars
  <2>2. cursor' \in {cursor, [cursor EXCEPT !["bank"] = 0]}
    BY <1>5 DEF Start, Stop, Advance, AdvanceTo, Backfill, SendBatch, ApplyReply, storeVars
  <2>3. run'.step \notin {"read", "page"}
    BY <1>5 DEF Start, Stop, Advance, AdvanceTo, Backfill, SendBatch, ApplyReply, On, Off
  <2> QED
    BY <2>1, <2>2, <2>3, DeviceMirrorInv
<1>6. CASE Ask
  BY <1>6, AskMirrorInv
<1>7. CASE Hydrate
  BY <1>7, HydrateMirrorInv
<1>8. CASE ApplyPage
  BY <1>8, ApplyPageMirrorInv
<1> QED
  BY <1>1, <1>2, <1>3, <1>4, <1>5, <1>6, <1>7, <1>8 DEF Next, Sync, Serve

\* At the end of both feeds nothing is still to come.
LEMMA MirroredAtEnd == StateInv /\ OutboxInv /\ MirrorInv => Mirrored
<1> SUFFICES ASSUME StateInv, OutboxInv, MirrorInv
             PROVE  Mirrored
  OBVIOUS
<1>1. \A f \in Feeds : cursor[f] = Len(Feed(f)) => Beyond(f, cursor[f]) = {}
  BY FeedType DEF Beyond, After
<1>2. BankMirrored
  BY <1>1 DEF BankMirrored, MirrorInv, BankInv, Feed, Feeds
<1>3. MasteryMirrored
  <2> SUFFICES ASSUME cursor["mastery"] = Len(masteryFeed), Queued = {}, NEW r \in Rules,
                      r \notin repeated["mastery"], ~\E a \in refused : RuleFor(a) = r
               PROVE  cell[r] = [row |-> mastery[r], folded |-> {}]
    BY DEF MasteryMirrored
  <2>1. Beyond("mastery", cursor["mastery"]) = {}
    BY <1>1 DEF Feed, Feeds
  <2>2. cell[r] \in [row : SUBSET AllAnswers, folded : SUBSET Answers]
    BY DEF StateInv, TypeOK
  <2>3. cell[r].row = mastery[r]
    BY <2>1 DEF MirrorInv, MasteryInv
  <2>4. ASSUME NEW a \in cell[r].folded
        PROVE  FALSE
    <3>1. RuleFor(a) = r /\ a \in given /\ a \notin recorded
      BY <2>1 DEF MirrorInv, FoldedInv
    <3>2. a \in Answers
      BY <2>2
    <3>3. a \in refused
      BY <3>1, <3>2 DEF OutboxInv, KeptUnlessRefused
    <3> QED
      BY <3>1, <3>3
  <2> QED
    BY <2>2, <2>3, <2>4
<1> QED
  BY <1>2, <1>3 DEF Mirrored

\* A device at the end of its feeds mirrors the server, the bank as well as the
\* colour of every grammar point, whatever is written while its pages are read.
THEOREM MirrorsServer == Spec => []Mirrored
<1> QED
  BY MirroredAtEnd, InitStateInv, StepStateInv, InitOutboxInv, StepOutboxInv, InitMirrorInv,
     StepMirrorInv, PTL DEF Spec
=============================================================================
