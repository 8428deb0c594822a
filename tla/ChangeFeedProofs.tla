-------------------------- MODULE ChangeFeedProofs --------------------------
(***************************************************************************)
(* Proofs about ChangeFeed, for every number of streams, keys and          *)
(* transactions and every page size: type correctness; that a cursor the   *)
(* server handed out is always answered and every reply accepted; and,     *)
(* when feed rows are written in the order of transaction ids, that        *)
(* nothing appears beneath a cursor and devices hold the server's table.   *)
(***************************************************************************)
EXTENDS ChangeFeed, TLAPS, WellFoundedInduction, FiniteSetTheorems

\* Every nonempty set of naturals has a least element.
LEMMA LeastExists ==
    ASSUME NEW T, T \subseteq Nat, T # {}
    PROVE  \E x \in T : \A y \in T : x <= y
<1>1. PICK x \in T : \A y \in T : <<y, x>> \notin OpToRel(<, Nat)
  BY NatLessThanWellFounded, WFMin
<1>2. ASSUME NEW y \in T
      PROVE  x <= y
  <2>1. <<y, x>> \notin {p \in Nat \X Nat : p[1] < p[2]}
    BY <1>1, <1>2 DEF OpToRel
  <2>2. x \in Nat /\ y \in Nat
    OBVIOUS
  <2> QED
    BY <2>1, <2>2
<1> QED
  BY <1>2

\* Every nonempty set of naturals with an upper bound has a greatest element.
LEMMA GreatestExists ==
    ASSUME NEW S, S \subseteq Nat, NEW b \in Nat, S # {}, \A n \in S : n <= b
    PROVE  \E m \in S : \A n \in S : n <= m
<1> DEFINE T == {b - n : n \in S}
<1>1. T \subseteq Nat
  OBVIOUS
<1>0. T # {}
  OBVIOUS
<1>2. PICK x \in T : \A y \in T : x <= y
  <2> HIDE DEF T
  <2> QED
    BY <1>0, <1>1, LeastExists
<1>3. PICK m \in S : x = b - m
  BY <1>2
<1>4. ASSUME NEW n \in S
      PROVE  n <= m
  <2>1. b - n \in T
    OBVIOUS
  <2>2. b - m <= b - n
    BY <1>2, <1>3, <2>1
  <2> QED
    BY <2>2
<1> QED
  BY <1>4

\* The last of a nonempty set of records numbered from 1 to MaxSeq.
LEMMA LastExists ==
    ASSUME NEW R, R # {}, \A r \in R : r.seq \in Seqs
    PROVE  \E r \in R : \A q \in R : q.seq <= r.seq
<1> DEFINE S == {r.seq : r \in R}
<1>1. S \subseteq Nat /\ S # {} /\ \A n \in S : n <= MaxSeq
  BY FeedAssumption DEF Seqs
<1>2. PICK m \in S : \A n \in S : n <= m
  <2> HIDE DEF S
  <2> QED
    BY <1>1, GreatestExists, FeedAssumption
<1>3. PICK r \in R : r.seq = m
  BY <1>2
<1> QED
  BY <1>2, <1>3

\* Nothing is written yet.
LEMMA InitTypeOK == Init => TypeOK
BY FeedAssumption DEF Init, TypeOK, Cursors, Values, Calls, Row

\* What a transaction reads is a value: its last write exists.
LEMMA ReadsType ==
    ASSUME TypeOK, NEW t \in Txns, NEW k \in Keys
    PROVE  Reads(t, k) \in Values
<1>1. CASE RowsOf(t, k) = {}
  BY <1>1 DEF Reads, TypeOK
<1>2. CASE RowsOf(t, k) # {}
  <2>1. \A r \in RowsOf(t, k) : r \in Row /\ r.seq \in Seqs /\ r.val \in Values
    BY DEF RowsOf, TypeOK, Row
  <2>2. PICK r \in RowsOf(t, k) : \A q \in RowsOf(t, k) : q.seq <= r.seq
    BY <1>2, <2>1, LastExists
  <2> QED
    BY <1>2, <2>1, <2>2 DEF Reads
<1> QED
  BY <1>1, <1>2

\* The value a page gives a key: its last entry exists.
LEMMA AppliedType ==
    ASSUME TypeOK, NEW page \in SUBSET Entry, NEW k \in Keys
    PROVE  Applied(page, k) \in Values
<1>1. CASE EntriesOf(page, k) = {}
  BY <1>1 DEF Applied, TypeOK
<1>2. CASE EntriesOf(page, k) # {}
  <2>1. \A e \in EntriesOf(page, k) : e.seq \in Seqs /\ e.val \in Values
    BY DEF EntriesOf, Entry
  <2>2. PICK e \in EntriesOf(page, k) : \A f \in EntriesOf(page, k) : f.seq <= e.seq
    BY <1>2, <2>1, LastExists
  <2> QED
    BY <1>2, <2>1, <2>2 DEF Applied
<1> QED
  BY <1>1, <1>2

\* Every step keeps every variable in its type.
LEMMA StepTypeOK == TypeOK /\ [Next]_vars => TypeOK'
<1> SUFFICES ASSUME TypeOK, [Next]_vars
             PROVE  TypeOK'
  OBVIOUS
<1> USE FeedAssumption
<1>1. ASSUME NEW t \in Txns, Begin(t)
      PROVE  TypeOK'
  BY <1>1 DEF Begin, TypeOK, readerVars
<1>2. ASSUME NEW t \in Txns, NEW k \in Keys, NEW v \in {t, None}, Write(t, k, v)
      PROVE  TypeOK'
  <2>1. [seq |-> nextSeq, txn |-> t, key |-> k, val |-> v] \in Row
    BY <1>2 DEF Write, TypeOK, Row, Seqs, Values
  <2> QED
    BY <1>2, <2>1 DEF Write, TypeOK, readerVars
<1>3. ASSUME NEW t \in Txns, Commit(t)
      PROVE  TypeOK'
  <2>1. table' \in [Keys -> Values]
    BY <1>3, ReadsType DEF Commit
  <2> QED
    BY <1>3, <2>1 DEF Commit, TypeOK, readerVars
<1>4. ASSUME NEW t \in Txns, Abort(t)
      PROVE  TypeOK'
  BY <1>4 DEF Abort, TypeOK, readerVars
<1>5. ASSUME NEW s \in Streams, Ask(s)
      PROVE  TypeOK'
  <2>1. call' \in [Streams -> Calls]
    BY <1>5 DEF Ask, TypeOK, Calls, Asked
  <2> QED
    BY <1>5, <2>1 DEF Ask, TypeOK, writerVars
<1>6. ASSUME NEW s \in Streams, Answer(s)
      PROVE  TypeOK'
  <2> DEFINE page == FirstPage(Listed(s, Due(s, call[s].watermark)))
             entries == {EntryOf(r) : r \in page}
  <2>1. page \subseteq feed
    BY DEF FirstPage, Listed, Due, Served
  <2>2. \A r \in page : EntryOf(r) \in Entry
    BY <2>1 DEF EntryOf, Entry, TypeOK, Row
  <2>3. entries \in SUBSET Entry
    BY <2>2
  <2>4. call[s].watermark \in Cursors
    BY <1>6 DEF Answer, TypeOK, Calls, NoCall, Asked, Answered
  <2>5. PICK n \in Cursors :
          call' = [call EXCEPT ![s] =
                    [step |-> "answered", watermark |-> call[s].watermark,
                     page |-> entries, next |-> n,
                     more |-> page # Listed(s, Due(s, call[s].watermark))]]
    BY <1>6 DEF Answer
  <2> HIDE DEF entries, page
  <2>6. [step |-> "answered", watermark |-> call[s].watermark,
         page |-> entries, next |-> n,
         more |-> page # Listed(s, Due(s, call[s].watermark))] \in Answered
    BY <2>3, <2>4 DEF Answered
  <2>7. call' \in [Streams -> Calls]
    BY <2>5, <2>6 DEF TypeOK, Calls
  <2> QED
    BY <1>6, <2>7 DEF Answer, TypeOK, writerVars
<1>7. ASSUME NEW s \in Streams, Apply(s)
      PROVE  TypeOK'
  <2>1. call[s] \in Answered
    BY <1>7 DEF Apply, TypeOK, Calls, NoCall, Asked
  <2>2. call[s].page \in SUBSET Entry /\ call[s].next \in Cursors
    BY <2>1 DEF Answered
  <2>3. copy' \in [Keys -> Values]
    BY <1>7, <2>2, AppliedType DEF Apply, TypeOK
  <2>4. cursor' \in [Streams -> Cursors]
    BY <1>7, <2>2 DEF Apply, TypeOK
  <2> QED
    BY <1>7, <2>3, <2>4 DEF Apply, TypeOK, writerVars, Calls
<1>8. ASSUME NEW s \in Streams, Drop(s)
      PROVE  TypeOK'
  BY <1>8 DEF Drop, TypeOK, writerVars, Calls
<1>9. CASE UNCHANGED vars
  BY <1>9 DEF vars, TypeOK
<1> QED
  BY <1>1, <1>2, <1>3, <1>4, <1>5, <1>6, <1>7, <1>8, <1>9 DEF Next, Writer, Reader

\* Type correctness of the feed, its writers and its readers.
THEOREM TypeCorrect == Spec => []TypeOK
BY InitTypeOK, StepTypeOK, PTL DEF Spec
-----------------------------------------------------------------------------
(***************************************************************************)
(* A cursor is always answered.  The invariant: every number the server    *)
(* has handed out is the number of a row that is visible now.  It is       *)
(* inductive because a visible row stays visible: a transaction that       *)
(* begins later gets a larger id.                                          *)
(***************************************************************************)

\* Ids are drawn in the order of the counter, and only feed rows of
\* transactions that are open or committed exist.
WriterInv ==
    /\ \A t \in Txns : xid[t] < nextXid
    /\ \A r \in feed : status[r.txn] \in {"open", "committed"}

HandedOut(s, n) == n = 0 \/ \E r \in Served(s) : r.seq = n

CursorInv ==
    \A s \in Streams :
        /\ HandedOut(s, cursor[s])
        /\ call[s].step = "asked" => HandedOut(s, call[s].watermark)
        /\ call[s].step = "answered" => HandedOut(s, call[s].next)

\* Every step keeps the order of the ids.
LEMMA StepWriterInv == TypeOK /\ WriterInv /\ [Next]_vars => WriterInv'
<1> SUFFICES ASSUME TypeOK, WriterInv, [Next]_vars
             PROVE  WriterInv'
  OBVIOUS
<1> USE DEF TypeOK, WriterInv
<1>1. ASSUME NEW t \in Txns, Begin(t)
      PROVE  WriterInv'
  BY <1>1 DEF Begin, Row, Values
<1>2. ASSUME NEW t \in Txns, NEW k \in Keys, NEW v \in {t, None}, Write(t, k, v)
      PROVE  WriterInv'
  BY <1>2 DEF Write
<1>3. ASSUME NEW t \in Txns, Commit(t)
      PROVE  WriterInv'
  BY <1>3 DEF Commit, Row
<1>4. ASSUME NEW t \in Txns, Abort(t)
      PROVE  WriterInv'
  BY <1>4 DEF Abort, Row
<1>5. CASE UNCHANGED writerVars
  BY <1>5 DEF writerVars
<1>6. Reader => UNCHANGED writerVars
  BY DEF Reader, Ask, Answer, Apply, Drop, writerVars
<1>7. UNCHANGED vars => UNCHANGED writerVars
  BY DEF vars, writerVars
<1> QED
  BY <1>1, <1>2, <1>3, <1>4, <1>5, <1>6, <1>7 DEF Next, Writer

\* What one statement has seen every later statement sees.
LEMMA VisibleStays ==
    ASSUME TypeOK, WriterInv, [Next]_vars, NEW r \in feed, Visible(r)
    PROVE  r \in feed' /\ Visible(r)'
<1> USE DEF TypeOK, WriterInv, Visible
<1>0. r \in Row /\ r.txn \in Txns
  BY DEF Row
<1>1. ASSUME NEW t \in Txns, Begin(t)
      PROVE  r \in feed' /\ Visible(r)'
  BY <1>0, <1>1 DEF Begin
<1>2. ASSUME NEW t \in Txns, NEW k \in Keys, NEW v \in {t, None}, Write(t, k, v)
      PROVE  r \in feed' /\ Visible(r)'
  BY <1>0, <1>2 DEF Write
<1>3. ASSUME NEW t \in Txns, Commit(t)
      PROVE  r \in feed' /\ Visible(r)'
  BY <1>0, <1>3 DEF Commit
<1>4. ASSUME NEW t \in Txns, Abort(t)
      PROVE  r \in feed' /\ Visible(r)'
  BY <1>0, <1>4 DEF Abort
<1>5. CASE UNCHANGED writerVars
  BY <1>5 DEF writerVars
<1>6. Reader => UNCHANGED writerVars
  BY DEF Reader, Ask, Answer, Apply, Drop, writerVars
<1>7. UNCHANGED vars => UNCHANGED writerVars
  BY DEF vars, writerVars
<1> QED
  BY <1>1, <1>2, <1>3, <1>4, <1>5, <1>6, <1>7 DEF Next, Writer

\* A number that was handed out is that of a visible row from then on.
LEMMA HandedOutStays ==
    ASSUME TypeOK, WriterInv, [Next]_vars, NEW s \in Streams, NEW n, HandedOut(s, n)
    PROVE  HandedOut(s, n)'
BY VisibleStays DEF HandedOut, Served

\* Every step keeps cursors, watermarks and ends of pages among the numbers handed out.
LEMMA StepCursorInv == TypeOK /\ WriterInv /\ CursorInv /\ [Next]_vars => CursorInv'
<1> SUFFICES ASSUME TypeOK, WriterInv, CursorInv, [Next]_vars
             PROVE  CursorInv'
  OBVIOUS
<1>1. CASE UNCHANGED readerVars
  BY <1>1, HandedOutStays DEF CursorInv, readerVars
<1>2. ASSUME NEW s \in Streams, Ask(s)
      PROVE  CursorInv'
  <2>1. PICK w \in Cursors :
          IsWatermark(s, w) /\ call' = [call EXCEPT ![s] = [step |-> "asked", watermark |-> w]]
    BY <1>2 DEF Ask
  <2>2. HandedOut(s, w)
    BY <2>1 DEF IsWatermark, HandedOut
  <2>3. cursor' = cursor
    BY <1>2 DEF Ask
  <2> QED
    BY <2>1, <2>2, <2>3, HandedOutStays DEF CursorInv, TypeOK
<1>3. ASSUME NEW s \in Streams, Answer(s)
      PROVE  CursorInv'
  <2> DEFINE page == FirstPage(Listed(s, Due(s, call[s].watermark)))
             entries == {EntryOf(r) : r \in page}
  <2>1. page \subseteq Served(s)
    BY DEF FirstPage, Listed, Due
  <2>2. PICK n \in Cursors :
          /\ IsNext(s, page, n)
          /\ call' = [call EXCEPT ![s] =
                    [step |-> "answered", watermark |-> call[s].watermark,
                     page |-> entries, next |-> n,
                     more |-> page # Listed(s, Due(s, call[s].watermark))]]
    BY <1>3 DEF Answer
  <2> HIDE DEF page, entries
  <2>3. HandedOut(s, n)
    BY <2>1, <2>2 DEF IsNext, HandedOut, CursorInv
  <2>4. cursor' = cursor
    BY <1>3 DEF Answer
  <2> QED
    BY <2>2, <2>3, <2>4, HandedOutStays DEF CursorInv, TypeOK
<1>4. ASSUME NEW s \in Streams, Apply(s)
      PROVE  CursorInv'
  <2>1. HandedOut(s, call[s].next)
    BY <1>4 DEF Apply, CursorInv
  <2>2. /\ call' = [call EXCEPT ![s] = NoCall]
        /\ cursor' = cursor \/ cursor' = [cursor EXCEPT ![s] = call[s].next]
    BY <1>4 DEF Apply
  <2> QED
    BY <2>1, <2>2, HandedOutStays DEF CursorInv, TypeOK, NoCall
<1>5. ASSUME NEW s \in Streams, Drop(s)
      PROVE  CursorInv'
  BY <1>5, HandedOutStays DEF Drop, CursorInv, TypeOK, NoCall
<1>6. Writer => UNCHANGED readerVars
  BY DEF Writer, Begin, Write, Commit, Abort, readerVars
<1>7. UNCHANGED vars => UNCHANGED readerVars
  BY DEF vars, readerVars
<1> QED
  BY <1>1, <1>2, <1>3, <1>4, <1>5, <1>6, <1>7 DEF Next, Reader

\* Every stream has a watermark, and it is no less than a number handed out.
LEMMA WatermarkExists ==
    ASSUME TypeOK, NEW s \in Streams, NEW n \in Cursors, HandedOut(s, n)
    PROVE  \E w \in Cursors : IsWatermark(s, w) /\ n <= w
<1>1. \A r \in Served(s) : r.seq \in Seqs
  BY DEF Served, TypeOK, Row
<1>2. CASE Served(s) = {}
  <2>1. n = 0 /\ 0 \in Cursors
    BY <1>2, FeedAssumption DEF HandedOut, Cursors
  <2> QED
    BY <1>2, <2>1 DEF IsWatermark
<1>3. CASE Served(s) # {}
  <2>1. PICK r \in Served(s) : \A q \in Served(s) : q.seq <= r.seq
    BY <1>1, <1>3, LastExists
  <2>2. r.seq \in Cursors /\ n <= r.seq
    BY <1>1, <2>1, FeedAssumption DEF HandedOut, Cursors, Seqs
  <2> QED
    BY <2>1, <2>2 DEF IsWatermark
<1> QED
  BY <1>2, <1>3

\* A device that follows one stream is never told that its cursor is ahead of
\* the server (validate_cursor_watermark), whatever the order of writers.
THEOREM CursorsAnswered == Spec => []CursorAnswered
<1>1. Init => WriterInv /\ CursorInv
  BY DEF Init, WriterInv, CursorInv, HandedOut, NoCall
<1>2. TypeOK /\ CursorInv => CursorAnswered
  BY WatermarkExists DEF CursorInv, CursorAnswered, TypeOK
<1> QED
  BY <1>1, <1>2, InitTypeOK, StepTypeOK, StepWriterInv, StepCursorInv, PTL DEF Spec
-----------------------------------------------------------------------------
(***************************************************************************)
(* Nothing appears beneath a cursor of a stream whose rows are in the      *)
(* order of the ids of their transactions.                                 *)
(***************************************************************************)

\* Rows have distinct numbers below the next one.
NumberInv ==
    /\ \A r \in feed : r.seq < nextSeq
    /\ \A r, q \in feed : r.seq = q.seq => r = q

\* Every step keeps the numbers apart.
LEMMA StepNumberInv == TypeOK /\ NumberInv /\ [Next]_vars => NumberInv'
<1> SUFFICES ASSUME TypeOK, NumberInv, [Next]_vars
             PROVE  NumberInv'
  OBVIOUS
<1>0. \A r \in feed : r.seq \in Nat
  BY FeedAssumption DEF TypeOK, Row, Seqs
<1>1. ASSUME NEW t \in Txns, Begin(t)
      PROVE  NumberInv'
  BY <1>1 DEF Begin, NumberInv
<1>2. ASSUME NEW t \in Txns, NEW k \in Keys, NEW v \in {t, None}, Write(t, k, v)
      PROVE  NumberInv'
  <2> DEFINE new == [seq |-> nextSeq, txn |-> t, key |-> k, val |-> v]
  <2>1. feed' = feed \cup {new} /\ nextSeq' = nextSeq + 1
    BY <1>2 DEF Write
  <2>2. new.seq = nextSeq /\ nextSeq \in Nat
    BY DEF TypeOK
  <2> HIDE DEF new
  <2> QED
    BY <1>0, <2>1, <2>2 DEF NumberInv
<1>3. ASSUME NEW t \in Txns, Commit(t)
      PROVE  NumberInv'
  BY <1>3 DEF Commit, NumberInv
<1>4. ASSUME NEW t \in Txns, Abort(t)
      PROVE  NumberInv'
  BY <1>4 DEF Abort, NumberInv
<1>5. CASE UNCHANGED writerVars
  BY <1>5 DEF writerVars, NumberInv
<1>6. Reader => UNCHANGED writerVars
  BY DEF Reader, Ask, Answer, Apply, Drop, writerVars
<1>7. UNCHANGED vars => UNCHANGED writerVars
  BY DEF vars, writerVars
<1> QED
  BY <1>1, <1>2, <1>3, <1>4, <1>5, <1>6, <1>7 DEF Next, Writer

\* A row still in flight lies above every number handed out: beneath it, its
\* transaction would have an id no larger than that of a visible row.
LEMMA InFlightAbove ==
    ASSUME TypeOK, NumberInv, NEW s \in Streams, InIdOrder(s),
           NEW n \in Cursors, HandedOut(s, n),
           NEW r \in feed, StreamOf[r.key] = s, status[r.txn] = "open"
    PROVE  n < r.seq
<1>0. \A q \in feed : q.txn \in Txns /\ q.seq \in Nat /\ q.seq > 0
  BY FeedAssumption DEF TypeOK, Row, Seqs
<1>1. CASE n = 0
  BY <1>0, <1>1
<1>2. ASSUME NEW q \in Served(s), q.seq = n
      PROVE  n < r.seq
  <2>1. q \in feed /\ StreamOf[q.key] = s /\ q # r /\ xid[q.txn] < xid[r.txn]
    BY <1>0, <1>2 DEF Served, Visible
  <2>2. q.seq # r.seq
    BY <2>1 DEF NumberInv
  <2>3. ~(r.seq < q.seq)
    BY <1>0, <2>1 DEF InIdOrder, TypeOK
  <2> QED
    BY <1>0, <1>2, <2>1, <2>2, <2>3
<1> QED
  BY <1>1, <1>2 DEF HandedOut

\* The promise of migration 031, for every stream whose row numbers follow the
\* ids of their writers: a cursor that was handed out is below every row whose
\* writer is still open, and may yet commit it.
THEOREM NothingAppearsBeneath == Spec => []PromiseKept
<1>1. Init => WriterInv /\ CursorInv /\ NumberInv
  BY DEF Init, WriterInv, CursorInv, NumberInv, HandedOut, NoCall
<1>2. TypeOK /\ CursorInv /\ NumberInv => PromiseKept
  BY InFlightAbove DEF CursorInv, PromiseKept, NothingBeneathIn, TypeOK
<1> QED
  BY <1>1, <1>2, InitTypeOK, StepTypeOK, StepWriterInv, StepCursorInv, StepNumberInv,
     PTL DEF Spec
-----------------------------------------------------------------------------
(***************************************************************************)
(* The device accepts every reply.  The page a request gets is a beginning *)
(* of what is listed between the cursor and the watermark; a row with the  *)
(* number of the watermark is still listed when the second statement runs. *)
(***************************************************************************)

\* Rows have distinct numbers, so a set of them is finite.
LEMMA RowsFinite ==
    ASSUME TypeOK, NumberInv, NEW R \in SUBSET feed
    PROVE  IsFiniteSet(R)
<1> DEFINE f == [r \in R |-> r.seq]
<1>1. \A r \in R : r.seq \in Seqs
  BY DEF TypeOK, Row
<1>2. f \in Injection(R, Seqs)
  BY <1>1 DEF Injection, IsInjective, NumberInv
<1>3. IsFiniteSet(Seqs)
  BY FeedAssumption, FS_Interval DEF Seqs
<1> QED
  BY <1>2, <1>3, FS_Injection

\* A first page is a beginning of its rows, and empty only if they are.
LEMMA FirstPageFacts ==
    ASSUME TypeOK, NumberInv, NEW R \in SUBSET feed
    PROVE  /\ FirstPage(R) \subseteq R
           /\ R # {} => FirstPage(R) # {}
           /\ \A r \in FirstPage(R), q \in R : q.seq <= r.seq => q \in FirstPage(R)
<1> DEFINE Upto(r) == {q \in R : q.seq <= r.seq}
<1>1. FirstPage(R) = {r \in R : Cardinality(Upto(r)) <= PageLimit}
  BY DEF FirstPage
<1>2. \A r \in R : r.seq \in Seqs /\ r.seq \in Nat
  BY FeedAssumption DEF TypeOK, Row, Seqs
<1>3. ASSUME R # {}
      PROVE  FirstPage(R) # {}
  <2> DEFINE S == {r.seq : r \in R}
  <2>1. S \subseteq Nat /\ S # {}
    BY <1>2, <1>3
  <2>2. PICK m \in S : \A n \in S : m <= n
    <3> HIDE DEF S
    <3> QED
      BY <2>1, LeastExists
  <2>3. PICK r \in R : r.seq = m
    BY <2>2
  <2>4. Upto(r) = {r}
    <3>1. \A q \in R : q.seq <= r.seq => q = r
      <4> SUFFICES ASSUME NEW q \in R, q.seq <= r.seq
                   PROVE  q = r
        OBVIOUS
      <4>1. r.seq <= q.seq
        BY <2>2, <2>3
      <4>2. q.seq = r.seq
        BY <1>2, <4>1
      <4> QED
        BY <4>2 DEF NumberInv
    <3>2. r.seq <= r.seq
      BY <1>2
    <3> QED
      BY <3>1, <3>2
  <2>5. Cardinality(Upto(r)) = 1
    BY <2>4, FS_Singleton
  <2>6. Cardinality(Upto(r)) <= PageLimit
    BY <2>5, FeedAssumption
  <2> QED
    BY <1>1, <2>6
<1>4. ASSUME NEW r \in FirstPage(R), NEW q \in R, q.seq <= r.seq
      PROVE  q \in FirstPage(R)
  <2>1. Upto(q) \in SUBSET Upto(r)
    <3>1. r \in R /\ r.seq \in Nat /\ q.seq \in Nat
      BY <1>1, <1>2
    <3> SUFFICES ASSUME NEW p \in R, p.seq <= q.seq
                 PROVE  p.seq <= r.seq
      OBVIOUS
    <3>2. p.seq \in Nat
      BY <1>2
    <3> QED
      BY <1>4, <3>1, <3>2
  <2>2. Upto(r) \in SUBSET feed /\ Upto(q) \in SUBSET feed
    OBVIOUS
  <2> HIDE DEF Upto
  <2>3. IsFiniteSet(Upto(r)) /\ IsFiniteSet(Upto(q))
    BY <2>2, RowsFinite
  <2>4. /\ Cardinality(Upto(q)) <= Cardinality(Upto(r))
        /\ Cardinality(Upto(q)) \in Nat /\ Cardinality(Upto(r)) \in Nat
    BY <2>1, <2>3, FS_Subset, FS_CardinalityType
  <2>5. Cardinality(Upto(r)) <= PageLimit
    BY <1>1
  <2> QED
    BY <1>1, <2>4, <2>5, FeedAssumption
<1> QED
  BY <1>1, <1>3, <1>4

\* What the second statement lists, and its page.
ListedNow(s) == Listed(s, Due(s, call[s].watermark))
PageNow(s) == FirstPage(ListedNow(s))

\* A request that has its watermark is not below the cursor it was asked for.
AskedInv ==
    \A s \in Streams : call[s].step = "asked" => cursor[s] <= call[s].watermark

\* The page begins above the cursor and ends where the reply says; a last page
\* ends at the watermark, another one moves the cursor; and it passes over no
\* visible row of a key without an entry for the key, unless a later one follows.
LEMMA PageFacts ==
    ASSUME TypeOK, NumberInv, CursorInv, AskedInv, NEW s \in Streams,
           call[s].step = "asked", NEW n \in Cursors, IsNext(s, PageNow(s), n)
    PROVE  /\ PageNow(s) \subseteq Served(s) /\ PageNow(s) \subseteq feed
           /\ \A r \in PageNow(s) : cursor[s] < r.seq /\ r.seq <= n
           /\ PageNow(s) # {} => \E r \in PageNow(s) : r.seq = n
           /\ cursor[s] <= n /\ n <= call[s].watermark
           /\ PageNow(s) = ListedNow(s) => n = call[s].watermark
           /\ PageNow(s) # ListedNow(s) => cursor[s] < n
           /\ \A r \in Served(s) : cursor[s] < r.seq /\ r.seq <= n =>
                \/ \E p \in PageNow(s) : p.key = r.key /\ r.seq <= p.seq
                \/ \E q \in Served(s) : q.key = r.key /\ n < q.seq
<1> DEFINE w == call[s].watermark
           due == Due(s, w)
<1>1. /\ cursor[s] \in Nat /\ w \in Cursors /\ w \in Nat /\ n \in Nat /\ cursor[s] <= w
      /\ HandedOut(s, w)
  <2>1. call[s] \in Asked
    BY DEF TypeOK, Calls, NoCall, Answered
  <2> QED
    BY <2>1, FeedAssumption DEF TypeOK, Asked, Cursors, AskedInv, CursorInv
<1>2. /\ due \subseteq Served(s) /\ due \subseteq feed /\ ListedNow(s) \subseteq due
      /\ \A r \in due : cursor[s] < r.seq /\ r.seq <= w
      /\ \A r \in Served(s) : cursor[s] < r.seq /\ r.seq <= w => r \in due
      /\ \A r \in feed : r.seq \in Seqs /\ r.seq \in Nat
  BY FeedAssumption DEF ListedNow, Listed, Due, Served, TypeOK, Row, Seqs
<1>3. \A r \in due : \E p \in ListedNow(s) : p.key = r.key /\ r.seq <= p.seq
  <2> SUFFICES ASSUME NEW r \in due
               PROVE  \E p \in ListedNow(s) : p.key = r.key /\ r.seq <= p.seq
    OBVIOUS
  <2>1. CASE s \notin Joined
    <3>1. r \in ListedNow(s) /\ r.seq <= r.seq
      BY <1>2, <2>1 DEF ListedNow, Listed
    <3> QED
      BY <3>1
  <2>2. CASE s \in Joined
    <3> DEFINE own == {q \in due : q.key = r.key}
    <3>1. own # {} /\ \A q \in own : q.seq \in Seqs
      BY <1>2
    <3> HIDE DEF due
    <3>2. PICK p \in own : \A q \in own : q.seq <= p.seq
      <4> HIDE DEF own
      <4> QED
        BY <3>1, LastExists
    <3>3. p \in ListedNow(s)
      BY <2>2, <3>2 DEF ListedNow, Listed, due
    <3> QED
      BY <3>2, <3>3
  <2> QED
    BY <2>1, <2>2
<1> HIDE DEF due
<1>4. /\ PageNow(s) \subseteq ListedNow(s)
      /\ ListedNow(s) # {} => PageNow(s) # {}
      /\ \A r \in PageNow(s), q \in ListedNow(s) : q.seq <= r.seq => q \in PageNow(s)
  BY <1>2, FirstPageFacts DEF PageNow
<1>5. CASE PageNow(s) = {}
  <2>1. n = cursor[s] /\ ListedNow(s) = {} /\ due = {}
    BY <1>3, <1>4, <1>5 DEF IsNext
  <2>2. n = w
    <3>1. CASE w = 0
      BY <1>1, <2>1, <3>1
    <3>2. ASSUME NEW q \in Served(s), q.seq = w
          PROVE  n = w
      <4>1. ~(cursor[s] < w)
        BY <1>1, <1>2, <2>1, <3>2
      <4> QED
        BY <1>1, <2>1, <4>1
    <3> QED
      BY <1>1, <3>1, <3>2 DEF HandedOut
  <2> QED
    BY <1>1, <1>2, <1>5, <2>1, <2>2
<1>6. CASE PageNow(s) # {}
  <2>1. PICK p \in PageNow(s) : p.seq = n /\ \A r \in PageNow(s) : r.seq <= n
    BY <1>6 DEF IsNext
  <2>2. p \in due /\ cursor[s] < n /\ n <= w
    BY <1>2, <1>4, <2>1
  <2>3. ASSUME PageNow(s) = ListedNow(s)
        PROVE  n = w
    <3>1. w # 0
      BY <1>1, <2>2
    <3>2. PICK q \in Served(s) : q.seq = w
      BY <1>1, <3>1 DEF HandedOut
    <3>3. q \in due
      BY <1>1, <1>2, <2>2, <3>2
    <3>4. PICK l \in ListedNow(s) : q.seq <= l.seq
      BY <1>3, <3>3
    <3>5. l.seq <= n
      BY <2>1, <2>3
    <3>6. l.seq \in Nat
      BY <1>2
    <3> QED
      BY <1>1, <2>2, <3>2, <3>4, <3>5, <3>6
  <2>4. ASSUME NEW r \in Served(s), cursor[s] < r.seq, r.seq <= n
        PROVE  \/ \E m \in PageNow(s) : m.key = r.key /\ r.seq <= m.seq
               \/ \E q \in Served(s) : q.key = r.key /\ n < q.seq
    <3>1. r \in feed /\ r.seq \in Nat
      BY <1>2 DEF Served
    <3>2. r \in due
      BY <1>1, <1>2, <2>2, <2>4, <3>1
    <3>3. PICK l \in ListedNow(s) : l.key = r.key /\ r.seq <= l.seq
      BY <1>3, <3>2
    <3>4. l \in Served(s) /\ l.seq \in Nat
      BY <1>2
    <3>5. CASE l.seq <= n
      BY <1>4, <2>1, <3>3, <3>5
    <3>6. CASE n < l.seq
      BY <3>3, <3>4, <3>6
    <3> QED
      BY <1>1, <3>4, <3>5, <3>6
  <2> QED
    BY <1>1, <1>2, <1>4, <2>1, <2>2, <2>3, <2>4
<1> QED
  BY <1>5, <1>6

\* The reply to a request.
LEMMA AnswerStep ==
    ASSUME TypeOK, NEW s \in Streams, Answer(s)
    PROVE  /\ call[s].step = "asked" /\ UNCHANGED <<writerVars, cursor, copy>>
           /\ \A q \in Streams \ {s} : call'[q] = call[q]
           /\ call'[s].step = "answered" /\ call'[s].watermark = call[s].watermark
           /\ call'[s].page = {EntryOf(r) : r \in PageNow(s)}
           /\ (call'[s].more <=> PageNow(s) # ListedNow(s))
           /\ call'[s].next \in Cursors /\ IsNext(s, PageNow(s), call'[s].next)
<1>1. PICK n \in Cursors :
        /\ IsNext(s, PageNow(s), n)
        /\ call' = [call EXCEPT ![s] =
                  [step |-> "answered", watermark |-> call[s].watermark,
                   page |-> {EntryOf(r) : r \in PageNow(s)}, next |-> n,
                   more |-> PageNow(s) # ListedNow(s)]]
  BY DEF Answer, PageNow, ListedNow
<1>2. call'[s] = [step |-> "answered", watermark |-> call[s].watermark,
                  page |-> {EntryOf(r) : r \in PageNow(s)}, next |-> n,
                  more |-> PageNow(s) # ListedNow(s)]
  BY <1>1 DEF TypeOK
<1>3. call[s].step = "asked" /\ UNCHANGED <<writerVars, cursor, copy>>
  BY DEF Answer
<1> QED
  BY <1>1, <1>2, <1>3 DEF TypeOK

\* A request begins with the watermark, and ends with its reply or without one.
LEMMA CallStep ==
    ASSUME TypeOK, NEW s \in Streams, Ask(s) \/ Apply(s) \/ Drop(s)
    PROVE  /\ \A q \in Streams \ {s} : call'[q] = call[q] /\ cursor'[q] = cursor[q]
           /\ call'[s].step # "answered" /\ UNCHANGED writerVars
           /\ call'[s].step = "asked" => cursor' = cursor /\ cursor[s] <= call'[s].watermark
<1>1. CASE Ask(s)
  <2>1. PICK w \in Cursors :
          cursor[s] <= w /\ call' = [call EXCEPT ![s] = [step |-> "asked", watermark |-> w]]
    BY <1>1 DEF Ask
  <2> QED
    BY <1>1, <2>1 DEF Ask, TypeOK
<1>2. CASE Apply(s) \/ Drop(s)
  <2>1. call' = [call EXCEPT ![s] = NoCall] /\ UNCHANGED writerVars
    BY <1>2 DEF Apply, Drop
  <2>2. \A q \in Streams \ {s} : cursor'[q] = cursor[q]
    BY <1>2 DEF Apply, Drop, TypeOK
  <2> QED
    BY <2>1, <2>2 DEF TypeOK, NoCall
<1> QED
  BY <1>1, <1>2

\* Every step keeps the watermark of a request above its cursor.
LEMMA StepAsked == TypeOK /\ AskedInv /\ [Next]_vars => AskedInv'
<1> SUFFICES ASSUME TypeOK, AskedInv, [Next]_vars
             PROVE  AskedInv'
  OBVIOUS
<1>1. CASE UNCHANGED readerVars
  BY <1>1 DEF AskedInv, readerVars
<1>2. ASSUME NEW s \in Streams, Ask(s) \/ Apply(s) \/ Drop(s)
      PROVE  AskedInv'
  BY <1>2, CallStep DEF AskedInv
<1>3. ASSUME NEW s \in Streams, Answer(s)
      PROVE  AskedInv'
  BY <1>3, AnswerStep DEF AskedInv
<1>4. Writer => UNCHANGED readerVars
  BY DEF Writer, Begin, Write, Commit, Abort, readerVars
<1>5. UNCHANGED vars => UNCHANGED readerVars
  BY DEF vars, readerVars
<1> QED
  BY <1>1, <1>2, <1>3, <1>4, <1>5 DEF Next, Reader

\* What acceptance says of one reply.
Accepted(s) == Acceptable(s, call[s]) /\ (call[s].more => cursor[s] < call[s].next)

\* The validators accept the reply that has just been computed.
LEMMA AnswerAccepted ==
    ASSUME TypeOK, NumberInv, CursorInv, AskedInv, NEW s \in Streams, Answer(s)
    PROVE  Accepted(s)'
<1> DEFINE n == call'[s].next
           page == call'[s].page
<1>1. /\ call[s].step = "asked" /\ cursor' = cursor
      /\ call'[s].watermark = call[s].watermark
      /\ page = {EntryOf(r) : r \in PageNow(s)}
      /\ (call'[s].more <=> PageNow(s) # ListedNow(s))
      /\ n \in Cursors /\ IsNext(s, PageNow(s), n)
  BY AnswerStep
<1>2. /\ \A r \in PageNow(s) : cursor[s] < r.seq /\ r.seq <= n
      /\ PageNow(s) # {} => \E r \in PageNow(s) : r.seq = n
      /\ cursor[s] <= n /\ n <= call[s].watermark
      /\ PageNow(s) = ListedNow(s) => n = call[s].watermark
      /\ PageNow(s) # ListedNow(s) => cursor[s] < n
  BY <1>1, PageFacts
<1>3. \A r : EntryOf(r).seq = r.seq
  BY DEF EntryOf
<1>4. cursor[s] \in Nat /\ n \in Nat
  BY <1>1, FeedAssumption DEF TypeOK, Cursors
<1>5. /\ \A e \in page : cursor[s] < e.seq /\ e.seq <= n
      /\ page # {} => \E e \in page : e.seq = n
  BY <1>1, <1>2, <1>3
<1> HIDE DEF page, n
<1>6. WellFormed(call[s])'
  BY <1>1, <1>2 DEF WellFormed, n
<1>7. Progress(s, call[s])'
  BY <1>1, <1>2, <1>4, <1>5 DEF Progress, n, page
<1> QED
  BY <1>1, <1>2, <1>6, <1>7 DEF Accepted, Acceptable, n

\* A reply is for the cursor of its stream, which stays while it is on its way.
LEMMA StepAccepted ==
    TypeOK /\ NumberInv /\ CursorInv /\ AskedInv /\ ReplyAccepted /\ [Next]_vars
    => ReplyAccepted'
<1> SUFFICES ASSUME TypeOK, NumberInv, CursorInv, AskedInv, ReplyAccepted, [Next]_vars
             PROVE  ReplyAccepted'
  OBVIOUS
<1>0. ReplyAccepted <=> \A s \in Streams : call[s].step = "answered" => Accepted(s)
  BY DEF ReplyAccepted, Accepted
<1> SUFFICES \A s \in Streams : call'[s].step = "answered" => Accepted(s)'
  BY DEF ReplyAccepted, Accepted
<1>1. \A s \in Streams : call'[s] = call[s] /\ cursor'[s] = cursor[s] =>
                           (call'[s].step = "answered" => Accepted(s)')
  BY <1>0 DEF Accepted, Acceptable, WellFormed, Progress
<1>2. CASE UNCHANGED readerVars
  BY <1>1, <1>2 DEF readerVars
<1>3. ASSUME NEW s \in Streams, Ask(s) \/ Apply(s) \/ Drop(s)
      PROVE  \A q \in Streams : call'[q].step = "answered" => Accepted(q)'
  BY <1>1, <1>3, CallStep
<1>4. ASSUME NEW s \in Streams, Answer(s)
      PROVE  \A q \in Streams : call'[q].step = "answered" => Accepted(q)'
  BY <1>1, <1>4, AnswerStep, AnswerAccepted
<1>5. Writer => UNCHANGED readerVars
  BY DEF Writer, Begin, Write, Commit, Abort, readerVars
<1>6. UNCHANGED vars => UNCHANGED readerVars
  BY DEF vars, readerVars
<1> QED
  BY <1>2, <1>3, <1>4, <1>5, <1>6 DEF Next, Reader

\* The device's validators accept every reply, although it is computed in two
\* statements with commits in between, and every page but the last moves the
\* cursor.
THEOREM RepliesAccepted == Spec => []ReplyAccepted
<1>1. Init => WriterInv /\ CursorInv /\ NumberInv /\ AskedInv /\ ReplyAccepted
  BY DEF Init, WriterInv, CursorInv, NumberInv, HandedOut, AskedInv, ReplyAccepted, NoCall
<1> QED
  BY <1>1, InitTypeOK, StepTypeOK, StepWriterInv, StepCursorInv, StepNumberInv, StepAsked,
     StepAccepted, PTL DEF Spec
-----------------------------------------------------------------------------
(***************************************************************************)
(* A device that has read its stream to the end holds the server's table.  *)
(* The invariants speak of the committed rows: an order of them that is    *)
(* broken once stays broken, an open row may still be rolled back.         *)
(***************************************************************************)

Committed == {r \in feed : status[r.txn] = "committed"}

\* The committed rows of a stream are in the order of their writers' ids.
Ordered(s) ==
    \A r, q \in Committed :
        StreamOf[r.key] = s /\ StreamOf[q.key] = s /\ r.seq < q.seq => xid[r.txn] <= xid[q.txn]

\* Who has an uncommitted write of a key wrote it after all others had committed.
LockInv ==
    \A r, q \in feed :
        r.key = q.key /\ r.txn # q.txn /\ status[r.txn] = "open"
        => q \in Committed /\ q.seq < r.seq

Latest(r) == \A q \in Committed : q.key = r.key => q.seq <= r.seq

\* A key has the value of its last committed row.
TableInv ==
    /\ \A r \in Committed : Latest(r) => table[r.key] = r.val
    /\ \A k \in Keys : (\A r \in Committed : r.key # k) => table[k] = None

ReadUpTo(k, n) == \A r \in Committed : r.key = k => r.seq <= n

\* A key of which all committed rows have been read is as the server has it.
CopyInv ==
    \A k \in Keys :
        Ordered(StreamOf[k]) /\ ReadUpTo(k, cursor[StreamOf[k]]) => copy[k] = table[k]

LastEntry(page, e) == \A f \in page : f.key = e.key => f.seq <= e.seq

\* The same of a key once the reply on its way is applied.
Fresh(k) ==
    LET s == StreamOf[k] IN
    call[s].step = "answered" /\ Ordered(s) /\ ReadUpTo(k, call[s].next) =>
        /\ \A e \in call[s].page :
             e.key = k /\ LastEntry(call[s].page, e) => e.val = table[k]
        /\ (\A e \in call[s].page : e.key # k) => ReadUpTo(k, cursor[s])

\* A reply has rows of its stream only.
OwnRows(s) == call[s].step = "answered" => \A e \in call[s].page : StreamOf[e.key] = s

ReplyInv == (\A k \in Keys : Fresh(k)) /\ (\A s \in Streams : OwnRows(s))

ServerInv == TypeOK /\ WriterInv /\ NumberInv /\ LockInv /\ TableInv
DeviceInv == CursorInv /\ AskedInv /\ ReplyAccepted /\ CopyInv /\ ReplyInv

\* Nobody has written.
LEMMA InitConverged == Init => LockInv /\ TableInv /\ CopyInv /\ ReplyInv
BY FeedAssumption
   DEF Init, LockInv, TableInv, CopyInv, ReplyInv, Fresh, OwnRows, Committed, NoCall, TypeOK

\* The steps that commit nothing leave the committed rows, their ids and the
\* table.
LEMMA NoCommit ==
    ASSUME TypeOK, WriterInv,
           \/ UNCHANGED writerVars
           \/ \E t \in Txns : \/ Begin(t) \/ Abort(t)
                              \/ \E k \in Keys, v \in {t, None} : Write(t, k, v)
    PROVE  /\ Committed' = Committed /\ table' = table
           /\ \A r \in Committed : xid'[r.txn] = xid[r.txn]
<1>0. \A r \in feed : r \in Row /\ r.txn \in Txns /\ status[r.txn] \in {"open", "committed"}
  BY DEF TypeOK, Row, WriterInv
<1>1. CASE UNCHANGED writerVars
  BY <1>1 DEF writerVars, Committed
<1>2. ASSUME NEW t \in Txns, Begin(t)
      PROVE  /\ Committed' = Committed /\ table' = table
             /\ \A r \in Committed : xid'[r.txn] = xid[r.txn]
  <2>1. status[t] = "idle" /\ feed' = feed /\ table' = table
        /\ \A u \in Txns \ {t} : status'[u] = status[u] /\ xid'[u] = xid[u]
    BY <1>2 DEF Begin, TypeOK
  <2>2. \A r \in feed : r.txn # t
    BY <1>0, <2>1
  <2> QED
    BY <1>0, <2>1, <2>2 DEF Committed
<1>3. ASSUME NEW t \in Txns, Abort(t)
      PROVE  /\ Committed' = Committed /\ table' = table
             /\ \A r \in Committed : xid'[r.txn] = xid[r.txn]
  <2>1. status[t] = "open" /\ feed' = {r \in feed : r.txn # t} /\ table' = table /\ xid' = xid
        /\ \A u \in Txns \ {t} : status'[u] = status[u]
    BY <1>3 DEF Abort, TypeOK
  <2> QED
    BY <1>0, <2>1 DEF Committed
<1>4. ASSUME NEW t \in Txns, NEW k \in Keys, NEW v \in {t, None}, Write(t, k, v)
      PROVE  /\ Committed' = Committed /\ table' = table
             /\ \A r \in Committed : xid'[r.txn] = xid[r.txn]
  <2> DEFINE new == [seq |-> nextSeq, txn |-> t, key |-> k, val |-> v]
  <2>1. /\ status[t] = "open" /\ feed' = feed \cup {new} /\ table' = table /\ xid' = xid
        /\ status' = status
    BY <1>4 DEF Write
  <2>2. new.txn = t
    OBVIOUS
  <2> HIDE DEF new
  <2> QED
    BY <2>1, <2>2 DEF Committed
<1> QED
  BY <1>1, <1>2, <1>3, <1>4

\* A commit adds the rows of its transaction.
LEMMA CommitStep ==
    ASSUME TypeOK, NEW t \in Txns, Commit(t)
    PROVE  /\ Committed' = Committed \cup {r \in feed : r.txn = t}
           /\ status[t] = "open" /\ feed' = feed /\ xid' = xid
           /\ \A k \in Keys : table'[k] = Reads(t, k)
<1>1. /\ status[t] = "open" /\ feed' = feed /\ xid' = xid
      /\ status'[t] = "committed" /\ \A u \in Txns \ {t} : status'[u] = status[u]
      /\ \A k \in Keys : table'[k] = Reads(t, k)
  BY DEF Commit, TypeOK
<1>2. \A r \in feed : r.txn \in Txns
  BY DEF TypeOK, Row
<1> QED
  BY <1>1, <1>2 DEF Committed

\* An order that is there was there before.
LEMMA OrderedBefore ==
    ASSUME TypeOK, WriterInv, [Next]_vars, NEW s, Ordered(s)'
    PROVE  Ordered(s)
<1>1. Committed \subseteq Committed' /\ \A r \in Committed : xid'[r.txn] = xid[r.txn]
  <2>1. ASSUME NEW t \in Txns, Commit(t)
        PROVE  Committed \subseteq Committed' /\ \A r \in Committed : xid'[r.txn] = xid[r.txn]
    BY <2>1, CommitStep
  <2>2. Reader \/ UNCHANGED vars => UNCHANGED writerVars
    BY DEF Reader, Ask, Answer, Apply, Drop, writerVars, vars
  <2> QED
    BY <2>1, <2>2, NoCommit DEF Next, Writer
<1> QED
  BY <1>1 DEF Ordered

\* A writer has the lock of the rows it writes.
LEMMA StepLock == TypeOK /\ WriterInv /\ NumberInv /\ LockInv /\ [Next]_vars => LockInv'
<1> SUFFICES ASSUME TypeOK, WriterInv, NumberInv, LockInv, [Next]_vars
             PROVE  LockInv'
  OBVIOUS
<1>0. \A r \in feed : r.txn \in Txns /\ status[r.txn] \in {"open", "committed"}
  BY DEF TypeOK, Row, WriterInv
<1>1. CASE UNCHANGED writerVars
  BY <1>1 DEF writerVars, LockInv, Committed
<1>2. ASSUME NEW t \in Txns, Begin(t)
      PROVE  LockInv'
  <2>1. Committed' = Committed
    BY <1>2, NoCommit
  <2>2. status[t] = "idle" /\ feed' = feed
        /\ \A u \in Txns \ {t} : status'[u] = status[u]
    BY <1>2 DEF Begin, TypeOK
  <2> QED
    BY <1>0, <2>1, <2>2 DEF LockInv
<1>3. ASSUME NEW t \in Txns, Abort(t)
      PROVE  LockInv'
  <2>1. Committed' = Committed
    BY <1>3, NoCommit
  <2>2. feed' = {r \in feed : r.txn # t} /\ \A u \in Txns \ {t} : status'[u] = status[u]
    BY <1>3 DEF Abort, TypeOK
  <2> QED
    BY <1>0, <2>1, <2>2 DEF LockInv
<1>4. ASSUME NEW t \in Txns, Commit(t)
      PROVE  LockInv'
  <2>1. Committed \subseteq Committed' /\ feed' = feed
    BY <1>4, CommitStep
  <2>2. status'[t] = "committed" /\ \A u \in Txns \ {t} : status'[u] = status[u]
    BY <1>4 DEF Commit, TypeOK
  <2> QED
    BY <1>0, <2>1, <2>2 DEF LockInv
<1>5. ASSUME NEW t \in Txns, NEW k \in Keys, NEW v \in {t, None}, Write(t, k, v)
      PROVE  LockInv'
  <2> DEFINE new == [seq |-> nextSeq, txn |-> t, key |-> k, val |-> v]
  <2>1. Committed' = Committed
    BY <1>5, NoCommit
  <2>2. /\ status[t] = "open" /\ feed' = feed \cup {new} /\ status' = status /\ Unlocked(t, k)
    BY <1>5 DEF Write
  <2>3. new.seq = nextSeq /\ new.txn = t /\ new.key = k
    OBVIOUS
  <2> HIDE DEF new
  <2>4. \A q \in feed : q.key = k /\ q.txn # t => q \in Committed /\ q.seq < nextSeq
    BY <1>0, <2>2 DEF Unlocked, Committed, NumberInv
  <2>5. ASSUME NEW r \in feed', NEW q \in feed', r.key = q.key, r.txn # q.txn,
               status[r.txn] = "open"
        PROVE  q \in Committed /\ q.seq < r.seq
    <3>1. CASE r \in feed /\ q \in feed
      BY <2>5, <3>1 DEF LockInv
    <3>2. CASE r = new /\ q \in feed
      BY <2>3, <2>4, <2>5, <3>2
    <3>3. CASE q = new /\ r \in feed
      BY <2>3, <2>4, <2>5, <3>3 DEF Committed
    <3> QED
      BY <2>2, <2>5, <3>1, <3>2, <3>3
  <2> QED
    BY <2>1, <2>2, <2>5 DEF LockInv
<1>6. Reader \/ UNCHANGED vars => UNCHANGED writerVars
  BY DEF Reader, Ask, Answer, Apply, Drop, writerVars, vars
<1> QED
  BY <1>1, <1>2, <1>3, <1>4, <1>5, <1>6 DEF Next, Writer

\* A commit gives a key the value of its last row, which its lock put last.
LEMMA StepTable ==
    TypeOK /\ WriterInv /\ NumberInv /\ LockInv /\ TableInv /\ [Next]_vars => TableInv'
<1> SUFFICES ASSUME TypeOK, WriterInv, NumberInv, LockInv, TableInv, [Next]_vars
             PROVE  TableInv'
  OBVIOUS
<1>0. \A r \in feed : /\ r.txn \in Txns /\ r.key \in Keys /\ r.seq \in Seqs /\ r.seq \in Nat
                      /\ status[r.txn] \in {"open", "committed"}
  BY FeedAssumption DEF TypeOK, Row, WriterInv, Seqs
<1>1. CASE Committed' = Committed /\ table' = table
  BY <1>1 DEF TableInv, Latest
<1>2. ASSUME NEW t \in Txns, Commit(t)
      PROVE  TableInv'
  <2> DEFINE mine == {r \in feed : r.txn = t}
  <2>1. /\ Committed' = Committed \cup mine /\ status[t] = "open"
        /\ \A k \in Keys : table'[k] = Reads(t, k)
    BY <1>2, CommitStep
  <2>2. \A r \in Committed : r \in feed /\ r.txn # t /\ r.key \in Keys
    BY <1>0, <2>1 DEF Committed
  <2>3. \A r \in mine, q \in Committed : q.key = r.key => q.seq < r.seq
    BY <2>1, <2>2 DEF LockInv
  <2>4. ASSUME NEW k \in Keys, RowsOf(t, k) = {}
        PROVE  table'[k] = table[k] /\ \A r \in mine : r.key # k
    BY <2>1, <2>4 DEF Reads, RowsOf
  <2>5. ASSUME NEW r \in Committed', \A q \in Committed' : q.key = r.key => q.seq <= r.seq
        PROVE  table'[r.key] = r.val
    <3> DEFINE k == r.key
    <3>1. k \in Keys
      BY <1>0, <2>1, <2>2
    <3>2. CASE RowsOf(t, k) = {}
      <4>1. r \in Committed /\ table'[k] = table[k]
        BY <2>1, <2>4, <3>1, <3>2
      <4>2. Latest(r)
        BY <2>1, <2>5 DEF Latest
      <4> QED
        BY <4>1, <4>2 DEF TableInv
    <3>3. CASE RowsOf(t, k) # {}
      <4>1. PICK m \in RowsOf(t, k) : \A q \in RowsOf(t, k) : q.seq <= m.seq
        <5>1. \A q \in RowsOf(t, k) : q.seq \in Seqs
          BY <1>0 DEF RowsOf
        <5> QED
          BY <3>3, <5>1, LastExists
      <4>2. /\ Reads(t, k) = (CHOOSE x \in RowsOf(t, k) : \A q \in RowsOf(t, k) : q.seq <= x.seq).val
        BY <3>3 DEF Reads
      <4>3. PICK x \in RowsOf(t, k) : Reads(t, k) = x.val /\ \A q \in RowsOf(t, k) : q.seq <= x.seq
        BY <4>1, <4>2
      <4>4. x \in mine /\ x \in feed /\ x.key = k
        BY DEF RowsOf
      <4>5. x.seq <= r.seq
        BY <2>1, <2>5, <4>4
      <4>6. r \in mine
        <5>1. CASE r \in Committed
          <6>1. r.seq < x.seq /\ r.seq \in Nat /\ x.seq \in Nat
            BY <1>0, <2>2, <2>3, <4>4, <5>1
          <6> QED
            BY <4>5, <6>1
        <5> QED
          BY <2>1, <5>1
      <4>7. r.seq <= x.seq
        BY <4>3, <4>6 DEF RowsOf
      <4>8. r = x
        BY <1>0, <4>4, <4>5, <4>6, <4>7 DEF NumberInv
      <4> QED
        BY <2>1, <3>1, <4>3, <4>8
    <3> QED
      BY <3>2, <3>3
  <2>6. ASSUME NEW k \in Keys, \A r \in Committed' : r.key # k
        PROVE  table'[k] = None
    <3>1. RowsOf(t, k) = {}
      BY <2>1, <2>6 DEF RowsOf
    <3>2. table'[k] = table[k]
      BY <2>4, <3>1
    <3> QED
      BY <2>1, <2>6, <3>2 DEF TableInv
  <2> QED
    BY <2>5, <2>6 DEF TableInv, Latest
<1>3. Reader \/ UNCHANGED vars => UNCHANGED writerVars
  BY DEF Reader, Ask, Answer, Apply, Drop, writerVars, vars
<1> QED
  BY <1>1, <1>2, <1>3, NoCommit DEF Next, Writer

\* A reply on its way has the type of one.
LEMMA AnsweredType ==
    ASSUME TypeOK, NEW s \in Streams, call[s].step = "answered"
    PROVE  call[s] \in Answered
BY DEF TypeOK, Calls, NoCall, Asked

\* In an ordered stream, all that is committed at or below a number that was
\* handed out is visible.
LEMMA CommittedIsVisible ==
    ASSUME TypeOK, WriterInv, NumberInv, NEW s \in Streams, Ordered(s),
           NEW n, HandedOut(s, n),
           NEW r \in Committed, StreamOf[r.key] = s, r.seq <= n
    PROVE  r \in Served(s)
<1>0. \A q \in feed : q.txn \in Txns /\ q.seq \in Nat /\ q.seq > 0 /\ xid[q.txn] \in Nat
  BY FeedAssumption DEF TypeOK, Row, Seqs
<1>1. r \in feed /\ status[r.txn] = "committed" /\ n # 0
  BY <1>0 DEF Committed
<1>2. PICK q \in Served(s) : q.seq = n
  BY <1>1 DEF HandedOut
<1>3. q \in Committed /\ q \in feed /\ StreamOf[q.key] = s /\ Visible(q)
  BY <1>2 DEF Served, Visible, Committed
<1>4. CASE r = q
  BY <1>2, <1>4
<1>5. CASE r # q
  <2>1. r.seq < q.seq
    BY <1>0, <1>1, <1>2, <1>3, <1>5 DEF NumberInv
  <2>2. xid[r.txn] <= xid[q.txn]
    BY <1>3, <2>1 DEF Ordered
  <2>3. ASSUME NEW t \in Txns, status[t] = "open"
        PROVE  xid[r.txn] < xid[t]
    <3>1. xid[q.txn] < xid[t]
      BY <1>3, <2>3 DEF Visible
    <3>2. xid[t] \in Nat
      BY DEF TypeOK
    <3> QED
      BY <1>0, <1>1, <1>3, <2>2, <3>1, <3>2
  <2> QED
    BY <1>1, <2>3 DEF Served, Visible
<1> QED
  BY <1>4, <1>5

\* In a stream that stays ordered, a commit adds rows above every number that
\* was handed out.
LEMMA CommitAbove ==
    ASSUME TypeOK, WriterInv, NumberInv, NEW t \in Txns, Commit(t),
           NEW s \in Streams, Ordered(s)', NEW n \in Cursors, HandedOut(s, n),
           NEW r \in feed, r.txn = t, StreamOf[r.key] = s
    PROVE  n < r.seq
<1>0. \A q \in feed : q.txn \in Txns /\ q.seq \in Nat /\ q.seq > 0 /\ xid[q.txn] \in Nat
  BY FeedAssumption DEF TypeOK, Row, Seqs
<1>1. /\ Committed' = Committed \cup {q \in feed : q.txn = t}
      /\ status[t] = "open" /\ xid' = xid
  BY CommitStep
<1>2. CASE n = 0
  BY <1>0, <1>2
<1>3. ASSUME NEW q \in Served(s), q.seq = n
      PROVE  n < r.seq
  <2>1. q \in feed /\ q \in Committed /\ StreamOf[q.key] = s /\ xid[q.txn] < xid[r.txn] /\ q # r
    BY <1>1, <1>3 DEF Served, Visible, Committed
  <2>2. q.seq # r.seq
    BY <2>1 DEF NumberInv
  <2>3. ~(r.seq < q.seq)
    <3>1. r \in Committed' /\ q \in Committed'
      BY <1>1, <2>1
    <3>2. r.seq < q.seq => xid[r.txn] <= xid[q.txn]
      BY <1>1, <2>1, <3>1 DEF Ordered
    <3> QED
      BY <1>0, <2>1, <3>2
  <2> QED
    BY <1>0, <1>3, <2>1, <2>2, <2>3
<1> QED
  BY <1>2, <1>3 DEF HandedOut

\* A step of a writer keeps what is said of a key whose committed rows have all
\* been read, at the cursor or at the end of a reply.
LEMMA WriterKeeps ==
    ASSUME ServerInv, Writer, NEW k \in Keys, Ordered(StreamOf[k])',
           NEW n \in Cursors, HandedOut(StreamOf[k], n), ReadUpTo(k, n)'
    PROVE  /\ ReadUpTo(k, n) /\ table'[k] = table[k]
           /\ \A m : ReadUpTo(k, m) => ReadUpTo(k, m)'
<1>0. TypeOK /\ WriterInv /\ NumberInv /\ StreamOf[k] \in Streams
  BY FeedAssumption DEF ServerInv
<1>1. CASE Committed' = Committed /\ table' = table
  BY <1>1 DEF ReadUpTo
<1>2. ASSUME NEW t \in Txns, Commit(t)
      PROVE  /\ ReadUpTo(k, n) /\ table'[k] = table[k]
             /\ \A m : ReadUpTo(k, m) => ReadUpTo(k, m)'
  <2>1. /\ Committed' = Committed \cup {r \in feed : r.txn = t}
        /\ table'[k] = Reads(t, k)
    BY <1>0, <1>2, CommitStep
  <2>2. ASSUME NEW r \in feed, r.txn = t, r.key = k
        PROVE  FALSE
    <3>1. n < r.seq
      BY <1>0, <1>2, <2>2, CommitAbove
    <3>2. r.seq <= n
      BY <2>1, <2>2 DEF ReadUpTo
    <3>3. r.seq \in Nat /\ n \in Nat
      BY <1>0, FeedAssumption DEF TypeOK, Row, Seqs, Cursors
    <3> QED
      BY <3>1, <3>2, <3>3
  <2>3. RowsOf(t, k) = {}
    BY <2>2 DEF RowsOf
  <2> QED
    BY <2>1, <2>2, <2>3 DEF Reads, ReadUpTo
<1> QED
  BY <1>0, <1>1, <1>2, NoCommit DEF Writer

\* The writers' steps.
LEMMA WriterDevice ==
    ASSUME ServerInv, DeviceInv, Writer
    PROVE  CopyInv' /\ ReplyInv'
<1>0. TypeOK /\ WriterInv /\ CursorInv /\ CopyInv /\ ReplyInv /\ Next
  BY DEF ServerInv, DeviceInv, Next
<1>1. UNCHANGED readerVars
  BY DEF Writer, Begin, Write, Commit, Abort, readerVars
<1>2. UNCHANGED <<cursor, copy, call>>
  BY <1>1 DEF readerVars
<1>3. ASSUME NEW k \in Keys, Ordered(StreamOf[k])', ReadUpTo(k, cursor[StreamOf[k]])'
      PROVE  copy[k] = table'[k]
  <2>1. /\ StreamOf[k] \in Streams /\ cursor[StreamOf[k]] \in Cursors
        /\ HandedOut(StreamOf[k], cursor[StreamOf[k]])
    BY <1>0, FeedAssumption DEF TypeOK, CursorInv
  <2>2. ReadUpTo(k, cursor[StreamOf[k]])' <=> \A r \in Committed' : r.key = k => r.seq <= cursor[StreamOf[k]]
    BY <1>2 DEF ReadUpTo
  <2> DEFINE n == cursor[StreamOf[k]]
  <2>3. PICK c \in Cursors : c = n
    BY <2>1
  <2>4. ReadUpTo(k, c)'
    BY <1>3, <2>2, <2>3 DEF ReadUpTo
  <2>5. ReadUpTo(k, c) /\ table'[k] = table[k]
    BY <1>3, <2>1, <2>3, <2>4, WriterKeeps
  <2>6. Ordered(StreamOf[k])
    BY <1>0, <1>3, OrderedBefore
  <2> QED
    BY <1>0, <2>3, <2>5, <2>6 DEF CopyInv
<1>4. ASSUME NEW k \in Keys
      PROVE  Fresh(k)'
  <2> DEFINE s == StreamOf[k]
  <2>1. s \in Streams
    BY FeedAssumption
  <2> SUFFICES ASSUME call[s].step = "answered", Ordered(s)', ReadUpTo(k, call[s].next)'
               PROVE  /\ \A e \in call[s].page :
                           e.key = k /\ LastEntry(call[s].page, e) => e.val = table'[k]
                      /\ (\A e \in call[s].page : e.key # k) => ReadUpTo(k, cursor[s])'
    BY <1>2 DEF Fresh, LastEntry
  <2>2. call[s].next \in Cursors /\ HandedOut(s, call[s].next)
    BY <1>0, <2>1, AnsweredType DEF Answered, CursorInv
  <2>3. PICK c \in Cursors : c = call[s].next
    BY <2>2
  <2>4. ReadUpTo(k, c)'
    BY <1>2, <2>3 DEF ReadUpTo
  <2>5. /\ ReadUpTo(k, c) /\ table'[k] = table[k]
        /\ \A m : ReadUpTo(k, m) => ReadUpTo(k, m)'
    BY <2>2, <2>3, <2>4, WriterKeeps
  <2>6. Ordered(s)
    BY <1>0, OrderedBefore
  <2>7. /\ \A e \in call[s].page :
             e.key = k /\ LastEntry(call[s].page, e) => e.val = table[k]
        /\ (\A e \in call[s].page : e.key # k) => ReadUpTo(k, cursor[s])
    BY <1>0, <2>3, <2>5, <2>6 DEF ReplyInv, Fresh
  <2>8. PICK d : d = cursor[s]
    OBVIOUS
  <2>9. ReadUpTo(k, d) => ReadUpTo(k, cursor[s])'
    BY <1>2, <2>5, <2>8 DEF ReadUpTo
  <2> QED
    BY <2>5, <2>7, <2>8, <2>9
<1>5. ASSUME NEW s \in Streams
      PROVE  OwnRows(s)'
  BY <1>0, <1>2, <1>5 DEF ReplyInv, OwnRows
<1> QED
  BY <1>2, <1>3, <1>4, <1>5 DEF CopyInv, ReplyInv

\* A reply that is computed has, of every key whose rows it ends, the value the
\* server has.
LEMMA AnswerFresh ==
    ASSUME ServerInv, DeviceInv, NEW s \in Streams, Answer(s)
    PROVE  OwnRows(s)' /\ \A k \in Keys : StreamOf[k] = s => Fresh(k)'
<1> DEFINE n == call'[s].next
           page == call'[s].page
<1>0. /\ TypeOK /\ WriterInv /\ NumberInv /\ TableInv
      /\ CursorInv /\ AskedInv /\ CursorInv'
  BY StepCursorInv DEF ServerInv, DeviceInv, Next, Reader
<1>1. /\ call[s].step = "asked" /\ UNCHANGED <<writerVars, cursor, copy>>
      /\ call'[s].step = "answered" /\ page = {EntryOf(r) : r \in PageNow(s)}
      /\ n \in Cursors /\ IsNext(s, PageNow(s), n)
  BY <1>0, AnswerStep
<1>2. /\ PageNow(s) \subseteq Served(s) /\ PageNow(s) \subseteq feed
      /\ \A r \in PageNow(s) : cursor[s] < r.seq /\ r.seq <= n
      /\ \A r \in Served(s) : cursor[s] < r.seq /\ r.seq <= n =>
           \/ \E p \in PageNow(s) : p.key = r.key /\ r.seq <= p.seq
           \/ \E q \in Served(s) : q.key = r.key /\ n < q.seq
  BY <1>0, <1>1, PageFacts
<1>3. /\ UNCHANGED <<feed, status, xid, table, cursor>> /\ Committed' = Committed
  BY <1>1 DEF writerVars, Committed
<1>4. /\ HandedOut(s, n)
      /\ \A r \in Served(s) : r \in Committed /\ StreamOf[r.key] = s
      /\ \A r \in feed : r.seq \in Nat
      /\ n \in Nat /\ cursor[s] \in Nat
  <2>1. HandedOut(s, call[s].next)'
    BY <1>0, <1>1 DEF CursorInv
  <2>2. Served(s)' = Served(s)
    BY <1>3 DEF Served, Visible
  <2>3. HandedOut(s, n)
    BY <2>1, <2>2 DEF HandedOut
  <2> QED
    BY <1>0, <1>1, <2>3, FeedAssumption
       DEF Served, Visible, Committed, TypeOK, Row, Seqs, Cursors
<1>5. \A r : EntryOf(r).key = r.key /\ EntryOf(r).seq = r.seq
             /\ EntryOf(r).val = IF StreamOf[r.key] \in Joined THEN table[r.key] ELSE r.val
  BY DEF EntryOf
<1>6. \A e \in page : \E r \in PageNow(s) : e = EntryOf(r)
  BY <1>1
<1>7. \A r \in PageNow(s) : EntryOf(r) \in page
  BY <1>1
<1>8. OwnRows(s)'
  <2>1. \A e \in page : StreamOf[e.key] = s
    BY <1>2, <1>4, <1>5, <1>6
  <2> QED
    BY <2>1 DEF OwnRows
<1>9. ASSUME NEW k \in Keys, StreamOf[k] = s, Ordered(s), ReadUpTo(k, n)
      PROVE  /\ \A e \in page : e.key = k /\ LastEntry(page, e) => e.val = table[k]
             /\ (\A e \in page : e.key # k) => ReadUpTo(k, cursor[s])
  <2>1. ASSUME NEW q \in Committed, q.key = k, cursor[s] < q.seq
        PROVE  \E p \in PageNow(s) : p.key = k /\ q.seq <= p.seq
    <3>1. q.seq <= n
      BY <1>9, <2>1 DEF ReadUpTo
    <3>2. q \in Served(s)
      BY <1>0, <1>4, <1>9, <2>1, <3>1, CommittedIsVisible
    <3>3. ASSUME NEW r \in Served(s), r.key = k, n < r.seq
          PROVE  FALSE
      <4>1. r \in Committed /\ r \in feed /\ r.seq <= n
        BY <1>4, <1>9, <3>3 DEF ReadUpTo, Served
      <4> QED
        BY <1>4, <3>3, <4>1
    <3> QED
      BY <1>2, <2>1, <3>1, <3>2, <3>3
  <2>2. ASSUME NEW e \in page, e.key = k, LastEntry(page, e)
        PROVE  e.val = table[k]
    <3>1. PICK p \in PageNow(s) : e = EntryOf(p)
      BY <1>6
    <3>2. p.key = k /\ p.seq = e.seq /\ p \in feed /\ p \in Committed /\ cursor[s] < p.seq
      BY <1>2, <1>4, <1>5, <2>2, <3>1
    <3>3. CASE s \in Joined
      BY <1>5, <1>9, <3>1, <3>2, <3>3
    <3>4. CASE s \notin Joined
      <4>1. ASSUME NEW q \in Committed, q.key = p.key
            PROVE  q.seq <= p.seq
        <5>1. q.seq \in Nat /\ p.seq \in Nat
          BY <1>4, <3>2 DEF Committed
        <5>2. CASE q.seq <= cursor[s]
          BY <1>4, <3>2, <5>1, <5>2
        <5>3. CASE cursor[s] < q.seq
          <6>1. PICK m \in PageNow(s) : m.key = k /\ q.seq <= m.seq
            BY <2>1, <3>2, <4>1, <5>3
          <6>2. EntryOf(m) \in page /\ EntryOf(m).key = k /\ EntryOf(m).seq = m.seq
            BY <1>5, <1>7, <6>1
          <6>3. m.seq <= e.seq
            BY <2>2, <6>2 DEF LastEntry
          <6>4. m.seq \in Nat
            BY <1>2, <1>4
          <6> QED
            BY <3>2, <5>1, <6>1, <6>3, <6>4
        <5> QED
          BY <1>4, <5>1, <5>2, <5>3
      <4>2. Latest(p)
        BY <4>1 DEF Latest
      <4>3. table[k] = p.val
        BY <1>0, <3>2, <4>2 DEF TableInv
      <4> QED
        BY <1>5, <1>9, <3>1, <3>2, <3>4, <4>3
    <3> QED
      BY <3>3, <3>4
  <2>3. ASSUME \A e \in page : e.key # k
        PROVE  ReadUpTo(k, cursor[s])
    <3> SUFFICES ASSUME NEW q \in Committed, q.key = k
                 PROVE  q.seq <= cursor[s]
      BY DEF ReadUpTo
    <3>1. ~(cursor[s] < q.seq)
      BY <1>5, <1>7, <2>1, <2>3
    <3>2. q.seq \in Nat
      BY <1>4 DEF Committed
    <3> QED
      BY <1>4, <3>1, <3>2
  <2> QED
    BY <2>2, <2>3
<1> HIDE DEF n, page
<1>10. ASSUME NEW k \in Keys, StreamOf[k] = s
       PROVE  Fresh(k)'
  <2>1. /\ Ordered(s)' <=> Ordered(s)
        /\ \A m : (\A r \in Committed' : r.key = k => r.seq <= m) <=> ReadUpTo(k, m)
    BY <1>3 DEF Ordered, ReadUpTo
  <2> SUFFICES ASSUME Ordered(s), \A r \in Committed' : r.key = k => r.seq <= n
               PROVE  /\ \A e \in page : e.key = k /\ LastEntry(page, e) => e.val = table[k]
                      /\ (\A e \in page : e.key # k) =>
                           \A r \in Committed' : r.key = k => r.seq <= cursor[s]
    BY <1>3, <1>10, <2>1 DEF Fresh, ReadUpTo, LastEntry, n, page
  <2> QED
    BY <1>9, <1>10, <2>1
<1> QED
  BY <1>8, <1>10

\* What a page gives a key of its stream that it ends is what the server has.
LEMMA AppliedFresh ==
    ASSUME ServerInv, DeviceInv, NEW k \in Keys, NEW s \in Streams, StreamOf[k] = s,
           call[s].step = "answered", Ordered(s), ReadUpTo(k, call[s].next)
    PROVE  Applied(call[s].page, k) = table[k]
<1> DEFINE page == call[s].page
           own == EntriesOf(page, k)
<1>1. /\ \A e \in page : e.key = k /\ LastEntry(page, e) => e.val = table[k]
      /\ (\A e \in page : e.key # k) => ReadUpTo(k, cursor[s])
  BY DEF DeviceInv, ReplyInv, Fresh
<1>2. CASE own = {}
  <2>1. ReadUpTo(k, cursor[s])
    BY <1>1, <1>2 DEF EntriesOf
  <2> QED
    BY <1>2, <2>1 DEF Applied, DeviceInv, CopyInv
<1>3. CASE own # {}
  <2>1. page \in SUBSET Entry
    BY AnsweredType DEF ServerInv, Answered
  <2>2. \A e \in own : e.seq \in Seqs
    BY <2>1 DEF EntriesOf, Entry
  <2>3. \E e \in own : \A f \in own : f.seq <= e.seq
    BY <1>3, <2>2, LastExists
  <2>4. PICK e \in own : Applied(page, k) = e.val /\ \A f \in own : f.seq <= e.seq
    BY <1>3, <2>3 DEF Applied
  <2>5. e \in page /\ e.key = k /\ LastEntry(page, e)
    BY <2>4 DEF EntriesOf, LastEntry
  <2> QED
    BY <1>1, <2>4, <2>5
<1> QED
  BY <1>2, <1>3

\* A page gives nothing to a key of another stream.
LEMMA AppliedElsewhere ==
    ASSUME ServerInv, DeviceInv, NEW k \in Keys, NEW s \in Streams, StreamOf[k] # s,
           call[s].step = "answered"
    PROVE  Applied(call[s].page, k) = copy[k]
<1>1. EntriesOf(call[s].page, k) = {}
  BY DEF DeviceInv, ReplyInv, OwnRows, EntriesOf
<1> QED
  BY <1>1 DEF Applied

\* A page is applied: the copy and the cursor move together.
LEMMA ApplyCopy ==
    ASSUME ServerInv, DeviceInv, NEW s \in Streams, Apply(s)
    PROVE  CopyInv'
<1>0. TypeOK
  BY DEF ServerInv
<1>1. /\ call[s].step = "answered" /\ UNCHANGED writerVars
      /\ Acceptable(s, call[s])
  BY DEF Apply, DeviceInv, ReplyAccepted
<1>2. /\ copy' = (IF call[s].next = cursor[s]
                  THEN copy ELSE [k \in Keys |-> Applied(call[s].page, k)])
      /\ cursor'[s] = call[s].next /\ \A q \in Streams \ {s} : cursor'[q] = cursor[q]
  BY <1>0, <1>1 DEF Apply, TypeOK
<1>3. Committed' = Committed /\ table' = table /\ \A q : Ordered(q)' <=> Ordered(q)
  BY <1>1 DEF writerVars, Committed, Ordered
<1>4. ASSUME NEW k \in Keys, Ordered(StreamOf[k]), ReadUpTo(k, cursor'[StreamOf[k]])
      PROVE  copy'[k] = table[k]
  <2>1. CASE StreamOf[k] = s
    <3>1. ReadUpTo(k, call[s].next)
      BY <1>2, <1>4, <2>1
    <3>2. CASE call[s].next = cursor[s]
      BY <1>2, <1>4, <2>1, <3>1, <3>2 DEF DeviceInv, CopyInv
    <3>3. CASE call[s].next # cursor[s]
      BY <1>1, <1>2, <1>4, <2>1, <3>1, <3>3, AppliedFresh
    <3> QED
      BY <3>2, <3>3
  <2>2. CASE StreamOf[k] # s
    <3>1. copy'[k] = copy[k]
      BY <1>1, <1>2, <2>2, AppliedElsewhere
    <3>2. cursor'[StreamOf[k]] = cursor[StreamOf[k]]
      BY <1>2, <2>2, FeedAssumption
    <3>3. ReadUpTo(k, cursor[StreamOf[k]])
      BY <1>4, <3>2
    <3>4. copy[k] = table[k]
      BY <1>4, <3>3 DEF DeviceInv, CopyInv
    <3> QED
      BY <3>1, <3>4
  <2> QED
    BY <2>1, <2>2
<1>5. \A k \in Keys : ReadUpTo(k, cursor[StreamOf[k]])' <=> ReadUpTo(k, cursor'[StreamOf[k]])
  BY <1>3 DEF ReadUpTo
<1> QED
  BY <1>3, <1>4, <1>5 DEF CopyInv

\* What is said of a stream stays while its tables, its cursor and its request do.
LEMMA SameStream ==
    ASSUME UNCHANGED writerVars, NEW k \in Keys, call'[StreamOf[k]] = call[StreamOf[k]],
           cursor'[StreamOf[k]] = cursor[StreamOf[k]], Fresh(k)
    PROVE  Fresh(k)'
BY DEF Fresh, LastEntry, Ordered, ReadUpTo, Committed, writerVars

\* The steps of a device.
LEMMA ReaderDevice ==
    ASSUME ServerInv, DeviceInv, Reader
    PROVE  CopyInv' /\ ReplyInv'
<1>0. TypeOK /\ CopyInv /\ ReplyInv /\ \A k \in Keys : StreamOf[k] \in Streams
  BY FeedAssumption DEF ServerInv, DeviceInv
<1>1. UNCHANGED writerVars
  BY DEF Reader, Ask, Answer, Apply, Drop, writerVars
<1>2. ASSUME UNCHANGED <<copy, cursor>>
      PROVE  CopyInv'
  <2>1. Committed' = Committed /\ table' = table /\ \A q : Ordered(q)' <=> Ordered(q)
    BY <1>1 DEF writerVars, Committed, Ordered
  <2>2. \A k \in Keys : ReadUpTo(k, cursor[StreamOf[k]])' <=> ReadUpTo(k, cursor[StreamOf[k]])
    BY <1>2, <2>1 DEF ReadUpTo
  <2> QED
    BY <1>0, <1>2, <2>1, <2>2 DEF CopyInv
<1>3. ASSUME NEW s \in Streams, Ask(s) \/ Apply(s) \/ Drop(s)
      PROVE  ReplyInv'
  <2>1. /\ \A q \in Streams \ {s} : call'[q] = call[q] /\ cursor'[q] = cursor[q]
        /\ call'[s].step # "answered"
    BY <1>0, <1>3, CallStep
  <2>2. ASSUME NEW k \in Keys
        PROVE  Fresh(k)'
    <3>1. CASE StreamOf[k] = s
      BY <2>1, <3>1 DEF Fresh
    <3>2. CASE StreamOf[k] # s
      BY <1>0, <1>1, <2>1, <3>2, SameStream DEF ReplyInv
    <3> QED
      BY <3>1, <3>2
  <2>3. \A q \in Streams : OwnRows(q)'
    BY <1>0, <2>1 DEF ReplyInv, OwnRows
  <2> QED
    BY <2>2, <2>3 DEF ReplyInv
<1>4. ASSUME NEW s \in Streams, Answer(s)
      PROVE  CopyInv' /\ ReplyInv'
  <2>1. /\ UNCHANGED <<copy, cursor>>
        /\ \A q \in Streams \ {s} : call'[q] = call[q]
    BY <1>0, <1>4, AnswerStep
  <2>2. ASSUME NEW k \in Keys
        PROVE  Fresh(k)'
    <3>1. CASE StreamOf[k] = s
      BY <1>4, <3>1, AnswerFresh
    <3>2. CASE StreamOf[k] # s
      BY <1>0, <1>1, <2>1, <3>2, SameStream DEF ReplyInv
    <3> QED
      BY <3>1, <3>2
  <2>3. \A q \in Streams : OwnRows(q)'
    <3>1. OwnRows(s)'
      BY <1>4, AnswerFresh
    <3>2. \A q \in Streams \ {s} : OwnRows(q)'
      BY <1>0, <2>1 DEF ReplyInv, OwnRows
    <3> QED
      BY <3>1, <3>2
  <2> QED
    BY <1>2, <2>1, <2>2, <2>3 DEF ReplyInv
<1>5. ASSUME NEW s \in Streams, Ask(s) \/ Drop(s)
      PROVE  CopyInv'
  BY <1>2, <1>5 DEF Ask, Drop
<1> QED
  BY <1>3, <1>4, <1>5, ApplyCopy DEF Reader

\* Every step keeps what is said of the copies.
LEMMA StepCopy ==
    ServerInv /\ DeviceInv /\ [Next]_vars => CopyInv' /\ ReplyInv'
<1> SUFFICES ASSUME ServerInv, DeviceInv, [Next]_vars
             PROVE  CopyInv' /\ ReplyInv'
  OBVIOUS
<1>1. CASE UNCHANGED vars
  BY <1>1 DEF vars, DeviceInv, CopyInv, ReplyInv, Fresh, OwnRows, LastEntry, Ordered, ReadUpTo,
              Committed
<1> QED
  BY <1>1, WriterDevice, ReaderDevice DEF Next

\* A device that has read an ordered stream to its end holds the server's table:
\* no change was skipped, applied in the wrong order or undone by a page.
THEOREM DevicesConverge == Spec => []Converged
<1>1. Init => ServerInv /\ DeviceInv
  <2>1. Init => WriterInv /\ CursorInv /\ NumberInv /\ AskedInv /\ ReplyAccepted
    BY DEF Init, WriterInv, CursorInv, NumberInv, HandedOut, AskedInv, ReplyAccepted, NoCall
  <2> QED
    BY <2>1, InitTypeOK, InitConverged DEF ServerInv, DeviceInv
<1>2. ServerInv /\ DeviceInv /\ [Next]_vars => ServerInv' /\ DeviceInv'
  BY StepTypeOK, StepWriterInv, StepNumberInv, StepLock, StepTable, StepCursorInv, StepAsked,
     StepAccepted, StepCopy DEF ServerInv, DeviceInv
<1>3. ServerInv /\ DeviceInv => Converged
  <2> SUFFICES ASSUME ServerInv, DeviceInv, NEW s \in Streams, InIdOrder(s), ReadToTheEnd(s),
                      NEW k \in Keys, StreamOf[k] = s
               PROVE  copy[k] = table[k]
    BY DEF Converged
  <2>1. Ordered(s)
    BY DEF InIdOrder, Ordered, Committed
  <2>2. ReadUpTo(k, cursor[s])
    BY DEF ReadToTheEnd, ReadUpTo, Committed
  <2> QED
    BY <2>1, <2>2 DEF DeviceInv, CopyInv
<1> QED
  BY <1>1, <1>2, <1>3, PTL DEF Spec
=============================================================================
