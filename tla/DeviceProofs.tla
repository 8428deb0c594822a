---------------------------- MODULE DeviceProofs ----------------------------
(***************************************************************************)
(* What a device copies is true, proved for every set of pairs,            *)
(* translations, cards and answers, every limit of batch and page, and any *)
(* number of changes and downloads: of the corpus (CorpusSync) and of the  *)
(* learner's cards (MobileSync), the two scenes of MCDevice.               *)
(***************************************************************************)
EXTENDS MCDevice, TLAPS, WellFoundedInduction, FiniteSetTheorems

\* Every nonempty finite set of naturals has a greatest element: a smallest
\* set without one would lose its only candidate with any of its elements.
LEMMA GreatestOfFinite ==
    ASSUME NEW S, S \subseteq Nat, IsFiniteSet(S), S # {}
    PROVE  \E m \in S : \A n \in S : n <= m
<1> DEFINE HasGreatest(A) == \E m \in A : \A n \in A : n <= m
           Bad == {A \in SUBSET S : A # {} /\ ~HasGreatest(A)}
<1> SUFFICES Bad = {}
  OBVIOUS
<1> SUFFICES ASSUME Bad # {}
             PROVE  FALSE
  OBVIOUS
<1>1. IsWellFoundedOn(StrictSubsetOrdering(S), SUBSET S)
  BY FS_StrictSubsetOrderingWellFounded, FS_FiniteSubsetsOfFinite
<1>2. PICK A \in Bad : \A B \in Bad : <<B, A>> \notin StrictSubsetOrdering(S)
  <2>1. Bad \subseteq SUBSET S
    OBVIOUS
  <2> HIDE DEF Bad
  <2> QED
    BY <1>1, <2>1, WFMin
<1>3. PICK x \in A : TRUE
  BY <1>2
<1>4. CASE A \ {x} = {}
  <2>1. \A n \in A : n = x
    BY <1>4
  <2>2. x \in Nat
    BY <1>2, <1>3
  <2>3. HasGreatest(A)
    BY <2>1, <2>2, <1>3
  <2> QED
    BY <2>3, <1>2
<1>5. CASE A \ {x} # {}
  <2>1. A \ {x} \notin Bad
    <3>1. <<A \ {x}, A>> \in StrictSubsetOrdering(S)
      BY <1>2, <1>3 DEF StrictSubsetOrdering
    <3> QED
      BY <3>1, <1>2
  <2>2. PICK y \in A \ {x} : \A n \in A \ {x} : n <= y
    BY <2>1, <1>2, <1>5
  <2>3. x \in Nat /\ y \in Nat /\ A \subseteq Nat
    BY <1>2, <1>3
  <2>4. HasGreatest(A)
    <3>1. CASE x <= y
      BY <3>1, <2>2
    <3>2. CASE y <= x
      <4>1. \A n \in A : n <= x
        BY <3>2, <2>2, <2>3
      <4> QED
        BY <4>1, <1>3
    <3> QED
      BY <3>1, <3>2, <2>3
  <2> QED
    BY <2>4, <1>2
<1> QED
  BY <1>4, <1>5

\* A step of a scene is a step of one of the two modules and leaves the other alone.
LEMMA SceneSteps ==
    [NextAll]_<<scene, vars, cards>> => [Next]_vars /\ [Phone!Next]_(Phone!vars)
BY DEF NextAll, Corpus, Card, cards, Phone!vars
-----------------------------------------------------------------------------
(***************************************************************************)
(* The corpus.  A snapshot read in pages at different times and the feed   *)
(* from the watermark before them make one consistent copy.                *)
(***************************************************************************)
(***************************************************************************)
(* The inductive invariant.                                                *)
(***************************************************************************)

\* A position the device holds is one the feed has reached.
PositionInv == \A p \in Pairs : pair[p].watermark <= Len(feed) /\ Base(p) <= Len(feed)

\* The last change of a translation left what the table has.
TableInv ==
    \A n \in 1..Len(feed) :
        ~Later(feed[n].id, n) => table[feed[n].id] = feed[n].value

\* The device has nothing of what its download has not reached.
FreshInv == \A i \in Ids : ~Reached(i) => local[i] = Absent

\* A run serves the pairs of its phase.
TodoInv ==
    step # "off" =>
        \A p \in todo : /\ phase = "snapshots" => pair[p].status = "downloading"
                        /\ phase = "deltas" => pair[p].status = "ready"

\* Within(i): the snapshot page in hand decides what the device has of i.
Within(p, i) == PairOf[i] = p /\ i > pair[p].after /\ (page.more => i <= page.next)

\* A snapshot page in hand has the live rows above the position, but for those
\* that the feed has changed since the watermark.
SnapshotPage(p) ==
    /\ page.more => pair[p].after <= page.next
    /\ \A r \in page.rows : /\ r.id \in Ids /\ r.at = r.id /\ Within(p, r.id)
                            /\ r.value # table[r.id] => Later(r.id, pair[p].watermark)
    /\ \A i \in Ids : Within(p, i) /\ table[i] # Absent
                      => Later(i, pair[p].watermark) \/ \E r \in page.rows : r.id = i

\* A page of changes in hand has every change of the pair between the cursor
\* and the number it ends at.
ChangesPage(p) ==
    /\ pair[p].cursor <= page.next /\ page.next <= Len(feed)
    /\ \A r \in page.rows : /\ r.at \in 1..Len(feed)
                            /\ r.id = feed[r.at].id /\ r.value = feed[r.at].value
                            /\ PairOf[r.id] = p /\ r.at > pair[p].cursor
    /\ \A n \in 1..Len(feed) :
         PairOf[feed[n].id] = p /\ n > pair[p].cursor /\ n <= page.next
         => \E r \in page.rows : r.at = n

PageInv ==
    step = "answered" =>
        \A p \in Pairs :
            InHand(p) => /\ phase = "snapshots" => SnapshotPage(p)
                         /\ phase = "deltas" => ChangesPage(p)

CopyInv ==
    /\ SnapshotPlusFeed
    /\ PositionInv
    /\ TableInv
    /\ FreshInv
    /\ TodoInv
    /\ PageInv
-----------------------------------------------------------------------------
(***************************************************************************)
(* Pages.                                                                  *)
(***************************************************************************)

LEMMA ImageFinite ==
    ASSUME NEW S, IsFiniteSet(S), NEW f
    PROVE  IsFiniteSet({f[x] : x \in S})
<1> DEFINE T == {f[x] : x \in S}
           g == [x \in S |-> f[x]]
<1>1. g \in Surjection(S, T)
  BY DEF Surjection
<1> QED
  BY <1>1, FS_Surjection

\* Both kinds of rows are finite sets of rows.
LEMMA RowsFinite ==
    ASSUME TypeOK, NEW p \in Pairs
    PROVE  /\ SnapshotRows(p) \subseteq Row /\ IsFiniteSet(SnapshotRows(p))
           /\ ChangeRows(p) \subseteq Row /\ IsFiniteSet(ChangeRows(p))
<1> USE CorpusAssumption
<1>1. SnapshotRows(p) \subseteq Row
  BY DEF SnapshotRows, TypeOK, Row
<1>2. IsFiniteSet(SnapshotRows(p))
  <2> DEFINE S == {j \in Ids : PairOf[j] = p /\ table[j] # Absent /\ j > pair[p].after}
             f == [i \in Ids |-> [at |-> i, id |-> i, value |-> table[i]]]
  <2>1. IsFiniteSet(S)
    BY FS_Subset
  <2>2. IsFiniteSet({f[i] : i \in S})
    BY <2>1, ImageFinite
  <2>3. {f[i] : i \in S} = SnapshotRows(p)
    BY DEF SnapshotRows
  <2> QED
    BY <2>2, <2>3
<1>3. Len(feed) \in Nat /\ \A n \in 1..Len(feed) : feed[n] \in Change
  BY DEF TypeOK
<1>4. ChangeRows(p) \subseteq Row
  BY <1>3 DEF ChangeRows, NumbersOf, Change, Row
<1>5. IsFiniteSet(ChangeRows(p))
  <2> DEFINE S == {m \in NumbersOf(p) : m > pair[p].cursor}
             f == [n \in 1..Len(feed) |->
                     [at |-> n, id |-> feed[n].id, value |-> feed[n].value]]
  <2>1. IsFiniteSet(S)
    <3>1. S \subseteq 1..Len(feed)
      BY DEF NumbersOf
    <3>2. IsFiniteSet(1..Len(feed))
      BY <1>3, FS_Interval
    <3> QED
      BY <3>1, <3>2, FS_Subset
  <2>2. IsFiniteSet({f[n] : n \in S})
    BY <2>1, ImageFinite
  <2>3. {f[n] : n \in S} = ChangeRows(p)
    BY DEF ChangeRows, NumbersOf
  <2> QED
    BY <2>2, <2>3
<1> QED
  BY <1>1, <1>2, <1>4, <1>5

\* A page has its rows from the beginning.
LEMMA FirstPageClosed ==
    ASSUME NEW rows, rows \subseteq Row, IsFiniteSet(rows)
    PROVE  /\ FirstPage(rows) \subseteq rows
           /\ IsFiniteSet(FirstPage(rows))
           /\ \A r \in FirstPage(rows) : \A q \in rows :
                q.at <= r.at => q \in FirstPage(rows)
<1>1. FirstPage(rows) \subseteq rows
  BY DEF FirstPage
<1>2. IsFiniteSet(FirstPage(rows))
  BY <1>1, FS_Subset
<1>3. ASSUME NEW r \in FirstPage(rows), NEW q \in rows, q.at <= r.at
      PROVE  q \in FirstPage(rows)
  <2> DEFINE upto(s) == {t \in rows : t.at <= s.at}
  <2>1. r \in rows /\ Cardinality(upto(r)) <= PageLimit
    BY DEF FirstPage
  <2>2. upto(q) \subseteq upto(r)
    BY <1>3, <2>1 DEF Row
  <2>3. IsFiniteSet(upto(r)) /\ IsFiniteSet(upto(q))
    BY FS_Subset
  <2>4. Cardinality(upto(q)) <= Cardinality(upto(r))
    BY <2>2, <2>3, FS_Subset
  <2>5. Cardinality(upto(q)) \in Nat /\ Cardinality(upto(r)) \in Nat
    BY <2>3, FS_CardinalityType
  <2>6. Cardinality(upto(q)) <= PageLimit
    BY <2>1, <2>4, <2>5, CorpusAssumption
  <2> QED
    BY <2>6 DEF FirstPage
<1> QED
  BY <1>1, <1>2, <1>3

\* A nonempty finite set of rows has a last one.
LEMMA LastRow ==
    ASSUME NEW rows, rows \subseteq Row, IsFiniteSet(rows), rows # {}
    PROVE  \E r \in rows : \A q \in rows : q.at <= r.at
<1> DEFINE f == [r \in rows |-> r.at]
           S == {f[r] : r \in rows}
<1>1. S \subseteq Nat /\ S # {}
  BY DEF Row
<1>2. IsFiniteSet(S)
  BY ImageFinite
<1>3. PICK m \in S : \A n \in S : n <= m
  <2> HIDE DEF S
  <2> QED
    BY <1>1, <1>2, GreatestOfFinite
<1>4. PICK r \in rows : r.at = m
  OBVIOUS
<1>5. \A q \in rows : q.at \in S
  OBVIOUS
<1> QED
  BY <1>3, <1>4, <1>5

\* What a page of a set of rows is: the rows up to where it ends, or all.
LEMMA PageOfRows ==
    ASSUME NEW rows, rows \subseteq Row, IsFiniteSet(rows), NEW from \in Nat,
           \A r \in rows : r.at > from
    PROVE  /\ PageOf(rows, from) \in Page
           /\ IsFiniteSet(PageOf(rows, from).rows)
           /\ PageOf(rows, from).rows \subseteq rows
           /\ from <= PageOf(rows, from).next
           /\ \A r \in PageOf(rows, from).rows : r.at <= PageOf(rows, from).next
           /\ \A r \in rows : r.at <= PageOf(rows, from).next
                               => r \in PageOf(rows, from).rows
           /\ ~PageOf(rows, from).more => PageOf(rows, from).rows = rows
           /\ PageOf(rows, from).rows = {} => PageOf(rows, from).next = from
           /\ PageOf(rows, from).rows # {}
              => \E r \in PageOf(rows, from).rows : PageOf(rows, from).next = r.at
<1> DEFINE first == FirstPage(rows)
<1>1. /\ first \subseteq rows /\ IsFiniteSet(first)
      /\ \A r \in first : \A q \in rows : q.at <= r.at => q \in first
  BY FirstPageClosed
<1>2. /\ PageOf(rows, from).rows = first
      /\ PageOf(rows, from).next = EndOf(first, from)
      /\ PageOf(rows, from).more = (first # rows)
      /\ PageOf(rows, from) = [rows |-> first, next |-> EndOf(first, from),
                               more |-> first # rows]
  BY DEF PageOf
<1>3. CASE first = {}
  <2>1. EndOf(first, from) = from
    BY <1>3 DEF EndOf
  <2>2. \A r \in rows : ~(r.at <= from)
    BY DEF Row
  <2>3. PageOf(rows, from) \in Page
    BY <1>1, <1>2, <2>1 DEF Page
  <2>4. from <= PageOf(rows, from).next
    BY <1>2, <2>1
  <2>5. \A r \in rows : ~(r.at <= PageOf(rows, from).next)
    BY <1>2, <2>1, <2>2
  <2> HIDE DEF first
  <2> QED
    BY <1>1, <1>2, <1>3, <2>1, <2>3, <2>4, <2>5
<1>4. CASE first # {}
  <2>1. PICK r \in first : \A q \in first : q.at <= r.at
    BY <1>1, <1>4, LastRow
  <2>2. PICK last \in first : EndOf(first, from) = last.at /\ \A q \in first : q.at <= last.at
    BY <1>4, <2>1 DEF EndOf
  <2>3. last \in rows /\ last.at \in Nat /\ from <= last.at
    BY <1>1 DEF Row
  <2>4. PageOf(rows, from) \in Page
    BY <1>1, <1>2, <2>2, <2>3 DEF Page
  <2> HIDE DEF first
  <2> QED
    BY <1>1, <1>2, <1>4, <2>2, <2>3, <2>4
<1> QED
  BY <1>3, <1>4

\* The page that a request for either kind of rows is answered with.
LEMMA SnapshotPageOf ==
    ASSUME TypeOK, NEW p \in Pairs
    PROVE  /\ \A r \in SnapshotRows(p) : r.at > pair[p].after
           /\ PageOf(SnapshotRows(p), pair[p].after) \in Page
           /\ IsFiniteSet(PageOf(SnapshotRows(p), pair[p].after).rows)
<1>1. \A r \in SnapshotRows(p) : r.at > pair[p].after
  BY DEF SnapshotRows
<1>2. pair[p].after \in Nat
  BY DEF TypeOK, Checkpoint
<1> QED
  BY <1>1, <1>2, RowsFinite, PageOfRows

LEMMA ChangesPageOf ==
    ASSUME TypeOK, NEW p \in Pairs
    PROVE  /\ \A r \in ChangeRows(p) : r.at > pair[p].cursor
           /\ PageOf(ChangeRows(p), pair[p].cursor) \in Page
           /\ IsFiniteSet(PageOf(ChangeRows(p), pair[p].cursor).rows)
<1>1. \A r \in ChangeRows(p) : r.at > pair[p].cursor
  BY DEF ChangeRows
<1>2. pair[p].cursor \in Nat
  BY DEF TypeOK, Checkpoint
<1> QED
  BY <1>1, <1>2, RowsFinite, PageOfRows

\* What the device has of a translation after a page is what its last row
\* there says.
LEMMA AfterPage ==
    ASSUME TypeOK, IsFiniteSet(page.rows), NEW i \in Ids
    PROVE  \/ /\ \A r \in page.rows : r.id # i
              /\ LocalAfter(i) = local[i]
           \/ \E r \in page.rows :
                /\ r.id = i /\ LocalAfter(i) = r.value
                /\ \A q \in page.rows : q.id = i => q.at <= r.at
<1> DEFINE mine == {r \in page.rows : r.id = i}
<1>1. CASE mine = {}
  BY <1>1 DEF LocalAfter
<1>2. CASE mine # {}
  <2>1. mine \subseteq Row /\ IsFiniteSet(mine)
    BY FS_Subset DEF TypeOK, Page
  <2>2. PICK r \in mine : \A q \in mine : q.at <= r.at
    BY <1>2, <2>1, LastRow
  <2> QED
    BY <2>2 DEF LocalAfter
<1> QED
  BY <1>1, <1>2
-----------------------------------------------------------------------------
(***************************************************************************)
(* Type correctness.  That a page is finite is what makes its last row     *)
(* exist.                                                                  *)
(***************************************************************************)

FiniteInv == IsFiniteSet(page.rows)

LEMMA InitTypeOK == Init => TypeOK /\ FiniteInv
<1> SUFFICES ASSUME Init
             PROVE  TypeOK /\ FiniteInv
  OBVIOUS
<1>1. IsFiniteSet({})
  BY FS_EmptySet
<1>2. NoPage \in Page /\ NoPage.rows = {}
  BY DEF NoPage, Page
<1>3. feed \in Seq(Change)
  BY DEF Init
<1> QED
  BY <1>1, <1>2, <1>3, CorpusAssumption DEF Init, TypeOK, FiniteInv, Values, Checkpoint

\* A step of the server records one change.
LEMMA ServerRecords ==
    ASSUME TypeOK, Server
    PROVE  \E i \in Ids, v \in Values : Record(i, v)
<1>1. Len(feed) + 1 \in Values /\ Absent \in Values
  BY DEF TypeOK, Values
<1>2. PICK i \in Ids : Record(i, Len(feed) + 1) \/ Record(i, Absent)
  BY DEF Server, Insert, Update, Delete
<1> QED
  BY <1>1, <1>2

LEMMA StepTypeOK == TypeOK /\ FiniteInv /\ [Next]_vars => TypeOK' /\ FiniteInv'
<1> SUFFICES ASSUME TypeOK, FiniteInv, [Next]_vars
             PROVE  TypeOK' /\ FiniteInv'
  OBVIOUS
<1> USE CorpusAssumption
<1>0. NoPage \in Page /\ IsFiniteSet(NoPage.rows)
  BY FS_EmptySet DEF NoPage, Page
<1>1. ASSUME NEW i \in Ids, NEW v \in Values, Record(i, v)
      PROVE  TypeOK' /\ FiniteInv'
  <2>1. [id |-> i, value |-> v] \in Change
    BY DEF Change
  <2>2. feed' \in Seq(Change)
    BY <1>1, <2>1 DEF Record, TypeOK
  <2> QED
    BY <1>1, <2>2 DEF Record, TypeOK, FiniteInv, deviceVars, runVars
<1>2. ASSUME NEW p \in Pairs, BeginSnapshot(p)
      PROVE  TypeOK' /\ FiniteInv'
  <2>1. Len(feed) \in Nat
    BY DEF TypeOK
  <2>2. pair' \in [Pairs -> Checkpoint]
    BY <1>2, <2>1 DEF BeginSnapshot, SnapshotWatermark, TypeOK, Checkpoint
  <2>3. local' \in [Ids -> Values]
    BY <1>2 DEF BeginSnapshot, TypeOK, Values
  <2> QED
    BY <1>2, <2>2, <2>3 DEF BeginSnapshot, TypeOK, FiniteInv, serverVars, runVars
<1>3. CASE Start
  BY <1>3 DEF Start, PairsOf, TypeOK, FiniteInv, serverVars, deviceVars
<1>4. CASE Stop
  BY <1>0, <1>4 DEF Stop, End, TypeOK, FiniteInv, serverVars, deviceVars
<1>5. CASE Advance
  BY <1>5 DEF Advance, PairsOf, TypeOK, FiniteInv, serverVars
<1>6. ASSUME NEW p \in Pairs, Ask(p)
      PROVE  TypeOK' /\ FiniteInv'
  BY <1>6 DEF Ask, TypeOK, FiniteInv, serverVars, deviceVars
<1>7. ASSUME NEW p \in Pairs, AnswerSnapshot(p)
      PROVE  TypeOK' /\ FiniteInv'
  <2>1. page' \in Page /\ FiniteInv'
    BY <1>0, <1>7, SnapshotPageOf DEF AnswerSnapshot, End, Served, FiniteInv
  <2>2. todo' \subseteq Pairs /\ step' \in {"off", "answered"}
    BY <1>7 DEF AnswerSnapshot, End, Served, TypeOK
  <2> QED
    BY <1>7, <2>1, <2>2 DEF AnswerSnapshot, TypeOK, serverVars, deviceVars
<1>8. ASSUME NEW p \in Pairs, AnswerChanges(p)
      PROVE  TypeOK' /\ FiniteInv'
  <2>1. page' \in Page /\ FiniteInv'
    BY <1>0, <1>8, ChangesPageOf DEF AnswerChanges, End, Served, FiniteInv
  <2>2. todo' \subseteq Pairs /\ step' \in {"off", "answered"}
    BY <1>8 DEF AnswerChanges, End, Served, TypeOK
  <2> QED
    BY <1>8, <2>1, <2>2 DEF AnswerChanges, TypeOK, serverVars, deviceVars
<1>9. \A i \in Ids : LocalAfter(i) \in Values
  BY AfterPage DEF FiniteInv, TypeOK, Page, Row
<1>10. page.next \in Nat /\ page.more \in BOOLEAN
  BY DEF TypeOK, Page
<1>11. ASSUME NEW p \in Pairs, ApplySnapshot(p)
       PROVE  TypeOK' /\ FiniteInv'
  <2>1. Finished(p) \in Checkpoint
    BY <1>10 DEF Finished, TypeOK, Checkpoint
  <2>2. pair' \in [Pairs -> Checkpoint]
    BY <1>11, <2>1 DEF ApplySnapshot, TypeOK
  <2>3. local' \in [Ids -> Values]
    BY <1>11, <1>9 DEF ApplySnapshot
  <2> QED
    BY <1>0, <1>11, <2>2, <2>3
       DEF ApplySnapshot, Continue, TypeOK, FiniteInv, serverVars
<1>12. ASSUME NEW p \in Pairs, ApplyChanges(p)
       PROVE  TypeOK' /\ FiniteInv'
  <2>0. [pair[p] EXCEPT !.cursor = page.next] \in Checkpoint
    BY <1>10 DEF TypeOK, Checkpoint
  <2>1. pair' \in [Pairs -> Checkpoint]
    BY <1>12, <2>0 DEF ApplyChanges, TypeOK
  <2>2. local' \in [Ids -> Values]
    BY <1>12, <1>9 DEF ApplyChanges, TypeOK
  <2> QED
    BY <1>0, <1>12, <2>1, <2>2
       DEF ApplyChanges, Continue, TypeOK, FiniteInv, serverVars
<1>13. CASE UNCHANGED vars
  BY <1>13 DEF vars, TypeOK, FiniteInv
<1> QED
  BY <1>1, <1>2, <1>3, <1>4, <1>5, <1>6, <1>7, <1>8, <1>11, <1>12, <1>13, ServerRecords
     DEF Next, Serve, Apply

\* Type correctness of the feed, the device's copy and the runs.
THEOREM TypeCorrect == SpecAll => []TypeOK
BY InitTypeOK, StepTypeOK, SceneSteps, PTL DEF SpecAll, InitAll
-----------------------------------------------------------------------------
(***************************************************************************)
(* Each step preserves the inductive invariant.                            *)
(***************************************************************************)

\* What the device has and where it stands; the rest is about the run.
DataInv == SnapshotPlusFeed /\ PositionInv /\ TableInv /\ FreshInv

\* A change leaves the ones before it, and its translation is changed beyond
\* every position reached so far.
LEMMA Recorded ==
    ASSUME TypeOK, NEW i \in Ids, NEW v \in Values, Record(i, v)
    PROVE  /\ Len(feed) \in Nat /\ Len(feed') = Len(feed) + 1
           /\ \A n \in 1..Len(feed) : feed'[n] = feed[n]
           /\ feed'[Len(feed) + 1] = [id |-> i, value |-> v]
           /\ \A j, n : Later(j, n) => Later(j, n)'
           /\ \A n \in Nat : n <= Len(feed) => Later(i, n)'
<1>1. /\ feed \in Seq(Change) /\ [id |-> i, value |-> v] \in Change
      /\ feed' = Append(feed, [id |-> i, value |-> v])
  BY DEF TypeOK, Change, Record
<1>2. /\ Len(feed) \in Nat /\ Len(feed') = Len(feed) + 1
      /\ \A n \in 1..Len(feed) : feed'[n] = feed[n]
      /\ feed'[Len(feed) + 1] = [id |-> i, value |-> v]
  BY <1>1
<1>3. \A j, n : Later(j, n) => Later(j, n)'
  BY <1>2 DEF Later
<1>4. \A n \in Nat : n <= Len(feed) => Later(i, n)'
  BY <1>2 DEF Later
<1> QED
  BY <1>2, <1>3, <1>4

LEMMA RecordDataInv ==
    ASSUME TypeOK, DataInv, NEW i \in Ids, NEW v \in Values, Record(i, v)
    PROVE  DataInv'
<1>1. /\ local' = local /\ pair' = pair
      /\ \A j \in Ids : j # i => table'[j] = table[j]
      /\ table'[i] = v
  BY DEF Record, deviceVars, TypeOK
<1>2. /\ Len(feed) \in Nat /\ Len(feed') = Len(feed) + 1
      /\ \A n \in 1..Len(feed) : feed'[n] = feed[n]
      /\ feed'[Len(feed) + 1] = [id |-> i, value |-> v]
      /\ \A j, n : Later(j, n) => Later(j, n)'
      /\ \A n \in Nat : n <= Len(feed) => Later(i, n)'
  BY Recorded
<1>3. \A p \in Pairs : /\ Base(p)' = Base(p) /\ Base(p) \in Nat
                       /\ pair[p].watermark \in Nat
  BY <1>1 DEF Base, TypeOK, Checkpoint
<1>4. \A j \in Ids : Reached(j)' = Reached(j)
  BY <1>1 DEF Reached
<1>5. PositionInv'
  BY <1>1, <1>2, <1>3 DEF DataInv, PositionInv
<1>6. SnapshotPlusFeed'
  <2> SUFFICES ASSUME NEW j \in Ids, Reached(j)', local'[j] # table'[j]
               PROVE  Later(j, Base(PairOf[j]))'
    BY DEF SnapshotPlusFeed
  <2>1. PairOf[j] \in Pairs
    BY CorpusAssumption
  <2>2. Base(PairOf[j]) \in Nat /\ Base(PairOf[j]) <= Len(feed)
    BY <2>1, <1>3 DEF DataInv, PositionInv
  <2>3. j # i => Later(j, Base(PairOf[j]))
    BY <1>1, <1>4 DEF DataInv, SnapshotPlusFeed
  <2> DEFINE b == Base(PairOf[j])
  <2>4. Base(PairOf[j])' = b
    BY <2>1, <1>3
  <2>5. j # i => \E n \in 1..Len(feed') : feed'[n].id = j /\ n > b
    BY <2>3, <1>2 DEF Later
  <2>6. j = i => \E n \in 1..Len(feed') : feed'[n].id = j /\ n > b
    BY <2>2, <1>2
  <2> QED
    BY <2>4, <2>5, <2>6 DEF Later
<1>7. TableInv'
  <2> SUFFICES ASSUME NEW n \in 1..Len(feed'), ~Later(feed[n].id, n)'
               PROVE  table'[feed'[n].id] = feed'[n].value
    BY DEF TableInv
  <2>1. CASE n = Len(feed) + 1
    BY <2>1, <1>1, <1>2
  <2>2. CASE n \in 1..Len(feed)
    <3>0. feed[n] \in Change
      BY <2>2 DEF TypeOK
    <3>1. feed'[n] = feed[n] /\ feed[n].id \in Ids
      BY <2>2, <3>0, <1>2 DEF Change
    <3> DEFINE j == feed[n].id
    <3>2. ~(\E m \in 1..Len(feed') : feed'[m].id = j /\ m > n)
      BY <2>2, <3>1 DEF Later
    <3>3. ~Later(j, n) /\ j # i
      BY <2>2, <3>2, <1>2 DEF Later
    <3> QED
      BY <2>2, <3>1, <3>3, <1>1 DEF DataInv, TableInv
  <2> QED
    BY <2>1, <2>2, <1>2
<1>8. FreshInv'
  BY <1>1, <1>4 DEF DataInv, FreshInv
<1> QED
  BY <1>5, <1>6, <1>7, <1>8 DEF DataInv

\* A page in hand stays good while the server goes on.
LEMMA RecordPageInv ==
    ASSUME TypeOK, PositionInv, PageInv, NEW i \in Ids, NEW v \in Values, Record(i, v)
    PROVE  PageInv'
<1>1. /\ pair' = pair /\ page' = page /\ phase' = phase /\ step' = step /\ todo' = todo
      /\ \A j \in Ids : j # i => table'[j] = table[j]
  BY DEF Record, deviceVars, runVars, TypeOK
<1>2. /\ Len(feed) \in Nat /\ Len(feed') = Len(feed) + 1
      /\ \A n \in 1..Len(feed) : feed'[n] = feed[n]
      /\ \A j, n : Later(j, n) => Later(j, n)'
      /\ \A n \in Nat : n <= Len(feed) => Later(i, n)'
  BY Recorded
<1> SUFFICES ASSUME step = "answered", NEW p \in Pairs, InHand(p)
             PROVE  /\ phase = "snapshots" => SnapshotPage(p)'
                    /\ phase = "deltas" => ChangesPage(p)'
  BY <1>1 DEF PageInv, InHand
<1>3. ASSUME phase = "snapshots"
      PROVE  SnapshotPage(p)'
  <2>1. SnapshotPage(p)
    BY <1>3 DEF PageInv
  <2> DEFINE w == pair[p].watermark
  <2>2. /\ w \in Nat /\ w <= Len(feed) /\ pair'[p].watermark = w
    BY <1>1 DEF PositionInv, TypeOK, Checkpoint
  <2>3. \A j \in Ids : Within(p, j)' = Within(p, j)
    BY <1>1 DEF Within
  <2>4. \A j \in Ids : j = i \/ Later(j, w) => Later(j, w)'
    BY <1>2, <2>2
  <2>5. \A j \in Ids : Later(j, pair[p].watermark)' <=> \E n \in 1..Len(feed') : feed'[n].id = j /\ n > w
    BY <2>2 DEF Later
  <2>6. \A j \in Ids : j = i \/ Later(j, w) => Later(j, pair[p].watermark)'
    BY <2>4, <2>5 DEF Later
  <2> QED
    BY <1>1, <2>1, <2>3, <2>6 DEF SnapshotPage
<1>4. ASSUME phase = "deltas"
      PROVE  ChangesPage(p)'
  <2>1. ChangesPage(p)
    BY <1>4 DEF PageInv
  <2>2. page.next \in Nat /\ page.next <= Len(feed')
    BY <2>1, <1>2 DEF ChangesPage, TypeOK, Page
  <2>3. \A n \in 1..Len(feed') : n <= page.next => n \in 1..Len(feed)
    BY <2>1, <2>2, <1>2 DEF ChangesPage
  <2>4. 1..Len(feed) \subseteq 1..Len(feed')
    BY <1>2
  <2> QED
    BY <1>1, <1>2, <2>1, <2>2, <2>3, <2>4 DEF ChangesPage
<1> QED
  BY <1>3, <1>4

\* Steps of a run that change neither the copy nor where it stands.
LEMMA SameDataInv ==
    ASSUME DataInv, UNCHANGED <<serverVars, local, pair>>
    PROVE  DataInv'
BY DEF DataInv, SnapshotPlusFeed, PositionInv, TableInv, FreshInv, Later, Base, Reached,
       serverVars

LEMMA BeginSnapshotCopyInv ==
    ASSUME TypeOK, CopyInv, NEW p \in Pairs, BeginSnapshot(p)
    PROVE  CopyInv'
<1> USE CorpusAssumption
<1>1. PICK w \in 0..Len(feed) :
        pair' = [pair EXCEPT ![p] = [status |-> "downloading", watermark |-> w,
                                     after |-> 0, cursor |-> 0]]
  BY DEF BeginSnapshot, SnapshotWatermark
<1>2. /\ table' = table /\ feed' = feed /\ step = "off" /\ step' = "off"
      /\ local' = [i \in Ids |-> IF PairOf[i] = p THEN Absent ELSE local[i]]
  BY DEF BeginSnapshot, serverVars, runVars
<1>3. /\ pair'[p].status = "downloading" /\ pair'[p].watermark = w /\ pair'[p].after = 0
      /\ \A q \in Pairs : q # p => pair'[q] = pair[q]
  BY <1>1 DEF TypeOK
<1>4. \A i \in Ids : PairOf[i] = p => ~Reached(i)'
  BY <1>3 DEF Reached
<1>5. \A i \in Ids : PairOf[i] # p => /\ Reached(i)' = Reached(i) /\ local'[i] = local[i]
                                      /\ Base(PairOf[i])' = Base(PairOf[i])
  BY <1>2, <1>3 DEF Reached, Base
<1>6. SnapshotPlusFeed'
  BY <1>2, <1>4, <1>5 DEF CopyInv, SnapshotPlusFeed, Later
<1>7. PositionInv'
  <2>1. Len(feed) \in Nat
    BY DEF TypeOK
  <2>2. Base(p)' = w
    BY <1>3 DEF Base
  <2>3. \A q \in Pairs : q # p => Base(q)' = Base(q)
    BY <1>3 DEF Base
  <2> QED
    BY <2>1, <2>2, <2>3, <1>2, <1>3 DEF CopyInv, PositionInv
<1>8. TableInv'
  BY <1>2 DEF CopyInv, TableInv, Later
<1>9. FreshInv'
  BY <1>2, <1>5 DEF CopyInv, FreshInv
<1>10. TodoInv' /\ PageInv'
  BY <1>2 DEF TodoInv, PageInv
<1> QED
  BY <1>6, <1>7, <1>8, <1>9, <1>10 DEF CopyInv

\* The pages the server answers with are good.
LEMMA AnswerSnapshotPage ==
    ASSUME TypeOK, NEW p \in Pairs, page' = PageOf(SnapshotRows(p), pair[p].after),
           UNCHANGED <<table, feed, pair>>
    PROVE  SnapshotPage(p)'
<1> DEFINE rows == SnapshotRows(p)
           reply == PageOf(rows, pair[p].after)
<1>1. /\ reply.rows \subseteq rows
      /\ pair[p].after <= reply.next
      /\ \A r \in reply.rows : r.at <= reply.next
      /\ \A r \in rows : r.at <= reply.next => r \in reply.rows
      /\ ~reply.more => reply.rows = rows
  BY SnapshotPageOf, RowsFinite, PageOfRows DEF TypeOK, Checkpoint
<1>2. \A r \in rows : /\ r.id \in Ids /\ r.at = r.id /\ r.value = table[r.id]
                      /\ PairOf[r.id] = p /\ r.id > pair[p].after
  BY DEF SnapshotRows
<1>3. ASSUME NEW i \in Ids, PairOf[i] = p, table[i] # Absent, i > pair[p].after
      PROVE  \E r \in rows : r.id = i /\ r.at = i
  <2>1. [at |-> i, id |-> i, value |-> table[i]] \in rows
    BY <1>3 DEF SnapshotRows
  <2> QED
    BY <2>1
<1>4. page' = reply
  OBVIOUS
<1> HIDE DEF reply, rows
<1> QED
  BY <1>1, <1>2, <1>3, <1>4 DEF SnapshotPage, Within

LEMMA AnswerChangesPage ==
    ASSUME TypeOK, NEW p \in Pairs, page' = PageOf(ChangeRows(p), pair[p].cursor),
           pair[p].cursor <= Len(feed), UNCHANGED <<table, feed, pair>>
    PROVE  ChangesPage(p)'
<1> DEFINE rows == ChangeRows(p)
           from == pair[p].cursor
           reply == PageOf(rows, from)
<1>0. /\ rows \subseteq Row /\ IsFiniteSet(rows) /\ from \in Nat
      /\ \A r \in rows : r.at > from
  BY RowsFinite, ChangesPageOf DEF TypeOK, Checkpoint
<1>1. /\ reply.rows \subseteq rows
      /\ from <= reply.next
      /\ \A r \in rows : r.at <= reply.next => r \in reply.rows
      /\ reply.rows = {} => reply.next = from
      /\ reply.rows # {} => \E r \in reply.rows : reply.next = r.at
  <2> HIDE DEF rows, from
  <2> QED
    BY <1>0, PageOfRows
<1>2. \A r \in rows : /\ r.at \in 1..Len(feed)
                      /\ r.id = feed[r.at].id /\ r.value = feed[r.at].value
                      /\ PairOf[r.id] = p /\ r.at > pair[p].cursor
  BY DEF ChangeRows, NumbersOf
<1>3. ASSUME NEW n \in 1..Len(feed), PairOf[feed[n].id] = p, n > pair[p].cursor
      PROVE  \E r \in rows : r.at = n
  <2>1. [at |-> n, id |-> feed[n].id, value |-> feed[n].value] \in rows
    BY <1>3 DEF ChangeRows, NumbersOf
  <2> QED
    BY <2>1
<1>4. page' = reply /\ from = pair[p].cursor /\ Len(feed) \in Nat
  BY DEF TypeOK
<1>5. reply.next <= Len(feed)
  <2> HIDE DEF reply, rows, from
  <2> QED
    BY <1>1, <1>2, <1>4
<1> HIDE DEF reply, rows, from
<1> QED
  BY <1>1, <1>2, <1>3, <1>4, <1>5 DEF ChangesPage

\* The run is in hand of one pair at a time.
LEMMA OneInHand ==
    ASSUME TypeOK, NEW p \in Pairs, NEW q \in Pairs, InHand(p), InHand(q)
    PROVE  p = q
BY CorpusAssumption DEF InHand

LEMMA AnswerSnapshotCopyInv ==
    ASSUME TypeOK, CopyInv, NEW p \in Pairs, AnswerSnapshot(p)
    PROVE  CopyInv'
<1>1. DataInv'
  BY SameDataInv DEF AnswerSnapshot, CopyInv, DataInv, deviceVars
<1>2. CASE step' = "off"
  BY <1>1, <1>2 DEF CopyInv, DataInv, TodoInv, PageInv
<1>3. CASE step' # "off"
  <2>1. /\ step = "asked" /\ phase = "snapshots" /\ InHand(p)
        /\ page' = PageOf(SnapshotRows(p), pair[p].after)
        /\ UNCHANGED <<table, feed, pair, phase, todo>>
    BY <1>3 DEF AnswerSnapshot, Served, End, serverVars, deviceVars
  <2>2. SnapshotPage(p)'
    BY <2>1, AnswerSnapshotPage
  <2>3. \A q \in Pairs : InHand(q)' => q = p
    BY <2>1, OneInHand DEF InHand
  <2>4. PageInv'
    BY <2>1, <2>2, <2>3 DEF PageInv
  <2>5. TodoInv'
    BY <2>1 DEF CopyInv, TodoInv
  <2> QED
    BY <1>1, <2>4, <2>5 DEF CopyInv, DataInv
<1> QED
  BY <1>2, <1>3

LEMMA AnswerChangesCopyInv ==
    ASSUME TypeOK, CopyInv, NEW p \in Pairs, AnswerChanges(p)
    PROVE  CopyInv'
<1>1. DataInv'
  BY SameDataInv DEF AnswerChanges, CopyInv, DataInv, deviceVars
<1>2. CASE step' = "off"
  BY <1>1, <1>2 DEF CopyInv, DataInv, TodoInv, PageInv
<1>3. CASE step' # "off"
  <2>1. /\ step = "asked" /\ phase = "deltas" /\ InHand(p)
        /\ page' = PageOf(ChangeRows(p), pair[p].cursor)
        /\ UNCHANGED <<table, feed, pair, phase, todo>>
    BY <1>3 DEF AnswerChanges, Served, End, serverVars, deviceVars
  <2>2. pair[p].status = "ready"
    BY <2>1 DEF CopyInv, TodoInv, InHand
  <2>3. pair[p].cursor <= Len(feed)
    BY <2>2 DEF CopyInv, PositionInv, Base
  <2>4. ChangesPage(p)'
    BY <2>1, <2>3, AnswerChangesPage
  <2>5. \A q \in Pairs : InHand(q)' => q = p
    BY <2>1, OneInHand DEF InHand
  <2>6. PageInv'
    BY <2>1, <2>4, <2>5 DEF PageInv
  <2>7. TodoInv'
    BY <2>1 DEF CopyInv, TodoInv
  <2> QED
    BY <1>1, <2>6, <2>7 DEF CopyInv, DataInv
<1> QED
  BY <1>2, <1>3

\* A snapshot page brings what lies between two positions as the table has it,
\* but for what the feed will send again.
LEMMA ApplySnapshotCopyInv ==
    ASSUME TypeOK, FiniteInv, CopyInv, NEW p \in Pairs, ApplySnapshot(p)
    PROVE  CopyInv'
<1> USE CorpusAssumption
<1> DEFINE w == pair[p].watermark
<1>1. /\ step = "answered" /\ phase = "snapshots" /\ InHand(p)
      /\ step' = "on" /\ phase' = phase
      /\ todo' = IF page.more THEN todo ELSE todo \ {p}
      /\ table' = table /\ feed' = feed
      /\ \A i \in Ids : local'[i] = LocalAfter(i)
  BY DEF ApplySnapshot, Continue, serverVars
<1>2. SnapshotPage(p) /\ pair[p].status = "downloading"
  BY <1>1 DEF CopyInv, PageInv, TodoInv, InHand
<1>3. /\ \A q \in Pairs : q # p => pair'[q] = pair[q]
      /\ pair'[p].watermark = w
      /\ pair'[p].after = page.next
      /\ page.more => pair'[p].status = "downloading"
      /\ ~page.more => pair'[p].status = "ready" /\ pair'[p].cursor = w
  <2>1. /\ Finished(p).watermark = w
        /\ Finished(p).after = page.next
        /\ page.more => Finished(p).status = "downloading"
        /\ ~page.more => Finished(p).status = "ready" /\ Finished(p).cursor = w
    BY <1>2 DEF Finished, TypeOK, Checkpoint
  <2>2. pair'[p] = Finished(p) /\ \A q \in Pairs : q # p => pair'[q] = pair[q]
    BY DEF ApplySnapshot, TypeOK
  <2> QED
    BY <2>1, <2>2
<1>4. pair[p].after \in Nat /\ page.next \in Nat /\ page.more \in BOOLEAN
  BY DEF TypeOK, Checkpoint, Page
<1>5. /\ Base(p) = w /\ Base(p)' = w
      /\ \A q \in Pairs : q # p => Base(q)' = Base(q)
  BY <1>2, <1>3, <1>4 DEF Base
<1>6. \A i \in Ids : ~Within(p, i) => local'[i] = local[i]
  BY <1>1, <1>2, AfterPage DEF SnapshotPage, FiniteInv
<1>7. \A i \in Ids : PairOf[i] # p => Reached(i)' = Reached(i) /\ ~Within(p, i)
  BY <1>3 DEF Reached, Within
<1>8. \A i \in Ids : PairOf[i] = p =>
        /\ Reached(i) <=> i <= pair[p].after
        /\ Reached(i)' <=> (page.more => i <= page.next)
  BY <1>2, <1>3, <1>4 DEF Reached
<1>9. \A i \in Ids : Within(p, i) /\ local'[i] # table[i] => Later(i, w)
  <2> SUFFICES ASSUME NEW i \in Ids, Within(p, i), local'[i] # table[i]
               PROVE  Later(i, w)
    OBVIOUS
  <2>1. local[i] = Absent
    <3>1. ~Reached(i)
      BY <1>4, <1>8 DEF Within
    <3> QED
      BY <3>1 DEF CopyInv, FreshInv
  <2>2. CASE \A r \in page.rows : r.id # i
    <3>1. local'[i] = local[i]
      BY <2>2, <1>1, AfterPage DEF FiniteInv
    <3> QED
      BY <2>1, <2>2, <3>1, <1>2 DEF SnapshotPage
  <2>3. CASE \E r \in page.rows : r.id = i
    <3>1. PICK r \in page.rows : r.id = i /\ local'[i] = r.value
      BY <2>3, <1>1, AfterPage DEF FiniteInv
    <3> QED
      BY <3>1, <1>2 DEF SnapshotPage
  <2> QED
    BY <2>2, <2>3
<1>10. SnapshotPlusFeed'
  <2> SUFFICES ASSUME NEW i \in Ids, Reached(i)', local'[i] # table[i]
               PROVE  Later(i, Base(PairOf[i])')
    BY <1>1 DEF SnapshotPlusFeed, Later
  <2>1. CASE PairOf[i] # p
    <3>1. Reached(i) /\ local[i] # table[i] /\ PairOf[i] \in Pairs
      BY <2>1, <1>6, <1>7
    <3> QED
      BY <2>1, <3>1, <1>5 DEF CopyInv, SnapshotPlusFeed
  <2>2. CASE PairOf[i] = p /\ Within(p, i)
    BY <2>2, <1>5, <1>9
  <2>3. CASE PairOf[i] = p /\ ~Within(p, i)
    <3>1. Reached(i)
      <4>1. i \in Nat
        BY CorpusAssumption
      <4> QED
        BY <2>3, <4>1, <1>4, <1>8 DEF Within
    <3>2. local[i] # table[i]
      BY <2>3, <1>6
    <3> QED
      BY <2>3, <3>1, <3>2, <1>5 DEF CopyInv, SnapshotPlusFeed
  <2> QED
    BY <2>1, <2>2, <2>3
<1>11. FreshInv'
  <2> SUFFICES ASSUME NEW i \in Ids, ~Reached(i)'
               PROVE  local'[i] = Absent
    BY DEF FreshInv
  <2>1. ~Reached(i) /\ ~Within(p, i)
    BY <1>2, <1>4, <1>7, <1>8 DEF Within, SnapshotPage
  <2> QED
    BY <2>1, <1>6 DEF CopyInv, FreshInv
<1>12. PositionInv'
  BY <1>1, <1>3, <1>5 DEF CopyInv, PositionInv
<1>13. TableInv'
  BY <1>1 DEF CopyInv, TableInv, Later
<1>14. TodoInv' /\ PageInv'
  BY <1>1, <1>3, <1>4 DEF CopyInv, TodoInv, PageInv, TypeOK
<1> QED
  BY <1>10, <1>11, <1>12, <1>13, <1>14 DEF CopyInv

\* A page of changes leaves a translation as its last change up to the new
\* cursor left it.
LEMMA ApplyChangesCopyInv ==
    ASSUME TypeOK, FiniteInv, CopyInv, NEW p \in Pairs, ApplyChanges(p)
    PROVE  CopyInv'
<1> USE CorpusAssumption
<1>1. /\ step = "answered" /\ phase = "deltas" /\ InHand(p)
      /\ step' = "on" /\ phase' = phase
      /\ todo' \subseteq todo
      /\ table' = table /\ feed' = feed
  BY DEF ApplyChanges, Continue, serverVars
<1>2. ChangesPage(p) /\ pair[p].status = "ready"
  BY <1>1 DEF CopyInv, PageInv, TodoInv, InHand
<1>3. CASE UNCHANGED <<local, pair>>
  <2>1. DataInv'
    BY <1>1, <1>3, SameDataInv DEF CopyInv, DataInv, serverVars
  <2>2. TodoInv' /\ PageInv'
    BY <1>1, <1>3 DEF CopyInv, TodoInv, PageInv
  <2> QED
    BY <2>1, <2>2 DEF CopyInv, DataInv
<1>4. CASE ~UNCHANGED <<local, pair>>
  <2>1. /\ \A i \in Ids : local'[i] = LocalAfter(i)
        /\ \A q \in Pairs : q # p => pair'[q] = pair[q]
        /\ pair'[p] = [pair[p] EXCEPT !.cursor = page.next]
    BY <1>4 DEF ApplyChanges, TypeOK
  <2>2. /\ pair'[p].status = "ready" /\ pair'[p].cursor = page.next
        /\ pair'[p].watermark = pair[p].watermark
    BY <1>2, <2>1 DEF TypeOK, Checkpoint
  <2>3. /\ Base(p) = pair[p].cursor /\ Base(p)' = page.next
        /\ \A q \in Pairs : q # p => Base(q)' = Base(q)
    BY <1>2, <2>1, <2>2 DEF Base
  <2>4. \A i \in Ids : Reached(i)' = Reached(i) /\ (PairOf[i] = p => Reached(i))
    BY <1>2, <2>1, <2>2 DEF Reached
  <2>5. \A i \in Ids : PairOf[i] # p => local'[i] = local[i]
    BY <1>2, <2>1, AfterPage DEF ChangesPage, FiniteInv
  <2>6. ASSUME NEW i \in Ids, PairOf[i] = p, ~Later(i, page.next)
        PROVE  local'[i] = table[i]
    <3>1. Len(feed) \in Nat /\ page.next \in Nat /\ pair[p].cursor \in Nat
      BY DEF TypeOK, Page, Checkpoint
    <3>2. \A n \in 1..Len(feed) :
            feed[n].id = i /\ n > pair[p].cursor
            => \E r \in page.rows : r.at = n /\ r.id = i
      BY <1>2, <2>6, <3>1 DEF ChangesPage, Later
    <3>3. CASE \A r \in page.rows : r.id # i
      <4>1. local'[i] = local[i]
        BY <3>3, <2>1, AfterPage DEF FiniteInv
      <4>2. ~Later(i, Base(p))
        BY <3>2, <3>3, <2>3 DEF Later
      <4> QED
        BY <4>1, <4>2, <2>4, <2>6 DEF CopyInv, SnapshotPlusFeed
    <3>4. CASE \E r \in page.rows : r.id = i
      <4>1. PICK r \in page.rows :
              /\ r.id = i /\ local'[i] = r.value
              /\ \A q \in page.rows : q.id = i => q.at <= r.at
        BY <3>4, <2>1, AfterPage DEF FiniteInv
      <4>2. /\ r.at \in 1..Len(feed) /\ feed[r.at].id = i /\ feed[r.at].value = r.value
            /\ r.at > pair[p].cursor
        BY <4>1, <1>2 DEF ChangesPage
      <4>3. ~Later(i, r.at)
        BY <3>1, <3>2, <4>1, <4>2 DEF Later
      <4> QED
        BY <4>1, <4>2, <4>3 DEF CopyInv, TableInv
    <3> QED
      BY <3>3, <3>4
  <2>7. SnapshotPlusFeed'
    <3> SUFFICES ASSUME NEW i \in Ids, Reached(i)', local'[i] # table[i]
                 PROVE  Later(i, Base(PairOf[i])')
      BY <1>1 DEF SnapshotPlusFeed, Later
    <3>1. CASE PairOf[i] # p
      <4>1. Reached(i) /\ local[i] # table[i] /\ PairOf[i] \in Pairs
        BY <3>1, <2>4, <2>5
      <4> QED
        BY <3>1, <4>1, <2>3 DEF CopyInv, SnapshotPlusFeed
    <3>2. CASE PairOf[i] = p
      BY <3>2, <2>3, <2>6
    <3> QED
      BY <3>1, <3>2
  <2>8. PositionInv'
    BY <1>1, <1>2, <2>1, <2>2, <2>3 DEF CopyInv, PositionInv, ChangesPage
  <2>9. TableInv'
    BY <1>1 DEF CopyInv, TableInv, Later
  <2>10. FreshInv'
    BY <2>4, <2>5 DEF CopyInv, FreshInv
  <2>11. TodoInv' /\ PageInv'
    BY <1>1, <1>2, <2>1, <2>2 DEF CopyInv, TodoInv, PageInv, TypeOK
  <2> QED
    BY <2>7, <2>8, <2>9, <2>10, <2>11 DEF CopyInv
<1> QED
  BY <1>3, <1>4

LEMMA StepCopyInv == TypeOK /\ FiniteInv /\ CopyInv /\ [Next]_vars => CopyInv'
<1> SUFFICES ASSUME TypeOK, FiniteInv, CopyInv, [Next]_vars
             PROVE  CopyInv'
  OBVIOUS
<1>1. ASSUME NEW i \in Ids, NEW v \in Values, Record(i, v)
      PROVE  CopyInv'
  <2>1. DataInv' /\ PageInv'
    BY <1>1, RecordDataInv, RecordPageInv DEF CopyInv, DataInv
  <2>2. TodoInv'
    BY <1>1 DEF Record, CopyInv, TodoInv, deviceVars, runVars
  <2> QED
    BY <2>1, <2>2 DEF CopyInv, DataInv
<1>2. ASSUME NEW p \in Pairs, BeginSnapshot(p)
      PROVE  CopyInv'
  BY <1>2, BeginSnapshotCopyInv
<1>3. CASE Start
  <2>1. DataInv'
    BY <1>3, SameDataInv DEF Start, CopyInv, DataInv, deviceVars
  <2>2. TodoInv' /\ PageInv'
    BY <1>3 DEF Start, PairsOf, TodoInv, PageInv, TypeOK, deviceVars
  <2> QED
    BY <2>1, <2>2 DEF CopyInv, DataInv
<1>4. CASE Stop
  <2>1. DataInv'
    BY <1>4, SameDataInv DEF Stop, CopyInv, DataInv, deviceVars
  <2>2. TodoInv' /\ PageInv'
    BY <1>4 DEF Stop, End, TodoInv, PageInv
  <2> QED
    BY <2>1, <2>2 DEF CopyInv, DataInv
<1>5. CASE Advance
  <2>1. DataInv'
    BY <1>5, SameDataInv DEF Advance, CopyInv, DataInv
  <2>2. TodoInv' /\ PageInv'
    BY <1>5 DEF Advance, PairsOf, TodoInv, PageInv
  <2> QED
    BY <2>1, <2>2 DEF CopyInv, DataInv
<1>6. ASSUME NEW p \in Pairs, Ask(p)
      PROVE  CopyInv'
  <2>1. DataInv'
    BY <1>6, SameDataInv DEF Ask, CopyInv, DataInv, deviceVars
  <2>2. TodoInv' /\ PageInv'
    BY <1>6 DEF Ask, CopyInv, TodoInv, PageInv, deviceVars
  <2> QED
    BY <2>1, <2>2 DEF CopyInv, DataInv
<1>7. ASSUME NEW p \in Pairs, Serve(p)
      PROVE  CopyInv'
  BY <1>7, AnswerSnapshotCopyInv, AnswerChangesCopyInv DEF Serve
<1>8. ASSUME NEW p \in Pairs, Apply(p)
      PROVE  CopyInv'
  BY <1>8, ApplySnapshotCopyInv, ApplyChangesCopyInv DEF Apply
<1>9. CASE UNCHANGED vars
  <2>1. DataInv'
    BY <1>9, SameDataInv DEF vars, CopyInv, DataInv, serverVars
  <2>2. TodoInv'
    BY <1>9 DEF vars, CopyInv, TodoInv
  <2>3. PageInv'
    BY <1>9 DEF vars, CopyInv, PageInv, InHand, SnapshotPage, ChangesPage, Within, Later
  <2> QED
    BY <2>1, <2>2, <2>3 DEF CopyInv, DataInv
<1> QED
  BY <1>1, <1>2, <1>3, <1>4, <1>5, <1>6, <1>7, <1>8, <1>9, ServerRecords DEF Next

\* The corpus protocol's promise: a snapshot read in pages over any number of
\* runs, while the table is written, and the feed from the watermark before
\* its first page, leave the device without a gap the feed would not fill.
THEOREM CopyConsistent == SpecAll => []SnapshotPlusFeed
<1>1. Init => CopyInv
  BY CorpusAssumption
     DEF Init, CopyInv, SnapshotPlusFeed, PositionInv, TableInv, FreshInv, TodoInv, PageInv,
         Reached, Base
<1>2. CopyInv => SnapshotPlusFeed
  BY DEF CopyInv
<1> QED
  BY <1>1, <1>2, InitTypeOK, StepTypeOK, StepCopyInv, SceneSteps, PTL DEF SpecAll, InitAll

-----------------------------------------------------------------------------
(***************************************************************************)
(* The cards.                                                              *)
(*                                                                         *)
(* The outbox is truthful because acceptability only ever ends: a reply    *)
(* that is late, repeated or lost cannot say of an answer what a later     *)
(* state of the server takes back.  The cursor is truthful because every   *)
(* change draws a number above all those given out: whatever a reply or a  *)
(* page in a run's hands says of a card is either what the server still    *)
(* has, or what a change above the cursor will correct.                    *)
(***************************************************************************)
\* The instance counts as the module of finite sets does.
LEMMA SameCount == ASSUME NEW S PROVE Phone!Cardinality(S) = Cardinality(S)
BY DEF Cardinality, Phone!Cardinality

\* What a run holds is of the kind its step says.
PlaceInv ==
    /\ runStep = "replied" => held \in Phone!Reply
    /\ runStep = "paged" => held \in Phone!CardPage

\* No number is above the last one drawn, and neither is a position.
NumberInv ==
    /\ cursor <= lastChange
    /\ \A c \in Cards : changed[c] <= lastChange
    /\ runStep = "paged" => held.next <= lastChange

\* The ledger keeps only what it would accept today: a translation is deleted
\* with its answers.
LedgerInv == \A a \in Answers : a \in ledger => Phone!Acceptable(a)

\* What is said of an answer is settled: a rejected one is never acceptable
\* again, an applied one leaves the ledger only with its translation.
Settled(a) == a \in ledger \/ CardOf[a] \notin known

OutboxInv ==
    \A a \in Answers :
        /\ outbox[a] = "applied" => Settled(a)
        /\ outbox[a] = "rejected" => ~Phone!Acceptable(a)

\* A reply in a run's hands tells one thing, the truth, of each answer, brings
\* the card of each answer it applies, and brings each card as the server has
\* it, unless the card has changed above the cursor since.
ReplyInv ==
    runStep = "replied" =>
        /\ held.applied \cap held.rejected = {}
        /\ \A a \in held.applied : Settled(a) /\ CardOf[a] \in held.cards
        /\ \A a \in held.rejected : ~Phone!Acceptable(a)
        /\ \A c \in held.cards : changed[c] <= cursor => held.copies[c] = Phone!ServerCopy(c)

\* A page in a run's hands brings, as the server has it, each card that changed
\* between the cursor and the position the page moves it to.
CardPageInv ==
    runStep = "paged" =>
        \A c \in Cards : changed[c] <= held.next =>
            /\ \A e \in held.changes : e.card = c => e.copy = Phone!ServerCopy(c)
            /\ (\A e \in held.changes : e.card # c) => changed[c] <= cursor

\* The inductive invariant.
DeviceInv ==
    /\ Phone!CardTypes /\ PlaceInv /\ NumberInv /\ LedgerInv /\ OutboxInv
    /\ ReplyInv /\ CardPageInv /\ Phone!CursorCovers
-----------------------------------------------------------------------------
\* A set of cards is finite, and so is what a query takes of it.
LEMMA SomeCards == ASSUME NEW S \in SUBSET Cards
                   PROVE  IsFiniteSet(S) /\ Cardinality(S) \in Nat
BY AnswersAssumption, FS_Subset, FS_CardinalityType

\* The cards changed by a transaction draw numbers above all those given out,
\* and none above the last number the transaction leaves (ChangeFeed).
LEMMA NumbersAbove ==
    ASSUME Phone!CardTypes, NEW S \in SUBSET Cards
    PROVE  /\ Phone!Renumbered(S) \in [Cards -> Nat]
           /\ \A c \in Cards \ S : Phone!Renumbered(S)[c] = changed[c]
           /\ \A c \in S : /\ Phone!Renumbered(S)[c] > lastChange
                           /\ Phone!Renumbered(S)[c] <= lastChange + Cardinality(S)
<1>1. Cardinality(S) \in Nat /\ lastChange \in Nat /\ changed \in [Cards -> Nat]
  BY SomeCards DEF Phone!CardTypes
<1>2. ASSUME NEW c \in S
      PROVE  LET E == {d \in S : d <= c}
             IN Cardinality(E) \in Nat /\ Cardinality(E) >= 1 /\ Cardinality(E) <= Cardinality(S)
  <2> DEFINE E == {d \in S : d <= c}
  <2>1. c \in Nat /\ c <= c
    BY AnswersAssumption
  <2>2. E \in SUBSET S /\ {c} \in SUBSET E
    BY <2>1
  <2>3. IsFiniteSet(S) /\ IsFiniteSet(E) /\ Cardinality(E) \in Nat
    BY <2>2, SomeCards
  <2>4. Cardinality(E) <= Cardinality(S)
    BY <2>2, <2>3, FS_Subset
  <2>5. Cardinality({c}) <= Cardinality(E) /\ Cardinality({c}) = 1
    BY <2>2, <2>3, FS_Subset, FS_Singleton
  <2> QED
    BY <2>3, <2>4, <2>5
<1>3. \A c \in Cards : Phone!Renumbered(S)[c] =
          IF c \in S THEN lastChange + Cardinality({d \in S : d <= c}) ELSE changed[c]
  BY SameCount DEF Phone!Renumbered
<1>4. ASSUME NEW c \in S
      PROVE  /\ Phone!Renumbered(S)[c] \in Nat
             /\ Phone!Renumbered(S)[c] > lastChange
             /\ Phone!Renumbered(S)[c] <= lastChange + Cardinality(S)
  <2> DEFINE n == Cardinality({d \in S : d <= c})
  <2>1. n \in Nat /\ n >= 1 /\ n <= Cardinality(S)
    BY <1>2
  <2>2. Phone!Renumbered(S)[c] = lastChange + n
    BY <1>3
  <2> HIDE DEF n
  <2> QED
    BY <2>1, <2>2, <1>1
<1>5. Phone!Renumbered(S) = [c \in Cards |-> Phone!Renumbered(S)[c]]
  BY DEF Phone!Renumbered
<1> QED
  BY <1>1, <1>3, <1>4, <1>5

\* What the server writes: cards change, each with a number above all those
\* given out, and the other cards, their numbers and copies stay as they are.
Written(S) ==
    /\ changed' \in [Cards -> Nat]
    /\ lastChange' \in Nat
    /\ lastChange <= lastChange'
    /\ \A c \in Cards \ S : changed'[c] = changed[c] /\ Phone!ServerCopy(c)' = Phone!ServerCopy(c)
    /\ \A c \in S : changed'[c] > lastChange /\ changed'[c] <= lastChange'

\* Accepting answers writes their cards.
LEMMA AcceptWrites ==
    ASSUME Phone!CardTypes, NEW A \in SUBSET Phone!AllAnswers, Phone!Accept(A)
    PROVE  /\ Written({CardOf[a] : a \in A})
           /\ ledger' = ledger \cup A
           /\ known' = known
           /\ carded' \subseteq Cards
           /\ {CardOf[a] : a \in A} \subseteq Cards
<1> DEFINE S == {CardOf[a] : a \in A}
<1>1. S \in SUBSET Cards
  BY AnswersAssumption DEF Phone!AllAnswers
<1>2. /\ ledger' = ledger \cup A
      /\ carded' = carded \cup S
      /\ changed' = Phone!Renumbered(S)
      /\ lastChange' = lastChange + Cardinality(S)
      /\ known' = known
  BY SameCount DEF Phone!Accept
<1>3. \A c \in Cards \ S : Phone!ServerCopy(c)' = Phone!ServerCopy(c)
  <2> SUFFICES ASSUME NEW c \in Cards \ S
               PROVE  Phone!ServerCopy(c)' = Phone!ServerCopy(c)
    OBVIOUS
  <2>1. Phone!For(c, ledger') = Phone!For(c, ledger)
    BY <1>2 DEF Phone!For
  <2>2. (c \in carded') = (c \in carded)
    BY <1>2
  <2> QED
    BY <2>1, <2>2 DEF Phone!ServerCopy
<1>4. Cardinality(S) \in Nat /\ lastChange \in Nat
  BY <1>1, SomeCards DEF Phone!CardTypes
<1>5. /\ Phone!Renumbered(S) \in [Cards -> Nat]
      /\ \A c \in Cards \ S : Phone!Renumbered(S)[c] = changed[c]
      /\ \A c \in S : /\ Phone!Renumbered(S)[c] > lastChange
                     /\ Phone!Renumbered(S)[c] <= lastChange + Cardinality(S)
  BY <1>1, NumbersAbove
<1> HIDE DEF S
<1>6. Written(S)
  BY <1>2, <1>3, <1>4, <1>5 DEF Written
<1>7. carded' \subseteq Cards
  BY <1>1, <1>2 DEF Phone!CardTypes
<1> QED
  BY <1>1, <1>2, <1>6, <1>7 DEF S

\* Deleting a translation writes its card, or nothing if it had none.
LEMMA DeleteWrites ==
    ASSUME Phone!CardTypes, NEW d \in Deletable, Phone!DeleteTranslation(d)
    PROVE  /\ Written(IF d \in carded THEN {d} ELSE {})
           /\ ledger' = ledger \ Phone!For(d, ledger)
           /\ known' = known \ {d}
           /\ carded' \subseteq Cards
           /\ d \in Cards
<1> DEFINE S == IF d \in carded THEN {d} ELSE {}
<1>1. d \in Cards /\ S \in SUBSET Cards
  BY AnswersAssumption
<1>2. /\ ledger' = ledger \ Phone!For(d, ledger)
      /\ carded' = carded \ {d}
      /\ known' = known \ {d}
  BY DEF Phone!DeleteTranslation
<1>3. \A c \in Cards \ S : Phone!ServerCopy(c)' = Phone!ServerCopy(c)
  <2> SUFFICES ASSUME NEW c \in Cards \ S
               PROVE  Phone!ServerCopy(c)' = Phone!ServerCopy(c)
    OBVIOUS
  <2>1. CASE c = d
    <3>1. c \notin carded /\ c \notin carded'
      BY <1>2, <2>1
    <3> QED
      BY <3>1 DEF Phone!ServerCopy
  <2>2. CASE c # d
    <3>1. Phone!For(c, ledger') = Phone!For(c, ledger)
      BY <1>2, <2>2 DEF Phone!For
    <3>2. (c \in carded') = (c \in carded)
      BY <1>2, <2>2
    <3> QED
      BY <3>1, <3>2 DEF Phone!ServerCopy
  <2> QED
    BY <2>1, <2>2
<1>4. lastChange \in Nat /\ changed \in [Cards -> Nat] /\ carded \subseteq Cards
  BY DEF Phone!CardTypes
<1>5. Written(S)
  <2>1. CASE d \in carded
    <3>1. /\ S = {d} /\ Cardinality(S) = 1
          /\ changed' = Phone!Renumbered(S) /\ lastChange' = lastChange + 1
      BY <2>1, FS_Singleton DEF Phone!DeleteTranslation
    <3>2. /\ Phone!Renumbered(S) \in [Cards -> Nat]
          /\ \A c \in Cards \ S : Phone!Renumbered(S)[c] = changed[c]
          /\ \A c \in S : /\ Phone!Renumbered(S)[c] > lastChange
                         /\ Phone!Renumbered(S)[c] <= lastChange + Cardinality(S)
      BY <1>1, NumbersAbove
    <3>3. lastChange' \in Nat /\ lastChange <= lastChange'
      BY <1>4, <3>1
    <3>4. \A c \in S : changed'[c] > lastChange /\ changed'[c] <= lastChange'
      BY <3>1, <3>2
    <3>5. \A c \in Cards \ S : changed'[c] = changed[c]
      BY <3>1, <3>2
    <3> HIDE DEF S
    <3> QED
      BY <1>3, <3>1, <3>2, <3>3, <3>4, <3>5 DEF Written
  <2>2. CASE d \notin carded
    <3>1. S = {} /\ changed' = changed /\ lastChange' = lastChange
      BY <2>2 DEF Phone!DeleteTranslation
    <3> HIDE DEF S
    <3> QED
      BY <1>3, <1>4, <3>1 DEF Written
  <2> QED
    BY <2>1, <2>2
<1> QED
  BY <1>1, <1>2, <1>4, <1>5
-----------------------------------------------------------------------------
\* A copy the server makes of a card is a copy.
LEMMA CopyTyped ==
    ASSUME Phone!CardTypes, NEW c \in Cards
    PROVE  Phone!ServerCopy(c) \in Phone!Copy
<1>1. Phone!For(c, ledger) \subseteq Phone!AllAnswers
  BY DEF Phone!CardTypes, Phone!For
<1> QED
  BY <1>1 DEF Phone!ServerCopy, Phone!NoCard, Phone!Copy

\* Where the server rests, its copies and what it accepts rest too.
LEMMA ServerRests ==
    ASSUME UNCHANGED Phone!serverVars
    PROVE  /\ \A c \in Cards : Phone!ServerCopy(c)' = Phone!ServerCopy(c)
           /\ \A a \in Answers : Settled(a)' <=> Settled(a)
           /\ \A a \in Answers : Phone!Acceptable(a)' <=> Phone!Acceptable(a)
BY DEF Phone!serverVars, Phone!ServerCopy, Phone!For, Settled, Phone!Acceptable

\* A card at or below a number given out before the server wrote was not
\* written.
LEMMA Untouched ==
    ASSUME Phone!CardTypes, NEW S, Written(S), NEW c \in Cards, NEW n \in Nat,
           n <= lastChange, changed'[c] <= n
    PROVE  changed'[c] = changed[c] /\ Phone!ServerCopy(c)' = Phone!ServerCopy(c)
<1>1. lastChange \in Nat /\ changed'[c] \in Nat
  BY DEF Phone!CardTypes, Written
<1>2. c \notin S
  BY <1>1 DEF Written
<1> QED
  BY <1>2 DEF Written

\* The invariant's parts about numbers, cursor, reply and page, where the
\* server writes cards and the device and the run stand still.
LEMMA WritingKeeps ==
    ASSUME DeviceInv, NEW S, Written(S), UNCHANGED <<Phone!deviceVars, Phone!runVars>>,
           \A a \in Answers : Settled(a) => Settled(a)',
           \A a \in Answers : ~Phone!Acceptable(a) => ~Phone!Acceptable(a)'
    PROVE  NumberInv' /\ OutboxInv' /\ ReplyInv' /\ CardPageInv' /\ Phone!CursorCovers' /\ PlaceInv'
<1> USE DEF DeviceInv
<1>1. /\ outbox' = outbox /\ localCards' = localCards /\ cursor' = cursor
      /\ runStep' = runStep /\ held' = held
  BY DEF Phone!deviceVars, Phone!runVars
<1>2. /\ lastChange \in Nat /\ lastChange' \in Nat /\ lastChange <= lastChange'
      /\ cursor \in Nat /\ cursor <= lastChange
  BY DEF Phone!CardTypes, NumberInv, Written
<1>3. \A c \in Cards : changed[c] \in Nat /\ changed'[c] \in Nat /\ changed[c] <= lastChange
  BY DEF Phone!CardTypes, NumberInv, Written
<1>4. \A c \in Cards : changed'[c] <= lastChange'
  <2> TAKE c \in Cards
  <2> QED
    BY <1>2, <1>3 DEF Written
<1>5. runStep = "paged" => held \in Phone!CardPage /\ held.next \in Nat /\ held.next <= lastChange
  BY DEF PlaceInv, NumberInv, Phone!CardPage
<1>6. NumberInv'
  BY <1>1, <1>2, <1>4, <1>5 DEF NumberInv
<1>7. OutboxInv'
  BY <1>1 DEF OutboxInv
<1>8. PlaceInv'
  BY <1>1 DEF PlaceInv
<1>9. ReplyInv'
  <2> SUFFICES ASSUME runStep = "replied"
               PROVE  /\ held.applied \cap held.rejected = {}
                      /\ \A a \in held.applied : Settled(a)' /\ CardOf[a] \in held.cards
                      /\ \A a \in held.rejected : ~Phone!Acceptable(a)'
                      /\ \A c \in held.cards :
                            changed'[c] <= cursor => held.copies[c] = Phone!ServerCopy(c)'
    BY <1>1 DEF ReplyInv
  <2>1. held.applied \subseteq Answers /\ held.rejected \subseteq Answers /\ held.cards \subseteq Cards
    BY DEF PlaceInv, Phone!Reply
  <2>2. ASSUME NEW c \in held.cards, changed'[c] <= cursor
        PROVE  held.copies[c] = Phone!ServerCopy(c)'
    <3>1. changed'[c] = changed[c] /\ Phone!ServerCopy(c)' = Phone!ServerCopy(c)
      BY <1>2, <2>1, <2>2, Untouched
    <3> QED
      BY <2>2, <3>1 DEF ReplyInv
  <2> QED
    BY <2>1, <2>2 DEF ReplyInv
<1>10. CardPageInv'
  <2> SUFFICES ASSUME runStep = "paged", NEW c \in Cards, changed'[c] <= held.next
               PROVE  /\ \A e \in held.changes : e.card = c => e.copy = Phone!ServerCopy(c)'
                      /\ (\A e \in held.changes : e.card # c) => changed'[c] <= cursor
    BY <1>1 DEF CardPageInv
  <2>1. changed'[c] = changed[c] /\ Phone!ServerCopy(c)' = Phone!ServerCopy(c)
    BY <1>5, Untouched
  <2> QED
    BY <2>1 DEF CardPageInv
<1>11. Phone!CursorCovers'
  <2> SUFFICES ASSUME NEW c \in Cards, changed'[c] <= cursor,
                      Phone!For(c, Phone!Pending \cup Phone!Rejected) = {}
               PROVE  localCards[c] = Phone!ServerCopy(c)'
    BY <1>1 DEF Phone!CursorCovers, Phone!For, Phone!Pending, Phone!Rejected
  <2>1. changed'[c] = changed[c] /\ Phone!ServerCopy(c)' = Phone!ServerCopy(c)
    BY <1>2, Untouched
  <2> QED
    BY <2>1 DEF Phone!CursorCovers
<1> QED
  BY <1>6, <1>7, <1>8, <1>9, <1>10, <1>11
-----------------------------------------------------------------------------
(***************************************************************************)
(* The server's steps.                                                     *)
(***************************************************************************)

\* AnswerElsewhere keeps the invariant: the answer is not one of the device's.
LEMMA ElsewhereKeeps ==
    ASSUME DeviceInv, NEW a \in WebAnswers, Phone!AnswerElsewhere(a)
    PROVE  DeviceInv'
<1> USE DEF DeviceInv
<1>1. /\ {a} \in SUBSET Phone!AllAnswers /\ Phone!Accept({a})
      /\ UNCHANGED <<Phone!deviceVars, Phone!runVars, wire>>
  BY DEF Phone!AnswerElsewhere, Phone!AllAnswers
<1>2. /\ Written({CardOf[b] : b \in {a}})
      /\ ledger' = ledger \cup {a} /\ known' = known /\ carded' \subseteq Cards
  BY <1>1, AcceptWrites
<1>3. \A b \in Answers : Settled(b) => Settled(b)'
  BY <1>2 DEF Settled
<1>4. \A b \in Answers : Phone!Acceptable(b)' <=> Phone!Acceptable(b)
  BY <1>2 DEF Phone!Acceptable
<1>5. NumberInv' /\ OutboxInv' /\ ReplyInv' /\ CardPageInv' /\ Phone!CursorCovers' /\ PlaceInv'
  BY <1>1, <1>2, <1>3, <1>4, WritingKeeps
<1>6. Phone!CardTypes'
  BY <1>1, <1>2 DEF Phone!CardTypes, Written, Phone!AllAnswers, Phone!deviceVars, Phone!runVars
<1>7. LedgerInv'
  BY <1>2, <1>4, AnswersAssumption DEF LedgerInv
<1> QED
  BY <1>5, <1>6, <1>7

\* DeleteTranslation keeps the invariant: the card's answers leave with it.
LEMMA DeleteKeeps ==
    ASSUME DeviceInv, NEW d \in Deletable, Phone!DeleteTranslation(d)
    PROVE  DeviceInv'
<1> USE DEF DeviceInv
<1>1. UNCHANGED <<Phone!deviceVars, Phone!runVars, wire>>
  BY DEF Phone!DeleteTranslation
<1>2. /\ Written(IF d \in carded THEN {d} ELSE {})
      /\ ledger' = ledger \ Phone!For(d, ledger)
      /\ known' = known \ {d} /\ carded' \subseteq Cards
  BY DeleteWrites
<1>3. \A b \in Answers : Settled(b) => Settled(b)'
  BY <1>2 DEF Settled, Phone!For
<1>4. \A b \in Answers : ~Phone!Acceptable(b) => ~Phone!Acceptable(b)'
  BY <1>2 DEF Phone!Acceptable
<1>5. NumberInv' /\ OutboxInv' /\ ReplyInv' /\ CardPageInv' /\ Phone!CursorCovers' /\ PlaceInv'
  BY <1>1, <1>2, <1>3, <1>4, WritingKeeps
<1>6. Phone!CardTypes'
  BY <1>1, <1>2 DEF Phone!CardTypes, Written, Phone!deviceVars, Phone!runVars
<1>7. LedgerInv'
  BY <1>2 DEF LedgerInv, Phone!Acceptable, Phone!For
<1> QED
  BY <1>5, <1>6, <1>7

\* ReceiveUpload keeps the invariant, whether or not its run still waits: what
\* it accepts is acceptable, and the reply it makes is the server's state.
LEMMA ReceiveKeeps ==
    ASSUME DeviceInv, NEW u \in wire, Phone!ReceiveUpload(u)
    PROVE  DeviceInv'
<1> USE DEF DeviceInv
<1> DEFINE valid == {a \in u.batch : Phone!Acceptable(a)}
<1>1. u.batch \subseteq Answers /\ valid \subseteq Answers
  BY DEF Phone!CardTypes
<1>2. Phone!Accept(valid \ ledger) /\ UNCHANGED Phone!deviceVars /\ wire' = wire \ {u}
  BY DEF Phone!ReceiveUpload
<1>3. (valid \ ledger) \in SUBSET Phone!AllAnswers
  BY <1>1 DEF Phone!AllAnswers
<1> DEFINE S == {CardOf[a] : a \in valid \ ledger}
<1>4. /\ Written(S)
      /\ ledger' = ledger \cup (valid \ ledger)
      /\ known' = known /\ carded' \subseteq Cards
  BY <1>2, <1>3, AcceptWrites
<1>5. \A b \in Answers : Settled(b) => Settled(b)'
  BY <1>4 DEF Settled
<1>6. \A b \in Answers : Phone!Acceptable(b)' <=> Phone!Acceptable(b)
  BY <1>4 DEF Phone!Acceptable
<1>7. \A a \in valid : a \in ledger' /\ Phone!Acceptable(a)
  BY <1>4
<1>8. LedgerInv'
  BY <1>1, <1>4, <1>6, <1>7 DEF LedgerInv
<1>9. /\ ledger' \in SUBSET Phone!AllAnswers /\ known' \in SUBSET Cards /\ carded' \in SUBSET Cards
      /\ changed' \in [Cards -> Nat] /\ lastChange' \in Nat
      /\ wire' \in SUBSET [live : BOOLEAN, batch : SUBSET Answers]
  BY <1>2, <1>3, <1>4 DEF Phone!CardTypes, Written
<1>10. CASE ~u.live
  <2>1. UNCHANGED <<Phone!deviceVars, Phone!runVars>>
    BY <1>2, <1>10 DEF Phone!ReceiveUpload
  <2>2. NumberInv' /\ OutboxInv' /\ ReplyInv' /\ CardPageInv' /\ Phone!CursorCovers' /\ PlaceInv'
    BY <2>1, <1>4, <1>5, <1>6, WritingKeeps
  <2>3. Phone!CardTypes'
    BY <2>1, <1>9 DEF Phone!CardTypes, Phone!deviceVars, Phone!runVars
  <2> QED
    BY <1>8, <2>2, <2>3
<1>11. CASE u.live
  <2> DEFINE reply == [kind |-> "reply", applied |-> valid, rejected |-> u.batch \ valid,
                       cards |-> {CardOf[a] : a \in valid},
                       copies |-> [c \in Cards |-> Phone!ServerCopy(c)']]
  <2>1. runStep' = "replied" /\ held' = reply
    BY <1>11 DEF Phone!ReceiveUpload
  <2>2. outbox' = outbox /\ localCards' = localCards /\ cursor' = cursor /\ syncPhase' = syncPhase
    BY <1>2 DEF Phone!deviceVars
  <2>3. ASSUME NEW c \in Cards
        PROVE  Phone!ServerCopy(c)' \in Phone!Copy
    <3>1. Phone!For(c, ledger') \subseteq Phone!AllAnswers
      BY <1>9 DEF Phone!For
    <3> QED
      BY <3>1 DEF Phone!ServerCopy, Phone!NoCard, Phone!Copy
  <2>4. {CardOf[a] : a \in valid} \subseteq Cards
    BY <1>1, AnswersAssumption
  <2>5. reply \in Phone!Reply
    BY <1>1, <2>3, <2>4 DEF Phone!Reply
  <2>6. Phone!CardTypes'
    BY <1>9, <2>1, <2>2, <2>5 DEF Phone!CardTypes
  <2>7. PlaceInv'
    BY <2>1, <2>5 DEF PlaceInv
  <2>8. NumberInv'
    <3>1. cursor <= lastChange' /\ \A c \in Cards : changed'[c] <= lastChange'
      <4>1. /\ cursor \in Nat /\ lastChange \in Nat /\ lastChange' \in Nat
            /\ cursor <= lastChange /\ lastChange <= lastChange'
        BY <1>4 DEF Phone!CardTypes, NumberInv, Written
      <4>2. \A c \in Cards : changed[c] \in Nat /\ changed[c] <= lastChange
        BY DEF Phone!CardTypes, NumberInv
      <4> HIDE DEF S
      <4>3. ASSUME NEW c \in Cards PROVE changed'[c] <= lastChange'
        BY <1>4, <4>1, <4>2 DEF Written
      <4> QED
        BY <4>1, <4>3
    <3> QED
      BY <2>1, <2>2, <3>1 DEF NumberInv
  <2>9. OutboxInv'
    BY <1>5, <1>6, <2>2 DEF OutboxInv
  <2>10. ReplyInv'
    <3>1. /\ held'.applied = valid /\ held'.rejected = u.batch \ valid
          /\ held'.cards = {CardOf[a] : a \in valid}
          /\ held'.copies = [c \in Cards |-> Phone!ServerCopy(c)']
      BY <2>1
    <3>2. \A a \in held'.applied : Settled(a)' /\ CardOf[a] \in held'.cards
      BY <1>7, <3>1 DEF Settled
    <3>3. \A a \in held'.rejected : ~Phone!Acceptable(a)'
      BY <1>1, <1>6, <3>1
    <3>4. \A c \in held'.cards : held'.copies[c] = Phone!ServerCopy(c)'
      BY <2>4, <3>1
    <3>5. held'.applied \cap held'.rejected = {}
      BY <3>1
    <3> QED
      BY <3>2, <3>3, <3>4, <3>5 DEF ReplyInv
  <2>11. CardPageInv'
    BY <2>1 DEF CardPageInv
  <2>12. Phone!CursorCovers'
    <3> SUFFICES ASSUME NEW c \in Cards, changed'[c] <= cursor,
                        Phone!For(c, Phone!Pending \cup Phone!Rejected) = {}
                 PROVE  localCards[c] = Phone!ServerCopy(c)'
      BY <2>2 DEF Phone!CursorCovers, Phone!For, Phone!Pending, Phone!Rejected
    <3>1. cursor \in Nat /\ cursor <= lastChange
      BY DEF Phone!CardTypes, NumberInv
    <3>2. changed'[c] = changed[c] /\ Phone!ServerCopy(c)' = Phone!ServerCopy(c)
      BY <1>4, <3>1, Untouched
    <3> QED
      BY <3>2 DEF Phone!CursorCovers
  <2> QED
    BY <1>8, <2>6, <2>7, <2>8, <2>9, <2>10, <2>11, <2>12
<1>12. u.live \in BOOLEAN
  BY DEF Phone!CardTypes
<1> QED
  BY <1>10, <1>11, <1>12

\* Serving a page takes the changed cards from the lowest number on: a change
\* at or below the position the page moves to is of a card of the page.
LEMMA ServedFromBelow ==
    ASSUME Phone!CardTypes,
           NEW p \in Phone!Changes, NEW c \in Phone!Changes, changed[c] <= changed[p],
           Cardinality({d \in Phone!Changes : changed[d] <= changed[p]}) <= CardLimit
    PROVE  Cardinality({d \in Phone!Changes : changed[d] <= changed[c]}) <= CardLimit
<1> DEFINE P == {d \in Phone!Changes : changed[d] <= changed[p]}
           C == {d \in Phone!Changes : changed[d] <= changed[c]}
<1>1. \A d \in Phone!Changes : d \in Cards /\ changed[d] \in Nat
  BY DEF Phone!Changes, Phone!CardTypes
<1>2. C \in SUBSET P
  BY <1>1
<1>3. P \in SUBSET Cards /\ C \in SUBSET Cards
  BY <1>1
<1>4. IsFiniteSet(P) /\ Cardinality(P) \in Nat /\ Cardinality(C) \in Nat
  BY <1>3, SomeCards
<1>5. Cardinality(C) <= Cardinality(P)
  BY <1>2, <1>4, FS_Subset
<1>6. CardLimit \in Nat /\ Cardinality(P) <= CardLimit
  BY AnswersAssumption
<1> HIDE DEF P, C
<1>7. Cardinality(C) <= CardLimit
  BY <1>4, <1>5, <1>6
<1> QED
  BY <1>7 DEF C

\* ServePage keeps the invariant.
LEMMA ServeKeeps ==
    ASSUME DeviceInv, Phone!ServePage
    PROVE  DeviceInv'
<1> USE DEF DeviceInv
<1> DEFINE served == {c \in Phone!Changes :
                      Cardinality({d \in Phone!Changes : changed[d] <= changed[c]}) <= CardLimit}
           entries == {[seq |-> changed[c], card |-> c, copy |-> Phone!ServerCopy(c)] : c \in served}
<1>1. /\ runStep = "asked" /\ runStep' = "paged"
      /\ UNCHANGED <<Phone!deviceVars, wire, Phone!serverVars>>
  BY DEF Phone!ServePage
<1>2. PICK n \in {changed[c] : c \in served} \cup {cursor} :
         /\ \A c \in served : changed[c] <= n
         /\ held' = [kind |-> "page", next |-> n, more |-> served # Phone!Changes, changes |-> entries]
  BY SameCount DEF Phone!ServePage
<1>3. /\ outbox' = outbox /\ localCards' = localCards /\ cursor' = cursor /\ syncPhase' = syncPhase
      /\ wire' = wire /\ known' = known /\ carded' = carded /\ ledger' = ledger
      /\ changed' = changed /\ lastChange' = lastChange
  BY <1>1 DEF Phone!deviceVars, Phone!serverVars
<1>4. /\ \A c \in Cards : Phone!ServerCopy(c)' = Phone!ServerCopy(c)
      /\ \A a \in Answers : Settled(a)' <=> Settled(a)
      /\ \A a \in Answers : Phone!Acceptable(a)' <=> Phone!Acceptable(a)
  BY <1>1, ServerRests
<1>5. served \subseteq Phone!Changes /\ Phone!Changes \subseteq Cards
  BY DEF Phone!Changes
<1>6. n \in Nat /\ n <= lastChange
  BY <1>5 DEF Phone!CardTypes, NumberInv
<1>7. entries \subseteq Phone!Entry
  <2> SUFFICES ASSUME NEW c \in served
               PROVE  [seq |-> changed[c], card |-> c, copy |-> Phone!ServerCopy(c)] \in Phone!Entry
    OBVIOUS
  <2>1. c \in Cards /\ changed[c] \in Nat /\ Phone!ServerCopy(c) \in Phone!Copy
    BY <1>5, CopyTyped DEF Phone!CardTypes
  <2> QED
    BY <2>1 DEF Phone!Entry
<1>8. held' \in Phone!CardPage /\ held'.next = n /\ held'.changes = entries
  BY <1>2, <1>6, <1>7 DEF Phone!CardPage
<1>9. Phone!CardTypes'
  BY <1>1, <1>3, <1>8 DEF Phone!CardTypes
<1>10. PlaceInv'
  BY <1>1, <1>8 DEF PlaceInv
<1>11. NumberInv'
  BY <1>3, <1>6, <1>8 DEF NumberInv
<1>12. LedgerInv' /\ OutboxInv'
  BY <1>3, <1>4 DEF LedgerInv, OutboxInv
<1>13. ReplyInv'
  BY <1>1 DEF ReplyInv
<1>14. Phone!CursorCovers'
  BY <1>3, <1>4 DEF Phone!CursorCovers, Phone!For, Phone!Pending, Phone!Rejected
<1>15. CardPageInv'
  <2> SUFFICES ASSUME NEW c \in Cards, changed[c] <= n
               PROVE  /\ \A e \in entries : e.card = c => e.copy = Phone!ServerCopy(c)
                      /\ (\A e \in entries : e.card # c) => changed[c] <= cursor
    BY <1>3, <1>4, <1>8 DEF CardPageInv
  <2>1. ASSUME NEW e \in entries, e.card = c
        PROVE  e.copy = Phone!ServerCopy(c)
    <3> HIDE DEF served
    <3>1. PICK d \in served : e = [seq |-> changed[d], card |-> d, copy |-> Phone!ServerCopy(d)]
      OBVIOUS
    <3> QED
      BY <2>1, <3>1
  <2>2. ASSUME ~(changed[c] <= cursor)
        PROVE  \E e \in entries : e.card = c
    <3>1. changed[c] \in Nat /\ cursor \in Nat
      BY DEF Phone!CardTypes
    <3>2. c \in Phone!Changes
      BY <2>2, <3>1 DEF Phone!Changes
    <3>3. PICK p \in served : n = changed[p]
      BY <1>2, <2>2
    <3>4. /\ p \in Phone!Changes /\ changed[c] <= changed[p]
          /\ Cardinality({d \in Phone!Changes : changed[d] <= changed[p]}) <= CardLimit
      BY <3>3
    <3>5. Cardinality({d \in Phone!Changes : changed[d] <= changed[c]}) <= CardLimit
      BY <3>2, <3>4, ServedFromBelow
    <3>6. c \in served
      BY <3>2, <3>5
    <3> DEFINE mine == [seq |-> changed[c], card |-> c, copy |-> Phone!ServerCopy(c)]
    <3> HIDE DEF served
    <3>7. mine \in entries /\ mine.card = c
      BY <3>6
    <3> QED
      BY <3>7
  <2> QED
    BY <2>1, <2>2
<1> QED
  BY <1>9, <1>10, <1>11, <1>12, <1>13, <1>14, <1>15
-----------------------------------------------------------------------------
(***************************************************************************)
(* The device's and the run's steps.                                       *)
(***************************************************************************)

\* The invariant where only the run's place, its phase and the wire change, and
\* the run does not come to hold a reply or a page.
LEMMA MovingKeeps ==
    ASSUME DeviceInv, UNCHANGED <<outbox, localCards, cursor, Phone!serverVars>>,
           runStep' \notin {"replied", "paged"},
           Phone!CardTypes'
    PROVE  DeviceInv'
<1> USE DEF DeviceInv
<1>1. /\ \A c \in Cards : Phone!ServerCopy(c)' = Phone!ServerCopy(c)
      /\ \A a \in Answers : Settled(a)' <=> Settled(a)
      /\ \A a \in Answers : Phone!Acceptable(a)' <=> Phone!Acceptable(a)
  BY ServerRests
<1>2. PlaceInv' /\ ReplyInv' /\ CardPageInv'
  BY DEF PlaceInv, ReplyInv, CardPageInv
<1>3. NumberInv'
  BY DEF NumberInv, Phone!serverVars
<1>4. LedgerInv' /\ OutboxInv'
  BY <1>1 DEF LedgerInv, OutboxInv, Phone!serverVars
<1>5. Phone!CursorCovers'
  BY <1>1 DEF Phone!CursorCovers, Phone!For, Phone!Pending, Phone!Rejected, Phone!serverVars
<1> QED
  BY <1>2, <1>3, <1>4, <1>5

\* A run that ends holds nothing, and its uploads are on their own.
LEMMA EndTyped ==
    ASSUME Phone!CardTypes, Phone!End, UNCHANGED <<Phone!deviceVars, Phone!serverVars>>
    PROVE  Phone!CardTypes'
<1>1. runStep' = "off" /\ held' = Phone!Nothing
  BY DEF Phone!End
<1>2. wire' \subseteq [live : BOOLEAN, batch : SUBSET Answers]
  <2>1. \A u \in wire : [u EXCEPT !.live = FALSE] \in [live : BOOLEAN, batch : SUBSET Answers]
    BY DEF Phone!CardTypes
  <2> QED
    BY <2>1 DEF Phone!End
<1> QED
  BY <1>1, <1>2 DEF Phone!CardTypes, Phone!deviceVars, Phone!serverVars

\* The steps that move a run along, start it or end it.
LEMMA RunMoves ==
    ASSUME DeviceInv,
           Phone!Start \/ Phone!Advance \/ Phone!SendBatch \/ Phone!AskCards \/ Phone!Stop
           \/ (Phone!ApplyPage /\ Phone!Blocked)
    PROVE  DeviceInv'
<1> USE DEF DeviceInv
<1>1. CASE Phone!Start
  <2>1. Phone!CardTypes'
    BY <1>1 DEF Phone!Start, Phone!CardTypes, Phone!deviceVars, Phone!serverVars
  <2> QED
    BY <1>1, <2>1, MovingKeeps DEF Phone!Start, Phone!deviceVars
<1>2. CASE Phone!Advance
  <2>1. syncPhase' \in Phone!Phases /\ runStep' \in {"on", "off"}
    BY <1>2 DEF Phone!Advance, Phone!PhaseAfter, Phone!Phases, Phone!CardTypes
  <2>2. Phone!CardTypes'
    BY <1>2, <2>1 DEF Phone!Advance, Phone!CardTypes, Phone!serverVars
  <2> QED
    BY <1>2, <2>1, <2>2, MovingKeeps DEF Phone!Advance
<1>3. CASE Phone!SendBatch
  <2>1. Phone!Oldest(Phone!Pending) \subseteq Answers
    BY DEF Phone!Oldest, Phone!Pending
  <2>2. held' \in Phone!Batch /\ wire' \subseteq [live : BOOLEAN, batch : SUBSET Answers]
    <3>1. [kind |-> "batch", batch |-> Phone!Oldest(Phone!Pending)] \in Phone!Batch
      BY <2>1 DEF Phone!Batch
    <3>2. [live |-> TRUE, batch |-> Phone!Oldest(Phone!Pending)] \in [live : BOOLEAN, batch : SUBSET Answers]
      BY <2>1
    <3> QED
      BY <1>3, <3>1, <3>2 DEF Phone!SendBatch, Phone!CardTypes
  <2>3. runStep' = "sent" /\ UNCHANGED <<Phone!deviceVars, Phone!serverVars>>
    BY <1>3 DEF Phone!SendBatch
  <2>4. Phone!CardTypes'
    BY <2>2, <2>3 DEF Phone!CardTypes, Phone!deviceVars, Phone!serverVars
  <2> QED
    BY <2>3, <2>4, MovingKeeps DEF Phone!deviceVars
<1>4. CASE Phone!AskCards
  <2>1. Phone!CardTypes'
    BY <1>4 DEF Phone!AskCards, Phone!CardTypes, Phone!deviceVars, Phone!serverVars
  <2> QED
    BY <1>4, <2>1, MovingKeeps DEF Phone!AskCards, Phone!deviceVars
<1>5. CASE Phone!Stop \/ (Phone!ApplyPage /\ Phone!Blocked)
  <2>1. Phone!End /\ UNCHANGED <<Phone!deviceVars, Phone!serverVars>>
    BY <1>5 DEF Phone!Stop, Phone!ApplyPage
  <2>2. Phone!CardTypes'
    BY <2>1, EndTyped
  <2> QED
    BY <2>1, <2>2, MovingKeeps DEF Phone!End, Phone!deviceVars
<1> QED
  BY <1>1, <1>2, <1>3, <1>4, <1>5

\* Answer keeps the invariant: the answered card is the device's own guess until
\* the answer is settled.
LEMMA AnswerKeeps ==
    ASSUME DeviceInv, NEW a \in Answers, Phone!Answer(a)
    PROVE  DeviceInv'
<1> USE DEF DeviceInv
<1>1. /\ outbox[a] = "none" /\ outbox' = [outbox EXCEPT ![a] = "pending"]
      /\ localCards' = [localCards EXCEPT ![CardOf[a]] =
                     [answers |-> @.answers \cup {a}, guess |-> TRUE, exists |-> TRUE]]
      /\ cursor' = cursor /\ syncPhase' = syncPhase /\ runStep' = runStep /\ held' = held /\ wire' = wire
      /\ UNCHANGED Phone!serverVars
  BY DEF Phone!Answer, Phone!runVars
<1>2. CardOf[a] \in Cards
  BY AnswersAssumption
<1>3. /\ \A c \in Cards : Phone!ServerCopy(c)' = Phone!ServerCopy(c)
      /\ \A b \in Answers : Settled(b)' <=> Settled(b)
      /\ \A b \in Answers : Phone!Acceptable(b)' <=> Phone!Acceptable(b)
  BY <1>1, ServerRests
<1>4. Phone!CardTypes'
  <2>1. localCards' \in [Cards -> Phone!Copy]
    <3>1. localCards[CardOf[a]] \in Phone!Copy
      BY <1>2 DEF Phone!CardTypes
    <3>2. [answers |-> localCards[CardOf[a]].answers \cup {a}, guess |-> TRUE, exists |-> TRUE] \in Phone!Copy
      BY <3>1 DEF Phone!Copy, Phone!AllAnswers
    <3> QED
      BY <1>1, <1>2, <3>2 DEF Phone!CardTypes
  <2>2. outbox' \in [Answers -> {"none", "pending", "applied", "rejected"}]
    BY <1>1 DEF Phone!CardTypes
  <2> QED
    BY <1>1, <2>1, <2>2 DEF Phone!CardTypes, Phone!serverVars
<1>5. PlaceInv' /\ NumberInv'
  BY <1>1 DEF PlaceInv, NumberInv, Phone!serverVars
<1>6. LedgerInv'
  BY <1>1, <1>3 DEF LedgerInv, Phone!serverVars
<1>7. OutboxInv'
  <2> SUFFICES ASSUME NEW b \in Answers
               PROVE  /\ outbox'[b] = "applied" => Settled(b)
                      /\ outbox'[b] = "rejected" => ~Phone!Acceptable(b)
    BY <1>3 DEF OutboxInv
  <2>1. outbox'[b] = IF b = a THEN "pending" ELSE outbox[b]
    BY <1>1 DEF Phone!CardTypes
  <2> QED
    BY <2>1 DEF OutboxInv
<1>8. ReplyInv' /\ CardPageInv'
  <2>1. changed' = changed
    BY <1>1 DEF Phone!serverVars
  <2>2. runStep = "replied" => /\ held.applied \subseteq Answers /\ held.rejected \subseteq Answers
                               /\ held.cards \subseteq Cards
    BY DEF PlaceInv, Phone!Reply
  <2>3. ReplyInv'
    BY <1>1, <1>3, <2>1, <2>2 DEF ReplyInv
  <2>4. CardPageInv'
    BY <1>1, <1>3, <2>1 DEF CardPageInv
  <2> QED
    BY <2>3, <2>4
<1>9. Phone!CursorCovers'
  <2> SUFFICES ASSUME NEW c \in Cards, changed[c] <= cursor,
                      Phone!For(c, Phone!Pending \cup Phone!Rejected)' = {}
               PROVE  localCards'[c] = Phone!ServerCopy(c)
    BY <1>1, <1>3 DEF Phone!CursorCovers, Phone!serverVars
  <2>1. outbox'[a] = "pending"
    BY <1>1 DEF Phone!CardTypes
  <2>2. c # CardOf[a]
    BY <2>1 DEF Phone!For, Phone!Pending
  <2>3. localCards'[c] = localCards[c]
    BY <1>1, <1>2, <2>2 DEF Phone!CardTypes
  <2>4. \A b \in Answers : b # a => outbox'[b] = outbox[b]
    BY <1>1 DEF Phone!CardTypes
  <2>5. Phone!For(c, Phone!Pending \cup Phone!Rejected) = {}
    BY <2>2, <2>4 DEF Phone!For, Phone!Pending, Phone!Rejected
  <2> QED
    BY <2>3, <2>5 DEF Phone!CursorCovers
<1> QED
  BY <1>4, <1>5, <1>6, <1>7, <1>8, <1>9
-----------------------------------------------------------------------------
\* ApplyReply keeps the invariant: an answer it settles is settled as the server
\* has it, and the cards it brings are the server's.
LEMMA ApplyReplyKeeps ==
    ASSUME DeviceInv, Phone!ApplyReply
    PROVE  DeviceInv'
<1> USE DEF DeviceInv
<1>1. /\ runStep = "replied" /\ runStep' = "on" /\ held' = Phone!Nothing
      /\ outbox' = [a \in Answers |-> Phone!Acknowledged(a)]
      /\ localCards' = [c \in Cards |-> IF c \in held.cards THEN held.copies[c] ELSE localCards[c]]
      /\ cursor' = cursor /\ syncPhase' = syncPhase /\ wire' = wire /\ UNCHANGED Phone!serverVars
  BY DEF Phone!ApplyReply
<1>2. /\ held \in Phone!Reply /\ held.cards \subseteq Cards
      /\ held.copies \in [Cards -> Phone!Copy]
  BY <1>1 DEF PlaceInv, Phone!Reply
<1>3. /\ \A c \in Cards : Phone!ServerCopy(c)' = Phone!ServerCopy(c)
      /\ \A a \in Answers : Settled(a)' <=> Settled(a)
      /\ \A a \in Answers : Phone!Acceptable(a)' <=> Phone!Acceptable(a)
  BY <1>1, ServerRests
<1>4. /\ held.applied \cap held.rejected = {}
      /\ \A a \in held.applied : Settled(a) /\ CardOf[a] \in held.cards
      /\ \A a \in held.rejected : ~Phone!Acceptable(a)
      /\ \A c \in held.cards : changed[c] <= cursor => held.copies[c] = Phone!ServerCopy(c)
  BY <1>1 DEF ReplyInv
<1>5. \A a \in Answers : outbox'[a] = IF a \in held.applied THEN "applied"
                                      ELSE IF a \in held.rejected THEN "rejected"
                                      ELSE outbox[a]
  <2> TAKE a \in Answers
  <2>1. outbox'[a] = Phone!Acknowledged(a)
    BY <1>1
  <2>2. CASE a \in held.applied
    BY <2>1, <2>2, <1>4 DEF Phone!Acknowledged
  <2>3. CASE a \notin held.applied /\ a \in held.rejected
    BY <2>1, <2>3 DEF Phone!Acknowledged
  <2>4. CASE a \notin held.applied /\ a \notin held.rejected
    BY <2>1, <2>4 DEF Phone!Acknowledged
  <2> QED
    BY <2>2, <2>3, <2>4
<1>6. Phone!CardTypes'
  <2>1. outbox' \in [Answers -> {"none", "pending", "applied", "rejected"}]
    <3>1. \A a \in Answers : outbox'[a] \in {"none", "pending", "applied", "rejected"}
      BY <1>5 DEF Phone!CardTypes
    <3> QED
      BY <1>1, <3>1
  <2>2. localCards' \in [Cards -> Phone!Copy]
    BY <1>1, <1>2 DEF Phone!CardTypes
  <2> QED
    BY <1>1, <2>1, <2>2 DEF Phone!CardTypes, Phone!serverVars
<1>7. PlaceInv' /\ ReplyInv' /\ CardPageInv'
  BY <1>1 DEF PlaceInv, ReplyInv, CardPageInv
<1>8. NumberInv'
  BY <1>1 DEF NumberInv, Phone!serverVars
<1>9. LedgerInv'
  BY <1>1, <1>3 DEF LedgerInv, Phone!serverVars
<1>10. OutboxInv'
  <2> SUFFICES ASSUME NEW a \in Answers
               PROVE  /\ outbox'[a] = "applied" => Settled(a)
                      /\ outbox'[a] = "rejected" => ~Phone!Acceptable(a)
    BY <1>3 DEF OutboxInv
  <2> QED
    BY <1>4, <1>5 DEF OutboxInv
<1>11. Phone!CursorCovers'
  <2> SUFFICES ASSUME NEW c \in Cards, changed[c] <= cursor,
                      Phone!For(c, Phone!Pending \cup Phone!Rejected)' = {}
               PROVE  localCards'[c] = Phone!ServerCopy(c)
    BY <1>1, <1>3 DEF Phone!CursorCovers, Phone!serverVars
  <2>1. CASE c \in held.cards
    BY <1>1, <1>4, <2>1
  <2>2. CASE c \notin held.cards
    <3>1. Phone!For(c, Phone!Pending \cup Phone!Rejected) = {}
      <4> SUFFICES ASSUME NEW a \in Answers, CardOf[a] = c, outbox[a] \in {"pending", "rejected"}
                   PROVE  FALSE
        BY DEF Phone!For, Phone!Pending, Phone!Rejected
      <4>1. a \notin held.applied
        BY <1>4, <2>2
      <4>2. outbox'[a] \in {"pending", "rejected"}
        BY <1>5, <4>1
      <4> QED
        BY <4>2 DEF Phone!For, Phone!Pending, Phone!Rejected
    <3>2. localCards'[c] = localCards[c]
      BY <1>1, <2>2
    <3> QED
      BY <3>1, <3>2 DEF Phone!CursorCovers
  <2> QED
    BY <2>1, <2>2
<1> QED
  BY <1>6, <1>7, <1>8, <1>9, <1>10, <1>11

\* ApplyPage keeps the invariant where no pending answer stops it: the position
\* moves only over cards the page brings or the device already has.
LEMMA ApplyPageKeeps ==
    ASSUME DeviceInv, Phone!ApplyPage, ~Phone!Blocked
    PROVE  DeviceInv'
<1> USE DEF DeviceInv
<1>1. /\ runStep = "paged" /\ runStep' \in {"on", "pulled"} /\ held' = Phone!Nothing
      /\ localCards' = [c \in Cards |-> Phone!LocalAfterPage(c)]
      /\ cursor' = held.next
      /\ outbox' = outbox /\ syncPhase' = syncPhase /\ wire' = wire /\ UNCHANGED Phone!serverVars
  BY DEF Phone!ApplyPage
<1>2. held.next \in Nat /\ held.next <= lastChange /\ held.changes \subseteq Phone!Entry
  BY <1>1 DEF PlaceInv, NumberInv, Phone!CardPage
<1>3. /\ \A c \in Cards : Phone!ServerCopy(c)' = Phone!ServerCopy(c)
      /\ \A a \in Answers : Settled(a)' <=> Settled(a)
      /\ \A a \in Answers : Phone!Acceptable(a)' <=> Phone!Acceptable(a)
  BY <1>1, ServerRests
<1>4. ASSUME NEW c \in Cards
      PROVE  \/ \E e \in held.changes : e.card = c /\ Phone!LocalAfterPage(c) = e.copy
             \/ (\A e \in held.changes : e.card # c) /\ Phone!LocalAfterPage(c) = localCards[c]
  BY DEF Phone!LocalAfterPage
<1>5. Phone!CardTypes'
  <2>1. \A c \in Cards : Phone!LocalAfterPage(c) \in Phone!Copy
    BY <1>2, <1>4 DEF Phone!Entry, Phone!CardTypes
  <2> QED
    BY <1>1, <1>2, <2>1 DEF Phone!CardTypes, Phone!serverVars
<1>6. PlaceInv' /\ ReplyInv' /\ CardPageInv'
  BY <1>1 DEF PlaceInv, ReplyInv, CardPageInv
<1>7. NumberInv'
  BY <1>1, <1>2 DEF NumberInv, Phone!serverVars
<1>8. LedgerInv' /\ OutboxInv'
  BY <1>1, <1>3 DEF LedgerInv, OutboxInv, Phone!serverVars
<1>9. Phone!CursorCovers'
  <2> SUFFICES ASSUME NEW c \in Cards, changed[c] <= held.next,
                      Phone!For(c, Phone!Pending \cup Phone!Rejected) = {}
               PROVE  localCards'[c] = Phone!ServerCopy(c)
    BY <1>1, <1>3 DEF Phone!CursorCovers, Phone!serverVars, Phone!For, Phone!Pending, Phone!Rejected
  <2>1. /\ \A e \in held.changes : e.card = c => e.copy = Phone!ServerCopy(c)
        /\ (\A e \in held.changes : e.card # c) => changed[c] <= cursor
    BY <1>1 DEF CardPageInv
  <2>2. localCards'[c] = Phone!LocalAfterPage(c)
    BY <1>1
  <2> QED
    BY <1>4, <2>1, <2>2 DEF Phone!CursorCovers
<1> QED
  BY <1>5, <1>6, <1>7, <1>8, <1>9
-----------------------------------------------------------------------------
\* The inductive invariant holds of every behaviour.
THEOREM DeviceInvariant == SpecAll => []DeviceInv
<1>1. Phone!Init => DeviceInv
  <2> SUFFICES ASSUME Phone!Init
               PROVE  DeviceInv
    OBVIOUS
  <2>1. Phone!CardTypes
    BY DEF Phone!Init, Phone!CardTypes, Phone!NoCard, Phone!Copy, Phone!Phases
  <2>2. PlaceInv /\ NumberInv /\ LedgerInv /\ OutboxInv /\ ReplyInv /\ CardPageInv
    BY DEF Phone!Init, PlaceInv, NumberInv, LedgerInv, OutboxInv, ReplyInv, CardPageInv
  <2>3. Phone!CursorCovers
    BY DEF Phone!Init, Phone!CursorCovers, Phone!ServerCopy
  <2> QED
    BY <2>1, <2>2, <2>3 DEF DeviceInv
<1>2. DeviceInv /\ [Phone!Next]_(Phone!vars) => DeviceInv'
  <2> SUFFICES ASSUME DeviceInv, [Phone!Next]_(Phone!vars)
               PROVE  DeviceInv'
    OBVIOUS
  <2>1. CASE \E a \in Answers : Phone!Answer(a)
    BY <2>1, AnswerKeeps
  <2>2. CASE Phone!Start \/ Phone!Advance \/ Phone!SendBatch \/ Phone!AskCards \/ Phone!Stop
    BY <2>2, RunMoves
  <2>3. CASE Phone!ApplyReply
    BY <2>3, ApplyReplyKeeps
  <2>4. CASE Phone!ApplyPage
    BY <2>4, RunMoves, ApplyPageKeeps
  <2>5. CASE \E u \in wire : Phone!ReceiveUpload(u)
    BY <2>5, ReceiveKeeps
  <2>6. CASE Phone!ServePage
    BY <2>6, ServeKeeps
  <2>7. CASE \E a \in WebAnswers : Phone!AnswerElsewhere(a)
    BY <2>7, ElsewhereKeeps
  <2>8. CASE \E c \in Deletable : Phone!DeleteTranslation(c)
    BY <2>8, DeleteKeeps
  <2>9. CASE UNCHANGED Phone!vars
    <3>1. /\ Phone!CardTypes' <=> Phone!CardTypes
          /\ PlaceInv' <=> PlaceInv
          /\ NumberInv' <=> NumberInv
          /\ LedgerInv' <=> LedgerInv
          /\ OutboxInv' <=> OutboxInv
      BY <2>9 DEF Phone!vars, Phone!CardTypes, PlaceInv, NumberInv, LedgerInv, OutboxInv,
                  Settled, Phone!Acceptable
    <3>2. \A c \in Cards : Phone!ServerCopy(c)' = Phone!ServerCopy(c)
      BY <2>9, ServerRests DEF Phone!vars, Phone!serverVars
    <3>3. ReplyInv'
      BY <2>9, <3>2 DEF Phone!vars, DeviceInv, PlaceInv, Phone!Reply, ReplyInv, Settled,
                        Phone!Acceptable
    <3>4. CardPageInv' /\ Phone!CursorCovers'
      BY <2>9, <3>2 DEF Phone!vars, DeviceInv, CardPageInv, Phone!CursorCovers, Phone!For,
                        Phone!Pending, Phone!Rejected
    <3> QED
      BY <3>1, <3>3, <3>4 DEF DeviceInv
  <2> QED
    BY <2>1, <2>2, <2>3, <2>4, <2>5, <2>6, <2>7, <2>8, <2>9 DEF Phone!Next, Phone!Run, Phone!Server
<1> QED
  BY <1>1, <1>2, SceneSteps, PTL DEF SpecAll, InitAll

\* The device never misreports an answer or a card (storage/learning.rs,
\* storage/corpus.rs): the state is of its types, the outbox and the cursor are
\* truthful.
THEOREM DeviceTruthful == SpecAll => []CardsTruthful
<1>1. DeviceInv => CardTypes
  BY DEF DeviceInv, Phone!CardTypes, CardTypes, Phone!Copy, Copy, Phone!AllAnswers, AllAnswers,
         Phone!Phases, Phases, Phone!Nothing, Nothing, Phone!Batch, Batch, Phone!Reply, Reply,
         Phone!CardPage, CardPage, Phone!Entry, Entry
<1>2. DeviceInv => OutboxTruthful
  BY DEF DeviceInv, OutboxInv, LedgerInv, OutboxTruthful, Settled, Phone!Acceptable
<1>3. DeviceInv => CursorCovers
  BY DEF DeviceInv, Phone!CursorCovers, CursorCovers, Phone!For, For, Phone!Pending, Pending,
         Phone!Rejected, Rejected, Phone!ServerCopy, ServerCopy, Phone!NoCard, NoCard
<1> QED
  BY <1>1, <1>2, <1>3, DeviceInvariant, PTL DEF CardsTruthful
=============================================================================
