--------------------------- MODULE PhraseMineProofs ---------------------------
(***************************************************************************)
(* Proofs about PhraseMine, for any corpus, any number of workers and      *)
(* every size of a page.                                                   *)
(***************************************************************************)
EXTENDS PhraseMine, TLAPS, WellFoundedInduction, FiniteSetTheorems

\* Every nonempty set of naturals has a least element.
LEMMA LeastExists ==
    ASSUME NEW T, T \subseteq Nat, T # {}
    PROVE  \E x \in T : \A y \in T : x <= y
<1>1. PICK x \in T : \A y \in T : <<y, x>> \notin OpToRel(<, Nat)
  BY NatLessThanWellFounded, WFMin
<1>2. ASSUME NEW y \in T
      PROVE  x <= y
  <2>1. <<y, x>> \notin {p \in Nat \X Nat : p[1] < p[2]}
    BY <1>1, <1>2 DEF OpToRel
  <2>2. x \in Nat /\ y \in Nat
    OBVIOUS
  <2> QED
    BY <2>1, <2>2
<1> QED
  BY <1>2

\* Every nonempty finite set of naturals has a greatest element: a smallest
\* set without one would lose its only candidate with any of its elements.
LEMMA GreatestOfFinite ==
    ASSUME NEW S, S \subseteq Nat, IsFiniteSet(S), S # {}
    PROVE  \E m \in S : \A n \in S : n <= m
<1> DEFINE HasGreatest(A) == \E m \in A : \A n \in A : n <= m
           Bad == {A \in SUBSET S : A # {} /\ ~HasGreatest(A)}
<1> SUFFICES Bad = {}
  OBVIOUS
<1> SUFFICES ASSUME Bad # {}
             PROVE  FALSE
  OBVIOUS
<1>1. IsWellFoundedOn(StrictSubsetOrdering(S), SUBSET S)
  BY FS_StrictSubsetOrderingWellFounded, FS_FiniteSubsetsOfFinite
<1>2. PICK A \in Bad : \A B \in Bad : <<B, A>> \notin StrictSubsetOrdering(S)
  <2>1. Bad \subseteq SUBSET S
    OBVIOUS
  <2> HIDE DEF Bad
  <2> QED
    BY <1>1, <2>1, WFMin
<1>3. PICK x \in A : TRUE
  BY <1>2
<1>4. CASE A \ {x} = {}
  <2>1. \A n \in A : n = x
    BY <1>4
  <2>2. x \in Nat
    BY <1>2, <1>3
  <2>3. HasGreatest(A)
    BY <2>1, <2>2, <1>3
  <2> QED
    BY <2>3, <1>2
<1>5. CASE A \ {x} # {}
  <2>1. A \ {x} \notin Bad
    <3>1. <<A \ {x}, A>> \in StrictSubsetOrdering(S)
      BY <1>2, <1>3 DEF StrictSubsetOrdering
    <3> QED
      BY <3>1, <1>2
  <2>2. PICK y \in A \ {x} : \A n \in A \ {x} : n <= y
    BY <2>1, <1>2, <1>5
  <2>3. x \in Nat /\ y \in Nat /\ A \subseteq Nat
    BY <1>2, <1>3
  <2>4. HasGreatest(A)
    <3>1. CASE x <= y
      BY <3>1, <2>2
    <3>2. CASE y <= x
      <4>1. \A n \in A : n <= x
        BY <3>2, <2>2, <2>3
      <4> QED
        BY <4>1, <1>3
    <3> QED
      BY <3>1, <3>2, <2>3
  <2> QED
    BY <2>4, <1>2
<1> QED
  BY <1>4, <1>5

\* A tally is a number, of the empty set 0, and adds up over sets apart.
LEMMA TallyFacts ==
    ASSUME NEW p
    PROVE  /\ \A set \in SUBSET Surfaces : Tally(set, p) \in Nat
           /\ Tally({}, p) = 0
           /\ \A left, right \in SUBSET Surfaces :
                left \cap right = {} =>
                   Tally(left \cup right, p) = Tally(left, p) + Tally(right, p)
<1> DEFINE In(set) == {s \in set : p \in PhrasesOf[s]}
<1>1. ASSUME NEW set \in SUBSET Surfaces
      PROVE  IsFiniteSet(In(set)) /\ Cardinality(In(set)) \in Nat
  <2>1. In(set) \in SUBSET Surfaces
    OBVIOUS
  <2> HIDE DEF In
  <2> QED
    BY <2>1, MineAssumption, FS_Subset, FS_CardinalityType
<1>2. Tally({}, p) = 0
  <2>1. In({}) = {}
    OBVIOUS
  <2> QED
    BY <2>1, FS_EmptySet DEF Tally
<1>3. ASSUME NEW left \in SUBSET Surfaces, NEW right \in SUBSET Surfaces, left \cap right = {}
      PROVE  Tally(left \cup right, p) = Tally(left, p) + Tally(right, p)
  <2>1. In(left \cup right) = In(left) \cup In(right) /\ In(left) \cap In(right) = {}
    BY <1>3
  <2>2. /\ IsFiniteSet(In(left)) /\ IsFiniteSet(In(right))
        /\ Cardinality(In(left)) \in Nat /\ Cardinality(In(right)) \in Nat
    BY <1>1
  <2>3. Tally(left, p) = Cardinality(In(left)) /\ Tally(right, p) = Cardinality(In(right))
        /\ Tally(left \cup right, p) = Cardinality(In(left \cup right))
    BY DEF Tally
  <2> HIDE DEF In
  <2>4. Cardinality(In(left) \cup In(right))
          = Cardinality(In(left)) + Cardinality(In(right)) - Cardinality(In(left) \cap In(right))
    BY <2>2, FS_Union
  <2>5. Cardinality(In(left) \cap In(right)) = 0
    BY <2>1, FS_EmptySet
  <2>6. Cardinality(In(left \cup right)) = Cardinality(In(left) \cup In(right))
    BY <2>1
  <2>7. Cardinality(In(left \cup right)) = Cardinality(In(left)) + Cardinality(In(right))
    BY <2>2, <2>4, <2>5, <2>6
  <2> QED
    BY <2>3, <2>7
<1>4. \A set \in SUBSET Surfaces : Tally(set, p) \in Nat
  BY <1>1 DEF Tally
<1> QED
  BY <1>2, <1>3, <1>4

\* The last surface of a page, or the place where an empty one began.
LEMMA LastFacts ==
    ASSUME NEW set \in SUBSET Surfaces, NEW from \in Nat
    PROVE  /\ Last(set, from) \in Nat
           /\ set = {} => Last(set, from) = from
           /\ set # {} => Last(set, from) \in set /\ \A s \in set : s <= Last(set, from)
<1>1. CASE set = {}
  BY <1>1 DEF Last
<1>2. CASE set # {}
  <2>1. set \subseteq Nat /\ IsFiniteSet(set)
    BY MineAssumption, FS_Subset
  <2>2. \E s \in set : \A r \in set : r <= s
    BY <1>2, <2>1, GreatestOfFinite
  <2> QED
    BY <1>2, <2>1, <2>2 DEF Last
<1> QED
  BY <1>1, <1>2

\* A page has every surface between the place where it begins and its last one,
\* and an empty page has nothing above it.
LEMMA PageFacts ==
    ASSUME TypeOK, NEW c \in Nat
    PROVE  /\ PageAbove(c) \subseteq evidence /\ PageAbove(c) \in SUBSET Surfaces
           /\ \A s \in PageAbove(c) : s > c
           /\ \A s \in PageAbove(c) : \A r \in evidence : c < r /\ r <= s => r \in PageAbove(c)
           /\ PageAbove(c) = {} => \A s \in evidence : s <= c
<1> DEFINE Between(s) == {r \in evidence : c < r /\ r <= s}
<1>1. /\ evidence \subseteq Surfaces /\ IsFiniteSet(evidence)
      /\ evidence \subseteq Nat /\ \A s \in evidence : s \in Nat
  BY MineAssumption, FS_Subset DEF TypeOK, Checksums
<1>2. \A s : Between(s) \subseteq evidence /\ IsFiniteSet(Between(s))
  BY <1>1, FS_Subset
<1>3. PageAbove(c) = {s \in evidence : s > c /\ Cardinality(Between(s)) <= PageSize}
  BY DEF PageAbove
<1>4. ASSUME NEW s \in PageAbove(c), NEW r \in evidence, c < r, r <= s
      PROVE  r \in PageAbove(c)
  <2>1. Between(r) \in SUBSET Between(s)
    <3>1. s \in Nat /\ r \in Nat
      BY <1>1, <1>3
    <3>2. ASSUME NEW q \in evidence, c < q, q <= r
          PROVE  q <= s
      <4>1. q \in Nat
        BY <1>1
      <4> QED
        BY <1>4, <3>1, <3>2, <4>1
    <3> QED
      BY <3>2
  <2> HIDE DEF Between
  <2>2. Cardinality(Between(r)) <= Cardinality(Between(s))
        /\ Cardinality(Between(r)) \in Nat /\ Cardinality(Between(s)) \in Nat
    BY <1>2, <2>1, FS_Subset, FS_CardinalityType
  <2>3. Cardinality(Between(s)) <= PageSize
    BY <1>3
  <2>4. Cardinality(Between(r)) <= PageSize
    BY <2>2, <2>3, MineAssumption
  <2> QED
    BY <1>1, <1>3, <1>4, <2>4
<1>5. ASSUME NEW s \in evidence, ~(s <= c)
      PROVE  PageAbove(c) # {}
  <2> DEFINE T == {r \in evidence : c < r}
  <2>1. T # {} /\ T \subseteq Nat
    <3>1. s \in Nat
      BY <1>1
    <3>2. c < s
      BY <1>5, <3>1
    <3> QED
      BY <1>1, <3>2
  <2>2. PICK r \in T : \A q \in T : r <= q
    <3> HIDE DEF T
    <3> QED
      BY <2>1, LeastExists
  <2>3. Between(r) = {r}
    <3>1. r \in evidence /\ r \in Nat /\ c < r
      BY <1>1
    <3>2. ASSUME NEW q \in evidence, c < q, q <= r
          PROVE  q = r
      <4>1. q \in Nat /\ r <= q
        BY <1>1, <2>2, <3>2
      <4> QED
        BY <3>1, <3>2, <4>1
    <3>3. r <= r
      BY <3>1
    <3> QED
      BY <3>1, <3>2, <3>3
  <2>4. Cardinality(Between(r)) = 1
    BY <2>3, FS_Singleton
  <2>5. Cardinality(Between(r)) <= PageSize
    BY <2>4, MineAssumption
  <2> HIDE DEF Between
  <2> QED
    BY <1>1, <1>3, <2>2, <2>5
<1>6. PageAbove(c) \subseteq evidence /\ \A s \in PageAbove(c) : s > c
  BY <1>3
<1> QED
  BY <1>1, <1>4, <1>5, <1>6
-----------------------------------------------------------------------------
(***************************************************************************)
(* Types, and what a step of one worker leaves of the others.              *)
(***************************************************************************)

WorkType ==
    /\ pc \in [Workers -> Steps]
    /\ sum \in [Workers -> Checksums]
    /\ at \in [Workers -> [gen : Nat, cursor : Nat]]
    /\ draft \subseteq Workers
    /\ page \in [Workers -> Checksums]
    /\ todo \in [Workers -> SUBSET Phrases]
    /\ pub \in [Workers -> [Phrases -> Nat]]
    /\ dropped \in [Workers -> SUBSET Phrases]

TableType ==
    /\ mine \in [open : BOOLEAN, sum : Checksums, gen : Nat, cursor : Nat]
    /\ counts \in [Phrases -> Nat] /\ phrases \in [Phrases -> Nat]
    /\ stamp \in Checksums \cup {Unstamped}
    /\ mined \in [Surfaces -> Nat]

\* A step of one worker: the others keep all they hold.
OnlyOf(w) ==
    /\ WorkType'
    /\ \A v \in Workers \ {w} :
         /\ pc'[v] = pc[v] /\ sum'[v] = sum[v] /\ at'[v] = at[v] /\ page'[v] = page[v]
         /\ todo'[v] = todo[v] /\ pub'[v] = pub[v] /\ dropped'[v] = dropped[v]
         /\ v \in draft' <=> v \in draft

\* A transaction that ends leaves nothing with its worker.
Empty(w) ==
    /\ sum'[w] = {} /\ at'[w] = Start /\ w \notin draft' /\ page'[w] = {} /\ todo'[w] = {}
    /\ pub'[w] = None /\ dropped'[w] = {}

\* A worker ends its transaction and goes on to a step.
LEMMA EndedEffect ==
    ASSUME WorkType, NEW w \in Workers, NEW step \in Steps, Goto(w, step), Ended(w)
    PROVE  OnlyOf(w) /\ Empty(w) /\ pc'[w] = step
<1>1. Start \in [gen : Nat, cursor : Nat] /\ None \in [Phrases -> Nat] /\ {} \in Checksums
  BY DEF Start, None, Checksums
<1> QED
  BY <1>1 DEF WorkType, OnlyOf, Empty, Goto, Ended

\* A worker returns.
LEMMA ReturnEffect ==
    ASSUME WorkType, NEW w \in Workers, Return(w)
    PROVE  OnlyOf(w) /\ Empty(w) /\ pc'[w] = "idle"
BY EndedEffect DEF Return, Steps

\* A worker that goes on and keeps what it holds.
LEMMA GotoEffect ==
    ASSUME WorkType, NEW w \in Workers, NEW step \in Steps, Goto(w, step), UNCHANGED workVars
    PROVE  OnlyOf(w) /\ pc'[w] = step
BY DEF WorkType, OnlyOf, Goto, workVars

\* The generation alone, in what a worker has read of the mine.
LEMMA GenEffect ==
    ASSUME WorkType, NEW w \in Workers, NEW g \in Nat, at' = [at EXCEPT ![w].gen = g]
    PROVE  /\ at' \in [Workers -> [gen : Nat, cursor : Nat]]
           /\ at'[w].gen = g /\ at'[w].cursor = at[w].cursor
           /\ \A v \in Workers \ {w} : at'[v] = at[v]
<1> DEFINE R == [gen : Nat, cursor : Nat]
<1>1. at'[w] = [at[w] EXCEPT !.gen = g] /\ \A v \in Workers \ {w} : at'[v] = at[v]
  BY DEF WorkType
<1>2. \A x \in R : [x EXCEPT !.gen = g] \in R /\ [x EXCEPT !.gen = g].gen = g
                   /\ [x EXCEPT !.gen = g].cursor = x.cursor
  OBVIOUS
<1>3. at[w] \in R
  BY DEF WorkType
<1>4. at'[w] \in R /\ at'[w].gen = g /\ at'[w].cursor = at[w].cursor
  BY <1>1, <1>2, <1>3
<1>5. at' \in [Workers -> R]
  BY <1>1, <1>4 DEF WorkType
<1> QED
  BY <1>1, <1>4, <1>5

\* Types, in the parts that the steps write.
LEMMA TypeParts ==
    TypeOK <=> /\ evidence \in Checksums /\ gone \in Checksums
               /\ rank \in Checksums \cup {Unstamped}
               /\ TableType /\ WorkType
               /\ fails \in Nat /\ together \in BOOLEAN
BY DEF TypeOK, TableType, WorkType

\* The steps that write no table.
LEMMA QuietStep ==
    ASSUME TypeOK, NEW w \in Workers,
           \/ Begin(w) \/ ReadChecksum(w) \/ OpenMine(w) \/ Look(w) \/ ReadPage(w)
           \/ \E p \in Phrases : Count(w, p)
           \/ ReadChecksumAgain(w) \/ Decide(w) \/ Bump(w)
           \/ PublishRead(w) \/ DropStart(w) \/ DropDone(w) \/ Fail(w) \/ Victim(w)
    PROVE  /\ OnlyOf(w) /\ UNCHANGED <<corpusVars, tableVars>>
           /\ fails' \in Nat /\ together' \in BOOLEAN
<1>1. WorkType /\ TableType /\ evidence \in Checksums /\ fails \in Nat /\ together \in BOOLEAN
  BY TypeParts
<1>2. Start \in [gen : Nat, cursor : Nat] /\ None \in [Phrases -> Nat] /\ {} \in Checksums
  BY DEF Start, None, Checksums
<1>3. CASE Begin(w)
  <2>1. pc' = [pc EXCEPT ![w] = "page"] /\ UNCHANGED workVars
    BY <1>3 DEF Begin, Goto
  <2> QED
    BY <1>1, <1>3, <2>1 DEF Begin, WorkType, OnlyOf, Steps, workVars
<1>4. CASE ReadChecksum(w) \/ ReadChecksumAgain(w)
  BY <1>1, <1>4 DEF ReadChecksum, ReadChecksumAgain, Goto, WorkType, OnlyOf, Steps, boundVars
<1>5. CASE OpenMine(w)
  BY <1>1, <1>2, <1>5 DEF OpenMine, Goto, WorkType, OnlyOf, Steps, boundVars
<1>6. CASE Look(w)
  <2>1. UNCHANGED <<corpusVars, tableVars, fails, together>>
    BY <1>6 DEF Look, boundVars
  <2>2. CASE Return(w)
    BY <1>1, <2>1, <2>2, ReturnEffect
  <2>3. CASE /\ Goto(w, "read")
             /\ at' = [at EXCEPT ![w] = IF w \in draft THEN Start
                                        ELSE [gen |-> mine.gen, cursor |-> mine.cursor]]
             /\ UNCHANGED <<sum, draft, page, todo, pub, dropped>>
    <3>1. [gen |-> mine.gen, cursor |-> mine.cursor] \in [gen : Nat, cursor : Nat]
      BY <1>1 DEF TableType
    <3>2. (IF w \in draft THEN Start ELSE [gen |-> mine.gen, cursor |-> mine.cursor])
            \in [gen : Nat, cursor : Nat]
      BY <1>2, <3>1
    <3>3. at' \in [Workers -> [gen : Nat, cursor : Nat]] /\ \A v \in Workers \ {w} : at'[v] = at[v]
      BY <1>1, <2>3, <3>2 DEF WorkType
    <3> QED
      BY <1>1, <2>1, <2>3, <3>3 DEF Goto, WorkType, OnlyOf, Steps
  <2> QED
    BY <1>6, <2>2, <2>3 DEF Look
<1>7. CASE ReadPage(w)
  <2>1. at[w].cursor \in Nat
    BY <1>1 DEF WorkType
  <2>2. PageAbove(at[w].cursor) \in Checksums
    BY <2>1, PageFacts DEF Checksums
  <2> QED
    BY <1>1, <1>7, <2>2 DEF ReadPage, Goto, WorkType, OnlyOf, Steps, boundVars
<1>8. CASE \E p \in Phrases : Count(w, p)
  BY <1>1, <1>8 DEF Count, WorkType, OnlyOf, boundVars
<1>9. CASE Decide(w)
  <2>1. UNCHANGED <<corpusVars, tableVars, fails, together>>
    BY <1>9 DEF Decide, boundVars
  <2>2. CASE Return(w)
    BY <1>1, <2>1, <2>2, ReturnEffect
  <2>3. CASE /\ at' = [at EXCEPT ![w].gen = mine.gen]
             /\ Goto(w, IF mine.sum = sum[w] THEN "publish" ELSE "bump")
             /\ UNCHANGED <<sum, draft, page, todo, pub, dropped>>
    <3>1. mine.gen \in Nat
      BY <1>1 DEF TableType
    <3>2. at' \in [Workers -> [gen : Nat, cursor : Nat]] /\ \A v \in Workers \ {w} : at'[v] = at[v]
      BY <1>1, <2>3, <3>1, GenEffect
    <3> QED
      BY <1>1, <2>1, <2>3, <3>2 DEF Goto, WorkType, OnlyOf, Steps
  <2> QED
    BY <1>9, <2>2, <2>3 DEF Decide
<1>10. CASE Bump(w)
  <2>1. UNCHANGED <<corpusVars, tableVars, fails, together>>
    BY <1>10 DEF Bump, boundVars
  <2>2. CASE Goto(w, "abandon") /\ UNCHANGED workVars
    BY <1>1, <2>1, <2>2, GotoEffect DEF Steps
  <2> QED
    BY <1>1, <1>10, <2>1, <2>2, ReturnEffect DEF Bump
<1>11. CASE PublishRead(w)
  <2>1. [p \in Phrases |-> IF counts[p] >= Min THEN counts[p] ELSE 0] \in [Phrases -> Nat]
    BY <1>1 DEF TableType
  <2> QED
    BY <1>1, <1>11, <2>1 DEF PublishRead, Goto, WorkType, OnlyOf, Steps, boundVars
<1>12. CASE DropStart(w)
  BY <1>1, <1>12 DEF DropStart, Goto, WorkType, OnlyOf, Steps, boundVars, Counted
<1>13. CASE DropDone(w)
  <2>1. Goto(w, "final") /\ UNCHANGED <<corpusVars, tableVars, workVars, fails, together>>
    BY <1>13 DEF DropDone, boundVars
  <2> QED
    BY <1>1, <2>1, GotoEffect DEF Steps
<1>14. CASE Fail(w) \/ Victim(w)
  <2>1. /\ Return(w) /\ UNCHANGED <<corpusVars, tableVars>>
        /\ fails' \in Nat /\ together' \in BOOLEAN
    BY <1>1, <1>14 DEF Fail, Victim, boundVars
  <2> QED
    BY <1>1, <2>1, ReturnEffect
<1> QED
  BY <1>3, <1>4, <1>5, <1>6, <1>7, <1>8, <1>9, <1>10, <1>11, <1>12, <1>13, <1>14

\* The claim that commits a page.
LEMMA ClaimEffect ==
    ASSUME TypeOK, NEW w \in Workers, Claim(w), Claimable(w)
    PROVE  /\ pc[w] = "count" /\ OnlyOf(w) /\ Empty(w) /\ TableType'
           /\ pc'[w] = IF page[w] = {} THEN "finish" ELSE "page"
           /\ Claimed(w) \in [open : BOOLEAN, sum : Checksums, gen : Nat, cursor : Nat]
           /\ Claimed(w).open /\ mine'.open
           /\ mine'.sum = Claimed(w).sum /\ mine'.gen = Claimed(w).gen
           /\ mine'.cursor = Last(page[w], at[w].cursor)
           /\ \A p \in Phrases : counts'[p] = counts[p] + Tally(page[w], p)
           /\ \A s \in Surfaces : mined'[s] = IF s \in page[w] THEN mined[s] + 1 ELSE mined[s]
           /\ UNCHANGED <<corpusVars, phrases, stamp, boundVars>>
<1> DEFINE M == [open : BOOLEAN, sum : Checksums, gen : Nat, cursor : Nat]
           step == IF page[w] = {} THEN "finish" ELSE "page"
           last == Last(page[w], at[w].cursor)
<1>1. WorkType /\ TableType
  BY TypeParts
<1>2. /\ pc[w] = "count" /\ mine' = [Claimed(w) EXCEPT !.cursor = last]
      /\ counts' = [p \in Phrases |-> counts[p] + Tally(page[w], p)]
      /\ mined' = [s \in Surfaces |-> IF s \in page[w] THEN mined[s] + 1 ELSE mined[s]]
      /\ Goto(w, step) /\ Ended(w)
      /\ UNCHANGED <<corpusVars, phrases, stamp, boundVars>>
  BY DEF Claim, At
<1>3. Claimed(w) \in M /\ Claimed(w).open
  <2>1. [open |-> TRUE, sum |-> sum[w], gen |-> 1, cursor |-> 0] \in M
    BY <1>1 DEF WorkType
  <2> QED
    BY <1>1, <2>1 DEF Claimed, Claimable, TableType
<1>4. page[w] \in SUBSET Surfaces /\ at[w].cursor \in Nat
  BY <1>1 DEF WorkType, Checksums
<1>5. last \in Nat
  BY <1>4, LastFacts
<1>6. \A p \in Phrases : Tally(page[w], p) \in Nat
  BY <1>4, TallyFacts
<1> HIDE DEF step, last
<1>7. /\ mine' \in M /\ mine'.open = Claimed(w).open /\ mine'.sum = Claimed(w).sum
      /\ mine'.gen = Claimed(w).gen /\ mine'.cursor = last
  <2>1. \A m \in M : LET n == [m EXCEPT !.cursor = last]
                     IN /\ n \in M /\ n.open = m.open /\ n.sum = m.sum /\ n.gen = m.gen
                        /\ n.cursor = last
    BY <1>5
  <2> QED
    BY <1>2, <1>3, <2>1
<1>8. TableType'
  BY <1>1, <1>2, <1>6, <1>7 DEF TableType
<1>9. step \in Steps
  BY DEF step, Steps
<1>10. OnlyOf(w) /\ Empty(w) /\ pc'[w] = step
  BY <1>1, <1>2, <1>9, EndedEffect
<1> QED
  BY <1>2, <1>3, <1>7, <1>8, <1>10 DEF step, last

\* The restart of a mine.
LEMMA AbandonEffect ==
    ASSUME TypeOK, NEW w \in Workers, Abandon(w)
    PROVE  /\ pc[w] = "abandon" /\ OnlyOf(w) /\ Empty(w) /\ TableType' /\ pc'[w] = "idle"
           /\ mine'.open = mine.open /\ mine'.sum = sum[w] /\ mine'.gen = mine.gen + 1
           /\ mine'.cursor = 0
           /\ counts' = None /\ \A s \in Surfaces : mined'[s] = 0
           /\ UNCHANGED <<corpusVars, phrases, stamp, boundVars>>
<1> DEFINE M == [open : BOOLEAN, sum : Checksums, gen : Nat, cursor : Nat]
<1>1. WorkType /\ TableType /\ mine \in M /\ sum[w] \in Checksums
  BY TypeParts DEF WorkType, TableType
<1>2. /\ pc[w] = "abandon" /\ Return(w)
      /\ mine' = [mine EXCEPT !.gen = @ + 1, !.cursor = 0, !.sum = sum[w]]
      /\ counts' = None /\ mined' = [s \in Surfaces |-> 0]
      /\ UNCHANGED <<corpusVars, phrases, stamp, boundVars>>
  BY DEF Abandon, At, Restarted, Cleared
<1>3. /\ mine' \in M /\ mine'.open = mine.open /\ mine'.sum = sum[w]
      /\ mine'.gen = mine.gen + 1 /\ mine'.cursor = 0
  <2> DEFINE g == mine.gen + 1
  <2>1. g \in Nat
    BY <1>1
  <2>2. mine' = [mine EXCEPT !.gen = g, !.cursor = 0, !.sum = sum[w]]
    BY <1>1, <1>2
  <2> HIDE DEF g
  <2>3. \A m \in M : LET n == [m EXCEPT !.gen = g, !.cursor = 0, !.sum = sum[w]]
                     IN n \in M /\ n.open = m.open /\ n.sum = sum[w] /\ n.gen = g /\ n.cursor = 0
    BY <1>1, <2>1
  <2> QED
    BY <1>1, <2>2, <2>3 DEF g
<1>4. TableType'
  BY <1>1, <1>2, <1>3 DEF TableType, None
<1> QED
  BY <1>1, <1>2, <1>3, <1>4, ReturnEffect

\* The end of a publication.
LEMMA FinalEffect ==
    ASSUME TypeOK, NEW w \in Workers, Final(w)
    PROVE  /\ pc[w] = "final" /\ OnlyOf(w) /\ Empty(w) /\ TableType' /\ pc'[w] = "idle"
           /\ UNCHANGED <<corpusVars, boundVars>>
           /\ SameMine(w) =>
                /\ \A p \in Phrases :
                      /\ phrases'[p] = IF pub[w][p] > 0 THEN pub[w][p] ELSE phrases[p]
                      /\ counts'[p] = IF p \in dropped[w] THEN 0 ELSE counts[p]
                /\ stamp' = sum[w] /\ ~mine'.open /\ \A s \in Surfaces : mined'[s] = 0
           /\ ~SameMine(w) => UNCHANGED tableVars
<1>1. WorkType /\ TableType
  BY TypeParts
<1>2. pc[w] = "final" /\ Return(w) /\ UNCHANGED <<corpusVars, boundVars>>
  BY DEF Final, At
<1>3. OnlyOf(w) /\ Empty(w) /\ pc'[w] = "idle"
  BY <1>1, <1>2, ReturnEffect
<1>4. CASE SameMine(w)
  <2>1. /\ phrases' = [p \in Phrases |-> IF pub[w][p] > 0 THEN pub[w][p] ELSE phrases[p]]
        /\ counts' = [p \in Phrases |-> IF p \in dropped[w] THEN 0 ELSE counts[p]]
        /\ stamp' = sum[w] /\ mine' = NoMine /\ mined' = [s \in Surfaces |-> 0]
    BY <1>4 DEF Final
  <2>2. NoMine \in [open : BOOLEAN, sum : Checksums, gen : Nat, cursor : Nat] /\ ~NoMine.open
    BY DEF NoMine, Checksums
  <2>3. pub[w] \in [Phrases -> Nat] /\ sum[w] \in Checksums
    BY <1>1 DEF WorkType
  <2>4. TableType'
    BY <1>1, <2>1, <2>2, <2>3 DEF TableType
  <2> QED
    BY <1>2, <1>3, <1>4, <2>1, <2>2, <2>4
<1>5. CASE ~SameMine(w)
  <2>1. UNCHANGED tableVars
    BY <1>5 DEF Final
  <2>2. TableType'
    BY <1>1, <2>1 DEF TableType, tableVars
  <2> QED
    BY <1>2, <1>3, <1>5, <2>1, <2>2
<1> QED
  BY <1>4, <1>5

\* A worker whose mine has gone on without it.
LEMMA ClaimRefused ==
    ASSUME TypeOK, NEW w \in Workers, Claim(w), ~Claimable(w)
    PROVE  OnlyOf(w) /\ Empty(w) /\ pc'[w] = "idle" /\ UNCHANGED <<corpusVars, tableVars, boundVars>>
<1>1. WorkType
  BY TypeParts
<1>2. Return(w) /\ UNCHANGED <<corpusVars, tableVars, boundVars>>
  BY DEF Claim, tableVars
<1> QED
  BY <1>1, <1>2, ReturnEffect

\* The steps of a worker, as the proofs take them.
Quiet(w) ==
    \/ Begin(w) \/ ReadChecksum(w) \/ OpenMine(w) \/ Look(w) \/ ReadPage(w)
    \/ \E p \in Phrases : Count(w, p)
    \/ ReadChecksumAgain(w) \/ Decide(w) \/ Bump(w)
    \/ PublishRead(w) \/ DropStart(w) \/ DropDone(w) \/ Fail(w) \/ Victim(w)

\* These are all of them.
LEMMA Turns ==
    ASSUME NEW w \in Workers, Work(w) \/ Fail(w)
    PROVE  \/ Quiet(w)
           \/ Claim(w) /\ Claimable(w)
           \/ Claim(w) /\ ~Claimable(w)
           \/ Abandon(w)
           \/ Final(w)
BY DEF Work, PageStep, EndStep, Quiet

\* A step of a worker keeps the types and what the others hold.
LEMMA TurnType ==
    ASSUME TypeOK, NEW w \in Workers, Work(w) \/ Fail(w)
    PROVE  OnlyOf(w) /\ TypeOK' /\ UNCHANGED corpusVars
<1>1. WorkType /\ TableType /\ fails \in Nat /\ together \in BOOLEAN
      /\ evidence \in Checksums /\ gone \in Checksums /\ rank \in Checksums \cup {Unstamped}
  BY TypeParts
<1>2. OnlyOf(w) /\ TableType' /\ UNCHANGED corpusVars /\ fails' \in Nat /\ together' \in BOOLEAN
  <2>1. CASE Quiet(w)
    <3>1. OnlyOf(w) /\ UNCHANGED <<corpusVars, tableVars>> /\ fails' \in Nat
          /\ together' \in BOOLEAN
      BY <2>1, QuietStep DEF Quiet
    <3> QED
      BY <1>1, <3>1 DEF TableType, tableVars
  <2>2. CASE Claim(w) /\ Claimable(w)
    BY <1>1, <2>2, ClaimEffect DEF boundVars
  <2>3. CASE Claim(w) /\ ~Claimable(w)
    <3>1. OnlyOf(w) /\ UNCHANGED <<corpusVars, tableVars, boundVars>>
      BY <2>3, ClaimRefused
    <3> QED
      BY <1>1, <3>1 DEF TableType, tableVars, boundVars
  <2>4. CASE Abandon(w)
    BY <1>1, <2>4, AbandonEffect DEF boundVars
  <2>5. CASE Final(w)
    BY <1>1, <2>5, FinalEffect DEF boundVars
  <2> QED
    BY <2>1, <2>2, <2>3, <2>4, <2>5, Turns
<1>3. WorkType'
  BY <1>2 DEF OnlyOf
<1> QED
  BY <1>1, <1>2, <1>3 DEF TypeOK, TableType, WorkType, corpusVars

\* A step of the corpus, or of its ranking.
LEMMA CorpusStep ==
    ASSUME TypeOK, Corpus \/ Rank
    PROVE  /\ TypeOK' /\ UNCHANGED <<tableVars, pc, workVars, boundVars>>
           /\ \/ UNCHANGED <<evidence, gone>>
              \/ \E s \in Surfaces :
                   \/ s \notin evidence \cup gone /\ evidence' = evidence \cup {s} /\ gone' = gone
                   \/ s \in evidence /\ evidence' = evidence \ {s} /\ gone' = gone \cup {s}
<1>1. /\ UNCHANGED <<tableVars, pc, workVars, boundVars>>
      /\ \/ UNCHANGED <<evidence, gone>>
         \/ \E s \in Surfaces :
              \/ s \notin evidence \cup gone /\ evidence' = evidence \cup {s} /\ gone' = gone
              \/ s \in evidence /\ evidence' = evidence \ {s} /\ gone' = gone \cup {s}
      /\ rank' \in {rank, evidence}
  BY DEF Corpus, Rank, Grow, Leave
<1>2. evidence' \in Checksums /\ gone' \in Checksums /\ rank' \in Checksums \cup {Unstamped}
  BY <1>1 DEF TypeOK, Checksums
<1>3. TypeOK'
  BY <1>1, <1>2 DEF TypeOK, tableVars, workVars, boundVars
<1> QED
  BY <1>1, <1>3

\* Nothing is mined yet.
LEMMA InitType == Init => TypeOK
<1> SUFFICES ASSUME Init
             PROVE  TypeOK
  OBVIOUS
<1>1. /\ None \in [Phrases -> Nat] /\ Start \in [gen : Nat, cursor : Nat]
      /\ NoMine \in [open : BOOLEAN, sum : Checksums, gen : Nat, cursor : Nat]
      /\ Initial \in Checksums /\ {} \in Checksums /\ "idle" \in Steps
  BY MineAssumption DEF Checksums, NoMine, None, Start, Steps
<1> HIDE DEF None, Start, NoMine, Checksums, Steps
<1>2. /\ TableType
      /\ evidence \in Checksums /\ gone \in Checksums /\ rank \in Checksums \cup {Unstamped}
      /\ fails \in Nat /\ together \in BOOLEAN
  BY <1>1 DEF Init, TableType
<1>3. WorkType
  BY <1>1 DEF Init, WorkType
<1> QED
  BY <1>2, <1>3, TypeParts

\* Every step keeps the types.
LEMMA StepType == TypeOK /\ [Next]_vars => TypeOK'
<1> SUFFICES ASSUME TypeOK, [Next]_vars
             PROVE  TypeOK'
  OBVIOUS
<1>1. CASE UNCHANGED vars
  BY <1>1 DEF vars, corpusVars, tableVars, workVars, boundVars, TypeOK
<1> QED
  BY <1>1, CorpusStep, TurnType DEF Next

\* The mine, its counts, the phrases and what every worker holds keep their
\* types: cursors are numbers whatever a page holds, and no count is negative.
THEOREM TypeCorrect == Spec => []TypeOK
BY InitType, StepType, PTL DEF Spec
-----------------------------------------------------------------------------
(***************************************************************************)
(* A surface is counted once.  What a mine has counted lies at or below    *)
(* its cursor, and a page in hand above the place where it was read; a     *)
(* mine that a transaction has inserted is the only one there is.          *)
(***************************************************************************)

DraftInv ==
    \A w \in draft : draft = {w} /\ ~mine.open /\ pc[w] \in {"look", "read", "count"}

MinedInv ==
    \A s \in Surfaces :
        mined[s] # 0 => mined[s] = 1 /\ mine.open /\ s <= mine.cursor

AboveInv ==
    \A w \in Workers : IF pc[w] = "count" THEN \A s \in page[w] : s > at[w].cursor
                                          ELSE page[w] = {}

OnceInv == DraftInv /\ MinedInv /\ AboveInv

\* Nobody has a page.
LEMMA InitOnce == Init => OnceInv
BY DEF Init, OnceInv, DraftInv, MinedInv, AboveInv

\* What a step of one worker has to show of that worker.
LEMMA OnceOf ==
    ASSUME TypeOK, OnceInv, NEW w \in Workers, OnlyOf(w),
           w \in draft' => /\ draft \subseteq {w} /\ ~mine'.open
                           /\ pc'[w] \in {"look", "read", "count"},
           mine'.open => mine.open \/ (w \in draft /\ w \notin draft'),
           MinedInv',
           IF pc'[w] = "count" THEN \A s \in page'[w] : s > at'[w].cursor ELSE page'[w] = {}
    PROVE  OnceInv'
<1>1. draft \subseteq Workers /\ draft' \subseteq Workers
  BY TypeParts DEF WorkType, OnlyOf
<1>2. ASSUME NEW v \in draft'
      PROVE  draft' = {v} /\ ~mine'.open /\ pc'[v] \in {"look", "read", "count"}
  <2>1. CASE v = w
    BY <1>1, <1>2, <2>1 DEF OnlyOf
  <2>2. CASE v # w
    <3>1. v \in draft /\ pc'[v] = pc[v]
      BY <1>1, <1>2, <2>2 DEF OnlyOf
    <3>2. draft = {v} /\ ~mine.open /\ pc[v] \in {"look", "read", "count"}
      BY <3>1 DEF OnceInv, DraftInv
    <3>3. w \notin draft' /\ w \notin draft
      BY <2>2, <3>2
    <3> QED
      BY <1>1, <3>1, <3>2, <3>3 DEF OnlyOf
  <2> QED
    BY <2>1, <2>2
<1>3. DraftInv'
  BY <1>2 DEF DraftInv
<1>4. AboveInv'
  BY DEF OnceInv, AboveInv, OnlyOf
<1> QED
  BY <1>3, <1>4 DEF OnceInv

\* The steps that write no table.
LEMMA QuietOnce ==
    ASSUME TypeOK, OnceInv, NEW w \in Workers, Quiet(w)
    PROVE  OnceInv'
<1>1. OnlyOf(w) /\ UNCHANGED <<corpusVars, tableVars>>
  BY QuietStep DEF Quiet
<1>2. UNCHANGED <<mine, mined>> /\ MinedInv'
  BY <1>1 DEF tableVars, OnceInv, MinedInv
<1>3. WorkType /\ w \in draft => draft = {w} /\ ~mine.open /\ pc[w] \in {"look", "read", "count"}
  BY DEF OnceInv, DraftInv
<1>4. WorkType
  BY TypeParts
<1>5. IF pc[w] = "count" THEN \A s \in page[w] : s > at[w].cursor ELSE page[w] = {}
  BY DEF OnceInv, AboveInv
<1> SUFFICES
      /\ w \in draft' => draft \subseteq {w} /\ ~mine.open /\ pc'[w] \in {"look", "read", "count"}
      /\ IF pc'[w] = "count" THEN \A s \in page'[w] : s > at'[w].cursor ELSE page'[w] = {}
  BY <1>1, <1>2, OnceOf
<1>6. CASE Begin(w) \/ ReadChecksum(w)
  BY <1>3, <1>4, <1>5, <1>6 DEF Begin, ReadChecksum, Goto, WorkType, workVars
<1>7. CASE OpenMine(w)
  <2>1. pc[w] = "open" /\ Restarting \cup draft \subseteq {w}
    BY <1>7 DEF OpenMine, At, WaitsFor
  <2> QED
    BY <1>3, <1>4, <1>5, <1>7, <2>1 DEF OpenMine, Goto, WorkType
<1>8. CASE Return(w)
  BY <1>4, <1>8, ReturnEffect DEF Empty
<1>9. CASE Look(w)
  BY <1>3, <1>4, <1>5, <1>8, <1>9 DEF Look, Goto, WorkType
<1>10. CASE ReadPage(w)
  <2>1. pc[w] = "read" /\ page'[w] = PageAbove(at[w].cursor) /\ pc'[w] = "count"
        /\ UNCHANGED <<at, draft>>
    BY <1>4, <1>10 DEF ReadPage, Goto, WorkType
  <2>2. at[w].cursor \in Nat
    BY <1>4 DEF WorkType
  <2>3. \A s \in PageAbove(at[w].cursor) : s > at[w].cursor
    BY <2>2, PageFacts
  <2> QED
    BY <1>3, <1>4, <2>1, <2>3
<1>11. CASE \E p \in Phrases : Count(w, p)
  BY <1>3, <1>4, <1>5, <1>11 DEF Count
<1>12. CASE ReadChecksumAgain(w) \/ PublishRead(w) \/ DropStart(w) \/ DropDone(w)
  BY <1>3, <1>4, <1>5, <1>12
     DEF ReadChecksumAgain, PublishRead, DropStart, DropDone, At, Goto, WorkType, workVars
<1>13. CASE Decide(w)
  BY <1>3, <1>4, <1>5, <1>8, <1>13 DEF Decide, Goto, WorkType
<1>14. CASE Bump(w)
  BY <1>3, <1>4, <1>5, <1>8, <1>14 DEF Bump, At, Goto, WorkType, workVars
<1>15. CASE Fail(w) \/ Victim(w)
  BY <1>8, <1>15 DEF Fail, Victim
<1> QED
  BY <1>6, <1>7, <1>9, <1>10, <1>11, <1>12, <1>13, <1>14, <1>15 DEF Quiet

\* A page that is claimed holds nothing the mine has counted before: it was read
\* at the cursor the mine still has, or the mine is new.
LEMMA ClaimedApart ==
    ASSUME TypeOK, OnceInv, NEW w \in Workers, pc[w] = "count", Claimable(w)
    PROVE  /\ \A s \in page[w] : mined[s] = 0
           /\ \A s \in Surfaces : mined[s] # 0 => mined[s] = 1 /\ s <= at[w].cursor
<1>1. page[w] \subseteq Surfaces /\ at[w].cursor \in Nat
  BY TypeParts DEF WorkType, Checksums
<1>2. \A s \in page[w] : s > at[w].cursor
  BY DEF OnceInv, AboveInv
<1>3. CASE w \in draft
  <2>1. ~mine.open
    BY <1>3 DEF OnceInv, DraftInv
  <2>2. \A s \in Surfaces : mined[s] = 0
    BY <2>1 DEF OnceInv, MinedInv
  <2> QED
    BY <1>1, <2>2
<1>4. CASE mine.cursor = at[w].cursor
  <2>1. \A s \in Surfaces : mined[s] # 0 => mined[s] = 1 /\ s <= at[w].cursor
    BY <1>4 DEF OnceInv, MinedInv
  <2>2. ASSUME NEW s \in page[w]
        PROVE  mined[s] = 0
    <3>1. s \in Surfaces /\ s \in Nat /\ s > at[w].cursor
      BY <1>1, <1>2, MineAssumption
    <3> QED
      BY <1>1, <2>1, <3>1
  <2> QED
    BY <2>1, <2>2
<1> QED
  BY <1>3, <1>4 DEF Claimable

\* The claim of a page.
LEMMA ClaimOnce ==
    ASSUME TypeOK, OnceInv, NEW w \in Workers, Claim(w), Claimable(w)
    PROVE  OnceInv'
<1>1. /\ pc[w] = "count" /\ OnlyOf(w) /\ Empty(w) /\ mine'.open
      /\ pc'[w] = (IF page[w] = {} THEN "finish" ELSE "page")
      /\ mine'.cursor = Last(page[w], at[w].cursor)
      /\ \A s \in Surfaces : mined'[s] = IF s \in page[w] THEN mined[s] + 1 ELSE mined[s]
  BY ClaimEffect
<1>2. page[w] \in SUBSET Surfaces /\ at[w].cursor \in Nat /\ mined \in [Surfaces -> Nat]
  BY TypeParts DEF WorkType, TableType, Checksums
<1>3. /\ \A s \in page[w] : mined[s] = 0
      /\ \A s \in Surfaces : mined[s] # 0 => mined[s] = 1 /\ s <= at[w].cursor
  BY <1>1, ClaimedApart
<1>4. /\ Last(page[w], at[w].cursor) \in Nat /\ at[w].cursor <= Last(page[w], at[w].cursor)
      /\ \A s \in page[w] : s <= Last(page[w], at[w].cursor)
  <2>1. CASE page[w] = {}
    BY <1>2, <2>1, LastFacts
  <2>2. CASE page[w] # {}
    <3> DEFINE last == Last(page[w], at[w].cursor)
    <3>1. last \in Nat /\ last \in page[w] /\ \A s \in page[w] : s <= last
      BY <1>2, <2>2, LastFacts
    <3>2. last > at[w].cursor
      BY <1>1, <3>1 DEF OnceInv, AboveInv
    <3> HIDE DEF last
    <3> QED
      BY <1>2, <3>1, <3>2 DEF last
  <2> QED
    BY <2>1, <2>2
<1>5. MinedInv'
  <2> DEFINE last == Last(page[w], at[w].cursor)
  <2> HIDE DEF last
  <2> SUFFICES ASSUME NEW s \in Surfaces, mined'[s] # 0
               PROVE  mined'[s] = 1 /\ s <= last
    BY <1>1 DEF MinedInv, last
  <2>1. s \in Nat /\ last \in Nat /\ at[w].cursor <= last
    BY <1>4, MineAssumption DEF last
  <2>2. CASE s \in page[w]
    BY <1>1, <1>3, <1>4, <2>2 DEF last
  <2>3. CASE s \notin page[w]
    <3>1. mined[s] # 0 /\ mined'[s] = mined[s]
      BY <1>1, <2>3
    <3>2. mined[s] = 1 /\ s <= at[w].cursor
      BY <1>3, <3>1
    <3> QED
      BY <1>2, <2>1, <3>1, <3>2
  <2> QED
    BY <2>2, <2>3
<1>6. mine.open \/ w \in draft
  BY DEF Claimable
<1>7. pc'[w] # "count" /\ page'[w] = {} /\ w \notin draft'
  BY <1>1 DEF Empty
<1> QED
  BY <1>1, <1>5, <1>6, <1>7, OnceOf

\* A mine that starts again, or is over, has counted nothing.
LEMMA EndOnce ==
    ASSUME TypeOK, OnceInv, NEW w \in Workers,
           Abandon(w) \/ Final(w) \/ (Claim(w) /\ ~Claimable(w))
    PROVE  OnceInv'
<1>1. OnlyOf(w) /\ Empty(w) /\ pc'[w] = "idle"
  BY AbandonEffect, FinalEffect, ClaimRefused
<1>2. (mine'.open => mine.open) /\ MinedInv'
  <2>1. CASE Abandon(w)
    BY <2>1, AbandonEffect DEF MinedInv
  <2>2. CASE Final(w) /\ SameMine(w)
    BY <2>2, FinalEffect DEF MinedInv
  <2>3. CASE UNCHANGED tableVars
    BY <2>3 DEF tableVars, OnceInv, MinedInv
  <2> QED
    BY <2>1, <2>2, <2>3, FinalEffect, ClaimRefused
<1>3. page'[w] = {} /\ w \notin draft' /\ pc'[w] # "count"
  BY <1>1 DEF Empty
<1> QED
  BY <1>1, <1>2, <1>3, OnceOf

\* Every step keeps the invariant.
LEMMA StepOnce == TypeOK /\ OnceInv /\ [Next]_vars => OnceInv'
<1> SUFFICES ASSUME TypeOK, OnceInv, [Next]_vars
             PROVE  OnceInv'
  OBVIOUS
<1>1. CASE UNCHANGED vars \/ Corpus \/ Rank
  <2>1. UNCHANGED <<tableVars, pc, workVars>>
    BY <1>1, CorpusStep DEF vars
  <2> QED
    BY <2>1 DEF tableVars, workVars, OnceInv, DraftInv, MinedInv, AboveInv
<1>2. ASSUME NEW w \in Workers, Work(w) \/ Fail(w)
      PROVE  OnceInv'
  BY <1>2, Turns, QuietOnce, ClaimOnce, EndOnce
<1> QED
  BY <1>1, <1>2 DEF Next

\* Whatever workers, failures and changes of the corpus come between, a mine
\* counts no surface twice: the claim compares the place a page was read at.
THEOREM CountedOnce == Spec => []PagesOnce
<1>1. TypeOK /\ OnceInv => PagesOnce
  <2> SUFFICES ASSUME TypeOK, OnceInv, NEW s \in Surfaces
               PROVE  mined[s] <= 1
    BY DEF PagesOnce
  <2>1. mined[s] \in Nat
    BY TypeParts DEF TableType
  <2>2. mined[s] # 0 => mined[s] = 1
    BY DEF OnceInv, MinedInv
  <2> QED
    BY <2>1, <2>2
<1> QED
  BY <1>1, InitType, StepType, InitOnce, StepOnce, PTL DEF Spec
-----------------------------------------------------------------------------
(***************************************************************************)
(* The counts are those of the surfaces the mine has counted.              *)
(***************************************************************************)

Counting == {s \in Surfaces : mined[s] = 1}

\* The counts of the phrases are the tallies of a set of surfaces.
CountsAre(set) == \A p \in Phrases : counts[p] = Tally(set, p)

\* A claim adds its page to what the mine has counted, and to the counts.
LEMMA ClaimCounts ==
    ASSUME TypeOK, OnceInv, NEW w \in Workers, Claim(w), Claimable(w)
    PROVE  /\ Counting' = Counting \cup page[w]
           /\ CountsAre(Counting) => CountsAre(Counting)'
<1>1. /\ pc[w] = "count"
      /\ \A p \in Phrases : counts'[p] = counts[p] + Tally(page[w], p)
      /\ \A s \in Surfaces : mined'[s] = IF s \in page[w] THEN mined[s] + 1 ELSE mined[s]
  BY ClaimEffect
<1>2. page[w] \in SUBSET Surfaces /\ mined \in [Surfaces -> Nat]
  BY TypeParts DEF WorkType, TableType, Checksums
<1>3. \A s \in page[w] : mined[s] = 0
  BY <1>1, ClaimedApart
<1>4. Counting' = Counting \cup page[w] /\ Counting \cap page[w] = {}
  BY <1>1, <1>2, <1>3 DEF Counting
<1>5. Counting \in SUBSET Surfaces
  BY DEF Counting
<1> HIDE DEF Counting
<1>6. ASSUME NEW p \in Phrases, CountsAre(Counting)
      PROVE  counts'[p] = Tally(Counting', p)
  <2>1. Tally(Counting \cup page[w], p) = Tally(Counting, p) + Tally(page[w], p)
    BY <1>2, <1>4, <1>5, TallyFacts
  <2>2. counts[p] = Tally(Counting, p)
    BY <1>6 DEF CountsAre
  <2> QED
    BY <1>1, <1>4, <2>1, <2>2
<1>7. CountsAre(Counting) => \A p \in Phrases : counts'[p] = Tally(Counting', p)
  BY <1>6
<1>8. CountsAre(Counting)' <=> \A p \in Phrases : counts'[p] = Tally(Counting', p)
  BY DEF CountsAre, Tally
<1> QED
  BY <1>4, <1>7, <1>8

\* A mine that starts again has counted nothing.
LEMMA AbandonCounts ==
    ASSUME TypeOK, NEW w \in Workers, Abandon(w)
    PROVE  Counting' = {} /\ CountsAre(Counting)'
<1>1. counts' = None /\ Counting' = {}
  BY AbandonEffect DEF Counting
<1> HIDE DEF Counting
<1>2. \A p \in Phrases : counts'[p] = Tally(Counting', p)
  BY <1>1, TallyFacts DEF None
<1> QED
  BY <1>1, <1>2 DEF CountsAre, Tally

\* Where the tables stay, what they say of each other stays.
LEMMA SameCounts ==
    ASSUME UNCHANGED tableVars
    PROVE  Counting' = Counting /\ (CountsAre(Counting)' <=> CountsAre(Counting))
BY DEF tableVars, Counting, CountsAre, Tally

\* The counts of a mine that was started again are right, in these terms.
LEMMA RestartedSays ==
    RestartedCountsRight <=> (mine.open /\ mine.gen > 1 => CountsAre(Counting))
BY DEF RestartedCountsRight, CountsAre, Counting

\* Every step keeps them right: the page of a transaction that began before the
\* restart cannot be claimed after it, and the restart leaves no count behind.
LEMMA StepRestarted ==
    TypeOK /\ OnceInv /\ RestartedCountsRight /\ [Next]_vars => RestartedCountsRight'
<1> SUFFICES ASSUME TypeOK, OnceInv, RestartedCountsRight, [Next]_vars
             PROVE  RestartedCountsRight'
  OBVIOUS
<1>1. mine.open /\ mine.gen > 1 => CountsAre(Counting)
  BY RestartedSays
<1>2. (mine'.open /\ mine'.gen > 1 => CountsAre(Counting)') => RestartedCountsRight'
  BY DEF RestartedCountsRight, CountsAre, Counting
<1>3. CASE UNCHANGED tableVars
  BY <1>1, <1>2, <1>3, SameCounts DEF tableVars
<1>4. CASE UNCHANGED vars \/ Corpus \/ Rank
  BY <1>3, <1>4, CorpusStep DEF vars
<1>5. ASSUME NEW w \in Workers, Work(w) \/ Fail(w)
      PROVE  RestartedCountsRight'
  <2>1. CASE Quiet(w)
    BY <1>3, <2>1, QuietStep DEF Quiet
  <2>2. CASE Claim(w) /\ Claimable(w)
    <3>1. mine'.gen = Claimed(w).gen
      BY <2>2, ClaimEffect
    <3>2. CASE w \in draft
      BY <1>2, <3>1, <3>2 DEF Claimed
    <3>3. CASE w \notin draft
      <4>1. mine.open /\ mine'.gen = mine.gen
        BY <2>2, <3>1, <3>3 DEF Claimed, Claimable
      <4> QED
        BY <1>1, <1>2, <2>2, <4>1, ClaimCounts
    <3> QED
      BY <3>2, <3>3
  <2>3. CASE Claim(w) /\ ~Claimable(w)
    BY <1>3, <2>3, ClaimRefused
  <2>4. CASE Abandon(w)
    BY <1>2, <2>4, AbandonCounts
  <2>5. CASE Final(w)
    BY <1>2, <1>3, <2>5, FinalEffect
  <2> QED
    BY <1>5, <2>1, <2>2, <2>3, <2>4, <2>5, Turns
<1> QED
  BY <1>4, <1>5 DEF Next

\* Nothing that a page of the abandoned mine has added, or was adding when it
\* was abandoned, stays in the counts of a mine that was started again.
THEOREM RestartedRight == Spec => []RestartedCountsRight
<1>1. Init => RestartedCountsRight
  BY DEF Init, NoMine, RestartedCountsRight
<1> QED
  BY <1>1, InitType, StepType, InitOnce, StepOnce, StepRestarted, PTL DEF Spec
-----------------------------------------------------------------------------
(***************************************************************************)
(* The checksums that are kept are of a corpus that was.                   *)
(***************************************************************************)

AtEnd == {"finish", "decide", "bump", "abandon", "publish", "insert", "dropping", "final"}

CorpusInv == evidence \cap gone = {} /\ Initial \subseteq evidence \cup gone

\* The corpus had these surfaces once: it has gained them all since the
\* beginning, and what they lack it has lost.
Past(set) == set \subseteq evidence \cup gone /\ Initial \ set \subseteq gone

\* A worker holds a checksum that it will write, or compare.
Holds(w) == pc[w] = "open" \/ w \in draft \/ pc[w] \in AtEnd \ {"finish"}

SumInv ==
    /\ mine.open => Past(mine.sum)
    /\ stamp # Unstamped => Past(stamp)
    /\ \A w \in Workers : Holds(w) => Past(sum[w])

PastInv == CorpusInv /\ SumInv

\* A corpus that was stays one.
LEMMA PastLasts ==
    ASSUME TypeOK, CorpusInv, [Next]_vars
    PROVE  /\ CorpusInv' /\ gone \subseteq gone'
           /\ \A set : Past(set) =>
                set \subseteq evidence' \cup gone' /\ Initial \ set \subseteq gone'
<1>1. CASE UNCHANGED <<evidence, gone>>
  BY <1>1 DEF CorpusInv, Past
<1>2. CASE Corpus \/ Rank
  <2>1. \/ UNCHANGED <<evidence, gone>>
        \/ \E s \in Surfaces :
             \/ s \notin evidence \cup gone /\ evidence' = evidence \cup {s} /\ gone' = gone
             \/ s \in evidence /\ evidence' = evidence \ {s} /\ gone' = gone \cup {s}
    BY <1>2, CorpusStep
  <2>2. CASE \E s \in Surfaces :
               s \notin evidence \cup gone /\ evidence' = evidence \cup {s} /\ gone' = gone
    BY <2>2 DEF CorpusInv, Past
  <2>3. CASE \E s \in Surfaces :
               s \in evidence /\ evidence' = evidence \ {s} /\ gone' = gone \cup {s}
    BY <2>3 DEF CorpusInv, Past
  <2> QED
    BY <1>1, <2>1, <2>2, <2>3
<1>3. CASE \E w \in Workers : Work(w) \/ Fail(w)
  BY <1>1, <1>3, TurnType DEF corpusVars
<1> QED
  BY <1>1, <1>2, <1>3 DEF Next, vars, corpusVars

\* A corpus that was and that has changed is not there again, unless a surface
\* has come and gone.
LEMMA NeverBack ==
    ASSUME TypeOK, CorpusInv, Corpus \/ Rank, NEW set, Past(set), set = evidence', ~Fleeting'
    PROVE  evidence' = evidence /\ gone' = gone
<1>1. ASSUME NEW s \in Surfaces, s \notin evidence \cup gone, evidence' = evidence \cup {s}
      PROVE  FALSE
  BY <1>1 DEF Past
<1>2. ASSUME NEW s \in Surfaces, s \in evidence, evidence' = evidence \ {s},
             gone' = gone \cup {s}
      PROVE  FALSE
  <2>1. CASE s \in Initial
    BY <1>2, <2>1 DEF Past, CorpusInv
  <2>2. CASE s \notin Initial
    BY <1>2, <2>2 DEF Fleeting
  <2> QED
    BY <2>1, <2>2
<1> QED
  BY <1>1, <1>2, CorpusStep

\* Nothing is checked yet.
LEMMA InitPast == Init => PastInv
BY MineAssumption
   DEF Init, PastInv, CorpusInv, SumInv, Past, Holds, AtEnd, NoMine

\* The checksum a worker holds after a step is the corpus, or the one it held.
LEMMA QuietHolds ==
    ASSUME TypeOK, OnceInv, NEW w \in Workers, Quiet(w)
    PROVE  Holds(w)' => sum'[w] = evidence \/ (sum'[w] = sum[w] /\ Holds(w))
<1>1. WorkType
  BY TypeParts
<1>2. w \in draft => pc[w] \in {"look", "read", "count"}
  BY DEF OnceInv, DraftInv
<1>3. Holds(w)' <=> (pc'[w] = "open" \/ w \in draft' \/ pc'[w] \in AtEnd \ {"finish"})
  BY DEF Holds
<1>4. CASE Return(w)
  BY <1>1, <1>3, <1>4, ReturnEffect DEF Empty, AtEnd
<1>5. CASE Begin(w) \/ Bump(w) \/ DropStart(w) \/ DropDone(w)
  BY <1>1, <1>2, <1>3, <1>4, <1>5
     DEF Begin, Bump, DropStart, DropDone, At, Goto, WorkType, workVars, Holds, AtEnd
<1>6. CASE ReadChecksum(w) \/ ReadChecksumAgain(w)
  BY <1>1, <1>6 DEF ReadChecksum, ReadChecksumAgain, WorkType
<1>7. CASE OpenMine(w)
  BY <1>1, <1>2, <1>3, <1>7 DEF OpenMine, At, Goto, WorkType, Holds, AtEnd
<1>8. CASE Look(w)
  BY <1>1, <1>2, <1>3, <1>4, <1>8 DEF Look, Goto, WorkType, Holds, AtEnd
<1>9. CASE ReadPage(w) \/ PublishRead(w)
  BY <1>1, <1>2, <1>3, <1>9 DEF ReadPage, PublishRead, Goto, WorkType, Holds, AtEnd
<1>10. CASE \E p \in Phrases : Count(w, p)
  BY <1>1, <1>2, <1>3, <1>10 DEF Count, Holds
<1>11. CASE Decide(w)
  BY <1>1, <1>2, <1>3, <1>4, <1>11 DEF Decide, Goto, WorkType, Holds, AtEnd
<1>12. CASE Fail(w) \/ Victim(w)
  BY <1>4, <1>12 DEF Fail, Victim
<1> QED
  BY <1>5, <1>6, <1>7, <1>8, <1>9, <1>10, <1>11, <1>12 DEF Quiet

\* What the tables keep after a step of a worker was kept, or held by it.
LEMMA TurnHolds ==
    ASSUME TypeOK, OnceInv, NEW w \in Workers, Work(w) \/ Fail(w)
    PROVE  /\ Holds(w)' => sum'[w] = evidence \/ (sum'[w] = sum[w] /\ Holds(w))
           /\ mine'.open => \/ mine'.sum = mine.sum /\ mine.open
                            \/ mine'.sum = sum[w] /\ Holds(w)
           /\ stamp' = stamp \/ (stamp' = sum[w] /\ Holds(w))
<1>1. WorkType
  BY TypeParts
<1>2. CASE Quiet(w)
  <2>1. UNCHANGED tableVars
    BY <1>2, QuietStep DEF Quiet
  <2> QED
    BY <1>2, <2>1, QuietHolds DEF tableVars
<1>3. CASE Claim(w) /\ Claimable(w)
  <2>1. /\ mine'.sum = Claimed(w).sum /\ stamp' = stamp /\ w \notin draft'
        /\ pc'[w] \in {"finish", "page"}
    BY <1>3, ClaimEffect DEF Empty
  <2>2. ~Holds(w)'
    BY <2>1 DEF Holds, AtEnd
  <2>3. CASE w \in draft
    BY <2>1, <2>2, <2>3 DEF Claimed, Holds
  <2>4. CASE w \notin draft
    BY <1>3, <2>1, <2>2, <2>4 DEF Claimed, Claimable
  <2> QED
    BY <2>3, <2>4
<1>4. CASE Claim(w) /\ ~Claimable(w)
  <2>1. UNCHANGED tableVars /\ w \notin draft' /\ pc'[w] = "idle"
    BY <1>4, ClaimRefused DEF Empty
  <2> QED
    BY <2>1 DEF tableVars, Holds, AtEnd
<1>5. CASE Abandon(w)
  <2>1. /\ pc[w] = "abandon" /\ mine'.sum = sum[w] /\ stamp' = stamp
        /\ w \notin draft' /\ pc'[w] = "idle"
    BY <1>5, AbandonEffect DEF Empty
  <2> QED
    BY <2>1 DEF Holds, AtEnd
<1>6. CASE Final(w)
  <2>1. /\ pc[w] = "final" /\ w \notin draft' /\ pc'[w] = "idle"
        /\ \/ UNCHANGED tableVars
           \/ stamp' = sum[w] /\ ~mine'.open
    BY <1>6, FinalEffect DEF Empty
  <2> QED
    BY <2>1 DEF Holds, AtEnd, tableVars
<1> QED
  BY <1>2, <1>3, <1>4, <1>5, <1>6, Turns

\* Every step keeps the invariant.
LEMMA StepPast == TypeOK /\ OnceInv /\ PastInv /\ [Next]_vars => PastInv'
<1> SUFFICES ASSUME TypeOK, OnceInv, PastInv, [Next]_vars
             PROVE  PastInv'
  OBVIOUS
<1>1. CorpusInv /\ CorpusInv'
  BY PastLasts DEF PastInv
<1> DEFINE Was(set) == set \subseteq evidence' \cup gone' /\ Initial \ set \subseteq gone'
<1>2. \A set : Past(set) => Was(set)
  BY <1>1, PastLasts
<1>3. Past(evidence)
  BY <1>1 DEF Past, CorpusInv
<1>4. /\ mine.open => Was(mine.sum)
      /\ stamp # Unstamped => Was(stamp)
      /\ \A w \in Workers : Holds(w) => Was(sum[w])
  BY <1>2 DEF PastInv, SumInv
<1>5. Was(evidence)
  BY <1>2, <1>3
<1> HIDE DEF Was
<1> SUFFICES /\ mine'.open => Was(mine'.sum)
             /\ stamp' # Unstamped => Was(stamp')
             /\ \A w \in Workers : Holds(w)' => Was(sum'[w])
  BY <1>1 DEF PastInv, SumInv, Past, Was
<1>6. CASE UNCHANGED vars \/ Corpus \/ Rank
  <2>1. UNCHANGED <<tableVars, pc, workVars>>
    BY <1>6, CorpusStep DEF vars
  <2> QED
    BY <1>4, <2>1 DEF tableVars, workVars, Holds
<1>7. ASSUME NEW w \in Workers, Work(w) \/ Fail(w)
      PROVE  /\ mine'.open => Was(mine'.sum)
             /\ stamp' # Unstamped => Was(stamp')
             /\ \A v \in Workers : Holds(v)' => Was(sum'[v])
  <2>1. /\ Holds(w)' => sum'[w] = evidence \/ (sum'[w] = sum[w] /\ Holds(w))
        /\ mine'.open => \/ mine'.sum = mine.sum /\ mine.open
                         \/ mine'.sum = sum[w] /\ Holds(w)
        /\ stamp' = stamp \/ (stamp' = sum[w] /\ Holds(w))
    BY <1>7, TurnHolds
  <2>2. \A v \in Workers \ {w} : sum'[v] = sum[v] /\ (Holds(v)' <=> Holds(v))
    BY <1>7, TurnType DEF OnlyOf, Holds
  <2> QED
    BY <1>4, <1>5, <2>1, <2>2
<1> QED
  BY <1>6, <1>7 DEF Next
-----------------------------------------------------------------------------
(***************************************************************************)
(* One worker at a time: what it holds agrees with the mine.               *)
(***************************************************************************)

\* What the copy of the counts publishes.
Frequent == [p \in Phrases |-> IF counts[p] >= Min THEN counts[p] ELSE 0]

Hand(w) ==
    /\ pc[w] \in {"read", "count"} =>
         (w \in draft \/ mine.open) /\ at[w].cursor = Claimed(w).cursor
    /\ pc[w] \in AtEnd => mine.open
    /\ pc[w] \in {"publish", "insert", "dropping", "final"} => sum[w] = mine.sum
    /\ pc[w] \in {"insert", "dropping", "final"} => pub[w] = Frequent
    /\ pc[w] \in {"dropping", "final"} => dropped[w] = Counted

OneAtWork == \A v, w \in Workers : pc[v] # "idle" /\ pc[w] # "idle" => v = w

AloneInv ==
    ~together =>
        /\ OneAtWork
        /\ ~mine.open => counts = None
        /\ \A w \in Workers : Hand(w)

\* Nobody is at work.
LEMMA InitAlone == Init => AloneInv
BY DEF Init, AloneInv, OneAtWork, Hand, AtEnd

\* Who acts while no two have worked at once is the only one at work.
LEMMA Idlers ==
    ASSUME TypeOK, AloneInv, NEW w \in Workers, Work(w) \/ Fail(w), ~together'
    PROVE  /\ ~together /\ OneAtWork'
           /\ \A v \in Workers \ {w} : pc[v] = "idle" /\ pc'[v] = "idle"
<1>1. OnlyOf(w)
  BY TurnType
<1>2. CASE Begin(w)
  <2>1. /\ ~together /\ \A v \in Workers \ {w} : pc[v] = "idle"
    BY <1>2, TypeParts DEF Begin
  <2> QED
    BY <1>1, <2>1 DEF OnlyOf, OneAtWork
<1>3. CASE ~Begin(w)
  <2>1. together' = together /\ pc[w] # "idle"
    <3>1. CASE Victim(w)
      BY <3>1 DEF Victim, WaitsFor, boundVars
    <3>2. CASE PageStep(w)
      BY <3>2 DEF PageStep, ReadChecksum, OpenMine, Look, ReadPage, Count, Claim, At, boundVars
    <3>3. CASE EndStep(w)
      BY <3>3 DEF EndStep, ReadChecksumAgain, Decide, Bump, Abandon, PublishRead, DropStart,
                  DropDone, Final, At, boundVars
    <3>4. CASE Fail(w)
      BY <3>4 DEF Fail
    <3> QED
      BY <1>3, <3>1, <3>2, <3>3, <3>4 DEF Work
  <2>2. ~together /\ \A v \in Workers \ {w} : pc[v] = "idle"
    BY <2>1 DEF AloneInv, OneAtWork
  <2> QED
    BY <1>1, <2>2 DEF OnlyOf, OneAtWork
<1> QED
  BY <1>2, <1>3

\* What the worker that acts holds agrees with the mine, if it did before.
LEMMA QuietHand ==
    ASSUME TypeOK, OnceInv, NEW w \in Workers, Quiet(w), Hand(w)
    PROVE  Hand(w)'
<1>1. WorkType /\ TableType
  BY TypeParts
<1>2. UNCHANGED <<mine, counts>>
  BY QuietStep DEF Quiet, tableVars
<1>3. Hand(w)' <=>
        /\ pc'[w] \in {"read", "count"} =>
             /\ w \in draft' \/ mine.open
             /\ at'[w].cursor = IF w \in draft' THEN 0 ELSE mine.cursor
        /\ pc'[w] \in AtEnd => mine.open
        /\ pc'[w] \in {"publish", "insert", "dropping", "final"} => sum'[w] = mine.sum
        /\ pc'[w] \in {"insert", "dropping", "final"} => pub'[w] = Frequent
        /\ pc'[w] \in {"dropping", "final"} => dropped'[w] = Counted
  BY <1>2 DEF Hand, Claimed, Frequent, Counted, AtEnd
<1>4. /\ pc[w] \in {"read", "count"} =>
           /\ w \in draft \/ mine.open
           /\ at[w].cursor = IF w \in draft THEN 0 ELSE mine.cursor
      /\ pc[w] \in AtEnd => mine.open
      /\ pc[w] \in {"publish", "insert", "dropping", "final"} => sum[w] = mine.sum
      /\ pc[w] \in {"insert", "dropping", "final"} => pub[w] = Frequent
      /\ pc[w] \in {"dropping", "final"} => dropped[w] = Counted
  BY DEF Hand, Claimed
<1>5. CASE Return(w)
  BY <1>1, <1>3, <1>5, ReturnEffect DEF AtEnd
<1>6. CASE Begin(w) \/ ReadChecksum(w) \/ OpenMine(w)
  <2>1. pc'[w] \in {"page", "open", "look"}
    BY <1>1, <1>6 DEF Begin, ReadChecksum, OpenMine, Goto, WorkType
  <2> QED
    BY <1>3, <2>1 DEF AtEnd
<1>7. CASE Look(w)
  <2>1. CASE ~Return(w)
    <3>1. /\ w \in draft \/ mine.open
          /\ pc'[w] = "read" /\ draft' = draft
          /\ at'[w] = IF w \in draft THEN Start
                      ELSE [gen |-> mine.gen, cursor |-> mine.cursor]
      BY <1>1, <1>7, <2>1 DEF Look, Goto, WorkType
    <3> QED
      BY <1>3, <3>1 DEF AtEnd, Start
  <2> QED
    BY <1>5, <2>1
<1>8. CASE ReadPage(w)
  <2>1. /\ pc[w] = "read" /\ pc'[w] = "count" /\ UNCHANGED <<at, draft>>
    BY <1>1, <1>8 DEF ReadPage, Goto, WorkType
  <2> QED
    BY <1>3, <1>4, <2>1 DEF AtEnd
<1>9. CASE \E p \in Phrases : Count(w, p)
  <2>1. UNCHANGED <<pc, sum, at, draft, pub, dropped>>
    BY <1>9 DEF Count
  <2> QED
    BY <1>3, <1>4, <2>1
<1>10. CASE ReadChecksumAgain(w)
  <2>1. pc[w] = "finish" /\ pc'[w] = "decide"
    BY <1>1, <1>10 DEF ReadChecksumAgain, Goto, WorkType
  <2> QED
    BY <1>3, <1>4, <2>1 DEF AtEnd
<1>11. CASE Decide(w)
  <2>1. CASE ~Return(w)
    <3>1. /\ pc[w] = "decide" /\ mine.open /\ sum' = sum
          /\ pc'[w] = IF mine.sum = sum[w] THEN "publish" ELSE "bump"
      BY <1>1, <1>11, <2>1 DEF Decide, Goto, WorkType
    <3> QED
      BY <1>3, <3>1 DEF AtEnd
  <2> QED
    BY <1>5, <2>1
<1>12. CASE Bump(w)
  <2>1. CASE ~Return(w)
    <3>1. pc'[w] = "abandon" /\ mine.open
      BY <1>1, <1>12, <2>1 DEF Bump, SameMine, Goto, WorkType
    <3> QED
      BY <1>3, <3>1 DEF AtEnd
  <2> QED
    BY <1>5, <2>1
<1>13. CASE PublishRead(w)
  <2>1. pc[w] = "publish" /\ pc'[w] = "insert" /\ pub'[w] = Frequent /\ sum' = sum
    BY <1>1, <1>13 DEF PublishRead, Goto, WorkType, Frequent
  <2> QED
    BY <1>3, <1>4, <2>1 DEF AtEnd
<1>14. CASE DropStart(w)
  <2>1. /\ pc[w] = "insert" /\ pc'[w] = "dropping" /\ dropped'[w] = Counted
        /\ UNCHANGED <<pub, sum>>
    BY <1>1, <1>14 DEF DropStart, At, Goto, WorkType
  <2> QED
    BY <1>3, <1>4, <2>1 DEF AtEnd
<1>15. CASE DropDone(w)
  <2>1. /\ pc[w] = "dropping" /\ pc'[w] = "final" /\ UNCHANGED <<pub, sum, dropped>>
    BY <1>1, <1>15 DEF DropDone, At, Goto, WorkType, workVars
  <2> QED
    BY <1>3, <1>4, <2>1 DEF AtEnd
<1>16. CASE Fail(w) \/ Victim(w)
  BY <1>5, <1>16 DEF Fail, Victim
<1> QED
  BY <1>6, <1>7, <1>8, <1>9, <1>10, <1>11, <1>12, <1>13, <1>14, <1>15, <1>16 DEF Quiet

\* The steps that write tables.
LEMMA TurnHand ==
    ASSUME TypeOK, OnceInv, NEW w \in Workers, Work(w) \/ Fail(w), Hand(w),
           ~mine.open => counts = None
    PROVE  Hand(w)' /\ (~mine'.open => counts' = None)
<1>1. CASE Quiet(w)
  <2>1. UNCHANGED tableVars
    BY <1>1, QuietStep DEF Quiet
  <2> QED
    BY <1>1, <2>1, QuietHand DEF tableVars
<1>2. CASE Claim(w) /\ Claimable(w)
  <2>1. mine'.open /\ pc'[w] \in {"finish", "page"}
    BY <1>2, ClaimEffect
  <2> QED
    BY <2>1 DEF Hand, AtEnd
<1>3. ASSUME pc'[w] = "idle"
      PROVE  Hand(w)'
  BY <1>3 DEF Hand, AtEnd
<1>4. CASE Claim(w) /\ ~Claimable(w)
  BY <1>3, <1>4, ClaimRefused DEF tableVars
<1>5. CASE Abandon(w)
  BY <1>3, <1>5, AbandonEffect
<1>6. CASE Final(w)
  <2>1. CASE SameMine(w)
    <3>1. /\ pc[w] = "final" /\ pc'[w] = "idle" /\ TableType'
          /\ \A p \in Phrases : counts'[p] = IF p \in dropped[w] THEN 0 ELSE counts[p]
      BY <1>6, <2>1, FinalEffect
    <3>2. dropped[w] = Counted
      BY <3>1 DEF Hand
    <3>3. \A p \in Phrases : counts[p] \in Nat /\ (p \notin Counted => counts[p] = 0)
      BY TypeParts DEF TableType, Counted
    <3>4. \A p \in Phrases : counts'[p] = 0
      BY <3>1, <3>2, <3>3
    <3>5. counts' = None
      BY <3>1, <3>4 DEF TableType, None
    <3> QED
      BY <1>3, <3>1, <3>5
  <2>2. CASE ~SameMine(w)
    BY <1>3, <1>6, <2>2, FinalEffect DEF tableVars
  <2> QED
    BY <2>1, <2>2
<1> QED
  BY <1>1, <1>2, <1>4, <1>5, <1>6, Turns

\* Every step keeps the invariant.
LEMMA StepAlone == TypeOK /\ OnceInv /\ AloneInv /\ [Next]_vars => AloneInv'
<1> SUFFICES ASSUME TypeOK, OnceInv, AloneInv, [Next]_vars
             PROVE  AloneInv'
  OBVIOUS
<1>1. CASE UNCHANGED vars \/ Corpus \/ Rank
  <2>1. UNCHANGED <<tableVars, pc, workVars, boundVars>>
    BY <1>1, CorpusStep DEF vars
  <2> QED
    BY <2>1 DEF tableVars, workVars, boundVars, AloneInv, OneAtWork, Hand, Claimed, Frequent,
                Counted
<1>2. ASSUME NEW w \in Workers, Work(w) \/ Fail(w)
      PROVE  AloneInv'
  <2> SUFFICES ASSUME ~together'
               PROVE  /\ OneAtWork'
                      /\ ~mine'.open => counts' = None
                      /\ \A v \in Workers : Hand(v)'
    BY DEF AloneInv
  <2>1. ~together /\ OneAtWork' /\ \A v \in Workers \ {w} : pc'[v] = "idle"
    BY <1>2, Idlers
  <2>2. Hand(w) /\ (~mine.open => counts = None)
    BY <2>1 DEF AloneInv
  <2>3. Hand(w)' /\ (~mine'.open => counts' = None)
    BY <1>2, <2>2, TurnHand
  <2>4. \A v \in Workers \ {w} : Hand(v)'
    BY <2>1 DEF Hand, AtEnd
  <2> QED
    BY <2>1, <2>3, <2>4
<1> QED
  BY <1>1, <1>2 DEF Next
-----------------------------------------------------------------------------
(***************************************************************************)
(* One worker at a time: a mine whose checksum is still that of the corpus *)
(* has counted the corpus up to its cursor.                                *)
(***************************************************************************)

\* The corpus is still the one a checksum was taken over.
Same(set) == ~together /\ ~Fleeting /\ set = evidence

\* The corpus up to a place.
Upto(place) == {s \in evidence : s <= place}

MineWhole ==
    mine.open /\ Same(mine.sum) => Counting = Upto(mine.cursor) /\ CountsAre(Counting)

PageWhole(w) ==
    pc[w] = "count" /\ Same(Claimed(w).sum) => page[w] = PageAbove(at[w].cursor)

EndWhole(w) ==
    pc[w] \in AtEnd /\ Same(mine.sum) => \A s \in evidence : s <= mine.cursor

StampWhole ==
    ~mine.open /\ Same(stamp) =>
        \A p \in Phrases : Tally(evidence, p) >= Min => phrases[p] = Tally(evidence, p)

WholeInv ==
    /\ MineWhole
    /\ \A w \in Workers : PageWhole(w) /\ EndWhole(w)
    /\ StampWhole

\* What the proof that a step keeps it needs.
WholeContext == TypeOK /\ OnceInv /\ PastInv /\ AloneInv /\ WholeInv

\* No checksum is that of a corpus that was never one.
LEMMA NoStamp == TypeOK => Unstamped # evidence
BY MineAssumption DEF TypeOK, Checksums, Unstamped

\* Nothing is mined, nobody works.
LEMMA InitWhole == Init => WholeInv
BY MineAssumption
   DEF Init, WholeInv, MineWhole, PageWhole, EndWhole, StampWhole, Same, NoMine, AtEnd, Unstamped

\* Where a checksum is that of the corpus after a step of the corpus, it was
\* before, and the corpus is the same.
LEMMA CorpusSame ==
    ASSUME WholeContext, Corpus \/ Rank, NEW set, Past(set), ~together', ~Fleeting',
           set = evidence'
    PROVE  Same(set) /\ evidence' = evidence /\ gone' = gone
<1>1. evidence' = evidence /\ gone' = gone
  BY NeverBack DEF WholeContext, PastInv
<1>2. ~together /\ ~Fleeting
  BY <1>1, CorpusStep DEF WholeContext, Fleeting, boundVars
<1> QED
  BY <1>1, <1>2 DEF Same

\* The corpus changes, or is ranked.
LEMMA CorpusWhole ==
    ASSUME WholeContext, Corpus \/ Rank
    PROVE  WholeInv'
<1>1. UNCHANGED <<tableVars, pc, workVars, boundVars>>
  BY CorpusStep DEF WholeContext
<1>2. /\ \A w \in Workers : Claimed(w)' = Claimed(w)
      /\ Counting' = Counting /\ (CountsAre(Counting)' <=> CountsAre(Counting))
  BY <1>1, SameCounts DEF tableVars, workVars, Claimed
<1>3. SumInv /\ TypeOK
  BY DEF WholeContext, PastInv
<1>4. MineWhole'
  <2> SUFFICES ASSUME mine.open, ~together', ~Fleeting', mine.sum = evidence'
               PROVE  Counting' = Upto(mine.cursor)' /\ CountsAre(Counting)'
    BY <1>1 DEF MineWhole, Same, tableVars, Upto
  <2>1. Same(mine.sum) /\ evidence' = evidence
    BY <1>3, CorpusSame DEF SumInv
  <2>2. Upto(mine.cursor)' = Upto(mine.cursor)
    BY <1>1, <2>1 DEF Upto, tableVars
  <2> QED
    BY <1>2, <2>1, <2>2 DEF WholeContext, WholeInv, MineWhole
<1>5. ASSUME NEW w \in Workers
      PROVE  PageWhole(w)'
  <2> SUFFICES ASSUME pc[w] = "count", ~together', ~Fleeting', Claimed(w).sum = evidence'
               PROVE  page[w] = PageAbove(at[w].cursor)'
    BY <1>1, <1>2 DEF PageWhole, Same, workVars
  <2>1. w \in draft \/ mine.open
    BY <1>1 DEF WholeContext, AloneInv, Hand, boundVars
  <2>2. Past(Claimed(w).sum)
    BY <1>3, <2>1 DEF SumInv, Holds, Claimed
  <2>3. Same(Claimed(w).sum) /\ evidence' = evidence
    BY <2>2, CorpusSame
  <2>4. page[w] = PageAbove(at[w].cursor)
    BY <2>3 DEF WholeContext, WholeInv, PageWhole
  <2> QED
    BY <1>1, <2>3, <2>4 DEF PageAbove, workVars
<1>6. ASSUME NEW w \in Workers
      PROVE  EndWhole(w)'
  <2> SUFFICES ASSUME pc[w] \in AtEnd, ~together', ~Fleeting', mine.sum = evidence'
               PROVE  \A s \in evidence' : s <= mine.cursor
    BY <1>1 DEF EndWhole, Same, tableVars, AtEnd
  <2>1. mine.open
    BY <1>1 DEF WholeContext, AloneInv, Hand, boundVars
  <2>2. Same(mine.sum) /\ evidence' = evidence
    BY <1>3, <2>1, CorpusSame DEF SumInv
  <2> QED
    BY <2>2 DEF WholeContext, WholeInv, EndWhole
<1>7. StampWhole'
  <2> SUFFICES ASSUME ~mine.open, ~together', ~Fleeting', stamp = evidence'
               PROVE  \A p \in Phrases : Tally(evidence', p) >= Min
                                            => phrases[p] = Tally(evidence', p)
    BY <1>1 DEF StampWhole, Same, tableVars, Tally
  <2>1. stamp # Unstamped
    BY <1>3, CorpusStep, MineAssumption DEF TypeOK, Checksums, Unstamped
  <2>2. Same(stamp) /\ evidence' = evidence
    BY <1>3, <2>1, CorpusSame DEF SumInv
  <2> QED
    BY <2>2 DEF WholeContext, WholeInv, StampWhole
<1> QED
  BY <1>4, <1>5, <1>6, <1>7 DEF WholeInv

\* A worker that acts leaves the corpus as it is, and is alone if it was.
LEMMA TurnSame ==
    ASSUME WholeContext, NEW w \in Workers, Work(w) \/ Fail(w)
    PROVE  /\ evidence' = evidence /\ gone' = gone /\ (Fleeting' <=> Fleeting)
           /\ ~together' => ~together /\ \A v \in Workers \ {w} : pc'[v] = "idle"
<1>1. evidence' = evidence /\ gone' = gone
  BY TurnType DEF WholeContext, corpusVars
<1> QED
  BY <1>1, Idlers DEF WholeContext, Fleeting

\* A page in hand has just been read or was in hand, and who is at the end of
\* the mine was there.
LEMMA QuietWhere ==
    ASSUME TypeOK, NEW w \in Workers, Quiet(w)
    PROVE  /\ pc'[w] = "count" =>
                \/ pc[w] = "read" /\ page'[w] = PageAbove(at[w].cursor) /\ UNCHANGED <<at, draft, sum>>
                \/ pc[w] = "count" /\ UNCHANGED <<page, at, draft, sum>>
           /\ pc'[w] \in AtEnd => pc[w] \in AtEnd
<1>1. WorkType
  BY TypeParts
<1>2. CASE Return(w)
  BY <1>1, <1>2, ReturnEffect DEF AtEnd
<1>3. CASE Begin(w) \/ ReadChecksum(w) \/ OpenMine(w)
  <2>1. pc'[w] \in {"page", "open", "look"}
    BY <1>1, <1>3 DEF Begin, ReadChecksum, OpenMine, Goto, WorkType
  <2> QED
    BY <2>1 DEF AtEnd
<1>4. CASE Look(w)
  <2>1. pc'[w] = "read" \/ Return(w)
    BY <1>1, <1>4 DEF Look, Goto, WorkType
  <2> QED
    BY <1>2, <2>1 DEF AtEnd
<1>5. CASE ReadPage(w)
  <2>1. /\ pc[w] = "read" /\ pc'[w] = "count" /\ page'[w] = PageAbove(at[w].cursor)
        /\ UNCHANGED <<at, draft, sum>>
    BY <1>1, <1>5 DEF ReadPage, Goto, WorkType
  <2> QED
    BY <2>1 DEF AtEnd
<1>6. CASE \E p \in Phrases : Count(w, p)
  BY <1>6 DEF Count
<1>7. CASE \/ ReadChecksumAgain(w) \/ Decide(w) \/ Bump(w)
           \/ PublishRead(w) \/ DropStart(w) \/ DropDone(w)
  <2>1. /\ pc[w] \in AtEnd
        /\ Return(w) \/ pc'[w] \in AtEnd
    BY <1>1, <1>7 DEF ReadChecksumAgain, Decide, Bump, PublishRead, DropStart, DropDone, At, Goto,
                      WorkType, AtEnd
  <2> QED
    BY <1>2, <2>1 DEF AtEnd
<1>8. CASE Fail(w) \/ Victim(w)
  BY <1>2, <1>8 DEF Fail, Victim
<1> QED
  BY <1>3, <1>4, <1>5, <1>6, <1>7, <1>8 DEF Quiet

\* The steps that leave the tables.
LEMMA QuietWhole ==
    ASSUME WholeContext, NEW w \in Workers, Work(w) \/ Fail(w), UNCHANGED tableVars,
           pc'[w] = "idle" \/ Quiet(w)
    PROVE  WholeInv'
<1>1. /\ evidence' = evidence /\ gone' = gone /\ (Fleeting' <=> Fleeting)
      /\ ~together' => ~together /\ \A v \in Workers \ {w} : pc'[v] = "idle"
  BY TurnSame
<1>2. Counting' = Counting /\ (CountsAre(Counting)' <=> CountsAre(Counting))
  BY SameCounts
<1>3. UNCHANGED <<mine, counts, phrases, stamp>>
  BY DEF tableVars
<1>4. MineWhole' /\ StampWhole'
  <2>1. Upto(mine.cursor)' = Upto(mine.cursor)
    BY <1>1, <1>3 DEF Upto
  <2>2. \A set : ~together' /\ ~Fleeting' /\ set = evidence' => Same(set)
    BY <1>1 DEF Same
  <2>3. MineWhole /\ StampWhole
    BY DEF WholeContext, WholeInv
  <2>4. MineWhole'
    BY <1>2, <1>3, <2>1, <2>2, <2>3 DEF MineWhole, Same
  <2>5. StampWhole'
    BY <1>1, <1>3, <2>2, <2>3 DEF StampWhole, Same, Tally
  <2> QED
    BY <2>4, <2>5
<1>5. ASSUME NEW v \in Workers
      PROVE  PageWhole(v)' /\ EndWhole(v)'
  <2>1. CASE together' \/ pc'[v] = "idle"
    BY <2>1 DEF PageWhole, EndWhole, Same, AtEnd
  <2>2. CASE ~together' /\ pc'[v] # "idle"
    <3>1. v = w /\ ~together /\ Quiet(w)
      BY <1>1, <2>2
    <3>2. PageWhole(w) /\ EndWhole(w) /\ TypeOK
      BY DEF WholeContext, WholeInv
    <3>3. /\ pc'[w] = "count" =>
               \/ /\ pc[w] = "read" /\ page'[w] = PageAbove(at[w].cursor)
                  /\ UNCHANGED <<at, draft, sum>>
               \/ pc[w] = "count" /\ UNCHANGED <<page, at, draft, sum>>
          /\ pc'[w] \in AtEnd => pc[w] \in AtEnd
      BY <3>1, <3>2, QuietWhere
    <3>4. \A c : PageAbove(c)' = PageAbove(c)
      BY <1>1 DEF PageAbove
    <3>5. PageWhole(w)'
      <4>1. SUFFICES ASSUME pc'[w] = "count", Same(Claimed(w).sum)'
                     PROVE  page'[w] = PageAbove(at'[w].cursor)
        BY <1>1 DEF PageWhole, PageAbove
      <4>2. CASE pc[w] = "count" /\ UNCHANGED <<page, at, draft, sum>>
        <5>1. Claimed(w)' = Claimed(w)
          BY <1>3, <4>2 DEF Claimed
        <5>2. Same(Claimed(w).sum)
          BY <1>1, <3>1, <4>1, <5>1 DEF Same
        <5> QED
          BY <3>2, <4>2, <5>2 DEF PageWhole
      <4> QED
        BY <3>3, <4>1, <4>2
    <3>6. EndWhole(w)'
      BY <1>1, <1>3, <3>1, <3>2, <3>3 DEF EndWhole, Same, AtEnd
    <3> QED
      BY <3>1, <3>5, <3>6
  <2> QED
    BY <2>1, <2>2
<1> QED
  BY <1>4, <1>5 DEF WholeInv

\* Before a claim the mine has counted the corpus up to where the page begins.
LEMMA ClaimBase ==
    ASSUME WholeContext, NEW w \in Workers, Claim(w), Claimable(w), Same(Claimed(w).sum)
    PROVE  /\ at[w].cursor = Claimed(w).cursor
           /\ Counting = Upto(at[w].cursor) /\ CountsAre(Counting)
<1>1. pc[w] = "count" /\ ~together
  BY DEF Claim, At, Same
<1>2. at[w].cursor = Claimed(w).cursor /\ (~mine.open => counts = None)
  BY <1>1 DEF WholeContext, AloneInv, Hand
<1>3. CASE w \in draft
  <2>1. ~mine.open
    BY <1>3 DEF WholeContext, OnceInv, DraftInv
  <2>2. at[w].cursor = 0 /\ counts = None
    BY <1>2, <1>3, <2>1 DEF Claimed
  <2>3. Counting = {}
    BY <2>1 DEF WholeContext, OnceInv, MinedInv, Counting
  <2>4. Upto(0) = {}
    <3>1. \A s \in evidence : s \in Nat \ {0}
      BY MineAssumption DEF WholeContext, TypeOK, Checksums
    <3>2. \A s \in evidence : ~(s <= 0)
      BY <3>1
    <3> QED
      BY <3>2 DEF Upto
  <2>5. CountsAre({})
    BY <2>2, TallyFacts DEF CountsAre, None
  <2> QED
    BY <1>2, <2>2, <2>3, <2>4, <2>5
<1>4. CASE w \notin draft
  <2>1. mine.open /\ Claimed(w) = mine
    BY <1>4 DEF Claimed, Claimable
  <2> QED
    BY <1>2, <2>1 DEF WholeContext, WholeInv, MineWhole
<1> QED
  BY <1>3, <1>4

\* A page takes the corpus from where it begins to its last surface, an empty
\* one has nothing left to take.
LEMMA PageTakes ==
    ASSUME TypeOK, NEW c \in Nat
    PROVE  /\ Upto(c) \cup PageAbove(c) = Upto(Last(PageAbove(c), c))
           /\ PageAbove(c) = {} => \A s \in evidence : s <= Last(PageAbove(c), c)
<1> DEFINE last == Last(PageAbove(c), c)
<1>1. /\ PageAbove(c) \subseteq evidence /\ PageAbove(c) \in SUBSET Surfaces
      /\ \A s \in PageAbove(c) : s > c
      /\ \A s \in PageAbove(c) : \A r \in evidence : c < r /\ r <= s => r \in PageAbove(c)
      /\ PageAbove(c) = {} => \A s \in evidence : s <= c
  BY PageFacts
<1>2. /\ last \in Nat
      /\ PageAbove(c) = {} => last = c
      /\ PageAbove(c) # {} => last \in PageAbove(c) /\ \A s \in PageAbove(c) : s <= last
  BY <1>1, LastFacts
<1>3. \A s \in evidence : s \in Nat
  BY MineAssumption DEF TypeOK, Checksums
<1> HIDE DEF last
<1>4. CASE PageAbove(c) = {}
  BY <1>1, <1>2, <1>4 DEF last
<1>5. CASE PageAbove(c) # {}
  <2>1. c < last
    BY <1>1, <1>2, <1>5
  <2>2. ASSUME NEW s \in evidence
        PROVE  s <= c \/ s \in PageAbove(c) <=> s <= last
    <3>1. s \in Nat
      BY <1>3
    <3>2. CASE s <= c
      BY <1>2, <2>1, <3>1, <3>2
    <3>3. CASE s \in PageAbove(c)
      BY <1>2, <1>5, <3>3
    <3>4. CASE ~(s <= c) /\ s \notin PageAbove(c)
      <4>1. c < s
        BY <3>1, <3>4
      <4> QED
        BY <1>1, <1>2, <1>5, <3>4, <4>1
    <3> QED
      BY <3>2, <3>3, <3>4
  <2> QED
    BY <1>1, <1>5, <2>2 DEF last, Upto
<1> QED
  BY <1>4, <1>5

\* The claim of a page.
LEMMA ClaimWhole ==
    ASSUME WholeContext, NEW w \in Workers, Work(w), Claim(w), Claimable(w)
    PROVE  WholeInv'
<1> DEFINE c == at[w].cursor
<1>1. /\ evidence' = evidence /\ gone' = gone /\ (Fleeting' <=> Fleeting)
      /\ ~together' => ~together /\ \A v \in Workers \ {w} : pc'[v] = "idle"
  BY TurnSame
<1>2. /\ pc[w] = "count" /\ mine'.open /\ mine'.sum = Claimed(w).sum
      /\ mine'.cursor = Last(page[w], c)
      /\ pc'[w] = (IF page[w] = {} THEN "finish" ELSE "page")
  BY ClaimEffect DEF WholeContext
<1>3. c \in Nat /\ TypeOK /\ OnceInv
  BY TypeParts DEF WholeContext, WorkType
<1>4. ASSUME ~together', Same(mine.sum)'
      PROVE  /\ page[w] = PageAbove(c)
             /\ Counting = Upto(c) /\ CountsAre(Counting)
  <2>1. Same(Claimed(w).sum)
    BY <1>1, <1>2, <1>4 DEF Same
  <2> QED
    BY <1>2, <2>1, ClaimBase DEF WholeContext, WholeInv, PageWhole
<1> HIDE DEF c
<1>5. MineWhole'
  <2> SUFFICES ASSUME Same(mine.sum)'
               PROVE  Counting' = Upto(mine.cursor)' /\ CountsAre(Counting)'
    BY DEF MineWhole
  <2>1. ~together'
    BY DEF Same
  <2>2. page[w] = PageAbove(c) /\ Counting = Upto(c) /\ CountsAre(Counting)
    BY <1>4, <2>1
  <2>3. Counting' = Counting \cup page[w] /\ CountsAre(Counting)'
    BY <1>3, <2>2, ClaimCounts
  <2>4. Upto(c) \cup PageAbove(c) = Upto(Last(PageAbove(c), c))
    BY <1>3, PageTakes
  <2>5. Upto(mine.cursor)' = Upto(Last(page[w], c))
    BY <1>1, <1>2 DEF Upto, c
  <2> QED
    BY <2>2, <2>3, <2>4, <2>5
<1>6. ASSUME NEW v \in Workers
      PROVE  PageWhole(v)' /\ EndWhole(v)'
  <2>1. PageWhole(v)'
    BY <1>1, <1>2 DEF PageWhole, Same
  <2>2. EndWhole(v)'
    <3> SUFFICES ASSUME pc'[v] \in AtEnd, Same(mine.sum)'
                 PROVE  \A s \in evidence : s <= mine'.cursor
      BY <1>1 DEF EndWhole, AtEnd
    <3>1. ~together'
      BY DEF Same
    <3>2. v = w
      BY <1>1, <3>1 DEF AtEnd
    <3>3. page[w] = {}
      BY <1>2, <3>2 DEF AtEnd
    <3>4. PageAbove(c) = {}
      BY <1>4, <3>1, <3>3
    <3>5. mine'.cursor = Last(PageAbove(c), c)
      BY <1>2, <3>3, <3>4 DEF c
    <3> QED
      BY <1>3, <3>4, <3>5, PageTakes
  <2> QED
    BY <2>1, <2>2
<1>7. StampWhole'
  BY <1>2 DEF StampWhole
<1> QED
  BY <1>5, <1>6, <1>7 DEF WholeInv

\* The restart of a mine that the corpus has left behind.
LEMMA AbandonWhole ==
    ASSUME WholeContext, NEW w \in Workers, Work(w), Abandon(w)
    PROVE  WholeInv'
<1>1. /\ evidence' = evidence /\ (Fleeting' <=> Fleeting)
      /\ ~together' => ~together /\ \A v \in Workers \ {w} : pc'[v] = "idle"
  BY TurnSame
<1>2. /\ pc'[w] = "idle" /\ mine'.cursor = 0 /\ mine'.open = mine.open
      /\ UNCHANGED <<phrases, stamp>>
  BY AbandonEffect DEF WholeContext
<1>3. Counting' = {} /\ CountsAre(Counting)'
  BY AbandonCounts DEF WholeContext
<1>4. \A s \in evidence : s \in Nat \ {0}
  BY MineAssumption DEF WholeContext, TypeOK, Checksums
<1>5. Upto(mine.cursor)' = {}
  <2>1. \A s \in evidence : ~(s <= 0)
    BY <1>4
  <2> QED
    BY <1>1, <1>2, <2>1 DEF Upto
<1>6. MineWhole'
  BY <1>3, <1>5 DEF MineWhole
<1>7. \A v \in Workers : PageWhole(v)' /\ EndWhole(v)'
  BY <1>1, <1>2 DEF PageWhole, EndWhole, Same, AtEnd
<1>8. StampWhole'
  <2>1. StampWhole
    BY DEF WholeContext, WholeInv
  <2> QED
    BY <1>1, <1>2, <2>1 DEF StampWhole, Same, Tally
<1> QED
  BY <1>6, <1>7, <1>8 DEF WholeInv

\* The publication: the mine has counted the whole corpus, and what it counted
\* at least Min times is what is published.
LEMMA FinalWhole ==
    ASSUME WholeContext, NEW w \in Workers, Work(w), Final(w), SameMine(w)
    PROVE  WholeInv'
<1>1. /\ evidence' = evidence /\ (Fleeting' <=> Fleeting)
      /\ ~together' => ~together /\ \A v \in Workers \ {w} : pc'[v] = "idle"
  BY TurnSame
<1>2. /\ pc[w] = "final" /\ pc'[w] = "idle" /\ ~mine'.open /\ stamp' = sum[w]
      /\ \A p \in Phrases : phrases'[p] = IF pub[w][p] > 0 THEN pub[w][p] ELSE phrases[p]
  BY FinalEffect DEF WholeContext
<1>3. MineWhole'
  BY <1>2 DEF MineWhole
<1>4. \A v \in Workers : PageWhole(v)' /\ EndWhole(v)'
  BY <1>1, <1>2 DEF PageWhole, EndWhole, Same, AtEnd
<1>5. StampWhole'
  <2> SUFFICES ASSUME ~together', ~Fleeting', sum[w] = evidence,
                      NEW p \in Phrases, Tally(evidence, p) >= Min
               PROVE  phrases'[p] = Tally(evidence, p)
    BY <1>1, <1>2 DEF StampWhole, Same, Tally
  <2>1. mine.open /\ sum[w] = mine.sum /\ pub[w] = Frequent /\ ~together
    BY <1>1, <1>2 DEF WholeContext, AloneInv, Hand, AtEnd
  <2>2. Same(mine.sum)
    BY <1>1, <2>1 DEF Same
  <2>3. Counting = Upto(mine.cursor) /\ CountsAre(Counting)
    BY <2>1, <2>2 DEF WholeContext, WholeInv, MineWhole
  <2>4. \A s \in evidence : s <= mine.cursor
    BY <1>2, <2>2 DEF WholeContext, WholeInv, EndWhole, AtEnd
  <2>5. Counting = evidence
    BY <2>3, <2>4 DEF Upto
  <2>6. counts[p] = Tally(evidence, p)
    BY <2>3, <2>5 DEF CountsAre
  <2>7. pub[w][p] = counts[p]
    BY <2>1, <2>6 DEF Frequent
  <2>8. counts[p] \in Nat /\ counts[p] > 0
    <3>1. counts[p] \in Nat
      BY TypeParts DEF WholeContext, TableType
    <3> QED
      BY <2>6, <3>1, MineAssumption
  <2> QED
    BY <1>2, <2>6, <2>7, <2>8
<1> QED
  BY <1>3, <1>4, <1>5 DEF WholeInv

\* Every step keeps the invariant.
LEMMA StepWhole == WholeContext /\ [Next]_vars => WholeInv'
<1> SUFFICES ASSUME WholeContext, [Next]_vars
             PROVE  WholeInv'
  OBVIOUS
<1>1. CASE UNCHANGED vars
  BY <1>1 DEF vars, corpusVars, tableVars, workVars, boundVars, WholeContext, WholeInv, MineWhole,
              PageWhole, EndWhole, StampWhole, Same, Fleeting, Counting, CountsAre, Upto, Tally,
              Claimed, PageAbove
<1>2. ASSUME NEW w \in Workers, Work(w) \/ Fail(w)
      PROVE  WholeInv'
  <2>1. CASE Quiet(w)
    <3>1. UNCHANGED tableVars
      BY <2>1, QuietStep DEF Quiet, WholeContext
    <3> QED
      BY <1>2, <2>1, <3>1, QuietWhole
  <2>2. CASE Claim(w) /\ Claimable(w)
    BY <2>2, ClaimWhole DEF Work, PageStep
  <2>3. CASE Claim(w) /\ ~Claimable(w)
    <3>1. UNCHANGED tableVars /\ pc'[w] = "idle"
      BY <2>3, ClaimRefused DEF WholeContext
    <3> QED
      BY <1>2, <3>1, QuietWhole
  <2>4. CASE Abandon(w)
    BY <2>4, AbandonWhole DEF Work, EndStep
  <2>5. CASE Final(w) /\ SameMine(w)
    BY <2>5, FinalWhole DEF Work, EndStep
  <2>6. CASE Final(w) /\ ~SameMine(w)
    <3>1. UNCHANGED tableVars /\ pc'[w] = "idle"
      BY <2>6, FinalEffect DEF WholeContext
    <3> QED
      BY <1>2, <3>1, QuietWhole
  <2> QED
    BY <1>2, <2>1, <2>2, <2>3, <2>4, <2>5, <2>6, Turns
<1> QED
  BY <1>1, <1>2, CorpusWhole DEF Next

\* With one worker at a time, killed and followed by others at any point, a
\* stamp that matches the corpus says that every phrase has the count the
\* corpus gives it.
THEOREM AloneRight == Spec => []AloneIsRight
<1>1. WholeInv => AloneIsRight
  BY DEF WholeInv, StampWhole, Same, AloneIsRight, PublishedRight
<1>2. Init => TypeOK /\ OnceInv /\ PastInv /\ AloneInv /\ WholeInv
  BY InitType, InitOnce, InitPast, InitAlone, InitWhole
<1>3. TypeOK /\ OnceInv /\ PastInv /\ AloneInv /\ WholeInv /\ [Next]_vars
      => TypeOK' /\ OnceInv' /\ PastInv' /\ AloneInv' /\ WholeInv'
  BY StepType, StepOnce, StepPast, StepAlone, StepWhole DEF WholeContext
<1> QED
  BY <1>1, <1>2, <1>3, PTL DEF Spec
===============================================================================
