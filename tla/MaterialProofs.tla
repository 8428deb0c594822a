--------------------------- MODULE MaterialProofs ---------------------------
(***************************************************************************)
(* What holds in the scenes of making and showing material, for every      *)
(* value of their constants.  A behaviour plays one scene and leaves the   *)
(* variables of the others as they were, so that an invariant of a scene's *)
(* module is shown without asking which scene is played, but where two or  *)
(* three scenes share their variables.                                     *)
(***************************************************************************)
EXTENDS StudyScenes, TLAPS, FiniteSetTheorems

\* Division of a natural by a positive number, and that it is the only one.
LEMMA DivMod ==
    ASSUME NEW a \in Nat, NEW c \in Nat \ {0}
    PROVE  /\ a \div c \in Nat /\ a % c \in 0 .. c - 1
           /\ a = c * (a \div c) + (a % c)
OBVIOUS

LEMMA MultiplesApart ==
    ASSUME NEW c \in Nat \ {0}, NEW k \in Nat, NEW l \in Nat, k < l
    PROVE  c * k + c <= c * l
<1>1. PICK d \in Nat : l = k + 1 + d
  <2>1. l - k - 1 \in Nat
    OBVIOUS
  <2>2. l = k + 1 + (l - k - 1)
    OBVIOUS
  <2> QED
    BY <2>1, <2>2
<1>2. c * l = c * k + c + c * d
  BY <1>1
<1>3. c * d \in Nat
  BY <1>1
<1>4. c * k \in Nat /\ c * l \in Nat
  OBVIOUS
<1> QED
  BY <1>2, <1>3, <1>4

LEMMA DivUnique ==
    ASSUME NEW a \in Nat, NEW c \in Nat \ {0}, NEW k \in Nat, NEW m \in 0 .. c - 1, a = c * k + m
    PROVE  a \div c = k /\ a % c = m
<1>1. PICK l \in Nat, n \in 0 .. c - 1 : l = a \div c /\ n = a % c
  BY DivMod
<1>2. a = c * l + n
  BY <1>1, DivMod
<1>3. c * k \in Nat /\ c * l \in Nat
  BY <1>1
<1>4. ~(k < l)
  BY <1>1, <1>2, <1>3, MultiplesApart
<1>5. ~(l < k)
  BY <1>1, <1>2, <1>3, MultiplesApart
<1>6. k = l
  BY <1>1, <1>4, <1>5
<1> QED
  BY <1>1, <1>2, <1>3, <1>6
-----------------------------------------------------------------------------
\* A step is a step of each of these modules or leaves its variables alone.
LEMMA SceneSteps ==
    [MaterialNext]_material => /\ [Answers!Next]_(Answers!vars)
                               /\ [Lessons!Next]_(Lessons!vars)
                               /\ scene' = scene
                               /\ scene = "spoken" => [Spoken!Next]_voicing
                               /\ scene = "fetched" => [Fetched!Next]_voicing
                               /\ scene = "listed" => [Listed!Next]_voicing
                               /\ [Fast!Next]_(Fast!vars)
                               /\ scene = "paged" => [Paged!Next]_reading
                               /\ scene = "worded" => [Worded!Next]_reading
<1>1. /\ UNCHANGED answers => UNCHANGED Answers!vars
      /\ UNCHANGED lessons => UNCHANGED Lessons!vars
      /\ UNCHANGED fast => UNCHANGED Fast!vars
  BY DEF answers, lessons, fast, Answers!vars, Lessons!vars, Fast!vars
<1>2. UNCHANGED material => UNCHANGED <<scene, answers, lessons, voicing, fast, reading>>
  BY DEF material
<1> QED
  BY <1>1, <1>2 DEF MaterialNext
-----------------------------------------------------------------------------
(***************************************************************************)
(* The stored answers of the language model (LlmCache).                    *)
(***************************************************************************)

Asking == [at : {"rest", "lock", "look", "call", "store"}, prompt : Questions \cup {""},
           dropped : BOOLEAN]

\* Whoever looks, asks or stores holds the lock of the prompt alone, and what is asked
\* for is not stored.
PaidInv ==
    /\ request \in [Askers -> Asking]
    /\ answer \in [Questions -> {"none", "good", "refused"}]
    /\ \A x \in Askers : request[x].at # "rest" => request[x].prompt \in Questions
    /\ \A x, y \in Askers :
          Answers!Holds(x) /\ Answers!Holds(y) /\ request[x].prompt = request[y].prompt => x = y
    /\ \A x \in Askers : request[x].at \in {"call", "store"} => answer[request[x].prompt] # "good"

\* Who comes to rest, or first names a prompt, holds nothing; whatever becomes of the
\* answers to the prompt of who rests, they are good for nobody who asks.
LEMMA AskerRests ==
    ASSUME PaidInv, NEW x \in Askers, NEW q \in Asking, q.at \in {"rest", "lock"},
           q.at = "lock" => q.prompt \in Questions,
           request' = [request EXCEPT ![x] = q],
           answer' \in [Questions -> {"none", "good", "refused"}],
           \A p \in Questions : answer'[p] = "good" /\ answer[p] # "good" =>
                                   Answers!Holds(x) /\ request[x].prompt = p
    PROVE  PaidInv'
<1>1. request' \in [Askers -> Asking]
  BY DEF PaidInv
<1>2. request'[x] = q /\ \A y \in Askers \ {x} : request'[y] = request[y]
  BY DEF PaidInv
<1>3. \A y \in Askers : request'[y].at # "rest" => request'[y].prompt \in Questions
  BY <1>2 DEF PaidInv
<1>4. \A y \in Askers : Answers!Holds(y)' => y # x /\ Answers!Holds(y)
  BY <1>2 DEF Answers!Holds
<1>5. \A y, z \in Askers :
        Answers!Holds(y)' /\ Answers!Holds(z)' /\ request'[y].prompt = request'[z].prompt => y = z
  BY <1>2, <1>4 DEF PaidInv
<1>6. ASSUME NEW y \in Askers, request'[y].at \in {"call", "store"}
      PROVE  answer'[request'[y].prompt] # "good"
  <2>1. y # x /\ Answers!Holds(y) /\ request'[y] = request[y]
    BY <1>2, <1>6 DEF Answers!Holds
  <2>2. request[y].prompt \in Questions /\ answer[request[y].prompt] # "good"
    BY <1>6, <2>1 DEF PaidInv, Answers!Holds
  <2>3. ~(Answers!Holds(x) /\ request[x].prompt = request[y].prompt)
    BY <2>1 DEF PaidInv
  <2> QED
    BY <2>1, <2>2, <2>3
<1> QED
  BY <1>1, <1>3, <1>5, <1>6 DEF PaidInv

\* Under its lock a request goes on; it asks when there is no good answer.
LEMMA AskerMoves ==
    ASSUME PaidInv, NEW x \in Askers, request[x].at # "rest", NEW q \in Asking,
           q.prompt = request[x].prompt, q.at \in {"look", "call", "store"},
           request' = [request EXCEPT ![x] = q], UNCHANGED answer,
           Answers!Holds(x) \/ Answers!LockFree(request[x].prompt),
           q.at # "look" => answer[q.prompt] # "good"
    PROVE  PaidInv'
<1>1. request' \in [Askers -> Asking]
  BY DEF PaidInv
<1>2. request'[x] = q /\ \A y \in Askers \ {x} : request'[y] = request[y]
  BY DEF PaidInv
<1>3. \A y \in Askers : request'[y].at # "rest" => request'[y].prompt \in Questions
  BY <1>2 DEF PaidInv
<1>4. \A y \in Askers \ {x} : Answers!Holds(y) => request[y].prompt # request[x].prompt
  BY DEF PaidInv, Answers!LockFree
<1>5. \A y \in Askers \ {x} : Answers!Holds(y)' <=> Answers!Holds(y)
  BY <1>2 DEF Answers!Holds
<1>6. \A y, z \in Askers :
        Answers!Holds(y)' /\ Answers!Holds(z)' /\ request'[y].prompt = request'[z].prompt => y = z
  BY <1>2, <1>4, <1>5 DEF PaidInv
<1>7. \A y \in Askers : request'[y].at \in {"call", "store"} => answer[request'[y].prompt] # "good"
  BY <1>2 DEF PaidInv
<1> QED
  BY <1>1, <1>3, <1>6, <1>7 DEF PaidInv

LEMMA PaidInvariant == MaterialSpec => []PaidInv
<1>1. MaterialInit => PaidInv
  <2> SUFFICES ASSUME MaterialInit
               PROVE  PaidInv
    OBVIOUS
  <2>1. Answers!Init
    BY DEF MaterialInit
  <2>2. Answers!Asleep \in Asking /\ Answers!Asleep.at = "rest"
    BY DEF Answers!Asleep, Asking
  <2> QED
    BY <2>1, <2>2 DEF Answers!Init, PaidInv, Answers!Holds
<1>2. PaidInv /\ [Answers!Next]_(Answers!vars) => PaidInv'
  <2> SUFFICES ASSUME PaidInv, [Answers!Next]_(Answers!vars)
               PROVE  PaidInv'
    OBVIOUS
  <2>0. Answers!Asleep \in Asking /\ Answers!Asleep.at = "rest"
    BY DEF Answers!Asleep, Asking
  <2>1. ASSUME NEW x \in Askers, NEW p \in Questions, Answers!Generate(x, p)
        PROVE  PaidInv'
    <3>1. PICK q \in Asking : q = [at |-> "lock", prompt |-> p, dropped |-> FALSE]
      BY DEF Asking
    <3>2. request' = [request EXCEPT ![x] = q] /\ answer' = answer
      BY <2>1, <3>1 DEF Answers!Generate
    <3> QED
      BY <3>1, <3>2, AskerRests DEF PaidInv
  <2>2. ASSUME NEW x \in Askers, Answers!Lock(x), UNCHANGED answer
        PROVE  PaidInv'
    <3>1. PICK q \in Asking : q = [request[x] EXCEPT !.at = "look"]
      BY DEF Asking, PaidInv
    <3>2. /\ request' = [request EXCEPT ![x] = q] /\ request[x].at = "lock"
          /\ Answers!LockFree(request[x].prompt)
      BY <2>2, <3>1 DEF Answers!Lock, Answers!On, Answers!To
    <3>3. q.at = "look" /\ q.prompt = request[x].prompt
      BY <3>1 DEF PaidInv, Asking
    <3> QED
      BY <2>2, <3>2, <3>3, AskerMoves
  <2>3. ASSUME NEW x \in Askers, Answers!Look(x), UNCHANGED answer
        PROVE  PaidInv'
    <3>1. request[x].at = "look" /\ Answers!Holds(x)
      BY <2>3 DEF Answers!Look, Answers!On, Answers!Holds
    <3>2. CASE answer[request[x].prompt] = "good"
      <4>1. request' = [request EXCEPT ![x] = Answers!Asleep]
        BY <2>3, <3>2 DEF Answers!Look
      <4> QED
        BY <2>0, <2>3, <4>1, AskerRests DEF PaidInv
    <3>3. CASE answer[request[x].prompt] # "good"
      <4>1. PICK b \in BOOLEAN : b = (answer[request[x].prompt] = "refused")
        OBVIOUS
      <4>2. PICK q \in Asking : q = [request[x] EXCEPT !.at = "call", !.dropped = b]
        BY DEF Asking, PaidInv
      <4>3. request' = [request EXCEPT ![x] = q]
        BY <2>3, <3>3, <4>1, <4>2 DEF Answers!Look
      <4>4. q.at = "call" /\ q.prompt = request[x].prompt
        BY <4>2 DEF PaidInv, Asking
      <4> QED
        BY <2>3, <3>1, <3>3, <4>3, <4>4, AskerMoves
    <3> QED
      BY <3>2, <3>3
  <2>4. ASSUME NEW x \in Askers, Answers!Call(x)
        PROVE  PaidInv'
    <3>1. request[x].at = "call" /\ Answers!Holds(x) /\ answer[request[x].prompt] # "good"
      BY <2>4 DEF Answers!Call, Answers!On, Answers!Holds, PaidInv
    <3>2. CASE Answers!To(x, "store") /\ UNCHANGED answer
      <4>1. PICK q \in Asking : q = [request[x] EXCEPT !.at = "store"]
        BY DEF Asking, PaidInv
      <4>2. request' = [request EXCEPT ![x] = q]
        BY <3>2, <4>1 DEF Answers!To
      <4>3. q.at = "store" /\ q.prompt = request[x].prompt
        BY <4>1 DEF PaidInv, Asking
      <4> QED
        BY <3>1, <3>2, <4>2, <4>3, AskerMoves
    <3>3. CASE /\ \/ answer' = [answer EXCEPT ![request[x].prompt] = "none"]
                  \/ answer' = answer
               /\ request' = [request EXCEPT ![x] = Answers!Asleep]
      <4>1. /\ answer' \in [Questions -> {"none", "good", "refused"}]
            /\ \A p \in Questions : answer'[p] = "good" => answer[p] = "good"
        BY <3>1, <3>3 DEF PaidInv
      <4> QED
        BY <2>0, <3>3, <4>1, AskerRests
    <3> QED
      BY <2>4, <3>2, <3>3 DEF Answers!Call
  <2>5. ASSUME NEW x \in Askers, Answers!StoreAnswer(x)
        PROVE  PaidInv'
    <3>1. /\ request[x].at = "store" /\ Answers!Holds(x) /\ request[x].prompt \in Questions
          /\ answer' = [answer EXCEPT ![request[x].prompt] = "good"]
          /\ request' = [request EXCEPT ![x] = Answers!Asleep]
      BY <2>5 DEF Answers!StoreAnswer, Answers!On, Answers!Holds, PaidInv
    <3>2. /\ answer' \in [Questions -> {"none", "good", "refused"}]
          /\ \A p \in Questions : p # request[x].prompt => answer'[p] = answer[p]
      BY <3>1 DEF PaidInv
    <3> QED
      BY <2>0, <3>1, <3>2, AskerRests
  <2>6. ASSUME NEW x \in Askers, Answers!Die(x)
        PROVE  PaidInv'
    BY <2>0, <2>6, AskerRests DEF Answers!Die, PaidInv
  <2>7. ASSUME NEW p \in Questions, Answers!Stricter(p)
        PROVE  PaidInv'
    <3>1. /\ \A x \in Askers : request[x].at = "rest"
          /\ request' = request /\ answer' = [answer EXCEPT ![p] = "refused"]
      BY <2>7 DEF Answers!Stricter, Answers!On
    <3> QED
      BY <3>1 DEF PaidInv, Answers!Holds
  <2>8. CASE UNCHANGED Answers!vars
    BY <2>8 DEF Answers!vars, PaidInv, Answers!Holds
  <2> QED
    BY <2>1, <2>2, <2>3, <2>4, <2>5, <2>6, <2>7, <2>8 DEF Answers!Next, Answers!Locked
<1> QED
  BY <1>1, <1>2, SceneSteps, PTL DEF MaterialSpec
-----------------------------------------------------------------------------
(***************************************************************************)
(* The syllabus of a language and its imports (RuleImport).                *)
(***************************************************************************)

Importing == [at : {"rest", "check", "lock", "ask", "commit"}, call : DOMAIN Calls, chunk : Nat,
              seen : SUBSET Slugs, existing : SUBSET Slugs, found : SUBSET Slugs,
              refused : BOOLEAN]
Cursor == [next : Nat \ {0}, completed : BOOLEAN]

ImportTypes ==
    /\ importer \in [Importers -> Importing] /\ progress \in [DOMAIN Calls -> Cursor]
    /\ rules = [s \in Slugs |-> rules[s]]

\* One import has the lock of the language, and reads the chunk progress is at.
RoundInv ==
    /\ \A r, q \in Importers : Lessons!Locks(r) /\ Lessons!Locks(q) => r = q
    /\ \A r \in Importers : Lessons!Locks(r) =>
          LET now == progress[importer[r].call]
          IN  importer[r].chunk = now.next /\ ~now.completed

\* The points an import has seen are taught, by these titles or by others.
SeenInv == \A r \in Importers : \A s \in importer[r].seen : SenseOf[s] \in Lessons!Taught

\* An answer, saved or at hand, that brings nothing new leaves nothing to bring.
SavedInv ==
    \A a \in saved : /\ a.points \subseteq Slugs
                     /\ a.points \subseteq a.prompt.covered =>
                           Calls[a.prompt.call].chunks[a.prompt.chunk] \subseteq a.prompt.covered
FoundInv ==
    \A r \in Importers :
        importer[r].at = "commit" /\ importer[r].found \subseteq importer[r].seen =>
            importer[r].refused \/ Lessons!Chunk(r) \subseteq importer[r].seen

\* What came into the syllabus since a round began is late.
ExistingInv ==
    \A r \in Importers : Lessons!Locks(r) =>
        /\ importer[r].existing \subseteq Lessons!Stored
        /\ Lessons!Stored \ aside \subseteq importer[r].existing

ImportInv == /\ ImportTypes /\ RoundInv /\ SeenInv /\ SavedInv /\ FoundInv /\ ExistingInv
             /\ Lessons!ReadThrough /\ Lessons!TaughtOnce

\* An import that leaves the lock, or does not have it, and what it has seen.
LEMMA ImportRests ==
    ASSUME ImportInv, NEW r \in Importers, NEW q \in Importing, q.at \in {"rest", "check", "lock"},
           q.seen \subseteq importer[r].seen, importer' = [importer EXCEPT ![r] = q],
           UNCHANGED <<rules, progress, saved, aside>>
    PROVE  ImportInv'
<1>1. ImportTypes /\ ImportTypes'
  BY DEF ImportInv, ImportTypes
<1>2. importer'[r] = q /\ \A p \in Importers \ {r} : importer'[p] = importer[p]
  BY <1>1 DEF ImportTypes
<1>3. \A p \in Importers : Lessons!Locks(p)' => p # r /\ Lessons!Locks(p)
  BY <1>2 DEF Lessons!Locks
<1>4. RoundInv'
  BY <1>2, <1>3 DEF ImportInv, RoundInv
<1>5. Lessons!Stored' = Lessons!Stored /\ Lessons!Taught' = Lessons!Taught
  BY DEF Lessons!Stored, Lessons!Taught
<1>6. SeenInv'
  BY <1>2, <1>5 DEF ImportInv, SeenInv
<1>7. SavedInv'
  BY DEF ImportInv, SavedInv
<1>8. FoundInv'
  BY <1>2 DEF ImportInv, FoundInv, Lessons!Chunk, Lessons!Chunks
<1>9. ExistingInv'
  BY <1>2, <1>3, <1>5 DEF ImportInv, ExistingInv
<1>10. Lessons!ReadThrough' /\ Lessons!TaughtOnce'
  BY <1>5 DEF ImportInv, Lessons!ReadThrough, Lessons!TaughtOnce, Lessons!Chunks
<1> QED
  BY <1>1, <1>4, <1>6, <1>7, <1>8, <1>9, <1>10 DEF ImportInv

LEMMA RestImports == Lessons!Rest \in Importing /\ Lessons!Rest.at = "rest" /\ Lessons!Rest.seen = {}
<1>1. 1 \in DOMAIN Calls
  BY ImportAssumption
<1> QED
  BY <1>1 DEF Lessons!Rest, Importing

LEMMA NextCallGoes ==
    ASSUME ImportTypes, NEW r \in Importers, Lessons!NextCall(r)
    PROVE  \E q \in Importing : /\ q.at \in {"rest", "check"} /\ q.seen = {}
                                /\ importer' = [importer EXCEPT ![r] = q]
<1>1. importer[r].call \in DOMAIN Calls /\ DOMAIN Calls = 1 .. Len(Calls) /\ Len(Calls) \in Nat
  BY ImportAssumption DEF ImportTypes, Importing
<1>2. CASE importer[r].call < Len(Calls)
  <2>1. PICK n \in DOMAIN Calls : n = importer[r].call + 1
    BY <1>1, <1>2
  <2>2. PICK q : q = [Lessons!Rest EXCEPT !.at = "check", !.call = n]
    OBVIOUS
  <2>3. q \in Importing /\ q.at = "check" /\ q.seen = {}
    BY <2>2, RestImports DEF Importing
  <2>4. importer' = [importer EXCEPT ![r] = q]
    BY <1>2, <2>1, <2>2 DEF Lessons!NextCall, ImportTypes
  <2> QED
    BY <2>3, <2>4
<1>3. CASE ~(importer[r].call < Len(Calls))
  <2>1. importer' = [importer EXCEPT ![r] = Lessons!Rest]
    BY <1>3 DEF Lessons!NextCall, ImportTypes
  <2> QED
    BY <2>1, RestImports
<1> QED
  BY <1>2, <1>3

\* The steps of an import before a round, and a round that is rolled back or left.
LEMMA ImportWaits ==
    ASSUME ImportInv, NEW r \in Importers,
           \/ Lessons!Begin(r) \/ Lessons!IsComplete(r) \/ Lessons!Pending(r) \/ Lessons!Fail(r)
    PROVE  ImportInv'
<1>1. ImportTypes
  BY DEF ImportInv
<1>2. UNCHANGED <<rules, progress, saved, aside>>
  BY DEF Lessons!Begin, Lessons!IsComplete, Lessons!Pending, Lessons!Fail
<1>3. \/ Lessons!NextCall(r)
      \/ importer' = [importer EXCEPT ![r] = Lessons!Rest]
      \/ importer' = [importer EXCEPT ![r] = [Lessons!Rest EXCEPT !.at = "check"]]
      \/ importer' = [importer EXCEPT ![r].at = "lock"]
  BY DEF Lessons!Begin, Lessons!IsComplete, Lessons!Pending, Lessons!Fail
<1>4. CASE Lessons!NextCall(r)
  <2>1. PICK q \in Importing : /\ q.at \in {"rest", "check"} /\ q.seen = {}
                               /\ importer' = [importer EXCEPT ![r] = q]
    BY <1>1, <1>4, NextCallGoes
  <2> QED
    BY <1>2, <2>1, ImportRests
<1>5. CASE importer' = [importer EXCEPT ![r] = Lessons!Rest]
  BY <1>2, <1>5, RestImports, ImportRests
<1>6. CASE importer' = [importer EXCEPT ![r] = [Lessons!Rest EXCEPT !.at = "check"]]
  <2>1. PICK q \in Importing : q = [Lessons!Rest EXCEPT !.at = "check"]
    BY RestImports DEF Importing
  <2>2. q.at = "check" /\ q.seen = {}
    BY <2>1, RestImports DEF Importing
  <2> QED
    BY <1>2, <1>6, <2>1, <2>2, ImportRests
<1>7. CASE importer' = [importer EXCEPT ![r].at = "lock"]
  <2>1. PICK q \in Importing : q = [importer[r] EXCEPT !.at = "lock"]
    BY <1>1 DEF ImportTypes, Importing
  <2>2. q.at = "lock" /\ q.seen = importer[r].seen
    BY <1>1, <2>1 DEF ImportTypes, Importing
  <2>3. importer' = [importer EXCEPT ![r] = q]
    BY <1>7, <2>1
  <2> QED
    BY <1>2, <2>2, <2>3, ImportRests
<1> QED
  BY <1>3, <1>4, <1>5, <1>6, <1>7

\* Under the lock, an import takes over the syllabus and the cursor as they are.
LEMMA BeginRoundKeeps ==
    ASSUME ImportInv, NEW r \in Importers, Lessons!BeginRound(r)
    PROVE  ImportInv'
<1>1. PICK done : done = progress[importer[r].call]
  OBVIOUS
<1>2. /\ UNCHANGED <<rules, progress, saved, aside>> /\ importer[r].at = "lock"
      /\ \A q \in Importers : ~Lessons!Locks(q)
  BY DEF Lessons!BeginRound, Lessons!At, Lessons!LockFree
<1>3. ImportTypes
  BY DEF ImportInv
<1>4. CASE done.completed
  <2>1. Lessons!NextCall(r)
    BY <1>1, <1>4 DEF Lessons!BeginRound
  <2>2. PICK q \in Importing : /\ q.at \in {"rest", "check"} /\ q.seen = {}
                               /\ importer' = [importer EXCEPT ![r] = q]
    BY <1>3, <2>1, NextCallGoes
  <2> QED
    BY <1>2, <2>2, ImportRests
<1>5. CASE ~done.completed
  <2>1. importer[r] \in Importing /\ done \in Cursor /\ Lessons!Stored \subseteq Slugs
    BY <1>1, <1>3 DEF ImportTypes, Importing, Lessons!Stored
  <2>2. PICK kept \in SUBSET importer[r].seen :
          kept = IF importer[r].chunk = done.next THEN importer[r].seen ELSE {}
    OBVIOUS
  <2>3. PICK q : q = [importer[r] EXCEPT !.at = "ask", !.existing = Lessons!Stored,
                                         !.seen = kept, !.chunk = done.next]
    OBVIOUS
  <2>4. /\ q \in Importing /\ q.at = "ask" /\ q.existing = Lessons!Stored /\ q.seen = kept
        /\ q.chunk = done.next /\ q.call = importer[r].call
    BY <2>1, <2>2, <2>3 DEF Importing, Cursor
  <2>5. importer' = [importer EXCEPT ![r] = q]
    BY <1>1, <1>3, <1>5, <2>2, <2>3 DEF Lessons!BeginRound, ImportTypes
  <2>6. ImportTypes'
    BY <1>2, <1>3, <2>4, <2>5 DEF ImportTypes
  <2>7. importer'[r] = q /\ \A p \in Importers \ {r} : importer'[p] = importer[p]
    BY <1>3, <2>5 DEF ImportTypes
  <2>8. \A p \in Importers : Lessons!Locks(p)' => p = r
    BY <1>2, <2>7 DEF Lessons!Locks
  <2>9. RoundInv'
    BY <1>1, <1>2, <1>5, <2>4, <2>7, <2>8 DEF RoundInv
  <2>10. Lessons!Stored' = Lessons!Stored /\ Lessons!Taught' = Lessons!Taught
    BY <1>2 DEF Lessons!Stored, Lessons!Taught
  <2>11. SeenInv'
    BY <2>2, <2>4, <2>7, <2>10 DEF ImportInv, SeenInv
  <2>12. SavedInv'
    BY <1>2 DEF ImportInv, SavedInv
  <2>13. FoundInv'
    BY <2>4, <2>7 DEF ImportInv, FoundInv, Lessons!Chunk, Lessons!Chunks
  <2>14. ExistingInv'
    BY <2>4, <2>7, <2>8, <2>10 DEF ExistingInv
  <2>15. Lessons!ReadThrough' /\ Lessons!TaughtOnce'
    BY <1>2, <2>10 DEF ImportInv, Lessons!ReadThrough, Lessons!TaughtOnce, Lessons!Chunks
  <2> QED
    BY <2>6, <2>9, <2>11, <2>12, <2>13, <2>14, <2>15 DEF ImportInv
<1> QED
  BY <1>4, <1>5

\* Every call has chunks to read.
LEMMA CallsHaveChunks ==
    ASSUME NEW c \in DOMAIN Calls
    PROVE  Calls[c].chunks \in Seq(SUBSET Slugs) /\ Calls[c].chunks # <<>>
<1>1. PICK call : call = [level : Nat, chunks : Seq(SUBSET Slugs) \ {<<>>}]
  OBVIOUS
<1>2. Calls \in Seq(call)
  BY <1>1, ImportAssumption
<1>3. Calls[c] \in call
  BY <1>2
<1> QED
  BY <1>1, <1>3

\* The chunk a round reads is one of its call's.
LEMMA ChunkOfRound ==
    ASSUME ImportInv, NEW r \in Importers, Lessons!Locks(r)
    PROVE  Lessons!Chunk(r) \subseteq Slugs
<1>1. /\ importer[r].call \in DOMAIN Calls /\ progress[importer[r].call].next \in Nat \ {0}
      /\ importer[r].chunk = progress[importer[r].call].next
      /\ ~progress[importer[r].call].completed
  BY DEF ImportInv, ImportTypes, Importing, Cursor, RoundInv
<1>2. Calls[importer[r].call].chunks \in Seq(SUBSET Slugs)
  BY <1>1, CallsHaveChunks
<1>3. ~(importer[r].chunk > Len(Calls[importer[r].call].chunks))
  BY <1>1 DEF ImportInv, Lessons!ReadThrough, Lessons!Chunks
<1>4. importer[r].chunk \in 1 .. Len(Calls[importer[r].call].chunks)
  BY <1>1, <1>2, <1>3
<1> QED
  BY <1>2, <1>4 DEF Lessons!Chunk, Lessons!Chunks

\* The model answers, or did before: an answer without refusals is kept.
LEMMA SynthesiseKeeps ==
    ASSUME ImportInv, NEW r \in Importers, Lessons!Synthesise(r)
    PROVE  ImportInv'
<1>1. importer[r].at = "ask" /\ Lessons!Locks(r) /\ UNCHANGED <<rules, progress, aside>>
  BY DEF Lessons!Synthesise, Lessons!At, Lessons!Locks
<1>2. ImportTypes /\ importer[r] \in Importing /\ SavedInv
  BY DEF ImportInv, ImportTypes
<1>3. Lessons!Chunk(r) \subseteq Slugs
  BY <1>1, ChunkOfRound
<1>4. PICK points \in SUBSET Slugs, refused1 \in BOOLEAN :
        /\ importer' = [importer EXCEPT ![r].at = "commit", ![r].found = points,
                                        ![r].refused = refused1]
        /\ points \subseteq importer[r].seen =>
              refused1 \/ Lessons!Chunk(r) \subseteq importer[r].seen
        /\ \/ saved' = saved
           \/ /\ ~refused1
              /\ saved' = saved \cup {[prompt |-> Lessons!Prompt(r), points |-> points]}
  <2>1. CASE \E a \in Lessons!SavedFor(Lessons!Prompt(r)) :
               /\ importer' = [importer EXCEPT ![r].at = "commit", ![r].found = a.points,
                                               ![r].refused = FALSE]
               /\ UNCHANGED saved
    <3>1. PICK a \in saved :
            /\ a.prompt = Lessons!Prompt(r) /\ UNCHANGED saved
            /\ importer' = [importer EXCEPT ![r].at = "commit", ![r].found = a.points,
                                            ![r].refused = FALSE]
      BY <2>1 DEF Lessons!SavedFor
    <3>2. /\ a.prompt.covered = importer[r].seen
          /\ Calls[a.prompt.call].chunks[a.prompt.chunk] = Lessons!Chunk(r)
      BY <3>1 DEF Lessons!Prompt, Lessons!Chunk, Lessons!Chunks
    <3>3. /\ a.points \in SUBSET Slugs
          /\ a.points \subseteq importer[r].seen => Lessons!Chunk(r) \subseteq importer[r].seen
      BY <1>2, <3>2 DEF SavedInv
    <3> QED
      BY <3>1, <3>3
  <2>2. CASE \E points \in SUBSET Lessons!Chunk(r), refused1 \in BOOLEAN :
               /\ points \subseteq importer[r].seen /\ ~refused1 =>
                     Lessons!Chunk(r) \subseteq importer[r].seen
               /\ IF refused1 THEN saved' = saved
                  ELSE saved' = saved \cup {[prompt |-> Lessons!Prompt(r), points |-> points]}
               /\ importer' = [importer EXCEPT ![r].at = "commit", ![r].found = points,
                                               ![r].refused = refused1]
    BY <1>3, <2>2
  <2> QED
    BY <2>1, <2>2 DEF Lessons!Synthesise
<1>5. PICK q : q = [importer[r] EXCEPT !.at = "commit", !.found = points, !.refused = refused1]
  OBVIOUS
<1>6. /\ q \in Importing /\ q.at = "commit" /\ q.found = points /\ q.refused = refused1
      /\ q.seen = importer[r].seen /\ q.call = importer[r].call
      /\ q.chunk = importer[r].chunk /\ q.existing = importer[r].existing
  BY <1>2, <1>5 DEF Importing
<1>7. importer' = [importer EXCEPT ![r] = q]
  BY <1>4, <1>5
<1>8. ImportTypes'
  BY <1>1, <1>2, <1>6, <1>7 DEF ImportTypes
<1>9. importer'[r] = q /\ \A p \in Importers \ {r} : importer'[p] = importer[p]
  BY <1>2, <1>7 DEF ImportTypes
<1>10. \A p \in Importers : Lessons!Locks(p)' <=> Lessons!Locks(p)
  BY <1>1, <1>6, <1>9 DEF Lessons!Locks
<1>11. RoundInv'
  BY <1>1, <1>6, <1>9, <1>10 DEF ImportInv, RoundInv
<1>12. Lessons!Stored' = Lessons!Stored /\ Lessons!Taught' = Lessons!Taught
  BY <1>1 DEF Lessons!Stored, Lessons!Taught
<1>13. SeenInv'
  BY <1>6, <1>9, <1>12 DEF ImportInv, SeenInv
<1>14. Lessons!Chunk(r)' = Lessons!Chunk(r)
       /\ \A p \in Importers \ {r} : Lessons!Chunk(p)' = Lessons!Chunk(p)
  BY <1>6, <1>9 DEF Lessons!Chunk, Lessons!Chunks
<1>15. FoundInv'
  BY <1>4, <1>6, <1>9, <1>14 DEF ImportInv, FoundInv
<1>16. SavedInv'
  <2> SUFFICES ASSUME NEW a \in saved', a \notin saved
               PROVE  /\ a.points \subseteq Slugs
                      /\ a.points \subseteq a.prompt.covered =>
                           Calls[a.prompt.call].chunks[a.prompt.chunk] \subseteq a.prompt.covered
    BY <1>2 DEF SavedInv
  <2>1. ~refused1 /\ a = [prompt |-> Lessons!Prompt(r), points |-> points]
    BY <1>4
  <2>2. /\ a.points = points /\ a.prompt.covered = importer[r].seen
        /\ Calls[a.prompt.call].chunks[a.prompt.chunk] = Lessons!Chunk(r)
    BY <2>1 DEF Lessons!Prompt, Lessons!Chunk, Lessons!Chunks
  <2> QED
    BY <1>4, <2>1, <2>2
<1>17. ExistingInv'
  BY <1>1, <1>6, <1>9, <1>10, <1>12 DEF ImportInv, ExistingInv
<1>18. Lessons!ReadThrough' /\ Lessons!TaughtOnce'
  BY <1>1, <1>12 DEF ImportInv, Lessons!ReadThrough, Lessons!TaughtOnce, Lessons!Chunks
<1> QED
  BY <1>8, <1>11, <1>13, <1>15, <1>16, <1>17, <1>18 DEF ImportInv

\* What an answer adds, with the titles it compares against: one title for each sense
\* that none of those teaches.
LEMMA DistinctTitles ==
    ASSUME NEW r \in Importers
    PROVE  /\ Lessons!Distinct(r) \subseteq importer[r].found \ importer[r].existing
           /\ \A s \in Lessons!Distinct(r) : \A t \in importer[r].existing : SenseOf[s] # SenseOf[t]
           /\ \A s, t \in Lessons!Distinct(r) : SenseOf[s] = SenseOf[t] => s = t
           /\ \A s \in importer[r].found :
                 \/ \E t \in importer[r].existing : SenseOf[t] = SenseOf[s]
                 \/ \E t \in Lessons!Distinct(r) : SenseOf[t] = SenseOf[s]
<1> DEFINE Title(sense) ==
             CHOOSE s \in importer[r].found \ importer[r].existing : SenseOf[s] = sense
<1>1. ASSUME NEW sense \in Lessons!NewSenses(r)
      PROVE  /\ Title(sense) \in importer[r].found \ importer[r].existing
             /\ SenseOf[Title(sense)] = sense
  <2>1. \E s \in importer[r].found \ importer[r].existing : SenseOf[s] = sense
    BY DEF Lessons!NewSenses
  <2> QED
    BY <2>1
<1>2. Lessons!Distinct(r) = {Title(sense) : sense \in Lessons!NewSenses(r)}
  BY DEF Lessons!Distinct
<1> HIDE DEF Title
<1>3. \A s \in Lessons!Distinct(r) : \E sense \in Lessons!NewSenses(r) : s = Title(sense)
  BY <1>2
<1>4. \A s \in Lessons!Distinct(r) : SenseOf[s] \in Lessons!NewSenses(r) /\ s = Title(SenseOf[s])
  BY <1>1, <1>3
<1>5. \A s \in Lessons!Distinct(r) : \A t \in importer[r].existing : SenseOf[s] # SenseOf[t]
  BY <1>4 DEF Lessons!NewSenses
<1>6. ASSUME NEW s \in importer[r].found
      PROVE  \/ \E t \in importer[r].existing : SenseOf[t] = SenseOf[s]
             \/ \E t \in Lessons!Distinct(r) : SenseOf[t] = SenseOf[s]
  <2>1. CASE SenseOf[s] \in Lessons!NewSenses(r)
    BY <1>1, <1>2, <2>1
  <2>2. CASE SenseOf[s] \notin Lessons!NewSenses(r)
    BY <2>2 DEF Lessons!NewSenses
  <2> QED
    BY <2>1, <2>2
<1> QED
  BY <1>1, <1>3, <1>4, <1>5, <1>6

\* The syllabus takes what is new, and the cursor moves on when nothing was.
LEMMA CommitKeeps ==
    ASSUME ImportInv, NEW r \in Importers, Lessons!Commit(r)
    PROVE  ImportInv'
<1>1. PICK c \in DOMAIN Calls, n \in Nat :
        c = importer[r].call /\ n = importer[r].chunk + (IF Lessons!Discovered(r) THEN 0 ELSE 1)
  BY DEF ImportInv, ImportTypes, Importing
<1>2. /\ importer[r].at = "commit" /\ Lessons!Locks(r)
      /\ Lessons!Discovered(r) \/ ~importer[r].refused
      /\ UNCHANGED <<saved, aside>>
      /\ rules' = [s \in Slugs |-> IF s \in Lessons!Distinct(r) /\ rules[s] = Lessons!None
                                   THEN [level |-> Calls[c].level, source |-> "pdf"] ELSE rules[s]]
      /\ progress' = [progress EXCEPT ![c] = [next |-> n, completed |-> n > Len(Calls[c].chunks)]]
      /\ IF n > Len(Calls[c].chunks) THEN Lessons!NextCall(r)
         ELSE importer' = [importer EXCEPT ![r].at = "lock", ![r].seen = @ \cup importer[r].found]
  BY <1>1 DEF Lessons!Commit, Lessons!At, Lessons!Locks, Lessons!Chunks
<1>3. /\ ImportTypes /\ importer[r] \in Importing /\ progress[c] \in Cursor
      /\ importer[r].chunk = progress[c].next /\ n \in Nat \ {0}
  BY <1>1, <1>2 DEF ImportInv, ImportTypes, RoundInv, Cursor
<1>4. PICK q \in Importing : /\ q.at \in {"rest", "check", "lock"}
                             /\ q.seen \subseteq importer[r].seen \cup importer[r].found
                             /\ importer' = [importer EXCEPT ![r] = q]
  <2>1. CASE n > Len(Calls[c].chunks)
    BY <1>2, <1>3, <2>1, NextCallGoes
  <2>2. CASE ~(n > Len(Calls[c].chunks))
    <3>1. PICK q \in Importing :
            q = [importer[r] EXCEPT !.at = "lock", !.seen = @ \cup importer[r].found]
      BY <1>3 DEF Importing
    <3>2. q.at = "lock" /\ q.seen = importer[r].seen \cup importer[r].found
      BY <1>3, <3>1 DEF Importing
    <3>3. importer' = [importer EXCEPT ![r] = q]
      BY <1>2, <2>2, <3>1
    <3> QED
      BY <3>2, <3>3
  <2> QED
    BY <2>1, <2>2
<1>5. importer'[r] = q /\ \A p \in Importers \ {r} : importer'[p] = importer[p]
  BY <1>3, <1>4 DEF ImportTypes
<1>6. PICK D \in SUBSET Slugs :
        /\ D = Lessons!Distinct(r)
        /\ D \subseteq importer[r].found \ importer[r].existing
        /\ \A s \in D : \A t \in importer[r].existing : SenseOf[s] # SenseOf[t]
        /\ \A s, t \in D : SenseOf[s] = SenseOf[t] => s = t
        /\ \A s \in importer[r].found :
              \/ \E t \in importer[r].existing : SenseOf[t] = SenseOf[s]
              \/ \E t \in D : SenseOf[t] = SenseOf[s]
  BY <1>3, DistinctTitles DEF Importing
<1>7. Lessons!Stored' = Lessons!Stored \cup D
  <2>1. [level |-> Calls[c].level, source |-> "pdf"] # Lessons!None
    BY DEF Lessons!None
  <2>2. \A s \in Slugs : rules'[s] # Lessons!None <=> s \in D \/ rules[s] # Lessons!None
    BY <1>2, <1>6, <2>1
  <2>3. Lessons!None' = Lessons!None
    BY DEF Lessons!None
  <2> QED
    BY <2>2, <2>3 DEF Lessons!Stored
<1>8. /\ Lessons!Taught \subseteq Lessons!Taught'
      /\ \A s \in importer[r].found : SenseOf[s] \in Lessons!Taught'
  <2>1. importer[r].existing \subseteq Lessons!Stored
    BY <1>2 DEF ImportInv, ExistingInv
  <2>2. \A s \in Lessons!Stored' : SenseOf[s] \in Lessons!Taught'
    BY DEF Lessons!Taught
  <2> QED
    BY <1>6, <1>7, <2>1, <2>2 DEF Lessons!Taught
<1>9. /\ progress'[c] = [next |-> n, completed |-> n > Len(Calls[c].chunks)]
      /\ \A d \in DOMAIN Calls \ {c} : progress'[d] = progress[d]
  BY <1>2, <1>3 DEF ImportTypes
<1>10. ImportTypes'
  <2>1. rules' = [s \in Slugs |-> rules'[s]]
    BY <1>2
  <2>2. progress'[c] \in Cursor
    BY <1>3, <1>9 DEF Cursor
  <2>3. progress' \in [DOMAIN Calls -> Cursor]
    BY <1>2, <1>3, <1>9, <2>2 DEF ImportTypes
  <2> QED
    BY <1>3, <1>4, <2>1, <2>3 DEF ImportTypes
<1>11. \A p \in Importers : ~Lessons!Locks(p)'
  BY <1>2, <1>4, <1>5 DEF ImportInv, RoundInv, Lessons!Locks
<1>12. RoundInv' /\ ExistingInv'
  BY <1>11 DEF RoundInv, ExistingInv
<1>13. SeenInv'
  BY <1>4, <1>5, <1>8 DEF ImportInv, SeenInv
<1>14. SavedInv'
  BY <1>2 DEF ImportInv, SavedInv
<1>15. FoundInv'
  BY <1>11 DEF FoundInv, Lessons!Locks
<1>16. Lessons!ReadThrough'
  <2>1. \A d \in DOMAIN Calls : \A m \in 1 .. progress[d].next - 1 : \A s \in Calls[d].chunks[m] :
           SenseOf[s] \in Lessons!Taught'
    BY <1>8 DEF ImportInv, Lessons!ReadThrough, Lessons!Chunks
  <2>2. \A m \in 1 .. n - 1 : \A s \in Calls[c].chunks[m] : SenseOf[s] \in Lessons!Taught'
    <3>1. CASE Lessons!Discovered(r)
      BY <1>1, <1>3, <2>1, <3>1 DEF Cursor
    <3>2. CASE ~Lessons!Discovered(r)
      <4>1. Calls[c].chunks[progress[c].next] \subseteq importer[r].seen
        BY <1>1, <1>2, <1>3, <3>2
           DEF ImportInv, FoundInv, Lessons!Discovered, Lessons!Chunk, Lessons!Chunks
      <4>2. \A s \in Calls[c].chunks[progress[c].next] : SenseOf[s] \in Lessons!Taught'
        BY <1>8, <4>1 DEF ImportInv, SeenInv
      <4>3. n = progress[c].next + 1 /\ progress[c].next \in Nat
        BY <1>1, <1>3, <3>2 DEF Cursor
      <4> QED
        BY <2>1, <4>2, <4>3
    <3> QED
      BY <3>1, <3>2
  <2>3. \A d \in DOMAIN Calls \ {c} :
           progress[d].completed <=> progress[d].next > Len(Calls[d].chunks)
    BY DEF ImportInv, Lessons!ReadThrough, Lessons!Chunks
  <2>4. ASSUME NEW d \in DOMAIN Calls
        PROVE  /\ \A m \in 1 .. progress'[d].next - 1 : \A s \in Calls[d].chunks[m] :
                     SenseOf[s] \in Lessons!Taught'
               /\ progress'[d].completed <=> progress'[d].next > Len(Calls[d].chunks)
    <3>1. CASE d = c
      <4>1. progress'[d].next = n
        BY <1>9, <3>1
      <4>2. progress'[d].completed = (n > Len(Calls[c].chunks))
        BY <1>9, <3>1
      <4> QED
        BY <2>2, <3>1, <4>1, <4>2
    <3>2. CASE d # c
      BY <1>9, <2>1, <2>3, <3>2
    <3> QED
      BY <3>1, <3>2
  <2> QED
    BY <2>4 DEF Lessons!ReadThrough, Lessons!Chunks
<1>17. Lessons!TaughtOnce'
  <2>1. \A s \in D, t \in Lessons!Stored : SenseOf[s] = SenseOf[t] => t \in aside
    BY <1>2, <1>6 DEF ImportInv, ExistingInv
  <2>2. \A s, t \in Lessons!Stored : s # t /\ SenseOf[s] = SenseOf[t] => s \in aside \/ t \in aside
    BY DEF ImportInv, Lessons!TaughtOnce
  <2>3. \A s, t \in Lessons!Stored' : s # t /\ SenseOf[s] = SenseOf[t] => s \in aside' \/ t \in aside'
    BY <1>2, <1>6, <1>7, <2>1, <2>2
  <2> QED
    BY <2>3 DEF Lessons!TaughtOnce
<1> QED
  BY <1>10, <1>12, <1>13, <1>14, <1>15, <1>16, <1>17 DEF ImportInv

\* Another writer's row: late when it comes beside a round, or says a sense again.
LEMMA RuleWritten ==
    ASSUME ImportInv, NEW s \in Slugs, NEW v, v # Lessons!None,
           rules' = [rules EXCEPT ![s] = v], Lessons!LateIfNew(s),
           UNCHANGED <<importer, progress, saved>>
    PROVE  ImportInv'
<1>1. ImportTypes
  BY DEF ImportInv
<1>2. DOMAIN rules = Slugs
  BY <1>1 DEF ImportTypes
<1>3. Lessons!Stored' = Lessons!Stored \cup {s}
  <2>1. \A t \in Slugs : rules'[t] # Lessons!None <=> t = s \/ rules[t] # Lessons!None
    BY <1>2
  <2>2. Lessons!None' = Lessons!None
    BY DEF Lessons!None
  <2> QED
    BY <2>1, <2>2 DEF Lessons!Stored
<1>4. Lessons!Taught \subseteq Lessons!Taught'
  BY <1>3 DEF Lessons!Taught
<1>5. /\ aside \subseteq aside'
      /\ s \notin Lessons!Stored => \/ s \in aside'
                                    \/ Lessons!LockFree /\ SenseOf[s] \notin Lessons!Taught
  BY DEF Lessons!LateIfNew, Lessons!Stored
<1>6. ImportTypes'
  <2>1. rules' = [t \in Slugs |-> rules'[t]]
    BY <1>2
  <2> QED
    BY <1>1, <2>1 DEF ImportTypes
<1>7. \A p \in Importers : Lessons!Locks(p)' <=> Lessons!Locks(p)
  BY DEF Lessons!Locks
<1>8. RoundInv'
  BY <1>7 DEF ImportInv, RoundInv
<1>9. SeenInv'
  BY <1>4 DEF ImportInv, SeenInv
<1>10. SavedInv'
  BY DEF ImportInv, SavedInv
<1>11. FoundInv'
  BY DEF ImportInv, FoundInv, Lessons!Chunk, Lessons!Chunks
<1>12. ExistingInv'
  BY <1>3, <1>5, <1>7 DEF ImportInv, ExistingInv, Lessons!LockFree
<1>13. Lessons!ReadThrough'
  BY <1>4 DEF ImportInv, Lessons!ReadThrough, Lessons!Chunks
<1>14. Lessons!TaughtOnce'
  <2>1. \A t \in Lessons!Stored : SenseOf[t] \in Lessons!Taught
    BY DEF Lessons!Taught
  <2>2. \A t, u \in Lessons!Stored : t # u /\ SenseOf[t] = SenseOf[u] => t \in aside \/ u \in aside
    BY DEF ImportInv, Lessons!TaughtOnce
  <2>3. \A t, u \in Lessons!Stored' : t # u /\ SenseOf[t] = SenseOf[u] => t \in aside' \/ u \in aside'
    BY <1>3, <1>5, <2>1, <2>2
  <2> QED
    BY <2>3 DEF Lessons!TaughtOnce
<1> QED
  BY <1>6, <1>8, <1>9, <1>10, <1>11, <1>12, <1>13, <1>14 DEF ImportInv

\* Steps that write neither the syllabus nor an import.
LEMMA ImportStays ==
    ASSUME ImportInv, UNCHANGED <<rules, importer, progress, saved, aside>>
    PROVE  ImportInv'
<1>1. Lessons!Stored' = Lessons!Stored /\ Lessons!Taught' = Lessons!Taught
  BY DEF Lessons!Stored, Lessons!Taught
<1>2. ImportTypes' /\ SavedInv'
  BY DEF ImportInv, ImportTypes, SavedInv
<1>3. RoundInv'
  BY DEF ImportInv, RoundInv, Lessons!Locks
<1>4. SeenInv' /\ ExistingInv'
  BY <1>1 DEF ImportInv, SeenInv, ExistingInv, Lessons!Locks
<1>5. FoundInv'
  BY DEF ImportInv, FoundInv, Lessons!Chunk, Lessons!Chunks
<1>6. Lessons!ReadThrough' /\ Lessons!TaughtOnce'
  BY <1>1 DEF ImportInv, Lessons!ReadThrough, Lessons!TaughtOnce, Lessons!Chunks
<1> QED
  BY <1>2, <1>3, <1>4, <1>5, <1>6 DEF ImportInv

\* What the imports have left behind is taught, and nothing twice under the lock
\* (pdf_incremental.rs, pdf_matching.rs): the part of LessonsTaught about the syllabus.
LEMMA ImportInvariant == MaterialSpec => []ImportInv
<1>1. MaterialInit => ImportInv
  <2> SUFFICES ASSUME MaterialInit PROVE ImportInv
    OBVIOUS
  <2>1. /\ rules = [s \in Slugs |-> Lessons!None]
        /\ progress = [c \in DOMAIN Calls |-> [next |-> 1, completed |-> FALSE]]
        /\ saved = {} /\ importer = [r \in Importers |-> Lessons!Rest] /\ aside = {}
    BY DEF MaterialInit, Lessons!Init
  <2>2. Lessons!Stored = {}
    BY <2>1 DEF Lessons!Stored
  <2>3. ImportTypes
    BY <2>1, RestImports DEF ImportTypes, Cursor
  <2>4. \A r \in Importers : ~Lessons!Locks(r) /\ importer[r].seen = {} /\ importer[r].at = "rest"
    BY <2>1, RestImports DEF Lessons!Locks
  <2>5. RoundInv /\ SeenInv /\ SavedInv /\ FoundInv /\ ExistingInv
    BY <2>1, <2>4 DEF RoundInv, SeenInv, SavedInv, FoundInv, ExistingInv
  <2>6. Lessons!TaughtOnce
    BY <2>2 DEF Lessons!TaughtOnce
  <2>7. ASSUME NEW c \in DOMAIN Calls
        PROVE  ~(1 > Len(Calls[c].chunks))
    BY CallsHaveChunks
  <2>8. Lessons!ReadThrough
    BY <2>1, <2>7 DEF Lessons!ReadThrough, Lessons!Chunks
  <2> QED
    BY <2>3, <2>5, <2>6, <2>8 DEF ImportInv
<1>2. ImportInv /\ [Lessons!Next]_(Lessons!vars) => ImportInv'
  <2> SUFFICES ASSUME ImportInv, [Lessons!Next]_(Lessons!vars)
               PROVE  ImportInv'
    OBVIOUS
  <2>1. ASSUME NEW r \in Importers, Lessons!Import(r)
        PROVE  ImportInv'
    BY <2>1, ImportWaits, BeginRoundKeeps, SynthesiseKeeps, CommitKeeps DEF Lessons!Import
  <2>2. ASSUME NEW l \in Lessons!Levels, NEW kind \in {"seed", "fill"}, Lessons!AskForLevel(kind, l)
        PROVE  ImportInv'
    BY <2>2, ImportStays DEF Lessons!AskForLevel
  <2>3. ASSUME NEW s \in Slugs, Lessons!PlaceRule(s)
        PROVE  ImportInv'
    <3>1. UNCHANGED <<importer, progress, saved>>
      BY <2>3 DEF Lessons!PlaceRule
    <3>2. CASE UNCHANGED <<rules, aside>>
      BY <3>1, <3>2, ImportStays
    <3>3. CASE ~UNCHANGED <<rules, aside>>
      <4>1. PICK v : /\ v = [level |-> author.level,
                             source |-> IF author.kind = "seed" THEN "llm" ELSE "pdf"]
                     /\ rules' = [rules EXCEPT ![s] = v] /\ Lessons!LateIfNew(s)
        BY <2>3, <3>3 DEF Lessons!PlaceRule
      <4>2. v # Lessons!None
        BY <4>1 DEF Lessons!None
      <4> QED
        BY <3>1, <4>1, <4>2, RuleWritten
    <3> QED
      BY <3>2, <3>3
  <2>4. ASSUME NEW s \in Slugs, NEW l \in Lessons!Levels, Lessons!Curate(s, l)
        PROVE  ImportInv'
    <3>1. PICK v : /\ v = [level |-> l, source |-> "reference"]
                   /\ rules' = [rules EXCEPT ![s] = v] /\ Lessons!LateIfNew(s)
                   /\ UNCHANGED <<importer, progress, saved>>
      BY <2>4 DEF Lessons!Curate
    <3>2. v # Lessons!None
      BY <3>1 DEF Lessons!None
    <3> QED
      BY <3>1, <3>2, RuleWritten
  <2>5. ASSUME Lessons!LevelWritten
        PROVE  ImportInv'
    BY <2>5, ImportStays DEF Lessons!LevelWritten
  <2>6. CASE UNCHANGED Lessons!vars
    BY <2>6, ImportStays DEF Lessons!vars
  <2> QED
    BY <2>1, <2>2, <2>3, <2>4, <2>5, <2>6 DEF Lessons!Next
<1> QED
  BY <1>1, <1>2, SceneSteps, PTL DEF MaterialSpec
-----------------------------------------------------------------------------
(***************************************************************************)
(* The sentences of the grammar, spoken (SentenceClips).                   *)
(***************************************************************************)

Whole(q) == q = [at |-> q.at, kind |-> q.kind, id |-> q.id, card |-> q.card, clip |-> q.clip]

\* The sentence of a request that has read it was right then; so was all that is spoken.
VoicedInv == /\ asking = [s \in Players |-> asking[s]]
             /\ \A s \in Players : /\ Whole(asking[s])
                                   /\ asking[s].at = "read" => asking[s].clip[1] \in vouched
             /\ Spoken!NothingWrongSpoken

LEMMA VoicedStays ==
    ASSUME VoicedInv, UNCHANGED <<recorded, vouched, asking>>
    PROVE  VoicedInv'
BY DEF VoicedInv, Whole, Spoken!NothingWrongSpoken

LEMMA AskingMoves ==
    ASSUME VoicedInv, NEW s \in Players, NEW q, Whole(q), asking' = [asking EXCEPT ![s] = q],
           vouched \subseteq vouched', q.at = "read" => q.clip[1] \in vouched',
           Spoken!NothingWrongSpoken'
    PROVE  VoicedInv'
<1>1. asking'[s] = q /\ \A r \in Players \ {s} : asking'[r] = asking[r]
  BY DEF VoicedInv
<1>2. asking' = [r \in Players |-> asking'[r]]
  BY DEF VoicedInv
<1>3. ASSUME NEW r \in Players
      PROVE  Whole(asking'[r]) /\ (asking'[r].at = "read" => asking'[r].clip[1] \in vouched')
  <2>1. CASE r = s
    BY <1>1, <2>1
  <2>2. CASE r # s
    BY <1>1, <2>2 DEF VoicedInv
  <2> QED
    BY <2>1, <2>2
<1> QED
  BY <1>2, <1>3 DEF VoicedInv, Whole

\* What a device's name stands for was spoken before, or is right now.
LEMMA FetchSpeaks ==
    ASSUME Spoken!NothingWrongSpoken, NEW w, Spoken!Fetch(w) \/ Fetched!Fetch(w)
    PROVE  Spoken!NothingWrongSpoken' /\ vouched \subseteq vouched'
<1>1. PICK p, s : /\ p = work[w].clip /\ s = Spoken!SentenceServed(p)
                  /\ \/ /\ s # <<>> /\ recorded' = recorded \cup {<<s, voice>>}
                        /\ vouched' = IF p \in recorded THEN vouched
                              ELSE vouched \cup (Spoken!ExamplesOf(RuleAt[s[2]]) \cap {s})
                     \/ recorded' = recorded /\ vouched' = vouched
  BY DEF Spoken!Fetch, Fetched!Fetch, Spoken!Voiced, Fetched!Voiced, Spoken!SentenceServed,
         Fetched!SentenceServed, Spoken!Fingerprint, Fetched!Fingerprint, Spoken!NoClip,
         Fetched!NoClip, Spoken!ExamplesOf, Fetched!ExamplesOf, Spoken!Example, Fetched!Example
<1>2. CASE recorded' = recorded /\ vouched' = vouched
  BY <1>2 DEF Spoken!NothingWrongSpoken
<1>3. CASE /\ s # <<>> /\ recorded' = recorded \cup {<<s, voice>>}
           /\ vouched' = IF p \in recorded THEN vouched
                 ELSE vouched \cup (Spoken!ExamplesOf(RuleAt[s[2]]) \cap {s})
  <2>1. /\ s = p[1] /\ p = <<s, voice>>
        /\ \/ p \in recorded
           \/ \E e \in Samples : right[e] /\ p = <<<<"example", e>>, voice>>
    BY <1>1, <1>3 DEF Spoken!SentenceServed, Spoken!Fingerprint, Spoken!NoClip, Spoken!Example
  <2>2. CASE p \in recorded
    BY <1>3, <2>1, <2>2 DEF Spoken!NothingWrongSpoken
  <2>3. CASE p \notin recorded
    <3>1. PICK e \in Samples : right[e] /\ p = <<<<"example", e>>, voice>>
      BY <2>1, <2>3
    <3>2. s = <<"example", e>> /\ s[2] = e
      BY <2>1, <3>1
    <3>3. s \in Spoken!ExamplesOf(RuleAt[s[2]])
      BY <3>1, <3>2 DEF Spoken!ExamplesOf, Spoken!Example
    <3>4. vouched' = vouched \cup {s}
      BY <1>3, <2>3, <3>3
    <3> QED
      BY <1>3, <3>4 DEF Spoken!NothingWrongSpoken
  <2> QED
    BY <2>2, <2>3
<1> QED
  BY <1>1, <1>2, <1>3

\* A request of the web's practice: it reads, then speaks what it has read.
LEMMA RequestSpeaks ==
    ASSUME VoicedInv, NEW s \in Players, Spoken!Load(s) \/ Spoken!Speak(s)
    PROVE  VoicedInv'
<1>1. PICK r : r = asking[s]
  OBVIOUS
<1>2. Whole(r) /\ (r.at = "read" => r.clip[1] \in vouched)
  BY <1>1 DEF VoicedInv
<1>3. CASE Spoken!Load(s)
  <2>1. PICK x, found :
          /\ asking' = [asking EXCEPT ![s] = IF found THEN [r EXCEPT !.at = "read", !.clip = <<x, voice>>]
                                                      ELSE [r EXCEPT !.at = "refused"]]
          /\ vouched' = (IF found THEN vouched \cup {x} ELSE vouched) /\ recorded' = recorded
    <3>1. CASE r.kind = "example"
      <4>1. /\ asking' = [asking EXCEPT ![s] =
                   IF right[r.id] THEN [r EXCEPT !.at = "read", !.clip = <<Spoken!Example(r.id), voice>>]
                                  ELSE [r EXCEPT !.at = "refused"]]
            /\ vouched' = (IF right[r.id] THEN vouched \cup {Spoken!Example(r.id)} ELSE vouched)
            /\ recorded' = recorded
        BY <1>1, <1>3, <3>1 DEF Spoken!Load, Spoken!To, Spoken!Fingerprint, Spoken!Speakable
      <4> QED
        BY <4>1
    <3>2. CASE r.kind # "example"
      <4>1. PICK found : found = (<<Spoken!Asker(r), r.id>> \in earned)
        OBVIOUS
      <4>2. /\ asking' = [asking EXCEPT ![s] =
                   IF found THEN [r EXCEPT !.at = "read", !.clip = <<Spoken!Answer(r.id), voice>>]
                            ELSE [r EXCEPT !.at = "refused"]]
            /\ vouched' = (IF found THEN vouched \cup {Spoken!Answer(r.id)} ELSE vouched)
            /\ recorded' = recorded
        BY <1>1, <1>3, <3>2, <4>1 DEF Spoken!Load, Spoken!To, Spoken!Fingerprint, Spoken!Pronounced
      <4> QED
        BY <4>2
    <3> QED
      BY <3>1, <3>2
  <2>2. PICK q : q = IF found THEN [r EXCEPT !.at = "read", !.clip = <<x, voice>>]
                              ELSE [r EXCEPT !.at = "refused"]
    OBVIOUS
  <2>3. Whole(q) /\ (q.at = "read" => q.clip[1] \in vouched')
    <3>1. CASE found
      <4>1. q = [at |-> "read", kind |-> r.kind, id |-> r.id, card |-> r.card, clip |-> <<x, voice>>]
        BY <1>2, <2>2, <3>1 DEF Whole
      <4> QED
        BY <2>1, <3>1, <4>1 DEF Whole
    <3>2. CASE ~found
      <4>1. q = [at |-> "refused", kind |-> r.kind, id |-> r.id, card |-> r.card, clip |-> r.clip]
        BY <1>2, <2>2, <3>2 DEF Whole
      <4> QED
        BY <4>1 DEF Whole
    <3> QED
      BY <3>1, <3>2
  <2>4. Spoken!NothingWrongSpoken'
    BY <2>1 DEF VoicedInv, Spoken!NothingWrongSpoken
  <2> QED
    BY <2>1, <2>2, <2>3, <2>4, AskingMoves
<1>4. CASE Spoken!Speak(s)
  <2>1. PICK at \in {"spoken", "refused"} : asking' = [asking EXCEPT ![s] = [r EXCEPT !.at = at]]
    BY <1>1, <1>4 DEF Spoken!Speak, Spoken!To
  <2>2. PICK q : q = [r EXCEPT !.at = at]
    OBVIOUS
  <2>3. q = [at |-> at, kind |-> r.kind, id |-> r.id, card |-> r.card, clip |-> r.clip]
    BY <1>2, <2>2 DEF Whole
  <2>4. Whole(q) /\ q.at # "read"
    BY <2>3 DEF Whole
  <2>5. r.at = "read" /\ vouched' = vouched /\ recorded' \subseteq recorded \cup {r.clip}
    BY <1>1, <1>4 DEF Spoken!Speak, Spoken!Voiced
  <2>6. Spoken!NothingWrongSpoken'
    BY <1>2, <2>5 DEF VoicedInv, Spoken!NothingWrongSpoken
  <2> QED
    BY <2>1, <2>2, <2>4, <2>5, <2>6, AskingMoves
<1> QED
  BY <1>3, <1>4

\* The other steps of a request read nothing and speak nothing.
LEMMA RequestGoes ==
    ASSUME VoicedInv, NEW s \in Players,
           \/ \E e \in Samples : Spoken!AskExample(s, e)
           \/ \E c \in BOOLEAN : Spoken!Check(s, c)
           \/ \E i \in Spoken!Items : Spoken!AskElsewhere(s, i)
           \/ Spoken!AskAnswer(s) \/ Spoken!Deliver(s)
    PROVE  VoicedInv'
<1>1. UNCHANGED <<recorded, vouched>>
  BY DEF Spoken!AskExample, Spoken!Check, Spoken!AskElsewhere, Spoken!AskAnswer, Spoken!Deliver,
         Spoken!serverVars
<1>2. Spoken!NothingWrongSpoken'
  BY <1>1 DEF VoicedInv, Spoken!NothingWrongSpoken
<1>3. \/ asking' = asking
      \/ \E q : /\ asking' = [asking EXCEPT ![s] = q] /\ q.at # "read" /\ Whole(q)
  <2>1. ASSUME NEW kind, NEW i, NEW c
        PROVE  Whole(Spoken!Sent(kind, i, c)) /\ Spoken!Sent(kind, i, c).at # "read"
    BY DEF Whole, Spoken!Sent
  <2>2. Whole(Spoken!Rest) /\ Spoken!Rest.at # "read"
    BY DEF Whole, Spoken!Rest
  <2> QED
    BY <2>1, <2>2 DEF Spoken!AskExample, Spoken!Check, Spoken!AskElsewhere, Spoken!AskAnswer,
       Spoken!Deliver, Spoken!To, Spoken!AnswerRequest
<1> QED
  BY <1>1, <1>2, <1>3, VoicedStays, AskingMoves

\* A new voice: what was being read is refused.
LEMMA RevoiceRefuses ==
    ASSUME VoicedInv, Spoken!Revoice
    PROVE  VoicedInv'
<1>1. /\ UNCHANGED <<recorded, vouched>>
      /\ asking' = [s \in Players |-> IF asking[s].at = "read"
                                      THEN [asking[s] EXCEPT !.at = "refused"] ELSE asking[s]]
  BY DEF Spoken!Revoice
<1>2. ASSUME NEW s \in Players
      PROVE  Whole(asking'[s]) /\ asking'[s].at # "read"
  <2>1. CASE asking[s].at = "read"
    <3>1. PICK r : r = asking[s] /\ Whole(r) /\ asking'[s] = [r EXCEPT !.at = "refused"]
      BY <1>1, <2>1 DEF VoicedInv
    <3>2. asking'[s] = [at |-> "refused", kind |-> r.kind, id |-> r.id, card |-> r.card,
                        clip |-> r.clip]
      BY <3>1 DEF Whole
    <3> QED
      BY <3>2 DEF Whole
  <2>2. CASE asking[s].at # "read"
    BY <1>1, <2>2 DEF VoicedInv
  <2> QED
    BY <2>1, <2>2
<1>3. Spoken!NothingWrongSpoken'
  BY <1>1 DEF VoicedInv, Spoken!NothingWrongSpoken
<1>4. asking' = [s \in Players |-> asking'[s]]
  BY <1>1
<1> QED
  BY <1>2, <1>3, <1>4 DEF VoicedInv, Whole

\* Nothing wrong is spoken, to the web's practice or to a device (api/media.rs,
\* api/mobile_media.rs): the parts of LessonsTaught about the two scenes of clips.
LEMMA SpokenInvariant == MaterialSpec => [](scene = "spoken" => VoicedInv)
<1>1. MaterialInit => (scene = "spoken" => VoicedInv)
  <2> SUFFICES ASSUME MaterialInit, scene = "spoken" PROVE VoicedInv
    OBVIOUS
  <2>1. recorded = {} /\ asking = [s \in Players |-> Spoken!Rest]
    BY DEF MaterialInit, Spoken!Init
  <2>2. Whole(Spoken!Rest) /\ Spoken!Rest.at # "read"
    BY DEF Whole, Spoken!Rest
  <2> QED
    BY <2>1, <2>2 DEF VoicedInv, Spoken!NothingWrongSpoken
<1>2. VoicedInv /\ [Spoken!Next]_voicing => VoicedInv'
  <2> SUFFICES ASSUME VoicedInv, [Spoken!Next]_voicing
               PROVE  VoicedInv'
    OBVIOUS
  <2>1. CASE Spoken!Revoice
    BY <2>1, RevoiceRefuses
  <2>2. ASSUME NEW s \in Players,
               \/ \E e \in Samples : Spoken!AskExample(s, e)
               \/ \E c \in BOOLEAN : Spoken!Check(s, c)
               \/ \E i \in Spoken!Items : Spoken!AskElsewhere(s, i)
               \/ Spoken!AskAnswer(s) \/ Spoken!Deliver(s)
        PROVE  VoicedInv'
    BY <2>2, RequestGoes
  <2>3. ASSUME NEW s \in Players, Spoken!Load(s) \/ Spoken!Speak(s)
        PROVE  VoicedInv'
    BY <2>3, RequestSpeaks
  <2>4. ASSUME NEW w \in Spoken!Workers, Spoken!Fetch(w)
        PROVE  VoicedInv'
    <3>1. Spoken!NothingWrongSpoken' /\ vouched \subseteq vouched'
      BY <2>4, FetchSpeaks DEF VoicedInv
    <3>2. asking' = asking
      BY <2>4 DEF Spoken!Fetch, Spoken!webVars
    <3> QED
      BY <3>1, <3>2 DEF VoicedInv
  <2>5. CASE \/ \E e \in Samples : Spoken!Edit(e)
             \/ Spoken!Forward
             \/ \E u \in Pupils \cup {Spoken!Nobody} : Spoken!Sign(u)
             \/ Spoken!PullBank \/ Spoken!BeginPrefetch \/ Spoken!NextClip
             \/ \E p \in Spoken!Prints : Spoken!Tap(p)
             \/ \E w \in Spoken!Workers : Spoken!Write(w) \/ Spoken!Rename(w) \/ Spoken!Register(w)
                                          \/ Spoken!Look(w)
             \/ Spoken!Stop
    <3>1. UNCHANGED <<recorded, vouched, asking>>
      BY <2>5 DEF Spoken!Edit, Spoken!Forward, Spoken!Sign, Spoken!PullBank, Spoken!BeginPrefetch,
         Spoken!NextClip, Spoken!Tap, Spoken!Write, Spoken!Rename, Spoken!Register, Spoken!Look,
         Spoken!Stop, Spoken!serverVars, Spoken!webVars
    <3> QED
      BY <3>1, VoicedStays
  <2>6. CASE UNCHANGED voicing
    BY <2>6, VoicedStays DEF voicing
  <2> QED
    BY <2>1, <2>2, <2>3, <2>4, <2>5, <2>6 DEF Spoken!Next
<1>3. (scene = "spoken" => VoicedInv) /\ [MaterialNext]_material => (scene = "spoken" => VoicedInv)'
  BY <1>2, SceneSteps
<1> QED
  BY <1>1, <1>3, PTL DEF MaterialSpec

LEMMA FetchedInvariant == MaterialSpec => [](scene = "fetched" => Fetched!NothingWrongSpoken)
<1>1. MaterialInit => (scene = "fetched" => Fetched!NothingWrongSpoken)
  BY DEF MaterialInit, Fetched!Init, Fetched!NothingWrongSpoken
<1>2. Fetched!NothingWrongSpoken /\ [Fetched!Next]_voicing => Fetched!NothingWrongSpoken'
  <2> SUFFICES ASSUME Fetched!NothingWrongSpoken, [Fetched!Next]_voicing
               PROVE  Fetched!NothingWrongSpoken'
    OBVIOUS
  <2>1. Spoken!NothingWrongSpoken
    BY DEF Spoken!NothingWrongSpoken, Fetched!NothingWrongSpoken
  <2>2. ASSUME NEW w \in Fetched!Workers, Fetched!Fetch(w)
        PROVE  Fetched!NothingWrongSpoken'
    BY <2>1, <2>2, FetchSpeaks DEF Spoken!NothingWrongSpoken, Fetched!NothingWrongSpoken
  <2>3. CASE \/ Fetched!Revoice \/ \E e \in Samples : Fetched!Edit(e)
             \/ Fetched!Forward
             \/ \E u \in Pupils \cup {Fetched!Nobody} : Fetched!Sign(u)
             \/ Fetched!PullBank \/ Fetched!BeginPrefetch \/ Fetched!NextClip
             \/ \E p \in Fetched!Prints : Fetched!Tap(p)
             \/ \E w \in Fetched!Workers : Fetched!Write(w) \/ Fetched!Rename(w)
                                           \/ Fetched!Register(w) \/ Fetched!Look(w)
             \/ Fetched!Stop
             \/ UNCHANGED voicing
    <3>1. UNCHANGED <<recorded, vouched>>
      BY <2>3 DEF Fetched!Revoice, Fetched!Edit, Fetched!Forward, Fetched!Sign, Fetched!PullBank,
         Fetched!BeginPrefetch, Fetched!NextClip, Fetched!Tap, Fetched!Write, Fetched!Rename,
         Fetched!Register, Fetched!Look, Fetched!Stop, Fetched!serverVars, voicing
    <3> QED
      BY <3>1 DEF Fetched!NothingWrongSpoken
  <2> QED
    BY <2>2, <2>3 DEF Fetched!Next
<1>3. (scene = "fetched" => Fetched!NothingWrongSpoken) /\ [MaterialNext]_material
      => (scene = "fetched" => Fetched!NothingWrongSpoken)'
  BY <1>2, SceneSteps
<1> QED
  BY <1>1, <1>3, PTL DEF MaterialSpec

\* What an import of grammar has left behind is taught, and nothing twice under the
\* lock of its language; no prompt is paid for while its answer is stored; no sentence
\* is spoken that was not right when it was read (pdf_incremental.rs, llm/cache.rs,
\* api/media.rs).
THEOREM LessonsSound == MaterialSpec => []LessonsTaught
<1>1. PaidInv => Answers!PaidOnce
  BY DEF PaidInv, Answers!PaidOnce, Answers!Holds, Answers!On
<1>2. ImportInv => Lessons!ReadThrough /\ Lessons!TaughtOnce
  BY DEF ImportInv
<1>3. VoicedInv => Spoken!NothingWrongSpoken
  BY DEF VoicedInv
<1>4. ImportInv /\ PaidInv /\ (scene = "spoken" => VoicedInv)
      /\ (scene = "fetched" => Fetched!NothingWrongSpoken) => LessonsTaught
  BY <1>1, <1>2, <1>3 DEF LessonsTaught
<1> QED
  BY <1>4, ImportInvariant, PaidInvariant, SpokenInvariant, FetchedInvariant, PTL
-----------------------------------------------------------------------------
(***************************************************************************)
(* The files of clips a device keeps (SentenceClips): P is what its names  *)
(* are about, in the scene of one synchronisation or in that of another.   *)
(***************************************************************************)

Working == {"prefetch", "tap"}
Job(P) == [at : {"rest", "next", "fetch", "write", "rename", "register", "look"},
           clip : P \cup {<<>>}, got : P \cup {<<>>}, list : SUBSET P]

StoreInv(P) ==
    /\ wanted \in [Pupils -> SUBSET P] /\ shelf \in [Pupils -> SUBSET P]
    /\ files \in [P -> P \cup {<<>>}] /\ signed \in Pupils \cup {0}
    /\ \A p \in P : files[p] \in {<<>>, p}
    /\ \A u \in Pupils : \A p \in shelf[u] : files[p] = <<>> => p \in spoilt

\* What a publisher is about to put under the name of a clip is that clip.
WorkInv(P) ==
    /\ work \in [Working -> Job(P)]
    /\ \A w \in Working :
          /\ work[w].at \in {"fetch", "write", "rename", "register"} => work[w].clip \in P
          /\ work[w].at \in {"write", "rename"} => work[w].got = work[w].clip

FilesInv(P) == StoreInv(P) /\ WorkInv(P) /\ voice \in Voices

\* A publisher moves on, and what the device keeps is as it was, or kept well.
LEMMA WorkMoves ==
    ASSUME NEW P, WorkInv(P), NEW w \in Working, NEW q \in Job(P), work' = [work EXCEPT ![w] = q],
           q.at \in {"fetch", "write", "rename", "register"} => q.clip \in P,
           q.at \in {"write", "rename"} => q.got = q.clip
    PROVE  WorkInv(P)'
<1>1. work' \in [Working -> Job(P)]
  BY DEF WorkInv
<1>2. work'[w] = q /\ \A v \in Working \ {w} : work'[v] = work[v]
  BY DEF WorkInv
<1>3. ASSUME NEW v \in Working
      PROVE  /\ work'[v].at \in {"fetch", "write", "rename", "register"} => work'[v].clip \in P
             /\ work'[v].at \in {"write", "rename"} => work'[v].got = work'[v].clip
  <2>1. CASE v = w
    BY <1>2, <2>1
  <2>2. CASE v # w
    BY <1>2, <2>2 DEF WorkInv
  <2> QED
    BY <2>1, <2>2
<1> QED
  BY <1>1, <1>3 DEF WorkInv

\* Whatever a publisher is at, it can go on to the next clip or rest.
LEMMA OverMoves ==
    ASSUME NEW P, WorkInv(P), NEW w \in Working, Fetched!Over(w) \/ Listed!Over(w)
    PROVE  WorkInv(P)'
<1>1. PICK q \in Job(P) : q = [at |-> "rest", clip |-> <<>>, got |-> <<>>, list |-> {}]
  BY DEF Job
<1>2. work[w] \in Job(P)
  BY DEF WorkInv
<1>3. PICK r \in Job(P) : r = [work[w] EXCEPT !.at = "next", !.clip = <<>>, !.got = <<>>]
  BY <1>2 DEF Job
<1>4. q.at = "rest" /\ r.at = "next"
  BY <1>1, <1>2, <1>3 DEF Job
<1>5. work' = [work EXCEPT ![w] = q] \/ work' = [work EXCEPT ![w] = r]
  BY <1>1, <1>3 DEF Fetched!Over, Fetched!Move, Fetched!Idle, Fetched!NoClip,
                    Listed!Over, Listed!Move, Listed!Idle, Listed!NoClip
<1> QED
  BY <1>4, <1>5, WorkMoves

\* A publisher at rest, and what every one is at when the process has ended.
LEMMA WorkIdle ==
    ASSUME NEW P, work' = [w \in Working |-> Fetched!Idle]
    PROVE  WorkInv(P)'
<1>1. Fetched!Idle \in Job(P) /\ Fetched!Idle.at = "rest"
  BY DEF Fetched!Idle, Fetched!NoClip, Job
<1> QED
  BY <1>1 DEF WorkInv

LEMMA StoreStays ==
    ASSUME NEW P, StoreInv(P), UNCHANGED <<wanted, shelf, files, signed, spoilt>>
    PROVE  StoreInv(P)'
BY DEF StoreInv

\* The steps of a synchronisation that keep its tables and files as they are.
LEMMA ListMoves ==
    ASSUME NEW P, FilesInv(P),
           \/ Fetched!BeginPrefetch \/ Fetched!NextClip \/ \E p \in P : Fetched!Tap(p)
           \/ \E w \in Working : Fetched!Write(w) \/ Fetched!Look(w)
           \/ Listed!BeginPrefetch \/ Listed!NextClip \/ \E p \in P : Listed!Tap(p)
           \/ \E w \in Working : Listed!Write(w) \/ Listed!Look(w)
    PROVE  FilesInv(P)'
<1>1. UNCHANGED <<wanted, shelf, files, signed, spoilt, voice>>
  BY DEF Fetched!BeginPrefetch, Fetched!NextClip, Fetched!Tap, Fetched!Write, Fetched!Look,
         Fetched!serverVars, Fetched!storeVars, Listed!BeginPrefetch, Listed!NextClip, Listed!Tap,
         Listed!Write, Listed!Look, Listed!serverVars, Listed!storeVars
<1>2. StoreInv(P)' /\ voice' \in Voices
  BY <1>1, StoreStays DEF FilesInv
<1>3. WorkInv(P) /\ StoreInv(P) /\ {"prefetch", "tap"} \subseteq Working
  BY DEF FilesInv, Working
<1>4. CASE Fetched!BeginPrefetch \/ Listed!BeginPrefetch
  <2>1. wanted[signed] \ shelf[signed] \subseteq P
    BY <1>3, <1>4 DEF StoreInv, Fetched!BeginPrefetch, Listed!BeginPrefetch, Fetched!Nobody,
                      Listed!Nobody
  <2>2. PICK list \in SUBSET P :
          work' = [work EXCEPT !["prefetch"] = [Fetched!Idle EXCEPT !.at = "next", !.list = list]]
    BY <1>4, <2>1 DEF Fetched!BeginPrefetch, Listed!BeginPrefetch, Fetched!Move, Listed!Move,
       Fetched!Missing, Listed!Missing, Fetched!Idle, Listed!Idle, Fetched!NoClip, Listed!NoClip
  <2>3. PICK q : q = [Fetched!Idle EXCEPT !.at = "next", !.list = list]
    OBVIOUS
  <2>4. q = [at |-> "next", clip |-> <<>>, got |-> <<>>, list |-> list]
    BY <2>3 DEF Fetched!Idle, Fetched!NoClip
  <2>5. q \in Job(P) /\ q.at = "next"
    BY <2>4 DEF Job
  <2>6. WorkInv(P)'
    BY <1>3, <2>2, <2>3, <2>5, WorkMoves
  <2> QED
    BY <1>2, <2>6 DEF FilesInv
<1>5. CASE Fetched!NextClip \/ Listed!NextClip
  <2>1. PICK j : j = work["prefetch"]
    OBVIOUS
  <2>2. j \in Job(P)
    BY <1>3, <2>1 DEF WorkInv
  <2>3. \/ work' = [work EXCEPT !["prefetch"] = Fetched!Idle]
        \/ \E p \in j.list : work' = [work EXCEPT !["prefetch"] =
                                        [j EXCEPT !.at = "fetch", !.clip = p, !.list = @ \ {p}]]
    BY <1>5, <2>1 DEF Fetched!NextClip, Listed!NextClip, Fetched!Move, Listed!Move, Fetched!Idle,
       Listed!Idle, Fetched!NoClip, Listed!NoClip
  <2>4. CASE work' = [work EXCEPT !["prefetch"] = Fetched!Idle]
    <3>1. Fetched!Idle \in Job(P) /\ Fetched!Idle.at = "rest"
      BY DEF Fetched!Idle, Fetched!NoClip, Job
    <3>2. WorkInv(P)'
      BY <1>3, <2>4, <3>1, WorkMoves
    <3> QED
      BY <1>2, <3>2 DEF FilesInv
  <2>5. ASSUME NEW p \in j.list,
               work' = [work EXCEPT !["prefetch"] =
                          [j EXCEPT !.at = "fetch", !.clip = p, !.list = @ \ {p}]]
        PROVE  FilesInv(P)'
    <3>1. p \in P
      BY <2>2 DEF Job
    <3>2. PICK q \in Job(P) : q = [j EXCEPT !.at = "fetch", !.clip = p, !.list = @ \ {p}]
      BY <2>2, <3>1 DEF Job
    <3>3. q.at = "fetch" /\ q.clip = p
      BY <2>2, <3>2 DEF Job
    <3>4. WorkInv(P)'
      BY <1>3, <2>5, <3>1, <3>2, <3>3, WorkMoves
    <3> QED
      BY <1>2, <3>4 DEF FilesInv
  <2> QED
    BY <2>3, <2>4, <2>5
<1>6. ASSUME NEW p \in P, Fetched!Tap(p) \/ Listed!Tap(p)
      PROVE  FilesInv(P)'
  <2>1. PICK q : q = [Fetched!Idle EXCEPT !.at = "fetch", !.clip = p]
    OBVIOUS
  <2>2. q = [at |-> "fetch", clip |-> p, got |-> <<>>, list |-> {}]
    BY <2>1 DEF Fetched!Idle, Fetched!NoClip
  <2>3. q \in Job(P) /\ q.at = "fetch" /\ q.clip = p
    BY <2>2 DEF Job
  <2>4. work' = [work EXCEPT !["tap"] = q]
    BY <1>6, <2>1 DEF Fetched!Tap, Listed!Tap, Fetched!Move, Listed!Move, Fetched!Idle, Listed!Idle,
       Fetched!NoClip, Listed!NoClip
  <2>5. WorkInv(P)'
    BY <1>3, <2>3, <2>4, WorkMoves
  <2> QED
    BY <1>2, <2>5 DEF FilesInv
<1>7. ASSUME NEW w \in Working, Fetched!Write(w) \/ Listed!Write(w)
      PROVE  FilesInv(P)'
  <2>1. work[w] \in Job(P) /\ work[w].at = "write"
    BY <1>3, <1>7 DEF WorkInv, Fetched!Write, Listed!Write, Fetched!On, Listed!On
  <2>2. PICK q \in Job(P) : q = [work[w] EXCEPT !.at = "rename"]
    BY <2>1 DEF Job
  <2>3. q.at = "rename" /\ q.clip = work[w].clip /\ q.got = work[w].got
    BY <2>1, <2>2 DEF Job
  <2>4. work' = [work EXCEPT ![w] = q]
    BY <1>7, <2>2 DEF Fetched!Write, Listed!Write, Fetched!Move, Listed!Move
  <2>5. q.clip \in P /\ q.got = q.clip
    BY <1>3, <2>1, <2>3 DEF WorkInv
  <2>6. WorkInv(P)'
    BY <1>3, <2>4, <2>5, WorkMoves
  <2> QED
    BY <1>2, <2>6 DEF FilesInv
<1>8. ASSUME NEW w \in Working, Fetched!Look(w) \/ Listed!Look(w)
      PROVE  FilesInv(P)'
  <2>1. WorkInv(P)'
    BY <1>3, <1>8, OverMoves DEF Fetched!Look, Listed!Look
  <2> QED
    BY <1>2, <2>1 DEF FilesInv
<1> QED
  BY <1>4, <1>5, <1>6, <1>7, <1>8

\* The device is told what a name stands for, and that is what the name says.
LEMMA FetchedIsNamed ==
    ASSUME NEW P, FilesInv(P), NEW w \in Working, Fetched!Fetch(w) \/ Listed!Fetch(w)
    PROVE  FilesInv(P)'
<1>1. UNCHANGED <<wanted, shelf, files, signed, spoilt, voice>> /\ work[w].at = "fetch"
  BY DEF Fetched!Fetch, Fetched!storeVars, Fetched!On, Listed!Fetch, Listed!storeVars, Listed!On
<1>2. StoreInv(P)' /\ voice' \in Voices /\ WorkInv(P)
  BY <1>1, StoreStays DEF FilesInv
<1>3. \/ Fetched!Over(w) \/ Listed!Over(w)
      \/ work' = [work EXCEPT ![w] = [work[w] EXCEPT !.at = "write", !.got = work[w].clip]]
  BY DEF Fetched!Fetch, Fetched!SentenceServed, Fetched!Fingerprint, Fetched!NoClip, Fetched!Move,
         Listed!Fetch, Listed!SentenceServed, Listed!Fingerprint, Listed!NoClip, Listed!Move
<1>4. CASE Fetched!Over(w) \/ Listed!Over(w)
  <2>1. WorkInv(P)'
    BY <1>2, <1>4, OverMoves
  <2> QED
    BY <1>2, <2>1 DEF FilesInv
<1>5. CASE work' = [work EXCEPT ![w] = [work[w] EXCEPT !.at = "write", !.got = work[w].clip]]
  <2>1. work[w] \in Job(P) /\ work[w].clip \in P
    BY <1>1, <1>2 DEF WorkInv
  <2>2. PICK q \in Job(P) : q = [work[w] EXCEPT !.at = "write", !.got = work[w].clip]
    BY <2>1 DEF Job
  <2>3. q.at = "write" /\ q.clip = work[w].clip /\ q.got = work[w].clip
    BY <2>1, <2>2 DEF Job
  <2>4. WorkInv(P)'
    BY <1>2, <1>5, <2>1, <2>2, <2>3, WorkMoves
  <2> QED
    BY <1>2, <2>4 DEF FilesInv
<1> QED
  BY <1>3, <1>4, <1>5

\* The file under a name is put there by a publisher of that name.
LEMMA RenameIsNamed ==
    ASSUME NEW P, <<>> \notin P, FilesInv(P), NEW w \in Working, Fetched!Rename(w) \/ Listed!Rename(w)
    PROVE  FilesInv(P)'
<1>1. PICK p \in P : p = work[w].clip /\ p = work[w].got
  BY DEF FilesInv, WorkInv, Fetched!Rename, Listed!Rename, Fetched!On, Listed!On
<1>2. /\ UNCHANGED <<wanted, shelf, signed, spoilt, voice>>
      /\ \/ Fetched!Over(w) /\ UNCHANGED files
         \/ Listed!Over(w) /\ UNCHANGED files
         \/ /\ files' = [files EXCEPT ![p] = p]
            /\ work' = [work EXCEPT ![w] = [work[w] EXCEPT !.at = "register"]]
  BY <1>1 DEF Fetched!Rename, Listed!Rename, Fetched!Move, Listed!Move, Fetched!serverVars,
     Listed!serverVars
<1>3. CASE (Fetched!Over(w) \/ Listed!Over(w)) /\ UNCHANGED files
  <2>1. StoreInv(P)' /\ WorkInv(P)'
    BY <1>2, <1>3, StoreStays, OverMoves DEF FilesInv
  <2> QED
    BY <1>2, <2>1 DEF FilesInv
<1>4. CASE /\ files' = [files EXCEPT ![p] = p]
           /\ work' = [work EXCEPT ![w] = [work[w] EXCEPT !.at = "register"]]
  <2>1. work[w] \in Job(P) /\ WorkInv(P) /\ StoreInv(P)
    BY DEF FilesInv, WorkInv
  <2>2. PICK q \in Job(P) : q = [work[w] EXCEPT !.at = "register"]
    BY <2>1 DEF Job
  <2>3. q.at = "register" /\ q.clip = p
    BY <1>1, <2>1, <2>2 DEF Job
  <2>4. WorkInv(P)'
    BY <1>4, <2>1, <2>2, <2>3, WorkMoves
  <2>5. StoreInv(P)'
    BY <1>2, <1>4, <2>1 DEF StoreInv
  <2> QED
    BY <1>2, <2>4, <2>5 DEF FilesInv
<1> QED
  BY <1>2, <1>3, <1>4

\* A row is written when its file is there; a failing registration takes the file with
\* it, of every learner.
LEMMA RegisterHasFile ==
    ASSUME NEW P, FilesInv(P), NEW w \in Working, Fetched!Register(w) \/ Listed!Register(w)
    PROVE  FilesInv(P)'
<1>1. PICK p \in P : p = work[w].clip
  BY DEF FilesInv, WorkInv, Fetched!Register, Listed!Register, Fetched!On, Listed!On
<1>2. /\ UNCHANGED <<wanted, signed, voice>>
      /\ \/ /\ signed # 0 /\ files[p] # <<>> /\ UNCHANGED <<files, spoilt>>
            /\ shelf' = [shelf EXCEPT ![signed] = @ \cup {p}]
            /\ work' = [work EXCEPT ![w] = [work[w] EXCEPT !.at = "look"]]
         \/ /\ files' = [files EXCEPT ![p] = <<>>] /\ spoilt' = spoilt \cup {p} /\ UNCHANGED shelf
            /\ Fetched!Over(w) \/ Listed!Over(w)
  BY <1>1 DEF Fetched!Register, Listed!Register, Fetched!Move, Listed!Move, Fetched!serverVars,
     Listed!serverVars, Fetched!Nobody, Listed!Nobody, Fetched!Readable, Listed!Readable,
     Fetched!RowWritten, Listed!RowWritten, Fetched!NoClip, Listed!NoClip
<1>3. work[w] \in Job(P) /\ WorkInv(P) /\ StoreInv(P)
  BY DEF FilesInv, WorkInv
<1>4. CASE /\ signed # 0 /\ files[p] # <<>> /\ UNCHANGED <<files, spoilt>>
           /\ shelf' = [shelf EXCEPT ![signed] = @ \cup {p}]
           /\ work' = [work EXCEPT ![w] = [work[w] EXCEPT !.at = "look"]]
  <2>1. PICK q \in Job(P) : q = [work[w] EXCEPT !.at = "look"]
    BY <1>3 DEF Job
  <2>2. q.at = "look"
    BY <1>3, <2>1 DEF Job
  <2>3. WorkInv(P)'
    BY <1>3, <1>4, <2>1, <2>2, WorkMoves
  <2>4. StoreInv(P)'
    BY <1>2, <1>3, <1>4 DEF StoreInv
  <2> QED
    BY <1>2, <2>3, <2>4 DEF FilesInv
<1>5. CASE /\ files' = [files EXCEPT ![p] = <<>>] /\ spoilt' = spoilt \cup {p} /\ UNCHANGED shelf
           /\ Fetched!Over(w) \/ Listed!Over(w)
  <2>1. WorkInv(P)'
    BY <1>3, <1>5, OverMoves
  <2>2. StoreInv(P)'
    BY <1>2, <1>3, <1>5 DEF StoreInv
  <2> QED
    BY <1>2, <2>1, <2>2 DEF FilesInv
<1> QED
  BY <1>2, <1>4, <1>5


\* The files of the first device, and of the second.
LEMMA FetchedFilesInvariant == MaterialSpec => [](scene = "fetched" => FilesInv(Fetched!Prints))
<1>1. MaterialInit => (scene = "fetched" => FilesInv(Fetched!Prints))
  <2> SUFFICES ASSUME MaterialInit, scene = "fetched" PROVE FilesInv(Fetched!Prints)
    OBVIOUS
  <2>1. Fetched!Init
    BY DEF MaterialInit
  <2>2. StoreInv(Fetched!Prints)
    BY <2>1 DEF Fetched!Init, StoreInv, Fetched!NoClip, Fetched!Nobody
  <2>3. Fetched!Idle \in Job(Fetched!Prints) /\ Fetched!Idle.at = "rest"
    BY DEF Fetched!Idle, Fetched!NoClip, Job
  <2>4. WorkInv(Fetched!Prints)
    BY <2>1, <2>3 DEF Fetched!Init, WorkInv, Fetched!Workers, Working
  <2> QED
    BY <2>1, <2>2, <2>4, ClipAssumption DEF Fetched!Init, FilesInv
<1>2. FilesInv(Fetched!Prints) /\ [Fetched!Next]_voicing => FilesInv(Fetched!Prints)'
  <2> SUFFICES ASSUME FilesInv(Fetched!Prints), [Fetched!Next]_voicing
               PROVE  FilesInv(Fetched!Prints)'
    OBVIOUS
  <2>1. Fetched!Prints' = Fetched!Prints /\ <<>> \notin Fetched!Prints /\ Fetched!Workers = Working
    BY DEF Fetched!Prints, Fetched!Workers, Working
  <2>2. ASSUME StoreInv(Fetched!Prints)', WorkInv(Fetched!Prints)', voice' \in Voices
        PROVE  FilesInv(Fetched!Prints)'
    BY <2>2 DEF FilesInv
  <2>3. StoreInv(Fetched!Prints) /\ WorkInv(Fetched!Prints) /\ voice \in Voices
    BY DEF FilesInv
  <2>4. CASE \/ Fetched!BeginPrefetch \/ Fetched!NextClip \/ \E p \in Fetched!Prints : Fetched!Tap(p)
             \/ \E w \in Working : Fetched!Write(w) \/ Fetched!Look(w)
    BY <2>4, ListMoves
  <2>5. CASE \E w \in Working : Fetched!Fetch(w) \/ Fetched!Rename(w) \/ Fetched!Register(w)
    BY <2>1, <2>5, FetchedIsNamed, RenameIsNamed, RegisterHasFile
  <2>6. CASE Fetched!Stop
    <3>1. /\ work' = [w \in Working |-> Fetched!Idle]
          /\ UNCHANGED <<wanted, shelf, files, signed, spoilt, voice>>
      BY <2>1, <2>6 DEF Fetched!Stop, Fetched!storeVars, Fetched!serverVars, Fetched!Idle, Fetched!NoClip
    <3> QED
      BY <2>2, <2>3, <3>1, WorkIdle, StoreStays
  <2>7. CASE Fetched!Revoice \/ (\E e \in Samples : Fetched!Edit(e)) \/ Fetched!Forward \/ UNCHANGED voicing
    <3>1. UNCHANGED <<wanted, shelf, files, signed, spoilt, work>> /\ voice' \in Voices
      BY <2>3, <2>7 DEF Fetched!Revoice, Fetched!Edit, Fetched!Forward, Fetched!storeVars, Fetched!deviceVars, Fetched!serverVars, voicing
    <3>2. WorkInv(Fetched!Prints)'
      BY <2>3, <3>1 DEF WorkInv
    <3> QED
      BY <2>2, <2>3, <3>1, <3>2, StoreStays
  <2>8. ASSUME NEW u \in Pupils \cup {Fetched!Nobody}, Fetched!Sign(u)
        PROVE  FilesInv(Fetched!Prints)'
    <3>1. UNCHANGED <<wanted, shelf, files, spoilt, work, voice>> /\ signed' \in Pupils \cup {0}
      BY <2>8 DEF Fetched!Sign, Fetched!storeVars, Fetched!serverVars, Fetched!Nobody
    <3>2. WorkInv(Fetched!Prints)'
      BY <2>3, <3>1 DEF WorkInv
    <3>3. StoreInv(Fetched!Prints)'
      BY <2>3, <3>1 DEF StoreInv
    <3> QED
      BY <2>2, <2>3, <3>1, <3>2, <3>3
  <2>9. CASE Fetched!PullBank
    <3>1. /\ UNCHANGED <<shelf, files, signed, spoilt, work, voice>> /\ signed \in Pupils
          /\ wanted' = [wanted EXCEPT ![signed] =
                {p \in @ : \E e \in Samples : p[1] = Fetched!Example(e) /\ RuleAt[e] \notin moved[signed]}
                \cup UNION {Fetched!Names(r) : r \in moved[signed]}]
      BY <2>3, <2>9 DEF Fetched!PullBank, Fetched!serverVars, Fetched!Nobody, StoreInv
    <3>2. ASSUME NEW r
          PROVE  Fetched!Names(r) \subseteq Fetched!Prints
      BY <2>3 DEF Fetched!Names, Fetched!ExamplesOf, Fetched!Fingerprint, Fetched!Prints, Fetched!Sentences
    <3>3. wanted[signed] \subseteq Fetched!Prints
      BY <2>3, <3>1 DEF StoreInv
    <3>4. {p \in wanted[signed] :
              \E e \in Samples : p[1] = Fetched!Example(e) /\ RuleAt[e] \notin moved[signed]}
          \cup UNION {Fetched!Names(r) : r \in moved[signed]} \subseteq Fetched!Prints
      BY <3>2, <3>3
    <3>5. wanted' \in [Pupils -> SUBSET Fetched!Prints]
      BY <2>3, <3>1, <3>4 DEF StoreInv
    <3>6. StoreInv(Fetched!Prints)'
      BY <2>3, <3>1, <3>5 DEF StoreInv
    <3>7. WorkInv(Fetched!Prints)'
      BY <2>3, <3>1 DEF WorkInv
    <3> QED
      BY <2>2, <2>3, <3>1, <3>6, <3>7
  <2> QED
    BY <2>1, <2>4, <2>5, <2>6, <2>7, <2>8, <2>9 DEF Fetched!Next
<1>3. (scene = "fetched" => FilesInv(Fetched!Prints)) /\ [MaterialNext]_material => (scene = "fetched" => FilesInv(Fetched!Prints))'
  BY <1>2, SceneSteps
<1> QED
  BY <1>1, <1>3, PTL DEF MaterialSpec

LEMMA ListedFilesInvariant == MaterialSpec => [](scene = "listed" => FilesInv(Listed!Prints))
<1>1. MaterialInit => (scene = "listed" => FilesInv(Listed!Prints))
  <2> SUFFICES ASSUME MaterialInit, scene = "listed" PROVE FilesInv(Listed!Prints)
    OBVIOUS
  <2>1. Listed!Init
    BY DEF MaterialInit
  <2>2. StoreInv(Listed!Prints)
    BY <2>1 DEF Listed!Init, StoreInv, Listed!NoClip, Listed!Nobody
  <2>3. Listed!Idle \in Job(Listed!Prints) /\ Listed!Idle.at = "rest"
    BY DEF Listed!Idle, Listed!NoClip, Job
  <2>4. WorkInv(Listed!Prints)
    BY <2>1, <2>3 DEF Listed!Init, WorkInv, Listed!Workers, Working
  <2> QED
    BY <2>1, <2>2, <2>4, ClipAssumption DEF Listed!Init, FilesInv
<1>2. FilesInv(Listed!Prints) /\ [Listed!Next]_voicing => FilesInv(Listed!Prints)'
  <2> SUFFICES ASSUME FilesInv(Listed!Prints), [Listed!Next]_voicing
               PROVE  FilesInv(Listed!Prints)'
    OBVIOUS
  <2>1. Listed!Prints' = Listed!Prints /\ <<>> \notin Listed!Prints /\ Listed!Workers = Working
    BY DEF Listed!Prints, Listed!Workers, Working
  <2>2. ASSUME StoreInv(Listed!Prints)', WorkInv(Listed!Prints)', voice' \in Voices
        PROVE  FilesInv(Listed!Prints)'
    BY <2>2 DEF FilesInv
  <2>3. StoreInv(Listed!Prints) /\ WorkInv(Listed!Prints) /\ voice \in Voices
    BY DEF FilesInv
  <2>4. CASE \/ Listed!BeginPrefetch \/ Listed!NextClip \/ \E p \in Listed!Prints : Listed!Tap(p)
             \/ \E w \in Working : Listed!Write(w) \/ Listed!Look(w)
    BY <2>4, ListMoves
  <2>5. CASE \E w \in Working : Listed!Fetch(w) \/ Listed!Rename(w) \/ Listed!Register(w)
    BY <2>1, <2>5, FetchedIsNamed, RenameIsNamed, RegisterHasFile
  <2>6. CASE Listed!Stop
    <3>1. /\ work' = [w \in Working |-> Fetched!Idle]
          /\ UNCHANGED <<wanted, shelf, files, signed, spoilt, voice>>
      BY <2>1, <2>6 DEF Listed!Stop, Listed!storeVars, Listed!serverVars, Fetched!Idle, Fetched!NoClip, Listed!Idle, Listed!NoClip
    <3> QED
      BY <2>2, <2>3, <3>1, WorkIdle, StoreStays
  <2>7. CASE Listed!Revoice \/ (\E e \in MoreSamples : Listed!Edit(e)) \/ Listed!Forward \/ UNCHANGED voicing
    <3>1. UNCHANGED <<wanted, shelf, files, signed, spoilt, work>> /\ voice' \in Voices
      BY <2>3, <2>7 DEF Listed!Revoice, Listed!Edit, Listed!Forward, Listed!storeVars, Listed!deviceVars, Listed!serverVars, voicing
    <3>2. WorkInv(Listed!Prints)'
      BY <2>3, <3>1 DEF WorkInv
    <3> QED
      BY <2>2, <2>3, <3>1, <3>2, StoreStays
  <2>8. ASSUME NEW u \in Pupils \cup {Listed!Nobody}, Listed!Sign(u)
        PROVE  FilesInv(Listed!Prints)'
    <3>1. UNCHANGED <<wanted, shelf, files, spoilt, work, voice>> /\ signed' \in Pupils \cup {0}
      BY <2>8 DEF Listed!Sign, Listed!storeVars, Listed!serverVars, Listed!Nobody
    <3>2. WorkInv(Listed!Prints)'
      BY <2>3, <3>1 DEF WorkInv
    <3>3. StoreInv(Listed!Prints)'
      BY <2>3, <3>1 DEF StoreInv
    <3> QED
      BY <2>2, <2>3, <3>1, <3>2, <3>3
  <2>9. CASE Listed!PullBank
    <3>1. /\ UNCHANGED <<shelf, files, signed, spoilt, work, voice>> /\ signed \in Pupils
          /\ wanted' = [wanted EXCEPT ![signed] =
                {p \in @ : \E e \in MoreSamples : p[1] = Listed!Example(e) /\ RuleAt[e] \notin moved[signed]}
                \cup UNION {Listed!Names(r) : r \in moved[signed]}]
      BY <2>3, <2>9 DEF Listed!PullBank, Listed!serverVars, Listed!Nobody, StoreInv
    <3>2. ASSUME NEW r
          PROVE  Listed!Names(r) \subseteq Listed!Prints
      BY <2>3 DEF Listed!Names, Listed!ExamplesOf, Listed!Fingerprint, Listed!Prints, Listed!Sentences
    <3>3. wanted[signed] \subseteq Listed!Prints
      BY <2>3, <3>1 DEF StoreInv
    <3>4. {p \in wanted[signed] :
              \E e \in MoreSamples : p[1] = Listed!Example(e) /\ RuleAt[e] \notin moved[signed]}
          \cup UNION {Listed!Names(r) : r \in moved[signed]} \subseteq Listed!Prints
      BY <3>2, <3>3
    <3>5. wanted' \in [Pupils -> SUBSET Listed!Prints]
      BY <2>3, <3>1, <3>4 DEF StoreInv
    <3>6. StoreInv(Listed!Prints)'
      BY <2>3, <3>1, <3>5 DEF StoreInv
    <3>7. WorkInv(Listed!Prints)'
      BY <2>3, <3>1 DEF WorkInv
    <3> QED
      BY <2>2, <2>3, <3>1, <3>6, <3>7
  <2> QED
    BY <2>1, <2>4, <2>5, <2>6, <2>7, <2>8, <2>9 DEF Listed!Next
<1>3. (scene = "listed" => FilesInv(Listed!Prints)) /\ [MaterialNext]_material => (scene = "listed" => FilesInv(Listed!Prints))'
  BY <1>2, SceneSteps
<1> QED
  BY <1>1, <1>3, PTL DEF MaterialSpec
-----------------------------------------------------------------------------
(***************************************************************************)
(* The player of the web's practice (SentenceClips).                       *)
(***************************************************************************)

\* A request for an answer names the item of the card it was asked on, and what it has
\* read is that answer.
Proper(q) ==
    /\ q.kind = "example" => q.id \in Samples
    /\ q.kind = "answer" => q.card \in DOMAIN Lesson /\ q.id = Lesson[q.card]
    /\ q.kind = "answer" /\ q.at \in {"read", "spoken"} => q.clip[1] = Spoken!Answer(q.id)

PlayerInv == /\ card \in 1 .. Len(Lesson) + 1
             /\ \A s \in Players : Proper(asking[s])
             /\ Spoken!PlayerIsOfTheCard

LEMMA ItemsHaveNumbers == 0 \notin Spoken!Items
BY ClipAssumption DEF Spoken!Items

LEMMA PlayerStays ==
    ASSUME PlayerInv, UNCHANGED <<card, playing, failed>>
    PROVE  Spoken!PlayerIsOfTheCard'
BY DEF PlayerInv, Spoken!PlayerIsOfTheCard, Spoken!Shown, Spoken!Current

LEMMA RequestMoves ==
    ASSUME VoicedInv, PlayerInv, NEW s \in Players, NEW q, Proper(q),
           asking' = [asking EXCEPT ![s] = q], UNCHANGED card, Spoken!PlayerIsOfTheCard'
    PROVE  PlayerInv'
<1>1. asking'[s] = q /\ \A r \in Players \ {s} : asking'[r] = asking[r]
  BY DEF VoicedInv
<1>2. ASSUME NEW r \in Players
      PROVE  Proper(asking'[r])
  <2>1. CASE r = s
    BY <1>1, <2>1
  <2>2. CASE r # s
    BY <1>1, <2>2 DEF PlayerInv
  <2> QED
    BY <2>1, <2>2
<1> QED
  BY <1>2 DEF PlayerInv, Proper, Spoken!Answer

\* A player asks for the card on the screen.
LEMMA PlayerAsks ==
    ASSUME VoicedInv, PlayerInv, NEW s \in Players,
           \/ \E e \in Samples : Spoken!AskExample(s, e)
           \/ \E c \in BOOLEAN : Spoken!Check(s, c)
           \/ \E i \in Spoken!Items : Spoken!AskElsewhere(s, i)
           \/ Spoken!AskAnswer(s)
    PROVE  PlayerInv'
<1>1. UNCHANGED <<card, playing>> /\ (failed' = failed \/ failed' = 0)
  BY DEF Spoken!AskExample, Spoken!Check, Spoken!AskElsewhere, Spoken!AskAnswer
<1>2. Spoken!PlayerIsOfTheCard'
  BY <1>1, ItemsHaveNumbers DEF PlayerInv, Spoken!PlayerIsOfTheCard, Spoken!Shown, Spoken!Current
<1>3. \/ asking' = asking
      \/ \E q : asking' = [asking EXCEPT ![s] = q] /\ Proper(q)
  <2>1. ASSUME NEW e \in Samples, Spoken!AskExample(s, e)
        PROVE  \E q : asking' = [asking EXCEPT ![s] = q] /\ Proper(q)
    <3>1. Proper(Spoken!Sent("example", e, 0))
      BY DEF Proper, Spoken!Sent
    <3> QED
      BY <2>1, <3>1 DEF Spoken!AskExample, Spoken!To
  <2>2. ASSUME NEW i, Spoken!AskElsewhere(s, i)
        PROVE  \E q : asking' = [asking EXCEPT ![s] = q] /\ Proper(q)
    <3>1. Proper(Spoken!Sent("elsewhere", i, 0))
      BY DEF Proper, Spoken!Sent
    <3> QED
      BY <2>2, <3>1 DEF Spoken!AskElsewhere, Spoken!To
  <2>3. ASSUME Spoken!Shown
        PROVE  Proper(Spoken!AnswerRequest)
    <3>1. PICK q : q = Spoken!AnswerRequest
      OBVIOUS
    <3>2. q.kind = "answer" /\ q.card = card /\ q.id = Lesson[card] /\ q.at = "sent"
      BY <3>1 DEF Spoken!AnswerRequest, Spoken!Sent, Spoken!Current
    <3> QED
      BY <2>3, <3>1, <3>2 DEF Proper, Spoken!Shown
  <2> QED
    BY <2>1, <2>2, <2>3 DEF Spoken!Check, Spoken!AskAnswer, Spoken!To
<1>4. CASE asking' = asking
  BY <1>1, <1>2, <1>4 DEF PlayerInv, Proper, Spoken!Answer
<1>5. CASE \E q : asking' = [asking EXCEPT ![s] = q] /\ Proper(q)
  BY <1>1, <1>2, <1>5, RequestMoves
<1> QED
  BY <1>3, <1>4, <1>5

\* A request that reads and speaks stays what it was about.
LEMMA PlayerIsAnswered ==
    ASSUME VoicedInv, PlayerInv, NEW s \in Players, Spoken!Load(s) \/ Spoken!Speak(s)
    PROVE  PlayerInv'
<1>1. UNCHANGED <<card, playing, failed>>
  BY DEF Spoken!Load, Spoken!Speak
<1>2. PICK r : r = asking[s]
  OBVIOUS
<1>3. Whole(r) /\ Proper(r)
  BY <1>2 DEF VoicedInv, PlayerInv
<1>4. \/ \E x : /\ asking' = [asking EXCEPT ![s] = [r EXCEPT !.at = "read", !.clip = <<x, voice>>]]
                /\ r.kind = "answer" => x = Spoken!Answer(r.id)
      \/ asking' = [asking EXCEPT ![s] = [r EXCEPT !.at = "refused"]]
      \/ r.at = "read" /\ asking' = [asking EXCEPT ![s] = [r EXCEPT !.at = "spoken"]]
  <2>1. CASE Spoken!Speak(s)
    BY <1>2, <2>1 DEF Spoken!Speak, Spoken!To
  <2>2. CASE Spoken!Load(s)
    <3>1. PICK x : x = IF r.kind = "example" THEN Spoken!Example(r.id) ELSE Spoken!Answer(r.id)
      OBVIOUS
    <3>2. \/ asking' = [asking EXCEPT ![s] = [r EXCEPT !.at = "read", !.clip = <<x, voice>>]]
          \/ asking' = [asking EXCEPT ![s] = [r EXCEPT !.at = "refused"]]
      BY <1>2, <2>2, <3>1 DEF Spoken!Load, Spoken!To, Spoken!Fingerprint
    <3> QED
      BY <3>1, <3>2
  <2> QED
    BY <2>1, <2>2
<1>5. ASSUME NEW x, asking' = [asking EXCEPT ![s] = [r EXCEPT !.at = "read", !.clip = <<x, voice>>]],
             r.kind = "answer" => x = Spoken!Answer(r.id)
      PROVE  PlayerInv'
  <2>1. PICK q : q = [r EXCEPT !.at = "read", !.clip = <<x, voice>>]
    OBVIOUS
  <2>2. q = [at |-> "read", kind |-> r.kind, id |-> r.id, card |-> r.card, clip |-> <<x, voice>>]
    BY <1>3, <2>1 DEF Whole
  <2>3. Proper(q)
    BY <1>3, <1>5, <2>2 DEF Proper
  <2> QED
    BY <1>1, <1>5, <2>1, <2>3, PlayerStays, RequestMoves
<1>6. ASSUME NEW at \in {"refused", "spoken"}, asking' = [asking EXCEPT ![s] = [r EXCEPT !.at = at]],
             at = "spoken" => r.at = "read"
      PROVE  PlayerInv'
  <2>1. PICK q : q = [r EXCEPT !.at = at]
    OBVIOUS
  <2>2. q = [at |-> at, kind |-> r.kind, id |-> r.id, card |-> r.card, clip |-> r.clip]
    BY <1>3, <2>1 DEF Whole
  <2>3. Proper(q)
    BY <1>3, <1>6, <2>2 DEF Proper
  <2> QED
    BY <1>1, <1>6, <2>1, <2>3, PlayerStays, RequestMoves
<1> QED
  BY <1>4, <1>5, <1>6

LEMMA ReplyLeaves ==
    ASSUME VoicedInv, PlayerInv, NEW s \in Players, Spoken!Deliver(s), Spoken!PlayerIsOfTheCard'
    PROVE  PlayerInv'
<1>1. Proper(Spoken!Rest)
  BY DEF Proper, Spoken!Rest
<1>2. asking' = [asking EXCEPT ![s] = Spoken!Rest] /\ card' = card
  BY DEF Spoken!Deliver, Spoken!To
<1> QED
  BY <1>1, <1>2, RequestMoves

\* A reply: dropped when its card has gone.
LEMMA PlayerPlays ==
    ASSUME VoicedInv, PlayerInv, NEW s \in Players, Spoken!Deliver(s)
    PROVE  PlayerInv'
<1>1. PICK q : q = asking[s]
  OBVIOUS
<1>2. Proper(q) /\ card' = card
  BY <1>1 DEF PlayerInv, Spoken!Deliver
<1>3. CASE ~Spoken!Expected(q)
  <2>1. UNCHANGED <<card, playing, failed>>
    BY <1>1, <1>3 DEF Spoken!Deliver
  <2> QED
    BY <2>1, ReplyLeaves, PlayerStays
<1>4. CASE Spoken!Expected(q)
  <2>1. ASSUME NEW i \in Spoken!Items \ Samples, q.id = i
        PROVE  /\ q.kind = "answer" /\ Spoken!Shown /\ i = Spoken!Current
               /\ q.at = "spoken" => q.clip[1] = Spoken!Answer(i)
    BY <1>2, <1>4, <2>1 DEF Proper, Spoken!Expected, Spoken!Shown, Spoken!Current
  <2>2. Spoken!Shown' = Spoken!Shown /\ Spoken!Current' = Spoken!Current
    BY <1>2 DEF Spoken!Shown, Spoken!Current
  <2>3. \/ q.at = "refused" /\ playing' = Spoken!Silent /\ failed' = q.id
        \/ /\ q.at = "spoken" /\ playing' = [id |-> q.id, clip |-> q.clip]
           /\ failed' = IF q.kind = "answer" THEN 0 ELSE failed
    BY <1>1, <1>4 DEF Spoken!Deliver
  <2>4. ASSUME NEW i \in Spoken!Items \ Samples
        PROVE  /\ playing'.id = i => /\ Spoken!Shown' /\ i = Spoken!Current'
                                     /\ playing'.clip[1] = Spoken!Answer(i)
               /\ failed' = i => Spoken!Shown' /\ i = Spoken!Current'
    <3>1. i # 0 /\ (failed = i => Spoken!Shown /\ i = Spoken!Current)
      BY ItemsHaveNumbers DEF PlayerInv, Spoken!PlayerIsOfTheCard
    <3>2. CASE q.at = "refused" /\ playing' = Spoken!Silent /\ failed' = q.id
      <4>1. playing'.id = 0
        BY <3>2 DEF Spoken!Silent
      <4> QED
        BY <2>1, <2>2, <3>1, <3>2, <4>1
    <3>3. CASE /\ q.at = "spoken" /\ playing' = [id |-> q.id, clip |-> q.clip]
               /\ failed' = IF q.kind = "answer" THEN 0 ELSE failed
      <4>1. playing'.id = q.id /\ playing'.clip = q.clip
        BY <3>3
      <4> QED
        BY <2>1, <2>2, <3>1, <3>3, <4>1
    <3> QED
      BY <2>3, <3>2, <3>3
  <2>5. Spoken!PlayerIsOfTheCard'
    BY <2>4 DEF Spoken!PlayerIsOfTheCard, Spoken!Answer
  <2> QED
    BY <2>5, ReplyLeaves
<1> QED
  BY <1>3, <1>4

\* The player of an answer has the answer's clip, or regrets it, on its own card
\* (components/grammar/session.rs).
LEMMA PlayerInvariant == MaterialSpec => [](scene = "spoken" => PlayerInv)
<1>1. MaterialInit => (scene = "spoken" => PlayerInv)
  <2> SUFFICES ASSUME MaterialInit, scene = "spoken" PROVE PlayerInv
    OBVIOUS
  <2>1. /\ card = 1 /\ playing = Spoken!Silent /\ failed = 0
        /\ asking = [s \in Players |-> Spoken!Rest]
    BY DEF MaterialInit, Spoken!Init
  <2>2. Proper(Spoken!Rest) /\ playing.id = 0
    BY <2>1 DEF Proper, Spoken!Rest, Spoken!Silent
  <2>3. Len(Lesson) \in Nat
    BY ClipAssumption
  <2> QED
    BY <2>1, <2>2, <2>3, ItemsHaveNumbers DEF PlayerInv, Spoken!PlayerIsOfTheCard
<1>2. VoicedInv /\ PlayerInv /\ [Spoken!Next]_voicing => PlayerInv'
  <2> SUFFICES ASSUME VoicedInv, PlayerInv, [Spoken!Next]_voicing
               PROVE  PlayerInv'
    OBVIOUS
  <2>1. CASE Spoken!Revoice
    <3>1. /\ UNCHANGED <<card, playing, failed>>
          /\ asking' = [s \in Players |-> IF asking[s].at = "read"
                                          THEN [asking[s] EXCEPT !.at = "refused"] ELSE asking[s]]
      BY <2>1 DEF Spoken!Revoice
    <3>2. ASSUME NEW s \in Players
          PROVE  Proper(asking'[s])
      <4>1. CASE asking[s].at = "read"
        <5>1. PICK r : r = asking[s] /\ Whole(r) /\ Proper(r) /\ asking'[s] = [r EXCEPT !.at = "refused"]
          BY <3>1, <4>1 DEF VoicedInv, PlayerInv
        <5>2. asking'[s] = [at |-> "refused", kind |-> r.kind, id |-> r.id, card |-> r.card,
                            clip |-> r.clip]
          BY <5>1 DEF Whole
        <5> QED
          BY <5>1, <5>2 DEF Proper
      <4>2. CASE asking[s].at # "read"
        BY <3>1, <4>2 DEF PlayerInv
      <4> QED
        BY <4>1, <4>2
    <3> QED
      BY <3>1, <3>2, PlayerStays DEF PlayerInv, Proper, Spoken!Answer
  <2>2. ASSUME NEW s \in Players,
               \/ \E e \in Samples : Spoken!AskExample(s, e)
               \/ \E c \in BOOLEAN : Spoken!Check(s, c)
               \/ \E i \in Spoken!Items : Spoken!AskElsewhere(s, i)
               \/ Spoken!AskAnswer(s)
        PROVE  PlayerInv'
    BY <2>2, PlayerAsks
  <2>3. ASSUME NEW s \in Players, Spoken!Load(s) \/ Spoken!Speak(s) \/ Spoken!Deliver(s)
        PROVE  PlayerInv'
    BY <2>3, PlayerIsAnswered, PlayerPlays
  <2>4. CASE Spoken!Forward
    <3>1. /\ Spoken!Shown /\ card' = card + 1 /\ playing' = Spoken!Silent /\ failed' = 0
          /\ asking' = asking
      BY <2>4 DEF Spoken!Forward
    <3>2. playing'.id = 0
      BY <3>1 DEF Spoken!Silent
    <3>3. card' \in 1 .. Len(Lesson) + 1
      BY <3>1, ClipAssumption DEF PlayerInv, Spoken!Shown
    <3>4. Spoken!PlayerIsOfTheCard'
      BY <3>1, <3>2, ItemsHaveNumbers DEF Spoken!PlayerIsOfTheCard
    <3> QED
      BY <3>1, <3>3, <3>4 DEF PlayerInv, Proper, Spoken!Answer
  <2>5. CASE \/ \E e \in Samples : Spoken!Edit(e)
             \/ \E u \in Pupils \cup {Spoken!Nobody} : Spoken!Sign(u)
             \/ Spoken!PullBank \/ Spoken!BeginPrefetch \/ Spoken!NextClip
             \/ \E p \in Spoken!Prints : Spoken!Tap(p)
             \/ \E w \in Spoken!Workers : Spoken!Fetch(w) \/ Spoken!Write(w) \/ Spoken!Rename(w)
                                          \/ Spoken!Register(w) \/ Spoken!Look(w)
             \/ Spoken!Stop \/ UNCHANGED voicing
    <3>1. UNCHANGED <<card, playing, failed, asking>>
      BY <2>5 DEF Spoken!Edit, Spoken!Sign, Spoken!PullBank, Spoken!BeginPrefetch, Spoken!NextClip,
         Spoken!Tap, Spoken!Fetch, Spoken!Write, Spoken!Rename, Spoken!Register, Spoken!Look,
         Spoken!Stop, Spoken!webVars, voicing
    <3> QED
      BY <3>1, PlayerStays DEF PlayerInv, Proper, Spoken!Answer
  <2> QED
    BY <2>1, <2>2, <2>3, <2>4, <2>5 DEF Spoken!Next
<1>3. (scene = "spoken" => VoicedInv /\ PlayerInv) /\ [MaterialNext]_material => (scene = "spoken" => PlayerInv)'
  BY <1>2, SceneSteps
<1> QED
  BY <1>1, <1>3, SpokenInvariant, PTL DEF MaterialSpec
-----------------------------------------------------------------------------
(***************************************************************************)
(* A deck that runs by itself (FastPlay).                                  *)
(***************************************************************************)

Channel(m) == m = [audio |-> m.audio, image |-> m.image]
Reducer(p) == p = [mode |-> p.mode, status |-> p.status, source |-> p.source, timer |-> p.timer]
Sounding(e) == e = [clip |-> e.clip, waiting |-> e.waiting]
ClipOf(r, j) == <<"clip", r, j>>

FastTypes ==
    /\ round \in Nat /\ length \in Nat /\ index \in 0 .. length /\ generation \in Nat
    /\ DOMAIN media \subseteq Nat /\ \A j \in DOMAIN media : Channel(media[j])
    /\ Reducer(playback) /\ Sounding(element)

\* The runs of the page are numbered by its generations.
DeckInv ==
    IF strip = "run" THEN round = generation + 1 /\ (index = length => element.clip = Fast!None)
    ELSE /\ round = generation /\ index = 0 /\ length = 0 /\ DOMAIN media = {}
         /\ element.clip = Fast!None

\* A request is for a card of the deck of its generation, and is the only one.
Requests(n) ==
    \A f \in fetches :
        /\ f = [kind |-> f.kind, clip |-> ClipOf(f.generation + 1, f.place),
                place |-> f.place, generation |-> f.generation]
        /\ f.kind \in {"audio", "image"} /\ f.place \in Nat /\ f.generation \in 0 .. generation
        /\ f.kind = "image" => f.place \in PicturedAt
        /\ f.generation = generation => f.place < n

MediaOf(r) ==
    \A j \in DOMAIN media :
        /\ media[j].audio \in {Fast!Pending, Fast!Failed, ClipOf(r, j)}
        /\ media[j].image \in {Fast!Pending, Fast!Failed, Fast!Absent, ClipOf(r, j)}
Awaited(kind, r, j) == \E f \in fetches : f.kind = kind /\ f.clip = ClipOf(r, j)
PendingOf(r) ==
    \A j \in DOMAIN media : /\ media[j].audio = Fast!Pending <=> Awaited("audio", r, j)
                            /\ media[j].image = Fast!Pending <=> Awaited("image", r, j)

\* What was asked for in this run was asked for once, and is kept or left behind.
Behind(k) ==
    \A j \in DOMAIN requested : /\ requested[j] = 1 /\ j \in Nat
                                /\ j \in DOMAIN media \/ j < k - 1
AskedOnce == IF strip = "run" THEN Behind(index) ELSE DOMAIN requested = {}

FastInv ==
    FastTypes /\ DeckInv /\ Requests(length) /\ AskedOnce /\ Fast!RightClip /\ Fast!WindowKept

\* Marks of a channel are not clips, and not each other.
LEMMA MarksDiffer ==
    /\ Fast!Pending # Fast!Failed /\ Fast!Pending # Fast!Absent /\ Fast!Pending # Fast!None
    /\ \A r, j : ClipOf(r, j) \notin {Fast!None, Fast!Pending, Fast!Failed, Fast!Absent}
BY DEF Fast!Pending, Fast!Failed, Fast!Absent, Fast!None, ClipOf

Within(r, i, clip) == clip = Fast!None \/ \E j \in 0 .. i : clip = ClipOf(r, j)

\* The invariant of the page, part by part.
LEMMA FastHolds ==
    ASSUME FastInv
    PROVE  /\ FastTypes /\ DeckInv /\ Requests(length) /\ AskedOnce /\ MediaOf(round)
           /\ playback.source = Fast!SourceOf(media, index) /\ Within(round, index, element.clip)
           /\ strip = "run" =>
                 /\ DOMAIN media \subseteq (index - 1) .. (index + PreloadWindow)
                 /\ (index .. Fast!Least(length, index + PreloadWindow + 1) - 1) \subseteq DOMAIN media
                 /\ PendingOf(round)
<1>1. \A j : Fast!Clip(j) = ClipOf(round, j)
  BY DEF Fast!Clip, ClipOf
<1>2. /\ MediaOf(round) /\ playback.source = Fast!SourceOf(media, index)
      /\ Within(round, index, element.clip)
  BY <1>1 DEF FastInv, Fast!RightClip, MediaOf, Within
<1>3. strip = "run" => PendingOf(round)
  BY <1>1 DEF FastInv, Fast!WindowKept, PendingOf, Awaited
<1> QED
  BY <1>2, <1>3 DEF FastInv, Fast!WindowKept

\* What a result of the reducer leaves as the source, and may do with it.
Yields(result, source) ==
    /\ Reducer(result.state) /\ result.state.source = source
    /\ result.command \in {Fast!NoCommand, Fast!PauseIt, Fast!Play(source)}

LEMMA ReducerYields ==
    ASSUME NEW p, Reducer(p), NEW clip
    PROVE  /\ Yields(Fast!OnAudioReady(p, clip), clip)
           /\ Yields(Fast!OnAudioFailed(p), p.source)
           /\ Yields(Fast!OnStartWithSound(p), p.source)
           /\ Yields(Fast!OnStartWithoutSound(p), p.source)
           /\ Yields(Fast!OnPause(p), p.source)
           /\ Yields(Fast!OnResume(p), p.source)
           /\ Yields(Fast!OnSourceChanged(p, clip), clip)
           /\ Reducer(Fast!OnPlaySucceeded(p)) /\ Fast!OnPlaySucceeded(p).source = p.source
           /\ Reducer(Fast!OnPlayRejected(p)) /\ Fast!OnPlayRejected(p).source = p.source
<1>1. ASSUME NEW status, NEW q, q = [p EXCEPT !.source = clip, !.status = status]
      PROVE  Reducer(q) /\ q.source = clip
  <2>1. q = [mode |-> p.mode, status |-> status, source |-> clip, timer |-> p.timer]
    BY <1>1 DEF Reducer
  <2> QED
    BY <2>1 DEF Reducer
<1>2. ASSUME NEW status, NEW timer, NEW q, q = [p EXCEPT !.status = status, !.timer = timer]
      PROVE  Reducer(q) /\ q.source = p.source
  <2>1. q = [mode |-> p.mode, status |-> status, source |-> p.source, timer |-> timer]
    BY <1>2 DEF Reducer
  <2> QED
    BY <2>1 DEF Reducer
<1>3. Yields(Fast!OnAudioReady(p, clip), clip)
  BY <1>1 DEF Fast!OnAudioReady, Yields
<1>4. Yields(Fast!OnAudioFailed(p), p.source)
  <2>1. PICK t : t = (p.timer /\ p.mode # "StartingSound")
    OBVIOUS
  <2>2. PICK q : q = [p EXCEPT !.status = "Failed", !.timer = t]
    OBVIOUS
  <2>3. Reducer(q) /\ q.source = p.source
    BY <1>2, <2>2
  <2>4. Fast!OnAudioFailed(p) = [state |-> q, command |-> Fast!NoCommand]
    BY <2>1, <2>2 DEF Fast!OnAudioFailed
  <2> QED
    BY <2>3, <2>4 DEF Yields
<1>5. Yields(Fast!OnStartWithSound(p), p.source)
  BY DEF Fast!OnStartWithSound, Yields, Reducer
<1>6. Yields(Fast!OnStartWithoutSound(p), p.source)
  BY DEF Fast!OnStartWithoutSound, Yields, Reducer
<1>7. Yields(Fast!OnPause(p), p.source)
  BY DEF Fast!OnPause, Yields, Reducer
<1>8. Yields(Fast!OnResume(p), p.source)
  BY DEF Fast!OnResume, Yields, Reducer
<1>9. Yields(Fast!OnSourceChanged(p, clip), clip)
  BY <1>1 DEF Fast!OnSourceChanged, Yields
<1>10. /\ Reducer(Fast!OnPlaySucceeded(p)) /\ Fast!OnPlaySucceeded(p).source = p.source
       /\ Reducer(Fast!OnPlayRejected(p)) /\ Fast!OnPlayRejected(p).source = p.source
  <2>1. PICK q : q = Fast!OnPlaySucceeded(p)
    OBVIOUS
  <2>2. PICK u : u = Fast!OnPlayRejected(p)
    OBVIOUS
  <2>3. q = [mode |-> "WithSound", status |-> "Playing", source |-> p.source, timer |-> TRUE]
    BY <2>1 DEF Fast!OnPlaySucceeded, Reducer
  <2>4. u = [mode |-> "AwaitingChoice", status |-> "Failed", source |-> p.source, timer |-> FALSE]
    BY <2>2 DEF Fast!OnPlayRejected, Reducer
  <2>5. Reducer(q) /\ q.source = p.source
    BY <2>3 DEF Reducer
  <2>6. Reducer(u) /\ u.source = p.source
    BY <2>4 DEF Reducer
  <2> QED
    BY <2>1, <2>2, <2>5, <2>6
<1> QED
  BY <1>3, <1>4, <1>5, <1>6, <1>7, <1>8, <1>9, <1>10

\* The element keeps its clip, or is given the source.
LEMMA ElementRuns ==
    ASSUME Sounding(element), NEW source, NEW does,
           does \in {Fast!NoCommand, Fast!PauseIt, Fast!Play(source)}, Fast!RunCommand(does)
    PROVE  Sounding(element') /\ element'.clip \in {element.clip, source}
<1>1. CASE does.do = "play"
  <2>1. does = [do |-> "play", clip |-> source]
    BY <1>1 DEF Fast!NoCommand, Fast!PauseIt, Fast!Play
  <2>2. element' = [clip |-> source, waiting |-> TRUE]
    BY <1>1, <2>1 DEF Fast!RunCommand
  <2> QED
    BY <2>2 DEF Sounding
<1>2. CASE does.do = "pause"
  <2>1. element' = [element EXCEPT !.waiting = FALSE]
    BY <1>2 DEF Fast!RunCommand
  <2> QED
    BY <2>1 DEF Sounding
<1>3. CASE does.do \notin {"play", "pause"}
  <2>1. element' = element
    BY <1>3 DEF Fast!RunCommand
  <2> QED
    BY <2>1 DEF Sounding
<1> QED
  BY <1>1, <1>2, <1>3

\* The window moves to card i of n: its channels are kept or begun, and what is begun
\* is asked for.
LEMMA WindowMoves ==
    ASSUME NEW r, NEW i \in Nat, NEW n \in Nat, generation \in Nat, r = generation + 1,
           DOMAIN media \subseteq Nat, \A j \in DOMAIN media : Channel(media[j]),
           Requests(n), MediaOf(r), PendingOf(r), generation' = generation,
           media' = Fast!Windowed(i, n), fetches' = Fast!Asked(r, i, n)
    PROVE  /\ DOMAIN media' \subseteq Nat /\ \A j \in DOMAIN media' : Channel(media'[j])
           /\ DOMAIN media' \subseteq (i - 1) .. (i + PreloadWindow)
           /\ (i .. Fast!Least(n, i + PreloadWindow + 1) - 1) \subseteq DOMAIN media'
           /\ Requests(n)' /\ MediaOf(r)' /\ PendingOf(r)'
<1>1. PICK kept : kept = Fast!Keep(i)
  OBVIOUS
<1>2. PICK fresh : fresh = Fast!Fetch(i, n)
  OBVIOUS
<1>3. PreloadWindow \in Nat
  BY FastAssumption
<1>4. \A j \in kept : j \in DOMAIN media /\ j \in Nat /\ i - 1 <= j /\ j <= i + PreloadWindow
  BY <1>1 DEF Fast!Keep
<1>5. \A j \in fresh : j \notin DOMAIN media /\ j \in Nat /\ i <= j /\ j <= i + PreloadWindow /\ j < n
  BY <1>2, <1>3 DEF Fast!Fetch, Fast!Least
<1>6. \A j \in Nat : (i <= j /\ j < n /\ j <= i + PreloadWindow) => j \in kept \cup fresh
  BY <1>1, <1>2, <1>3 DEF Fast!Keep, Fast!Fetch, Fast!Least
<1>7. /\ DOMAIN media' = kept \cup fresh
      /\ \A j \in kept : media'[j] = media[j]
      /\ \A j \in fresh : media'[j] = Fast!Begin(j)
  BY <1>1, <1>2, <1>4, <1>5 DEF Fast!Windowed
<1>8. \A j \in fresh : /\ Channel(media'[j]) /\ media'[j].audio = Fast!Pending
                       /\ media'[j].image = IF j \in PicturedAt THEN Fast!Pending ELSE Fast!Absent
  BY <1>7 DEF Fast!Begin, Channel
<1>9. \A f : f \in fetches' <=>
            \/ f \in fetches
            \/ \E j \in fresh : f = Fast!Request("audio", r, j)
            \/ \E j \in fresh : j \in PicturedAt /\ f = Fast!Request("image", r, j)
  BY <1>2 DEF Fast!Asked
<1>10. ASSUME NEW j, NEW kind
       PROVE  /\ Fast!Request(kind, r, j)
                   = [kind |-> kind, clip |-> ClipOf(r, j), place |-> j, generation |-> generation]
              /\ Fast!Request(kind, r, j).kind = kind
              /\ Fast!Request(kind, r, j).clip = ClipOf(r, j)
  BY DEF Fast!Request, ClipOf
<1>11. Requests(n)'
  <2> SUFFICES ASSUME NEW f \in fetches'
               PROVE  /\ f = [kind |-> f.kind, clip |-> ClipOf(f.generation + 1, f.place),
                              place |-> f.place, generation |-> f.generation]
                      /\ f.kind \in {"audio", "image"} /\ f.place \in Nat
                      /\ f.generation \in 0 .. generation
                      /\ f.kind = "image" => f.place \in PicturedAt
                      /\ f.generation = generation => f.place < n
    BY DEF Requests, ClipOf
  <2>1. CASE f \in fetches
    BY <2>1 DEF Requests
  <2>2. ASSUME NEW j \in fresh, NEW kind \in {"audio", "image"}, kind = "image" => j \in PicturedAt,
               f = [kind |-> kind, clip |-> ClipOf(r, j), place |-> j, generation |-> generation]
        PROVE  /\ f = [kind |-> f.kind, clip |-> ClipOf(f.generation + 1, f.place),
                       place |-> f.place, generation |-> f.generation]
               /\ f.kind \in {"audio", "image"} /\ f.place \in Nat
               /\ f.generation \in 0 .. generation
               /\ f.kind = "image" => f.place \in PicturedAt
               /\ f.generation = generation => f.place < n
    BY <1>5, <2>2
  <2>3. CASE \E j \in fresh : f = Fast!Request("audio", r, j)
    <3>1. PICK j \in fresh : f = Fast!Request("audio", r, j)
      BY <2>3
    <3>2. f = [kind |-> "audio", clip |-> ClipOf(r, j), place |-> j, generation |-> generation]
      BY <1>10, <3>1
    <3> QED
      BY <2>2, <3>2
  <2>4. CASE \E j \in fresh : j \in PicturedAt /\ f = Fast!Request("image", r, j)
    <3>1. PICK j \in fresh : j \in PicturedAt /\ f = Fast!Request("image", r, j)
      BY <2>4
    <3>2. f = [kind |-> "image", clip |-> ClipOf(r, j), place |-> j, generation |-> generation]
      BY <1>10, <3>1
    <3> QED
      BY <2>2, <3>1, <3>2
  <2> QED
    BY <1>9, <2>1, <2>3, <2>4
<1>12. MediaOf(r)'
  <2>1. ASSUME NEW j \in kept \cup fresh
        PROVE  /\ media'[j].audio \in {Fast!Pending, Fast!Failed, ClipOf(r, j)}
               /\ media'[j].image \in {Fast!Pending, Fast!Failed, Fast!Absent, ClipOf(r, j)}
    BY <1>4, <1>7, <1>8 DEF MediaOf
  <2> QED
    BY <1>7, <2>1 DEF MediaOf, ClipOf, Fast!Pending, Fast!Failed, Fast!Absent
<1>13. \A j, k : ClipOf(r, j) = ClipOf(r, k) => j = k
  BY DEF ClipOf
<1>14. ASSUME NEW j \in kept
       PROVE  /\ Awaited("audio", r, j)' <=> Awaited("audio", r, j)
              /\ Awaited("image", r, j)' <=> Awaited("image", r, j)
  <2>1. ASSUME NEW k \in fresh, NEW kind
        PROVE  Fast!Request(kind, r, k).clip # ClipOf(r, j)
    <3>1. k # j
      BY <1>4, <1>5
    <3>2. Fast!Request(kind, r, k).clip = ClipOf(r, k)
      BY <1>10
    <3> QED
      BY <1>13, <3>1, <3>2
  <2> QED
    BY <1>9, <2>1 DEF Awaited, ClipOf
<1>15. ASSUME NEW j \in fresh
       PROVE  /\ Awaited("audio", r, j)'
              /\ Awaited("image", r, j)' <=> j \in PicturedAt
  <2>1. /\ Fast!Request("audio", r, j) \in fetches'
        /\ j \in PicturedAt => Fast!Request("image", r, j) \in fetches'
    BY <1>9
  <2>2. \A kind : /\ Fast!Request(kind, r, j).kind = kind
                  /\ Fast!Request(kind, r, j).clip = ClipOf(r, j)
    BY <1>10
  <2>3. ASSUME NEW f \in fetches', f.kind = "image", f.clip = ClipOf(r, j)
        PROVE  j \in PicturedAt
    <3>1. f.clip = ClipOf(f.generation + 1, f.place) /\ f.place \in PicturedAt
      BY <1>11, <2>3 DEF Requests, ClipOf
    <3> QED
      BY <2>3, <3>1 DEF ClipOf
  <2> QED
    BY <2>1, <2>2, <2>3 DEF Awaited, ClipOf
<1>16. PendingOf(r)'
  <2>1. ASSUME NEW j \in kept
        PROVE  /\ media'[j].audio = Fast!Pending <=> Awaited("audio", r, j)'
               /\ media'[j].image = Fast!Pending <=> Awaited("image", r, j)'
    BY <1>4, <1>7, <1>14 DEF PendingOf
  <2>2. ASSUME NEW j \in fresh
        PROVE  /\ media'[j].audio = Fast!Pending <=> Awaited("audio", r, j)'
               /\ media'[j].image = Fast!Pending <=> Awaited("image", r, j)'
    BY <1>8, <1>15, MarksDiffer
  <2> QED
    BY <1>7, <2>1, <2>2 DEF PendingOf, Awaited, Fast!Pending
<1>17. DOMAIN media' \subseteq (i - 1) .. (i + PreloadWindow)
  BY <1>3, <1>4, <1>5, <1>7
<1>18. (i .. Fast!Least(n, i + PreloadWindow + 1) - 1) \subseteq DOMAIN media'
  BY <1>3, <1>6, <1>7 DEF Fast!Least
<1>19. DOMAIN media' \subseteq Nat /\ \A j \in DOMAIN media' : Channel(media'[j])
  BY <1>4, <1>5, <1>7, <1>8
<1> QED
  BY <1>11, <1>12, <1>16, <1>17, <1>18, <1>19

\* What the window asks for it did not ask for before: it moves on, and what it keeps or
\* has left behind it does not fetch.
LEMMA WindowAsksOnce ==
    ASSUME NEW i \in Nat, NEW n \in Nat, NEW k \in Nat, k <= i, Behind(k),
           DOMAIN media \subseteq (k - 1) .. (k + PreloadWindow),
           media' = Fast!Windowed(i, n), requested' = Fast!Counted(i, n)
    PROVE  \A j \in DOMAIN requested' : /\ requested'[j] = 1 /\ j \in Nat
                                        /\ j \in DOMAIN media' \/ j < i - 1
<1>1. PICK fresh : fresh = Fast!Fetch(i, n)
  OBVIOUS
<1>2. PreloadWindow \in Nat
  BY FastAssumption
<1>3. \A j \in fresh : j \notin DOMAIN media /\ j \in Nat /\ i <= j
  BY <1>1, <1>2 DEF Fast!Fetch, Fast!Least
<1>4. /\ DOMAIN media' = Fast!Keep(i) \cup fresh
      /\ DOMAIN requested' = DOMAIN requested \cup fresh
      /\ \A j \in fresh : requested'[j] = Fast!Times(j) + 1
      /\ \A j \in DOMAIN requested \ fresh : requested'[j] = Fast!Times(j)
  BY <1>1 DEF Fast!Windowed, Fast!Counted
<1>5. \A j \in fresh : j \notin DOMAIN requested
  BY <1>3 DEF Behind
<1>6. ASSUME NEW j \in fresh
      PROVE  requested'[j] = 1 /\ j \in Nat /\ j \in DOMAIN media'
  BY <1>3, <1>4, <1>5 DEF Fast!Times
<1>7. ASSUME NEW j \in DOMAIN requested
      PROVE  requested'[j] = 1 /\ j \in Nat /\ (j \in DOMAIN media' \/ j < i - 1)
  <2>1. requested'[j] = 1 /\ j \in Nat
    BY <1>4, <1>5 DEF Fast!Times, Behind
  <2>2. CASE j \in DOMAIN media
    BY <1>2, <1>4, <2>1, <2>2 DEF Fast!Keep
  <2>3. CASE j < k - 1
    BY <2>1, <2>3
  <2> QED
    BY <2>1, <2>2, <2>3 DEF Behind
<1> QED
  BY <1>4, <1>6, <1>7

\* A step that shows the same card asks for nothing.
LEMMA AskedRests ==
    ASSUME AskedOnce, DOMAIN media' = DOMAIN media, UNCHANGED <<strip, index, requested>>
    PROVE  AskedOnce'
BY DEF AskedOnce, Behind

\* The source of a card is its clip, or nothing.
LEMMA SourceIsOwn ==
    ASSUME NEW m, NEW r, NEW i, i \in DOMAIN m => m[i].audio \in {Fast!Pending, Fast!Failed, ClipOf(r, i)}
    PROVE  Fast!SourceOf(m, i) \in {Fast!None, ClipOf(r, i)}
BY DEF Fast!SourceOf

\* Card i comes up: the reducer has its clip if that has come, and the element sounds it,
\* or goes on; after the last card there is no element.
LEMMA CardComesUp ==
    ASSUME NEW p, NEW r, NEW i \in Nat, NEW n \in Nat, Reducer(p), Sounding(element),
           Within(r, i, element.clip), MediaOf(r)', Fast!Show(p, r, i, n)
    PROVE  /\ Reducer(playback') /\ playback'.source = Fast!SourceOf(media', i)
           /\ Sounding(element') /\ Within(r, i, element'.clip)
           /\ i >= n => element'.clip = Fast!None
<1>1. PICK source : source = Fast!SourceOf(media', i)
  OBVIOUS
<1>2. PICK result : result = Fast!OnSourceChanged(p, source)
  OBVIOUS
<1>3. Yields(result, source)
  BY <1>2, ReducerYields
<1>4. /\ playback' = result.state
      /\ IF i < n THEN Fast!RunCommand(result.command) ELSE element' = Fast!NoElement
  BY <1>1, <1>2 DEF Fast!Show
<1>5. source \in {Fast!None, ClipOf(r, i)}
  <2>1. \A j \in DOMAIN media' : media'[j].audio \in {Fast!Pending, Fast!Failed, ClipOf(r, j)}
    BY DEF MediaOf, ClipOf, Fast!Pending, Fast!Failed
  <2> QED
    BY <1>1, <2>1, SourceIsOwn
<1>6. CASE i < n
  <2>1. Sounding(element') /\ element'.clip \in {element.clip, source}
    BY <1>3, <1>4, <1>6, ElementRuns DEF Yields
  <2> QED
    BY <1>1, <1>3, <1>4, <1>5, <1>6, <2>1 DEF Yields, Within
<1>7. CASE ~(i < n)
  <2>1. element' = [clip |-> Fast!None, waiting |-> FALSE]
    BY <1>4, <1>7 DEF Fast!NoElement
  <2>2. Sounding(element') /\ element'.clip = Fast!None
    BY <2>1 DEF Sounding
  <2> QED
    BY <1>1, <1>3, <1>4, <2>2 DEF Yields, Within
<1> QED
  BY <1>6, <1>7

\* The invariant of the page, put together.
LEMMA FastMoves ==
    ASSUME FastTypes', DeckInv', AskedOnce', NEW r, NEW i, NEW n,
           r = round', i = index', n = length',
           Requests(n)', MediaOf(r)', playback'.source = Fast!SourceOf(media', i),
           Within(r, i, element'.clip),
           strip' = "run" => /\ DOMAIN media' \subseteq (i - 1) .. (i + PreloadWindow)
                             /\ (i .. Fast!Least(n, i + PreloadWindow + 1) - 1) \subseteq DOMAIN media'
                             /\ PendingOf(r)'
    PROVE  FastInv'
<1>1. \A j : Fast!Clip(j)' = ClipOf(r, j)
  BY DEF Fast!Clip, ClipOf
<1>2. Requests(length)'
  BY DEF Requests, ClipOf
<1>3. \A j \in DOMAIN media' :
          /\ media'[j].audio \in {Fast!Pending, Fast!Failed, Fast!Clip(j)'}
          /\ media'[j].image \in {Fast!Pending, Fast!Failed, Fast!Absent, Fast!Clip(j)'}
  BY <1>1 DEF MediaOf, ClipOf, Fast!Pending, Fast!Failed, Fast!Absent
<1>4. element'.clip \in {Fast!None} \cup {Fast!Clip(j)' : j \in 0 .. i}
  BY <1>1 DEF Within
<1>5. Fast!RightClip'
  BY <1>3, <1>4 DEF Fast!RightClip, Fast!SourceOf, Fast!None, Fast!Pending, Fast!Failed, Fast!Absent,
     Fast!Clip
<1>6. ASSUME strip' = "run", NEW j \in DOMAIN media'
      PROVE  \A kind \in {"audio", "image"} :
                (media'[j][kind] = Fast!Pending) <=>
                    \E f \in fetches' : f.kind = kind /\ f.clip = Fast!Clip(j)'
  BY <1>1, <1>6 DEF PendingOf, Awaited, ClipOf, Fast!Pending
<1>7. strip' = "run" => \A j \in DOMAIN requested' : requested'[j] = 1
  BY DEF AskedOnce, Behind
<1>8. Fast!WindowKept'
  BY <1>6, <1>7 DEF Fast!WindowKept, Fast!Least, Fast!Pending, Fast!Clip
<1> QED
  BY <1>2, <1>5, <1>8 DEF FastInv

\* The page is left, or waits for its deck.
LEMMA PageMoves ==
    ASSUME FastInv, strip # "run", strip' # "run",
           UNCHANGED <<round, length, index, generation, media, fetches, requested, playback,
                       element>>
    PROVE  FastInv'
BY DEF FastInv, FastTypes, DeckInv, Requests, AskedOnce, Behind, Fast!RightClip, Fast!WindowKept, Channel, Reducer,
   Sounding, ClipOf, Fast!SourceOf, Fast!None, Fast!Pending, Fast!Failed, Fast!Absent, Fast!Clip

\* A deck is loaded: its first card comes up.
LEMMA DeckComes ==
    ASSUME FastInv, NEW n \in Nat, Fast!DeckLoaded(n)
    PROVE  FastInv'
<1>1. PICK r : r = round + 1
  OBVIOUS
<1>2. PICK start : start = IF starting = "StartWithSound" THEN Fast!OnStartWithSound(playback)
                           ELSE Fast!OnStartWithoutSound(playback)
  OBVIOUS
<1>3. /\ strip = "loading" /\ strip' = "run" /\ round' = r /\ length' = n
      /\ Fast!Show(start.state, r, index, n) /\ index' = index /\ generation' = generation
  BY <1>1, <1>2 DEF Fast!DeckLoaded
<1>4. /\ FastTypes /\ round = generation /\ index = 0 /\ length = 0 /\ DOMAIN media = {}
      /\ element.clip = Fast!None /\ Requests(0) /\ DOMAIN requested = {}
  BY <1>3, FastHolds DEF DeckInv, AskedOnce
<1>5. PICK p : p = start.state
  OBVIOUS
<1>6. Reducer(p)
  BY <1>2, <1>4, <1>5, ReducerYields DEF Yields, FastTypes
<1>7. Requests(n) /\ MediaOf(r) /\ PendingOf(r)
  BY <1>4 DEF Requests, MediaOf, PendingOf
<1>8. generation \in Nat /\ r = generation + 1 /\ Sounding(element)
  BY <1>1, <1>4 DEF FastTypes
<1>9. /\ media' = Fast!Windowed(0, n) /\ fetches' = Fast!Asked(r, 0, n)
      /\ requested' = Fast!Counted(0, n)
  BY <1>3, <1>4 DEF Fast!Show
<1>10. /\ DOMAIN media' \subseteq Nat /\ \A j \in DOMAIN media' : Channel(media'[j])
       /\ DOMAIN media' \subseteq (0 - 1) .. (0 + PreloadWindow)
       /\ (0 .. Fast!Least(n, 0 + PreloadWindow + 1) - 1) \subseteq DOMAIN media'
       /\ Requests(n)' /\ MediaOf(r)' /\ PendingOf(r)'
  BY <1>3, <1>4, <1>7, <1>8, <1>9, WindowMoves
<1>11. /\ Reducer(playback') /\ playback'.source = Fast!SourceOf(media', 0)
       /\ Sounding(element') /\ Within(r, 0, element'.clip)
       /\ 0 >= n => element'.clip = Fast!None
  <2>1. Within(r, 0, element.clip)
    BY <1>4 DEF Within
  <2> QED
    BY <1>3, <1>4, <1>5, <1>6, <1>8, <1>10, <2>1, CardComesUp
<1>12. FastTypes'
  BY <1>1, <1>3, <1>4, <1>10, <1>11 DEF FastTypes, Channel, Reducer, Sounding
<1>13. DeckInv'
  BY <1>1, <1>3, <1>4, <1>11 DEF DeckInv, Fast!None
<1>14. AskedOnce'
  <2>1. Behind(0)
    BY <1>4 DEF Behind
  <2>2. \A j \in DOMAIN requested' : requested'[j] = 1 /\ j \in Nat /\ (j \in DOMAIN media' \/ j < 0 - 1)
    BY <1>4, <1>9, <2>1, WindowAsksOnce
  <2> QED
    BY <1>3, <1>4, <2>2 DEF AskedOnce, Behind
<1> QED
  BY <1>3, <1>4, <1>10, <1>11, <1>12, <1>13, <1>14, FastMoves

\* The interval of a card is over.
LEMMA CardGoes ==
    ASSUME FastInv, Fast!Tick
    PROVE  FastInv'
<1>1. PICK r : r = round
  OBVIOUS
<1>2. PICK i : i = index + 1
  OBVIOUS
<1>3. PICK n : n = length
  OBVIOUS
<1>4. /\ strip = "run" /\ index < n /\ index' = i /\ Fast!Show(playback, r, i, n)
      /\ strip' = strip /\ round' = r /\ length' = n /\ generation' = generation
  BY <1>1, <1>2, <1>3 DEF Fast!Tick, Fast!Shown
<1>5. /\ FastTypes /\ r = generation + 1 /\ Requests(n) /\ MediaOf(r) /\ PendingOf(r)
      /\ Within(r, index, element.clip) /\ Behind(index)
      /\ DOMAIN media \subseteq (index - 1) .. (index + PreloadWindow)
  BY <1>1, <1>3, <1>4, FastHolds DEF DeckInv, AskedOnce
<1>6. /\ index \in Nat /\ i \in Nat /\ n \in Nat /\ i <= n /\ generation \in Nat
      /\ DOMAIN media \subseteq Nat /\ \A j \in DOMAIN media : Channel(media[j])
      /\ Sounding(element) /\ Reducer(playback)
  BY <1>2, <1>3, <1>4, <1>5 DEF FastTypes
<1>7. /\ media' = Fast!Windowed(i, n) /\ fetches' = Fast!Asked(r, i, n)
      /\ requested' = Fast!Counted(i, n)
  BY <1>4 DEF Fast!Show
<1>8. /\ DOMAIN media' \subseteq Nat /\ \A j \in DOMAIN media' : Channel(media'[j])
      /\ DOMAIN media' \subseteq (i - 1) .. (i + PreloadWindow)
      /\ (i .. Fast!Least(n, i + PreloadWindow + 1) - 1) \subseteq DOMAIN media'
      /\ Requests(n)' /\ MediaOf(r)' /\ PendingOf(r)'
  BY <1>4, <1>5, <1>6, <1>7, WindowMoves
<1>9. /\ Reducer(playback') /\ playback'.source = Fast!SourceOf(media', i)
      /\ Sounding(element') /\ Within(r, i, element'.clip)
      /\ i >= n => element'.clip = Fast!None
  <2>1. Within(r, i, element.clip)
    BY <1>2, <1>5, <1>6 DEF Within
  <2>2. PICK p : p = playback
    OBVIOUS
  <2> QED
    BY <1>4, <1>6, <1>8, <2>1, <2>2, CardComesUp
<1>10. FastTypes'
  BY <1>3, <1>4, <1>5, <1>6, <1>8, <1>9 DEF FastTypes, Channel, Reducer, Sounding
<1>11. DeckInv'
  BY <1>1, <1>4, <1>5, <1>6, <1>9 DEF DeckInv, Fast!None
<1>12. AskedOnce'
  <2>1. \A j \in DOMAIN requested' : requested'[j] = 1 /\ j \in Nat /\ (j \in DOMAIN media' \/ j < i - 1)
    BY <1>2, <1>5, <1>6, <1>7, WindowAsksOnce
  <2> QED
    BY <1>4, <2>1 DEF AskedOnce, Behind
<1> QED
  BY <1>1, <1>4, <1>8, <1>9, <1>10, <1>11, <1>12, FastMoves

\* The reducer and the element move on the card that is shown.
LEMMA SoundMoves ==
    ASSUME FastInv, UNCHANGED <<strip, round, length, index, generation, media, fetches, requested>>,
           Reducer(playback'), playback'.source = playback.source, Sounding(element'),
           element'.clip \in {element.clip, playback.source},
           (strip = "run" /\ index < length) \/ element'.clip = element.clip
    PROVE  FastInv'
<1>1. PICK r : r = round
  OBVIOUS
<1>2. PICK i : i = index
  OBVIOUS
<1>3. PICK n : n = length
  OBVIOUS
<1>4. /\ FastTypes /\ DeckInv /\ Requests(n) /\ AskedOnce /\ MediaOf(r)
      /\ playback.source = Fast!SourceOf(media, i) /\ Within(r, i, element.clip)
      /\ strip = "run" =>
            /\ DOMAIN media \subseteq (i - 1) .. (i + PreloadWindow)
            /\ (i .. Fast!Least(n, i + PreloadWindow + 1) - 1) \subseteq DOMAIN media
            /\ PendingOf(r)
  BY <1>1, <1>2, <1>3, FastHolds
<1>5. playback.source \in {Fast!None, ClipOf(r, i)}
  BY <1>4, SourceIsOwn DEF MediaOf
<1>6. Within(r, i, element'.clip)
  BY <1>2, <1>4, <1>5 DEF Within, FastTypes
<1>7. FastTypes'
  BY <1>4 DEF FastTypes, Channel, Reducer, Sounding
<1>8. DeckInv'
  BY <1>4 DEF DeckInv, FastTypes, Fast!None
<1>9. Requests(n)' /\ MediaOf(r)' /\ (strip = "run" => PendingOf(r)')
  BY <1>4 DEF Requests, MediaOf, PendingOf, Awaited, ClipOf, Fast!Pending, Fast!Failed, Fast!Absent
<1>10. AskedOnce'
  BY <1>4, AskedRests
<1> QED
  BY <1>1, <1>2, <1>3, <1>4, <1>6, <1>7, <1>8, <1>9, <1>10, FastMoves

\* A button of the shown card.
LEMMA ButtonMoves ==
    ASSUME FastInv, NEW result, Yields(result, playback.source), Fast!Press(result)
    PROVE  FastInv'
<1>1. /\ strip = "run" /\ index < length /\ playback' = result.state
      /\ Fast!RunCommand(result.command)
      /\ UNCHANGED <<strip, round, length, index, generation, media, fetches, requested>>
  BY DEF Fast!Press, Fast!Shown
<1>2. Sounding(element)
  BY DEF FastInv, FastTypes
<1>3. Sounding(element') /\ element'.clip \in {element.clip, playback.source}
  BY <1>1, <1>2, ElementRuns DEF Yields
<1> QED
  BY <1>1, <1>3, SoundMoves DEF Yields

\* The browser settles a play(), and run_command takes the answer.
LEMMA PlaySettles ==
    ASSUME FastInv, NEW settlement, Fast!Settle(settlement) \/ Fast!PlayAnswered
    PROVE  FastInv'
<1>1. Reducer(playback) /\ Sounding(element)
  BY DEF FastInv, FastTypes
<1>2. CASE Fast!Settle(settlement)
  <2>1. /\ element' = [element EXCEPT !.waiting = FALSE] /\ playback' = playback
        /\ UNCHANGED <<strip, round, length, index, generation, media, fetches, requested>>
    BY <1>2 DEF Fast!Settle
  <2>2. Sounding(element') /\ element'.clip = element.clip
    BY <1>1, <2>1 DEF Sounding
  <2> QED
    BY <1>1, <2>1, <2>2, SoundMoves
<1>3. CASE Fast!PlayAnswered
  <2>1. /\ playback' \in {Fast!OnPlaySucceeded(playback), Fast!OnPlayRejected(playback)}
        /\ element' = element
        /\ UNCHANGED <<strip, round, length, index, generation, media, fetches, requested>>
    BY <1>3 DEF Fast!PlayAnswered
  <2>2. Reducer(playback') /\ playback'.source = playback.source
    BY <1>1, <2>1, ReducerYields
  <2> QED
    BY <1>1, <2>1, <2>2, SoundMoves DEF Sounding
<1> QED
  BY <1>2, <1>3

\* The next run starts with no channel; the answers still under way are of the old one.
LEMMA RunEnds ==
    ASSUME FastInv, Fast!Restart
    PROVE  FastInv'
<1>1. PICK r : r = round
  OBVIOUS
<1>2. /\ strip = "run" /\ index >= length /\ strip' = "choosing" /\ index' = 0 /\ length' = 0
      /\ generation' = generation + 1 /\ DOMAIN media' = {} /\ playback' = Fast!initial
      /\ DOMAIN requested' = {}
      /\ UNCHANGED <<round, fetches, element>>
  BY DEF Fast!Restart
<1>3. FastTypes /\ r = generation + 1 /\ element.clip = Fast!None /\ Requests(length)
  BY <1>1, <1>2, FastHolds DEF DeckInv, FastTypes
<1>4. Reducer(playback') /\ playback'.source = Fast!None
  BY <1>2 DEF Fast!initial, Reducer
<1>5. FastTypes'
  BY <1>2, <1>3, <1>4 DEF FastTypes, Channel, Reducer, Sounding
<1>6. DeckInv'
  BY <1>1, <1>2, <1>3 DEF DeckInv, Fast!None
<1>7. generation \in Nat
  BY <1>3 DEF FastTypes
<1>8. ASSUME NEW f \in fetches
      PROVE  f.generation \in 0 .. generation + 1 /\ f.generation # generation + 1
  BY <1>3, <1>7 DEF Requests
<1>9. Requests(0)'
  BY <1>2, <1>3, <1>7, <1>8 DEF Requests, ClipOf
<1>10. MediaOf(r)' /\ playback'.source = Fast!SourceOf(media', 0) /\ Within(r, 0, element'.clip)
  BY <1>2, <1>3, <1>4 DEF MediaOf, Fast!SourceOf, Within
<1>11. AskedOnce'
  BY <1>2 DEF AskedOnce
<1> QED
  BY <1>1, <1>2, <1>5, <1>6, <1>9, <1>10, <1>11, FastMoves

\* A request that is answered is taken out, and no other awaits what it asked for.
LEMMA AnswerTaken ==
    ASSUME NEW n, NEW r, generation \in Nat, Requests(n), NEW f \in fetches,
           fetches' = fetches \ {f}, generation' = generation
    PROVE  /\ Requests(n)'
           /\ ~Awaited(f.kind, f.generation + 1, f.place)'
           /\ \A kind, j : ClipOf(r, j) # f.clip \/ kind # f.kind
                              => (Awaited(kind, r, j)' <=> Awaited(kind, r, j))
<1>1. Requests(n)'
  BY DEF Requests, ClipOf
<1>2. ASSUME NEW g \in fetches, g.kind = f.kind, g.clip = ClipOf(f.generation + 1, f.place)
      PROVE  g = f
  <2>1. /\ g.generation + 1 = f.generation + 1 /\ g.place = f.place
    BY <1>2 DEF Requests, ClipOf
  <2>2. g.generation = f.generation
    BY <2>1 DEF Requests
  <2>3. /\ f = [kind |-> f.kind, clip |-> ClipOf(f.generation + 1, f.place),
                place |-> f.place, generation |-> f.generation]
        /\ g = [kind |-> g.kind, clip |-> ClipOf(g.generation + 1, g.place),
                place |-> g.place, generation |-> g.generation]
    BY DEF Requests
  <2> QED
    BY <1>2, <2>1, <2>2, <2>3
<1>3. ~Awaited(f.kind, f.generation + 1, f.place)'
  BY <1>2 DEF Awaited, ClipOf
<1>4. ASSUME NEW kind, NEW j, ClipOf(r, j) # f.clip \/ kind # f.kind
      PROVE  Awaited(kind, r, j)' <=> Awaited(kind, r, j)
  BY <1>4 DEF Awaited, ClipOf
<1> QED
  BY <1>1, <1>3, <1>4

\* An answer to an earlier run changes nothing.
LEMMA LateAnswer ==
    ASSUME FastInv, NEW f \in fetches, NEW heard, f.generation # generation, Fast!Fetched(f, heard)
    PROVE  FastInv'
<1>1. PICK r : r = round
  OBVIOUS
<1>2. PICK i : i = index
  OBVIOUS
<1>3. PICK n : n = length
  OBVIOUS
<1>4. /\ fetches' = fetches \ {f}
      /\ UNCHANGED <<strip, round, length, index, generation, media, requested, playback, element>>
  BY DEF Fast!Fetched
<1>5. /\ FastTypes /\ DeckInv /\ Requests(n) /\ AskedOnce /\ MediaOf(r)
      /\ playback.source = Fast!SourceOf(media, i) /\ Within(r, i, element.clip)
      /\ strip = "run" =>
            /\ DOMAIN media \subseteq (i - 1) .. (i + PreloadWindow)
            /\ (i .. Fast!Least(n, i + PreloadWindow + 1) - 1) \subseteq DOMAIN media
            /\ PendingOf(r)
  BY <1>1, <1>2, <1>3, FastHolds
<1>6. generation \in Nat
  BY <1>5 DEF FastTypes
<1>7. /\ Requests(n)'
      /\ \A kind, j : ClipOf(r, j) # f.clip \/ kind # f.kind
                         => (Awaited(kind, r, j)' <=> Awaited(kind, r, j))
  BY <1>4, <1>5, <1>6, AnswerTaken
<1>8. strip = "run" => PendingOf(r)'
  <2> SUFFICES ASSUME strip = "run" PROVE PendingOf(r)'
    OBVIOUS
  <2>1. \A j : ClipOf(r, j) # f.clip
    <3>1. f.clip = ClipOf(f.generation + 1, f.place) /\ f.generation \in Nat
      BY <1>5, <1>6 DEF Requests
    <3>2. r = generation + 1
      BY <1>1, <1>5 DEF DeckInv
    <3> QED
      BY <1>6, <3>1, <3>2 DEF ClipOf
  <2>2. \A kind, j : Awaited(kind, r, j)' <=> Awaited(kind, r, j)
    BY <1>7, <2>1
  <2>3. ASSUME NEW j \in DOMAIN media
        PROVE  /\ media'[j].audio = Fast!Pending <=> Awaited("audio", r, j)'
               /\ media'[j].image = Fast!Pending <=> Awaited("image", r, j)'
    BY <1>4, <1>5, <2>2 DEF PendingOf
  <2> QED
    BY <1>4, <2>3 DEF PendingOf, Awaited, Fast!Pending
<1>9. MediaOf(r)'
  BY <1>4, <1>5 DEF MediaOf, ClipOf, Fast!Pending, Fast!Failed, Fast!Absent
<1>10. FastTypes' /\ DeckInv'
  BY <1>4, <1>5 DEF FastTypes, DeckInv, Channel, Reducer, Sounding, Fast!None
<1>11. AskedOnce'
  BY <1>4, <1>5, AskedRests
<1> QED
  BY <1>1, <1>2, <1>3, <1>4, <1>5, <1>7, <1>8, <1>9, <1>10, <1>11, FastMoves

\* An answer is published in the channel it was asked for, if that is still kept.
LEMMA AnswerPublished ==
    ASSUME NEW n, NEW r, generation \in Nat, r = generation + 1, Requests(n), MediaOf(r), PendingOf(r),
           \A j \in DOMAIN media : Channel(media[j]),
           NEW f \in fetches, f.generation = generation,
           NEW heard \in {f.clip, Fast!Failed} \cup (IF f.kind = "image" THEN {Fast!Absent} ELSE {}),
           fetches' = fetches \ {f}, generation' = generation, media' = Fast!Published(f, heard)
    PROVE  /\ DOMAIN media' = DOMAIN media /\ \A j \in DOMAIN media : Channel(media'[j])
           /\ \A j \in DOMAIN media :
                 media'[j].audio = IF f.kind = "audio" /\ f.place = j THEN heard ELSE media[j].audio
           /\ Requests(n)' /\ MediaOf(r)' /\ PendingOf(r)'
<1>1. f.clip = ClipOf(r, f.place) /\ f.kind \in {"audio", "image"}
  BY DEF Requests
<1>2. /\ Requests(n)'
      /\ ~Awaited(f.kind, r, f.place)'
      /\ \A kind, j : j # f.place \/ kind # f.kind => (Awaited(kind, r, j)' <=> Awaited(kind, r, j))
  <2>1. /\ Requests(n)'
        /\ ~Awaited(f.kind, f.generation + 1, f.place)'
        /\ \A kind, j : ClipOf(r, j) # f.clip \/ kind # f.kind
                           => (Awaited(kind, r, j)' <=> Awaited(kind, r, j))
    BY AnswerTaken
  <2>2. \A j : j # f.place => ClipOf(r, j) # f.clip
    BY <1>1 DEF ClipOf
  <2> QED
    BY <2>1, <2>2 DEF Awaited, ClipOf
<1>3. DOMAIN media' = DOMAIN media
  BY DEF Fast!Published
<1>4. ASSUME NEW j \in DOMAIN media, j # f.place
      PROVE  media'[j] = media[j]
  BY <1>4 DEF Fast!Published
<1>5. ASSUME f.place \in DOMAIN media
      PROVE  media'[f.place] = IF f.kind = "audio"
                               THEN [audio |-> heard, image |-> media[f.place].image]
                               ELSE [audio |-> media[f.place].audio, image |-> heard]
  <2>1. PICK m : m = media[f.place]
    OBVIOUS
  <2>2. m = [audio |-> m.audio, image |-> m.image]
    BY <1>5, <2>1 DEF Channel
  <2>3. media'[f.place] = IF f.kind = "audio" THEN [m EXCEPT !.audio = heard]
                          ELSE [m EXCEPT !.image = heard]
    BY <1>5, <2>1 DEF Fast!Published
  <2> QED
    BY <2>1, <2>2, <2>3
<1>6. ASSUME NEW j \in DOMAIN media
      PROVE  /\ Channel(media'[j])
             /\ media'[j].audio = IF f.kind = "audio" /\ f.place = j THEN heard ELSE media[j].audio
             /\ media'[j].image = IF f.kind = "image" /\ f.place = j THEN heard ELSE media[j].image
  BY <1>1, <1>4, <1>5 DEF Channel
<1>7. heard # Fast!Pending
  BY <1>1, MarksDiffer
<1>8. MediaOf(r)'
  <2>1. ASSUME NEW j \in DOMAIN media
        PROVE  /\ media'[j].audio \in {Fast!Pending, Fast!Failed, ClipOf(r, j)}
               /\ media'[j].image \in {Fast!Pending, Fast!Failed, Fast!Absent, ClipOf(r, j)}
    BY <1>1, <1>6 DEF MediaOf
  <2> QED
    BY <1>3, <2>1 DEF MediaOf, ClipOf, Fast!Pending, Fast!Failed, Fast!Absent
<1>9. PendingOf(r)'
  <2>1. ASSUME NEW j \in DOMAIN media
        PROVE  /\ media'[j].audio = Fast!Pending <=> Awaited("audio", r, j)'
               /\ media'[j].image = Fast!Pending <=> Awaited("image", r, j)'
    BY <1>1, <1>2, <1>6, <1>7 DEF PendingOf
  <2> QED
    BY <1>3, <2>1 DEF PendingOf, Awaited, Fast!Pending
<1> QED
  BY <1>2, <1>3, <1>6, <1>8, <1>9

\* The answer of the shown card is the reducer's business too.
LEMMA AnswerComes ==
    ASSUME FastInv, NEW f \in fetches, f.generation = generation,
           NEW heard \in {f.clip, Fast!Failed} \cup (IF f.kind = "image" THEN {Fast!Absent} ELSE {}),
           Fast!Fetched(f, heard)
    PROVE  FastInv'
<1>1. PICK r : r = round
  OBVIOUS
<1>2. PICK i : i = index
  OBVIOUS
<1>3. PICK n : n = length
  OBVIOUS
<1>4. PICK result : result = IF heard = Fast!Failed THEN Fast!OnAudioFailed(playback)
                             ELSE Fast!OnAudioReady(playback, heard)
  OBVIOUS
<1>5. /\ fetches' = fetches \ {f} /\ media' = Fast!Published(f, heard)
      /\ UNCHANGED <<strip, round, length, index, generation, requested>>
      /\ IF f.kind = "audio" /\ f.place = i
         THEN playback' = result.state /\ Fast!RunCommand(result.command)
         ELSE playback' = playback /\ element' = element
  BY <1>2, <1>4 DEF Fast!Fetched
<1>6. /\ FastTypes /\ DeckInv /\ Requests(n) /\ AskedOnce /\ MediaOf(r)
      /\ playback.source = Fast!SourceOf(media, i) /\ Within(r, i, element.clip)
      /\ strip = "run" =>
            /\ DOMAIN media \subseteq (i - 1) .. (i + PreloadWindow)
            /\ (i .. Fast!Least(n, i + PreloadWindow + 1) - 1) \subseteq DOMAIN media
            /\ PendingOf(r)
  BY <1>1, <1>2, <1>3, FastHolds
<1>7. /\ generation \in Nat /\ i \in Nat /\ n \in Nat /\ i <= n /\ Sounding(element) /\ Reducer(playback)
      /\ \A j \in DOMAIN media : Channel(media[j])
  BY <1>2, <1>3, <1>6 DEF FastTypes
<1>8. /\ f.place \in Nat /\ f.place < n /\ f.clip = ClipOf(f.generation + 1, f.place)
      /\ f.kind \in {"audio", "image"}
  BY <1>6 DEF Requests
<1>9. strip = "run" /\ r = generation + 1
  BY <1>1, <1>3, <1>6, <1>7, <1>8 DEF DeckInv
<1>10. /\ DOMAIN media' = DOMAIN media /\ \A j \in DOMAIN media : Channel(media'[j])
       /\ \A j \in DOMAIN media :
             media'[j].audio = IF f.kind = "audio" /\ f.place = j THEN heard ELSE media[j].audio
       /\ Requests(n)' /\ MediaOf(r)' /\ PendingOf(r)'
  BY <1>5, <1>6, <1>7, <1>9, AnswerPublished
<1>11. /\ Reducer(playback') /\ playback'.source = Fast!SourceOf(media', i)
       /\ Sounding(element') /\ Within(r, i, element'.clip)
       /\ i < n \/ element'.clip = element.clip
  <2>1. CASE ~(f.kind = "audio" /\ f.place = i)
    <3>1. playback' = playback /\ element' = element
      BY <1>5, <2>1
    <3>2. i \in DOMAIN media => media'[i].audio = media[i].audio
      BY <1>10, <2>1
    <3>3. Fast!SourceOf(media', i) = Fast!SourceOf(media, i)
      BY <1>10, <3>2 DEF Fast!SourceOf
    <3> QED
      BY <1>6, <1>7, <3>1, <3>3 DEF Reducer, Sounding
  <2>2. CASE f.kind = "audio" /\ f.place = i
    <3>1. playback' = result.state /\ Fast!RunCommand(result.command)
      BY <1>5, <2>2
    <3>2. i \in DOMAIN media /\ i < n
      BY <1>6, <1>7, <1>8, <1>9, <2>2, FastAssumption DEF Fast!Least
    <3>3. media[i].audio = Fast!Pending
      BY <1>6, <1>8, <1>9, <2>2, <3>2 DEF PendingOf, Awaited
    <3>4. Fast!SourceOf(media, i) = Fast!None
      BY <3>2, <3>3 DEF Fast!SourceOf
    <3>5. media'[i].audio = heard /\ i \in DOMAIN media'
      BY <1>10, <2>2, <3>2
    <3>6. CASE heard = Fast!Failed
      <4>1. Fast!SourceOf(media', i) = Fast!None
        BY <3>5, <3>6 DEF Fast!SourceOf
      <4>2. Yields(result, playback.source)
        BY <1>4, <1>7, <3>6, ReducerYields
      <4>3. Sounding(element') /\ element'.clip \in {element.clip, playback.source}
        BY <1>7, <3>1, <4>2, ElementRuns DEF Yields
      <4> QED
        BY <1>6, <3>1, <3>2, <3>4, <4>1, <4>2, <4>3 DEF Yields, Within
    <3>7. CASE heard # Fast!Failed
      <4>1. heard = ClipOf(r, i)
        BY <1>8, <1>9, <2>2, <3>7
      <4>2. Fast!SourceOf(media', i) = heard
        BY <3>5, <4>1, MarksDiffer DEF Fast!SourceOf
      <4>3. Yields(result, heard)
        BY <1>4, <1>7, <3>7, ReducerYields
      <4>4. Sounding(element') /\ element'.clip \in {element.clip, heard}
        BY <1>7, <3>1, <4>3, ElementRuns DEF Yields
      <4> QED
        BY <1>6, <1>7, <3>1, <3>2, <4>1, <4>2, <4>3, <4>4 DEF Yields, Within
    <3> QED
      BY <3>6, <3>7
  <2> QED
    BY <2>1, <2>2
<1>12. FastTypes'
  BY <1>5, <1>6, <1>10, <1>11 DEF FastTypes, Channel, Reducer, Sounding
<1>13. DeckInv'
  <2>1. strip' = "run" /\ round' = generation' + 1
    BY <1>1, <1>5, <1>9
  <2>2. index' = length' => element'.clip = Fast!None
    BY <1>2, <1>3, <1>5, <1>6, <1>7, <1>9, <1>11 DEF DeckInv
  <2> QED
    BY <2>1, <2>2 DEF DeckInv, Fast!None
<1>14. AskedOnce'
  BY <1>5, <1>6, <1>10, AskedRests
<1> QED
  BY <1>1, <1>2, <1>3, <1>5, <1>6, <1>9, <1>10, <1>11, <1>12, <1>13, <1>14, FastMoves

\* What is shown and heard of a running deck is of its own cards, every channel that is
\* pending has its one request, and no card is asked for twice (components/fast).
LEMMA FastInvariant == MaterialSpec => []FastInv
<1>1. Fast!Init => FastInv
  <2> SUFFICES ASSUME Fast!Init PROVE FastInv
    OBVIOUS
  <2>1. /\ strip = "counting" /\ round = 0 /\ length = 0 /\ index = 0 /\ generation = 0
        /\ DOMAIN media = {} /\ fetches = {} /\ DOMAIN requested = {}
        /\ playback = Fast!initial /\ element = Fast!NoElement
    BY DEF Fast!Init
  <2>2. /\ Reducer(playback) /\ playback.source = Fast!None
        /\ Sounding(element) /\ element.clip = Fast!None
    BY <2>1 DEF Reducer, Sounding, Fast!initial, Fast!NoElement
  <2>3. FastTypes /\ DeckInv /\ Requests(length) /\ AskedOnce
    BY <2>1, <2>2 DEF FastTypes, DeckInv, Requests, AskedOnce
  <2>4. Fast!RightClip /\ Fast!WindowKept
    BY <2>1, <2>2 DEF Fast!RightClip, Fast!WindowKept, Fast!SourceOf
  <2> QED
    BY <2>3, <2>4 DEF FastInv
<1>2. FastInv /\ [Fast!Next]_(Fast!vars) => FastInv'
  <2> SUFFICES ASSUME FastInv, [Fast!Next]_(Fast!vars)
               PROVE  FastInv'
    OBVIOUS
  <2>1. ASSUME NEW event \in {"StartWithSound", "StartWithoutSound"}, Fast!StartRun(event)
        PROVE  FastInv'
    BY <2>1, PageMoves DEF Fast!StartRun
  <2>2. CASE Fast!CountWords \/ Fast!DeckFailed \/ Fast!ChangeArea
    BY <2>2, PageMoves DEF Fast!CountWords, Fast!DeckFailed, Fast!ChangeArea
  <2>3. ASSUME NEW n \in FastSizes, Fast!DeckLoaded(n)
        PROVE  FastInv'
    BY <2>3, DeckComes, FastAssumption
  <2>4. ASSUME NEW f \in fetches, Fast!Answered(f)
        PROVE  FastInv'
    <3>1. PICK heard \in {f.clip, Fast!Failed} \cup (IF f.kind = "image" THEN {Fast!Absent} ELSE {}) :
             Fast!Fetched(f, heard)
      BY <2>4 DEF Fast!Answered
    <3> QED
      BY <3>1, LateAnswer, AnswerComes
  <2>5. ASSUME NEW settlement, Fast!Settle(settlement) \/ Fast!PlayAnswered
        PROVE  FastInv'
    BY <2>5, PlaySettles
  <2>6. CASE Fast!ChooseSound \/ Fast!ChooseSilence \/ Fast!PauseOrResume
    <3>1. Reducer(playback)
      BY DEF FastInv, FastTypes
    <3>2. PICK result \in {Fast!OnStartWithSound(playback), Fast!OnStartWithoutSound(playback),
                           Fast!OnPause(playback), Fast!OnResume(playback)} : Fast!Press(result)
      BY <2>6 DEF Fast!ChooseSound, Fast!ChooseSilence, Fast!PauseOrResume
    <3>3. Yields(result, playback.source)
      BY <3>1, <3>2, ReducerYields
    <3> QED
      BY <3>2, <3>3, ButtonMoves
  <2>7. CASE Fast!Restart
    BY <2>7, RunEnds
  <2>8. CASE Fast!Tick
    BY <2>8, CardGoes
  <2>9. CASE UNCHANGED Fast!vars
    <3>1. UNCHANGED <<strip, round, length, index, generation, media, fetches, requested, playback,
                      element>>
      BY <2>9 DEF Fast!vars
    <3>2. Reducer(playback) /\ Sounding(element)
      BY DEF FastInv, FastTypes
    <3> QED
      BY <3>1, <3>2, SoundMoves DEF Reducer, Sounding
  <2> QED
    BY <2>1, <2>2, <2>3, <2>4, <2>5, <2>6, <2>7, <2>8, <2>9
       DEF Fast!Next, Fast!Server, Fast!Browser, Fast!Learner
<1>3. MaterialInit => Fast!Init
  BY DEF MaterialInit
<1>4. [MaterialNext]_material => [Fast!Next]_(Fast!vars) /\ scene' = scene
  BY SceneSteps
<1>5. FastInv /\ [MaterialNext]_material => FastInv'
  BY <1>2, <1>4
<1> QED
  BY <1>1, <1>3, <1>5, PTL DEF MaterialSpec

\* What is played is of what is shown, and is kept: the files and rows of a device name each
\* other through crashes and two publishers at once (sync/media.rs), the player of an answer
\* has the answer's clip (components/grammar/session.rs), and a running deck has asked once
\* for each clip of its window and sounds those of its own run (learn/preload.rs,
\* fast/mod.rs).
THEOREM MediaSound == MaterialSpec => []MediaKept
<1>1. FilesInv(Fetched!Prints) => Fetched!FileIsItsName /\ Fetched!RowHasFile
  BY DEF FilesInv, StoreInv, Fetched!FileIsItsName, Fetched!RowHasFile, Fetched!NoClip
<1>2. FilesInv(Listed!Prints) => Listed!FileIsItsName /\ Listed!RowHasFile
  BY DEF FilesInv, StoreInv, Listed!FileIsItsName, Listed!RowHasFile, Listed!NoClip
<1>3. /\ scene = "fetched" => FilesInv(Fetched!Prints)
      /\ scene = "listed" => FilesInv(Listed!Prints)
      /\ scene = "spoken" => PlayerInv
      /\ FastInv
      => MediaKept
  BY <1>1, <1>2 DEF MediaKept, PlayerInv, FastInv
<1> QED
  BY <1>3, FetchedFilesInvariant, ListedFilesInvariant, PlayerInvariant, FastInvariant, PTL
-----------------------------------------------------------------------------
(***************************************************************************)
(* A deck that starts with sound (FastPlay).                               *)
(***************************************************************************)

\* The timer runs after a choice only, and a start with sound whose first clip is there
\* waits for the browser: for the play() of the element, or for its answer to be handled.
Timed(p) == p.timer = TRUE => p.mode \in {"WithSound", "WithoutSound"}
Settlements == {"played", "rejected"}
Starts ==
    strip = "run" /\ index < length /\ playback.mode = "StartingSound"
    /\ media[index].audio \notin {Fast!Pending, Fast!Failed}
StartInv ==
    /\ settled \in Seq(Settlements) /\ Timed(playback)
    /\ Starts => element.waiting = TRUE \/ settled # <<>>

LEMMA StartPromises ==
    ASSUME StartInv
    PROVE  Fast!NeverStranded
<1> SUFFICES ASSUME Fast!Shown, settled = <<>>, ~element.waiting, media[index].audio # Fast!Pending,
                    playback.mode = "StartingSound", media[index].audio # Fast!Failed
             PROVE  FALSE
  BY DEF Fast!NeverStranded
<1>1. Starts
  BY DEF Starts, Fast!Shown
<1> QED
  BY <1>1 DEF StartInv

\* What a result of the reducer does to the timer and the mode, and when it plays.
LEMMA ResultTimed ==
    ASSUME NEW p, Reducer(p), Timed(p), NEW clip
    PROVE  /\ Timed(Fast!OnAudioReady(p, clip).state) /\ Timed(Fast!OnAudioFailed(p).state)
           /\ p.mode = "StartingSound" => Fast!OnAudioReady(p, clip).command = Fast!Play(clip)
           /\ Fast!OnAudioReady(p, clip).state.mode = p.mode
           /\ Timed(Fast!OnStartWithSound(p).state)
           /\ Fast!OnStartWithSound(p).command = Fast!Play(p.source)
           /\ Timed(Fast!OnStartWithoutSound(p).state)
           /\ Fast!OnStartWithoutSound(p).state.mode = "WithoutSound"
           /\ Timed(Fast!OnPause(p).state) /\ Timed(Fast!OnResume(p).state)
           /\ Fast!OnPause(p).state.mode = p.mode /\ Fast!OnResume(p).state.mode = p.mode
           /\ Timed(Fast!OnSourceChanged(p, clip).state)
           /\ Fast!OnSourceChanged(p, clip).state.mode = p.mode
           /\ Fast!OnPlaySucceeded(p).mode = "WithSound"
           /\ Fast!OnPlayRejected(p).mode = "AwaitingChoice" /\ Timed(Fast!OnPlayRejected(p))
<1>1. ASSUME NEW status, NEW source, NEW q, q = [p EXCEPT !.source = source, !.status = status]
      PROVE  q.mode = p.mode /\ q.timer = p.timer /\ Timed(q)
  <2>1. q = [mode |-> p.mode, status |-> status, source |-> source, timer |-> p.timer]
    BY <1>1 DEF Reducer
  <2> QED
    BY <2>1 DEF Timed
<1>2. ASSUME NEW mode, NEW status, NEW timer, NEW q,
             q = [mode |-> mode, status |-> status, source |-> p.source, timer |-> timer]
      PROVE  q.mode = mode /\ q.timer = timer
  BY <1>2
<1>3. /\ Timed(Fast!OnAudioReady(p, clip).state) /\ Fast!OnAudioReady(p, clip).state.mode = p.mode
      /\ p.mode = "StartingSound" => Fast!OnAudioReady(p, clip).command = Fast!Play(clip)
  BY <1>1 DEF Fast!OnAudioReady
<1>4. /\ Timed(Fast!OnSourceChanged(p, clip).state)
      /\ Fast!OnSourceChanged(p, clip).state.mode = p.mode
  <2>1. PICK status : status = IF p.mode \in {"WithSound", "StartingSound"} THEN "Loading"
                               ELSE IF clip # Fast!None THEN "Ready"
                               ELSE IF p.status = "Failed" THEN "Failed" ELSE "Idle"
    OBVIOUS
  <2>2. PICK q : q = [p EXCEPT !.source = clip, !.status = status]
    OBVIOUS
  <2>3. q.mode = p.mode /\ Timed(q)
    BY <1>1, <2>2
  <2>4. Fast!OnSourceChanged(p, clip).state \in {p, q}
    BY <2>1, <2>2 DEF Fast!OnSourceChanged
  <2> QED
    BY <2>3, <2>4
<1>5. Timed(Fast!OnAudioFailed(p).state)
  <2>1. PICK t : t = (p.timer /\ p.mode # "StartingSound")
    OBVIOUS
  <2>2. PICK q : q = [p EXCEPT !.status = "Failed", !.timer = t]
    OBVIOUS
  <2>3. q = [mode |-> p.mode, status |-> "Failed", source |-> p.source, timer |-> t]
    BY <2>2 DEF Reducer
  <2>4. q.mode = p.mode /\ q.timer = t
    BY <1>2, <2>3
  <2>5. t = TRUE => p.timer = TRUE
    BY <2>1
  <2>6. Timed(q)
    BY <2>4, <2>5 DEF Timed
  <2> QED
    BY <2>1, <2>2, <2>6 DEF Fast!OnAudioFailed
<1>6. /\ Timed(Fast!OnStartWithSound(p).state)
      /\ Fast!OnStartWithSound(p).command = Fast!Play(p.source)
  <2>1. PICK q : q = [p EXCEPT !.mode = "StartingSound", !.timer = FALSE, !.status = "Loading"]
    OBVIOUS
  <2>2. q = [mode |-> "StartingSound", status |-> "Loading", source |-> p.source, timer |-> FALSE]
    BY <2>1 DEF Reducer
  <2>3. Timed(q)
    BY <2>2 DEF Timed
  <2> QED
    BY <2>1, <2>3 DEF Fast!OnStartWithSound
<1>7. /\ Timed(Fast!OnStartWithoutSound(p).state)
      /\ Fast!OnStartWithoutSound(p).state.mode = "WithoutSound"
  <2>1. PICK q : q = [p EXCEPT !.mode = "WithoutSound", !.timer = TRUE]
    OBVIOUS
  <2>2. q = [mode |-> "WithoutSound", status |-> p.status, source |-> p.source, timer |-> TRUE]
    BY <2>1 DEF Reducer
  <2>3. Timed(q) /\ q.mode = "WithoutSound"
    BY <2>2 DEF Timed
  <2> QED
    BY <2>1, <2>3 DEF Fast!OnStartWithoutSound
<1>8. Timed(Fast!OnPause(p).state) /\ Fast!OnPause(p).state.mode = p.mode
  <2>1. PICK q : q = [p EXCEPT !.timer = FALSE]
    OBVIOUS
  <2>2. q = [mode |-> p.mode, status |-> p.status, source |-> p.source, timer |-> FALSE]
    BY <2>1 DEF Reducer
  <2>3. Timed(q) /\ q.mode = p.mode
    BY <2>2 DEF Timed
  <2> QED
    BY <2>1, <2>3 DEF Fast!OnPause
<1>9. Timed(Fast!OnResume(p).state) /\ Fast!OnResume(p).state.mode = p.mode
  <2>1. PICK t : t = (p.timer \/ p.mode \in {"WithSound", "WithoutSound"})
    OBVIOUS
  <2>2. PICK q : q = [p EXCEPT !.timer = t]
    OBVIOUS
  <2>3. q = [mode |-> p.mode, status |-> p.status, source |-> p.source, timer |-> t]
    BY <2>2 DEF Reducer
  <2>4. q.mode = p.mode /\ q.timer = t
    BY <1>2, <2>3
  <2>5. t = TRUE => p.timer = TRUE \/ p.mode \in {"WithSound", "WithoutSound"}
    BY <2>1
  <2>6. Timed(q)
    BY <2>4, <2>5 DEF Timed
  <2> QED
    BY <2>1, <2>2, <2>4, <2>6 DEF Fast!OnResume
<1>10. Fast!OnPlaySucceeded(p).mode = "WithSound"
  BY DEF Fast!OnPlaySucceeded, Reducer
<1>11. Fast!OnPlayRejected(p).mode = "AwaitingChoice" /\ Timed(Fast!OnPlayRejected(p))
  <2>1. PICK q : q = Fast!OnPlayRejected(p)
    OBVIOUS
  <2>2. q = [mode |-> "AwaitingChoice", status |-> "Failed", source |-> p.source, timer |-> FALSE]
    BY <2>1 DEF Fast!OnPlayRejected, Reducer
  <2>3. Timed(q) /\ q.mode = "AwaitingChoice"
    BY <2>2 DEF Timed
  <2> QED
    BY <2>1, <2>3
<1> QED
  BY <1>3, <1>4, <1>5, <1>6, <1>7, <1>8, <1>9, <1>10, <1>11

\* A play waits; what it breaks is one more answer to handle.
LEMMA CommandSettles ==
    ASSUME settled \in Seq(Settlements), NEW source, NEW does,
           does \in {Fast!NoCommand, Fast!PauseIt, Fast!Play(source)}, Fast!RunCommand(does)
    PROVE  /\ settled' \in Seq(Settlements)
           /\ does = Fast!Play(source) /\ source # Fast!None => element'.waiting = TRUE
           /\ does = Fast!NoCommand => element' = element /\ settled' = settled
<1>1. Fast!Broken \in Seq(Settlements)
  <2>1. "rejected" \in Settlements
    BY DEF Settlements
  <2>2. Append(settled, "rejected") \in Seq(Settlements)
    BY <2>1
  <2> QED
    BY <2>2 DEF Fast!Broken
<1>2. CASE does = Fast!NoCommand
  BY <1>2 DEF Fast!RunCommand, Fast!NoCommand, Fast!Play
<1>3. CASE does = Fast!PauseIt
  BY <1>1, <1>3 DEF Fast!RunCommand, Fast!PauseIt, Fast!Play, Fast!NoCommand
<1>4. CASE does = Fast!Play(source) /\ source # Fast!None
  <2>1. does = [do |-> "play", clip |-> source]
    BY <1>4 DEF Fast!Play
  <2>2. element' = [clip |-> source, waiting |-> TRUE] /\ settled' = Fast!Broken
    BY <2>1 DEF Fast!RunCommand
  <2> QED
    BY <1>1, <1>4, <2>1, <2>2 DEF Fast!NoCommand
<1>5. CASE does = Fast!Play(source) /\ source = Fast!None
  <2>1. does = Fast!NoCommand
    BY <1>5 DEF Fast!Play
  <2> QED
    BY <1>2, <1>5, <2>1
<1> QED
  BY <1>2, <1>3, <1>4, <1>5

\* Outside a run nothing starts.
LEMMA NoRunNoStart ==
    ASSUME StartInv, strip' # "run", settled' = settled, Timed(playback')
    PROVE  StartInv'
BY DEF StartInv, Starts

\* A card comes up: the mode stays, and its answers are kept.
LEMMA UpTimed ==
    ASSUME NEW p, NEW r, NEW i, NEW n, Reducer(p), Timed(p), settled \in Seq(Settlements),
           Fast!Show(p, r, i, n)
    PROVE  /\ settled' \in Seq(Settlements) /\ Timed(playback') /\ playback'.mode = p.mode
<1>1. PICK source : source = Fast!SourceOf(Fast!Windowed(i, n), i)
  OBVIOUS
<1>2. PICK changed : changed = Fast!OnSourceChanged(p, source)
  OBVIOUS
<1>3. /\ playback' = changed.state
      /\ \/ Fast!RunCommand(changed.command)
         \/ settled' = Fast!Broken
  BY <1>1, <1>2 DEF Fast!Show
<1>4. Timed(changed.state) /\ changed.state.mode = p.mode
  BY <1>2, ResultTimed
<1>5. changed.command \in {Fast!NoCommand, Fast!PauseIt, Fast!Play(source)}
  BY <1>2, ReducerYields DEF Yields
<1>6. settled' \in Seq(Settlements)
  <2>1. CASE Fast!RunCommand(changed.command)
    BY <1>5, <2>1, CommandSettles
  <2>2. CASE settled' = Fast!Broken
    <3>1. Append(settled, "rejected") \in Seq(Settlements)
      BY DEF Settlements
    <3> QED
      BY <2>2, <3>1 DEF Fast!Broken
  <2> QED
    BY <1>3, <2>1, <2>2
<1> QED
  BY <1>3, <1>4, <1>6

\* A deck starts: its first clip has been asked for and has not come.
LEMMA DeckStarts ==
    ASSUME FastInv, StartInv, NEW n \in Nat, Fast!DeckLoaded(n)
    PROVE  StartInv'
<1>1. PICK start : start = IF starting = "StartWithSound" THEN Fast!OnStartWithSound(playback)
                           ELSE Fast!OnStartWithoutSound(playback)
  OBVIOUS
<1>2. /\ strip = "loading" /\ length' = n /\ index' = index
      /\ Fast!Show(start.state, round + 1, index, n)
  BY <1>1 DEF Fast!DeckLoaded
<1>3. index = 0 /\ DOMAIN media = {} /\ Reducer(playback) /\ Timed(playback)
      /\ settled \in Seq(Settlements)
  BY <1>2 DEF FastInv, FastTypes, DeckInv, StartInv
<1>4. Reducer(start.state) /\ Timed(start.state)
  BY <1>1, <1>3, ReducerYields, ResultTimed DEF Yields
<1>5. settled' \in Seq(Settlements) /\ Timed(playback')
  BY <1>2, <1>3, <1>4, UpTimed
<1>6. 0 < n => media'[0].audio = Fast!Pending
  <2> SUFFICES ASSUME 0 < n PROVE media'[0].audio = Fast!Pending
    OBVIOUS
  <2>1. media' = Fast!Windowed(0, n)
    BY <1>2, <1>3 DEF Fast!Show
  <2>2. Fast!Least(n, 0 + PreloadWindow + 1) - 1 \in Nat
    BY FastAssumption DEF Fast!Least
  <2>3. 0 \in Fast!Fetch(0, n)
    BY <1>3, <2>2 DEF Fast!Fetch
  <2>4. media'[0] = Fast!Begin(0)
    BY <1>3, <2>1, <2>3 DEF Fast!Windowed
  <2> QED
    BY <2>4 DEF Fast!Begin
<1> QED
  BY <1>2, <1>3, <1>5, <1>6 DEF StartInv, Starts

\* A clip comes: that of the shown card plays at once if the start waits for it.
LEMMA ClipStarts ==
    ASSUME FastInv, StartInv, NEW f \in fetches,
           NEW heard \in {f.clip, Fast!Failed} \cup (IF f.kind = "image" THEN {Fast!Absent} ELSE {}),
           Fast!Fetched(f, heard)
    PROVE  StartInv'
<1>1. Reducer(playback) /\ Timed(playback) /\ settled \in Seq(Settlements)
  BY DEF FastInv, FastTypes, StartInv
<1>2. UNCHANGED <<strip, length, index>>
  BY DEF Fast!Fetched
<1>3. CASE f.generation # generation
  BY <1>2, <1>3 DEF StartInv, Starts, Timed, Fast!Fetched
<1>4. CASE f.generation = generation /\ ~(f.kind = "audio" /\ f.place = index)
  <2>1. /\ media' = Fast!Published(f, heard) /\ playback' = playback /\ element' = element
        /\ settled' = settled
    BY <1>4 DEF Fast!Fetched
  <2>2. Starts' => media'[index].audio = media[index].audio
    <3> SUFFICES ASSUME Starts' PROVE media'[index].audio = media[index].audio
      OBVIOUS
    <3>1. strip = "run" /\ index < length
      BY <1>2 DEF Starts
    <3>2. index \in DOMAIN media
      BY <3>1, FastAssumption DEF FastInv, FastTypes, Fast!WindowKept, Fast!Least
    <3>3. Channel(media[index])
      BY <3>2 DEF FastInv, FastTypes
    <3>4. CASE f.place # index
      BY <2>1, <3>2, <3>4 DEF Fast!Published
    <3>5. CASE f.place = index
      <4>1. media'[index] = [media[index] EXCEPT !.image = heard]
        BY <1>4, <2>1, <3>2, <3>5 DEF Fast!Published
      <4> QED
        BY <3>3, <4>1 DEF Channel
    <3> QED
      BY <3>4, <3>5
  <2> QED
    BY <1>1, <1>2, <2>1, <2>2 DEF StartInv, Starts
<1>5. CASE f.generation = generation /\ f.kind = "audio" /\ f.place = index /\ heard = Fast!Failed
  <2>1. PICK result : result = Fast!OnAudioFailed(playback)
    OBVIOUS
  <2>2. /\ media' = Fast!Published(f, heard) /\ playback' = result.state
        /\ Fast!RunCommand(result.command)
    BY <1>5, <2>1 DEF Fast!Fetched
  <2>3. Timed(result.state) /\ result.command = Fast!NoCommand
    BY <1>1, <2>1, ResultTimed DEF Fast!OnAudioFailed
  <2>4. settled' \in Seq(Settlements)
    BY <1>1, <2>2, <2>3, CommandSettles
  <2>5. ~Starts'
    <3> SUFFICES ASSUME Starts' PROVE FALSE
      OBVIOUS
    <3>1. strip = "run" /\ index < length
      BY <1>2 DEF Starts
    <3>2. index \in DOMAIN media
      BY <3>1, FastAssumption DEF FastInv, FastTypes, Fast!WindowKept, Fast!Least
    <3>3. Channel(media[index])
      BY <3>2 DEF FastInv, FastTypes
    <3>4. media'[index] = [media[index] EXCEPT !.audio = heard]
      BY <1>5, <2>2, <3>2 DEF Fast!Published
    <3>5. media'[index].audio = Fast!Failed
      BY <1>5, <3>3, <3>4 DEF Channel
    <3> QED
      BY <1>2, <3>5 DEF Starts, Fast!Failed
  <2> QED
    BY <2>2, <2>3, <2>4, <2>5 DEF StartInv
<1>6. CASE f.generation = generation /\ f.kind = "audio" /\ f.place = index /\ heard # Fast!Failed
  <2>1. PICK result : result = Fast!OnAudioReady(playback, heard)
    OBVIOUS
  <2>2. playback' = result.state /\ Fast!RunCommand(result.command)
    BY <1>6, <2>1 DEF Fast!Fetched
  <2>3. heard # Fast!None
    <3>1. heard = ClipOf(f.generation + 1, f.place)
      BY <1>6 DEF FastInv, Requests
    <3> QED
      BY <3>1, MarksDiffer
  <2>4. /\ Timed(result.state) /\ result.state.mode = playback.mode
        /\ playback.mode = "StartingSound" => result.command = Fast!Play(heard)
        /\ result.command \in {Fast!NoCommand, Fast!PauseIt, Fast!Play(heard)}
    BY <1>1, <2>1, ResultTimed, ReducerYields DEF Yields
  <2>5. /\ settled' \in Seq(Settlements)
        /\ playback.mode = "StartingSound" => element'.waiting = TRUE
    BY <1>1, <2>2, <2>3, <2>4, CommandSettles
  <2> QED
    BY <2>2, <2>4, <2>5 DEF StartInv, Starts
<1> QED
  BY <1>3, <1>4, <1>5, <1>6

\* A button: only the choice of sound starts, and it plays what has come.
LEMMA ButtonStarts ==
    ASSUME FastInv, StartInv,
           Fast!ChooseSound \/ Fast!ChooseSilence \/ Fast!PauseOrResume
    PROVE  StartInv'
<1>1. /\ Reducer(playback) /\ Timed(playback) /\ settled \in Seq(Settlements)
      /\ playback.source = Fast!SourceOf(media, index)
  BY DEF FastInv, FastTypes, StartInv, Fast!RightClip
<1>2. UNCHANGED <<strip, length, index, media>>
  BY DEF Fast!ChooseSound, Fast!ChooseSilence, Fast!PauseOrResume, Fast!Press
<1>3. CASE Fast!ChooseSound
  <2>1. PICK result : result = Fast!OnStartWithSound(playback)
    OBVIOUS
  <2>2. playback' = result.state /\ Fast!RunCommand(result.command) /\ Fast!Shown
    BY <1>3, <2>1 DEF Fast!ChooseSound, Fast!Press
  <2>3. Timed(result.state) /\ result.command = Fast!Play(playback.source)
    BY <1>1, <2>1, ResultTimed
  <2>4. /\ settled' \in Seq(Settlements)
        /\ playback.source # Fast!None => element'.waiting = TRUE
    BY <1>1, <2>2, <2>3, CommandSettles
  <2>5. Starts' => playback.source # Fast!None
    <3> SUFFICES ASSUME Starts' PROVE playback.source # Fast!None
      OBVIOUS
    <3>1. strip = "run" /\ index < length
      BY <1>2 DEF Starts
    <3>2. index \in DOMAIN media
      BY <3>1, FastAssumption DEF FastInv, FastTypes, Fast!WindowKept, Fast!Least
    <3>3. media[index].audio \notin {Fast!Pending, Fast!Failed}
      BY <1>2 DEF Starts, Fast!Pending, Fast!Failed
    <3>4. media[index].audio = ClipOf(round, index)
      BY <3>2, <3>3, FastHolds DEF MediaOf
    <3> QED
      BY <1>1, <3>2, <3>3, <3>4, MarksDiffer DEF Fast!SourceOf
  <2> QED
    BY <2>2, <2>3, <2>4, <2>5 DEF StartInv
<1>4. CASE Fast!ChooseSilence
  <2>1. PICK result : result = Fast!OnStartWithoutSound(playback)
    OBVIOUS
  <2>2. playback' = result.state /\ Fast!RunCommand(result.command)
    BY <1>4, <2>1 DEF Fast!ChooseSilence, Fast!Press
  <2>3. Timed(result.state) /\ result.state.mode = "WithoutSound"
    BY <1>1, <2>1, ResultTimed
  <2>4. result.command \in {Fast!NoCommand, Fast!PauseIt, Fast!Play(playback.source)}
    BY <1>1, <2>1, ReducerYields DEF Yields
  <2>5. settled' \in Seq(Settlements)
    BY <1>1, <2>2, <2>4, CommandSettles
  <2> QED
    BY <2>2, <2>3, <2>5 DEF StartInv, Starts
<1>5. CASE Fast!PauseOrResume
  <2>1. PICK result : result = IF playback.timer THEN Fast!OnPause(playback) ELSE Fast!OnResume(playback)
    OBVIOUS
  <2>2. playback' = result.state /\ Fast!RunCommand(result.command)
    BY <1>5, <2>1 DEF Fast!PauseOrResume, Fast!Press
  <2>3. Timed(result.state) /\ result.state.mode = playback.mode
    BY <1>1, <2>1, ResultTimed
  <2>4. /\ result.command \in {Fast!NoCommand, Fast!PauseIt, Fast!Play(playback.source)}
        /\ playback.mode = "StartingSound" => result.command = Fast!NoCommand
    <3>1. result.command \in {Fast!NoCommand, Fast!PauseIt, Fast!Play(playback.source)}
      BY <1>1, <2>1, ReducerYields DEF Yields
    <3>2. playback.mode = "StartingSound" => result.command = Fast!NoCommand
      BY <2>1 DEF Fast!OnPause, Fast!OnResume
    <3> QED
      BY <3>1, <3>2
  <2>5. /\ settled' \in Seq(Settlements)
        /\ playback.mode = "StartingSound" => element' = element /\ settled' = settled
    BY <1>1, <2>2, <2>4, CommandSettles
  <2>6. Starts' => Starts /\ playback.mode = "StartingSound"
    BY <1>2, <2>2, <2>3 DEF Starts, Fast!Pending, Fast!Failed
  <2> QED
    BY <2>2, <2>3, <2>5, <2>6 DEF StartInv
<1> QED
  BY <1>3, <1>4, <1>5

LEMMA StartInvariant == MaterialSpec => []StartInv
<1>1. Fast!Init => StartInv
  <2> SUFFICES ASSUME Fast!Init PROVE StartInv
    OBVIOUS
  <2>1. strip = "counting" /\ playback = Fast!initial /\ settled = <<>>
    BY DEF Fast!Init
  <2>2. Timed(playback)
    BY <2>1 DEF Timed, Fast!initial
  <2>3. settled \in Seq(Settlements)
    BY <2>1
  <2> QED
    BY <2>1, <2>2, <2>3 DEF StartInv, Starts
<1>2. FastInv /\ StartInv /\ [Fast!Next]_(Fast!vars) => StartInv'
  <2> SUFFICES ASSUME FastInv, StartInv, [Fast!Next]_(Fast!vars)
               PROVE  StartInv'
    OBVIOUS
  <2>1. Reducer(playback) /\ Timed(playback) /\ settled \in Seq(Settlements)
    BY DEF FastInv, FastTypes, StartInv
  <2>2. ASSUME NEW event \in {"StartWithSound", "StartWithoutSound"}, Fast!StartRun(event)
        PROVE  StartInv'
    BY <2>1, <2>2, NoRunNoStart DEF Fast!StartRun, Timed
  <2>3. CASE Fast!CountWords \/ Fast!DeckFailed \/ Fast!ChangeArea
    BY <2>1, <2>3, NoRunNoStart DEF Fast!CountWords, Fast!DeckFailed, Fast!ChangeArea, Timed
  <2>4. ASSUME NEW n \in FastSizes, Fast!DeckLoaded(n)
        PROVE  StartInv'
    BY <2>4, DeckStarts, FastAssumption
  <2>5. ASSUME NEW f \in fetches, Fast!Answered(f)
        PROVE  StartInv'
    <3>1. PICK heard \in {f.clip, Fast!Failed} \cup (IF f.kind = "image" THEN {Fast!Absent} ELSE {}) :
             Fast!Fetched(f, heard)
      BY <2>5 DEF Fast!Answered
    <3> QED
      BY <3>1, ClipStarts
  <2>6. ASSUME NEW settlement \in Settlements, Fast!Settle(settlement)
        PROVE  StartInv'
    <3>1. settled' = Append(settled, settlement) /\ playback' = playback
      BY <2>6 DEF Fast!Settle
    <3>2. settled' \in Seq(Settlements) /\ settled' # <<>>
      BY <2>1, <3>1
    <3> QED
      BY <2>1, <3>1, <3>2 DEF StartInv
  <2>7. CASE Fast!PlayAnswered
    <3>1. /\ settled # <<>> /\ settled' = Tail(settled)
          /\ playback' \in {Fast!OnPlaySucceeded(playback), Fast!OnPlayRejected(playback)}
      BY <2>7 DEF Fast!PlayAnswered
    <3>2. settled' \in Seq(Settlements)
      BY <2>1, <3>1
    <3>3. playback'.mode \in {"WithSound", "AwaitingChoice"} /\ Timed(playback')
      <4>1. /\ Fast!OnPlaySucceeded(playback).mode = "WithSound"
            /\ Fast!OnPlayRejected(playback).mode = "AwaitingChoice"
            /\ Timed(Fast!OnPlayRejected(playback))
        BY <2>1, ResultTimed
      <4> QED
        BY <3>1, <4>1 DEF Timed
    <3> QED
      BY <3>2, <3>3 DEF StartInv, Starts
  <2>8. CASE Fast!ChooseSound \/ Fast!ChooseSilence \/ Fast!PauseOrResume
    BY <2>8, ButtonStarts
  <2>9. CASE Fast!Restart
    <3>1. strip' = "choosing" /\ settled' = settled /\ playback' = Fast!initial
      BY <2>9 DEF Fast!Restart
    <3>2. Timed(playback')
      BY <3>1 DEF Timed, Fast!initial
    <3> QED
      BY <3>1, <3>2, NoRunNoStart
  <2>10. CASE Fast!Tick
    <3>1. playback.timer /\ Fast!Show(playback, round, index + 1, length)
      BY <2>10 DEF Fast!Tick
    <3>2. playback.mode \in {"WithSound", "WithoutSound"}
      BY <2>1, <3>1 DEF Timed
    <3>3. settled' \in Seq(Settlements) /\ Timed(playback') /\ playback'.mode = playback.mode
      BY <2>1, <3>1, UpTimed
    <3> QED
      BY <3>2, <3>3 DEF StartInv, Starts
  <2>11. CASE UNCHANGED Fast!vars
    BY <2>11 DEF Fast!vars, StartInv, Starts, Timed, Fast!Pending, Fast!Failed
  <2> QED
    BY <2>2, <2>3, <2>4, <2>5, <2>6, <2>7, <2>8, <2>9, <2>10, <2>11
       DEF Fast!Next, Fast!Server, Fast!Browser, Fast!Learner, Settlements
<1>3. MaterialInit => Fast!Init
  BY DEF MaterialInit
<1>4. [MaterialNext]_material => [Fast!Next]_(Fast!vars)
  BY SceneSteps
<1>5. FastInv /\ StartInv /\ [MaterialNext]_material => StartInv'
  BY <1>2, <1>4
<1> QED
  BY <1>1, <1>3, <1>5, FastInvariant, PTL DEF MaterialSpec
-----------------------------------------------------------------------------
(***************************************************************************)
(* The reader's page (Reading): a file of chapters and paragraphs, and one *)
(* whose words go into decks.                                              *)
(***************************************************************************)

Leaf(v) == v = [at |-> v.at, book |-> v.book, chapter |-> v.chapter, shown |-> v.shown,
                trouble |-> v.trouble]

\* A link, and a book that was opened, is of a revision that is readable and stays so.
PageInv ==
    /\ Leaf(leaf)
    /\ \A r \in links : Paged!Linked(r)
    /\ leaf.at \in {"library", "check", "read", "decks", "chapter"} => Paged!Linked(leaf.book)
    /\ leaf.at \in {"decks", "chapter"} =>
          leaf.shown = {p \in Paged!Sentences(leaf.book) : Paged!ChapterOf(p) = leaf.chapter}
    /\ leaf.at = "error" => leaf.trouble = TRUE

\* The host adds texts, and refuses no sentence that has one.
LEMMA ReadableStays ==
    ASSUME Paged!Host, NEW r, Paged!Linked(r)
    PROVE  Paged!Linked(r)'
<1>1. books \subseteq books' /\ texts \subseteq texts'
  BY DEF Paged!Host, Paged!Stores, Paged!Translates, Paged!Glosses
<1>2. \/ declined' = declined
      \/ \E q \in books : \E p \in Paged!Sentences(q) \ Paged!Translated(q) :
            declined' = declined \cup {<<q, p>>}
  BY DEF Paged!Host, Paged!Stores, Paged!Translates, Paged!Glosses
<1>3. Paged!Translated(r)' = Paged!Sentences(r)
  BY <1>1 DEF Paged!Linked, Paged!Translated, Paged!Sentences, Paged!Length
<1>4. \A p \in Paged!Sentences(r) : <<r, p>> \in declined' => <<r, p>> \in declined
  BY <1>2 DEF Paged!Linked
<1>5. Paged!Refused(r)' = {}
  BY <1>4 DEF Paged!Linked, Paged!Refused, Paged!Sentences, Paged!Length
<1> QED
  BY <1>1, <1>3, <1>5 DEF Paged!Linked, Paged!Sentences, Paged!Length

\* Nothing of a book changes while its rows stay.
LEMMA ReadableSame ==
    ASSUME UNCHANGED <<books, texts, declined>>, NEW r
    PROVE  Paged!Linked(r)' <=> Paged!Linked(r)
BY DEF Paged!Linked, Paged!Translated, Paged!Refused, Paged!Sentences, Paged!Length

\* The page is turned: from v to w.
LEMMA PageTurned ==
    ASSUME PageInv, NEW w, leaf' = w, Leaf(w), UNCHANGED <<books, texts, declined>>,
           links' \subseteq links \/ \A r \in links' : Paged!Linked(r),
           w.at \in {"library", "check", "read", "decks", "chapter"} => Paged!Linked(w.book),
           w.at \in {"decks", "chapter"} =>
              w.shown = {p \in Paged!Sentences(w.book) : Paged!ChapterOf(p) = w.chapter},
           w.at = "error" => w.trouble = TRUE
    PROVE  PageInv'
<1>1. \A r \in links' : Paged!Linked(r)
  BY DEF PageInv
<1>2. \A r : Paged!Linked(r)' <=> Paged!Linked(r)
  BY ReadableSame
<1>3. \A r \in links' : Paged!Linked(r)'
  BY <1>1, <1>2
<1>4. w.at \in {"library", "check", "read", "decks", "chapter"} => Paged!Linked(w.book)'
  BY <1>2
<1> QED
  BY <1>3, <1>4 DEF PageInv, Paged!Linked, Paged!Translated, Paged!Refused, Paged!Sentences,
     Paged!Length, Paged!ChapterOf, Leaf

\* Opening a book, from the shelf to the chapter.
LEMMA PageOpens ==
    ASSUME PageInv,
           \/ Paged!ListBooks \/ \E r \in Paged!Revisions : Paged!OpenBook(r)
           \/ Paged!Opening \/ Paged!ChapterLost \/ Paged!Leave
    PROVE  PageInv'
<1>1. leaf = [at |-> leaf.at, book |-> leaf.book, chapter |-> leaf.chapter, shown |-> leaf.shown,
              trouble |-> leaf.trouble]
  BY DEF PageInv, Leaf
<1>2. ASSUME NEW step, NEW w, w = [leaf EXCEPT !.at = step]
      PROVE  /\ Leaf(w) /\ w.at = step /\ w.book = leaf.book /\ w.chapter = leaf.chapter
             /\ w.shown = leaf.shown /\ w.trouble = leaf.trouble
  <2>1. w = [at |-> step, book |-> leaf.book, chapter |-> leaf.chapter, shown |-> leaf.shown,
             trouble |-> leaf.trouble]
    BY <1>1, <1>2
  <2> QED
    BY <2>1 DEF Leaf
<1>3. CASE Paged!ListBooks
  <2>1. /\ leaf' = leaf /\ UNCHANGED <<books, texts, declined>>
        /\ \A r \in links' : Paged!Linked(r)
    BY <1>3 DEF Paged!ListBooks, Paged!host
  <2> QED
    BY <1>1, <2>1, PageTurned DEF PageInv
<1>4. ASSUME NEW r \in Paged!Revisions, Paged!OpenBook(r) PROVE PageInv'
  <2>1. PICK w : w = leaf'
    OBVIOUS
  <2>2. /\ w = [Paged!Away EXCEPT !.at = "library", !.book = r] /\ r \in links
        /\ UNCHANGED <<books, texts, declined, links>>
    BY <1>4, <2>1 DEF Paged!OpenBook, Paged!host
  <2>3. w = [at |-> "library", book |-> r, chapter |-> 0, shown |-> {}, trouble |-> FALSE]
    BY <2>2 DEF Paged!Away
  <2>4. Leaf(w) /\ w.at = "library" /\ w.book = r
    BY <2>3 DEF Leaf
  <2>5. Paged!Linked(r)
    BY <2>2 DEF PageInv
  <2> QED
    BY <2>1, <2>2, <2>4, <2>5, PageTurned
<1>5. CASE Paged!StartAt
  <2>1. PICK c : leaf' = [leaf EXCEPT !.at = "check", !.chapter = c]
    BY <1>5 DEF Paged!StartAt
  <2>2. leaf.at = "library" /\ UNCHANGED <<books, texts, declined, links>>
    BY <1>5 DEF Paged!StartAt, Paged!host
  <2>3. PICK w : w = leaf'
    OBVIOUS
  <2>4. w = [at |-> "check", book |-> leaf.book, chapter |-> c, shown |-> leaf.shown,
             trouble |-> leaf.trouble]
    BY <1>1, <2>1, <2>3
  <2>5. Leaf(w) /\ w.at = "check" /\ w.book = leaf.book
    BY <2>4 DEF Leaf
  <2>6. Paged!Linked(leaf.book)
    BY <2>2 DEF PageInv
  <2> QED
    BY <2>2, <2>3, <2>5, <2>6, PageTurned
<1>6. CASE Paged!CheckBook
  <2>1. leaf.at = "check" /\ UNCHANGED <<books, texts, declined, links>>
    BY <1>6 DEF Paged!CheckBook, Paged!host
  <2>2. Paged!Linked(leaf.book)
    BY <2>1 DEF PageInv
  <2>3. PICK w : w = [leaf EXCEPT !.at = "read"]
    OBVIOUS
  <2>4. leaf' = w
    BY <1>6, <2>2, <2>3 DEF Paged!CheckBook, Paged!Readable, Paged!Linked
  <2> QED
    BY <1>2, <2>1, <2>2, <2>3, <2>4, PageTurned
<1>7. CASE Paged!ReadChapter
  <2>1. leaf.at = "read" /\ UNCHANGED <<books, texts, declined, links>>
    BY <1>7 DEF Paged!ReadChapter, Paged!host
  <2>2. Paged!Linked(leaf.book)
    BY <2>1 DEF PageInv
  <2>3. PICK w : w = leaf'
    OBVIOUS
  <2>4. w = [leaf EXCEPT !.at = "decks", !.shown = Paged!ChapterText(leaf.book, leaf.chapter)]
    BY <1>7, <2>3 DEF Paged!ReadChapter
  <2>5. w = [at |-> "decks", book |-> leaf.book, chapter |-> leaf.chapter,
             shown |-> Paged!ChapterText(leaf.book, leaf.chapter), trouble |-> leaf.trouble]
    BY <1>1, <2>4
  <2>6. /\ Leaf(w) /\ w.at = "decks" /\ w.book = leaf.book /\ w.chapter = leaf.chapter
        /\ w.shown = Paged!ChapterText(leaf.book, leaf.chapter)
    BY <2>5 DEF Leaf
  <2>7. w.shown = {p \in Paged!Sentences(w.book) : Paged!ChapterOf(p) = w.chapter}
    BY <2>2, <2>6 DEF Paged!ChapterText, Paged!Linked
  <2> QED
    BY <2>1, <2>2, <2>3, <2>6, <2>7, PageTurned
<1>8. CASE Paged!ChapterLost
  <2>1. PICK w : w = leaf'
    OBVIOUS
  <2>2. /\ w = [leaf EXCEPT !.at = "error", !.trouble = TRUE]
        /\ UNCHANGED <<books, texts, declined, links>>
    BY <1>8, <2>1 DEF Paged!ChapterLost, Paged!host
  <2>3. w = [at |-> "error", book |-> leaf.book, chapter |-> leaf.chapter, shown |-> leaf.shown,
             trouble |-> TRUE]
    BY <1>1, <2>2
  <2>4. Leaf(w) /\ w.at = "error" /\ w.trouble = TRUE
    BY <2>3 DEF Leaf
  <2> QED
    BY <2>1, <2>2, <2>4, PageTurned
<1>9. CASE Paged!ListDecks
  <2>1. PICK w : w = [leaf EXCEPT !.at = "chapter"]
    OBVIOUS
  <2>2. leaf.at = "decks" /\ leaf' = w /\ UNCHANGED <<books, texts, declined, links>>
    BY <1>9, <2>1 DEF Paged!ListDecks, Paged!host
  <2>3. /\ Leaf(w) /\ w.at = "chapter" /\ w.book = leaf.book /\ w.chapter = leaf.chapter
        /\ w.shown = leaf.shown
    BY <1>2, <2>1
  <2>4. /\ Paged!Linked(leaf.book)
        /\ leaf.shown = {p \in Paged!Sentences(leaf.book) : Paged!ChapterOf(p) = leaf.chapter}
    BY <2>2 DEF PageInv
  <2> QED
    BY <2>2, <2>3, <2>4, PageTurned
<1>10. CASE Paged!Leave
  <2>1. leaf' = Paged!Away /\ links' = {} /\ UNCHANGED <<books, texts, declined>>
    BY <1>10 DEF Paged!Leave, Paged!host
  <2>2. PICK w : w = Paged!Away
    OBVIOUS
  <2>3. Leaf(w) /\ w.at = "shelf"
    BY <2>2 DEF Paged!Away, Leaf
  <2> QED
    BY <2>1, <2>2, <2>3, PageTurned
<1> QED
  BY <1>3, <1>4, <1>5, <1>6, <1>7, <1>8, <1>9, <1>10 DEF Paged!Opening

LEMMA PageInvariant == MaterialSpec => [](scene = "paged" => PageInv)
<1>1. Paged!Init => PageInv
  <2> SUFFICES ASSUME Paged!Init PROVE PageInv
    OBVIOUS
  <2>1. leaf = Paged!Away /\ links = {}
    BY DEF Paged!Init
  <2>2. Leaf(leaf) /\ leaf.at = "shelf"
    BY <2>1 DEF Paged!Away, Leaf
  <2> QED
    BY <2>1, <2>2 DEF PageInv
<1>2. PageInv /\ [Paged!Next]_reading => PageInv'
  <2> SUFFICES ASSUME PageInv, [Paged!Next]_reading
               PROVE  PageInv'
    OBVIOUS
  <2>1. CASE Paged!Host
    <3>1. UNCHANGED <<links, leaf>>
      BY <2>1 DEF Paged!Host
    <3>2. \A r : Paged!Linked(r) => Paged!Linked(r)'
      BY <2>1, ReadableStays
    <3>3. \A r \in links' : Paged!Linked(r)'
      BY <3>1, <3>2 DEF PageInv
    <3>4. leaf'.at \in {"library", "check", "read", "decks", "chapter"} => Paged!Linked(leaf.book)'
      BY <3>1, <3>2 DEF PageInv
    <3> QED
      BY <3>1, <3>3, <3>4 DEF PageInv, Leaf, Paged!Linked, Paged!Translated, Paged!Refused,
         Paged!Sentences, Paged!Length, Paged!ChapterOf
  <2>2. CASE \/ Paged!ListBooks \/ \E r \in Paged!Revisions : Paged!OpenBook(r)
             \/ Paged!Opening \/ Paged!ChapterLost \/ Paged!Leave
    BY <2>2, PageOpens
  <2>3. CASE \/ \E p \in 1 .. SentencesBefore + SentencesAfter : Paged!TapSentence(p)
             \/ \E c \in saves : Paged!SavePlace(c) \/ Paged!LosePlace(c)
             \/ Paged!Noting \/ Paged!Adding \/ UNCHANGED reading
    <3>1. UNCHANGED <<books, texts, declined, links, leaf>>
      <4>1. CASE \/ \E p \in 1 .. SentencesBefore + SentencesAfter : Paged!TapSentence(p)
                 \/ \E c \in saves : Paged!SavePlace(c) \/ Paged!LosePlace(c)
        BY <4>1 DEF Paged!TapSentence, Paged!Tapped, Paged!SavePlace, Paged!LosePlace, Paged!host
      <4>2. CASE Paged!Noting
        BY <4>2 DEF Paged!Noting, Paged!TapWord, Paged!Tapped, Paged!NoteComes, Paged!NoteLost,
           Paged!host
      <4>3. CASE Paged!Adding \/ UNCHANGED reading
        BY <4>3 DEF Paged!Adding, reading
      <4> QED
        BY <2>3, <4>1, <4>2, <4>3
    <3>2. Leaf(leaf)
      BY DEF PageInv
    <3> QED
      BY <3>1, <3>2, PageTurned DEF PageInv
  <2> QED
    BY <2>1, <2>2, <2>3 DEF Paged!Next
<1>3. MaterialInit => (scene = "paged" => PageInv)
  BY <1>1 DEF MaterialInit
<1>4. (scene = "paged" => PageInv) /\ [MaterialNext]_material => (scene = "paged" => PageInv)'
  BY <1>2, SceneSteps
<1> QED
  BY <1>3, <1>4, PTL DEF MaterialSpec

\* The sentences of a chapter that are in one paragraph and not below sentence p are as many
\* as p is down its paragraph: the page's count is the segmenter's number.
LEMMA ParagraphCounted ==
    ASSUME NEW L \in Nat, NEW p \in 1 .. L,
           NEW S, S \subseteq 1 .. L,
           \A q \in 1 .. L : q \in S <=> /\ (q - 1) \div ChapterSize = (p - 1) \div ChapterSize
                                       /\ q <= p
                                       /\ ((q - 1) % ChapterSize) \div ParagraphSize
                                          = ((p - 1) % ChapterSize) \div ParagraphSize
    PROVE  Cardinality(S) = (((p - 1) % ChapterSize) % ParagraphSize) + 1
<1>1. p - 1 \in Nat /\ ChapterSize \in Nat \ {0} /\ ParagraphSize \in Nat \ {0}
  <2>1. p - 1 \in Nat
    OBVIOUS
  <2> QED
    BY <2>1, ReadingAssumption
<1>2. PICK k \in Nat, i \in 0 .. ChapterSize - 1 : k = (p - 1) \div ChapterSize /\ i = (p - 1) % ChapterSize
  BY <1>1, DivMod
<1>3. PICK l \in Nat, j \in 0 .. ParagraphSize - 1 : l = i \div ParagraphSize /\ j = i % ParagraphSize
  <2>1. i \in Nat
    OBVIOUS
  <2>2. i \div ParagraphSize \in Nat /\ i % ParagraphSize \in 0 .. ParagraphSize - 1
    BY <1>1, <2>1, DivMod
  <2> QED
    BY <2>2
<1>4. PICK a \in Nat, b \in Nat : a = ChapterSize * k /\ b = ParagraphSize * l
  BY <1>1
<1>5. p - 1 = a + i /\ i = b + j
  <2>1. p - 1 = ChapterSize * k + i
    BY <1>1, <1>2, DivMod
  <2>2. i = ParagraphSize * l + j
    BY <1>1, <1>3, DivMod
  <2> QED
    BY <1>4, <2>1, <2>2
<1>6. ASSUME NEW q \in S PROVE q \in (p - j) .. p
  <2>1. q \in 1 .. L /\ q <= p /\ q - 1 \in Nat
    OBVIOUS
  <2>2. (q - 1) \div ChapterSize = k /\ ((q - 1) % ChapterSize) \div ParagraphSize = l
    BY <1>2, <1>3
  <2>3. PICK m \in Nat : m = (q - 1) % ChapterSize
    <3>1. (q - 1) % ChapterSize \in 0 .. ChapterSize - 1
      BY <1>1, <2>1, DivMod
    <3> QED
      BY <3>1
  <2>4. PICK n \in Nat : n = m % ParagraphSize
    <3>1. m % ParagraphSize \in 0 .. ParagraphSize - 1
      BY <1>1, DivMod
    <3> QED
      BY <3>1
  <2>5. q - 1 = ChapterSize * k + m
    BY <1>1, <2>1, <2>2, <2>3, DivMod
  <2>6. m = ParagraphSize * l + n
    BY <1>1, <2>2, <2>3, <2>4, DivMod
  <2> QED
    BY <1>4, <1>5, <2>1, <2>5, <2>6
<1>7. ASSUME NEW q \in (p - j) .. p PROVE q \in S
  <2>1. PICK n \in 0 .. ParagraphSize - 1 : n = j - (p - q)
    BY <1>1
  <2>2. PICK m \in 0 .. ChapterSize - 1 : m = b + n
    BY <1>1, <1>5, <2>1
  <2>3. q - 1 = a + m /\ q - 1 \in Nat
    BY <1>5, <2>1, <2>2
  <2>4. (q - 1) \div ChapterSize = k /\ (q - 1) % ChapterSize = m
    BY <1>1, <1>4, <2>3, DivUnique
  <2>5. m \div ParagraphSize = l
    BY <1>1, <1>4, <2>2, DivUnique
  <2>6. q \in 1 .. L /\ q <= p
    BY <2>3
  <2> QED
    BY <1>2, <1>3, <2>4, <2>5, <2>6
<1>8. S = (p - j) .. p
  BY <1>6, <1>7
<1>9. Cardinality((p - j) .. p) = j + 1
  <2>1. p - j \in Int /\ p \in Int /\ ~(p - j > p)
    OBVIOUS
  <2>2. Cardinality((p - j) .. p) = p - (p - j) + 1
    BY <2>1, FS_Interval
  <2> QED
    BY <2>2
<1> QED
  BY <1>2, <1>3, <1>8, <1>9

LEMMA PlaceCounted ==
    ASSUME PageInv
    PROVE  Paged!ShownWhole /\ Paged!PlaceTapped
<1>1. Paged!ShownWhole
  BY DEF PageInv, Paged!ShownWhole
<1>2. ASSUME leaf.at = "chapter", NEW p \in leaf.shown
      PROVE  Paged!Counted(p) = Paged!Ordinals(p)
  <2>1. PICK L \in Nat : L = Paged!Length(leaf.book)
    BY ReadingAssumption DEF Paged!Length
  <2>2. leaf.shown = {q \in 1 .. L : Paged!ChapterOf(q) = leaf.chapter}
    BY <1>2, <2>1 DEF PageInv, Paged!Sentences
  <2>3. p \in 1 .. L /\ Paged!ChapterOf(p) = leaf.chapter
    BY <2>2
  <2>4. ChapterSize \in Nat \ {0} /\ ParagraphSize \in Nat \ {0}
    BY ReadingAssumption
  <2>5. PICK S : S = {q \in leaf.shown : q <= p /\ Paged!ParagraphOf(q) = Paged!ParagraphOf(p)}
    OBVIOUS
  <2>6. ASSUME NEW q \in 1 .. L
        PROVE  /\ Paged!ChapterOf(q) = leaf.chapter
                     <=> (q - 1) \div ChapterSize = (p - 1) \div ChapterSize
               /\ Paged!ParagraphOf(q) = Paged!ParagraphOf(p)
                     <=> ((q - 1) % ChapterSize) \div ParagraphSize
                         = ((p - 1) % ChapterSize) \div ParagraphSize
    <3>1. \A x \in 1 .. L : /\ (x - 1) \div ChapterSize \in Nat
                            /\ ((x - 1) % ChapterSize) \div ParagraphSize \in Nat
      <4>1. ASSUME NEW x \in 1 .. L
            PROVE  /\ (x - 1) \div ChapterSize \in Nat
                   /\ ((x - 1) % ChapterSize) \div ParagraphSize \in Nat
        <5>1. x - 1 \in Nat
          OBVIOUS
        <5>2. (x - 1) % ChapterSize \in Nat
          BY <2>4, <5>1, DivMod
        <5> QED
          BY <2>4, <5>1, <5>2, DivMod
      <4> QED
        BY <4>1
    <3> QED
      BY <2>3, <3>1 DEF Paged!ChapterOf, Paged!ParagraphOf, Paged!InChapter
  <2>7. /\ S \subseteq 1 .. L
        /\ \A q \in 1 .. L : q \in S <=> /\ (q - 1) \div ChapterSize = (p - 1) \div ChapterSize
                                        /\ q <= p
                                        /\ ((q - 1) % ChapterSize) \div ParagraphSize
                                           = ((p - 1) % ChapterSize) \div ParagraphSize
    BY <2>2, <2>5, <2>6
  <2>8. Cardinality(S) = (((p - 1) % ChapterSize) % ParagraphSize) + 1
    BY <2>3, <2>4, <2>7, ParagraphCounted
  <2>9. Paged!Cardinality(S) = Cardinality(S)
    BY DEF Paged!Cardinality, Cardinality
  <2> QED
    BY <2>3, <2>5, <2>8, <2>9 DEF Paged!Counted, Paged!Ordinals, Paged!InChapter
<1> QED
  BY <1>1, <1>2 DEF Paged!PlaceTapped
-----------------------------------------------------------------------------
(* The note of a word, on either page, and the decks of the second.        *)

\* The note shown is of the open word, unless that one's is asked for or was lost, and is
\* ready only if it is stored.
NoteInv(W) ==
    /\ DOMAIN wondered = W /\ \A w \in W : wondered[w] \in Nat
    /\ showing = TRUE => /\ open \in W /\ (note.word = open \/ wondered[open] > 0 \/ open \in missed)
                         /\ note.status = "ok" => note.word \in glossed

\* What a step does to the note: nothing, a tap, an answer, a loss, or the page is left.
NoteStep(W) ==
    \/ UNCHANGED <<open, note, showing, wondered, missed>> /\ glossed \subseteq glossed'
    \/ UNCHANGED <<glossed, wondered>> /\ showing' = FALSE
    \/ showing' = FALSE /\ wondered' = [w \in W |-> 0]
    \/ /\ UNCHANGED <<glossed, note>>
       /\ \E w \in W : /\ open' = w /\ showing' = showing
                       /\ wondered' = [wondered EXCEPT ![w] = @ + 1]
    \/ /\ UNCHANGED <<glossed, open, missed>>
       /\ \E w \in W : /\ wondered[w] > 0 /\ wondered' = [wondered EXCEPT ![w] = @ - 1]
                       /\ IF open = w
                          THEN note' = [word |-> w, status |-> IF w \in glossed THEN "ok" ELSE "pending"]
                          ELSE UNCHANGED <<note, showing>>
    \/ /\ UNCHANGED <<glossed, open, note, showing>>
       /\ \E w \in W : /\ wondered[w] > 0 /\ wondered' = [wondered EXCEPT ![w] = @ - 1]
                       /\ missed' = missed \cup {w}

LEMMA NoteMoves ==
    ASSUME NEW W, NoteInv(W), NoteStep(W)
    PROVE  NoteInv(W)'
<1>1. CASE UNCHANGED <<open, note, showing, wondered, missed>> /\ glossed \subseteq glossed'
  BY <1>1 DEF NoteInv
<1>2. CASE UNCHANGED <<glossed, wondered>> /\ showing' = FALSE
  BY <1>2 DEF NoteInv
<1>3. CASE showing' = FALSE /\ wondered' = [w \in W |-> 0]
  BY <1>3 DEF NoteInv
<1>4. ASSUME UNCHANGED <<glossed, note>>, NEW w \in W, open' = w, showing' = showing,
             wondered' = [wondered EXCEPT ![w] = @ + 1]
      PROVE  NoteInv(W)'
  <2>1. DOMAIN wondered' = W /\ wondered'[w] = wondered[w] + 1 /\ wondered[w] \in Nat
    BY <1>4 DEF NoteInv
  <2>2. \A u \in W : wondered'[u] \in Nat
    BY <1>4, <2>1 DEF NoteInv
  <2> QED
    BY <1>4, <2>1, <2>2 DEF NoteInv
<1>5. ASSUME NEW w \in W, wondered[w] > 0, wondered' = [wondered EXCEPT ![w] = @ - 1]
      PROVE  /\ DOMAIN wondered' = W /\ \A u \in W : wondered'[u] \in Nat
             /\ \A u \in W : u # w => wondered'[u] = wondered[u]
  BY <1>5 DEF NoteInv
<1>6. ASSUME UNCHANGED <<glossed, open, missed>>, NEW w \in W, wondered[w] > 0,
             wondered' = [wondered EXCEPT ![w] = @ - 1],
             IF open = w THEN note' = [word |-> w, status |-> IF w \in glossed THEN "ok" ELSE "pending"]
             ELSE UNCHANGED <<note, showing>>
      PROVE  NoteInv(W)'
  <2>1. /\ DOMAIN wondered' = W /\ \A u \in W : wondered'[u] \in Nat
        /\ \A u \in W : u # w => wondered'[u] = wondered[u]
    BY <1>5, <1>6
  <2>2. CASE open = w
    <3>1. note'.word = w /\ (note'.status = "ok" => w \in glossed)
      BY <1>6, <2>2
    <3> QED
      BY <1>6, <2>1, <2>2, <3>1 DEF NoteInv
  <2>3. CASE open # w
    BY <1>6, <2>1, <2>3 DEF NoteInv
  <2> QED
    BY <2>2, <2>3
<1>7. ASSUME UNCHANGED <<glossed, open, note, showing>>, NEW w \in W, wondered[w] > 0,
             wondered' = [wondered EXCEPT ![w] = @ - 1], missed' = missed \cup {w}
      PROVE  NoteInv(W)'
  <2>1. /\ DOMAIN wondered' = W /\ \A u \in W : wondered'[u] \in Nat
        /\ \A u \in W : u # w => wondered'[u] = wondered[u]
    BY <1>5, <1>7
  <2> QED
    BY <1>7, <2>1 DEF NoteInv
<1> QED
  BY <1>1, <1>2, <1>3, <1>4, <1>6, <1>7 DEF NoteStep

LEMMA PagedNote == MaterialSpec => [](scene = "paged" => NoteInv(WordForms))
<1>1. Paged!Init => NoteInv(WordForms)
  <2> SUFFICES ASSUME Paged!Init PROVE NoteInv(WordForms)
    OBVIOUS
  <2>1. showing = FALSE /\ wondered = [w \in WordForms |-> 0]
    BY DEF Paged!Init
  <2>2. DOMAIN wondered = WordForms /\ \A w \in WordForms : wondered[w] \in Nat
    BY <2>1
  <2> QED
    BY <2>1, <2>2 DEF NoteInv
<1>2. NoteInv(WordForms) /\ [Paged!Next]_reading => NoteInv(WordForms)'
  <2> SUFFICES ASSUME NoteInv(WordForms), [Paged!Next]_reading
               PROVE  NoteStep(WordForms)
    BY NoteMoves
  <2>1. CASE Paged!Host
    BY <2>1 DEF Paged!Host, Paged!Stores, Paged!Translates, Paged!Glosses, Paged!popover, NoteStep
  <2>2. CASE \/ Paged!ListBooks \/ \E r \in Paged!Revisions : Paged!OpenBook(r)
             \/ Paged!Opening \/ Paged!ChapterLost
             \/ \E p \in 1 .. SentencesBefore + SentencesAfter : Paged!TapSentence(p)
             \/ \E c \in saves : Paged!SavePlace(c) \/ Paged!LosePlace(c)
             \/ Paged!Adding \/ UNCHANGED reading
    <3>1. UNCHANGED <<open, note, showing, wondered, missed, glossed>>
      BY <2>2 DEF Paged!ListBooks, Paged!OpenBook, Paged!Opening, Paged!StartAt, Paged!CheckBook,
         Paged!ReadChapter, Paged!ListDecks, Paged!ChapterLost, Paged!TapSentence, Paged!Tapped,
         Paged!SavePlace, Paged!LosePlace, Paged!Adding, Paged!popover, Paged!host, reading
    <3> QED
      BY <3>1 DEF NoteStep
  <2>3. ASSUME NEW w \in WordForms, NEW p, Paged!TapWord(w, p) PROVE NoteStep(WordForms)
    BY <2>3 DEF Paged!TapWord, Paged!Tapped, Paged!host, NoteStep
  <2>4. ASSUME NEW w \in WordForms, Paged!NoteComes(w) PROVE NoteStep(WordForms)
    BY <2>4 DEF Paged!NoteComes, Paged!Status, Paged!host, NoteStep
  <2>5. ASSUME NEW w \in WordForms, Paged!NoteLost(w) PROVE NoteStep(WordForms)
    BY <2>5 DEF Paged!NoteLost, Paged!host, NoteStep
  <2>6. CASE Paged!Leave
    BY <2>6 DEF Paged!Leave, NoteStep
  <2> QED
    BY <2>1, <2>2, <2>3, <2>4, <2>5, <2>6 DEF Paged!Next, Paged!Noting
<1>3. MaterialInit => (scene = "paged" => NoteInv(WordForms))
  BY <1>1 DEF MaterialInit
<1>4. (scene = "paged" => NoteInv(WordForms)) /\ [MaterialNext]_material
        => (scene = "paged" => NoteInv(WordForms))'
  BY <1>2, SceneSteps
<1> QED
  BY <1>3, <1>4, PTL DEF MaterialSpec

LEMMA WordedNote == MaterialSpec => [](scene = "worded" => NoteInv(PlainWords))
<1>1. Worded!Init => NoteInv(PlainWords)
  <2> SUFFICES ASSUME Worded!Init PROVE NoteInv(PlainWords)
    OBVIOUS
  <2>1. showing = FALSE /\ wondered = [w \in PlainWords |-> 0]
    BY DEF Worded!Init
  <2>2. DOMAIN wondered = PlainWords /\ \A w \in PlainWords : wondered[w] \in Nat
    BY <2>1
  <2> QED
    BY <2>1, <2>2 DEF NoteInv
<1>2. NoteInv(PlainWords) /\ [Worded!Next]_reading => NoteInv(PlainWords)'
  <2> SUFFICES ASSUME NoteInv(PlainWords), [Worded!Next]_reading
               PROVE  NoteStep(PlainWords)
    BY NoteMoves
  <2>1. CASE Worded!Host
    BY <2>1 DEF Worded!Host, Worded!Stores, Worded!Translates, Worded!Glosses, Worded!popover,
       NoteStep
  <2>2. CASE \/ Worded!ListBooks \/ \E r \in Worded!Revisions : Worded!OpenBook(r)
             \/ Worded!Opening \/ Worded!ChapterLost
             \/ \E p \in 1 .. PlainBefore + PlainAfter : Worded!TapSentence(p)
             \/ \E c \in saves : Worded!SavePlace(c) \/ Worded!LosePlace(c)
             \/ UNCHANGED reading
    <3>1. UNCHANGED <<open, note, showing, wondered, missed, glossed>>
      BY <2>2 DEF Worded!ListBooks, Worded!OpenBook, Worded!Opening, Worded!StartAt,
         Worded!CheckBook, Worded!ReadChapter, Worded!ListDecks, Worded!ChapterLost,
         Worded!TapSentence, Worded!Tapped, Worded!SavePlace, Worded!LosePlace, Worded!popover,
         Worded!host, reading
    <3> QED
      BY <3>1 DEF NoteStep
  <2>3. CASE Worded!Adding
    <3>1. UNCHANGED <<open, note, showing, wondered, missed, glossed>>
      BY <2>3 DEF Worded!Adding, Worded!PressAdd, Worded!CreateDeck, Worded!AddWord,
         Worded!MakeCard, Worded!ListAgain, Worded!SetMenu, Worded!AddFails, Worded!popover,
         Worded!host
    <3> QED
      BY <3>1 DEF NoteStep
  <2>4. ASSUME NEW w \in PlainWords, NEW p, Worded!TapWord(w, p) PROVE NoteStep(PlainWords)
    BY <2>4 DEF Worded!TapWord, Worded!Tapped, Worded!host, NoteStep
  <2>5. ASSUME NEW w \in PlainWords, Worded!NoteComes(w) PROVE NoteStep(PlainWords)
    BY <2>5 DEF Worded!NoteComes, Worded!Status, Worded!host, NoteStep
  <2>6. ASSUME NEW w \in PlainWords, Worded!NoteLost(w) PROVE NoteStep(PlainWords)
    BY <2>6 DEF Worded!NoteLost, Worded!host, NoteStep
  <2>7. CASE Worded!Leave
    BY <2>7 DEF Worded!Leave, NoteStep
  <2> QED
    BY <2>1, <2>2, <2>3, <2>4, <2>5, <2>6, <2>7 DEF Worded!Next, Worded!Noting
<1>3. MaterialInit => (scene = "worded" => NoteInv(PlainWords))
  BY <1>1 DEF MaterialInit
<1>4. (scene = "worded" => NoteInv(PlainWords)) /\ [MaterialNext]_material
        => (scene = "worded" => NoteInv(PlainWords))'
  BY <1>2, SceneSteps
<1> QED
  BY <1>3, <1>4, PTL DEF MaterialSpec

\* What the page sends is of decks there are: its menu, and each addition that has its deck;
\* between the commit and the card the deck's row is there.
Task(v) == v = [at |-> v.at, deck |-> v.deck, word |-> v.word, list |-> v.list, mine |-> v.mine]
Adds(v) ==
    /\ Task(v) /\ v.list \subseteq boxes
    /\ v.at \in {"add", "card"} => v.deck \in boxes
    /\ v.at = "card" => <<v.deck, v.word>> \in boxed
AddInv ==
    /\ menu \subseteq boxes /\ Worded!AddedKept
    /\ DOMAIN add = Additions /\ \A t \in Additions : Adds(add[t])

\* One addition moves to v, and decks, rows and cards are only added.
LEMMA AddMoves ==
    ASSUME AddInv, NEW t \in Additions, NEW v, add' = [add EXCEPT ![t] = v], Adds(v)',
           boxes \subseteq boxes', boxed \subseteq boxed', minted \subseteq minted',
           menu' \subseteq boxes',
           \A a \in added' \ added : a[1] \in boxes' /\ a \in boxed' /\ a[2] \in minted'
    PROVE  AddInv'
<1>1. DOMAIN add' = Additions /\ add'[t] = v /\ \A u \in Additions : u # t => add'[u] = add[u]
  BY DEF AddInv
<1>2. ASSUME NEW u \in Additions, NEW q, q = add'[u] PROVE Adds(q)'
  BY <1>1, <1>2 DEF AddInv, Adds, Task
<1>3. Worded!AddedKept'
  BY DEF AddInv, Worded!AddedKept
<1> QED
  BY <1>1, <1>2, <1>3 DEF AddInv, Adds, Task

\* The steps of an addition.
LEMMA AdditionMoves ==
    ASSUME AddInv, NEW t \in Additions,
           \/ \E d \in DeckNames, new \in BOOLEAN : Worded!PressAdd(t, d, new)
           \/ Worded!CreateDeck(t) \/ Worded!AddWord(t) \/ Worded!MakeCard(t)
           \/ Worded!ListAgain(t) \/ Worded!SetMenu(t) \/ Worded!AddFails(t)
    PROVE  AddInv'
<1>1. PICK q : q = add[t]
  OBVIOUS
<1>2. /\ q = [at |-> q.at, deck |-> q.deck, word |-> q.word, list |-> q.list, mine |-> q.mine]
      /\ Adds(q) /\ menu \subseteq boxes
  BY <1>1 DEF AddInv, Adds, Task
<1>3. ASSUME NEW step, NEW v, v = [q EXCEPT !.at = step]
      PROVE  /\ Task(v) /\ v.at = step /\ v.deck = q.deck /\ v.word = q.word /\ v.list = q.list
  <2>1. v = [at |-> step, deck |-> q.deck, word |-> q.word, list |-> q.list, mine |-> q.mine]
    BY <1>2, <1>3
  <2> QED
    BY <2>1 DEF Task
<1>4. PICK rest : rest = Worded!Rest
  OBVIOUS
<1>5. Task(rest) /\ rest.at = "rest" /\ rest.list = {}
  BY <1>4 DEF Task, Worded!Rest
<1>6. Adds(rest)'
  BY <1>5 DEF Adds, Task
<1>7. ASSUME NEW d \in DeckNames, NEW new \in BOOLEAN, Worded!PressAdd(t, d, new)
      PROVE  AddInv'
  <2>1. PICK v : v = [Worded!Rest EXCEPT !.at = IF new THEN "create" ELSE "add", !.deck = d,
                                         !.word = open, !.mine = TRUE]
    OBVIOUS
  <2>2. /\ add' = [add EXCEPT ![t] = v] /\ UNCHANGED <<boxes, boxed, minted, menu, added>>
        /\ new \/ d \in menu
    BY <1>7, <2>1 DEF Worded!PressAdd
  <2>3. v = [at |-> IF new THEN "create" ELSE "add", deck |-> d, word |-> open, list |-> {},
             mine |-> TRUE]
    BY <2>1 DEF Worded!Rest
  <2>4. Task(v) /\ v.at \in {"create", "add"} /\ (v.at = "add" => ~new) /\ v.deck = d /\ v.list = {}
    BY <2>3 DEF Task
  <2>5. Adds(v)'
    BY <1>2, <2>2, <2>4 DEF Adds, Task
  <2> QED
    BY <1>2, <2>2, <2>5, AddMoves
<1>8. ASSUME NEW step, NEW v, v = [q EXCEPT !.at = step], UNCHANGED <<menu, added>>,
             step \in {"add", "card"} => q.deck \in boxes',
             step = "card" => <<q.deck, q.word>> \in boxed',
             boxes \subseteq boxes', boxed \subseteq boxed', minted \subseteq minted',
             add' = [add EXCEPT ![t] = v]
      PROVE  AddInv'
  <2>1. Adds(v)'
    BY <1>2, <1>3, <1>8 DEF Adds, Task
  <2> QED
    BY <1>2, <1>8, <2>1, AddMoves
<1>9. ASSUME UNCHANGED <<menu, added>>, boxes \subseteq boxes', boxed \subseteq boxed',
             minted \subseteq minted', add' = [add EXCEPT ![t] = rest]
      PROVE  AddInv'
  BY <1>2, <1>6, <1>9, AddMoves
<1>10. CASE Worded!CreateDeck(t)
  <2>1. /\ boxes' = boxes \cup {q.deck} /\ UNCHANGED <<boxed, minted, menu, added>>
        /\ add' = [add EXCEPT ![t] = [q EXCEPT !.at = "add"]] \/ add' = [add EXCEPT ![t] = rest]
    BY <1>1, <1>4, <1>10 DEF Worded!CreateDeck, Worded!Then, Worded!Go, Worded!Drop
  <2> QED
    BY <1>8, <1>9, <2>1
<1>11. CASE Worded!AddWord(t)
  <2>1. /\ q.at = "add" /\ UNCHANGED <<boxes, minted, menu, added>>
        /\ \/ add' = [add EXCEPT ![t] = rest] /\ boxed' = boxed
           \/ /\ boxed' = boxed \cup {<<q.deck, q.word>>}
              /\ add' = [add EXCEPT ![t] = [q EXCEPT !.at = "card"]]
    BY <1>1, <1>4, <1>11 DEF Worded!AddWord, Worded!At, Worded!Go, Worded!Drop
  <2>2. q.deck \in boxes
    BY <1>2, <2>1 DEF Adds
  <2> QED
    BY <1>8, <1>9, <2>1, <2>2
<1>12. CASE Worded!MakeCard(t)
  <2>1. /\ q.at = "card" /\ UNCHANGED <<boxes, boxed, menu>> /\ minted' = minted \cup {q.word}
        /\ added' = added \cup {<<q.deck, q.word>>} \/ added' = added
        /\ add' = [add EXCEPT ![t] = [q EXCEPT !.at = "list"]] \/ add' = [add EXCEPT ![t] = rest]
    BY <1>1, <1>4, <1>12 DEF Worded!MakeCard, Worded!At, Worded!Then, Worded!Go, Worded!Drop
  <2>2. q.deck \in boxes /\ <<q.deck, q.word>> \in boxed
    BY <1>2, <2>1 DEF Adds
  <2>3. PICK v : v = [q EXCEPT !.at = "list"]
    OBVIOUS
  <2>4. Adds(v)'
    BY <1>2, <1>3, <2>1, <2>3 DEF Adds, Task
  <2>5. \A a \in added' \ added : a[1] \in boxes' /\ a \in boxed' /\ a[2] \in minted'
    BY <2>1, <2>2
  <2> QED
    BY <1>2, <1>6, <2>1, <2>3, <2>4, <2>5, AddMoves
<1>13. CASE Worded!ListAgain(t)
  <2>1. PICK v : v = [q EXCEPT !.at = "set", !.list = boxes]
    OBVIOUS
  <2>2. add' = [add EXCEPT ![t] = v] /\ UNCHANGED <<boxes, boxed, minted, menu, added>>
    <3>1. add' = [add EXCEPT ![t] = [add[t] EXCEPT !.at = "set", !.list = boxes]]
      BY <1>1, <1>2, <1>13 DEF Worded!ListAgain, AddInv
    <3> QED
      BY <1>1, <1>13, <2>1, <3>1 DEF Worded!ListAgain
  <2>3. v = [at |-> "set", deck |-> q.deck, word |-> q.word, list |-> boxes, mine |-> q.mine]
    BY <1>2, <2>1
  <2>4. Task(v) /\ v.at = "set" /\ v.list = boxes
    BY <2>3 DEF Task
  <2>5. Adds(v)'
    BY <2>2, <2>4 DEF Adds, Task
  <2> QED
    BY <1>2, <2>2, <2>5, AddMoves
<1>14. CASE Worded!SetMenu(t)
  <2>1. /\ menu' = q.list /\ add' = [add EXCEPT ![t] = rest] /\ UNCHANGED <<boxes, boxed, minted, added>>
    BY <1>1, <1>4, <1>14 DEF Worded!SetMenu, Worded!Drop
  <2>2. q.list \subseteq boxes
    BY <1>2 DEF Adds
  <2> QED
    BY <1>6, <2>1, <2>2, AddMoves
<1>15. CASE Worded!AddFails(t)
  <2>1. add' = [add EXCEPT ![t] = rest] /\ UNCHANGED <<boxes, boxed, minted, menu, added>>
    BY <1>4, <1>15 DEF Worded!AddFails, Worded!Drop
  <2> QED
    BY <1>9, <2>1
<1> QED
  BY <1>7, <1>10, <1>11, <1>12, <1>13, <1>14, <1>15

LEMMA AddInvariant == MaterialSpec => [](scene = "worded" => AddInv)
<1>1. Worded!Init => AddInv
  <2> SUFFICES ASSUME Worded!Init PROVE AddInv
    OBVIOUS
  <2>1. menu = {} /\ added = {} /\ add = [t \in Additions |-> Worded!Rest]
    BY DEF Worded!Init
  <2>2. PICK rest : rest = Worded!Rest
    OBVIOUS
  <2>3. Task(rest) /\ rest.at = "rest" /\ rest.list = {}
    BY <2>2 DEF Task, Worded!Rest
  <2>4. Adds(rest)
    BY <2>3 DEF Adds
  <2>5. DOMAIN add = Additions /\ \A t \in Additions : add[t] = rest
    BY <2>1, <2>2
  <2> QED
    BY <2>1, <2>4, <2>5 DEF AddInv, Worded!AddedKept
<1>2. AddInv /\ [Worded!Next]_reading => AddInv'
  <2> SUFFICES ASSUME AddInv, [Worded!Next]_reading
               PROVE  AddInv'
    OBVIOUS
  <2>1. CASE \/ Worded!Host \/ Worded!ListBooks
             \/ \E r \in Worded!Revisions : Worded!OpenBook(r)
             \/ Worded!StartAt \/ Worded!CheckBook \/ Worded!ReadChapter \/ Worded!ChapterLost
             \/ \E p \in 1 .. PlainBefore + PlainAfter : Worded!TapSentence(p)
             \/ \E c \in saves : Worded!SavePlace(c) \/ Worded!LosePlace(c)
             \/ Worded!Noting \/ UNCHANGED reading
    <3>1. UNCHANGED <<boxes, boxed, minted, menu, add, added>>
      <4>1. CASE Worded!Noting
        BY <4>1 DEF Worded!Noting, Worded!TapWord, Worded!Tapped, Worded!NoteComes,
           Worded!NoteLost, Worded!lists
      <4>2. CASE ~Worded!Noting
        BY <2>1, <4>2 DEF Worded!Host, Worded!ListBooks, Worded!OpenBook, Worded!StartAt,
           Worded!CheckBook, Worded!ReadChapter, Worded!ChapterLost, Worded!TapSentence,
           Worded!Tapped, Worded!SavePlace, Worded!LosePlace, Worded!lists, reading
      <4> QED
        BY <4>1, <4>2
    <3> QED
      BY <3>1 DEF AddInv, Adds, Task, Worded!AddedKept
  <2>2. CASE Worded!ListDecks
    <3>1. menu' \in {boxes, {}} /\ UNCHANGED <<boxes, boxed, minted, add, added>>
      BY <2>2 DEF Worded!ListDecks
    <3> QED
      BY <3>1 DEF AddInv, Adds, Task, Worded!AddedKept
  <2>3. CASE Worded!Adding
    BY <2>3, AdditionMoves DEF Worded!Adding
  <2>4. CASE Worded!Leave
    <3>1. /\ menu' = {} /\ UNCHANGED <<boxes, boxed, minted, added>>
          /\ add' = [t \in Additions |-> IF add[t].at = "set" THEN Worded!Rest
                                        ELSE [add[t] EXCEPT !.mine = FALSE]]
      BY <2>4 DEF Worded!Leave
    <3>2. ASSUME NEW t \in Additions, NEW v, v = add'[t] PROVE Adds(v)'
      <4>1. PICK q : q = add[t]
        OBVIOUS
      <4>2. /\ q = [at |-> q.at, deck |-> q.deck, word |-> q.word, list |-> q.list, mine |-> q.mine]
            /\ Adds(q)
        BY <4>1 DEF AddInv, Adds, Task
      <4>3. v \in {Worded!Rest, [q EXCEPT !.mine = FALSE]}
        BY <3>1, <3>2, <4>1
      <4>4. CASE v = Worded!Rest
        <5>1. Task(v) /\ v.at = "rest" /\ v.list = {}
          BY <4>4 DEF Task, Worded!Rest
        <5> QED
          BY <5>1 DEF Adds, Task
      <4>5. CASE v = [q EXCEPT !.mine = FALSE]
        <5>1. v = [at |-> q.at, deck |-> q.deck, word |-> q.word, list |-> q.list, mine |-> FALSE]
          BY <4>2, <4>5
        <5>2. Task(v) /\ v.at = q.at /\ v.deck = q.deck /\ v.word = q.word /\ v.list = q.list
          BY <5>1 DEF Task
        <5> QED
          BY <3>1, <4>2, <5>2 DEF Adds, Task
      <4> QED
        BY <4>3, <4>4, <4>5
    <3> QED
      BY <3>1, <3>2 DEF AddInv, Adds, Task, Worded!AddedKept
  <2> QED
    BY <2>1, <2>2, <2>3, <2>4 DEF Worded!Next, Worded!Opening
<1>3. MaterialInit => (scene = "worded" => AddInv)
  BY <1>1 DEF MaterialInit
<1>4. (scene = "worded" => AddInv) /\ [MaterialNext]_material => (scene = "worded" => AddInv)'
  BY <1>2, SceneSteps
<1> QED
  BY <1>3, <1>4, PTL DEF MaterialSpec

\* Pages keep step with what is stored: a running deck does not stop for good
\* (fast/playback.rs); the chapter on the reader's page is whole, the page sends the place of
\* the sentence that was tapped, shows the note of the open word and says a word is added
\* when its deck and its card are there (reader/page.rs, api/decks.rs).
THEOREM PagesSound == MaterialSpec => []PagesInStep
<1>1. ASSUME StartInv, scene = "paged" => PageInv,
             scene = "paged" => NoteInv(WordForms),
             scene = "worded" => NoteInv(PlainWords), scene = "worded" => AddInv
      PROVE  PagesInStep
  <2>1. Fast!NeverStranded
    BY <1>1, StartPromises
  <2>2. scene = "paged" => Paged!ShownWhole /\ Paged!PlaceTapped
    BY <1>1, PlaceCounted
  <2>3. scene = "paged" => Paged!NoteExplained
    BY <1>1, ReadingAssumption DEF NoteInv, Paged!NoteExplained
  <2>4. scene = "worded" => Worded!NoteExplained /\ Worded!AddedKept
    BY <1>1, ReadingAssumption DEF NoteInv, AddInv, Worded!NoteExplained
  <2> QED
    BY <2>1, <2>2, <2>3, <2>4 DEF PagesInStep
<1> QED
  BY <1>1, StartInvariant, PageInvariant, PagedNote, WordedNote, AddInvariant, PTL
=============================================================================
