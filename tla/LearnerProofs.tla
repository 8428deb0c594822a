--------------------------- MODULE LearnerProofs ----------------------------
(***************************************************************************)
(* What holds in the scenes of a learner for every value of their          *)
(* constants.  A behaviour plays one scene and leaves the variables of the *)
(* others as they were, so that an invariant of a scene's module holds in  *)
(* every behaviour and is shown without asking which scene is played.      *)
(***************************************************************************)
EXTENDS StudyScenes, TLAPS, WellFoundedInduction, FiniteSetTheorems, SequenceTheorems

\* Every nonempty set of naturals has a least element.
LEMMA LeastExists ==
    ASSUME NEW T, T \subseteq Nat, T # {}
    PROVE  \E x \in T : \A y \in T : x <= y
<1>1. PICK x \in T : \A y \in T : <<y, x>> \notin OpToRel(<, Nat)
  BY NatLessThanWellFounded, WFMin
<1>2. ASSUME NEW y \in T
      PROVE  x <= y
  <2>1. <<y, x>> \notin {p \in Nat \X Nat : p[1] < p[2]}
    BY <1>1, <1>2 DEF OpToRel
  <2>2. x \in Nat /\ y \in Nat
    OBVIOUS
  <2> QED
    BY <2>1, <2>2
<1> QED
  BY <1>2
-----------------------------------------------------------------------------
\* A step is a step of each of these modules or leaves its variables alone.
LEMMA SceneSteps ==
    [LearnerNext]_learner => /\ [Upload!Next]_(Upload!vars)
                             /\ [Nback!Next]_(Nback!vars)
                             /\ [Play!Next]_(Play!vars)
                             /\ [Device!Next]_(Device!vars)
                             /\ [Accounts!Next]_(Accounts!vars)
<1>1. /\ UNCHANGED hand => UNCHANGED Upload!vars
      /\ UNCHANGED nback => UNCHANGED Nback!vars
      /\ UNCHANGED play => UNCHANGED Play!vars
      /\ UNCHANGED local => UNCHANGED Device!vars
      /\ UNCHANGED signing => UNCHANGED Accounts!vars
  BY DEF hand, nback, play, local, signing, Upload!vars, Nback!vars, Play!vars, Device!vars,
         Accounts!vars
<1>2. UNCHANGED learner => UNCHANGED <<hand, nback, play, local, signing>>
  BY DEF learner
<1> QED
  BY <1>1, <1>2 DEF LearnerNext
-----------------------------------------------------------------------------
(***************************************************************************)
(* Sessions of dual n-back that a device hands over (NbackUpload).         *)
(***************************************************************************)

\* Sets are counted the same way in the module of a scene.
LEMMA UploadCount == ASSUME NEW S PROVE Upload!Cardinality(S) = Cardinality(S)
BY DEF Cardinality, Upload!Cardinality

HandTypes ==
    /\ outbox \in [Rounds -> {"none", "pending", "applied", "rejected"}]
    /\ whole \in [Rounds -> BOOLEAN]
    /\ stored \in [Rounds -> Nat]
    /\ waits \in Uploads \cup {"rest"}
    /\ unheard \subseteq Rounds
    /\ upload \in [Uploads -> [at : {"idle", "prepare", "reserve", "persist", "reply"},
                               todo : SUBSET Rounds,
                               acks : SUBSET [session : Rounds,
                                              told : {"applied", "already", "rejected"}]]]

\* A request has sessions to apply until it replies, answers each once, and is about
\* sessions that wait in the outbox, or are unheard once the device has given it up.
BatchInv ==
    \A r \in Uploads :
        /\ Upload!At(r, "idle") => upload[r].todo = {} /\ upload[r].acks = {}
        /\ upload[r].at \in {"prepare", "reserve", "persist"} => upload[r].todo # {}
        /\ \A a \in upload[r].acks : a.session \notin upload[r].todo
        /\ \A a, b \in upload[r].acks : a.session = b.session => a = b
        /\ waits = r => ~Upload!At(r, "idle")
        /\ \A s \in upload[r].todo \cup Upload!Acked(r) :
              IF waits = r THEN outbox[s] = "pending" ELSE s \in unheard

\* What is said of a session is so.
AckInv ==
    \A r \in Uploads : \A a \in upload[r].acks :
        IF a.told = "rejected" THEN ~whole[a.session] ELSE stored[a.session] = 1

\* Whoever has reserved the id of a session is alone with it, and it is new.
LockInv ==
    \A r \in Uploads : Upload!At(r, "persist") =>
        /\ stored[Upload!Session(r)] = 0
        /\ \A q \in Uploads : q # r /\ Upload!At(q, "persist") =>
               Upload!Session(q) # Upload!Session(r)

\* The device was told that s is stored, is being told, or a reply went unheard.
Heard(s) ==
    \/ outbox[s] = "applied" \/ s \in unheard
    \/ \E r \in Uploads : waits = r /\ \E a \in upload[r].acks :
                              a.session = s /\ a.told # "rejected"
HeardInv == \A s \in Rounds : stored[s] > 0 => Heard(s)

HandInv == HandTypes /\ BatchInv /\ AckInv /\ LockInv /\ HeardInv /\ Upload!KeptOnce

\* The session in turn is one of those to apply.
LEMMA SessionInTurn ==
    ASSUME HandTypes, NEW r \in Uploads, upload[r].todo # {}
    PROVE  Upload!Session(r) \in upload[r].todo /\ Upload!Session(r) \in Rounds
<1>1. upload[r].todo \subseteq Rounds /\ upload[r].todo \subseteq Nat
  BY NbackAssumption DEF HandTypes
<1>2. \E s \in upload[r].todo : \A t \in upload[r].todo : s <= t
  BY <1>1, LeastExists
<1>3. Upload!Session(r) \in upload[r].todo
  BY <1>2 DEF Upload!Session
<1> QED
  BY <1>1, <1>3

\* Where a request keeps its sessions, the session in turn is the same.
LEMMA SessionStays ==
    ASSUME NEW r, upload'[r].todo = upload[r].todo
    PROVE  Upload!Session(r)' = Upload!Session(r)
BY DEF Upload!Session

\* A batch of what is pending is not empty: the first session is in every batch.
LEMMA BatchHasFirst ==
    ASSUME Upload!Pending # {}
    PROVE  Upload!Batch # {} /\ Upload!Batch \subseteq Upload!Pending
<1>1. Upload!Pending \subseteq Nat
  BY NbackAssumption DEF Upload!Pending
<1>2. PICK s \in Upload!Pending : \A t \in Upload!Pending : s <= t
  BY <1>1, LeastExists
<1>3. {t \in Upload!Pending : t <= s} = {s}
  <2>1. \A t \in Upload!Pending : t <= s => t = s
    BY <1>1, <1>2
  <2>2. s \in Upload!Pending /\ s <= s
    BY <1>1
  <2> QED
    BY <2>1, <2>2
<1>4. Upload!Cardinality({t \in Upload!Pending : t <= s}) = 1
  BY <1>3, UploadCount, FS_Singleton
<1>5. s \in Upload!Batch
  BY <1>4, NbackAssumption DEF Upload!Batch
<1> QED
  BY <1>5 DEF Upload!Batch

\* A request that says of its session what is so, and goes on, keeps what is known of
\* every request.
LEMMA OnwardKeeps ==
    ASSUME HandTypes, BatchInv, AckInv, LockInv,
           NEW r \in Uploads, upload[r].at \in {"prepare", "reserve", "persist"},
           NEW told \in {"applied", "already", "rejected"}, Upload!Onward(r, told),
           UNCHANGED <<outbox, whole, waits, unheard>>,
           IF told = "rejected" THEN ~whole[Upload!Session(r)]
           ELSE stored'[Upload!Session(r)] = 1,
           stored' \in [Rounds -> Nat],
           \A s \in Rounds \ {Upload!Session(r)} : stored'[s] = stored[s],
           stored' = stored \/ (upload[r].at = "persist" /\ told # "rejected")
    PROVE  HandTypes' /\ BatchInv' /\ AckInv' /\ LockInv'
<1> DEFINE s == Upload!Session(r)
<1>1. s \in upload[r].todo /\ s \in Rounds
  BY SessionInTurn DEF BatchInv
<1>2. HandTypes'
  BY <1>1 DEF HandTypes, Upload!Onward
<1>3. /\ upload'[r].at \in {"prepare", "reply"}
      /\ upload'[r].todo = upload[r].todo \ {s}
      /\ upload'[r].acks = upload[r].acks \cup {[session |-> s, told |-> told]}
      /\ upload'[r].at = "prepare" => upload'[r].todo # {}
      /\ \A q \in Uploads \ {r} : upload'[q] = upload[q]
  BY <1>1 DEF HandTypes, Upload!Onward
<1>4. \A q \in Uploads \ {r} : upload'[q].todo = upload[q].todo => Upload!Session(q)' = Upload!Session(q)
  BY SessionStays
<1> HIDE DEF s
<1>5. BatchInv'
  BY <1>1, <1>3 DEF BatchInv, Upload!At, Upload!Acked
<1>6. AckInv'
  <2> SUFFICES ASSUME NEW q \in Uploads, NEW a \in upload'[q].acks
               PROVE  IF a.told = "rejected" THEN ~whole[a.session] ELSE stored'[a.session] = 1
    BY DEF AckInv
  <2>1. CASE a.session = s
    <3>1. CASE a = [session |-> s, told |-> told]
      BY <3>1 DEF s
    <3>2. CASE a \in upload[q].acks
      BY <3>2, <2>1, <1>1, <1>3 DEF BatchInv, AckInv, s
    <3> QED
      BY <3>1, <3>2, <1>3
  <2>2. CASE a.session # s
    <3>1. a \in upload[q].acks /\ a.session \in Rounds
      BY <2>2, <1>3 DEF HandTypes
    <3> QED
      BY <3>1, <2>2 DEF AckInv, s
  <2> QED
    BY <2>1, <2>2
<1>7. LockInv'
  <2> SUFFICES ASSUME NEW q \in Uploads, upload'[q].at = "persist"
               PROVE  /\ stored'[Upload!Session(q)'] = 0
                      /\ \A p \in Uploads : p # q /\ upload'[p].at = "persist" =>
                            Upload!Session(p)' # Upload!Session(q)'
    BY DEF LockInv, Upload!At
  <2>1. q # r /\ upload'[q] = upload[q] /\ Upload!Session(q)' = Upload!Session(q)
    BY <1>3, <1>4
  <2>2. Upload!Session(q) \in Rounds
    BY <2>1, SessionInTurn DEF BatchInv
  <2>3. stored'[Upload!Session(q)] = 0
    BY <2>1, <2>2 DEF LockInv, Upload!At
  <2>4. ASSUME NEW p \in Uploads, p # q, upload'[p].at = "persist"
        PROVE  Upload!Session(p)' # Upload!Session(q)'
    BY <2>1, <2>4, <1>3, <1>4 DEF LockInv, Upload!At
  <2> QED
    BY <2>1, <2>3, <2>4
<1> QED
  BY <1>2, <1>5, <1>6, <1>7

\* A request that moves to another step, or is given up, or ends.
LEMMA PrepareKeeps ==
    ASSUME HandInv, NEW r \in Uploads, Upload!Prepare(r)
    PROVE  HandInv'
<1>1. upload[r].todo # {} /\ Upload!Session(r) \in Rounds
  BY SessionInTurn DEF HandInv, BatchInv, Upload!Prepare, Upload!At
<1>2. CASE whole[Upload!Session(r)]
  <2>1. /\ upload' = [upload EXCEPT ![r].at = "reserve"]
        /\ UNCHANGED <<outbox, whole, stored, waits, unheard>>
    BY <1>2 DEF Upload!Prepare
  <2>2. \A q \in Uploads : /\ upload'[q].todo = upload[q].todo
                           /\ upload'[q].acks = upload[q].acks
                           /\ q # r => upload'[q] = upload[q]
                           /\ upload'[r].at = "reserve"
    BY <2>1 DEF HandInv, HandTypes
  <2>3. \A q \in Uploads : Upload!Session(q)' = Upload!Session(q)
    BY <2>2, SessionStays
  <2>4. HandTypes'
    BY <2>1 DEF HandInv, HandTypes
  <2>5. BatchInv' /\ AckInv'
    BY <2>1, <2>2, <1>1 DEF HandInv, BatchInv, AckInv, Upload!At, Upload!Acked
  <2>6. LockInv'
    BY <2>1, <2>2, <2>3 DEF HandInv, LockInv, Upload!At
  <2>7. HeardInv' /\ Upload!KeptOnce'
    BY <2>1, <2>2 DEF HandInv, HeardInv, Heard, Upload!KeptOnce
  <2> QED
    BY <2>4, <2>5, <2>6, <2>7 DEF HandInv
<1>3. CASE ~whole[Upload!Session(r)]
  <2>1. Upload!Onward(r, "rejected") /\ UNCHANGED <<outbox, whole, stored, waits, unheard>>
    BY <1>3 DEF Upload!Prepare
  <2>2. HandTypes' /\ BatchInv' /\ AckInv' /\ LockInv'
    BY <2>1, <1>3, OnwardKeeps DEF HandInv, HandTypes, Upload!Prepare, Upload!At
  <2>3. \A q \in Uploads : upload[q].acks \subseteq upload'[q].acks
    BY <2>1 DEF Upload!Onward, HandInv, HandTypes
  <2>4. HeardInv' /\ Upload!KeptOnce'
    BY <2>1, <2>3 DEF HandInv, HeardInv, Heard, Upload!KeptOnce
  <2> QED
    BY <2>2, <2>4 DEF HandInv
<1> QED
  BY <1>2, <1>3

LEMMA ReserveKeeps ==
    ASSUME HandInv, NEW r \in Uploads, Upload!ReserveUpload(r)
    PROVE  HandInv'
<1>1. /\ upload[r].todo # {} /\ Upload!Session(r) \in Rounds /\ upload[r].at = "reserve"
      /\ UNCHANGED <<outbox, whole, stored, waits, unheard>>
  BY SessionInTurn DEF HandInv, BatchInv, Upload!ReserveUpload, Upload!At
<1>2. CASE stored[Upload!Session(r)] > 0
  <2>1. Upload!Onward(r, "already")
    BY <1>2 DEF Upload!ReserveUpload, Upload!Known
  <2>2. stored[Upload!Session(r)] = 1
    BY <1>1, <1>2 DEF HandInv, HandTypes, Upload!KeptOnce
  <2>3. HandTypes' /\ BatchInv' /\ AckInv' /\ LockInv'
    BY <2>1, <2>2, <1>1, OnwardKeeps DEF HandInv, HandTypes
  <2>4. \A q \in Uploads : upload[q].acks \subseteq upload'[q].acks
    BY <2>1 DEF Upload!Onward, HandInv, HandTypes
  <2>5. HeardInv' /\ Upload!KeptOnce'
    BY <1>1, <2>4 DEF HandInv, HeardInv, Heard, Upload!KeptOnce
  <2> QED
    BY <2>3, <2>5 DEF HandInv
<1>3. CASE ~(stored[Upload!Session(r)] > 0)
  <2>1. /\ upload' = [upload EXCEPT ![r].at = "persist"]
        /\ \A q \in Uploads : upload[q].at = "persist" => Upload!Session(q) # Upload!Session(r)
    BY <1>3 DEF Upload!ReserveUpload, Upload!Known, Upload!At
  <2>2. \A q \in Uploads : /\ upload'[q].todo = upload[q].todo
                           /\ upload'[q].acks = upload[q].acks
                           /\ q # r => upload'[q] = upload[q]
                           /\ upload'[r].at = "persist"
    BY <2>1 DEF HandInv, HandTypes
  <2>3. \A q \in Uploads : Upload!Session(q)' = Upload!Session(q)
    BY <2>2, SessionStays
  <2>4. HandTypes'
    BY <2>1, <1>1 DEF HandInv, HandTypes
  <2>5. BatchInv' /\ AckInv'
    BY <2>2, <1>1 DEF HandInv, BatchInv, AckInv, Upload!At, Upload!Acked
  <2>6. stored[Upload!Session(r)] = 0
    BY <1>1, <1>3 DEF HandInv, HandTypes
  <2>7. LockInv'
    BY <2>1, <2>2, <2>3, <2>6, <1>1 DEF HandInv, LockInv, Upload!At
  <2>8. HeardInv' /\ Upload!KeptOnce'
    BY <1>1, <2>2 DEF HandInv, HeardInv, Heard, Upload!KeptOnce
  <2> QED
    BY <2>4, <2>5, <2>7, <2>8 DEF HandInv
<1> QED
  BY <1>2, <1>3

\* The session is new to the table, and either the device waits for the reply that
\* will say so or has given the request up.
LEMMA PersistKeeps ==
    ASSUME HandInv, NEW r \in Uploads, Upload!PersistNew(r)
    PROVE  HandInv'
<1>0. upload[r].todo # {} /\ upload[r].at = "persist"
  BY DEF HandInv, BatchInv, Upload!PersistNew, Upload!At
<1> PICK s \in Rounds : s = Upload!Session(r)
  BY <1>0, SessionInTurn DEF HandInv
<1>1. /\ s \in upload[r].todo /\ upload[r].at = "persist" /\ whole[s]
      /\ stored[s] = 0 /\ stored' = [stored EXCEPT ![s] = @ + 1]
      /\ UNCHANGED <<outbox, whole, waits, unheard>>
  BY <1>0, SessionInTurn DEF HandInv, LockInv, Upload!PersistNew, Upload!At
<1>2. Upload!Onward(r, "applied")
  BY DEF Upload!PersistNew
<1>3. /\ stored' \in [Rounds -> Nat] /\ stored'[s] = 1
      /\ \A t \in Rounds \ {s} : stored'[t] = stored[t]
  BY <1>1 DEF HandInv, HandTypes
<1>4. HandTypes' /\ BatchInv' /\ AckInv' /\ LockInv'
  BY <1>1, <1>2, <1>3, OnwardKeeps DEF HandInv
<1>5. \A q \in Uploads : upload[q].acks \subseteq upload'[q].acks
  BY <1>2 DEF Upload!Onward, HandInv, HandTypes
<1>6. [session |-> s, told |-> "applied"] \in upload'[r].acks
  BY <1>2 DEF Upload!Onward, HandInv, HandTypes
<1>7. Heard(s)'
  <2>1. CASE waits = r
    BY <2>1, <1>1, <1>6 DEF Heard
  <2>2. CASE waits # r
    BY <2>2, <1>1 DEF HandInv, BatchInv, Heard
  <2> QED
    BY <2>1, <2>2
<1>8. HeardInv'
  BY <1>1, <1>3, <1>5, <1>7 DEF HandInv, HeardInv, Heard
<1>9. Upload!KeptOnce'
  BY <1>1, <1>3 DEF HandInv, HandTypes, Upload!KeptOnce
<1> QED
  BY <1>4, <1>8, <1>9 DEF HandInv

\* A request that ends without a reply: the device, if it waits, gives it up, and what
\* was stored of it goes unheard.
LEMMA EndKeeps ==
    ASSUME HandInv, NEW r \in Uploads, ~Upload!At(r, "idle"),
           upload' = [upload EXCEPT ![r] = Upload!Idle],
           waits' = (IF waits = r THEN "rest" ELSE waits),
           unheard' = unheard \cup Upload!Acked(r),
           UNCHANGED <<outbox, whole, stored>>
    PROVE  HandInv'
<1>1. /\ upload'[r].at = "idle" /\ upload'[r].todo = {} /\ upload'[r].acks = {}
      /\ \A q \in Uploads \ {r} : upload'[q] = upload[q]
  BY DEF HandInv, HandTypes, Upload!Idle
<1>2. \A q \in Uploads \ {r} : Upload!Session(q)' = Upload!Session(q)
  BY <1>1, SessionStays
<1>3. HandTypes'
  BY DEF HandInv, HandTypes, Upload!Idle, Upload!Acked
<1>4. waits' # r
  BY NbackAssumption
<1>5. BatchInv'
  <2> SUFFICES ASSUME NEW q \in Uploads \ {r}
               PROVE  /\ upload[q].at = "idle" => upload[q].todo = {} /\ upload[q].acks = {}
                      /\ upload[q].at \in {"prepare", "reserve", "persist"} => upload[q].todo # {}
                      /\ \A a \in upload[q].acks : a.session \notin upload[q].todo
                      /\ \A a, b \in upload[q].acks : a.session = b.session => a = b
                      /\ waits' = q => upload[q].at # "idle"
                      /\ \A s \in upload[q].todo \cup Upload!Acked(q) :
                            IF waits' = q THEN outbox[s] = "pending" ELSE s \in unheard'
    BY <1>1, <1>4 DEF BatchInv, Upload!At, Upload!Acked
  <2>1. waits' = q <=> waits = q
    BY NbackAssumption
  <2> QED
    BY <2>1 DEF HandInv, BatchInv, Upload!At
<1>8. AckInv'
  BY <1>1 DEF HandInv, AckInv
<1>6. LockInv'
  BY <1>1, <1>2 DEF HandInv, LockInv, Upload!At
<1>7. HeardInv' /\ Upload!KeptOnce'
  BY <1>1 DEF HandInv, HeardInv, Heard, Upload!KeptOnce, Upload!Acked
<1> QED
  BY <1>3, <1>5, <1>6, <1>7, <1>8 DEF HandInv

\* The device believes a reply it waits for, and drops any other.
LEMMA ReplyKeeps ==
    ASSUME HandInv, NEW r \in Uploads, Upload!Reply(r)
    PROVE  HandInv'
<1>1. /\ upload' = [upload EXCEPT ![r] = Upload!Idle]
      /\ waits' = (IF waits = r THEN "rest" ELSE waits)
      /\ upload[r].at = "reply"
      /\ UNCHANGED <<whole, stored, unheard>>
  BY DEF Upload!Reply, Upload!At
<1>2. /\ upload'[r].at = "idle" /\ upload'[r].todo = {} /\ upload'[r].acks = {}
      /\ \A q \in Uploads \ {r} : upload'[q] = upload[q]
  BY <1>1 DEF HandInv, HandTypes, Upload!Idle
<1>3. \A q \in Uploads \ {r} : Upload!Session(q)' = Upload!Session(q)
  BY <1>2, SessionStays
<1>4. waits' # r
  BY <1>1, NbackAssumption
<1>5. LockInv'
  BY <1>1, <1>2, <1>3 DEF HandInv, LockInv, Upload!At
<1>6. AckInv'
  BY <1>1, <1>2 DEF HandInv, AckInv
<1>7. CASE waits # r
  <2>1. UNCHANGED <<outbox, waits>>
    BY <1>7, <1>1 DEF Upload!Reply
  <2>2. HandTypes'
    BY <1>1, <2>1 DEF HandInv, HandTypes, Upload!Idle
  <2>3. BatchInv'
    BY <1>1, <1>2, <1>4, <2>1 DEF HandInv, BatchInv, Upload!At, Upload!Acked
  <2>4. HeardInv' /\ Upload!KeptOnce'
    BY <1>1, <1>2, <2>1, <1>7 DEF HandInv, HeardInv, Heard, Upload!KeptOnce
  <2> QED
    BY <1>5, <1>6, <2>2, <2>3, <2>4 DEF HandInv
<1>8. CASE waits = r
  <2>1. \A s \in Rounds : s \notin Upload!Acked(r) => outbox'[s] = outbox[s]
    BY <1>8 DEF Upload!Reply
  <2>2. ASSUME NEW a \in upload[r].acks
        PROVE  outbox'[a.session] = IF a.told = "rejected" THEN "rejected" ELSE "applied"
    <3>1. a.session \in Rounds /\ a.told \in {"applied", "already", "rejected"}
      BY DEF HandInv, HandTypes
    <3>2. a.session \in Upload!Acked(r)
      BY DEF Upload!Acked
    <3>3. \A b \in upload[r].acks : b.session = a.session => b = a
      BY DEF HandInv, BatchInv
    <3>4. (CHOOSE b \in upload[r].acks : b.session = a.session) = a
      BY <3>3
    <3>5. outbox'[a.session] = Upload!Told(a.told)
      BY <3>1, <3>2, <3>4, <1>8 DEF Upload!Reply
    <3> QED
      BY <3>1, <3>5 DEF Upload!Told
  <2>3. outbox' \in [Rounds -> {"none", "pending", "applied", "rejected"}]
    <3>1. outbox' = [s \in Rounds |-> outbox'[s]]
      BY <1>8 DEF Upload!Reply
    <3>2. \A s \in Rounds : outbox'[s] \in {"none", "pending", "applied", "rejected"}
      BY <2>1, <2>2 DEF Upload!Acked, HandInv, HandTypes
    <3> QED
      BY <3>1, <3>2
  <2>4. HandTypes'
    BY <1>1, <1>8, <2>3 DEF HandInv, HandTypes, Upload!Idle
  <2>5. BatchInv'
    <3> SUFFICES ASSUME NEW q \in Uploads \ {r}
                 PROVE  /\ upload[q].at = "idle" => upload[q].todo = {} /\ upload[q].acks = {}
                        /\ upload[q].at \in {"prepare", "reserve", "persist"} => upload[q].todo # {}
                        /\ \A a \in upload[q].acks : a.session \notin upload[q].todo
                        /\ \A a, b \in upload[q].acks : a.session = b.session => a = b
                        /\ waits' # q
                        /\ \A s \in upload[q].todo \cup Upload!Acked(q) : s \in unheard
      BY <1>1, <1>2, <1>4 DEF BatchInv, Upload!At, Upload!Acked
    <3>1. waits' # q /\ waits # q
      BY <1>1, <1>8, NbackAssumption
    <3> QED
      BY <3>1 DEF HandInv, BatchInv, Upload!At
  <2>6. \A a \in upload[r].acks : outbox[a.session] = "pending"
    BY <1>8 DEF HandInv, BatchInv, Upload!Acked
  <2>7. HeardInv'
    <3> SUFFICES ASSUME NEW s \in Rounds, stored[s] > 0
                 PROVE  Heard(s)'
      BY <1>1 DEF HeardInv
    <3>1. Heard(s)
      BY DEF HandInv, HeardInv
    <3>2. CASE s \in unheard
      BY <3>2, <1>1 DEF Heard
    <3>3. CASE outbox[s] = "applied"
      BY <3>3, <2>1, <2>6 DEF Heard, Upload!Acked
    <3>4. CASE \E a \in upload[r].acks : a.session = s /\ a.told # "rejected"
      BY <3>4, <2>2 DEF Heard
    <3> QED
      BY <3>1, <3>2, <3>3, <3>4, <1>8 DEF Heard
  <2>8. Upload!KeptOnce'
    <3> SUFFICES ASSUME NEW s \in Rounds
                 PROVE  /\ stored[s] <= 1
                        /\ outbox'[s] = "applied" => stored[s] = 1
                        /\ outbox'[s] = "rejected" =>
                              ~whole[s] /\ (s \notin unheard => stored[s] = 0)
      BY <1>1 DEF Upload!KeptOnce
    <3>1. CASE s \notin Upload!Acked(r)
      BY <3>1, <2>1 DEF HandInv, Upload!KeptOnce
    <3>2. CASE s \in Upload!Acked(r)
      <4>1. PICK a \in upload[r].acks : a.session = s
        BY <3>2 DEF Upload!Acked
      <4>2. stored[s] <= 1 /\ stored[s] \in Nat
        BY DEF HandInv, HandTypes, Upload!KeptOnce
      <4>3. CASE a.told # "rejected"
        BY <4>1, <4>2, <4>3, <2>2 DEF HandInv, AckInv
      <4>4. CASE a.told = "rejected"
        <5>1. \A b \in upload[r].acks : b.session = s => b = a
          BY <4>1 DEF HandInv, BatchInv
        <5>2. outbox[s] = "pending" /\ outbox'[s] = "rejected" /\ ~whole[s]
          BY <4>1, <4>4, <2>2, <2>6 DEF HandInv, AckInv
        <5>3. stored[s] > 0 => s \in unheard
          BY <5>1, <5>2, <4>4, <1>8 DEF HandInv, HeardInv, Heard
        <5> QED
          BY <5>2, <5>3, <4>2
      <4> QED
        BY <4>3, <4>4
    <3> QED
      BY <3>1, <3>2
  <2> QED
    BY <1>5, <1>6, <2>4, <2>5, <2>7, <2>8 DEF HandInv
<1> QED
  BY <1>7, <1>8

\* What the device does, and the corpus that loses a word of a session.
LEMMA SaveSessionKeeps ==
    ASSUME HandInv, NEW s \in Rounds, Upload!SaveSession(s)
    PROVE  HandInv'
<1>1. /\ outbox[s] = "none" /\ outbox' = [outbox EXCEPT ![s] = "pending"]
      /\ UNCHANGED <<whole, stored, waits, upload, unheard>>
  BY DEF Upload!SaveSession
<1>2. HandTypes'
  BY <1>1 DEF HandInv, HandTypes
<1>3. \A t \in Rounds \ {s} : outbox'[t] = outbox[t]
  BY <1>1 DEF HandInv, HandTypes
<1>4. outbox'[s] = "pending"
  BY <1>1 DEF HandInv, HandTypes
<1>5. \A q \in Uploads : upload[q].todo \cup Upload!Acked(q) \subseteq Rounds
  BY DEF HandInv, HandTypes, Upload!Acked
<1>6. BatchInv'
  BY <1>1, <1>3, <1>5 DEF HandInv, BatchInv, Upload!At, Upload!Acked
<1>7. AckInv'
  BY <1>1 DEF HandInv, AckInv
<1>8. LockInv'
  BY <1>1 DEF HandInv, LockInv, Upload!At, Upload!Session
<1>9. HeardInv' /\ Upload!KeptOnce'
  BY <1>1, <1>3, <1>4 DEF HandInv, HeardInv, Heard, Upload!KeptOnce
<1> QED
  BY <1>2, <1>6, <1>7, <1>8, <1>9 DEF HandInv

LEMMA SendKeeps ==
    ASSUME HandInv, NEW r \in Uploads, Upload!Send(r)
    PROVE  HandInv'
<1>1. /\ waits = "rest" /\ waits' = r /\ upload[r].at = "idle"
      /\ upload' = [upload EXCEPT ![r] = [at |-> "prepare", todo |-> Upload!Batch, acks |-> {}]]
      /\ UNCHANGED <<outbox, whole, stored, unheard>>
      /\ Upload!Pending # {}
  BY DEF Upload!Send, Upload!At
<1>2. Upload!Batch # {} /\ \A s \in Upload!Batch : s \in Rounds /\ outbox[s] = "pending"
  BY <1>1, BatchHasFirst DEF Upload!Pending
<1>3. /\ upload'[r].at = "prepare" /\ upload'[r].todo = Upload!Batch /\ upload'[r].acks = {}
      /\ \A q \in Uploads \ {r} : upload'[q] = upload[q]
  BY <1>1 DEF HandInv, HandTypes
<1>4. \A q \in Uploads : waits # q
  BY <1>1, NbackAssumption
<1>5. HandTypes'
  BY <1>1, <1>2 DEF HandInv, HandTypes
<1>6. BatchInv'
  <2>1. \A s \in upload'[r].todo \cup Upload!Acked(r)' : outbox[s] = "pending"
    BY <1>2, <1>3 DEF Upload!Acked
  <2>2. ASSUME NEW q \in Uploads \ {r}
        PROVE  \A s \in upload[q].todo \cup Upload!Acked(q) : s \in unheard
    BY <1>4 DEF HandInv, BatchInv
  <2>3. \A q \in Uploads \ {r} : Upload!Acked(q)' = Upload!Acked(q)
    BY <1>3 DEF Upload!Acked
  <2> QED
    BY <1>1, <1>2, <1>3, <2>1, <2>2, <2>3 DEF HandInv, BatchInv, Upload!At
<1>7. AckInv'
  BY <1>1, <1>3 DEF HandInv, AckInv
<1>8. \A q \in Uploads \ {r} : Upload!Session(q)' = Upload!Session(q)
  BY <1>3, SessionStays
<1>9. LockInv'
  BY <1>1, <1>3, <1>8 DEF HandInv, LockInv, Upload!At
<1>10. HeardInv' /\ Upload!KeptOnce'
  BY <1>1, <1>4 DEF HandInv, HeardInv, Heard, Upload!KeptOnce
<1> QED
  BY <1>5, <1>6, <1>7, <1>9, <1>10 DEF HandInv

LEMMA GiveUpKeeps ==
    ASSUME HandInv, NEW r \in Uploads, Upload!GiveUp(r)
    PROVE  HandInv'
<1>1. /\ waits = r /\ waits' = "rest"
      /\ unheard' = unheard \cup Upload!Acked(r) \cup upload[r].todo
      /\ UNCHANGED <<outbox, whole, stored, upload>>
  BY DEF Upload!GiveUp
<1>2. HandTypes'
  BY <1>1 DEF HandInv, HandTypes, Upload!Acked
<1>3. \A q \in Uploads : waits' # q /\ Upload!Acked(q)' = Upload!Acked(q)
  BY <1>1, NbackAssumption DEF Upload!Acked
<1>4. ASSUME NEW q \in Uploads
      PROVE  \A s \in upload[q].todo \cup Upload!Acked(q) : s \in unheard'
  <2>1. CASE q = r
    BY <2>1, <1>1
  <2>2. CASE q # r
    BY <2>2, <1>1 DEF HandInv, BatchInv
  <2> QED
    BY <2>1, <2>2
<1>5. BatchInv'
  BY <1>1, <1>3, <1>4 DEF HandInv, BatchInv, Upload!At
<1>6. AckInv'
  BY <1>1 DEF HandInv, AckInv
<1>7. LockInv'
  BY <1>1 DEF HandInv, LockInv, Upload!At, Upload!Session
<1>8. HeardInv' /\ Upload!KeptOnce'
  BY <1>1 DEF HandInv, HeardInv, Heard, Upload!KeptOnce, Upload!Acked
<1> QED
  BY <1>2, <1>5, <1>6, <1>7, <1>8 DEF HandInv

LEMMA PruneKeeps ==
    ASSUME HandInv, NEW s \in Rounds, Upload!PruneWord(s)
    PROVE  HandInv'
<1>1. /\ whole' = [whole EXCEPT ![s] = FALSE]
      /\ UNCHANGED <<outbox, stored, waits, upload, unheard>>
  BY DEF Upload!PruneWord
<1>2. HandTypes'
  BY <1>1 DEF HandInv, HandTypes
<1>3. \A t \in Rounds : ~whole[t] => ~whole'[t]
  <2> SUFFICES ASSUME NEW t \in Rounds, ~whole[t]
               PROVE  ~whole'[t]
    OBVIOUS
  <2>1. CASE t = s
    BY <2>1, <1>1 DEF HandInv, HandTypes
  <2>2. CASE t # s
    BY <2>2, <1>1 DEF HandInv, HandTypes
  <2> QED
    BY <2>1, <2>2
<1>4. BatchInv'
  BY <1>1 DEF HandInv, BatchInv, Upload!At, Upload!Acked
<1>5. AckInv'
  <2>1. \A r \in Uploads : \A a \in upload[r].acks : a.session \in Rounds
    BY DEF HandInv, HandTypes
  <2> QED
    BY <1>1, <1>3, <2>1 DEF HandInv, AckInv
<1>6. LockInv'
  BY <1>1 DEF HandInv, LockInv, Upload!At, Upload!Session
<1>7. HeardInv'
  BY <1>1 DEF HandInv, HeardInv, Heard
<1>8. Upload!KeptOnce'
  BY <1>1, <1>3 DEF HandInv, Upload!KeptOnce
<1> QED
  BY <1>2, <1>4, <1>5, <1>6, <1>7, <1>8 DEF HandInv

\* What is stored, waits, is being said and went unheard of a session agree, whoever
\* retries, gives up or dies.
LEMMA HandInvariant == LearnerSpec => []HandInv
<1>1. LearnerInit => HandInv
  <2> SUFFICES ASSUME LearnerInit
               PROVE  HandInv
    OBVIOUS
  <2>1. Upload!Init
    BY DEF LearnerInit
  <2> QED
    BY <2>1, NbackAssumption
    DEF Upload!Init, Upload!Idle, HandInv, HandTypes, BatchInv, AckInv, LockInv, HeardInv,
        Upload!KeptOnce, Upload!At, Upload!Acked
<1>2. HandInv /\ [Upload!Next]_(Upload!vars) => HandInv'
  <2> SUFFICES ASSUME HandInv, [Upload!Next]_(Upload!vars)
               PROVE  HandInv'
    OBVIOUS
  <2>1. ASSUME NEW s \in Rounds, Upload!SaveSession(s) \/ Upload!PruneWord(s)
        PROVE  HandInv'
    BY <2>1, SaveSessionKeeps, PruneKeeps
  <2>2. ASSUME NEW r \in Uploads, Upload!Send(r) \/ Upload!GiveUp(r)
        PROVE  HandInv'
    BY <2>2, SendKeeps, GiveUpKeeps
  <2>3. ASSUME NEW r \in Uploads,
               Upload!Prepare(r) \/ Upload!ReserveUpload(r) \/ Upload!PersistNew(r) \/ Upload!Reply(r)
        PROVE  HandInv'
    BY <2>3, PrepareKeeps, ReserveKeeps, PersistKeeps, ReplyKeeps
  <2>4. ASSUME NEW r \in Uploads, Upload!Fail(r) \/ Upload!Crash(r)
        PROVE  HandInv'
    <3>1. /\ ~Upload!At(r, "idle") /\ upload' = [upload EXCEPT ![r] = Upload!Idle]
          /\ waits' = (IF waits = r THEN "rest" ELSE waits)
          /\ unheard' = unheard \cup Upload!Acked(r)
          /\ UNCHANGED <<outbox, whole, stored>>
      BY <2>4 DEF Upload!Fail, Upload!Crash, Upload!At
    <3> QED
      BY <3>1, EndKeeps
  <2>5. CASE UNCHANGED Upload!vars
    BY <2>5 DEF Upload!vars, HandInv, HandTypes, BatchInv, AckInv, LockInv, HeardInv, Heard,
                Upload!KeptOnce, Upload!At, Upload!Acked, Upload!Session
  <2> QED
    BY <2>1, <2>2, <2>3, <2>4, <2>5 DEF Upload!Next, Upload!Serve
<1> QED
  BY <1>1, <1>2, SceneSteps, PTL DEF LearnerSpec
-----------------------------------------------------------------------------
(***************************************************************************)
(* A session of dual n-back in the browser (NbackWeb).                     *)
(***************************************************************************)

\* Sets are counted, and functions cut down, the same way in the module of a scene.
LEMMA NbackCount == ASSUME NEW S PROVE Nback!Cardinality(S) = Cardinality(S)
BY DEF Cardinality, Nback!Cardinality

\* The larger and the smaller of two numbers.
LEMMA LargerOfTwo ==
    ASSUME NEW a \in Int, NEW b \in Int
    PROVE  /\ Nback!Max({a, b}) = (IF a >= b THEN a ELSE b)
           /\ Nback!Min({a, b}) = (IF a <= b THEN a ELSE b)
<1>1. \E x \in {a, b} : \A y \in {a, b} : x >= y
  BY SMT
<1>2. \E x \in {a, b} : \A y \in {a, b} : x =< y
  BY SMT
<1>3. Nback!Max({a, b}) \in {a, b} /\ \A y \in {a, b} : Nback!Max({a, b}) >= y
  BY <1>1 DEF Nback!Max
<1>4. Nback!Min({a, b}) \in {a, b} /\ \A y \in {a, b} : Nback!Min({a, b}) =< y
  BY <1>2 DEF Nback!Min
<1> QED
  BY <1>3, <1>4

\* The interval of a session, in milliseconds.
Pace == {i \in Int : 1500 <= i /\ i <= 5000}
Difficulty == [level : 1..9, start : 1..9, peak : 1..9, interval : Pace, below : Nat]
Trial == [audio : BOOLEAN, visual : BOOLEAN, answered : BOOLEAN]
\* Trials by their numbers, as a request has read them.
Answered == UNION {[D -> Trial] : D \in SUBSET (1..5)}

\* A new session starts within the bounds of the configuration, whatever was asked.
LEMMA NewWithinBounds ==
    ASSUME NEW level \in Int, NEW interval \in Int
    PROVE  Nback!NewState(level, interval) \in Difficulty
<1>1. ASSUME NEW low \in Int, NEW x \in Int, NEW high \in Int, low <= high
      PROVE  LET c == Nback!Clamp(low, x, high) IN c \in Int /\ low <= c /\ c <= high
  <2>1. Nback!Min({x, high}) = IF x <= high THEN x ELSE high
    BY <1>1, LargerOfTwo
  <2> DEFINE upper == Nback!Min({x, high})
  <2>2. upper \in Int /\ upper <= high
    BY <1>1, <2>1
  <2> HIDE DEF upper
  <2>3. Nback!Max({low, upper}) = IF low >= upper THEN low ELSE upper
    BY <1>1, <2>2, LargerOfTwo
  <2>4. Nback!Clamp(low, x, high) = Nback!Max({low, upper})
    BY DEF Nback!Clamp, upper
  <2> QED
    BY <1>1, <2>2, <2>3, <2>4
<1> DEFINE l == Nback!Clamp(1, level, 9)
           i == Nback!Clamp(1500, interval, 5000)
<1>2. l \in 1..9
  <2>1. 1 \in Int /\ 9 \in Int /\ 1 <= 9
    OBVIOUS
  <2>2. l \in Int /\ 1 <= l /\ l <= 9
    BY <2>1, <1>1
  <2> HIDE DEF l
  <2> QED
    BY <2>2
<1>3. i \in Pace
  <2>1. 1500 \in Int /\ 5000 \in Int /\ 1500 <= 5000
    OBVIOUS
  <2>2. i \in Int /\ 1500 <= i /\ i <= 5000
    BY <2>1, <1>1
  <2> HIDE DEF i
  <2> QED
    BY <2>2 DEF Pace
<1>4. Nback!NewState(level, interval) =
        [level |-> l, start |-> l, peak |-> l, interval |-> i, below |-> 0]
  BY DEF Nback!NewState
<1> HIDE DEF l, i
<1> QED
  BY <1>2, <1>3, <1>4 DEF Difficulty

\* Wherever the difficulty moves, by one step, it stays within its bounds.
LEMMA MovedWithinBounds ==
    ASSUME NEW s \in Difficulty
    PROVE  /\ Nback!Harder(s) \in Difficulty /\ Nback!Easier(s) \in Difficulty
           /\ Nback!Held(s) \in Difficulty
<1>0. /\ s.level \in 1..9 /\ s.start \in 1..9 /\ s.peak \in 1..9 /\ s.interval \in Pace
      /\ s.below \in Nat
      /\ s = [level |-> s.level, start |-> s.start, peak |-> s.peak, interval |-> s.interval,
              below |-> s.below]
  BY DEF Difficulty
<1>1. Nback!Harder(s) \in Difficulty
  <2> DEFINE up == Nback!Min({s.level + 1, 9})
             peak == Nback!Max({s.peak, up})
             faster == Nback!Max({s.interval - 200, 1500})
             pace == IF s.level < 9 THEN faster ELSE s.interval
  <2>1. up \in 1..9
    <3>1. s.level + 1 \in Int /\ 9 \in Int
      BY <1>0
    <3>2. up = IF s.level + 1 <= 9 THEN s.level + 1 ELSE 9
      BY <3>1, LargerOfTwo
    <3> QED
      BY <1>0, <3>2
  <2>2. peak \in 1..9
    <3> HIDE DEF up
    <3>1. s.peak \in Int /\ up \in Int
      BY <1>0, <2>1
    <3>2. peak = IF s.peak >= up THEN s.peak ELSE up
      BY <3>1, LargerOfTwo
    <3> QED
      BY <1>0, <2>1, <3>2
  <2>3. pace \in Pace
    <3>1. s.interval - 200 \in Int /\ 1500 \in Int
      BY <1>0 DEF Pace
    <3>2. faster = IF s.interval - 200 >= 1500 THEN s.interval - 200 ELSE 1500
      BY <3>1, LargerOfTwo
    <3> QED
      BY <1>0, <3>2 DEF Pace
  <2>4. Nback!Harder(s) = [s EXCEPT !.level = up, !.peak = peak, !.below = 0, !.interval = pace]
    BY DEF Nback!Harder, Difficulty
  <2> HIDE DEF up, peak, faster, pace
  <2>5. \A below \in Nat : [s EXCEPT !.level = up, !.peak = peak, !.below = below, !.interval = pace]
                             \in Difficulty
    BY <2>1, <2>2, <2>3 DEF Difficulty
  <2> QED
    BY <2>4, <2>5
<1>2. Nback!Easier(s) \in Difficulty
  <2> DEFINE down == Nback!Max({s.level - 1, 1})
             slower == Nback!Min({s.interval + 200, 5000})
             pace == IF s.level > 1 THEN slower ELSE s.interval
             below == IF down < s.start THEN s.below + 1 ELSE 0
  <2>1. down \in 1..9
    <3>1. s.level - 1 \in Int /\ 1 \in Int
      BY <1>0
    <3>2. down = IF s.level - 1 >= 1 THEN s.level - 1 ELSE 1
      BY <3>1, LargerOfTwo
    <3> QED
      BY <1>0, <3>2
  <2>2. pace \in Pace
    <3>1. s.interval + 200 \in Int /\ 5000 \in Int
      BY <1>0 DEF Pace
    <3>2. slower = IF s.interval + 200 <= 5000 THEN s.interval + 200 ELSE 5000
      BY <3>1, LargerOfTwo
    <3> QED
      BY <1>0, <3>2 DEF Pace
  <2>3. below \in Nat
    BY <1>0
  <2>4. Nback!Easier(s) = [s EXCEPT !.level = down, !.below = below, !.interval = pace]
    BY DEF Nback!Easier, Difficulty
  <2> HIDE DEF down, slower, pace, below
  <2> QED
    BY <1>0, <2>1, <2>2, <2>3, <2>4 DEF Difficulty
<1>3. Nback!Held(s) \in Difficulty
  BY DEF Nback!Held, Difficulty
<1> QED
  BY <1>1, <1>2, <1>3

LEMMA AdaptedWithinBounds ==
    ASSUME NEW s \in Difficulty, NEW trials
    PROVE  Nback!Adapted(s, trials) \in Difficulty
<1>1. Nback!Adapted(s, trials) \in {s, Nback!Harder(s), Nback!Easier(s), Nback!Held(s)}
  BY DEF Nback!Adapted
<1> QED
  BY <1>1, MovedWithinBounds

\* Before the last trial is answered there is no whole window, and nothing moves.
LEMMA NothingMovesBefore ==
    ASSUME NEW s, NEW trials \in Answered, 5 \notin DOMAIN trials
    PROVE  Nback!Adapted(s, trials) = s
<1>1. DOMAIN trials \subseteq 1..4
  <2>1. DOMAIN trials \subseteq 1..5
    BY DEF Answered
  <2>2. \A n \in 1..5 : n # 5 => n \in 1..4
    OBVIOUS
  <2> QED
    BY <2>1, <2>2
<1>2. /\ IsFiniteSet(DOMAIN trials) /\ Cardinality(DOMAIN trials) <= 4
      /\ Cardinality(DOMAIN trials) \in Nat
  <2>1. IsFiniteSet(1..4) /\ Cardinality(1..4) = 4
    <3>1. 1 \in Int /\ 4 \in Int /\ ~(1 > 4) /\ 4 - 1 + 1 = 4
      OBVIOUS
    <3>2. Cardinality(1..4) = (IF 1 > 4 THEN 0 ELSE 4 - 1 + 1) /\ IsFiniteSet(1..4)
      BY <3>1, FS_Interval
    <3> QED
      BY <3>1, <3>2
  <2> QED
    BY <1>1, <2>1, FS_Subset, FS_CardinalityType
<1>3. CASE DOMAIN trials = {}
  BY <1>3 DEF Nback!Adapted
<1>4. CASE DOMAIN trials # {}
  <2>1. Cardinality(DOMAIN trials) # 0
    BY <1>2, <1>4, FS_EmptySet
  <2>2. Nback!Cardinality(DOMAIN trials) % 5 # 0
    BY <1>2, <2>1, NbackCount
  <2> QED
    BY <2>2 DEF Nback!Adapted, Nback!Window
<1> QED
  BY <1>3, <1>4

Response == [at : {"idle", "record", "trials", "state", "update", "reply"},
             n : 0..5, result : Trial, seen : Answered, state : Difficulty]

NbackTypes ==
    /\ trial \in [1..5 -> Trial]
    /\ state \in Difficulty
    /\ final \in [state : Difficulty, count : Nat, done : BOOLEAN]
    /\ board \in [at : {"playing", "loaded", "results"}, index : Nat \ {0}]
    /\ press \in [Responses -> Response]
    /\ twice \in BOOLEAN

\* A response under way is of a trial, and carries an answer.
AnswerInv ==
    /\ \A r \in Responses : Nback!At(r, "idle") <=> press[r].n = 0
    /\ \A r \in Responses : Nback!At(r, "record") => press[r].result.answered

\* A response under way is of the trial on the page, and alone.
TurnInv ==
    /\ board.index <= 6
    /\ \A r \in Responses : ~Nback!At(r, "idle") =>
           /\ board.at = "playing" /\ press[r].n = board.index
           /\ \A q \in Responses : ~Nback!At(q, "idle") => q = r

\* The trials before the one on the page are answered, and those after it are not.
OrderInv ==
    /\ \A n \in 1..5 : /\ n < board.index => trial[n].answered
                       /\ n > board.index => ~trial[n].answered
    /\ \A r \in Responses :
           press[r].at \in {"trials", "state", "update", "reply"} => trial[press[r].n].answered

\* The state of a new session, and of one whose window is complete.
Fresh  == Nback!NewState(Level, Interval)
Scored == Nback!Adapted(Fresh, trial)

\* Until the last trial is answered the difficulty is the one of a new session.
BeforeInv ==
    ~trial[5].answered =>
        /\ board.at = "playing" /\ board.index <= 5 /\ state = Fresh /\ ~final.done
        /\ \A r \in Responses :
              /\ press[r].at \in {"state", "update"} => 5 \notin DOMAIN press[r].seen
              /\ Nback!At(r, "update") => press[r].state = Fresh

\* From then on one request reads the whole window and the state it started with, and
\* writes what they make.
AfterInv ==
    trial[5].answered =>
        /\ board.index \in {5, 6}
        /\ \A r \in Responses :
              /\ ~Nback!At(r, "record")
              /\ press[r].at \in {"state", "update"} => press[r].seen = trial
              /\ Nback!At(r, "update") => press[r].state = Fresh
        /\ IF \E r \in Responses : press[r].at \in {"trials", "state", "update"}
           THEN state = Fresh ELSE state = Scored

\* What completing the session stores is what the window made.
DoneInv ==
    /\ board.at # "playing" => board.index = 6 /\ final.state = Scored
    /\ final.done => board.at = "results" /\ final.count = 5
    /\ board.at = "results" => final.done

NbackInv == /\ NbackTypes /\ AnswerInv
            /\ (~twice => TurnInv /\ OrderInv /\ BeforeInv /\ AfterInv /\ DoneInv)

\* Nothing moves the difficulty while a session is fresh.
LEMMA FreshWithinBounds == Fresh \in Difficulty
BY NewWithinBounds, NbackAssumption DEF Fresh

\* The number of a response under way is one of a trial.
LEMMA UnderWayAnswers ==
    ASSUME NbackInv, NEW r \in Responses, press[r].at # "idle"
    PROVE  press[r].n \in 1..5
<1>1. press[r].n # 0
  BY DEF NbackInv, AnswerInv, Nback!At
<1>2. press[r].n \in 0..5
  BY DEF NbackInv, NbackTypes, Response
<1> QED
  BY <1>1, <1>2

LEMMA PressKeeps ==
    ASSUME NbackInv, NEW r \in Responses, Nback!Press(r)
    PROVE  NbackInv'
<1>1. PICK result \in Results :
        press' = [press EXCEPT ![r] = [at |-> "record", n |-> board.index,
                                       result |-> Nback!Answer(result),
                                       seen |-> Nback!NoTrials, state |-> Nback!NoState]]
  BY DEF Nback!Press
<1>2. /\ board.at = "playing" /\ board.index \in 1..5 /\ press[r].at = "idle"
      /\ UNCHANGED <<trial, state, final, board>>
      /\ twice' = (twice \/ Nback!UnderWay(board.index)
                         \/ (board.index = 5 /\ trial[5].answered))
  <2>1. board.index \in Nat \ {0} /\ board.index <= 5
    BY DEF Nback!Press, Nback!Generated, NbackInv, NbackTypes
  <2>2. board.index \in 1..5
    BY <2>1
  <2> QED
    BY <2>2 DEF Nback!Press, Nback!At, Nback!Generated
<1>3. /\ Nback!Answer(result) \in Trial /\ Nback!NoTrials \in Answered
      /\ Nback!NoState \in Difficulty /\ Nback!Answer(result).answered
  <2>1. Nback!Answer(result) \in Trial /\ Nback!Answer(result).answered
    BY NbackAssumption DEF Nback!Answer, Trial
  <2>2. Nback!NoTrials \in [{} -> Trial]
    BY DEF Nback!NoTrials
  <2>3. Nback!NoTrials \in Answered
    BY <2>2 DEF Answered
  <2>4. Nback!NoState \in Difficulty
    <3>1. 1 \in Int /\ 1500 \in Int
      OBVIOUS
    <3> QED
      BY <3>1, NewWithinBounds DEF Nback!NoState
  <2> QED
    BY <2>1, <2>3, <2>4
<1>4. /\ press'[r].at = "record" /\ press'[r].n = board.index /\ press'[r].result.answered
      /\ \A q \in Responses \ {r} : press'[q] = press[q]
  BY <1>1, <1>3 DEF NbackInv, NbackTypes, Response
<1>5. NbackTypes'
  BY <1>1, <1>2, <1>3, <1>4 DEF NbackInv, NbackTypes, Response
<1>9. AnswerInv'
  BY <1>2, <1>4 DEF NbackInv, AnswerInv, Nback!At
<1>6. ASSUME ~twice'
      PROVE  (TurnInv /\ OrderInv /\ BeforeInv /\ AfterInv /\ DoneInv)'
  <2>1. /\ ~twice /\ TurnInv /\ OrderInv /\ BeforeInv /\ AfterInv /\ DoneInv
        /\ \A q \in Responses : press[q].n # board.index
        /\ board.index = 5 => ~trial[5].answered
    BY <1>2, <1>6 DEF NbackInv, Nback!UnderWay
  <2>2. \A q \in Responses : press[q].at = "idle"
    BY <2>1 DEF TurnInv, Nback!At
  <2>3. ~trial[5].answered
    BY <1>2, <2>1 DEF OrderInv
  <2>4. Scored' = Scored /\ Fresh' = Fresh
    BY <1>2 DEF Scored, Fresh
  <2>5. TurnInv'
    BY <1>2, <1>4, <2>1, <2>2 DEF TurnInv, Nback!At
  <2>6. OrderInv'
    BY <1>2, <1>4, <2>1, <2>2 DEF OrderInv
  <2>7. BeforeInv' /\ AfterInv' /\ DoneInv'
    BY <1>2, <1>4, <2>1, <2>2, <2>3, <2>4 DEF BeforeInv, AfterInv, DoneInv, Nback!At
  <2> QED
    BY <2>5, <2>6, <2>7
<1> QED
  BY <1>5, <1>6, <1>9 DEF NbackInv

LEMMA RecordKeeps ==
    ASSUME NbackInv, NEW r \in Responses, Nback!RecordResponse(r)
    PROVE  NbackInv'
<1>1. /\ press[r].at = "record" /\ press[r].n \in 1..5
      /\ press[r].result \in Trial /\ press[r].result.answered
      /\ trial' = [trial EXCEPT ![press[r].n] = press[r].result]
      /\ press' = [press EXCEPT ![r].at = "trials"]
      /\ UNCHANGED <<state, final, board, twice>>
  <2>1. press[r].at = "record"
    BY DEF Nback!RecordResponse, Nback!At
  <2>2. press[r].result \in Trial
    BY DEF NbackInv, NbackTypes, Response
  <2>3. press[r].n \in 1..5 /\ press[r].result.answered
    BY <2>1, UnderWayAnswers DEF NbackInv, AnswerInv, Nback!At
  <2> QED
    BY <2>1, <2>2, <2>3 DEF Nback!RecordResponse, Nback!To
<1>2. /\ press'[r].at = "trials" /\ press'[r].n = press[r].n
      /\ \A q \in Responses \ {r} : press'[q] = press[q]
  BY <1>1 DEF NbackInv, NbackTypes, Response
<1>3. NbackTypes'
  BY <1>1, <1>2 DEF NbackInv, NbackTypes, Response
<1>9. AnswerInv'
  BY <1>1, <1>2 DEF NbackInv, AnswerInv, Nback!At
<1>4. ASSUME ~twice
      PROVE  (TurnInv /\ OrderInv /\ BeforeInv /\ AfterInv /\ DoneInv)'
  <2>1. TurnInv /\ OrderInv /\ BeforeInv /\ AfterInv /\ DoneInv
    BY <1>4 DEF NbackInv
  <2>2. /\ board.index = press[r].n /\ board.at = "playing"
        /\ \A q \in Responses \ {r} : press[q].at = "idle"
    BY <1>1, <2>1 DEF TurnInv, Nback!At
  <2>3. ~trial[5].answered
    BY <1>1, <2>1 DEF AfterInv, Nback!At
  <2>4. /\ \A n \in 1..5 : n # board.index => trial'[n] = trial[n]
        /\ trial'[board.index] = press[r].result
    BY <1>1, <2>2 DEF NbackInv, NbackTypes, Response
  <2>5. TurnInv'
    BY <1>1, <1>2, <2>1, <2>2 DEF TurnInv, Nback!At
  <2>6. OrderInv'
    <3>1. \A n \in 1..5 : n # board.index => trial'[n].answered = trial[n].answered
      BY <2>4
    <3> QED
      BY <1>1, <1>2, <2>1, <2>2, <2>4, <3>1 DEF OrderInv
  <2>7. DoneInv'
    BY <1>1, <2>1, <2>2 DEF DoneInv
  <2>8. Fresh' = Fresh /\ state = Fresh /\ ~final.done
    BY <2>1, <2>3 DEF Fresh, BeforeInv
  <2>9. CASE board.index = 5
    <3>1. trial'[5].answered
      BY <2>9, <2>4, <1>1
    <3>2. AfterInv'
      BY <1>1, <1>2, <2>2, <2>8, <2>9 DEF AfterInv, Nback!At
    <3> QED
      BY <2>5, <2>6, <2>7, <3>1, <3>2 DEF BeforeInv
  <2>10. CASE board.index # 5
    <3>1. trial'[5] = trial[5]
      BY <2>10, <2>4
    <3>2. BeforeInv'
      BY <1>1, <1>2, <2>1, <2>2, <2>3, <2>8, <3>1 DEF BeforeInv, Nback!At
    <3> QED
      BY <2>3, <2>5, <2>6, <2>7, <3>1, <3>2 DEF AfterInv
  <2> QED
    BY <2>9, <2>10
<1> QED
  BY <1>1, <1>3, <1>4, <1>9 DEF NbackInv

\* What is read is a restriction of the trials, and all of them once all are answered.
LEMMA AnsweredRead ==
    ASSUME NbackTypes
    PROVE  /\ Nback!AnsweredTrials \in Answered
           /\ \A n \in 1..5 : ~trial[n].answered => n \notin DOMAIN Nback!AnsweredTrials
           /\ (\A n \in 1..5 : trial[n].answered) => Nback!AnsweredTrials = trial
<1> DEFINE D == {n \in 1..5 : trial[n].answered}
<1>1. Nback!AnsweredTrials = [n \in D |-> trial[n]] /\ D \in SUBSET (1..5)
  BY DEF NbackTypes, Nback!AnsweredTrials, Nback!Restrict
<1>2. Nback!AnsweredTrials \in [D -> Trial]
  BY <1>1 DEF NbackTypes
<1>3. (\A n \in 1..5 : trial[n].answered) => D = 1..5
  OBVIOUS
<1>4. trial = [n \in 1..5 |-> trial[n]]
  BY DEF NbackTypes
<1> QED
  BY <1>1, <1>2, <1>3, <1>4 DEF Answered

LEMMA LoadTrialsKeeps ==
    ASSUME NbackInv, NEW r \in Responses, Nback!LoadAnsweredTrials(r)
    PROVE  NbackInv'
<1>1. /\ press[r].at = "trials"
      /\ press' = [press EXCEPT ![r].at = "state", ![r].seen = Nback!AnsweredTrials]
      /\ UNCHANGED <<trial, state, final, board, twice>>
  BY DEF Nback!LoadAnsweredTrials, Nback!At
<1>2. /\ press'[r].at = "state" /\ press'[r].n = press[r].n
      /\ press'[r].seen = Nback!AnsweredTrials
      /\ \A q \in Responses \ {r} : press'[q] = press[q]
  BY <1>1 DEF NbackInv, NbackTypes, Response
<1>3. NbackTypes'
  <2>1. Nback!AnsweredTrials \in Answered
    BY AnsweredRead DEF NbackInv
  <2> QED
    BY <1>1, <1>2, <2>1 DEF NbackInv, NbackTypes, Response
<1>9. AnswerInv'
  BY <1>1, <1>2 DEF NbackInv, AnswerInv, Nback!At
<1>4. ASSUME ~twice
      PROVE  (TurnInv /\ OrderInv /\ BeforeInv /\ AfterInv /\ DoneInv)'
  <2>1. TurnInv /\ OrderInv /\ BeforeInv /\ AfterInv /\ DoneInv
    BY <1>4 DEF NbackInv
  <2>2. /\ board.index = press[r].n /\ board.at = "playing"
        /\ \A q \in Responses \ {r} : press[q].at = "idle"
    BY <1>1, <2>1 DEF TurnInv, Nback!At
  <2>3. Scored' = Scored /\ Fresh' = Fresh
    BY <1>1 DEF Scored, Fresh
  <2>4. TurnInv' /\ OrderInv' /\ DoneInv'
    BY <1>1, <1>2, <2>1, <2>2, <2>3 DEF TurnInv, OrderInv, DoneInv, Nback!At
  <2>5. ~trial[5].answered => 5 \notin DOMAIN Nback!AnsweredTrials
    BY AnsweredRead DEF NbackInv
  <2>6. BeforeInv'
    BY <1>1, <1>2, <2>1, <2>2, <2>3, <2>5 DEF BeforeInv, Nback!At
  <2>7. trial[5].answered => Nback!AnsweredTrials = trial
    <3>1. board.index \in 1..6 /\ (trial[5].answered => board.index \in {5, 6})
      BY <2>1 DEF AfterInv, TurnInv, NbackInv, NbackTypes
    <3>2. trial[5].answered => \A n \in 1..5 : trial[n].answered
      BY <2>1, <3>1 DEF OrderInv
    <3> QED
      BY <3>2, AnsweredRead DEF NbackInv
  <2>8. AfterInv'
    BY <1>1, <1>2, <2>1, <2>2, <2>3, <2>7 DEF AfterInv, Nback!At
  <2> QED
    BY <2>4, <2>6, <2>8
<1> QED
  BY <1>1, <1>3, <1>4, <1>9 DEF NbackInv

LEMMA LoadStateKeeps ==
    ASSUME NbackInv, NEW r \in Responses, Nback!LoadState(r)
    PROVE  NbackInv'
<1>1. /\ press[r].at = "state"
      /\ press' = [press EXCEPT ![r].at = "update", ![r].state = state]
      /\ UNCHANGED <<trial, state, final, board, twice>>
  BY DEF Nback!LoadState, Nback!At
<1>2. /\ press'[r].at = "update" /\ press'[r].n = press[r].n
      /\ press'[r].seen = press[r].seen /\ press'[r].state = state
      /\ \A q \in Responses \ {r} : press'[q] = press[q]
  BY <1>1 DEF NbackInv, NbackTypes, Response
<1>3. NbackTypes'
  <2>1. state \in Difficulty /\ press \in [Responses -> Response]
    BY DEF NbackInv, NbackTypes, Response
  <2>2. \A p \in Response : [p EXCEPT !.at = "update", !.state = state] \in Response
    <3>1. \A p \in Response, d \in Difficulty : [p EXCEPT !.at = "update", !.state = d] \in Response
      BY DEF Response
    <3> QED
      BY <2>1, <3>1
  <2>3. press' = [press EXCEPT ![r] = [press[r] EXCEPT !.at = "update", !.state = state]]
    BY <1>1, <2>1
  <2>4. press' \in [Responses -> Response]
    BY <2>1, <2>2, <2>3
  <2>5. UNCHANGED <<trial, state, final, board, twice>>
    BY <1>1
  <2> QED
    BY <2>4, <2>5 DEF NbackInv, NbackTypes
<1>9. AnswerInv'
  <2>1. press[r].at = "state"
    BY <1>1
  <2> QED
    BY <1>2, <2>1 DEF NbackInv, AnswerInv, Nback!At
<1>4. ASSUME ~twice
      PROVE  (TurnInv /\ OrderInv /\ BeforeInv /\ AfterInv /\ DoneInv)'
  <2>1. TurnInv /\ OrderInv /\ BeforeInv /\ AfterInv /\ DoneInv
    BY <1>4 DEF NbackInv
  <2>2. /\ board.index = press[r].n /\ board.at = "playing"
        /\ \A q \in Responses \ {r} : press[q].at = "idle"
    BY <1>1, <2>1 DEF TurnInv, Nback!At
  <2>3. Scored' = Scored /\ Fresh' = Fresh
    BY <1>1 DEF Scored, Fresh
  <2>4. TurnInv' /\ OrderInv' /\ DoneInv'
    BY <1>1, <1>2, <2>1, <2>2, <2>3 DEF TurnInv, OrderInv, DoneInv, Nback!At
  <2>5. BeforeInv' /\ AfterInv'
    BY <1>1, <1>2, <2>1, <2>2, <2>3 DEF BeforeInv, AfterInv, Nback!At
  <2> QED
    BY <2>4, <2>5
<1> QED
  BY <1>1, <1>3, <1>4, <1>9 DEF NbackInv

\* The one write that may move the difficulty.
LEMMA UpdateKeeps ==
    ASSUME NbackInv, NEW r \in Responses, Nback!UpdateState(r)
    PROVE  NbackInv'
<1>1. /\ press[r].at = "update" /\ press[r].seen \in Answered /\ press[r].state \in Difficulty
      /\ state' = Nback!Adapted(press[r].state, press[r].seen)
      /\ press' = [press EXCEPT ![r].at = "reply"]
      /\ UNCHANGED <<trial, final, board, twice>>
  BY DEF Nback!UpdateState, Nback!At, Nback!To, NbackInv, NbackTypes, Response
<1>2. /\ press'[r].at = "reply" /\ press'[r].n = press[r].n
      /\ \A q \in Responses \ {r} : press'[q] = press[q]
  BY <1>1 DEF NbackInv, NbackTypes, Response
<1>3. NbackTypes'
  <2>1. state' \in Difficulty
    BY <1>1, AdaptedWithinBounds
  <2> QED
    BY <1>1, <1>2, <2>1 DEF NbackInv, NbackTypes, Response
<1>9. AnswerInv'
  BY <1>1, <1>2 DEF NbackInv, AnswerInv, Nback!At
<1>4. ASSUME ~twice
      PROVE  (TurnInv /\ OrderInv /\ BeforeInv /\ AfterInv /\ DoneInv)'
  <2>1. TurnInv /\ OrderInv /\ BeforeInv /\ AfterInv /\ DoneInv
    BY <1>4 DEF NbackInv
  <2>2. /\ board.index = press[r].n /\ board.at = "playing"
        /\ \A q \in Responses \ {r} : press[q].at = "idle"
    BY <1>1, <2>1 DEF TurnInv, Nback!At
  <2>3. Scored' = Scored /\ Fresh' = Fresh
    BY <1>1 DEF Scored, Fresh
  <2>4. TurnInv' /\ OrderInv' /\ DoneInv'
    BY <1>1, <1>2, <2>1, <2>2, <2>3 DEF TurnInv, OrderInv, DoneInv, Nback!At
  <2>5. ~trial[5].answered => state' = Fresh
    <3> SUFFICES ASSUME ~trial[5].answered
                 PROVE  state' = Fresh
      OBVIOUS
    <3>1. 5 \notin DOMAIN press[r].seen /\ press[r].state = Fresh
      BY <1>1, <2>1 DEF BeforeInv, Nback!At
    <3> QED
      BY <1>1, <3>1, NothingMovesBefore
  <2>6. trial[5].answered => state' = Scored
    BY <1>1, <2>1 DEF AfterInv, Scored, Nback!At
  <2>7. BeforeInv' /\ AfterInv'
    BY <1>1, <1>2, <2>1, <2>2, <2>3, <2>5, <2>6 DEF BeforeInv, AfterInv, Nback!At
  <2> QED
    BY <2>4, <2>7
<1> QED
  BY <1>1, <1>3, <1>4, <1>9 DEF NbackInv

\* A reply that is lost leaves the page where it is, with the trial answered.
LEMMA AnswerArrives ==
    ASSUME NbackInv, NEW r \in Responses, Nback!Reply(r)
    PROVE  NbackInv'
<1>1. /\ press[r].at = "reply"
      /\ press' = [press EXCEPT ![r] = Nback!Idle]
      /\ board' = [board EXCEPT !.index = @ + 1] \/ UNCHANGED board
      /\ UNCHANGED <<trial, state, final, twice>>
  BY DEF Nback!Reply, Nback!At, Nback!Finish
<1>2. Nback!Idle \in [at : {"idle"}, n : {0}, result : Trial, seen : Answered, state : Difficulty]
  <2>1. Nback!NoTrial \in Trial
    BY DEF Nback!NoTrial, Trial
  <2>2. Nback!NoTrials \in [{} -> Trial]
    BY DEF Nback!NoTrials
  <2>3. Nback!NoTrials \in Answered
    BY <2>2 DEF Answered
  <2>4. Nback!NoState \in Difficulty
    <3>1. 1 \in Int /\ 1500 \in Int
      OBVIOUS
    <3> QED
      BY <3>1, NewWithinBounds DEF Nback!NoState
  <2> QED
    BY <2>1, <2>3, <2>4 DEF Nback!Idle
<1>3. /\ press'[r].at = "idle" /\ press'[r].n = 0
      /\ \A q \in Responses \ {r} : press'[q] = press[q]
  BY <1>1, <1>2 DEF NbackInv, NbackTypes, Response
<1>4. /\ board' \in [at : {"playing", "loaded", "results"}, index : Nat \ {0}]
      /\ board'.at = board.at /\ board'.index \in {board.index, board.index + 1}
  BY <1>1 DEF NbackInv, NbackTypes, Response
<1>5. NbackTypes'
  BY <1>1, <1>2, <1>3, <1>4 DEF NbackInv, NbackTypes, Response
<1>9. AnswerInv'
  BY <1>1, <1>3 DEF NbackInv, AnswerInv, Nback!At
<1>6. ASSUME ~twice
      PROVE  (TurnInv /\ OrderInv /\ BeforeInv /\ AfterInv /\ DoneInv)'
  <2>1. TurnInv /\ OrderInv /\ BeforeInv /\ AfterInv /\ DoneInv
    BY <1>6 DEF NbackInv
  <2>2. press[r].n \in 1..5
    BY <1>1, UnderWayAnswers
  <2>3. /\ board.index = press[r].n /\ board.at = "playing"
        /\ \A q \in Responses : press'[q].at = "idle"
    BY <1>1, <1>3, <2>1 DEF TurnInv, Nback!At
  <2>4. Scored' = Scored /\ Fresh' = Fresh
    BY <1>1 DEF Scored, Fresh
  <2>5. trial[board.index].answered
    BY <1>1, <2>1, <2>3 DEF OrderInv
  <2>6. board.index \in 1..5 /\ board'.index \in 1..6
    BY <1>4, <2>2, <2>3
  <2>7. TurnInv'
    BY <2>3, <2>6 DEF TurnInv, Nback!At
  <2>8. OrderInv'
    <3>1. \A n \in 1..5 : n < board'.index => n < board.index \/ n = board.index
      BY <1>4, <2>6
    <3>2. \A n \in 1..5 : n > board'.index => n > board.index
      BY <1>4, <2>6
    <3> QED
      BY <1>1, <2>1, <2>3, <2>5, <3>1, <3>2 DEF OrderInv
  <2>9. BeforeInv'
    <3>1. ~trial[5].answered => board.index # 5
      BY <2>5
    <3>2. ~trial[5].answered => board'.index <= 5
      BY <3>1, <1>4, <2>6
    <3> QED
      BY <1>1, <1>4, <2>1, <2>3, <2>4, <3>2 DEF BeforeInv, Nback!At
  <2>10. AfterInv'
    <3> SUFFICES ASSUME trial[5].answered
                 PROVE  board'.index \in {5, 6} /\ state = Scored
      BY <1>1, <2>3, <2>4 DEF AfterInv, Nback!At
    <3>1. board.index = 5
      BY <2>1, <2>6 DEF AfterInv
    <3>2. \A q \in Responses : press[q].at \notin {"trials", "state", "update"}
      BY <1>1, <1>3, <2>3
    <3> QED
      BY <1>4, <2>1, <3>1, <3>2 DEF AfterInv
  <2>11. DoneInv'
    BY <1>1, <1>4, <2>1, <2>3 DEF DoneInv
  <2> QED
    BY <2>7, <2>8, <2>9, <2>10, <2>11
<1> QED
  BY <1>1, <1>5, <1>6, <1>9 DEF NbackInv

\* Completing the session, in two requests to the tables.
LEMMA CompleteKeeps ==
    ASSUME NbackInv, Nback!CompleteLoad \/ Nback!CompleteStore
    PROVE  NbackInv'
<1>1. UNCHANGED <<trial, press, twice>>
  BY DEF Nback!CompleteLoad, Nback!CompleteStore
<1>9. AnswerInv'
  BY <1>1 DEF NbackInv, AnswerInv, Nback!At
<1>2. Scored' = Scored /\ Fresh' = Fresh
  BY <1>1 DEF Scored, Fresh
<1>3. ASSUME ~twice, board.index > 5
      PROVE  /\ board.index = 6 /\ trial[5].answered /\ state = Scored
             /\ \A r \in Responses : press[r].at = "idle"
             /\ \A n \in 1..5 : trial[n].answered
  <2>1. TurnInv /\ OrderInv /\ BeforeInv /\ AfterInv /\ DoneInv
    BY <1>3 DEF NbackInv
  <2>2. board.index = 6
    BY <1>3, <2>1 DEF TurnInv, NbackInv, NbackTypes
  <2>3. \A n \in 1..5 : trial[n].answered
    BY <2>1, <2>2 DEF OrderInv
  <2>4. \A r \in Responses : press[r].n \in 0..5 /\ (press[r].at # "idle" => press[r].n = 6)
    BY <2>1, <2>2 DEF TurnInv, NbackInv, NbackTypes, Response, Nback!At
  <2>5. \A r \in Responses : press[r].at = "idle"
    BY <2>4
  <2> QED
    BY <2>1, <2>2, <2>3, <2>5 DEF AfterInv
<1>4. CASE Nback!CompleteLoad
  <2>1. /\ board.at = "playing" /\ board.index > 5 /\ board' = [board EXCEPT !.at = "loaded"]
        /\ final' = [final EXCEPT !.state = state] /\ UNCHANGED state
    BY <1>4 DEF Nback!CompleteLoad, Nback!Generated
  <2>2. /\ board'.at = "loaded" /\ board'.index = board.index
        /\ final'.state = state /\ final'.done = final.done
    BY <2>1 DEF NbackInv, NbackTypes, Response
  <2>3. NbackTypes'
    BY <1>1, <2>1 DEF NbackInv, NbackTypes, Response
  <2>4. ASSUME ~twice
        PROVE  (TurnInv /\ OrderInv /\ BeforeInv /\ AfterInv /\ DoneInv)'
    BY <1>1, <1>2, <1>3, <2>1, <2>2, <2>4
    DEF NbackInv, TurnInv, OrderInv, BeforeInv, AfterInv, DoneInv, Nback!At
  <2> QED
    BY <1>1, <1>9, <2>3, <2>4 DEF NbackInv
<1>5. CASE Nback!CompleteStore
  <2>1. /\ board.at = "loaded" /\ board' = [board EXCEPT !.at = "results"]
        /\ final' = [final EXCEPT !.count = Nback!Cardinality(DOMAIN Nback!AnsweredTrials),
                                  !.done = TRUE]
        /\ state' = final.state
    BY <1>5 DEF Nback!CompleteStore
  <2>2. Cardinality(DOMAIN Nback!AnsweredTrials) \in Nat
    <3>1. DOMAIN Nback!AnsweredTrials \subseteq 1..5
      BY AnsweredRead DEF NbackInv, Answered
    <3>2. IsFiniteSet(1..5)
      <4>1. 1 \in Int /\ 5 \in Int
        OBVIOUS
      <4> QED
        BY <4>1, FS_Interval
    <3> QED
      BY <3>1, <3>2, FS_Subset, FS_CardinalityType
  <2>3. /\ board'.at = "results" /\ board'.index = board.index
        /\ final'.state = final.state /\ final'.done
        /\ final'.count = Cardinality(DOMAIN Nback!AnsweredTrials)
    BY <2>1, NbackCount DEF NbackInv, NbackTypes, Response
  <2>4. NbackTypes'
    BY <1>1, <2>1, <2>2, NbackCount DEF NbackInv, NbackTypes, Response
  <2>5. ASSUME ~twice
        PROVE  (TurnInv /\ OrderInv /\ BeforeInv /\ AfterInv /\ DoneInv)'
    <3>1. TurnInv /\ OrderInv /\ BeforeInv /\ AfterInv /\ DoneInv /\ board.index = 6
      BY <2>1, <2>5 DEF NbackInv, DoneInv
    <3>2. /\ trial[5].answered /\ state = Scored /\ final.state = Scored
          /\ \A r \in Responses : press[r].at = "idle"
          /\ \A n \in 1..5 : trial[n].answered
      BY <1>3, <2>1, <2>5, <3>1 DEF DoneInv
    <3>3. Cardinality(DOMAIN Nback!AnsweredTrials) = 5
      <4>1. DOMAIN Nback!AnsweredTrials = 1..5
        BY <3>2, AnsweredRead DEF NbackInv, NbackTypes, Response
      <4>2. 1 \in Int /\ 5 \in Int /\ ~(1 > 5) /\ 5 - 1 + 1 = 5
        OBVIOUS
      <4>3. Cardinality(1..5) = (IF 1 > 5 THEN 0 ELSE 5 - 1 + 1)
        BY <4>2, FS_Interval
      <4> QED
        BY <4>1, <4>2, <4>3
    <3> QED
      BY <1>1, <1>2, <2>1, <2>3, <3>1, <3>2, <3>3
      DEF TurnInv, OrderInv, BeforeInv, AfterInv, DoneInv, Nback!At
  <2> QED
    BY <1>1, <1>9, <2>4, <2>5 DEF NbackInv
<1> QED
  BY <1>4, <1>5

\* A session moves its difficulty as its answers say, reply lost or not.
LEMMA NbackInvariant == LearnerSpec => []NbackInv
<1>1. LearnerInit => NbackInv
  <2> SUFFICES ASSUME LearnerInit
               PROVE  NbackInv
    OBVIOUS
  <2>1. Nback!Init
    BY DEF LearnerInit
  <2>2. Nback!NoTrial \in Trial /\ ~Nback!NoTrial.answered
    BY DEF Nback!NoTrial, Trial
  <2>3. Nback!NoState \in Difficulty
    <3>1. 1 \in Int /\ 1500 \in Int
      OBVIOUS
    <3> QED
      BY <3>1, NewWithinBounds DEF Nback!NoState
  <2>4. Nback!NoTrials \in Answered
    <3>1. Nback!NoTrials \in [{} -> Trial]
      BY DEF Nback!NoTrials
    <3> QED
      BY <3>1 DEF Answered
  <2>5. Nback!Idle \in Response
    BY <2>2, <2>3, <2>4 DEF Nback!Idle, Response
  <2>6. /\ state = Fresh /\ trial = [n \in 1..5 |-> Nback!NoTrial]
        /\ final = [state |-> Nback!NoState, count |-> 0, done |-> FALSE]
        /\ board = [at |-> "playing", index |-> 1] /\ twice = FALSE
        /\ press = [r \in Responses |-> Nback!Idle]
    BY <2>1 DEF Nback!Init, Fresh, Nback!Generated
  <2>7. NbackTypes
    <3>1. trial \in [1..5 -> Trial] /\ press \in [Responses -> Response]
      BY <2>2, <2>5, <2>6
    <3>2. final \in [state : Difficulty, count : Nat, done : BOOLEAN]
      BY <2>3, <2>6
    <3>3. state \in Difficulty /\ twice \in BOOLEAN
      BY <2>6, FreshWithinBounds
    <3>4. board \in [at : {"playing", "loaded", "results"}, index : Nat \ {0}]
      <4>1. 1 \in Nat \ {0}
        OBVIOUS
      <4> QED
        BY <2>6, <4>1
    <3> QED
      BY <3>1, <3>2, <3>3, <3>4 DEF NbackTypes
  <2>8. \A r \in Responses : press[r].at = "idle" /\ press[r].n = 0
    BY <2>6 DEF Nback!Idle
  <2>9. AnswerInv
    BY <2>8 DEF AnswerInv, Nback!At
  <2>10. \A n \in 1..5 : ~trial[n].answered
    BY <2>2, <2>6
  <2>11. board.at = "playing" /\ board.index = 1 /\ ~final.done
    BY <2>6
  <2>12. TurnInv /\ OrderInv
    BY <2>8, <2>10, <2>11 DEF TurnInv, OrderInv, Nback!At
  <2>13. BeforeInv /\ AfterInv /\ DoneInv
    BY <2>6, <2>8, <2>10, <2>11 DEF BeforeInv, AfterInv, DoneInv, Nback!At
  <2> QED
    BY <2>7, <2>9, <2>12, <2>13 DEF NbackInv
<1>2. NbackInv /\ [Nback!Next]_(Nback!vars) => NbackInv'
  <2> SUFFICES ASSUME NbackInv, [Nback!Next]_(Nback!vars)
               PROVE  NbackInv'
    OBVIOUS
  <2>1. ASSUME NEW r \in Responses, Nback!Press(r) \/ Nback!Serve(r)
        PROVE  NbackInv'
    BY <2>1, PressKeeps, RecordKeeps, LoadTrialsKeeps, LoadStateKeeps, UpdateKeeps,
       AnswerArrives DEF Nback!Serve
  <2>2. CASE Nback!CompleteLoad \/ Nback!CompleteStore
    BY <2>2, CompleteKeeps
  <2>3. CASE UNCHANGED Nback!vars
    <3>1. UNCHANGED <<trial, state, final, board, press, twice>>
      BY <2>3 DEF Nback!vars
    <3>2. NbackTypes' <=> NbackTypes
      BY <3>1 DEF NbackTypes
    <3>7. AnswerInv' <=> AnswerInv
      BY <3>1 DEF AnswerInv, Nback!At
    <3>8. TurnInv' <=> TurnInv
      BY <3>1 DEF TurnInv, Nback!At
    <3>9. OrderInv' <=> OrderInv
      BY <3>1 DEF OrderInv
    <3>3. Fresh' = Fresh /\ Scored' = Scored
      BY <3>1 DEF Scored, Fresh
    <3>4. BeforeInv' <=> BeforeInv
      BY <3>1, <3>3 DEF BeforeInv, Nback!At
    <3>5. AfterInv' <=> AfterInv
      BY <3>1, <3>3 DEF AfterInv, Nback!At
    <3>6. DoneInv' <=> DoneInv
      BY <3>1, <3>3 DEF DoneInv
    <3> QED
      BY <3>1, <3>2, <3>4, <3>5, <3>6, <3>7, <3>8, <3>9 DEF NbackInv
  <2> QED
    BY <2>1, <2>2, <2>3 DEF Nback!Next
<1> QED
  BY <1>1, <1>2, SceneSteps, PTL DEF LearnerSpec
-----------------------------------------------------------------------------
(***************************************************************************)
(* Flashcards on a device (DeviceLearn).                                   *)
(***************************************************************************)

\* Sets are counted the same way in the module of the scene.
LEMMA DeviceCount == ASSUME NEW S PROVE Device!Cardinality(S) = Cardinality(S)
BY DEF Cardinality, Device!Cardinality

View(v) == v = [status |-> v.status, at |-> v.at, deck |-> v.deck, index |-> v.index,
                answered |-> v.answered]
Scheduled(c) == c = [state |-> c.state, due |-> c.due, last |-> c.last]
Entry(o) == o = [translation |-> o.translation, at |-> o.at, status |-> o.status]

\* A session is none yet, or has its answered rows before its position.
Sat(v) ==
    /\ View(v) /\ v.index \in Nat /\ v.at \in Nat /\ v.answered = 1 .. v.index
    /\ \/ v.status = "none" /\ v.index = 0
       \/ /\ v.status \in {"active", "complete"} /\ Len(v.deck) \in Nat /\ v.index <= Len(v.deck)
          /\ v.status = "complete" <=> v.index = Len(v.deck)

CardTypes ==
    /\ DOMAIN cards = Translations /\ cards = [t \in Translations |-> cards[t]]
    /\ \A t \in Translations : Scheduled(cards[t]) /\ cards[t].last \in Nat
ReviewTypes ==
    /\ DOMAIN reviews = Events /\ reviews = [e \in Events |-> reviews[e]]
    /\ \A e \in Events :
          /\ Entry(reviews[e])
          /\ \/ reviews[e].status = "none" /\ reviews[e].translation = 0
             \/ reviews[e].status \in {"pending", "applied", "rejected"}
                /\ reviews[e].translation \in Translations
SessionTypes ==
    /\ DOMAIN sessions = Sittings /\ sessions = [s \in Sittings |-> sessions[s]]
    /\ \A s \in Sittings : Sat(sessions[s])
LearnTypes == clock \in Nat /\ CardTypes /\ ReviewTypes /\ SessionTypes

\* The answers of a translation, in the outbox and in the sessions.
Sent(t) == {e \in Events : reviews[e].translation = t}
Done == UNION {{s} \X Device!Seen(s) : s \in Sittings}
DoneOf(t) == {x \in Done : sessions[x[1]].deck[x[2]] = t}
CountInv ==
    \A t \in Translations : /\ IsFiniteSet(Sent(t)) /\ IsFiniteSet(DoneOf(t))
                            /\ Cardinality(Sent(t)) = Cardinality(DoneOf(t))

\* No review and no session is later than the clock, unless another clock is ahead.
ClockInv ==
    \/ ahead = TRUE
    \/ /\ ahead = FALSE
       /\ \A t \in Translations : cards[t].last <= clock
       /\ \A s \in Sittings : sessions[s].at <= clock

LearnInv == LearnTypes /\ CountInv /\ Device!PendingHasCard /\ ClockInv

\* What the scene promises, from its invariant.
LEMMA LearnPromises ==
    ASSUME LearnInv
    PROVE  /\ Device!SessionInStep /\ Device!AnsweredOnce /\ Device!PendingHasCard
           /\ Device!Answerable
<1>1. ASSUME NEW s \in Sittings
      PROVE  /\ Device!Seen(s) = 1 .. sessions[s].index
             /\ sessions[s].status = "complete" <=> sessions[s].index = Len(sessions[s].deck)
                                                   /\ sessions[s].status # "none"
  <2>1. Sat(sessions[s])
    BY DEF LearnInv, LearnTypes, SessionTypes
  <2> QED
    BY <2>1 DEF Sat, Device!Seen
<1>2. Device!AnsweredOnce
  BY DeviceCount DEF LearnInv, CountInv, Device!AnsweredOnce, Sent, DoneOf, Done
<1>3. Device!Answerable
  <2>1. CASE ahead = TRUE
    BY <2>1 DEF Device!Answerable
  <2>2. CASE ~(ahead = TRUE)
    <3>1. ASSUME NEW s \in Sittings, NEW t \in Translations
          PROVE  clock >= Device!Baseline(s, t)
      <4>1. /\ cards[t].last \in Nat /\ sessions[s].at \in Nat /\ clock \in Nat
            /\ cards[t].last <= clock /\ sessions[s].at <= clock
        BY <2>2 DEF LearnInv, LearnTypes, CardTypes, SessionTypes, Sat, ClockInv
      <4> QED
        BY <4>1 DEF Device!Baseline
    <3> QED
      BY <3>1 DEF Device!Answerable, Device!Schedulable
  <2> QED
    BY <2>1, <2>2
<1> QED
  BY <1>1, <1>2, <1>3 DEF LearnInv, Device!SessionInStep

\* The fields of a session that goes on and of an entry that is answered.
LEMMA ViewAdvanced ==
    ASSUME NEW w, View(w), NEW n, NEW d, NEW z
    PROVE  [w EXCEPT !.index = n, !.answered = d, !.status = z]
           = [status |-> z, at |-> w.at, deck |-> w.deck, index |-> n, answered |-> d]
<1>1. w = [status |-> w.status, at |-> w.at, deck |-> w.deck, index |-> w.index,
           answered |-> w.answered]
  BY DEF View
<1>2. PICK v : v = [w EXCEPT !.index = n]
  OBVIOUS
<1>3. v = [status |-> w.status, at |-> w.at, deck |-> w.deck, index |-> n, answered |-> w.answered]
  BY <1>1, <1>2
<1>4. PICK u : u = [v EXCEPT !.answered = d]
  OBVIOUS
<1>5. u = [status |-> w.status, at |-> w.at, deck |-> w.deck, index |-> n, answered |-> d]
  BY <1>3, <1>4
<1>6. [u EXCEPT !.status = z]
      = [status |-> z, at |-> w.at, deck |-> w.deck, index |-> n, answered |-> d]
  BY <1>5
<1> QED
  BY <1>2, <1>4, <1>6

LEMMA EntryMarked ==
    ASSUME NEW o, Entry(o), NEW z
    PROVE  [o EXCEPT !.status = z] = [translation |-> o.translation, at |-> o.at, status |-> z]
BY DEF Entry

\* One card, one entry of the outbox, one session is written.
LEMMA CardSet ==
    ASSUME CardTypes, NEW t \in Translations, NEW c, Scheduled(c), c.last \in Nat,
           cards' = [cards EXCEPT ![t] = c]
    PROVE  /\ CardTypes' /\ cards'[t] = c
           /\ \A u \in Translations : u # t => cards'[u] = cards[u]
<1>1. /\ DOMAIN cards' = Translations /\ cards' = [u \in Translations |-> cards'[u]]
      /\ \A u \in Translations : cards'[u] = IF u = t THEN c ELSE cards[u]
  BY DEF CardTypes
<1>2. \A u \in Translations : Scheduled(cards'[u]) /\ cards'[u].last \in Nat
  BY <1>1 DEF CardTypes
<1> QED
  BY <1>1, <1>2 DEF CardTypes, Scheduled

LEMMA ReviewSet ==
    ASSUME ReviewTypes, NEW e \in Events, NEW o, Entry(o), o.translation \in Translations,
           o.status \in {"pending", "applied", "rejected"}, reviews' = [reviews EXCEPT ![e] = o]
    PROVE  /\ ReviewTypes' /\ reviews'[e] = o
           /\ \A f \in Events : f # e => reviews'[f] = reviews[f]
<1>1. /\ DOMAIN reviews' = Events /\ reviews' = [f \in Events |-> reviews'[f]]
      /\ \A f \in Events : reviews'[f] = IF f = e THEN o ELSE reviews[f]
  BY DEF ReviewTypes
<1>2. ASSUME NEW f \in Events
      PROVE  /\ Entry(reviews'[f])
             /\ \/ reviews'[f].status = "none" /\ reviews'[f].translation = 0
                \/ reviews'[f].status \in {"pending", "applied", "rejected"}
                   /\ reviews'[f].translation \in Translations
  BY <1>1 DEF ReviewTypes
<1> QED
  BY <1>1, <1>2 DEF ReviewTypes, Entry

LEMMA SessionSet ==
    ASSUME SessionTypes, NEW s \in Sittings, NEW v, Sat(v), sessions' = [sessions EXCEPT ![s] = v]
    PROVE  /\ SessionTypes' /\ sessions'[s] = v
           /\ \A r \in Sittings : r # s => sessions'[r] = sessions[r]
<1>1. /\ DOMAIN sessions' = Sittings /\ sessions' = [r \in Sittings |-> sessions'[r]]
      /\ \A r \in Sittings : sessions'[r] = IF r = s THEN v ELSE sessions[r]
  BY DEF SessionTypes
<1>2. \A r \in Sittings : Sat(sessions'[r])
  BY <1>1 DEF SessionTypes
<1> QED
  BY <1>1, <1>2 DEF SessionTypes, Sat, View

\* The two counts stay while no answer is given.
LEMMA CountSame ==
    ASSUME CountInv, \A e \in Events : reviews'[e].translation = reviews[e].translation,
           \A s \in Sittings : Device!Seen(s)' = Device!Seen(s),
           \A s \in Sittings : Device!Seen(s) = {} \/ sessions'[s].deck = sessions[s].deck
    PROVE  CountInv'
<1>1. ASSUME NEW t \in Translations PROVE Sent(t)' = Sent(t) /\ DoneOf(t)' = DoneOf(t)
  <2>1. Sent(t)' = Sent(t)
    BY DEF Sent
  <2>2. Done' = Done
    BY DEF Done
  <2>3. \A x \in Done : sessions'[x[1]].deck[x[2]] = sessions[x[1]].deck[x[2]]
    BY DEF Done
  <2> QED
    BY <2>1, <2>2, <2>3 DEF DoneOf
<1> QED
  BY <1>1 DEF CountInv

\* A pending answer keeps its card, unless the card of another translation goes.
LEMMA PendingStays ==
    ASSUME ReviewTypes, Device!PendingHasCard,
           \A e \in Events : reviews'[e].status = "pending" =>
               reviews[e].status = "pending" /\ reviews'[e].translation = reviews[e].translation,
           \A t \in Translations : cards'[t].state = "none" =>
               cards[t].state = "none" \/ ~Device!Pending(t)
    PROVE  Device!PendingHasCard'
BY DEF ReviewTypes, Device!PendingHasCard, Device!Pending

LEMMA SessionBegun ==
    ASSUME LearnInv, NEW s \in Sittings, Device!CreateSession(s)
    PROVE  LearnInv'
<1>1. PICK v : v = [status |-> "active", at |-> clock, deck |-> Device!Selected, index |-> 0,
                    answered |-> {}]
  OBVIOUS
<1>2. /\ sessions[s].status = "none" /\ Len(Device!Selected) \in Nat \ {0}
      /\ sessions' = [sessions EXCEPT ![s] = v]
      /\ UNCHANGED <<cards, reviews, clock, ahead>>
  BY <1>1 DEF Device!CreateSession
<1>3. /\ v.status = "active" /\ v.at = clock /\ v.deck = Device!Selected /\ v.index = 0
      /\ v.answered = {} /\ View(v)
  BY <1>1 DEF View
<1>4. Sat(v)
  BY <1>2, <1>3 DEF Sat, LearnInv, LearnTypes
<1>5. /\ SessionTypes' /\ sessions'[s] = v
      /\ \A r \in Sittings : r # s => sessions'[r] = sessions[r]
  BY <1>2, <1>4, SessionSet DEF LearnInv, LearnTypes
<1>6. LearnTypes'
  BY <1>2, <1>5 DEF LearnInv, LearnTypes, CardTypes, ReviewTypes
<1>7. CountInv'
  <2>1. Device!Seen(s) = {} /\ Device!Seen(s)' = {}
    BY <1>2, <1>3, <1>5 DEF Device!Seen
  <2>2. \A r \in Sittings : Device!Seen(r)' = Device!Seen(r)
    BY <1>5, <2>1 DEF Device!Seen
  <2>3. \A r \in Sittings : Device!Seen(r) = {} \/ sessions'[r].deck = sessions[r].deck
    BY <1>5, <2>1
  <2> QED
    BY <1>2, <2>2, <2>3, CountSame DEF LearnInv
<1>8. Device!PendingHasCard'
  BY <1>2 DEF LearnInv, Device!PendingHasCard
<1>9. ClockInv'
  <2>1. clock \in Nat
    BY DEF LearnInv, LearnTypes
  <2>2. CASE ahead = TRUE
    BY <1>2, <2>2 DEF ClockInv
  <2>3. CASE ~(ahead = TRUE)
    BY <1>2, <1>3, <1>5, <2>1, <2>3 DEF LearnInv, ClockInv
  <2> QED
    BY <2>2, <2>3
<1> QED
  BY <1>6, <1>7, <1>8, <1>9 DEF LearnInv

\* An answer adds one entry to the outbox and one answered row, of the same translation.
LEMMA AnswerGiven ==
    ASSUME LearnInv, NEW s \in Sittings, NEW e \in Events, NEW t \in Translations,
           Device!Answer(s, e, t)
    PROVE  LearnInv'
<1>1. PICK learned \in {"learning", "review"}, soon \in clock .. clock + 1 :
        /\ reviews[e].status = "none" /\ Device!IsCurrent(s, t)
        /\ cards' = [cards EXCEPT ![t] = [state |-> learned, due |-> soon, last |-> clock]]
        /\ reviews' = [reviews EXCEPT ![e] = [translation |-> t, at |-> clock, status |-> "pending"]]
        /\ sessions' = [sessions EXCEPT ![s] = Device!Advanced(@)]
        /\ UNCHANGED <<clock, ahead>>
  BY DEF Device!Answer, Device!Fresh, Device!FirstTime
<1>2. /\ clock \in Nat /\ CardTypes /\ ReviewTypes /\ SessionTypes /\ CountInv
      /\ Device!PendingHasCard /\ ClockInv
  BY DEF LearnInv, LearnTypes
<1>3. PICK c : c = [state |-> learned, due |-> soon, last |-> clock]
  OBVIOUS
<1>4. c.state = learned /\ c.last = clock /\ Scheduled(c)
  BY <1>3 DEF Scheduled
<1>5. /\ CardTypes' /\ cards'[t] = c
      /\ \A u \in Translations : u # t => cards'[u] = cards[u]
  BY <1>1, <1>2, <1>3, <1>4, CardSet
<1>6. PICK o : o = [translation |-> t, at |-> clock, status |-> "pending"]
  OBVIOUS
<1>7. o.translation = t /\ o.status = "pending" /\ Entry(o)
  BY <1>6 DEF Entry
<1>8. /\ ReviewTypes' /\ reviews'[e] = o
      /\ \A f \in Events : f # e => reviews'[f] = reviews[f]
  BY <1>1, <1>2, <1>6, <1>7, ReviewSet
<1>9. PICK q : q = sessions[s].index + 1
  OBVIOUS
<1>10. /\ sessions[s].status = "active" /\ q <= Len(sessions[s].deck)
       /\ q \notin sessions[s].answered /\ sessions[s].deck[q] = t
  BY <1>1, <1>9 DEF Device!IsCurrent
<1>11. /\ View(sessions[s]) /\ sessions[s].index \in Nat /\ sessions[s].at \in Nat
       /\ sessions[s].answered = 1 .. sessions[s].index /\ Len(sessions[s].deck) \in Nat
  BY <1>2, <1>10 DEF SessionTypes, Sat
<1>12. PICK v : v = [status |-> IF q >= Len(sessions[s].deck) THEN "complete" ELSE "active",
                     at |-> sessions[s].at, deck |-> sessions[s].deck, index |-> q,
                     answered |-> sessions[s].answered \cup {q}]
  OBVIOUS
<1>13. Device!Advanced(sessions[s]) = v
  <2>1. /\ Device!Advanced(sessions[s]) =
             [sessions[s] EXCEPT !.index = q, !.answered = sessions[s].answered \cup {q},
                 !.status = IF q >= Len(sessions[s].deck) THEN "complete" ELSE "active"]
    BY <1>9 DEF Device!Advanced
  <2> QED
    BY <1>11, <1>12, <2>1, ViewAdvanced
<1>14. /\ View(v) /\ v.at = sessions[s].at /\ v.deck = sessions[s].deck /\ v.index = q
       /\ v.answered = sessions[s].answered \cup {q}
       /\ v.status = IF q >= Len(sessions[s].deck) THEN "complete" ELSE "active"
  BY <1>12 DEF View
<1>15. Sat(v)
  <2>1. sessions[s].answered \cup {q} = 1 .. q /\ q \in Nat
    BY <1>9, <1>11
  <2>2. /\ v.status \in {"active", "complete"}
        /\ v.status = "complete" <=> v.index = Len(v.deck)
    BY <1>9, <1>10, <1>11, <1>14
  <2> QED
    BY <1>10, <1>11, <1>14, <2>1, <2>2 DEF Sat
<1>16. /\ SessionTypes' /\ sessions'[s] = v
       /\ \A r \in Sittings : r # s => sessions'[r] = sessions[r]
  <2>1. sessions' = [sessions EXCEPT ![s] = v]
    BY <1>1, <1>2, <1>13 DEF SessionTypes
  <2> QED
    BY <1>2, <1>15, <2>1, SessionSet
<1>17. LearnTypes'
  BY <1>1, <1>2, <1>5, <1>8, <1>16 DEF LearnTypes
<1>18. CountInv'
  <2>1. /\ Device!Seen(s)' = Device!Seen(s) \cup {q} /\ q \notin Device!Seen(s)
        /\ \A r \in Sittings : r # s => Device!Seen(r)' = Device!Seen(r)
    <3>1. v.status # "none"
      BY <1>14
    <3> QED
      BY <1>10, <1>14, <1>16, <3>1 DEF Device!Seen
  <2>2. <<s, q>> \notin Done /\ Done' = Done \cup {<<s, q>>}
    <3>1. <<s, q>> \notin Done
      BY <2>1 DEF Done
    <3>2. ASSUME NEW r \in Sittings, NEW i \in Device!Seen(r)'
          PROVE  <<r, i>> \in Done \cup {<<s, q>>}
      BY <2>1, <3>2 DEF Done
    <3>3. Done' \subseteq Done \cup {<<s, q>>}
      BY <3>2 DEF Done
    <3>4. <<s, q>> \in Done'
      BY <2>1 DEF Done
    <3>5. Done \subseteq Done'
      BY <2>1 DEF Done
    <3> QED
      BY <3>1, <3>3, <3>4, <3>5
  <2>3. /\ \A x \in Done' : sessions'[x[1]].deck = sessions[x[1]].deck
        /\ sessions'[s].deck[q] = t
    BY <1>10, <1>14, <1>16 DEF Done
  <2>4. ASSUME NEW u \in Translations, u # t
        PROVE  Sent(u)' = Sent(u) /\ DoneOf(u)' = DoneOf(u)
    <3>1. reviews[e].translation = 0 /\ u # 0
      BY <1>1, <1>2, DeviceAssumption DEF ReviewTypes
    <3>2. Sent(u)' = Sent(u)
      BY <1>7, <1>8, <2>4, <3>1 DEF Sent
    <3>3. <<s, q>>[1] = s /\ <<s, q>>[2] = q
      OBVIOUS
    <3> QED
      BY <2>2, <2>3, <2>4, <3>2, <3>3 DEF DoneOf
  <2>5. Sent(t)' = Sent(t) \cup {e} /\ e \notin Sent(t)
    <3>1. reviews[e].translation = 0 /\ t # 0
      BY <1>1, <1>2, DeviceAssumption DEF ReviewTypes
    <3> QED
      BY <1>7, <1>8, <3>1 DEF Sent
  <2>6. DoneOf(t)' = DoneOf(t) \cup {<<s, q>>} /\ <<s, q>> \notin DoneOf(t)
    <3>1. <<s, q>>[1] = s /\ <<s, q>>[2] = q
      OBVIOUS
    <3> QED
      BY <2>2, <2>3, <3>1 DEF DoneOf
  <2>7. /\ IsFiniteSet(Sent(t)) /\ IsFiniteSet(DoneOf(t))
        /\ Cardinality(Sent(t)) = Cardinality(DoneOf(t))
    BY <1>2 DEF CountInv
  <2>8. /\ IsFiniteSet(Sent(t)') /\ Cardinality(Sent(t)') = Cardinality(Sent(t)) + 1
    BY <2>5, <2>7, FS_AddElement
  <2>9. /\ IsFiniteSet(DoneOf(t)') /\ Cardinality(DoneOf(t)') = Cardinality(DoneOf(t)) + 1
    BY <2>6, <2>7, FS_AddElement
  <2>10. ASSUME NEW u \in Translations
         PROVE  /\ IsFiniteSet(Sent(u)') /\ IsFiniteSet(DoneOf(u)')
                /\ Cardinality(Sent(u)') = Cardinality(DoneOf(u)')
    <3>1. CASE u = t
      BY <2>7, <2>8, <2>9, <3>1
    <3>2. CASE u # t
      BY <1>2, <2>4, <3>2 DEF CountInv
    <3> QED
      BY <3>1, <3>2
  <2> QED
    BY <2>10 DEF CountInv
<1>19. Device!PendingHasCard'
  <2>1. cards'[t].state # "none" /\ reviews'[e].translation = t
    BY <1>4, <1>5, <1>7, <1>8
  <2>2. ASSUME NEW f \in Events, reviews'[f].status = "pending"
        PROVE  cards'[reviews'[f].translation].state # "none"
    <3>1. CASE f = e
      BY <2>1, <3>1
    <3>2. CASE f # e
      <4>1. /\ reviews'[f] = reviews[f] /\ reviews[f].translation \in Translations
            /\ cards[reviews[f].translation].state # "none"
        BY <1>2, <1>8, <2>2, <3>2 DEF ReviewTypes, Device!PendingHasCard
      <4> QED
        BY <1>5, <2>1, <4>1
    <3> QED
      BY <3>1, <3>2
  <2> QED
    BY <2>2 DEF Device!PendingHasCard
<1>20. ClockInv'
  <2>1. CASE ahead = TRUE
    BY <1>1, <2>1 DEF ClockInv
  <2>2. CASE ~(ahead = TRUE)
    <3>1. \A u \in Translations : cards'[u].last <= clock
      BY <1>2, <1>4, <1>5, <2>2 DEF ClockInv
    <3>2. \A r \in Sittings : sessions'[r].at <= clock
      BY <1>2, <1>14, <1>16, <2>2 DEF ClockInv
    <3> QED
      BY <1>1, <1>2, <2>2, <3>1, <3>2 DEF ClockInv
  <2> QED
    BY <2>1, <2>2
<1> QED
  BY <1>17, <1>18, <1>19, <1>20 DEF LearnInv

\* What sync writes: a card of the server, a card that goes, the standing of an answer.
LEMMA CardServed ==
    ASSUME LearnInv, NEW t \in Translations, Device!ServerCard(t), clock' = clock,
           sessions' = sessions
    PROVE  CardTypes' /\ ClockInv' /\ \A u \in Translations : cards'[u].state = "none" => cards[u].state = "none"
<1>1. PICK last \in {cards[t].last, clock, clock + 1} :
        /\ cards' = [cards EXCEPT ![t] = [state |-> "review", due |-> last, last |-> last]]
        /\ ahead' = (ahead \/ last > clock)
  BY DEF Device!ServerCard
<1>2. clock \in Nat /\ CardTypes /\ cards[t].last \in Nat
  BY DEF LearnInv, LearnTypes, CardTypes
<1>3. last \in Nat
  BY <1>1, <1>2
<1>4. PICK c : c = [state |-> "review", due |-> last, last |-> last]
  OBVIOUS
<1>5. c.state = "review" /\ c.last = last /\ Scheduled(c)
  BY <1>4 DEF Scheduled
<1>6. /\ CardTypes' /\ cards'[t] = c
      /\ \A u \in Translations : u # t => cards'[u] = cards[u]
  BY <1>1, <1>2, <1>3, <1>4, <1>5, CardSet
<1>7. ClockInv'
  <2>1. CASE ahead = TRUE \/ last > clock
    <3>1. ahead' = TRUE
      BY <1>1, <2>1
    <3> QED
      BY <3>1 DEF ClockInv
  <2>2. CASE ~(ahead = TRUE) /\ ~(last > clock)
    <3>1. /\ ahead = FALSE
          /\ \A u \in Translations : cards[u].last <= clock
          /\ \A s \in Sittings : sessions[s].at <= clock
      BY <2>2 DEF LearnInv, ClockInv
    <3>2. ahead' = FALSE
      BY <1>1, <2>2, <3>1
    <3>3. last <= clock
      BY <1>2, <1>3, <2>2
    <3> QED
      BY <1>5, <1>6, <3>1, <3>2, <3>3 DEF ClockInv
  <2> QED
    BY <2>1, <2>2
<1> QED
  BY <1>5, <1>6, <1>7

LEMMA SyncWrites ==
    ASSUME LearnInv,
           \/ \E e \in Events : Device!Acknowledge(e)
           \/ \E t \in Translations : Device!FeedCard(t)
    PROVE  LearnInv'
<1>1. /\ clock \in Nat /\ CardTypes /\ ReviewTypes /\ SessionTypes /\ CountInv
      /\ Device!PendingHasCard /\ ClockInv
  BY DEF LearnInv, LearnTypes
<1>2. clock' = clock /\ sessions' = sessions
  BY DEF Device!Acknowledge, Device!FeedCard
<1>3. \/ /\ \E t \in Translations : Device!ServerCard(t)
         /\ \/ reviews' = reviews
            \/ \E e \in Events : reviews[e].status = "pending"
                                 /\ reviews' = [reviews EXCEPT ![e].status = "applied"]
      \/ /\ UNCHANGED <<cards, ahead>>
         /\ \E e \in Events : reviews[e].status = "pending"
                              /\ reviews' = [reviews EXCEPT ![e].status = "rejected"]
      \/ /\ UNCHANGED <<reviews, ahead>>
         /\ \E t \in Translations : ~Device!Pending(t) /\ cards' = [cards EXCEPT ![t] = Device!Bare]
  BY <1>1 DEF ReviewTypes, Device!Acknowledge, Device!FeedCard
<1>4. /\ CardTypes' /\ ClockInv'
      /\ \A u \in Translations : cards'[u].state = "none" =>
             cards[u].state = "none" \/ ~Device!Pending(u)
  <2>1. ASSUME NEW t \in Translations, Device!ServerCard(t)
        PROVE  /\ CardTypes' /\ ClockInv'
              /\ \A u \in Translations : cards'[u].state = "none" =>
                     cards[u].state = "none" \/ ~Device!Pending(u)
    BY <1>2, <2>1, CardServed
  <2>2. CASE UNCHANGED <<cards, ahead>>
    BY <1>1, <1>2, <2>2 DEF CardTypes, ClockInv
  <2>3. ASSUME UNCHANGED ahead, NEW t \in Translations, ~Device!Pending(t),
               cards' = [cards EXCEPT ![t] = Device!Bare]
        PROVE  /\ CardTypes' /\ ClockInv'
              /\ \A u \in Translations : cards'[u].state = "none" =>
                     cards[u].state = "none" \/ ~Device!Pending(u)
    <3>1. PICK c : c = Device!Bare
      OBVIOUS
    <3>2. c.last = 0 /\ c.last \in Nat /\ Scheduled(c)
      BY <3>1 DEF Device!Bare, Scheduled
    <3>3. /\ CardTypes' /\ cards'[t] = c
          /\ \A u \in Translations : u # t => cards'[u] = cards[u]
      BY <1>1, <2>3, <3>1, <3>2, CardSet
    <3>4. ClockInv'
      BY <1>1, <1>2, <2>3, <3>2, <3>3 DEF ClockInv
    <3> QED
      BY <2>3, <3>3, <3>4
  <2> QED
    BY <1>3, <2>1, <2>2, <2>3
<1>5. /\ ReviewTypes'
      /\ \A e \in Events : /\ reviews'[e].translation = reviews[e].translation
                           /\ reviews'[e].status = "pending" => reviews[e].status = "pending"
  <2>1. CASE reviews' = reviews
    BY <1>1, <2>1 DEF ReviewTypes
  <2>2. ASSUME NEW e \in Events, NEW standing \in {"applied", "rejected"},
               reviews[e].status = "pending", reviews' = [reviews EXCEPT ![e].status = standing]
        PROVE  /\ ReviewTypes'
              /\ \A f \in Events : /\ reviews'[f].translation = reviews[f].translation
                                   /\ reviews'[f].status = "pending" => reviews[f].status = "pending"
    <3>1. Entry(reviews[e]) /\ reviews[e].translation \in Translations
      BY <1>1, <2>2 DEF ReviewTypes
    <3>2. PICK o : o = [translation |-> reviews[e].translation, at |-> reviews[e].at,
                        status |-> standing]
      OBVIOUS
    <3>3. /\ o.translation = reviews[e].translation /\ o.status = standing /\ Entry(o)
      BY <3>2 DEF Entry
    <3>4. reviews' = [reviews EXCEPT ![e] = o]
      <4>1. [reviews[e] EXCEPT !.status = standing] = o
        BY <3>1, <3>2, EntryMarked
      <4>2. reviews' = [reviews EXCEPT ![e] = [reviews[e] EXCEPT !.status = standing]]
        BY <2>2
      <4> QED
        BY <4>1, <4>2
    <3>5. /\ ReviewTypes' /\ reviews'[e] = o
          /\ \A f \in Events : f # e => reviews'[f] = reviews[f]
      BY <1>1, <3>1, <3>3, <3>4, ReviewSet
    <3> QED
      BY <2>2, <3>3, <3>5
  <2> QED
    BY <1>3, <2>1, <2>2
<1>6. CountInv'
  <2>1. /\ \A s \in Sittings : Device!Seen(s)' = Device!Seen(s)
        /\ \A s \in Sittings : sessions'[s].deck = sessions[s].deck
    BY <1>2 DEF Device!Seen
  <2> QED
    BY <1>1, <1>5, <2>1, CountSame
<1>7. Device!PendingHasCard'
  BY <1>1, <1>4, <1>5, PendingStays
<1>8. LearnTypes'
  BY <1>1, <1>2, <1>4, <1>5 DEF LearnTypes, SessionTypes
<1> QED
  BY <1>4, <1>6, <1>7, <1>8 DEF LearnInv

LEMMA LearnInvariant == LearnerSpec => []LearnInv
<1>1. Device!Init => LearnInv
  <2> SUFFICES ASSUME Device!Init PROVE LearnInv
    OBVIOUS
  <2>1. /\ cards = [t \in Translations |-> Device!Bare]
        /\ reviews = [e \in Events |-> Device!Unsent]
        /\ sessions = [s \in Sittings |-> Device!NoSession]
        /\ clock = 1 /\ ahead = FALSE
    BY DEF Device!Init
  <2>2. PICK c, o, v : c = Device!Bare /\ o = Device!Unsent /\ v = Device!NoSession
    OBVIOUS
  <2>3. Scheduled(c) /\ c.last = 0
    BY <2>2 DEF Device!Bare, Scheduled
  <2>4. Entry(o) /\ o.status = "none" /\ o.translation = 0
    BY <2>2 DEF Device!Unsent, Entry
  <2>5. View(v) /\ v.status = "none" /\ v.index = 0 /\ v.at = 0 /\ v.answered = {}
    BY <2>2 DEF Device!NoSession, View
  <2>6. Sat(v)
    BY <2>5 DEF Sat
  <2>7. /\ \A t \in Translations : cards[t] = c
        /\ \A e \in Events : reviews[e] = o
        /\ \A s \in Sittings : sessions[s] = v
    BY <2>1, <2>2
  <2>8. CardTypes
    BY <2>1, <2>3, <2>7 DEF CardTypes, Scheduled
  <2>9. ReviewTypes
    BY <2>1, <2>4, <2>7 DEF ReviewTypes, Entry
  <2>10. SessionTypes
    BY <2>1, <2>6, <2>7 DEF SessionTypes, Sat, View
  <2>11. CountInv
    <3>1. ASSUME NEW t \in Translations PROVE Sent(t) = {} /\ DoneOf(t) = {}
      <4>1. t # 0
        BY DeviceAssumption
      <4>2. Sent(t) = {}
        BY <2>4, <2>7, <4>1 DEF Sent
      <4>3. \A s \in Sittings : Device!Seen(s) = {}
        BY <2>5, <2>7 DEF Device!Seen
      <4> QED
        BY <4>2, <4>3 DEF DoneOf, Done
    <3> QED
      BY <3>1, FS_EmptySet DEF CountInv
  <2>12. Device!PendingHasCard
    BY <2>4, <2>7 DEF Device!PendingHasCard
  <2>13. ClockInv
    BY <2>1, <2>3, <2>5, <2>7 DEF ClockInv
  <2> QED
    BY <2>1, <2>8, <2>9, <2>10, <2>11, <2>12, <2>13 DEF LearnInv, LearnTypes
<1>2. LearnInv /\ [Device!Next]_(Device!vars) => LearnInv'
  <2> SUFFICES ASSUME LearnInv, [Device!Next]_(Device!vars)
               PROVE  LearnInv'
    OBVIOUS
  <2>1. ASSUME NEW s \in Sittings, Device!CreateSession(s) PROVE LearnInv'
    BY <2>1, SessionBegun
  <2>2. ASSUME NEW s \in Sittings, NEW e \in Events, NEW t \in Translations, Device!Answer(s, e, t)
        PROVE  LearnInv'
    BY <2>2, AnswerGiven
  <2>3. CASE (\E e \in Events : Device!Acknowledge(e)) \/ (\E t \in Translations : Device!FeedCard(t))
    BY <2>3, SyncWrites
  <2>4. CASE UNCHANGED <<cards, reviews, sessions>> /\ UNCHANGED <<clock, ahead>>
    <3>1. LearnTypes'
      BY <2>4 DEF LearnInv, LearnTypes, CardTypes, ReviewTypes, SessionTypes
    <3>2. CountInv'
      <4>1. \A s \in Sittings : Device!Seen(s)' = Device!Seen(s)
        BY <2>4 DEF Device!Seen
      <4> QED
        BY <2>4, <4>1, CountSame DEF LearnInv
    <3>3. Device!PendingHasCard' /\ ClockInv'
      BY <2>4 DEF LearnInv, Device!PendingHasCard, ClockInv
    <3> QED
      BY <3>1, <3>2, <3>3 DEF LearnInv
  <2>5. CASE Device!Tick
    <3>1. /\ UNCHANGED <<cards, reviews, sessions>>
          /\ \/ clock' = clock + 1 /\ ahead' = ahead
             \/ clock > 1 /\ clock' = clock - 1 /\ ahead' = TRUE
      BY <2>5 DEF Device!Tick
    <3>2. clock \in Nat /\ clock' \in Nat
      BY <3>1 DEF LearnInv, LearnTypes
    <3>3. LearnTypes'
      BY <3>1, <3>2 DEF LearnInv, LearnTypes, CardTypes, ReviewTypes, SessionTypes
    <3>4. CountInv'
      <4>1. \A s \in Sittings : Device!Seen(s)' = Device!Seen(s)
        BY <3>1 DEF Device!Seen
      <4> QED
        BY <3>1, <4>1, CountSame DEF LearnInv
    <3>5. Device!PendingHasCard'
      BY <3>1 DEF LearnInv, Device!PendingHasCard
    <3>6. ClockInv'
      <4>1. CASE ahead' = TRUE
        BY <4>1 DEF ClockInv
      <4>2. CASE ~(ahead' = TRUE)
        <5>1. /\ ahead = FALSE /\ ahead' = FALSE /\ clock' = clock + 1
              /\ \A t \in Translations : cards[t].last <= clock /\ cards[t].last \in Nat
              /\ \A s \in Sittings : sessions[s].at <= clock /\ sessions[s].at \in Nat
          BY <3>1, <4>2 DEF LearnInv, LearnTypes, CardTypes, SessionTypes, Sat, ClockInv
        <5> QED
          BY <3>1, <3>2, <5>1 DEF ClockInv
      <4> QED
        BY <4>1, <4>2
    <3> QED
      BY <3>3, <3>4, <3>5, <3>6 DEF LearnInv
  <2> QED
    BY <2>1, <2>2, <2>3, <2>4, <2>5
       DEF Device!Next, Device!vars, Device!FeedRow, Device!Snapshot
<1>3. LearnerInit => Device!Init
  BY DEF LearnerInit
<1>4. [LearnerNext]_learner => [Device!Next]_(Device!vars)
  BY SceneSteps
<1>5. LearnInv /\ [LearnerNext]_learner => LearnInv'
  BY <1>2, <1>4
<1> QED
  BY <1>1, <1>3, <1>5, PTL DEF LearnerSpec
-----------------------------------------------------------------------------
(***************************************************************************)
(* A session of dual n-back at the terminal (NbackPlay).                   *)
(***************************************************************************)

\* The engine of the terminal and the web adapt in the same way.
LEMMA PlayScores ==
    /\ \A s : Play!Harder(s) = Nback!Harder(s) /\ Play!Easier(s) = Nback!Easier(s)
                                               /\ Play!Held(s) = Nback!Held(s)
    /\ \A l, i : Play!NewState(l, i) = Nback!NewState(l, i)
    /\ \A S : Play!Cardinality(S) = Cardinality(S)
<1>1. \A s : Play!Harder(s) = Nback!Harder(s)
  BY DEF Play!Harder, Nback!Harder, Play!Max, Nback!Max, Play!Min, Nback!Min
<1>2. \A s : Play!Easier(s) = Nback!Easier(s) /\ Play!Held(s) = Nback!Held(s)
  BY DEF Play!Easier, Nback!Easier, Play!Max, Nback!Max, Play!Min, Nback!Min, Play!Held, Nback!Held
<1>3. \A l, i : Play!NewState(l, i) = Nback!NewState(l, i)
  BY DEF Play!NewState, Nback!NewState, Play!Clamp, Nback!Clamp, Play!Max, Nback!Max, Play!Min,
         Nback!Min
<1>4. \A S : Play!Cardinality(S) = Cardinality(S)
  BY DEF Cardinality, Play!Cardinality
<1> QED
  BY <1>1, <1>2, <1>3, <1>4

\* A level and an interval, as trials carry them, and what some trials make of them.
At(level, interval) ==
    [level |-> level, start |-> 1, peak |-> 1, interval |-> interval, below |-> 0]
EarnedOf(level, interval, trials) == Play!Adapted(At(level, interval), trials)

\* Where the difficulty goes depends on the level and the interval it is at, and on
\* nothing else of the state.
LEMMA EarnedAlike ==
    ASSUME NEW s \in Difficulty, NEW trials
    PROVE  LET e == EarnedOf(s.level, s.interval, trials)
               a == Play!Adapted(s, trials)
           IN  a \in Difficulty /\ a.level = e.level /\ a.interval = e.interval
<1> DEFINE b == At(s.level, s.interval)
<1>1. /\ s.level \in 1..9 /\ s.start \in 1..9 /\ s.peak \in 1..9 /\ s.interval \in Pace
      /\ s.below \in Nat
  BY DEF Difficulty
<1>2. b \in Difficulty /\ b.level = s.level /\ b.interval = s.interval
  <2>1. 1 \in 1..9 /\ 0 \in Nat
    OBVIOUS
  <2> QED
    BY <1>1, <2>1 DEF At, Difficulty
<1> HIDE DEF b
<1>3. /\ Play!Harder(s).level = Play!Harder(b).level
      /\ Play!Harder(s).interval = Play!Harder(b).interval
  BY <1>1, <1>2 DEF Play!Harder, Difficulty
<1>4. /\ Play!Easier(s).level = Play!Easier(b).level
      /\ Play!Easier(s).interval = Play!Easier(b).interval
  BY <1>1, <1>2 DEF Play!Easier, Difficulty
<1>5. /\ Play!Held(s).level = s.level /\ Play!Held(s).interval = s.interval
      /\ Play!Held(b).level = b.level /\ Play!Held(b).interval = b.interval
  BY <1>1, <1>2 DEF Play!Held, Difficulty
<1>6. \/ Play!Adapted(s, trials) = s /\ Play!Adapted(b, trials) = b
      \/ Play!Adapted(s, trials) = Play!Harder(s) /\ Play!Adapted(b, trials) = Play!Harder(b)
      \/ Play!Adapted(s, trials) = Play!Easier(s) /\ Play!Adapted(b, trials) = Play!Easier(b)
      \/ Play!Adapted(s, trials) = Play!Held(s) /\ Play!Adapted(b, trials) = Play!Held(b)
  BY DEF Play!Adapted
<1>7. /\ Play!Adapted(s, trials).level = Play!Adapted(b, trials).level
      /\ Play!Adapted(s, trials).interval = Play!Adapted(b, trials).interval
  BY <1>2, <1>3, <1>4, <1>5, <1>6
<1>8. Play!Adapted(s, trials) \in Difficulty
  <2>1. Play!Harder(s) \in Difficulty /\ Play!Easier(s) \in Difficulty /\ Play!Held(s) \in Difficulty
    BY MovedWithinBounds, PlayScores
  <2> QED
    BY <1>6, <2>1
<1> QED
  BY <1>7, <1>8 DEF EarnedOf, b

Paired(S) == [{"audio", "visual"} -> S]
Shown  == [number : Nat, level : 1..9, interval : Pace, item : Paired(UNION PlayPools),
           match : Paired(BOOLEAN)]
Marked == [number : Nat, level : 1..9, interval : Pace, item : Paired(UNION PlayPools),
           match : Paired(BOOLEAN), audio : BOOLEAN, visual : BOOLEAN]

PlayTypes ==
    /\ game \in {"opening", "next", "reading", "saving", "over", "rating", "closed"}
    /\ hardness \in Difficulty
    /\ thrown \in Seq(Shown) /\ played \in Seq(Marked) /\ scored \in Seq(Marked)
    /\ tally \in Nat /\ walked \in BOOLEAN /\ stumbles \in Nat

\* A trial is shown, answered and stored in turn, and counted when it has been stored; the
\* last one may be left, or fail to be stored.
TrialInv ==
    /\ Len(thrown) = Len(played) + IF game = "reading" \/ walked THEN 1 ELSE 0
    /\ walked => game \in {"over", "rating", "closed"}
    /\ game = "opening" => Len(played) = 0
    /\ IF game = "saving" THEN Len(scored) = Len(played) - 1
       ELSE /\ Len(scored) \in {Len(played), Len(played) - 1}
            /\ game \in {"opening", "next", "reading"} \/ stumbles = 0 =>
                   Len(scored) = Len(played)
    /\ tally = Len(scored) + IF walked THEN 1 ELSE 0
    /\ \A k \in 1..Len(scored) : scored[k] = played[k]
    /\ \A k \in 1..Len(played) :
          /\ played[k].level = thrown[k].level /\ played[k].interval = thrown[k].interval
          /\ played[k].item = thrown[k].item /\ played[k].match = thrown[k].match

\* What a trial shows matches the earlier one exactly when it says so.
ShownInTurn ==
    \A k \in 1..Len(thrown), c \in {"audio", "visual"} :
        LET before == k - thrown[k].level
        IN  thrown[k].match[c] <=> before >= 1 /\ thrown[before].item[c] = thrown[k].item[c]

\* What the first trials earn, and whether nothing was learned in the last of them.
EarnedBy(k) == EarnedOf(played[k].level, played[k].interval, SubSeq(played, 1, k))
LostBy(k)   == k >= 5 /\ \A c \in {"audio", "visual"} :
                            Play!Accuracy(SubSeq(played, 1, k), c) < 40

\* A trial has the difficulty the ones before it earned, and the engine has what all of
\* them did.
EarnInv ==
    /\ \A k \in 1..Len(played) : k + 1 <= Len(thrown) =>
          /\ thrown[k + 1].level = EarnedBy(k).level
          /\ thrown[k + 1].interval = EarnedBy(k).interval
          /\ ~LostBy(k)
    /\ Len(thrown) = Len(played) /\ Len(played) > 0 =>
          /\ hardness.level = EarnedBy(Len(played)).level
          /\ hardness.interval = EarnedBy(Len(played)).interval
    /\ game = "next" /\ Len(played) > 0 => ~LostBy(Len(played))
    /\ game = "reading" =>
          /\ thrown[Len(thrown)].level = hardness.level
          /\ thrown[Len(thrown)].interval = hardness.interval

\* The session is completed before its items are rated, and nothing follows.
EndInv ==
    /\ totals.done => game \in {"rating", "closed"}
    /\ marks # {} => game = "closed"
    /\ game = "rating" => totals.done
    /\ Play!CountedAsPlayed

PlayInv == PlayTypes /\ TrialInv /\ ShownInTurn /\ EarnInv /\ EndInv

\* The first trials of two sessions that agree on them are the same.
LEMMA SameStart ==
    ASSUME NEW s \in Seq(Marked), NEW t \in Seq(Marked), NEW k \in Nat,
           k <= Len(s), k <= Len(t), \A i \in 1..k : s[i] = t[i]
    PROVE  SubSeq(s, 1, k) = SubSeq(t, 1, k)
<1>1. (\A i \in 1..k : s[i] \in Marked) /\ (\A i \in 1..k : t[i] \in Marked)
  BY ElementOfSeq
<1>2. /\ SubSeq(s, 1, k) \in Seq(Marked) /\ SubSeq(t, 1, k) \in Seq(Marked)
      /\ Len(SubSeq(s, 1, k)) = k /\ Len(SubSeq(t, 1, k)) = k
      /\ \A i \in 1..k : SubSeq(s, 1, k)[i] = s[i] /\ SubSeq(t, 1, k)[i] = t[i]
  BY <1>1, SubSeqProperties
<1> QED
  BY <1>2, SeqEqual

\* All the trials of a session are its first ones.
LEMMA WholeStart ==
    ASSUME NEW s \in Seq(Marked)
    PROVE  SubSeq(s, 1, Len(s)) = s
<1>1. \A i \in 1..Len(s) : s[i] \in Marked
  BY ElementOfSeq
<1>2. /\ SubSeq(s, 1, Len(s)) \in Seq(Marked) /\ Len(SubSeq(s, 1, Len(s))) = Len(s)
      /\ \A i \in 1..Len(s) : SubSeq(s, 1, Len(s))[i] = s[i]
  BY <1>1, SubSeqProperties
<1> QED
  BY <1>2, SeqEqual

\* The next trial is shown.
LEMMA NextTrialKeeps ==
    ASSUME PlayInv, Play!NextTrial
    PROVE  PlayInv'
<1> DEFINE n == Len(thrown) + 1
<1> DEFINE ItemOf(t) == [c \in {"audio", "visual"} |->
                            IF Play!Before >= 1 /\ t.match[c]
                            THEN thrown[Play!Before].item[c] ELSE t.item[c]]
           MatchOf(t) == [c \in {"audio", "visual"} |-> Play!Before >= 1 /\ t.match[c]]
           ShownOf(t) == [number |-> n, level |-> hardness.level, interval |-> hardness.interval,
                          item |-> ItemOf(t), match |-> MatchOf(t)]
<1>0. PICK t \in PlayThrows :
        /\ \A c \in {"audio", "visual"} : ~MatchOf(t)[c] =>
              (Play!Before >= 1 => t.item[c] # thrown[Play!Before].item[c])
        /\ thrown' = Append(thrown, ShownOf(t))
  BY DEF Play!NextTrial, Play!Channels
<1> DEFINE shown == ShownOf(t)
<1>1. /\ shown.level = hardness.level /\ shown.interval = hardness.interval /\ shown.number = n
      /\ shown.item = ItemOf(t) /\ shown.match = MatchOf(t)
      /\ shown = [number |-> n, level |-> hardness.level, interval |-> hardness.interval,
                  item |-> shown.item, match |-> shown.match]
      /\ \A c \in {"audio", "visual"} :
            /\ shown.match[c] = (Play!Before >= 1 /\ t.match[c])
            /\ shown.item[c] = IF Play!Before >= 1 /\ t.match[c]
                               THEN thrown[Play!Before].item[c] ELSE t.item[c]
            /\ ~(Play!Before >= 1 /\ t.match[c]) =>
                  (Play!Before >= 1 => t.item[c] # thrown[Play!Before].item[c])
      /\ thrown' = Append(thrown, shown)
  BY <1>0
<1> HIDE DEF shown
<1>2. /\ game = "next" /\ game' = "reading"
      /\ UNCHANGED <<pooled, played, hardness, keyed, tally, walked, scored, totals, marks, stumbles>>
  BY DEF Play!NextTrial, Play!To
<1>3. /\ PlayTypes /\ TrialInv /\ ShownInTurn /\ EarnInv /\ EndInv
      /\ Len(thrown) \in Nat /\ n \in Nat /\ n >= 1 /\ Len(played) \in Nat
      /\ hardness.level \in 1..9 /\ hardness.interval \in Pace
      /\ ~walked /\ Len(thrown) = Len(played)
  <2>1. PlayTypes /\ TrialInv /\ ShownInTurn /\ EarnInv /\ EndInv
    BY DEF PlayInv
  <2>2. Len(thrown) \in Nat /\ Len(played) \in Nat
    BY <2>1, LenProperties DEF PlayTypes
  <2>3. hardness.level \in 1..9 /\ hardness.interval \in Pace
    BY <2>1 DEF PlayTypes, Difficulty
  <2> QED
    BY <1>2, <2>1, <2>2, <2>3 DEF TrialInv
<1>4. t.match \in Paired(BOOLEAN) /\ t.item \in Paired(UNION PlayPools)
  BY PlayAssumption DEF Paired
<1>5. Play!Before = n - hardness.level
  BY <1>3 DEF Play!Before
<1>6. Play!Before >= 1 => /\ Play!Before \in 1..Len(thrown)
                          /\ thrown[Play!Before] \in Shown
  <2>1. Play!Before >= 1 => Play!Before \in 1..Len(thrown)
    BY <1>3, <1>5
  <2> QED
    BY <1>3, <2>1, ElementOfSeq DEF PlayTypes
<1>7. shown \in Shown
  <2>1. \A c \in {"audio", "visual"} : Play!Before >= 1 =>
            thrown[Play!Before].item[c] \in UNION PlayPools
    BY <1>6 DEF Shown, Paired
  <2>2. ItemOf(t) \in Paired(UNION PlayPools)
    BY <1>4, <2>1 DEF Paired
  <2>3. MatchOf(t) \in Paired(BOOLEAN)
    BY <1>4 DEF Paired
  <2> QED
    BY <1>1, <1>3, <2>2, <2>3 DEF Shown
<1>8. /\ thrown' \in Seq(Shown) /\ Len(thrown') = n /\ thrown'[n] = shown
      /\ \A k \in 1..Len(thrown) : thrown'[k] = thrown[k]
  BY <1>1, <1>3, <1>7, AppendProperties DEF PlayTypes
<1>9. /\ shown.level = hardness.level /\ shown.interval = hardness.interval
      /\ \A c \in {"audio", "visual"} :
            shown.match[c] <=> Play!Before >= 1 /\ thrown[Play!Before].item[c] = shown.item[c]
  <2> SUFFICES ASSUME NEW c \in {"audio", "visual"}
               PROVE  shown.match[c] <=> Play!Before >= 1
                                         /\ thrown[Play!Before].item[c] = shown.item[c]
    BY <1>1
  <2>1. CASE Play!Before >= 1 /\ t.match[c]
    BY <1>1, <2>1
  <2>2. CASE ~(Play!Before >= 1 /\ t.match[c])
    BY <1>1, <2>2
  <2> QED
    BY <2>1, <2>2
<1> HIDE DEF n
<1>10. PlayTypes'
  BY <1>2, <1>3, <1>8 DEF PlayTypes
<1>11. TrialInv'
  <2>1. Len(thrown') = Len(played') + 1
    BY <1>2, <1>3, <1>8 DEF n
  <2>2. \A k \in 1..Len(played) : thrown'[k] = thrown[k]
    BY <1>3, <1>8
  <2> QED
    BY <1>2, <1>3, <2>1, <2>2 DEF TrialInv
<1>12. ShownInTurn'
  <2> SUFFICES ASSUME NEW k \in 1..n, NEW c \in {"audio", "visual"}
               PROVE  thrown'[k].match[c] <=>
                          /\ k - thrown'[k].level >= 1
                          /\ thrown'[k - thrown'[k].level].item[c] = thrown'[k].item[c]
    BY <1>8 DEF ShownInTurn
  <2>1. CASE k = n
    <3>1. thrown'[k] = shown /\ k - shown.level = Play!Before
      BY <1>5, <1>8, <1>9, <2>1
    <3>2. Play!Before >= 1 => thrown'[Play!Before] = thrown[Play!Before]
      BY <1>6, <1>8
    <3> QED
      BY <1>9, <3>1, <3>2
  <2>2. CASE k # n
    <3>1. k \in 1..Len(thrown)
      BY <1>3, <2>2 DEF n
    <3>2. thrown'[k] = thrown[k] /\ thrown[k].level \in 1..9
      <4>1. thrown[k] \in Shown
        BY <1>3, <3>1, ElementOfSeq DEF PlayTypes
      <4> QED
        BY <1>8, <3>1, <4>1 DEF Shown
    <3>3. k - thrown[k].level >= 1 => thrown'[k - thrown[k].level] = thrown[k - thrown[k].level]
      BY <1>3, <1>8, <3>1, <3>2
    <3>4. thrown[k].match[c] <=> /\ k - thrown[k].level >= 1
                                 /\ thrown[k - thrown[k].level].item[c] = thrown[k].item[c]
      BY <1>3, <3>1 DEF ShownInTurn
    <3> QED
      BY <3>2, <3>3, <3>4
  <2> QED
    BY <2>1, <2>2
<1>13. EarnInv'
  <2>1. \A k : EarnedBy(k)' = EarnedBy(k) /\ LostBy(k)' = LostBy(k)
    BY <1>2 DEF EarnedBy, LostBy
  <2>2. ASSUME NEW k \in 1..Len(played), k + 1 <= n
        PROVE  /\ thrown'[k + 1].level = EarnedBy(k).level
               /\ thrown'[k + 1].interval = EarnedBy(k).interval
               /\ ~LostBy(k)
    <3>1. CASE k = Len(played)
      <4>1. k + 1 = n
        BY <1>3, <3>1 DEF n
      <4>2. thrown'[k + 1] = shown /\ Len(played) > 0
        BY <1>3, <1>8, <2>2, <4>1
      <4> QED
        BY <1>2, <1>3, <1>9, <3>1, <4>2 DEF EarnInv
    <3>2. CASE k # Len(played)
      <4>1. k + 1 \in 1..Len(thrown)
        BY <1>3, <3>2
      <4>2. thrown'[k + 1] = thrown[k + 1] /\ k + 1 <= Len(thrown)
        BY <1>8, <4>1
      <4> QED
        BY <1>3, <4>2 DEF EarnInv
    <3> QED
      BY <3>1, <3>2
  <2>3. /\ thrown'[Len(thrown')].level = hardness'.level
        /\ thrown'[Len(thrown')].interval = hardness'.interval
    BY <1>2, <1>8, <1>9
  <2>4. Len(thrown') # Len(played')
    BY <1>2, <1>3, <1>8 DEF n
  <2> QED
    BY <1>2, <1>8, <2>1, <2>2, <2>3, <2>4 DEF EarnInv
<1>14. EndInv'
  BY <1>2, <1>3 DEF EndInv, Play!CountedAsPlayed, Play!Share, Play!Channels, Play!Cardinality
<1> QED
  BY <1>10, <1>11, <1>12, <1>13, <1>14 DEF PlayInv

\* An answer is taken, and the difficulty follows.
LEMMA SubmitKeeps ==
    ASSUME PlayInv, Play!Submit
    PROVE  PlayInv'
<1> DEFINE n == Len(played) + 1
           judged == Play!Judged(thrown[n], keyed)
<1>1. /\ game = "reading" /\ game' = "saving" /\ played' = Append(played, judged)
      /\ hardness' = Play!Adapted(hardness, played')
      /\ UNCHANGED <<pooled, thrown, tally, walked, scored, totals, marks, stumbles>>
  BY DEF Play!Submit, Play!To
<1>2. /\ PlayTypes /\ TrialInv /\ ShownInTurn /\ EarnInv /\ EndInv
      /\ Len(played) \in Nat /\ n \in 1..n /\ n \in Nat
      /\ ~walked /\ Len(thrown) = n /\ Len(scored) = Len(played)
  <2>1. PlayTypes /\ TrialInv /\ ShownInTurn /\ EarnInv /\ EndInv
    BY DEF PlayInv
  <2>2. Len(played) \in Nat
    BY <2>1, LenProperties DEF PlayTypes
  <2> QED
    BY <1>1, <2>1, <2>2 DEF TrialInv
<1>3. thrown[n] \in Shown
  BY <1>2, ElementOfSeq DEF PlayTypes
<1>4. /\ judged \in Marked /\ judged.level = thrown[n].level /\ judged.interval = thrown[n].interval
      /\ judged.item = thrown[n].item /\ judged.match = thrown[n].match
  BY <1>3 DEF Play!Judged, Shown, Marked
<1> HIDE DEF judged
<1>5. /\ played' \in Seq(Marked) /\ Len(played') = n /\ played'[n] = judged
      /\ \A k \in 1..Len(played) : played'[k] = played[k]
  BY <1>1, <1>2, <1>4, AppendProperties DEF PlayTypes
<1>6. /\ hardness' \in Difficulty
      /\ hardness'.level = EarnedOf(hardness.level, hardness.interval, played').level
      /\ hardness'.interval = EarnedOf(hardness.level, hardness.interval, played').interval
  BY <1>1, <1>2, EarnedAlike DEF PlayTypes
<1>7. PlayTypes'
  BY <1>1, <1>2, <1>5, <1>6 DEF PlayTypes
<1>8. TrialInv'
  <2>1. \A k \in 1..n :
          /\ played'[k].level = thrown[k].level /\ played'[k].interval = thrown[k].interval
          /\ played'[k].item = thrown[k].item /\ played'[k].match = thrown[k].match
    <3> SUFFICES ASSUME NEW k \in 1..n
                 PROVE  /\ played'[k].level = thrown[k].level
                        /\ played'[k].interval = thrown[k].interval
                        /\ played'[k].item = thrown[k].item
                        /\ played'[k].match = thrown[k].match
      OBVIOUS
    <3>1. k = n \/ k \in 1..Len(played)
      BY <1>2
    <3> QED
      BY <1>2, <1>4, <1>5, <3>1 DEF TrialInv
  <2>2. \A k \in 1..Len(scored) : scored[k] = played'[k]
    BY <1>2, <1>5 DEF TrialInv
  <2>3. Len(thrown) = Len(played') /\ Len(scored) = Len(played') - 1
    BY <1>2, <1>5
  <2> QED
    BY <1>1, <1>2, <1>5, <2>1, <2>2, <2>3 DEF TrialInv
<1>9. ShownInTurn'
  BY <1>1, <1>2 DEF ShownInTurn
<1>10. EarnInv'
  <2>1. ASSUME NEW k \in 1..Len(played)
        PROVE  EarnedBy(k)' = EarnedBy(k) /\ LostBy(k)' = LostBy(k)
    <3>1. SubSeq(played', 1, k) = SubSeq(played, 1, k)
      <4>1. /\ k \in Nat /\ k <= Len(played) /\ k <= Len(played')
            /\ \A i \in 1..k : played'[i] = played[i]
        BY <1>2, <1>5, <2>1
      <4> QED
        BY <1>2, <1>5, <4>1, SameStart DEF PlayTypes
    <3>2. played'[k] = played[k]
      BY <1>5, <2>1
    <3> QED
      BY <3>1, <3>2 DEF EarnedBy, LostBy
  <2>2. \A k \in 1..n : k + 1 <= Len(thrown) => k \in 1..Len(played)
    BY <1>2
  <2>3. \A k \in 1..n : k + 1 <= Len(thrown') =>
          /\ thrown'[k + 1].level = EarnedBy(k)'.level
          /\ thrown'[k + 1].interval = EarnedBy(k)'.interval
          /\ ~LostBy(k)'
    BY <1>1, <1>2, <2>1, <2>2 DEF EarnInv
  <2>4. hardness.level = thrown[n].level /\ hardness.interval = thrown[n].interval
    BY <1>1, <1>2 DEF EarnInv
  <2>5. \A m : m = n => EarnedBy(m)' = EarnedOf(hardness.level, hardness.interval, played')
    <3>1. SubSeq(played', 1, n) = played'
      BY <1>5, WholeStart
    <3>2. played'[n].level = hardness.level /\ played'[n].interval = hardness.interval
      BY <1>4, <1>5, <2>4
    <3> QED
      BY <3>1, <3>2 DEF EarnedBy
  <2>6. EarnedBy(Len(played))' = EarnedOf(hardness.level, hardness.interval, played')
    BY <1>5, <2>5
  <2>7. hardness'.level = EarnedBy(Len(played))'.level
        /\ hardness'.interval = EarnedBy(Len(played))'.interval
    BY <1>6, <2>6
  <2> HIDE DEF n
  <2> QED
    BY <1>1, <1>5, <2>3, <2>7 DEF EarnInv
<1>11. EndInv'
  <2>1. ~totals.done /\ marks = {}
    BY <1>1, <1>2 DEF EndInv
  <2> QED
    BY <1>1, <2>1 DEF EndInv, Play!CountedAsPlayed
<1> QED
  BY <1>7, <1>8, <1>9, <1>10, <1>11 DEF PlayInv

\* A trial is stored and counted, or is not and the session is over.
LEMMA SaveTrialKeeps ==
    ASSUME PlayInv, Play!SaveTrial
    PROVE  PlayInv'
<1> DEFINE n == Len(played)
<1>1. /\ game = "saving" /\ UNCHANGED <<pooled, thrown, played, hardness, keyed, walked, totals, marks>>
      /\ PlayTypes /\ TrialInv /\ ShownInTurn /\ EarnInv /\ EndInv
  BY DEF Play!SaveTrial, PlayInv
<1>2. /\ n \in Nat /\ n >= 1 /\ n \in 1..n /\ Len(scored) = n - 1 /\ ~walked /\ Len(thrown) = n
      /\ tally = n - 1 /\ \A k \in 1..(n - 1) : scored[k] = played[k]
  <2>1. n \in Nat /\ Len(scored) \in Nat
    BY <1>1, LenProperties DEF PlayTypes
  <2>2. /\ Len(scored) = n - 1 /\ ~walked /\ Len(thrown) = n + 0 /\ tally = Len(scored) + 0
        /\ \A k \in 1..Len(scored) : scored[k] = played[k]
    BY <1>1 DEF TrialInv
  <2> QED
    BY <2>1, <2>2
<1>3. ~totals.done /\ marks = {}
  BY <1>1 DEF EndInv
<1>4. ShownInTurn'
  BY <1>1 DEF ShownInTurn
<1>5. \A k : EarnedBy(k)' = EarnedBy(k) /\ LostBy(k)' = LostBy(k)
  BY <1>1 DEF EarnedBy, LostBy
<1>6. CASE game' \in {"next", "over"} /\ scored' = Append(scored, played[n]) /\ tally' = tally + 1
           /\ stumbles' = stumbles
           /\ (game' = "next" => ~Play!Terminates(hardness, played))
  <2>1. played[n] \in Marked
    BY <1>1, <1>2, ElementOfSeq DEF PlayTypes
  <2>2. /\ scored' \in Seq(Marked) /\ Len(scored') = n /\ \A k \in 1..n : scored'[k] = played[k]
    <3>1. /\ scored' \in Seq(Marked) /\ Len(scored') = (n - 1) + 1
          /\ scored'[(n - 1) + 1] = played[n]
          /\ \A k \in 1..(n - 1) : scored'[k] = scored[k]
      BY <1>1, <1>2, <1>6, <2>1, AppendProperties DEF PlayTypes
    <3>2. (n - 1) + 1 = n /\ \A k \in 1..n : k = n \/ k \in 1..(n - 1)
      BY <1>2
    <3> QED
      BY <1>2, <3>1, <3>2
  <2>3. PlayTypes'
    BY <1>1, <1>6, <2>2 DEF PlayTypes
  <2>4. TrialInv'
    BY <1>1, <1>2, <1>6, <2>2 DEF TrialInv
  <2>5. game' = "next" => ~LostBy(n)
    <3> SUFFICES ASSUME LostBy(n)
                 PROVE  Play!Terminates(hardness, played)
      BY <1>6
    <3>1. SubSeq(played, 1, n) = played /\ DOMAIN played = 1..n
      BY <1>1, WholeStart, LenProperties DEF PlayTypes
    <3>2. Play!Cardinality(DOMAIN played) = n
      <4>1. 1 \in Int /\ n \in Int /\ ~(1 > n) /\ n - 1 + 1 = n
        BY <1>2
      <4>2. Cardinality(1..n) = IF 1 > n THEN 0 ELSE n - 1 + 1
        BY <4>1, FS_Interval
      <4> QED
        BY <3>1, <4>1, <4>2, PlayScores
    <3>3. n >= 5 /\ \A c \in {"audio", "visual"} : Play!Accuracy(played, c) < 40
      BY <3>1 DEF LostBy
    <3> QED
      BY <3>2, <3>3 DEF Play!Terminates, Play!Window, Play!Channels
  <2>6. EarnInv'
    BY <1>1, <1>2, <1>5, <1>6, <2>5 DEF EarnInv
  <2>7. EndInv'
    BY <1>1, <1>3, <1>6 DEF EndInv, Play!CountedAsPlayed
  <2> QED
    BY <1>4, <2>3, <2>4, <2>6, <2>7 DEF PlayInv
<1>7. CASE game' = "over" /\ stumbles' = stumbles + 1 /\ UNCHANGED <<scored, tally>>
  <2>1. stumbles' \in Nat /\ stumbles' # 0
    BY <1>1, <1>7 DEF PlayTypes
  <2>2. PlayTypes'
    BY <1>1, <1>7, <2>1 DEF PlayTypes
  <2>3. TrialInv'
    BY <1>1, <1>2, <1>7, <2>1 DEF TrialInv
  <2>4. EarnInv'
    BY <1>1, <1>5, <1>7 DEF EarnInv
  <2>5. EndInv'
    BY <1>1, <1>3, <1>7 DEF EndInv, Play!CountedAsPlayed
  <2> QED
    BY <1>4, <2>2, <2>3, <2>4, <2>5 DEF PlayInv
<1> QED
  BY <1>6, <1>7 DEF Play!SaveTrial, Play!To, Play!Fails, Play!Last

\* An item that is rated was shown in an answered trial.
LEMMA RatedShown ==
    ASSUME NEW i, Play!Times(i, TRUE) # Play!Times(i, FALSE)
    PROVE  \E n \in DOMAIN played, c \in {"audio", "visual"} : played[n].item[c] = i
<1> SUFFICES ASSUME \A n \in DOMAIN played, c \in {"audio", "visual"} : played[n].item[c] # i
             PROVE  FALSE
  OBVIOUS
<1>1. \A ok \in BOOLEAN :
        /\ {n \in DOMAIN played : played[n].item["audio"] = i /\ played[n].audio = ok} = {}
        /\ {n \in DOMAIN played : played[n].item["visual"] = i /\ played[n].visual = ok} = {}
  OBVIOUS
<1>2. \A ok \in BOOLEAN :
        Play!Times(i, ok) = Play!Cardinality({}) + Play!Cardinality({})
  BY <1>1 DEF Play!Times
<1> QED
  BY <1>2

\* The session is completed, or is not.
LEMMA CompleteSessionKeeps ==
    ASSUME PlayInv, Play!Complete
    PROVE  PlayInv'
<1>1. /\ game = "over" /\ game' \in {"rating", "closed"}
      /\ UNCHANGED <<pooled, thrown, played, hardness, keyed, tally, walked, scored, marks>>
      /\ PlayTypes /\ TrialInv /\ ShownInTurn /\ EarnInv /\ EndInv
      /\ stumbles' \in Nat /\ (stumbles' = 0 => stumbles = 0)
      /\ game' = "rating" => totals'.done
      /\ \/ UNCHANGED totals
         \/ totals' = [done |-> TRUE, count |-> tally, level |-> hardness.level,
                       interval |-> hardness.interval,
                       accuracy |-> [c \in {"audio", "visual"} |-> Play!Share(played, c)]]
  BY DEF Play!Complete, Play!To, Play!Fails, Play!Channels, PlayInv, PlayTypes
<1>2. ~totals.done /\ marks = {}
  BY <1>1 DEF EndInv
<1>3. PlayTypes'
  BY <1>1 DEF PlayTypes
<1>4. TrialInv'
  BY <1>1 DEF TrialInv
<1>5. ShownInTurn'
  BY <1>1 DEF ShownInTurn
<1>6. EarnInv'
  BY <1>1 DEF EarnInv, EarnedBy, LostBy
<1>7. EndInv'
  <2>1. Len(scored) \in {Len(played), Len(played) - 1} /\ tally = Len(scored) + IF walked THEN 1 ELSE 0
    BY <1>1 DEF TrialInv
  <2>2. stumbles = 0 => scored = played
    BY <1>1, SeqEqual DEF TrialInv, PlayTypes
  <2>3. totals'.done =>
          /\ totals'.count = tally
          /\ \A c \in {"audio", "visual"} : totals'.accuracy[c] = Play!Share(played, c)
    BY <1>1, <1>2
  <2>4. \A c : Play!Share(scored, c)' = Play!Share(scored, c)
    BY <1>1 DEF Play!Share
  <2>5. Play!CountedAsPlayed'
    BY <1>1, <1>2, <2>1, <2>2, <2>3, <2>4 DEF Play!CountedAsPlayed, Play!Channels
  <2> QED
    BY <1>1, <1>2, <2>5 DEF EndInv
<1> QED
  BY <1>3, <1>4, <1>5, <1>6, <1>7 DEF PlayInv

\* How often an item was right or wrong is a number.
LEMMA TimesNat ==
    ASSUME PlayTypes
    PROVE  \A i, ok : Play!Times(i, ok) \in Nat
<1>1. DOMAIN played = 1..Len(played) /\ Len(played) \in Nat
  BY LenProperties DEF PlayTypes
<1>2. IsFiniteSet(DOMAIN played)
  BY <1>1, FS_Interval
<1>3. \A S \in SUBSET DOMAIN played : Play!Cardinality(S) \in Nat
  BY <1>2, FS_Subset, FS_CardinalityType, PlayScores
<1> TAKE i, ok
<1> DEFINE OfAudio  == {n \in DOMAIN played : played[n].item["audio"] = i /\ played[n].audio = ok}
           OfVisual == {n \in DOMAIN played : played[n].item["visual"] = i /\ played[n].visual = ok}
<1>4. Play!Cardinality(OfAudio) \in Nat /\ Play!Cardinality(OfVisual) \in Nat
  BY <1>3
<1>5. Play!Times(i, ok) = Play!Cardinality(OfAudio) + Play!Cardinality(OfVisual)
  BY DEF Play!Times
<1> HIDE DEF OfAudio, OfVisual
<1> QED
  BY <1>4, <1>5

\* The items of the vocabulary are rated, or are not.
LEMMA RateKeeps ==
    ASSUME PlayInv, Play!Rate
    PROVE  PlayInv'
<1>1. /\ game = "rating" /\ game' = "closed"
      /\ UNCHANGED <<pooled, thrown, played, hardness, keyed, tally, walked, scored, totals>>
      /\ PlayTypes /\ TrialInv /\ ShownInTurn /\ EarnInv /\ EndInv
      /\ stumbles' \in Nat /\ (stumbles' = 0 => stumbles = 0)
  <2>1. stumbles' = stumbles \/ stumbles' = stumbles + 1
    BY Zenon DEF Play!Rate, Play!Fails
  <2>2. PlayTypes /\ TrialInv /\ ShownInTurn /\ EarnInv /\ EndInv /\ stumbles \in Nat
    BY DEF PlayInv, PlayTypes
  <2>3. /\ game = "rating" /\ game' = "closed"
        /\ UNCHANGED <<pooled, thrown, played, hardness, keyed, tally, walked, scored, totals>>
    BY Zenon DEF Play!Rate, Play!To
  <2> QED
    BY <2>1, <2>2, <2>3
<1>2. \A r \in marks' : \E n \in DOMAIN played, c \in {"audio", "visual"} : played[n].item[c] = r.item
  <2>1. CASE UNCHANGED marks
    <3>1. marks = {}
      BY <1>1 DEF EndInv
    <3> QED
      BY <2>1, <3>1
  <2>2. CASE marks' = {[item |-> i, rating |-> "good"] :
                          i \in {j \in pooled : Play!Times(j, TRUE) > Play!Times(j, FALSE)}}
                 \cup {[item |-> i, rating |-> "again"] :
                          i \in {j \in pooled : Play!Times(j, TRUE) < Play!Times(j, FALSE)}}
    <3> SUFFICES ASSUME NEW r \in marks'
                 PROVE  \E n \in DOMAIN played, c \in {"audio", "visual"} :
                            played[n].item[c] = r.item
      OBVIOUS
    <3>1. \/ Play!Times(r.item, TRUE) > Play!Times(r.item, FALSE)
          \/ Play!Times(r.item, TRUE) < Play!Times(r.item, FALSE)
      <4>1. PICK i \in pooled :
              /\ r = [item |-> i, rating |-> "good"] \/ r = [item |-> i, rating |-> "again"]
              /\ \/ Play!Times(i, TRUE) > Play!Times(i, FALSE)
                 \/ Play!Times(i, TRUE) < Play!Times(i, FALSE)
        BY <2>2, Zenon
      <4>2. r.item = i
        BY <4>1
      <4> QED
        BY <4>1, <4>2
    <3>2. \A x, y \in Nat : x > y \/ x < y => x # y
      OBVIOUS
    <3>3. Play!Times(r.item, TRUE) \in Nat /\ Play!Times(r.item, FALSE) \in Nat
      BY <1>1, TimesNat
    <3> QED
      BY <3>1, <3>2, <3>3, RatedShown
  <2> QED
    BY <2>1, <2>2 DEF Play!Rate
<1>3. PlayTypes'
  BY <1>1 DEF PlayTypes
<1>4. TrialInv'
  BY <1>1 DEF TrialInv
<1>5. ShownInTurn'
  BY <1>1 DEF ShownInTurn
<1>6. EarnInv'
  BY <1>1 DEF EarnInv, EarnedBy, LostBy
<1>7. EndInv'
  <2>1. \A c : Play!Share(scored, c)' = Play!Share(scored, c)
    BY <1>1 DEF Play!Share
  <2>2. Play!CountedAsPlayed /\ totals.done
    BY <1>1 DEF EndInv
  <2>3. Play!CountedAsPlayed'
    BY <1>1, <1>2, <2>1, <2>2 DEF Play!CountedAsPlayed, Play!Channels
  <2> QED
    BY <1>1, <2>3 DEF EndInv
<1> QED
  BY <1>3, <1>4, <1>5, <1>6, <1>7 DEF PlayInv

\* The other steps show, answer and store nothing.
LEMMA OtherKeeps ==
    ASSUME PlayInv, Play!Open \/ (\E c \in PlayKeys : Play!Key(c)) \/ Play!Quit \/ UNCHANGED Play!vars
    PROVE  PlayInv'
<1>1. PlayTypes /\ TrialInv /\ ShownInTurn /\ EarnInv /\ EndInv
  BY DEF PlayInv
<1>2. CASE Play!Open
  <2>1. /\ game = "opening" /\ game' \in {"next", "closed"} /\ stumbles' \in Nat
        /\ (stumbles' = 0 => stumbles = 0)
        /\ UNCHANGED <<thrown, played, hardness, keyed, tally, walked, scored, totals, marks>>
    BY <1>1, <1>2 DEF Play!Open, Play!To, Play!Fails, PlayTypes
  <2>2. ~totals.done /\ marks = {} /\ Len(scored) = Len(played) /\ Len(played) = 0
    BY <1>1, <2>1 DEF EndInv, TrialInv
  <2>3. PlayTypes' /\ TrialInv' /\ ShownInTurn'
    BY <1>1, <2>1, <2>2 DEF PlayTypes, TrialInv, ShownInTurn
  <2>4. EarnInv'
    BY <1>1, <2>1, <2>2 DEF EarnInv, EarnedBy, LostBy
  <2> QED
    BY <2>1, <2>2, <2>3, <2>4 DEF PlayInv, EndInv, Play!CountedAsPlayed
<1>3. CASE \/ \E c \in PlayKeys : Play!Key(c)
           \/ UNCHANGED Play!vars
  <2>1. UNCHANGED <<game, thrown, played, hardness, tally, walked, scored, totals, marks, stumbles>>
    BY <1>3 DEF Play!Key, Play!vars
  <2>2. PlayTypes' /\ TrialInv' /\ ShownInTurn'
    BY <1>1, <2>1 DEF PlayTypes, TrialInv, ShownInTurn
  <2>3. EarnInv'
    BY <1>1, <2>1 DEF EarnInv, EarnedBy, LostBy
  <2>4. \A c : Play!Share(scored, c)' = Play!Share(scored, c)
    BY <2>1 DEF Play!Share
  <2>5. EndInv'
    BY <1>1, <2>1, <2>4 DEF EndInv, Play!CountedAsPlayed
  <2> QED
    BY <2>2, <2>3, <2>5 DEF PlayInv
<1>4. CASE Play!Quit
  <2>1. /\ game = "reading" /\ game' = "over" /\ tally' = tally + 1 /\ walked' = TRUE
        /\ UNCHANGED <<thrown, played, hardness, scored, totals, marks, stumbles>>
    BY <1>4 DEF Play!Quit, Play!To
  <2>2. ~totals.done /\ marks = {} /\ ~walked
    BY <1>1, <2>1 DEF EndInv, TrialInv
  <2>3. PlayTypes' /\ ShownInTurn'
    BY <1>1, <2>1 DEF PlayTypes, ShownInTurn
  <2>4. TrialInv'
    <3>1. Len(scored) \in Nat
      BY <1>1, LenProperties DEF PlayTypes
    <3> QED
      BY <1>1, <2>1, <2>2, <3>1 DEF TrialInv
  <2>5. EarnInv'
    BY <1>1, <2>1 DEF EarnInv, EarnedBy, LostBy
  <2> QED
    BY <2>1, <2>2, <2>3, <2>4, <2>5 DEF PlayInv, EndInv, Play!CountedAsPlayed
<1> QED
  BY <1>2, <1>3, <1>4

LEMMA PlayInvariant == LearnerSpec => []PlayInv
<1>1. LearnerInit => PlayInv
  <2> SUFFICES ASSUME LearnerInit
               PROVE  PlayInv
    OBVIOUS
  <2>1. /\ game = "opening" /\ thrown = <<>> /\ played = <<>> /\ scored = <<>>
        /\ tally = 0 /\ walked = FALSE /\ totals = Play!Unfinished /\ marks = {} /\ stumbles = 0
    BY DEF LearnerInit, Play!Init
  <2>2. hardness \in Difficulty
    <3>1. \A l \in PlayLevels : Play!NewState(l, Interval) \in Difficulty
      BY NewWithinBounds, NbackAssumption, PlayAssumption, PlayScores
    <3> QED
      BY <3>1 DEF LearnerInit, Play!Init
  <2>3. \A S : <<>> \in Seq(S) /\ Len(<<>>) = 0
    BY EmptySeq
  <2>4. PlayTypes
    BY <2>1, <2>2, <2>3 DEF PlayTypes
  <2>5. TrialInv /\ ShownInTurn
    BY <2>1, <2>3 DEF TrialInv, ShownInTurn
  <2>6. EarnInv
    BY <2>1, <2>3 DEF EarnInv
  <2>7. EndInv
    BY <2>1 DEF EndInv, Play!CountedAsPlayed, Play!Unfinished
  <2> QED
    BY <2>4, <2>5, <2>6, <2>7 DEF PlayInv
<1>2. PlayInv /\ [Play!Next]_(Play!vars) => PlayInv'
  BY NextTrialKeeps, SubmitKeeps, SaveTrialKeeps, CompleteSessionKeeps, RateKeeps, OtherKeeps
     DEF Play!Next
<1> QED
  BY <1>1, <1>2, SceneSteps, PTL DEF LearnerSpec

\* The stored trials of a session tell what they match and earn what follows them.
LEMMA PlayPromises ==
    ASSUME PlayInv
    PROVE  Play!MatchesTold /\ Play!EarnedByRows /\ Play!CountedAsPlayed
<1>1. PlayTypes /\ TrialInv /\ ShownInTurn /\ EarnInv /\ EndInv
  BY DEF PlayInv
<1>2. /\ Len(scored) \in Nat /\ Len(played) \in Nat /\ Len(thrown) \in Nat
      /\ DOMAIN scored = 1..Len(scored)
  BY <1>1, LenProperties DEF PlayTypes
<1>3. Len(scored) <= Len(played) /\ Len(played) <= Len(thrown)
  <2>1. Len(scored) \in {Len(played), Len(played) - 1}
    BY <1>1 DEF TrialInv
  <2>2. Len(thrown) = Len(played) + 0 \/ Len(thrown) = Len(played) + 1
    BY <1>1 DEF TrialInv
  <2> QED
    BY <1>2, <2>1, <2>2
<1>4. \A k \in 1..Len(scored) :
        /\ scored[k] = played[k] /\ scored[k].level = thrown[k].level
        /\ scored[k].interval = thrown[k].interval
        /\ scored[k].item = thrown[k].item /\ scored[k].match = thrown[k].match
        /\ k \in 1..Len(played) /\ k \in 1..Len(thrown) /\ scored[k].level \in 1..9
  <2> SUFFICES ASSUME NEW k \in 1..Len(scored)
               PROVE  /\ scored[k] = played[k] /\ scored[k].level = thrown[k].level
                      /\ scored[k].interval = thrown[k].interval
                      /\ scored[k].item = thrown[k].item /\ scored[k].match = thrown[k].match
                      /\ k \in 1..Len(played) /\ k \in 1..Len(thrown) /\ scored[k].level \in 1..9
    OBVIOUS
  <2>1. k \in 1..Len(played) /\ k \in 1..Len(thrown)
    BY <1>2, <1>3
  <2>2. scored[k] \in Marked
    BY <1>1, ElementOfSeq DEF PlayTypes
  <2> QED
    BY <1>1, <2>1, <2>2 DEF TrialInv, Marked
<1>5. Play!MatchesTold
  <2> SUFFICES ASSUME NEW k \in 1..Len(scored), NEW c \in {"audio", "visual"}
               PROVE  scored[k].match[c] <=>
                          /\ k - scored[k].level >= 1
                          /\ scored[k - scored[k].level].item[c] = scored[k].item[c]
    BY <1>2 DEF Play!MatchesTold, Play!Channels
  <2>1. k - scored[k].level >= 1 => k - scored[k].level \in 1..Len(scored)
    BY <1>2, <1>4
  <2>2. thrown[k].match[c] <=> /\ k - thrown[k].level >= 1
                               /\ thrown[k - thrown[k].level].item[c] = thrown[k].item[c]
    BY <1>1, <1>4 DEF ShownInTurn
  <2> QED
    BY <1>4, <2>1, <2>2
<1>6. Play!EarnedByRows
  <2> SUFFICES ASSUME NEW k \in 1..Len(scored), k + 1 \in 1..Len(scored)
               PROVE  LET before == SubSeq(scored, 1, k)
                          then == Play!Adapted([hardness EXCEPT !.level = scored[k].level,
                                                                !.interval = scored[k].interval],
                                               before)
                      IN  /\ scored[k + 1].level = then.level
                          /\ scored[k + 1].interval = then.interval
                          /\ ~(k >= 5 /\ \A c \in {"audio", "visual"} :
                                            Play!Accuracy(before, c) < 40)
    BY <1>2 DEF Play!EarnedByRows, Play!Window, Play!Channels
  <2> DEFINE base == [hardness EXCEPT !.level = scored[k].level, !.interval = scored[k].interval]
  <2>1. SubSeq(scored, 1, k) = SubSeq(played, 1, k)
    <3>1. k \in Nat /\ k <= Len(scored) /\ k <= Len(played)
          /\ \A i \in 1..k : i \in 1..Len(scored)
      BY <1>2, <1>3
    <3> QED
      BY <1>1, <1>4, <3>1, SameStart DEF PlayTypes
  <2>2. base \in Difficulty /\ base.level = scored[k].level /\ base.interval = scored[k].interval
    <3>1. scored[k] \in Marked
      BY <1>1, ElementOfSeq DEF PlayTypes
    <3> QED
      BY <1>1, <3>1 DEF PlayTypes, Difficulty, Marked
  <2> HIDE DEF base
  <2>3. /\ Play!Adapted(base, SubSeq(scored, 1, k)).level = EarnedBy(k).level
        /\ Play!Adapted(base, SubSeq(scored, 1, k)).interval = EarnedBy(k).interval
    <3>1. /\ Play!Adapted(base, SubSeq(scored, 1, k)).level
                = EarnedOf(base.level, base.interval, SubSeq(scored, 1, k)).level
          /\ Play!Adapted(base, SubSeq(scored, 1, k)).interval
                = EarnedOf(base.level, base.interval, SubSeq(scored, 1, k)).interval
      BY <2>2, EarnedAlike
    <3>2. EarnedOf(base.level, base.interval, SubSeq(scored, 1, k)) = EarnedBy(k)
      BY <1>4, <2>1, <2>2 DEF EarnedBy
    <3> QED
      BY <3>1, <3>2
  <2>4. /\ thrown[k + 1].level = EarnedBy(k).level /\ thrown[k + 1].interval = EarnedBy(k).interval
        /\ ~LostBy(k)
    BY <1>1, <1>2, <1>3, <1>4 DEF EarnInv
  <2> QED
    BY <1>4, <2>1, <2>3, <2>4 DEF LostBy, base
<1> QED
  BY <1>1, <1>5, <1>6 DEF EndInv
-----------------------------------------------------------------------------
\* What a learner has done counts once: a session of dual n-back is stored once however
\* often it is sent (dnb/upload.rs), and its difficulty moves as its answers say
\* (nback/scoring.rs); at the terminal its stored trials tell which of them match and earn the
\* difficulty of the next (nback/mod.rs, wisecrow.rs); each answer of a device is in its
\* outbox once and its session beside it, with a card that can be answered
\* (storage/learning.rs).
THEOREM CountedSound == LearnerSpec => []CountedOnce
<1>1. HandInv => Upload!KeptOnce
  BY DEF HandInv
<1>2. NbackInv => Nback!ScoredAsPlayed
  <2> SUFFICES ASSUME NbackInv, ~twice
               PROVE  /\ final.done => final.count = 5 /\ final.state = Scored
                      /\ state \in {Fresh, Scored}
    BY DEF Nback!ScoredAsPlayed, Scored, Fresh, Nback!Generated
  <2>1. TurnInv /\ BeforeInv /\ AfterInv /\ DoneInv
    BY DEF NbackInv
  <2>2. state \in {Fresh, Scored}
    BY <2>1 DEF BeforeInv, AfterInv
  <2>3. final.done => final.count = 5 /\ final.state = Scored
    BY <2>1 DEF DoneInv
  <2> QED
    BY <2>2, <2>3
<1>3. LearnInv => /\ Device!SessionInStep /\ Device!AnsweredOnce
                  /\ Device!PendingHasCard /\ Device!Answerable
  BY LearnPromises
<1>4. HandInv /\ NbackInv /\ PlayInv /\ LearnInv => CountedOnce
  BY <1>1, <1>2, <1>3, PlayPromises DEF CountedOnce
<1> QED
  BY <1>4, HandInvariant, NbackInvariant, PlayInvariant, LearnInvariant, PTL
-----------------------------------------------------------------------------
(***************************************************************************)
(* Two learners of one device (DeviceAccounts).                            *)
(***************************************************************************)

Signing == [step : {"off", "issued", "saved", "known", "named", "registered", "failed"},
            user : Users \cup {0}, token : Issuable \cup {0}, device : Devices \cup {0}]
Restoring == [step : {"off", "loaded", "known", "refused", "leaving"}, user : Users \cup {0},
              mid : BOOLEAN]
Running == [step : {"off", "begun", "ready", "sending", "told", "pulling", "paged", "expired"},
            user : Users \cup {0}, device : Devices \cup {0}, owner : Users \cup {0},
            next : Users \cup {0}, of : Users \cup {0},
            turn : {"own", "other", "torn"}, mid : BOOLEAN]

AccountTypes ==
    /\ issued \in [Issuable -> Users \cup {0}] /\ live \subseteq Issuable
    /\ registered \subseteq Users \X Devices
    /\ credited \subseteq [of : Users, to : Users, torn : BOOLEAN]
    /\ credential \in Issuable \cup {0} /\ active \in Users \cup {0}
    /\ installed \in [Users -> Devices \cup {0}] /\ pending \subseteq Users
    /\ copies \in [Users -> SUBSET [of : Users, torn : BOOLEAN]]
    /\ login \in [Logins -> Signing] /\ restore \in Restoring /\ sync \in Running
    /\ crossed \subseteq Devices /\ mixed \in BOOLEAN /\ doubt \in BOOLEAN

\* A token that is kept anywhere was issued; a login holds its own user's.
TokenInv ==
    /\ credential # 0 => issued[credential] # 0
    /\ active # 0 => installed[active] # 0
    /\ \A l \in Logins :
          /\ login[l].step # "off" => /\ login[l].user # 0 /\ login[l].token # 0
                                     /\ issued[login[l].token] = login[l].user
          /\ login[l].step \in {"named", "registered"} => login[l].device # 0

\* An installation is, or is about to be, registered for u.
Binds(u, d) ==
    \/ <<u, d>> \in registered
    \/ \E l \in Logins : /\ login[l].step \in {"named", "registered"}
                         /\ login[l].user = u /\ login[l].device = d

\* An installation is its learner's and nobody else's, unless logins that overlapped
\* registered it for another.
Owned == registered \cup (Users \X crossed)
DeviceInv ==
    /\ \A u \in Users : installed[u] # 0 => <<u, installed[u]>> \in Owned
    /\ \A l \in Logins : login[l].step = "registered" => <<login[l].user, login[l].device>> \in Owned
    /\ \A u, v \in Users, d \in Devices \ crossed : Binds(u, d) /\ Binds(v, d) => u = v

\* A run has its identity from the store: a user with a registered installation.
RunInv ==
    /\ sync.step # "off" => sync.user \in Users /\ <<sync.user, sync.device>> \in Owned
    /\ sync.step \in {"sending", "told"} => sync.owner \in Users
    /\ sync.step = "paged" => sync.of \in Users

\* While the store works for the run's learner, so does what the run reads; once it was
\* validated the credential is that learner's, but in the midst of a sign-in.
Settled == Accounts!Caller \in {0, active}
OwnInv ==
    sync.step # "off" /\ sync.turn = "own" =>
        /\ active = sync.user
        /\ sync.step \in {"sending", "told"} => sync.owner = sync.user
        /\ sync.step \in {"ready", "sending", "told", "pulling", "paged"} =>
              Accounts!HalfIn \/ Settled

\* When another learner has signed in under it, the credential is that one's, or none.
OtherInv == sync.step # "off" /\ sync.turn = "other" => Settled /\ Accounts!Caller # sync.user

\* A page that met no sign-in is of the learner the store works for.
PageInv == sync.step = "paged" /\ ~sync.mid => sync.of = active

\* Between sign-ins a stored credential is of the learner the profile names, and so is
\* what a restore learns with it.
ForceInv == mixed \/ Accounts!HalfIn \/ Settled
RestoredInv == restore.step = "known" /\ ~restore.mid => restore.user = active

LoginsInv == TokenInv /\ DeviceInv
RunsInv == RunInv /\ OwnInv /\ OtherInv /\ PageInv /\ Accounts!AnswersOwn /\ Accounts!CopiesOwn
ShownInv == ForceInv /\ RestoredInv /\ Accounts!ShownAsStored
AccountsInv == AccountTypes /\ LoginsInv /\ RunsInv /\ ShownInv

\* The caller is a learner or nobody, and nobody without a credential.
LEMMA CallerIsStored ==
    ASSUME AccountTypes
    PROVE  /\ Accounts!Caller \in Users \cup {0} /\ 0 \notin Users /\ 0 \notin Issuable
           /\ credential = 0 => Accounts!Caller = 0
BY AccountAssumption DEF AccountTypes, Accounts!Caller

\* Sessions end and credentials are forgotten: the caller stays, or is nobody.
LEMMA CallerStays ==
    ASSUME AccountTypes, UNCHANGED issued, live' \subseteq live, credential' \in {credential, 0}
    PROVE  Accounts!Caller' \in {Accounts!Caller, 0} /\ (credential' = 0 => Accounts!Caller' = 0)
BY AccountAssumption DEF AccountTypes, Accounts!Caller

\* What logins keep is kept by a step that moves no login and at most drops the credential.
LEMMA LoginsRest ==
    ASSUME AccountTypes, LoginsInv, UNCHANGED <<issued, registered, active, installed, login, crossed>>,
           credential' \in {credential, 0}
    PROVE  LoginsInv'
<1>1. TokenInv'
  BY DEF LoginsInv, TokenInv
<1>2. /\ \A u, d : Binds(u, d)' <=> Binds(u, d)
      /\ Owned' = Owned
  BY DEF Binds, Owned
<1>3. DeviceInv'
  BY <1>2 DEF LoginsInv, DeviceInv
<1> QED
  BY <1>1, <1>3 DEF LoginsInv

\* What a run keeps is kept by a step beside it that leaves the user of the store and at
\* most takes the credential away, though not by ending a sign-in.
LEMMA RunsRest ==
    ASSUME AccountsInv, UNCHANGED <<sync, active, credited, copies>>,
           registered \subseteq registered', crossed \subseteq crossed',
           Accounts!Caller' \in {Accounts!Caller, 0},
           Accounts!HalfIn => Accounts!HalfIn' \/ Accounts!Caller' = 0
    PROVE  RunsInv'
<1>1. RunsInv /\ 0 \notin Users
  BY CallerIsStored DEF AccountsInv
<1>2. RunInv'
  BY <1>1 DEF RunsInv, RunInv, Owned
<1>3. Settled => Settled'
  BY DEF Settled
<1>4. Accounts!Caller' = 0 => Settled'
  BY DEF Settled
<1>5. OwnInv'
  BY <1>1, <1>3, <1>4 DEF RunsInv, OwnInv
<1>6. OtherInv'
  BY <1>1, <1>3 DEF RunsInv, RunInv, OtherInv
<1>7. PageInv' /\ Accounts!AnswersOwn' /\ Accounts!CopiesOwn'
  BY <1>1 DEF RunsInv, PageInv, Accounts!AnswersOwn, Accounts!CopiesOwn
<1> QED
  BY <1>2, <1>5, <1>6, <1>7 DEF RunsInv

\* What the app shows is kept by a step that leaves it and the user of the store, lets a
\* restore learn only whom that is, and takes the credential away or ends no sign-in.
LEMMA ShownRests ==
    ASSUME AccountsInv, UNCHANGED <<app, active, doubt>>,
           \/ UNCHANGED restore
           \/ restore'.step # "known"
           \/ restore'.mid
           \/ restore'.user = active,
           \/ Accounts!HalfIn'
           \/ Accounts!Caller' = 0
           \/ /\ mixed' = mixed /\ ~Accounts!HalfIn
              /\ Accounts!Caller' \in {Accounts!Caller, 0}
    PROVE  ShownInv'
<1>1. ShownInv
  BY DEF AccountsInv
<1>2. ForceInv'
  BY <1>1 DEF ShownInv, ForceInv, Settled
<1>3. RestoredInv'
  BY <1>1 DEF ShownInv, RestoredInv
<1>4. Accounts!ShownAsStored'
  BY <1>1 DEF ShownInv, Accounts!ShownAsStored
<1> QED
  BY <1>2, <1>3, <1>4 DEF ShownInv

\* A new session: nobody kept its token before.
LEMMA AuthenticateKeeps ==
    ASSUME AccountsInv, NEW l \in Logins, NEW u \in Users, Accounts!Authenticate(l, u)
    PROVE  AccountsInv'
<1>1. PICK t \in Issuable :
        /\ login[l].step = "off" /\ issued[t] = 0
        /\ issued' = [issued EXCEPT ![t] = u] /\ live' = live \cup {t}
        /\ login' = [login EXCEPT ![l] = [step |-> "issued", user |-> u, token |-> t, device |-> 0]]
  BY DEF Accounts!Authenticate, Accounts!Busy
<1>2. UNCHANGED <<registered, credited, credential, active, installed, pending, copies, app,
                  restore, sync, crossed, mixed, doubt>>
  BY DEF Accounts!Authenticate, Accounts!storeVars, Accounts!ghosts
<1>3. AccountTypes /\ LoginsInv /\ TokenInv /\ 0 \notin Users /\ 0 \notin Issuable
  BY CallerIsStored DEF AccountsInv, LoginsInv
<1>4. AccountTypes'
  BY <1>1, <1>2, <1>3 DEF AccountTypes, Signing
<1>5. /\ login'[l].step = "issued" /\ login'[l].user = u /\ login'[l].token = t
      /\ \A m \in Logins \ {l} : login'[m] = login[m]
  BY <1>1, <1>3 DEF AccountTypes, Signing
<1>6. /\ issued'[t] = u /\ credential # t
      /\ \A k \in Issuable : issued[k] # 0 => issued'[k] = issued[k]
  BY <1>1, <1>3 DEF AccountTypes, Signing, TokenInv
<1>7. TokenInv'
  <2>1. credential # 0 => issued'[credential] # 0
    BY <1>2, <1>3, <1>6 DEF AccountTypes, Signing, TokenInv
  <2>2. ASSUME NEW m \in Logins, login'[m].step # "off"
        PROVE  /\ login'[m].user # 0 /\ login'[m].token # 0
               /\ issued'[login'[m].token] = login'[m].user
    <3>1. CASE m = l
      BY <3>1, <1>3, <1>5, <1>6
    <3>2. CASE m # l
      <4>1. /\ login'[m] = login[m] /\ login[m].token \in Issuable
            /\ issued[login[m].token] = login[m].user /\ login[m].user # 0
        BY <3>2, <2>2, <1>3, <1>5 DEF AccountTypes, Signing, TokenInv
      <4> QED
        BY <4>1, <1>3, <1>6
    <3> QED
      BY <3>1, <3>2
  <2> QED
    BY <2>1, <2>2, <1>2, <1>3, <1>5 DEF TokenInv
<1>8. /\ \A v, d : Binds(v, d)' <=> Binds(v, d)
      /\ Owned' = Owned
  BY <1>1, <1>2, <1>5 DEF Binds, Owned
<1>9. DeviceInv'
  BY <1>2, <1>3, <1>5, <1>8 DEF LoginsInv, DeviceInv
<1>10. Accounts!Caller' = Accounts!Caller
  BY <1>1, <1>2, <1>3, <1>6 DEF Accounts!Caller, AccountTypes, Signing, TokenInv
<1>11. Accounts!HalfIn' <=> Accounts!HalfIn
  BY <1>1, <1>5 DEF Accounts!HalfIn
<1>12. RunsInv'
  BY <1>2, <1>10, <1>11, RunsRest
<1>13. ShownInv'
  BY <1>2, <1>10, <1>11, ShownRests
<1> QED
  BY <1>4, <1>7, <1>9, <1>12, <1>13 DEF AccountsInv, LoginsInv

\* A login that goes on, or fails, with the device and the server as they are.
LEMMA LoginMoves ==
    ASSUME AccountsInv, NEW l \in Logins, NEW where \in {"known", "failed"},
           login[l].step \notin {"off", "issued"}, login' = [login EXCEPT ![l].step = where],
           UNCHANGED <<issued, live, registered, credited, credential, active, installed,
                       pending, copies, app, restore, sync, crossed, mixed, doubt>>
    PROVE  AccountsInv'
<1>1. AccountTypes /\ LoginsInv /\ TokenInv
  BY DEF AccountsInv, LoginsInv
<1>2. AccountTypes'
  BY <1>1 DEF AccountTypes, Signing
<1>3. /\ login'[l].step = where /\ login'[l].user = login[l].user
      /\ login'[l].token = login[l].token
      /\ \A m \in Logins \ {l} : login'[m] = login[m]
  BY <1>1 DEF AccountTypes, Signing
<1>4. TokenInv'
  BY <1>1, <1>3 DEF TokenInv
<1>5. /\ \A v, d : Binds(v, d)' => Binds(v, d)
      /\ Owned' = Owned
  BY <1>3 DEF Binds, Owned
<1>6. DeviceInv'
  BY <1>1, <1>3, <1>5 DEF LoginsInv, DeviceInv
<1>7. Accounts!Caller' = Accounts!Caller
  BY DEF Accounts!Caller
<1>8. Accounts!HalfIn'
  BY <1>3 DEF Accounts!HalfIn
<1>9. RunsInv' /\ ShownInv'
  BY <1>7, <1>8, RunsRest, ShownRests
<1> QED
  BY <1>2, <1>4, <1>6, <1>9 DEF AccountsInv, LoginsInv

\* The parts of a run that a sign-in may change.
LEMMA RunTurns ==
    ASSUME AccountTypes, NEW turn \in {"own", "other", "torn"}, Accounts!Turns(turn)
    PROVE  /\ sync' \in Running /\ sync'.step = sync.step /\ sync'.user = sync.user
           /\ sync'.device = sync.device /\ sync'.owner = sync.owner /\ sync'.of = sync.of
           /\ sync.step # "off" => sync'.turn = turn
           /\ sync.step = "paged" => sync'.mid
<1>1. CASE sync.step = "off"
  BY <1>1 DEF AccountTypes, Running, Accounts!Turns
<1>2. CASE sync.step # "off"
  <2>1. PICK met \in BOOLEAN : met = (sync.mid \/ sync.step = "paged")
    OBVIOUS
  <2>2. sync' = [[sync EXCEPT !.turn = turn] EXCEPT !.mid = met]
    BY <1>2, <2>1 DEF Accounts!Turns
  <2>3. \A s \in Running : /\ [s EXCEPT !.turn = turn] \in Running
                           /\ [s EXCEPT !.mid = met] \in Running
    BY <2>1 DEF Running
  <2>4. sync \in Running
    BY DEF AccountTypes
  <2>5. sync' \in Running
    BY <2>2, <2>3, <2>4
  <2>6. /\ sync'.step = sync.step /\ sync'.user = sync.user /\ sync'.device = sync.device
        /\ sync'.owner = sync.owner /\ sync'.of = sync.of /\ sync'.turn = turn /\ sync'.mid = met
    BY <2>2, <2>4 DEF Running
  <2> QED
    BY <2>1, <2>5, <2>6
<1> QED
  BY <1>1, <1>2

LEMMA SaveCredentialKeeps ==
    ASSUME AccountsInv, NEW l \in Logins, Accounts!SaveCredential(l)
    PROVE  AccountsInv'
<1>1. /\ login[l].step = "issued" /\ login' = [login EXCEPT ![l].step = "saved"]
      /\ credential' = login[l].token /\ Accounts!Turns(Accounts!TurnAtCredential)
      /\ UNCHANGED <<issued, live, registered, credited, active, installed, pending, copies,
                     app, restore, crossed, mixed, doubt>>
  BY DEF Accounts!SaveCredential, Accounts!Busy, Accounts!Moved, Accounts!serverVars,
         Accounts!ghosts
<1>2. AccountTypes /\ LoginsInv /\ TokenInv /\ RunsInv
  BY DEF AccountsInv, LoginsInv
<1>3. PICK turn : turn = Accounts!TurnAtCredential
  OBVIOUS
<1>4. turn \in {"own", "other", "torn"} /\ turn # "other" /\ (turn = "own" => sync.turn = "own")
  BY <1>2, <1>3 DEF Accounts!TurnAtCredential, AccountTypes, Running
<1>5. /\ sync' \in Running /\ sync'.step = sync.step /\ sync'.user = sync.user
      /\ sync'.device = sync.device /\ sync'.owner = sync.owner /\ sync'.of = sync.of
      /\ sync.step # "off" => sync'.turn = turn
      /\ sync.step = "paged" => sync'.mid
  BY <1>1, <1>2, <1>3, <1>4, RunTurns
<1>6. AccountTypes'
  BY <1>1, <1>2, <1>5 DEF AccountTypes, Signing
<1>7. /\ login'[l].step = "saved" /\ login'[l].user = login[l].user
      /\ login'[l].token = login[l].token
      /\ \A m \in Logins \ {l} : login'[m] = login[m]
  BY <1>1, <1>2 DEF AccountTypes, Signing
<1>8. TokenInv'
  BY <1>1, <1>2, <1>7 DEF TokenInv
<1>9. /\ \A v, d : Binds(v, d)' => Binds(v, d)
      /\ Owned' = Owned
  BY <1>1, <1>7 DEF Binds, Owned
<1>10. DeviceInv'
  BY <1>1, <1>2, <1>7, <1>9 DEF LoginsInv, DeviceInv
<1>11. Accounts!HalfIn'
  BY <1>7 DEF Accounts!HalfIn
<1>12. RunsInv'
  <2>1. RunInv'
    BY <1>1, <1>2, <1>5, <1>9 DEF RunsInv, RunInv
  <2>2. OwnInv'
    BY <1>1, <1>2, <1>4, <1>5, <1>11 DEF RunsInv, OwnInv
  <2>3. OtherInv' /\ PageInv'
    BY <1>4, <1>5 DEF OtherInv, PageInv
  <2>4. Accounts!AnswersOwn' /\ Accounts!CopiesOwn'
    BY <1>1, <1>2 DEF RunsInv, Accounts!AnswersOwn, Accounts!CopiesOwn
  <2> QED
    BY <2>1, <2>2, <2>3, <2>4 DEF RunsInv
<1>13. ShownInv'
  BY <1>1, <1>11, ShownRests
<1> QED
  BY <1>6, <1>8, <1>10, <1>12, <1>13 DEF AccountsInv, LoginsInv

\* An installation of the user, or one nobody was given.
LEMMA NameKeeps ==
    ASSUME AccountsInv, NEW l \in Logins, Accounts!Name(l)
    PROVE  AccountsInv'
<1>1. PICK d \in Devices :
        /\ login[l].step = "known"
        /\ login' = [login EXCEPT ![l].step = "named", ![l].device = d]
        /\ IF installed[login[l].user] # 0 THEN d = installed[login[l].user]
           ELSE d \notin Accounts!Drawn
  BY DEF Accounts!Name, Accounts!Busy, Accounts!InstallationOf
<1>2. UNCHANGED <<issued, live, registered, credited, credential, active, installed, pending,
                  copies, app, restore, sync, crossed, mixed, doubt>>
  BY DEF Accounts!Name, Accounts!serverVars, Accounts!storeVars, Accounts!ghosts
<1>3. AccountTypes /\ LoginsInv /\ TokenInv /\ d # 0 /\ login[l].user \in Users
  BY <1>1, AccountAssumption DEF AccountsInv, LoginsInv, AccountTypes, Signing, TokenInv
<1>4. AccountTypes'
  <2>1. [login EXCEPT ![l].step = "named"] \in [Logins -> Signing]
    BY <1>3 DEF AccountTypes, Signing
  <2>2. \A f \in [Logins -> Signing] : [f EXCEPT ![l].device = d] \in [Logins -> Signing]
    BY DEF Signing
  <2>3. login' = [[login EXCEPT ![l].step = "named"] EXCEPT ![l].device = d]
    BY <1>1
  <2>4. login' \in [Logins -> Signing]
    BY <2>1, <2>2, <2>3
  <2> QED
    BY <2>4, <1>2, <1>3 DEF AccountTypes
<1>5. /\ login'[l].step = "named" /\ login'[l].user = login[l].user
      /\ login'[l].token = login[l].token /\ login'[l].device = d
      /\ \A m \in Logins \ {l} : login'[m] = login[m]
  BY <1>1, <1>3 DEF AccountTypes, Signing
<1>6. TokenInv'
  <2>1. login[l].step = "known"
    BY <1>1
  <2>2. ASSUME NEW m \in Logins
        PROVE  /\ login'[m].step # "off" => /\ login'[m].user # 0 /\ login'[m].token # 0
                                           /\ issued[login'[m].token] = login'[m].user
               /\ login'[m].step \in {"named", "registered"} => login'[m].device # 0
    BY <2>1, <1>3, <1>5 DEF TokenInv
  <2> QED
    BY <2>2, <1>2, <1>3 DEF TokenInv
<1>7. /\ \A v, e : Binds(v, e)' => Binds(v, e) \/ (v = login[l].user /\ e = d)
      /\ Owned' = Owned
  BY <1>2, <1>5 DEF Binds, Owned
<1>8. ASSUME d \notin crossed, NEW v \in Users, Binds(v, d)
      PROVE  v = login[l].user
  <2>1. CASE installed[login[l].user] # 0
    <3>1. <<login[l].user, d>> \in registered
      BY <2>1, <1>1, <1>3, <1>8 DEF LoginsInv, DeviceInv, Owned
    <3>2. Binds(login[l].user, d)
      BY <3>1 DEF Binds
    <3> QED
      BY <3>2, <1>3, <1>8 DEF LoginsInv, DeviceInv
  <2>2. CASE installed[login[l].user] = 0
    <3>1. \A m \in Logins : login[m].device # d
      BY <2>2, <1>1 DEF Accounts!Drawn
    <3>2. \A p \in registered : p[2] # d
      BY <2>2, <1>1 DEF Accounts!Drawn
    <3>3. <<v, d>> \notin registered
      BY <3>2
    <3> QED
      BY <3>1, <3>3, <1>8 DEF Binds
  <2> QED
    BY <2>1, <2>2
<1>9. DeviceInv'
  <2>1. \A u \in Users : installed'[u] # 0 => <<u, installed'[u]>> \in Owned'
    BY <1>2, <1>3, <1>7 DEF LoginsInv, DeviceInv
  <2>2. \A m \in Logins : login'[m].step = "registered" =>
            <<login'[m].user, login'[m].device>> \in Owned'
    BY <1>2, <1>3, <1>5, <1>7 DEF LoginsInv, DeviceInv
  <2>3. \A u, v \in Users, e \in Devices \ crossed : Binds(u, e)' /\ Binds(v, e)' => u = v
    BY <1>3, <1>7, <1>8 DEF LoginsInv, DeviceInv
  <2> QED
    BY <1>2, <2>1, <2>2, <2>3 DEF DeviceInv
<1>10. Accounts!Caller' = Accounts!Caller
  BY <1>2 DEF Accounts!Caller
<1>11. Accounts!HalfIn'
  BY <1>5 DEF Accounts!HalfIn
<1>12. RunsInv' /\ ShownInv'
  BY <1>2, <1>10, <1>11, RunsRest, ShownRests
<1> QED
  BY <1>4, <1>6, <1>9, <1>12 DEF AccountsInv, LoginsInv

\* A device registered for the user of the session: the login's own, or it is crossed.
LEMMA RegisterKeeps ==
    ASSUME AccountsInv, NEW l \in Logins, Accounts!Register(l)
    PROVE  AccountsInv'
<1>1. /\ login[l].step = "named"
      /\ UNCHANGED <<issued, live, credited, credential, active, installed, pending, copies, app,
                     restore, sync, mixed, doubt>>
  BY DEF Accounts!Register, Accounts!Busy, Accounts!storeVars
<1>2. CASE Accounts!Caller = 0
  <2>1. login' = [login EXCEPT ![l].step = "failed"] /\ UNCHANGED <<registered, crossed>>
    BY <1>2 DEF Accounts!Register, Accounts!Failed, Accounts!Moved
  <2> QED
    BY <1>1, <2>1, LoginMoves
<1>3. CASE Accounts!Caller # 0
  <2>1. PICK d, u : d = login[l].device /\ u = login[l].user
    OBVIOUS
  <2>2. /\ login' = [login EXCEPT ![l].step = "registered"]
        /\ registered' = registered \cup {<<Accounts!Caller, d>>}
        /\ crossed' = crossed \cup (IF Accounts!Caller = u THEN {} ELSE {d})
    BY <1>3, <2>1 DEF Accounts!Register, Accounts!Moved
  <2>3. /\ AccountTypes /\ LoginsInv /\ TokenInv /\ Accounts!Caller \in Users
        /\ d \in Devices /\ u \in Users
    BY <1>1, <1>3, <2>1, CallerIsStored DEF AccountsInv, LoginsInv, AccountTypes, Signing, TokenInv
  <2>4. AccountTypes'
    <3>1. login' \in [Logins -> Signing]
      BY <2>2, <2>3 DEF AccountTypes, Signing
    <3>2. registered' \subseteq Users \X Devices /\ crossed' \subseteq Devices
      BY <2>2, <2>3 DEF AccountTypes
    <3> QED
      BY <1>1, <2>3, <3>1, <3>2 DEF AccountTypes
  <2>5. /\ login'[l].step = "registered" /\ login'[l].user = u
        /\ login'[l].token = login[l].token /\ login'[l].device = d
        /\ \A m \in Logins \ {l} : login'[m] = login[m]
    BY <2>1, <2>2, <2>3 DEF AccountTypes, Signing
  <2>6. TokenInv'
    BY <1>1, <2>1, <2>3, <2>5 DEF TokenInv
  <2>7. registered \subseteq registered' /\ crossed \subseteq crossed'
    BY <2>2
  <2>8. DeviceInv'
    <3>1. <<u, d>> \in Owned'
      BY <2>2, <2>3 DEF Owned
    <3>2. Owned \subseteq Owned'
      BY <2>7 DEF Owned
    <3>3. \A v, e : e \notin crossed' /\ Binds(v, e)' => Binds(v, e)
      <4> SUFFICES ASSUME NEW v, NEW e, e \notin crossed', Binds(v, e)'
                   PROVE  Binds(v, e)
        OBVIOUS
      <4>1. CASE <<v, e>> \in registered'
        <5>1. CASE <<v, e>> \in registered
          BY <5>1 DEF Binds
        <5>2. CASE v = Accounts!Caller /\ e = d
          <6>1. v = u
            BY <2>2, <5>2
          <6> QED
            BY <1>1, <2>1, <5>2, <6>1 DEF Binds
        <5> QED
          BY <2>2, <4>1, <5>1, <5>2
      <4>2. CASE <<v, e>> \notin registered'
        <5>1. PICK m \in Logins : /\ login'[m].step \in {"named", "registered"}
                                  /\ login'[m].user = v /\ login'[m].device = e
          BY <4>2 DEF Binds
        <5>2. login[m].step \in {"named", "registered"} /\ login[m].user = v /\ login[m].device = e
          BY <1>1, <2>1, <2>5, <5>1
        <5> QED
          BY <5>2 DEF Binds
      <4> QED
        BY <4>1, <4>2
    <3>4. \A m \in Logins : login'[m].step = "registered" =>
              <<login'[m].user, login'[m].device>> \in Owned'
      <4> SUFFICES ASSUME NEW m \in Logins, login'[m].step = "registered"
                   PROVE  <<login'[m].user, login'[m].device>> \in Owned'
        OBVIOUS
      <4>1. CASE m = l
        BY <2>5, <3>1, <4>1
      <4>2. CASE m # l
        <5>1. login'[m] = login[m]
          BY <2>5, <4>2
        <5>2. <<login[m].user, login[m].device>> \in Owned
          BY <2>3, <5>1 DEF LoginsInv, DeviceInv
        <5> QED
          BY <3>2, <5>1, <5>2
      <4> QED
        BY <4>1, <4>2
    <3>5. \A v \in Users : installed'[v] # 0 => <<v, installed'[v]>> \in Owned'
      BY <1>1, <2>3, <3>2 DEF LoginsInv, DeviceInv
    <3>6. \A v, w \in Users, e \in Devices \ crossed' : Binds(v, e)' /\ Binds(w, e)' => v = w
      BY <2>3, <2>7, <3>3 DEF LoginsInv, DeviceInv
    <3> QED
      BY <3>4, <3>5, <3>6 DEF DeviceInv
  <2>9. Accounts!Caller' = Accounts!Caller
    BY <1>1 DEF Accounts!Caller
  <2>10. Accounts!HalfIn'
    BY <2>5 DEF Accounts!HalfIn
  <2>11. RunsInv' /\ ShownInv'
    BY <1>1, <2>7, <2>9, <2>10, RunsRest, ShownRests
  <2> QED
    BY <2>4, <2>6, <2>8, <2>11 DEF AccountsInv, LoginsInv
<1> QED
  BY <1>2, <1>3

LEMMA AskOrLoseKeeps ==
    ASSUME AccountsInv, NEW l \in Logins, Accounts!AskMe(l) \/ Accounts!Lose(l)
    PROVE  AccountsInv'
<1>1. /\ login[l].step \notin {"off", "issued"}
      /\ \E where \in {"known", "failed"} : login' = [login EXCEPT ![l].step = where]
      /\ UNCHANGED <<issued, live, registered, credited, credential, active, installed, pending,
                     copies, app, restore, sync, crossed, mixed, doubt>>
  BY DEF Accounts!AskMe, Accounts!Lose, Accounts!Busy, Accounts!Failed, Accounts!Moved,
         Accounts!serverVars, Accounts!storeVars, Accounts!ghosts
<1> QED
  BY <1>1, LoginMoves

\* A sign-in ends: the store works for its user, and a run that was another's has met it.
LEMMA SaveIdentityKeeps ==
    ASSUME AccountsInv, NEW l \in Logins, Accounts!SaveIdentity(l)
    PROVE  AccountsInv'
<1>1. PICK u, d : u = login[l].user /\ d = login[l].device
  OBVIOUS
<1>2. /\ login[l].step = "registered" /\ installed' = [installed EXCEPT ![u] = d]
      /\ active' = u /\ app' = u /\ login' = [login EXCEPT ![l] = Accounts!NoLogin]
      /\ Accounts!Turns(Accounts!TurnAtIdentity(u))
      /\ mixed' = (Accounts!Caller \notin {0, u}) /\ doubt' = FALSE
      /\ restore' = IF restore.step = "known" THEN [restore EXCEPT !.mid = TRUE] ELSE restore
      /\ UNCHANGED <<issued, live, registered, credited, credential, pending, copies, crossed>>
  BY <1>1 DEF Accounts!SaveIdentity, Accounts!Busy, Accounts!serverVars
<1>3. /\ AccountTypes /\ TokenInv /\ DeviceInv /\ RunsInv
      /\ u \in Users /\ d \in Devices /\ 0 \notin Users
  BY <1>1, <1>2, CallerIsStored DEF AccountsInv, LoginsInv, AccountTypes, Signing, TokenInv
<1>4. PICK turn : turn = Accounts!TurnAtIdentity(u)
  OBVIOUS
<1>5. /\ turn \in {"own", "other", "torn"}
      /\ turn # "torn" => Accounts!Caller \in {0, u}
      /\ turn = "own" => sync.turn = "own" /\ u = sync.user
      /\ turn = "other" => sync.turn = "other" \/ u # sync.user
  BY <1>3, <1>4 DEF Accounts!TurnAtIdentity, AccountTypes, Running
<1>6. /\ sync' \in Running /\ sync'.step = sync.step /\ sync'.user = sync.user
      /\ sync'.device = sync.device /\ sync'.owner = sync.owner /\ sync'.of = sync.of
      /\ sync.step # "off" => sync'.turn = turn
      /\ sync.step = "paged" => sync'.mid
  BY <1>2, <1>3, <1>4, <1>5, RunTurns
<1>7. Accounts!NoLogin \in Signing /\ Accounts!NoLogin.step = "off"
  BY DEF Accounts!NoLogin, Signing
<1>8. /\ restore' \in Restoring
      /\ restore'.step = "known" => restore'.mid
  BY <1>2, <1>3 DEF AccountTypes, Restoring
<1>9. AccountTypes'
  <2>1. login' \in [Logins -> Signing] /\ installed' \in [Users -> Devices \cup {0}]
    BY <1>2, <1>3, <1>7 DEF AccountTypes
  <2>2. mixed' \in BOOLEAN /\ doubt' \in BOOLEAN
    BY <1>2
  <2> QED
    BY <1>2, <1>3, <1>6, <1>8, <2>1, <2>2 DEF AccountTypes
<1>10. /\ login'[l].step = "off" /\ \A m \in Logins \ {l} : login'[m] = login[m]
       /\ installed'[u] = d /\ \A v \in Users \ {u} : installed'[v] = installed[v]
  BY <1>2, <1>3, <1>7 DEF AccountTypes
<1>11. TokenInv'
  BY <1>2, <1>3, <1>10, AccountAssumption DEF TokenInv
<1>12. DeviceInv'
  <2>1. /\ \A v, e : Binds(v, e)' => Binds(v, e)
        /\ Owned' = Owned
    BY <1>2, <1>10 DEF Binds, Owned
  <2>2. <<u, d>> \in Owned
    BY <1>1, <1>2, <1>3 DEF DeviceInv
  <2> QED
    BY <1>2, <1>3, <1>10, <2>1, <2>2 DEF DeviceInv
<1>13. Accounts!Caller' = Accounts!Caller
  BY <1>2 DEF Accounts!Caller
<1>14. RunsInv'
  <2>1. RunInv'
    BY <1>2, <1>3, <1>6 DEF RunsInv, RunInv, Owned
  <2>2. OwnInv'
    <3> SUFFICES ASSUME sync'.step # "off", sync'.turn = "own"
                 PROVE  /\ active' = sync'.user
                        /\ sync'.step \in {"sending", "told"} => sync'.owner = sync'.user
                        /\ Settled'
      BY DEF OwnInv
    <3>1. sync.step # "off" /\ sync.turn = "own" /\ u = sync.user /\ Accounts!Caller \in {0, u}
      BY <1>5, <1>6
    <3> QED
      BY <1>2, <1>3, <1>6, <1>13, <3>1 DEF RunsInv, OwnInv, Settled
  <2>3. OtherInv'
    <3> SUFFICES ASSUME sync'.step # "off", sync'.turn = "other"
                 PROVE  Settled' /\ Accounts!Caller' # sync'.user
      BY DEF OtherInv
    <3>1. sync.step # "off" /\ turn = "other" /\ Accounts!Caller \in {0, u} /\ sync.user \in Users
      BY <1>3, <1>5, <1>6 DEF RunsInv, RunInv
    <3>2. CASE sync.turn = "other"
      BY <1>2, <1>3, <1>6, <1>13, <3>1, <3>2 DEF RunsInv, OtherInv, Settled
    <3>3. CASE u # sync.user
      BY <1>2, <1>3, <1>6, <1>13, <3>1, <3>3 DEF Settled
    <3> QED
      BY <1>5, <3>1, <3>2, <3>3
  <2>4. PageInv'
    BY <1>6 DEF PageInv
  <2>5. Accounts!AnswersOwn' /\ Accounts!CopiesOwn'
    BY <1>2, <1>3 DEF RunsInv, Accounts!AnswersOwn, Accounts!CopiesOwn
  <2> QED
    BY <2>1, <2>2, <2>3, <2>4, <2>5 DEF RunsInv
<1>15. ShownInv'
  <2>1. ForceInv'
    BY <1>2, <1>13 DEF ForceInv, Settled
  <2>2. RestoredInv'
    BY <1>8 DEF RestoredInv
  <2>3. Accounts!ShownAsStored'
    BY <1>2 DEF Accounts!ShownAsStored
  <2> QED
    BY <2>1, <2>2, <2>3 DEF ShownInv
<1> QED
  BY <1>9, <1>11, <1>12, <1>14, <1>15 DEF AccountsInv, LoginsInv

LEMMA CleanUpKeeps ==
    ASSUME AccountsInv, NEW l \in Logins, Accounts!CleanUp(l)
    PROVE  AccountsInv'
<1>1. /\ login' = [login EXCEPT ![l] = Accounts!NoLogin] /\ credential' = 0 /\ mixed' = FALSE
      /\ UNCHANGED <<issued, live, registered, credited, active, installed, pending, copies, app,
                     restore, sync, crossed, doubt>>
  BY DEF Accounts!CleanUp, Accounts!serverVars
<1>2. AccountTypes /\ TokenInv /\ DeviceInv
  BY DEF AccountsInv, LoginsInv
<1>3. Accounts!NoLogin \in Signing /\ Accounts!NoLogin.step = "off"
  BY DEF Accounts!NoLogin, Signing
<1>4. AccountTypes'
  BY <1>1, <1>2, <1>3 DEF AccountTypes
<1>5. login'[l].step = "off" /\ \A m \in Logins \ {l} : login'[m] = login[m]
  BY <1>1, <1>2, <1>3 DEF AccountTypes
<1>6. TokenInv'
  BY <1>1, <1>2, <1>5 DEF TokenInv
<1>7. /\ \A v, d : Binds(v, d)' => Binds(v, d)
      /\ Owned' = Owned
  BY <1>1, <1>5 DEF Binds, Owned
<1>8. DeviceInv'
  BY <1>1, <1>2, <1>5, <1>7 DEF DeviceInv
<1>9. Accounts!Caller' = 0
  BY <1>1, <1>2, CallerStays
<1>10. RunsInv' /\ ShownInv'
  BY <1>1, <1>9, RunsRest, ShownRests
<1> QED
  BY <1>4, <1>6, <1>8, <1>10 DEF AccountsInv, LoginsInv

\* A session ends, or a restore or a logout begins; a restore learns whom the stored
\* credential is of, who between sign-ins is whom the store works for.
LEMMA RestoringKeeps ==
    ASSUME AccountsInv,
           \/ Accounts!Restore \/ Accounts!RestoreMe \/ Accounts!Leave \/ Accounts!SessionEnds
           \/ Accounts!Answer
    PROVE  AccountsInv'
<1>1. UNCHANGED <<issued, registered, credited, credential, active, installed, copies, app, login,
                  sync, crossed, mixed, doubt>>
  BY DEF Accounts!Restore, Accounts!RestoreMe, Accounts!Leave, Accounts!SessionEnds,
         Accounts!Answer, Accounts!serverVars, Accounts!storeVars, Accounts!ghosts
<1>2. AccountTypes /\ LoginsInv /\ ShownInv /\ Accounts!Caller \in Users \cup {0}
  BY CallerIsStored DEF AccountsInv
<1>3. live' \subseteq live /\ pending' \subseteq Users
  BY <1>2 DEF Accounts!Restore, Accounts!RestoreMe, Accounts!Leave, Accounts!SessionEnds,
         Accounts!Answer, Accounts!serverVars, Accounts!storeVars, AccountTypes
<1>4. \/ UNCHANGED restore
      \/ restore'.step # "known" /\ restore' \in Restoring
      \/ /\ Accounts!Caller # 0
         /\ restore' = [step |-> "known", user |-> Accounts!Caller, mid |-> Accounts!Unsettled]
  <2>1. restore \in Restoring /\ Accounts!NoRestore \in Restoring /\ Accounts!NoRestore.step = "off"
    BY <1>2 DEF AccountTypes, Accounts!NoRestore, Restoring
  <2>2. \A where \in {"loaded", "refused", "leaving"} :
            /\ [restore EXCEPT !.step = where] \in Restoring
            /\ [restore EXCEPT !.step = where].step = where
    BY <2>1 DEF Restoring
  <2>3. CASE Accounts!SessionEnds \/ Accounts!Answer
    BY <2>3 DEF Accounts!SessionEnds, Accounts!Answer
  <2>4. CASE Accounts!Restore \/ Accounts!Leave
    BY <2>2, <2>4 DEF Accounts!Restore, Accounts!Leave
  <2>5. CASE Accounts!RestoreMe
    BY <2>1, <2>2, <2>5 DEF Accounts!RestoreMe
  <2> QED
    BY <2>3, <2>4, <2>5
<1>5. Accounts!Unsettled \in BOOLEAN
  BY <1>2 DEF Accounts!Unsettled, Accounts!HalfIn, AccountTypes
<1>6. AccountTypes'
  BY <1>1, <1>2, <1>3, <1>4, <1>5 DEF AccountTypes, Restoring
<1>7. LoginsInv'
  BY <1>1, <1>2, LoginsRest
<1>8. Accounts!Caller' \in {Accounts!Caller, 0} /\ (Accounts!HalfIn' <=> Accounts!HalfIn)
  BY <1>1, <1>2, <1>3, CallerStays DEF Accounts!HalfIn
<1>9. RunsInv'
  BY <1>1, <1>8, RunsRest
<1>10. \/ UNCHANGED restore
       \/ restore'.step # "known"
       \/ restore'.mid
       \/ restore'.user = active
  <2>1. CASE /\ Accounts!Caller # 0
             /\ restore' = [step |-> "known", user |-> Accounts!Caller, mid |-> Accounts!Unsettled]
    <3>1. CASE Accounts!Unsettled
      BY <2>1, <3>1
    <3>2. CASE ~Accounts!Unsettled
      <4>1. Accounts!Caller \in {0, active}
        BY <1>2, <3>2 DEF Accounts!Unsettled, ShownInv, ForceInv, Settled
      <4> QED
        BY <2>1, <4>1
    <3> QED
      BY <3>1, <3>2
  <2> QED
    BY <1>4, <2>1
<1>11. ShownInv'
  BY <1>1, <1>8, <1>10, ShownRests
<1> QED
  BY <1>6, <1>7, <1>9, <1>11 DEF AccountsInv

\* A restore or a logout ends: the app shows whom the session is of, or nobody.
LEMMA RestoredKeeps ==
    ASSUME AccountsInv, Accounts!Restored \/ Accounts!Left
    PROVE  AccountsInv'
<1>1. /\ UNCHANGED <<issued, live, registered, credited, active, installed, pending, copies, login,
                     sync, crossed>>
      /\ restore' = Accounts!NoRestore
      /\ \/ app' = 0 /\ credential' = 0 /\ mixed' = FALSE /\ doubt' = doubt
         \/ /\ restore.step = "known" /\ app' = restore.user /\ doubt' = restore.mid
            /\ UNCHANGED <<credential, mixed>>
  BY DEF Accounts!Restored, Accounts!Left, Accounts!serverVars
<1>2. AccountTypes /\ LoginsInv /\ ShownInv /\ 0 \notin Users
  BY CallerIsStored DEF AccountsInv
<1>3. AccountTypes'
  <2>1. Accounts!NoRestore \in Restoring
    BY DEF Accounts!NoRestore, Restoring
  <2>2. mixed' \in BOOLEAN /\ doubt' \in BOOLEAN /\ credential' \in Issuable \cup {0}
    BY <1>1, <1>2 DEF AccountTypes, Restoring
  <2> QED
    BY <1>1, <1>2, <2>1, <2>2 DEF AccountTypes
<1>4. credential' \in {credential, 0}
  BY <1>1
<1>5. LoginsInv'
  BY <1>1, <1>2, <1>4, LoginsRest
<1>6. /\ Accounts!Caller' \in {Accounts!Caller, 0} /\ (credential' = 0 => Accounts!Caller' = 0)
      /\ Accounts!HalfIn' <=> Accounts!HalfIn
  BY <1>1, <1>2, <1>4, CallerStays DEF Accounts!HalfIn
<1>7. RunsInv'
  BY <1>1, <1>6, RunsRest
<1>8. ShownInv'
  <2>1. ForceInv'
    BY <1>1, <1>2, <1>6 DEF ShownInv, ForceInv, Settled
  <2>2. RestoredInv'
    BY <1>1 DEF RestoredInv, Accounts!NoRestore
  <2>3. Accounts!ShownAsStored'
    BY <1>1, <1>2 DEF ShownInv, RestoredInv, Accounts!ShownAsStored
  <2> QED
    BY <2>1, <2>2, <2>3 DEF ShownInv
<1> QED
  BY <1>3, <1>5, <1>7, <1>8 DEF AccountsInv

LEMMA NoRunIsRunning == Accounts!NoRun \in Running /\ Accounts!NoRun.step = "off"
BY DEF Accounts!NoRun, Running

LEMMA ExpireKeeps ==
    ASSUME AccountsInv, Accounts!Expire
    PROVE  AccountsInv'
<1>1. /\ UNCHANGED <<issued, live, registered, credited, active, installed, pending, copies, login,
                     restore, crossed, doubt>>
      /\ sync' = Accounts!NoRun /\ app' = 0 /\ credential' = 0 /\ mixed' = FALSE
  BY DEF Accounts!Expire, Accounts!serverVars
<1>2. AccountTypes /\ LoginsInv /\ RunsInv /\ ShownInv
  BY DEF AccountsInv
<1>3. Accounts!NoRun \in Running /\ sync'.step = "off"
  BY <1>1, NoRunIsRunning
<1>4. AccountTypes'
  BY <1>1, <1>2, <1>3 DEF AccountTypes
<1>5. LoginsInv'
  BY <1>1, <1>2, LoginsRest
<1>6. RunsInv'
  BY <1>1, <1>2, <1>3 DEF RunsInv, RunInv, OwnInv, OtherInv, PageInv, Accounts!AnswersOwn,
                          Accounts!CopiesOwn
<1>7. Accounts!Caller' = 0
  BY <1>1, <1>2, CallerStays
<1>8. ShownInv'
  BY <1>1, <1>2, <1>7 DEF ShownInv, ForceInv, Settled, RestoredInv, Accounts!ShownAsStored
<1> QED
  BY <1>4, <1>5, <1>6, <1>8 DEF AccountsInv

\* A crash: what is stored stays, and a login between credential and identity is cut.
LEMMA CrashKeeps ==
    ASSUME AccountsInv, Accounts!Crash
    PROVE  AccountsInv'
<1>1. /\ UNCHANGED <<issued, live, registered, credited, credential, active, installed, pending,
                     copies, crossed, doubt>>
      /\ app' = 0 /\ login' = [l \in Logins |-> Accounts!NoLogin]
      /\ restore' = Accounts!NoRestore /\ sync' = Accounts!NoRun
      /\ mixed' = Accounts!Unsettled
  BY DEF Accounts!Crash, Accounts!serverVars, Accounts!storeVars
<1>2. AccountTypes /\ TokenInv /\ DeviceInv /\ RunsInv /\ ShownInv
  BY DEF AccountsInv, LoginsInv
<1>3. /\ Accounts!NoLogin \in Signing /\ Accounts!NoLogin.step = "off"
      /\ restore'.step = "off" /\ sync'.step = "off"
      /\ Accounts!NoRestore \in Restoring /\ Accounts!NoRun \in Running
  BY <1>1 DEF Accounts!NoLogin, Accounts!NoRestore, Accounts!NoRun, Signing, Restoring, Running
<1>4. Accounts!Unsettled \in BOOLEAN
  BY <1>2 DEF Accounts!Unsettled, Accounts!HalfIn, AccountTypes
<1>5. AccountTypes'
  BY <1>1, <1>2, <1>3, <1>4 DEF AccountTypes
<1>6. TokenInv'
  BY <1>1, <1>2, <1>3 DEF TokenInv
<1>7. /\ \A v, d : Binds(v, d)' => Binds(v, d)
      /\ Owned' = Owned
  BY <1>1, <1>3 DEF Binds, Owned
<1>8. DeviceInv'
  BY <1>1, <1>2, <1>3, <1>7 DEF DeviceInv
<1>9. RunsInv'
  BY <1>1, <1>2, <1>3 DEF RunsInv, RunInv, OwnInv, OtherInv, PageInv, Accounts!AnswersOwn,
                          Accounts!CopiesOwn
<1>10. ShownInv'
  <2>1. ForceInv'
    <3>1. Accounts!Caller' = Accounts!Caller
      BY <1>1 DEF Accounts!Caller
    <3> QED
      BY <1>1, <1>2, <3>1 DEF ShownInv, ForceInv, Settled, Accounts!Unsettled
  <2> QED
    BY <1>1, <1>3, <2>1 DEF ShownInv, RestoredInv, Accounts!ShownAsStored
<1> QED
  BY <1>5, <1>6, <1>8, <1>9, <1>10 DEF AccountsInv, LoginsInv

\* The steps of a run leave who is signed in, and what the app shows.
LEMMA RunMoves ==
    ASSUME AccountsInv, AccountTypes', RunsInv',
           UNCHANGED <<issued, live, registered, credential, active, installed, app, login, restore,
                       crossed, mixed, doubt>>
    PROVE  AccountsInv'
<1>1. AccountTypes /\ LoginsInv
  BY DEF AccountsInv
<1>2. LoginsInv'
  BY <1>1, LoginsRest
<1>3. (Accounts!HalfIn' <=> Accounts!HalfIn) /\ Accounts!Caller' = Accounts!Caller
  BY DEF Accounts!HalfIn, Accounts!Caller
<1>4. ShownInv'
  BY <1>3, ShownRests
<1> QED
  BY <1>2, <1>4 DEF AccountsInv

\* The identity of a run is of the user the store works for when it begins.
LEMMA BeginKeeps ==
    ASSUME AccountsInv, Accounts!Begin
    PROVE  AccountsInv'
<1>1. /\ active # 0
      /\ sync' = [step |-> "begun", user |-> active, device |-> installed[active], owner |-> 0,
                  next |-> 0, of |-> 0, turn |-> "own", mid |-> FALSE]
      /\ UNCHANGED <<issued, live, registered, credited, credential, active, installed, pending,
                     copies, app, login, restore, crossed, mixed, doubt>>
  BY DEF Accounts!Begin, Accounts!NoRun, Accounts!serverVars, Accounts!storeVars, Accounts!ghosts
<1>2. AccountTypes /\ TokenInv /\ DeviceInv /\ RunsInv
  BY DEF AccountsInv, LoginsInv
<1>3. active \in Users /\ installed[active] \in Devices \cup {0}
  BY <1>1, <1>2 DEF AccountTypes
<1>4. AccountTypes'
  <2>1. sync' \in Running
    BY <1>1, <1>3 DEF Running
  <2> QED
    BY <1>1, <1>2, <2>1 DEF AccountTypes
<1>5. /\ sync'.step = "begun" /\ sync'.user = active /\ sync'.device = installed[active]
      /\ sync'.turn = "own"
  BY <1>1
<1>6. <<active, installed[active]>> \in Owned
  BY <1>1, <1>2, <1>3 DEF TokenInv, DeviceInv
<1>7. RunsInv'
  <2>1. RunInv'
    BY <1>1, <1>3, <1>5, <1>6 DEF RunInv, Owned
  <2>2. OwnInv' /\ OtherInv' /\ PageInv'
    BY <1>1, <1>5 DEF OwnInv, OtherInv, PageInv
  <2>3. Accounts!AnswersOwn' /\ Accounts!CopiesOwn'
    BY <1>1, <1>2 DEF RunsInv, Accounts!AnswersOwn, Accounts!CopiesOwn
  <2> QED
    BY <2>1, <2>2, <2>3 DEF RunsInv
<1> QED
  BY <1>1, <1>4, <1>7, RunMoves

\* What a run keeps is kept by a step of it that goes on for the same learner, reads the
\* outbox for the user of the store, and takes no page.
LEMMA RunGoesOn ==
    ASSUME AccountsInv, sync' \in Running, sync.step # "off",
           sync'.step \notin {"off", "begun", "paged"},
           sync'.user = sync.user, sync'.device = sync.device, sync'.turn = sync.turn,
           \/ sync'.owner = sync.owner /\ (sync'.step = "told" => sync.step = "sending")
              /\ sync'.step # "sending"
           \/ sync'.owner = active /\ active \in Users,
           \/ sync.step \in {"ready", "sending", "told", "pulling"}
           \/ sync'.step = "expired"
           \/ Accounts!Caller = sync.user,
           UNCHANGED <<issued, live, registered, credential, active, login, crossed>>
    PROVE  RunInv' /\ OwnInv' /\ OtherInv' /\ PageInv'
<1>1. RunInv /\ OwnInv /\ OtherInv
  BY DEF AccountsInv, RunsInv
<1>2. Accounts!Caller' = Accounts!Caller /\ (Accounts!HalfIn' <=> Accounts!HalfIn)
  BY DEF Accounts!Caller, Accounts!HalfIn
<1>3. RunInv'
  BY <1>1 DEF RunInv, Owned
<1>4. OwnInv'
  BY <1>1, <1>2 DEF OwnInv, Settled
<1>5. OtherInv' /\ PageInv'
  BY <1>1, <1>2 DEF OtherInv, PageInv, Settled
<1> QED
  BY <1>3, <1>4, <1>5

\* The session is of the run's user, who is then the user of the store.
LEMMA ValidateKeeps ==
    ASSUME AccountsInv, Accounts!Validate
    PROVE  AccountsInv'
<1>1. /\ sync.step = "begun"
      /\ sync' = [sync EXCEPT !.step = IF Accounts!Caller = sync.user THEN "ready" ELSE "expired"]
      /\ UNCHANGED <<issued, live, registered, credited, credential, active, installed, pending,
                     copies, app, login, restore, crossed, mixed, doubt>>
  BY DEF Accounts!Validate, Accounts!SameUser, Accounts!serverVars, Accounts!storeVars,
         Accounts!ghosts
<1>2. AccountTypes /\ RunsInv
  BY DEF AccountsInv
<1>3. /\ sync' \in Running /\ sync'.user = sync.user /\ sync'.device = sync.device
      /\ sync'.turn = sync.turn /\ sync'.owner = sync.owner
      /\ sync'.step = IF Accounts!Caller = sync.user THEN "ready" ELSE "expired"
  BY <1>1, <1>2 DEF AccountTypes, Running
<1>4. AccountTypes'
  BY <1>1, <1>2, <1>3 DEF AccountTypes
<1>5. RunInv' /\ OwnInv' /\ OtherInv' /\ PageInv'
  BY <1>1, <1>3, RunGoesOn
<1>6. RunsInv'
  BY <1>1, <1>2, <1>5 DEF RunsInv, Accounts!AnswersOwn, Accounts!CopiesOwn
<1> QED
  BY <1>1, <1>4, <1>6, RunMoves

\* What is sent is of the user of the store.
LEMMA GatherKeeps ==
    ASSUME AccountsInv, Accounts!Gather
    PROVE  AccountsInv'
<1>1. /\ sync.step = "ready"
      /\ sync' = IF active \in pending THEN [sync EXCEPT !.step = "sending", !.owner = active]
                 ELSE [sync EXCEPT !.step = "pulling"]
      /\ UNCHANGED <<issued, live, registered, credited, credential, active, installed, pending,
                     copies, app, login, restore, crossed, mixed, doubt>>
  BY DEF Accounts!Gather, Accounts!serverVars, Accounts!storeVars, Accounts!ghosts
<1>2. AccountTypes /\ RunsInv /\ sync \in Running
  BY DEF AccountsInv, AccountTypes
<1>3. /\ sync' \in Running /\ sync'.user = sync.user /\ sync'.device = sync.device
      /\ sync'.turn = sync.turn
      /\ \/ sync'.step = "sending" /\ sync'.owner = active /\ active \in Users
         \/ sync'.step = "pulling" /\ sync'.owner = sync.owner
  <2>1. CASE active \in pending
    <3>1. active \in Users
      BY <2>1, <1>2 DEF AccountTypes
    <3>2. sync' = [[sync EXCEPT !.step = "sending"] EXCEPT !.owner = active]
      BY <1>1, <2>1
    <3> QED
      BY <1>2, <3>1, <3>2 DEF Running
  <2>2. CASE active \notin pending
    BY <1>1, <1>2, <2>2 DEF Running
  <2> QED
    BY <2>1, <2>2
<1>4. AccountTypes'
  BY <1>1, <1>2, <1>3 DEF AccountTypes
<1>5. RunInv' /\ OwnInv' /\ OtherInv' /\ PageInv'
  BY <1>1, <1>3, RunGoesOn
<1>6. RunsInv'
  BY <1>1, <1>2, <1>5 DEF RunsInv, Accounts!AnswersOwn, Accounts!CopiesOwn
<1> QED
  BY <1>1, <1>4, <1>6, RunMoves

\* The server takes answers of the session's user from that user's installation, which no
\* other learner has: they are the run's learner's, and so is the session, or they are not
\* taken.
LEMMA CreditKeeps ==
    ASSUME AccountsInv, Accounts!Send
    PROVE  AccountsInv'
<1>1. /\ sync.step = "sending"
      /\ IF <<Accounts!Caller, sync.device>> \in registered
         THEN /\ credited' = credited \cup {[of |-> sync.owner, to |-> Accounts!Caller,
                                             torn |-> Accounts!Torn]}
              /\ sync' = [sync EXCEPT !.step = "told"]
         ELSE sync' = [sync EXCEPT !.step = "expired"] /\ UNCHANGED credited
      /\ UNCHANGED <<issued, live, registered, credential, active, installed, pending, copies, app,
                     login, restore, crossed, mixed, doubt>>
  BY DEF Accounts!Send, Accounts!serverVars, Accounts!storeVars, Accounts!ghosts
<1>2. AccountTypes /\ RunsInv /\ DeviceInv /\ sync \in Running
  BY DEF AccountsInv, LoginsInv, AccountTypes
<1>3. /\ sync' \in Running /\ sync'.user = sync.user /\ sync'.device = sync.device
      /\ sync'.turn = sync.turn /\ sync'.owner = sync.owner /\ sync'.step \in {"told", "expired"}
  BY <1>1, <1>2 DEF Running
<1>4. RunInv /\ OwnInv /\ OtherInv /\ Accounts!AnswersOwn /\ sync.step = "sending"
  BY <1>1, <1>2 DEF RunsInv
<1>5. sync.owner \in Users /\ sync.user \in Users
  BY <1>4 DEF RunInv
<1>6. PICK torn \in BOOLEAN : torn <=> Accounts!Torn
  OBVIOUS
<1>7. torn = Accounts!Torn
  BY <1>6 DEF Accounts!Torn
<1>8. AccountTypes'
  <2>1. credited' \subseteq [of : Users, to : Users, torn : BOOLEAN]
    <3>1. CASE <<Accounts!Caller, sync.device>> \in registered
      <4>1. Accounts!Caller \in Users
        BY <1>2, <3>1 DEF AccountTypes
      <4>2. credited' = credited \cup {[of |-> sync.owner, to |-> Accounts!Caller, torn |-> torn]}
        BY <1>1, <1>7, <3>1
      <4> QED
        BY <1>2, <1>5, <1>6, <4>1, <4>2 DEF AccountTypes
    <3>2. CASE <<Accounts!Caller, sync.device>> \notin registered
      BY <1>1, <1>2, <3>2 DEF AccountTypes
    <3> QED
      BY <3>1, <3>2
  <2> QED
    BY <1>1, <1>2, <1>3, <2>1 DEF AccountTypes
<1>9. ASSUME <<Accounts!Caller, sync.device>> \in registered, ~torn
      PROVE  sync.owner = Accounts!Caller
  <2>1. sync.turn # "torn" /\ sync.device \notin crossed
    BY <1>6, <1>9 DEF Accounts!Torn
  <2>2. sync.device \in Devices /\ Accounts!Caller \in Users
    BY <1>2, <1>9 DEF AccountTypes
  <2>3. Binds(sync.user, sync.device) /\ Binds(Accounts!Caller, sync.device)
    BY <1>4, <1>9, <2>1 DEF RunInv, Owned, Binds
  <2>4. Accounts!Caller = sync.user
    BY <1>2, <1>5, <2>1, <2>2, <2>3 DEF DeviceInv
  <2>5. sync.turn = "own"
    BY <1>2, <1>4, <2>1, <2>4 DEF OtherInv, Running
  <2> QED
    BY <1>4, <2>4, <2>5 DEF OwnInv
<1>10. Accounts!AnswersOwn'
  <2>1. CASE <<Accounts!Caller, sync.device>> \in registered
    <3>1. credited' = credited \cup {[of |-> sync.owner, to |-> Accounts!Caller, torn |-> torn]}
      BY <1>1, <1>7, <2>1
    <3>2. torn \/ sync.owner = Accounts!Caller
      BY <1>9, <2>1
    <3> QED
      BY <1>4, <3>1, <3>2 DEF Accounts!AnswersOwn
  <2>2. CASE <<Accounts!Caller, sync.device>> \notin registered
    BY <1>1, <1>4, <2>2 DEF Accounts!AnswersOwn
  <2> QED
    BY <2>1, <2>2
<1>11. RunInv' /\ OwnInv' /\ OtherInv' /\ PageInv'
  BY <1>1, <1>3, RunGoesOn
<1>12. RunsInv'
  BY <1>1, <1>2, <1>10, <1>11 DEF RunsInv, Accounts!CopiesOwn
<1> QED
  BY <1>1, <1>8, <1>12, RunMoves

LEMMA AcknowledgeKeeps ==
    ASSUME AccountsInv, Accounts!Acknowledge
    PROVE  AccountsInv'
<1>1. /\ sync.step = "told" /\ pending' \subseteq pending
      /\ sync' = [sync EXCEPT !.step = "ready"] \/ sync' = Accounts!NoRun
      /\ UNCHANGED <<issued, live, registered, credited, credential, active, installed, copies, app,
                     login, restore, crossed, mixed, doubt>>
  BY DEF Accounts!Acknowledge, Accounts!serverVars, Accounts!ghosts
<1>2. AccountTypes /\ RunsInv /\ sync \in Running
  BY DEF AccountsInv, AccountTypes
<1>3. /\ sync' \in Running
      /\ \/ /\ sync'.step = "ready" /\ sync'.user = sync.user /\ sync'.device = sync.device
            /\ sync'.turn = sync.turn /\ sync'.owner = sync.owner
         \/ sync'.step = "off"
  <2>1. CASE sync' = Accounts!NoRun
    BY <2>1, NoRunIsRunning
  <2>2. CASE sync' = [sync EXCEPT !.step = "ready"]
    BY <1>2, <2>2 DEF Running
  <2> QED
    BY <1>1, <2>1, <2>2
<1>4. AccountTypes'
  BY <1>1, <1>2, <1>3 DEF AccountTypes
<1>5. RunInv' /\ OwnInv' /\ OtherInv' /\ PageInv'
  <2>1. CASE sync'.step = "off"
    BY <2>1 DEF RunInv, OwnInv, OtherInv, PageInv
  <2>2. CASE sync'.step = "ready"
    BY <1>1, <1>3, <2>2, RunGoesOn
  <2> QED
    BY <1>3, <2>1, <2>2
<1>6. RunsInv'
  BY <1>1, <1>2, <1>5 DEF RunsInv, Accounts!AnswersOwn, Accounts!CopiesOwn
<1> QED
  BY <1>1, <1>4, <1>6, RunMoves

\* A page is of the session's user; between sign-ins that is the user of the store.
LEMMA PullKeeps ==
    ASSUME AccountsInv, Accounts!Pull
    PROVE  AccountsInv'
<1>1. PICK c, met : c = Accounts!Caller /\ met = (Accounts!HalfIn \/ sync.turn = "torn")
  OBVIOUS
<1>2. /\ sync.step = "pulling"
      /\ \/ sync' = [sync EXCEPT !.step = "expired"]
         \/ sync' = Accounts!NoRun
         \/ /\ c # 0
            /\ sync' = [sync EXCEPT !.step = "paged", !.next = c, !.of = c, !.mid = met]
      /\ UNCHANGED <<issued, live, registered, credited, credential, active, installed, pending,
                     copies, app, login, restore, crossed, mixed, doubt>>
  BY <1>1 DEF Accounts!Pull, Accounts!serverVars, Accounts!storeVars, Accounts!ghosts
<1>3. AccountTypes /\ RunsInv /\ sync \in Running /\ c \in Users \cup {0}
  BY <1>1, CallerIsStored DEF AccountsInv, AccountTypes
<1>4. /\ sync' \in Running
      /\ \/ sync'.step = "off"
         \/ /\ sync'.user = sync.user /\ sync'.device = sync.device
            /\ sync'.turn = sync.turn /\ sync'.owner = sync.owner
            /\ \/ sync'.step = "expired"
               \/ sync'.step = "paged" /\ sync'.of = c /\ c # 0 /\ sync'.mid = met
  <2>1. CASE sync' = Accounts!NoRun
    BY <2>1, NoRunIsRunning
  <2>2. CASE sync' = [sync EXCEPT !.step = "expired"]
    BY <1>3, <2>2 DEF Running
  <2>3. CASE c # 0 /\ sync' = [sync EXCEPT !.step = "paged", !.next = c, !.of = c, !.mid = met]
    <3>1. sync' = [[[[sync EXCEPT !.step = "paged"] EXCEPT !.next = c] EXCEPT !.of = c]
                        EXCEPT !.mid = met]
      BY <2>3
    <3>2. \A s \in Running : /\ [s EXCEPT !.step = "paged"] \in Running
                             /\ [s EXCEPT !.mid = met] \in Running
      <4>1. met \in BOOLEAN
        BY <1>1
      <4> QED
        BY <4>1 DEF Running
    <3>3. \A s \in Running : [s EXCEPT !.next = c] \in Running /\ [s EXCEPT !.of = c] \in Running
      BY <1>3 DEF Running
    <3>4. sync' \in Running
      BY <1>3, <3>1, <3>2, <3>3
    <3> QED
      BY <1>3, <2>3, <3>4 DEF Running
  <2> QED
    BY <1>2, <2>1, <2>2, <2>3
<1>5. AccountTypes'
  BY <1>2, <1>3, <1>4 DEF AccountTypes
<1>6. RunInv' /\ OwnInv' /\ OtherInv' /\ PageInv'
  <2>1. CASE sync'.step = "off"
    BY <2>1 DEF RunInv, OwnInv, OtherInv, PageInv
  <2>2. CASE sync'.step = "expired"
    BY <1>2, <1>4, <2>2, RunGoesOn
  <2>3. CASE sync'.step = "paged"
    <3>1. RunInv /\ OwnInv /\ OtherInv /\ sync.step = "pulling"
      BY <1>2, <1>3 DEF RunsInv
    <3>2. Accounts!Caller' = Accounts!Caller /\ (Accounts!HalfIn' <=> Accounts!HalfIn)
      BY <1>2 DEF Accounts!Caller, Accounts!HalfIn
    <3>3. RunInv'
      BY <1>2, <1>3, <1>4, <2>3, <3>1 DEF RunInv, Owned
    <3>4. OwnInv' /\ OtherInv'
      BY <1>2, <1>4, <2>3, <3>1, <3>2 DEF OwnInv, OtherInv, Settled
    <3>5. ASSUME ~met
          PROVE  c = active
      <4>1. ~Accounts!HalfIn /\ sync.turn \in {"own", "other"}
        BY <1>1, <1>3, <3>5 DEF Running
      <4>2. Settled
        BY <3>1, <4>1 DEF OwnInv, OtherInv
      <4> QED
        BY <1>1, <1>4, <2>3, <4>2 DEF Settled
    <3>6. PageInv'
      BY <1>2, <1>4, <2>3, <3>5 DEF PageInv
    <3> QED
      BY <3>3, <3>4, <3>6
  <2> QED
    BY <1>4, <2>1, <2>2, <2>3
<1>7. RunsInv'
  BY <1>2, <1>3, <1>6 DEF RunsInv, Accounts!AnswersOwn, Accounts!CopiesOwn
<1> QED
  BY <1>2, <1>5, <1>7, RunMoves

\* A page goes into the tables of the user of the store: its own, unless a sign-in met it.
LEMMA ApplyPageKeeps ==
    ASSUME AccountsInv, Accounts!ApplyPage
    PROVE  AccountsInv'
<1>1. /\ sync.step = "paged" /\ sync' = Accounts!NoRun
      /\ \/ UNCHANGED copies
         \/ copies' = [copies EXCEPT ![active] = @ \cup {[of |-> sync.of, torn |-> sync.mid]}]
      /\ UNCHANGED <<issued, live, registered, credited, credential, active, installed, pending, app,
                     login, restore, crossed, mixed, doubt>>
  BY DEF Accounts!ApplyPage, Accounts!serverVars, Accounts!ghosts
<1>2. AccountTypes /\ RunsInv /\ sync'.step = "off" /\ sync.of \in Users /\ sync.mid \in BOOLEAN
  BY <1>1 DEF AccountsInv, Accounts!NoRun, RunsInv, RunInv, AccountTypes, Running
<1>3. AccountTypes'
  <2>1. copies' \in [Users -> SUBSET [of : Users, torn : BOOLEAN]]
    BY <1>1, <1>2 DEF AccountTypes
  <2>2. sync' \in Running
    BY <1>1 DEF Running, Accounts!NoRun
  <2> QED
    BY <1>1, <1>2, <2>1, <2>2 DEF AccountTypes
<1>4. RunsInv'
  <2>1. RunInv' /\ OwnInv' /\ OtherInv' /\ PageInv'
    BY <1>2 DEF RunInv, OwnInv, OtherInv, PageInv
  <2>2. Accounts!AnswersOwn'
    BY <1>1, <1>2 DEF RunsInv, Accounts!AnswersOwn
  <2>3. Accounts!CopiesOwn'
    <3> SUFFICES ASSUME NEW u \in Users, NEW c \in copies'[u]
                 PROVE  c.of = u \/ c.torn
      BY DEF Accounts!CopiesOwn
    <3>1. CASE c \in copies[u]
      BY <1>2, <3>1 DEF RunsInv, Accounts!CopiesOwn
    <3>2. CASE c \notin copies[u]
      <4>1. u = active /\ c = [of |-> sync.of, torn |-> sync.mid]
        BY <1>1, <1>2, <3>2 DEF AccountTypes
      <4>2. sync.mid \/ sync.of = active
        BY <1>1, <1>2 DEF RunsInv, PageInv
      <4> QED
        BY <4>1, <4>2
    <3> QED
      BY <3>1, <3>2
  <2> QED
    BY <2>1, <2>2, <2>3 DEF RunsInv
<1> QED
  BY <1>1, <1>3, <1>4, RunMoves

LEMMA AccountsInvariant == LearnerSpec => []AccountsInv
<1>1. LearnerInit => AccountsInv
  <2> SUFFICES ASSUME LearnerInit
               PROVE  AccountsInv
    OBVIOUS
  <2>1. Accounts!Init
    BY DEF LearnerInit
  <2>2. PICK before \in SUBSET (Users \cap Devices) :
          /\ issued = [t \in Issuable |-> 0] /\ live = {} /\ credited = {}
          /\ registered = {<<u, u>> : u \in before}
          /\ credential = 0 /\ installed = [u \in Users |-> IF u \in before THEN u ELSE 0]
          /\ active \in IF before = {} THEN {0} ELSE before
          /\ pending = {} /\ copies = [u \in Users |-> {}]
          /\ app = 0 /\ login = [l \in Logins |-> Accounts!NoLogin]
          /\ restore = Accounts!NoRestore /\ sync = Accounts!NoRun
          /\ crossed = {} /\ mixed = FALSE /\ doubt = FALSE
    <3>1. ration.before \in SUBSET (Users \cap Devices)
      BY <2>1, AccountAssumption DEF Accounts!Init
    <3> QED
      BY <2>1, <3>1 DEF Accounts!Init
  <2>3. /\ 0 \notin Users /\ Accounts!NoLogin \in Signing /\ Accounts!NoLogin.step = "off"
        /\ sync.step = "off" /\ restore.step = "off" /\ sync \in Running /\ restore \in Restoring
    BY <2>2, AccountAssumption DEF Accounts!NoLogin, Accounts!NoRestore, Accounts!NoRun, Signing,
                                   Running, Restoring
  <2>4. AccountTypes
    <3>1. /\ installed \in [Users -> Devices \cup {0}] /\ active \in Users \cup {0}
          /\ registered \subseteq Users \X Devices
      BY <2>2
    <3>2. /\ issued \in [Issuable -> Users \cup {0}]
          /\ copies \in [Users -> SUBSET [of : Users, torn : BOOLEAN]]
          /\ login \in [Logins -> Signing]
      BY <2>2, <2>3
    <3>3. mixed \in BOOLEAN /\ doubt \in BOOLEAN
      BY <2>2
    <3> QED
      BY <2>2, <2>3, <3>1, <3>2, <3>3 DEF AccountTypes
  <2>5. LoginsInv
    <3>1. TokenInv
      BY <2>2, <2>3 DEF TokenInv
    <3>2. \A u, d : Binds(u, d) => u = d
      BY <2>2, <2>3 DEF Binds
    <3>3. \A u \in Users : installed[u] # 0 => <<u, installed[u]>> \in Owned
      BY <2>2 DEF Owned
    <3>4. DeviceInv
      BY <2>2, <2>3, <3>2, <3>3 DEF DeviceInv
    <3> QED
      BY <3>1, <3>4 DEF LoginsInv
  <2>6. RunsInv
    BY <2>2, <2>3 DEF RunsInv, RunInv, OwnInv, OtherInv, PageInv, Accounts!AnswersOwn,
                      Accounts!CopiesOwn
  <2>7. ShownInv
    <3>1. Accounts!Caller = 0
      BY <2>2, <2>4, CallerIsStored
    <3> QED
      BY <2>2, <2>3, <3>1 DEF ShownInv, ForceInv, Settled, RestoredInv, Accounts!ShownAsStored
  <2> QED
    BY <2>4, <2>5, <2>6, <2>7 DEF AccountsInv
<1>2. AccountsInv /\ [Accounts!Next]_(Accounts!vars) => AccountsInv'
  <2> SUFFICES ASSUME AccountsInv, [Accounts!Next]_(Accounts!vars)
               PROVE  AccountsInv'
    OBVIOUS
  <2>1. ASSUME NEW l \in Logins,
               \/ \E u \in Users : Accounts!Authenticate(l, u)
               \/ Accounts!SaveCredential(l) \/ Accounts!AskMe(l) \/ Accounts!Name(l)
               \/ Accounts!Register(l) \/ Accounts!SaveIdentity(l)
               \/ Accounts!Lose(l) \/ Accounts!CleanUp(l)
        PROVE  AccountsInv'
    BY <2>1, AuthenticateKeeps, SaveCredentialKeeps, AskOrLoseKeeps, NameKeeps, RegisterKeeps,
       SaveIdentityKeeps, CleanUpKeeps
  <2>2. CASE \/ Accounts!Restore \/ Accounts!RestoreMe \/ Accounts!Leave \/ Accounts!SessionEnds
             \/ Accounts!Answer \/ Accounts!Restored \/ Accounts!Left
    BY <2>2, RestoringKeeps, RestoredKeeps
  <2>3. CASE \/ Accounts!Begin \/ Accounts!Validate \/ Accounts!Gather \/ Accounts!Send
             \/ Accounts!Acknowledge \/ Accounts!Pull \/ Accounts!ApplyPage \/ Accounts!Expire
             \/ Accounts!Crash
    BY <2>3, BeginKeeps, ValidateKeeps, GatherKeeps, CreditKeeps, AcknowledgeKeeps, PullKeeps,
       ApplyPageKeeps, ExpireKeeps, CrashKeeps
  <2>4. CASE UNCHANGED Accounts!vars
    <3>1. UNCHANGED <<issued, live, registered, credited, credential, active, installed, pending,
                      copies, app, login, restore, sync, crossed, mixed, doubt>>
      BY <2>4 DEF Accounts!vars
    <3>2. AccountTypes'
      BY <3>1 DEF AccountsInv, AccountTypes
    <3>3. Accounts!Caller' = Accounts!Caller /\ (Accounts!HalfIn' <=> Accounts!HalfIn)
      BY <3>1 DEF Accounts!Caller, Accounts!HalfIn
    <3>4. RunsInv'
      BY <3>1, <3>3, RunsRest
    <3> QED
      BY <3>1, <3>2, <3>4, RunMoves
  <2> QED
    BY <2>1, <2>2, <2>3, <2>4 DEF Accounts!Next
<1> QED
  BY <1>1, <1>2, SceneSteps, PTL DEF LearnerSpec

\* Two learners of one device.  An answer is counted for whoever gave it, also when another
\* signs in under the run that hands it over; cards land in their own learner's tables, and
\* the app shows the learner the store works for; but for what met a sign-in on its way,
\* which each of the three names (application/profile.rs, sync/engine.rs,
\* storage/sqlite.rs).
THEOREM LearnersSound == LearnerSpec => []LearnersApart
<1>1. AccountsInv => LearnersApart
  BY DEF AccountsInv, RunsInv, ShownInv, LearnersApart
<1> QED
  BY <1>1, AccountsInvariant, PTL
=============================================================================
