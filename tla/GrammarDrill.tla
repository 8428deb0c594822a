----------------------------- MODULE GrammarDrill -----------------------------
(***************************************************************************)
(* A sitting of grammar practice, in the browser (grammar/session.rs,      *)
(* grammar/selection.rs, components/grammar/session.rs) and on a device    *)
(* from its mirrored bank (mobile components/grammar): points in the order *)
(* of their need, of each point the item shown least recently, answers     *)
(* graded and recorded under a session, one rating for each point of it.   *)
(* The Check button stays enabled while an answer is under way, requests   *)
(* fail and are answered late, items are promoted and retired.             *)
(*                                                                         *)
(* Points and items are numbers; a point of a lower number comes first in  *)
(* the syllabus.  An answer is right or wrong: grade is the same function  *)
(* on both sides, and a stored item never changes its revision.            *)
(***************************************************************************)
EXTENDS Integers, FiniteSets, Sequences, SequencesExt, FiniteSetsExt

CONSTANTS
    Items, PointOf,
    Opened, Sat,            \* session ids: opened by the server, by the device
    Length,                 \* SESSION_LENGTH
    Plans                   \* status of the items, and how much happens

VARIABLES
    status,     \* quiz_items.status
    recent,     \* quiz_item_exposures: items by served_at
    opening,    \* requests to start a session: what the server has done of them
    open,       \* grammar_sessions not completed
    attempts,   \* grammar_attempts
    mirror,     \* grammar_items of the device
    page,       \* the page in the browser and the page on the device
    sent,       \* submissions: requests of the browser, the outbox of the device
    closing,    \* requests to complete a session
    moment,     \* the clock both share
    shown,      \* history: how often each item was served
    calm,       \* history: sessions were opened one after another, of one bank
    hasty,      \* history: how often an answer was checked beside another
    left        \* what may still happen

vars == <<status, recent, opening, open, attempts, mirror, page, sent, closing, moment,
          shown, calm, hasty, left>>

Points == {PointOf[i] : i \in Items}
Pages == {"web", "device"}
NoStart == [step |-> "none", deck |-> <<>>, next |-> 1]
Fresh == [session |-> 0, waiting |-> 0, deck |-> <<>>, index |-> 1, answered |-> "no",
          hint |-> FALSE, ordinal |-> 0, correct |-> 0]

TypeOK ==
    /\ status \in [Items -> {"candidate", "active", "retired"}]
    /\ recent \in Seq(Items) /\ IsInjective(recent)
    /\ \A s \in Opened : /\ opening[s].step \in {"none", "chosen", "serving", "ready", "empty", "over"}
                         /\ opening[s].deck \in Seq(Items)
    /\ open \subseteq Opened \cup Sat /\ mirror \subseteq Items
    /\ \A k \in Pages :
          /\ page[k].session \in Opened \cup Sat \cup {0} /\ page[k].waiting \in Opened \cup {0}
          /\ page[k].deck \in Seq(Items) /\ page[k].index \in 1 .. Len(page[k].deck) + 1
          /\ page[k].answered \in {"no", "right", "wrong"} /\ page[k].correct \in Nat
    /\ \A r \in sent \cup attempts :
          /\ r.session \in Opened \cup Sat /\ r.item \in Items /\ r.at \in 0 .. moment
    /\ closing \subseteq Opened /\ shown \in [Items -> Nat]

Init ==
    /\ left \in Plans
    /\ status = left.bank
    /\ recent = <<>> /\ opening = [s \in Opened |-> NoStart] /\ open = {} /\ attempts = {}
    /\ mirror = {i \in Items : left.bank[i] = "active"}
    /\ page = [k \in Pages |-> Fresh] /\ sent = {} /\ closing = {} /\ moment = 0
    /\ shown = [i \in Items |-> 0] /\ calm = TRUE /\ hasty = 0

server == <<status, recent, opening, open, attempts>>
history == <<shown, calm, hasty>>
-----------------------------------------------------------------------------
(***************************************************************************)
(* The session the server opens.                                           *)
(***************************************************************************)

Of(S, p) == {r \in S : PointOf[r.item] = p}

\* accuracy, in units of 10^-4: the newest answer counts three tenths.
Accuracy(p) ==
    LET score(r) == IF r.right THEN 10000 ELSE 0
        answers == SetToSortSeq(Of(attempts, p), LAMBDA q, r : q.at < r.at)
    IN FoldLeft(LAMBDA w, r : (3 * score(r) + 7 * w) \div 10, score(answers[1]), Tail(answers))

\* SELECTION_ORDER: due points, new ones in the order of the syllabus, the others by
\* accuracy.
Bucket(p, due) == CASE p \in due -> 0 [] Of(attempts, p) = {} -> 1 [] OTHER -> 2
Sooner(p, q, due) ==
    \/ Bucket(p, due) < Bucket(q, due)
    \/ Bucket(p, due) = Bucket(q, due) /\ p \in due
    \/ Bucket(p, due) = Bucket(q, due) /\ p \notin due
       /\ \/ Bucket(p, due) = 1 /\ p < q
          \/ Bucket(p, due) = 2 /\ Accuracy(p) < Accuracy(q)
          \/ Bucket(p, due) = 2 /\ Accuracy(p) = Accuracy(q) /\ p < q

Askable == {i \in Items : status[i] = "active"}

\* Mutant of LeastRecent: the item of the lowest id.
FirstItem(p) == Min({i \in Askable : PointOf[i] = p})

\* LEAST_RECENTLY_SERVED: one never served, else the one served longest ago.
LeastRecent(p) ==
    LET mine == {i \in Askable : PointOf[i] = p}
        new  == mine \ ToSet(recent)
    IN IF new # {} THEN Min(new) ELSE SelectSeq(recent, LAMBDA i : i \in mine)[1]

\* select_area_practice, for any set of points whose schedule has come round.
Decks ==
    LET points == {PointOf[i] : i \in Askable}
        orders(due) == {o \in SetToSeqs(points) :
                           \A i, j \in DOMAIN o : i < j => Sooner(o[i], o[j], due)}
        first(o) == SubSeq(o, 1, Min({Length, Len(o)}))
    IN UNION {{[i \in DOMAIN first(o) |-> LeastRecent(first(o)[i])] : o \in orders(due)} :
                 due \in SUBSET {p \in points : Of(attempts, p) # {}}}

Choose(s) ==
    /\ opening[s].step = "chosen" /\ opening[s].deck = <<>>
    /\ IF Askable = {} THEN opening' = [opening EXCEPT ![s].step = "empty"] /\ UNCHANGED open
       ELSE \E deck \in Decks : /\ opening' = [opening EXCEPT ![s] = [@ EXCEPT !.deck = deck, !.step = "serving"]]
                                /\ open' = open \cup {s}
    /\ calm' = (calm /\ \A z \in Opened : opening[z].step # "serving")
    /\ UNCHANGED <<status, recent, attempts, mirror, page, sent, closing, moment, shown, hasty, left>>

\* record_exposure, a statement for each item.
Expose(s) ==
    /\ opening[s].step = "serving"
    /\ LET o == opening[s]
           item == o.deck[o.next]
       IN /\ recent' = Append(SelectSeq(recent, LAMBDA i : i # item), item)
          /\ shown' = [shown EXCEPT ![item] = @ + 1]
          /\ opening' = [opening EXCEPT ![s] = [o EXCEPT !.next = @ + 1,
                             !.step = IF o.next = Len(o.deck) THEN "ready" ELSE @]]
    /\ UNCHANGED <<status, open, attempts, mirror, page, sent, closing, moment, calm, hasty, left>>

\* The process dies, or a statement fails, between two exposures.
BreakOff(s) ==
    /\ opening[s].step = "serving" /\ left.upsets > 0 /\ left' = [left EXCEPT !.upsets = @ - 1]
    /\ opening' = [opening EXCEPT ![s].step = "over"] /\ calm' = FALSE
    /\ page' = [page EXCEPT !["web"].waiting = IF @ = s THEN 0 ELSE @]
    /\ UNCHANGED <<status, recent, open, attempts, mirror, sent, closing, moment, shown, hasty>>

\* Start is hidden while the page waits.
Start(s) ==
    /\ page["web"].session = 0 /\ page["web"].waiting = 0 /\ opening[s].step = "none"
    /\ \A z \in Opened : z < s => opening[z].step # "none"
    /\ left.starts > 0 /\ left' = [left EXCEPT !.starts = @ - 1]
    /\ opening' = [opening EXCEPT ![s].step = "chosen"]
    /\ page' = [page EXCEPT !["web"].waiting = s]
    /\ UNCHANGED <<status, recent, open, attempts, mirror, sent, closing, moment, history>>

Started(s) ==
    /\ page["web"].waiting = s /\ opening[s].step \in {"ready", "empty"}
    /\ page' = [page EXCEPT !["web"] =
                   IF opening[s].step = "empty" THEN [@ EXCEPT !.waiting = 0]
                   ELSE [Fresh EXCEPT !.session = s, !.deck = opening[s].deck]]
    /\ opening' = [opening EXCEPT ![s].step = "over"]
    /\ UNCHANGED <<status, recent, open, attempts, mirror, sent, closing, moment, history, left>>

\* The device draws its own: the rows it holds, by their ids.
StartOnDevice(s) ==
    /\ page["device"].session = 0 /\ mirror # {} /\ left.sittings > 0
    /\ \A r \in sent \cup attempts : r.session # s
    /\ left' = [left EXCEPT !.sittings = @ - 1]
    /\ page' = [page EXCEPT !["device"] = [Fresh EXCEPT !.session = s,
                   !.deck = SubSeq(SetToSortSeq(mirror, <), 1, Min({Length, Cardinality(mirror)}))]]
    /\ UNCHANGED <<server, mirror, sent, closing, moment, history>>
-----------------------------------------------------------------------------
(***************************************************************************)
(* The page.                                                               *)
(***************************************************************************)

Playing(k) == page[k].session # 0 /\ page[k].index <= Len(page[k].deck)
Current(k) == page[k].deck[page[k].index]
Under(k) == {r \in sent : r.session = page[k].session /\ (r.step # "queued" \/ ~r.deaf)}

\* grade, one function for page, device and server: an answer is right or it is not.
Graded == BOOLEAN

\* Check: each press is a submission of its own.
Check(k, right) ==
    /\ Playing(k) /\ page[k].answered = "no"
    /\ left.presses > 0 /\ left' = [left EXCEPT !.presses = @ - 1]
    /\ page' = [page EXCEPT ![k].ordinal = @ + 1]
    /\ moment' = moment + 1
    /\ sent' = sent \cup {[on |-> k, session |-> page[k].session, item |-> Current(k),
                           ordinal |-> page[k].ordinal + 1, hint |-> page[k].hint, right |-> right,
                           at |-> IF k = "device" THEN moment' ELSE 0, made |-> moment',
                           step |-> "sent", ok |-> TRUE, deaf |-> FALSE]}
    /\ hasty' = IF Under(k) # {} THEN hasty + 1 ELSE hasty
    /\ UNCHANGED <<server, mirror, closing, shown, calm>>

ShowHint(k) ==
    /\ Playing(k) /\ page[k].answered = "no" /\ ~page[k].hint
    /\ page' = [page EXCEPT ![k].hint = TRUE]
    /\ UNCHANGED <<server, mirror, sent, closing, moment, history, left>>

\* The verdict is taken for whatever item the page has come to.
Verdict(r) ==
    /\ r.step \in {"told", "queued"} /\ ~r.deaf
    /\ sent' = (sent \ {r}) \cup IF r.on = "web" THEN {} ELSE {[r EXCEPT !.deaf = TRUE]}
    /\ page' = IF ~r.ok THEN page
               ELSE [page EXCEPT ![r.on] = [@ EXCEPT
                        !.answered = IF r.right THEN "right" ELSE "wrong",
                        !.correct = IF r.right /\ r.ordinal = 1 /\ ~page[r.on].hint THEN @ + 1 ELSE @]]
    /\ UNCHANGED <<server, mirror, closing, moment, history, left>>

\* Mutant of MayGoOn: Next is always there.
MayGoOnAlways(k) == TRUE

MayGoOn(k) == page[k].answered # "no"

\* Next, and after the last item the session is closed.
GoOn(k) ==
    /\ Playing(k) /\ MayGoOn(k)
    /\ page' = [page EXCEPT ![k] = [@ EXCEPT !.index = @ + 1, !.answered = "no", !.hint = FALSE,
                                             !.ordinal = 0]]
    /\ closing' = IF k = "web" /\ page[k].index = Len(page[k].deck)
                  THEN closing \cup {page[k].session} ELSE closing
    /\ UNCHANGED <<server, mirror, sent, moment, history, left>>

\* The learner leaves the page: nothing hears the replies of its requests.
Leave(k) ==
    /\ page[k] # Fresh /\ page' = [page EXCEPT ![k] = Fresh]
    /\ left.leaves > 0 /\ left' = [left EXCEPT !.leaves = @ - 1]
    /\ sent' = {IF r.on = k THEN [r EXCEPT !.deaf = TRUE] ELSE r :
                   r \in {r \in sent : r.on # k \/ r.step # "told"}}
    /\ UNCHANGED <<server, mirror, closing, moment, history>>
-----------------------------------------------------------------------------
(***************************************************************************)
(* Recording.                                                              *)
(***************************************************************************)

\* A reply nobody waits for is forgotten.
Replied(r) == IF r.deaf THEN {} ELSE {[r EXCEPT !.step = "told"]}

\* web_context reads the clock, ensure_open the session, without a lock.
Hear(r) ==
    /\ r.on = "web" /\ r.step = "sent" /\ moment' = moment + 1
    /\ sent' = (sent \ {r}) \cup IF r.session \in open
                                   THEN {[r EXCEPT !.at = moment', !.step = "heard"]}
                                   ELSE Replied([r EXCEPT !.ok = FALSE])
    /\ UNCHANGED <<server, mirror, page, closing, history, left>>

\* submit_in_transaction commits.
Record(r) ==
    /\ r.step = "heard"
    /\ attempts' = attempts \cup {[session |-> r.session, item |-> r.item, right |-> r.right,
                                   hint |-> r.hint, at |-> r.at, made |-> r.made]}
    /\ sent' = (sent \ {r}) \cup Replied(r)
    /\ UNCHANGED <<status, recent, opening, open, mirror, page, closing, moment, history, left>>

\* The request fails: the page says so, and the server may hear it yet.
Fail(r) ==
    /\ r.on = "web" /\ ~r.deaf /\ left.upsets > 0 /\ left' = [left EXCEPT !.upsets = @ - 1]
    /\ \E lost \in {r.step # "heard", r.step = "told"} :
           sent' = (sent \ {r}) \cup IF lost THEN {} ELSE {[r EXCEPT !.deaf = TRUE]}
    /\ UNCHANGED <<server, mirror, page, closing, moment, history>>

\* queue_attempt.
Queue(r) ==
    /\ r.on = "device" /\ r.step = "sent"
    /\ sent' = (sent \ {r}) \cup {[r EXCEPT !.step = "queued"]}
    /\ UNCHANGED <<server, mirror, page, closing, moment, history, left>>

\* An upload: the session is adopted, and the answer dated by the device.
UploadAnswer(r) ==
    /\ r.step = "queued" /\ r.deaf
    /\ attempts' = attempts \cup {[session |-> r.session, item |-> r.item, right |-> r.right,
                                   hint |-> r.hint, at |-> r.at, made |-> r.made]}
    /\ open' = open \cup {r.session} /\ sent' = sent \ {r}
    /\ UNCHANGED <<status, recent, opening, mirror, page, closing, moment, history, left>>

Close(s) ==
    /\ s \in closing /\ closing' = closing \ {s} /\ open' = open \ {s}
    /\ UNCHANGED <<status, recent, opening, attempts, mirror, page, sent, moment, history, left>>

\* promote, retire.
SetStatus(i) ==
    /\ left.reviews > 0 /\ left' = [left EXCEPT !.reviews = @ - 1] /\ calm' = FALSE
    /\ status' = [status EXCEPT ![i] = IF @ = "active" THEN "retired" ELSE "active"]
    /\ UNCHANGED <<recent, opening, open, attempts, mirror, page, sent, closing, moment, shown, hasty>>

\* The bank reaches the device (GrammarSync).
Mirror ==
    /\ mirror # Askable /\ mirror' = Askable
    /\ UNCHANGED <<server, page, sent, closing, moment, history, left>>

Next ==
    \/ \E s \in Opened : Start(s) \/ Choose(s) \/ Expose(s) \/ BreakOff(s) \/ Started(s) \/ Close(s)
    \/ \E s \in Sat : StartOnDevice(s)
    \/ \E k \in Pages : \/ \E right \in Graded : Check(k, right)
                        \/ ShowHint(k) \/ GoOn(k) \/ Leave(k)
    \/ \E r \in sent : Verdict(r) \/ Hear(r) \/ Record(r) \/ Fail(r) \/ Queue(r) \/ UploadAnswer(r)
    \/ \E i \in Items : SetStatus(i)
    \/ Mirror

Spec == Init /\ [][Next]_vars
-----------------------------------------------------------------------------
(***************************************************************************)
(* Properties.                                                             *)
(***************************************************************************)

\* close: one rating for a point of a session.
Rating(S) ==
    LET opens == CHOOSE r \in S : \A q \in S : r.at <= q.at
        right == {r \in S : r.right}
        closes == CHOOSE r \in right : \A q \in right : r.at <= q.at
    IN CASE right = {} -> "again" [] right # {} /\ closes = opens /\ ~closes.hint -> "good" [] OTHER -> "hard"

Known == attempts \cup {r \in sent : r.step \in {"heard", "queued", "told"} /\ r.ok}
About(S, s) == {r \in S : r.session = s}

\* The items of a point are shown in turn: none is served twice more than another,
\* as long as sessions are opened one after another of one bank (selection.rs).
Spread == calm =>
    \A i, j \in Askable : PointOf[i] = PointOf[j] =>
        shown[i] - shown[j] <= 1 + Cardinality({s \in Opened : opening[s].step = "serving"})

\* An item a page has left behind was answered, except where an answer was checked
\* beside another: the verdict of each such press can stand for one item more.
PassedOverInHaste == \A k \in Pages :
    Cardinality({n \in 1 .. page[k].index - 1 :
                    \A r \in About(Known, page[k].session) : r.item # page[k].deck[n]}) <= hasty

\* What a page calls "first time" was right at the first answer that counts and
\* without a hint, for each item; again but for answers checked beside others.
FirstTimeTold == \A k \in Pages :
    LET mine == About(Known, page[k].session)
        first(i) == CHOOSE r \in mine : r.item = i /\ \A q \in mine : q.item = i => r.at <= q.at
        good == {i \in {r.item : r \in mine} : first(i).right /\ ~first(i).hint}
    IN page[k].session = 0 \/ page[k].correct <= Cardinality(good) + hasty

\* The rating of a point is what the learner did, in the order it was done, however
\* late an answer arrives; only a request that failed and is heard after the next
\* one changes that (reduce_to_ratings).
RatedAsSat == \A s \in Opened \cup Sat, p \in Points :
    LET S == Of(About(attempts, s), p)
        made == {[r EXCEPT !.at = r.made] : r \in S}
    IN S # {} /\ hasty = 0 => Rating(S) = Rating(made)
=============================================================================
