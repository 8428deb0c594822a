---------------------------- MODULE DeviceLearn ----------------------------
(***************************************************************************)
(* Flashcards on a device (storage/learning.rs): sessions drawn from the   *)
(* local corpus and cards, answers that schedule a card, enter the outbox  *)
(* and advance the session in one transaction of SQLite, and what the sync *)
(* of the device does to the same tables meanwhile.  A session row names   *)
(* translations without a foreign key.  Requests come from any window, in  *)
(* any order, again and again; the clock of the device may be set back.    *)
(*                                                                         *)
(* Frequency is the number of a translation, the most frequent first.      *)
(***************************************************************************)
EXTENDS Integers, FiniteSets, Sequences, SequencesExt, FiniteSetsExt

CONSTANTS
    Translations, Phrases,  \* positive numbers; those that are phrases
    Sessions, Events,       \* identifiers the windows draw, as numbers: alike, the lowest first
    Size, Every,            \* deck_size; a phrase in each place of that number (5)
    Horizon,                \* bound: the last moment
    Upsets                  \* bound: what sync brings, and the clock set back

VARIABLES
    pair,       \* language_pairs.status: ready, or being downloaded again
    rows,       \* translations
    cards,      \* cards by translation; Bare when there is none
    outbox,     \* review_outbox by event
    session,    \* learn_sessions with their learn_session_cards
    clock, upsets,
    ahead       \* a card was reviewed by another clock, or this one was set back

vars == <<pair, rows, cards, outbox, session, clock, upsets, ahead>>

Bare == [state |-> "none", due |-> 0, last |-> 0]
Unsent == [translation |-> 0, at |-> 0, status |-> "none"]
NoSession == [status |-> "none", at |-> 0, deck |-> <<>>, index |-> 0, answered |-> {}]
Moments == 0 .. Horizon + 1
States == <<"relearning", "learning", "new", "review">>     \* in the order they are due

TypeOK ==
    /\ pair \in {"ready", "loading"} /\ rows \subseteq Translations
    /\ cards \in [Translations -> [state : {"none"} \cup Range(States), due : Moments, last : Moments]]
    /\ outbox \in [Events -> [translation : Translations \cup {0}, at : Moments,
                              status : {"none", "pending", "applied", "rejected"}]]
    /\ \A s \in Sessions :
          /\ session[s].status \in {"none", "active", "complete"} /\ session[s].at \in Moments
          /\ session[s].deck \in Seq(Translations) /\ session[s].index \in 0 .. Size
          /\ session[s].answered \subseteq 1 .. Size
    /\ clock \in 1 .. Horizon /\ upsets \in 0 .. Upsets /\ ahead \in BOOLEAN

Init ==
    /\ pair = "ready" /\ rows = Translations
    /\ cards = [t \in Translations |-> Bare]
    /\ outbox = [e \in Events |-> Unsent] /\ session = [s \in Sessions |-> NoSession]
    /\ clock = 1 /\ upsets = 0 /\ ahead = FALSE

Carded == {t \in Translations : cards[t].state # "none"}
Pending(t) == \E e \in Events : outbox[e].translation = t /\ outbox[e].status = "pending"
Some(n, s) == SubSeq(s, 1, Min({n, Len(s)}))
-----------------------------------------------------------------------------
(***************************************************************************)
(* Sessions.                                                               *)
(***************************************************************************)

Order(state) == CHOOSE i \in DOMAIN States : States[i] = state
Sooner(t, u) ==
    LET a == <<Order(cards[t].state), cards[t].due, t>>
        b == <<Order(cards[u].state), cards[u].due, u>>
    IN \/ a[1] < b[1]
       \/ a[1] = b[1] /\ a[2] < b[2]
       \/ a[1] = b[1] /\ a[2] = b[2] /\ a[3] < b[3]

\* due_translation_ids, uncarded_translation_ids.
DueIds == Some(Size, SetToSortSeq({t \in rows \cap Carded : cards[t].due <= clock}, Sooner))
NewIds(S) == Some(Size, SetToSortSeq((rows \cap S) \ Carded, <))

\* interleave_ranked: each fifth place a phrase, while both last.
Placed(mix) ==
    IF mix.phrases # <<>> /\ (mix.words = <<>> \/ Len(mix.deck) % Every = Every - 1)
    THEN [mix EXCEPT !.deck = Append(@, Head(mix.phrases)), !.phrases = Tail(@)]
    ELSE [mix EXCEPT !.deck = Append(@, Head(mix.words)), !.words = Tail(@)]
Interleaved(words, phrases) ==
    FoldLeft(LAMBDA mix, place : Placed(mix),
             [deck |-> <<>>, words |-> words, phrases |-> phrases], words \o phrases).deck

\* select_session_ids.
Selected ==
    Some(Size, DueIds \o Interleaved(NewIds(Translations \ Phrases), NewIds(Phrases)))

\* create_session: a known id is answered with what is stored; a new one needs a
\* pair that is ready and something to learn.
CreateSession(s) ==
    /\ session[s].status = "none" /\ \A r \in Sessions : r < s => session[r].status # "none"
    /\ pair = "ready" /\ Len(Selected) \in Nat \ {0}
    /\ session' = [session EXCEPT ![s] = [status |-> "active", at |-> clock, deck |-> Selected,
                                          index |-> 0, answered |-> {}]]
    /\ UNCHANGED <<pair, rows, cards, outbox, clock, upsets, ahead>>
-----------------------------------------------------------------------------
(***************************************************************************)
(* Answers.                                                                *)
(***************************************************************************)

\* repeated_answer: a known event is answered with its card, or refused when it
\* says something else.
FirstTime(e) == outbox[e].status = "none"
Fresh(e) == FirstTime(e) /\ \A d \in Events : d < e => ~FirstTime(d)

\* current_card: the unanswered row at current_index of an active session.
IsCurrent(s, t) ==
    LET p == session[s].index + 1
    IN /\ session[s].status = "active" /\ p <= Len(session[s].deck)
       /\ p \notin session[s].answered /\ session[s].deck[p] = t

\* load_card_state: the baseline of the schedule.
Baseline(s, t) ==
    IF cards[t].state = "none" \/ cards[t].last = 0 THEN session[s].at ELSE cards[t].last

\* schedule: never before the baseline; due at the answer or later.
Schedulable(s, t) == clock >= Baseline(s, t)

\* advance_session.
Advanced(view) ==
    [view EXCEPT !.index = @ + 1, !.answered = @ \cup {view.index + 1},
                 !.status = IF view.index + 1 >= Len(view.deck) THEN "complete" ELSE "active"]

Answer(s, e, t) ==
    \E state \in {"learning", "review"}, due \in clock .. clock + 1 :
        /\ Fresh(e) /\ IsCurrent(s, t) /\ Schedulable(s, t)
        /\ cards' = [cards EXCEPT ![t] = [state |-> state, due |-> due, last |-> clock]]
        /\ outbox' = [outbox EXCEPT ![e] = [translation |-> t, at |-> clock, status |-> "pending"]]
        /\ session' = [session EXCEPT ![s] = Advanced(@)]
        /\ UNCHANGED <<pair, rows, clock, upsets, ahead>>
-----------------------------------------------------------------------------
(***************************************************************************)
(* What sync does to these tables.                                         *)
(***************************************************************************)

Upset == upsets < Upsets /\ upsets' = upsets + 1

\* A card as the server has it: reviewed here, or by another clock.
ServerCard(t) ==
    \E last \in {cards[t].last, clock, clock + 1} :
        /\ last # 0 /\ last <= Horizon
        /\ cards' = [cards EXCEPT ![t] = [state |-> "review", due |-> last, last |-> last]]
        /\ ahead' = (ahead \/ last > clock)

\* apply_acknowledgement, with the card of an applied answer (apply_review_response).
Acknowledge(e) ==
    /\ outbox[e].status = "pending"
    /\ \/ /\ outbox' = [outbox EXCEPT ![e].status = "applied"]
          /\ ServerCard(outbox[e].translation)
       \/ outbox' = [outbox EXCEPT ![e].status = "rejected"] /\ UNCHANGED <<cards, ahead>>
    /\ UNCHANGED <<pair, rows, session, clock, upsets>>

\* apply_cards: another device reviewed the card, or it was deleted.
FeedCard(t) ==
    /\ Upset
    /\ \/ ServerCard(t)
       \/ ~Pending(t) /\ cards' = [cards EXCEPT ![t] = Bare] /\ UNCHANGED ahead
    /\ UNCHANGED <<pair, rows, outbox, session, clock>>

\* apply_changes; a translation that goes leaves its card and its session rows.
FeedRow(t) ==
    /\ Upset /\ pair = "ready" /\ rows' = IF t \in rows THEN rows \ {t} ELSE rows \cup {t}
    /\ UNCHANGED <<pair, cards, outbox, session, clock, ahead>>

\* begin_snapshot empties the pair; its last page makes it ready again.
Snapshot ==
    /\ \/ pair = "ready" /\ Upset /\ pair' = "loading" /\ rows' = {}
       \/ pair = "loading" /\ pair' = "ready" /\ rows' = Translations /\ UNCHANGED upsets
    /\ UNCHANGED <<cards, outbox, session, clock, ahead>>

Tick ==
    /\ \/ clock < Horizon /\ clock' = clock + 1 /\ UNCHANGED <<upsets, ahead>>
       \/ clock > 1 /\ Upset /\ clock' = clock - 1 /\ ahead' = TRUE
    /\ UNCHANGED <<pair, rows, cards, outbox, session>>

Next ==
    \/ \E s \in Sessions : \/ CreateSession(s)
                           \/ \E e \in Events, t \in Translations : Answer(s, e, t)
    \/ \E e \in Events : Acknowledge(e)
    \/ \E t \in Translations : FeedCard(t) \/ FeedRow(t)
    \/ Snapshot \/ Tick

Spec == Init /\ [][Next]_vars
-----------------------------------------------------------------------------
Seen(s) == IF session[s].status = "none" THEN {} ELSE session[s].answered

\* Rows and position of a session agree: what is answered is what lies before the
\* current card, and a session is complete when nothing is left.
SessionInStep ==
    \A s \in Sessions :
        /\ Seen(s) = 1 .. session[s].index
        /\ session[s].status = "complete" <=> session[s].index = Len(session[s].deck)
                                              /\ session[s].status # "none"

\* Every answered row has one answer in the outbox, and none has two, though two
\* sessions deal one card and a request is made again (answer).
AnsweredOnce ==
    \A t \in Translations :
        Cardinality({e \in Events : outbox[e].translation = t})
            = Cardinality({x \in UNION {{s} \X Seen(s) : s \in Sessions} :
                              session[x[1]].deck[x[2]] = t})

\* An answer still to be sent has the card it is about: the feed may not delete it.
PendingHasCard == \A e \in Events :
    outbox[e].status = "pending" => cards[outbox[e].translation].state # "none"

\* The current card of a session can be answered now; another clock that is ahead,
\* or this one set back, can leave a session waiting, which has no way past a card.
Answerable ==
    ahead \/ \A s \in Sessions, t \in Translations : IsCurrent(s, t) => Schedulable(s, t)
=============================================================================
