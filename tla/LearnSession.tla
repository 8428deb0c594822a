---------------------------- MODULE LearnSession ----------------------------
(***************************************************************************)
(* A flashcard session on the server and the windows that play it: tabs of *)
(* the browser (components/learn, api/learn.rs) and the terminal           *)
(* (tui/app.rs), over SessionManager of srs/session.rs.                    *)
(*                                                                         *)
(* A window holds the deck it was given and an index into it; the server   *)
(* holds the rows, which a prune may delete under it.  Resuming counts the *)
(* answered rows, loads the deck and ends the pause in three statements.   *)
(* A button of the browser does not wait for the answer before; the        *)
(* terminal does.  Answering is one transaction (ReviewLedger).            *)
(***************************************************************************)
EXTENDS Naturals, FiniteSets, Sequences, SequencesExt, FiniteSetsExt

CONSTANTS Tabs, Terminals,
          Deck,         \* 1..n: the cards of the session, by position
          Clicks,       \* bound: answers a tab has under way
          Upsets        \* bound: pruned cards, closed windows, lost replies, second presses

VARIABLES session,      \* sessions: none, a row without cards, whole
          flags,        \* paused_at and completed_at of that row
          there,        \* the cards that exist; a row of session_cards goes with its card
          answered,     \* session_cards.answered
          window,       \* what each window shows
          asked,        \* answers under way
          torn,         \* an answered card was pruned inside a resume
          upsets

vars == <<session, flags, there, answered, window, asked, torn, upsets>>

Windows == Tabs \cup Terminals
Closed == [at |-> "closed", deck |-> <<>>, index |-> 0]

Init ==
    /\ session = "none"
    /\ flags = [paused |-> FALSE, completed |-> FALSE]
    /\ there = {}
    /\ answered = {}
    /\ window = [w \in Windows |-> Closed]
    /\ asked = {}
    /\ torn = FALSE /\ upsets = 0

Showing(w) == window[w].at = "show"
At(w, step) == window[w].at = step
To(w, step) == window' = [window EXCEPT ![w].at = step]
Upset == upsets < Upsets /\ upsets' = upsets + 1
Past(view) == view.index > Len(view.deck)
Finished(w) == Past(window[w])
Pending(w) == {q \in asked : q.window = w}
Unserved(w) == {q \in Pending(w) : q.told = "nothing"}
Listens(q) == q.window \in Windows

-----------------------------------------------------------------------------
(* Starting: a paused session is resumed, otherwise one is created; the    *)
(* module follows one.                                                     *)

Starting == \E w \in Windows : window[w].at \in {"choose", "insert", "deal"}

Open(w) ==
    /\ At(w, "closed")
    /\ \/ session = "none" /\ ~Starting /\ To(w, "choose")
       \/ flags.paused /\ ~flags.completed /\ To(w, "count")
    /\ UNCHANGED <<session, flags, there, answered, asked, torn, upsets>>

\* build_cards: due cards, then a card of its own for each new word.
ChooseCards(w) ==
    /\ At(w, "choose")
    /\ there' = Deck
    /\ To(w, "insert")
    /\ UNCHANGED <<session, flags, answered, asked, torn, upsets>>

\* insert_session, and in a statement of its own insert_session_cards, which
\* a card pruned meanwhile makes fail: the row is left without cards.
InsertSession(w) ==
    /\ At(w, "insert")
    /\ session' = "row"
    /\ To(w, "deal")
    /\ UNCHANGED <<flags, there, answered, asked, torn, upsets>>

InsertCards(w) ==
    /\ At(w, "deal")
    /\ IF there = Deck
       THEN /\ session' = "whole"
            /\ window' = [window EXCEPT ![w] = [at |-> "show", index |-> 1,
                             deck |-> SetToSortSeq(Deck, <)]]
       ELSE window' = [window EXCEPT ![w] = Closed] /\ UNCHANGED session
    /\ UNCHANGED <<flags, there, answered, asked, torn, upsets>>

\* Mutant of Played: the index goes on from the last position that was answered.
PlayedByPosition == IF answered \cap there = {} THEN 0 ELSE Max(answered \cap there)
Played == Cardinality(answered \cap there)

\* resume: three statements.
CountAnswered(w) ==
    /\ At(w, "count")
    /\ window' = [window EXCEPT ![w].at = "load", ![w].index = Played + 1]
    /\ UNCHANGED <<session, flags, there, answered, asked, torn, upsets>>

LoadCards(w) ==
    /\ At(w, "load")
    /\ window' = [window EXCEPT ![w].at = "unpause", ![w].deck = SetToSortSeq(there, <)]
    /\ UNCHANGED <<session, flags, there, answered, asked, torn, upsets>>

EndPause(w) ==
    /\ At(w, "unpause")
    /\ flags' = [flags EXCEPT !.paused = FALSE]
    /\ To(w, "show")
    /\ UNCHANGED <<session, there, answered, asked, torn, upsets>>

-----------------------------------------------------------------------------
(* Playing                                                                 *)

\* on_rate keeps the index of the card it was pressed for.
Rate(w) ==
    /\ Showing(w) /\ ~Finished(w)
    /\ Cardinality(Pending(w)) < IF w \in Tabs THEN Clicks ELSE 1
    /\ asked' = asked \cup {[window |-> w, index |-> window[w].index,
                            card |-> window[w].deck[window[w].index], told |-> "nothing",
                            click |-> Min((1 .. Clicks) \ {q.click : q \in Pending(w)})]}
    /\ IF Pending(w) = {} THEN UNCHANGED upsets ELSE Upset
    /\ UNCHANGED <<session, flags, there, answered, window, torn>>

Said(q, told) == asked' = (asked \ {q}) \cup {[q EXCEPT !.told = told]}

\* answer_card: an answered row is not refused, a card that is gone is.
AnswerCard(q) ==
    /\ q.told = "nothing"
    /\ IF q.card \in there
       THEN answered' = answered \cup {q.card} /\ Said(q, "ok")
       ELSE UNCHANGED answered /\ Said(q, "error")
    /\ UNCHANGED <<session, flags, there, window, torn, upsets>>

\* The terminal leaves on an error, the browser stays where it is.
Hear(q, told) ==
    LET w == q.window
        next == [window[w] EXCEPT !.index = q.index + 1]
    IN  window' = [window EXCEPT ![w] =
            IF told = "ok" THEN IF w \in Terminals /\ Past(next)
                                THEN [next EXCEPT !.at = "over"] ELSE next
            ELSE IF w \in Terminals THEN Closed ELSE window[w]]

Reply(q) ==
    /\ q.told # "nothing"
    /\ asked' = asked \ {q}
    /\ IF Listens(q) THEN Hear(q, q.told) ELSE UNCHANGED window
    /\ UNCHANGED <<session, flags, there, answered, torn, upsets>>

LoseReply(q) ==
    /\ q.told = "ok" /\ Upset
    /\ asked' = asked \ {q}
    /\ IF Listens(q) THEN Hear(q, "error") ELSE UNCHANGED window
    /\ UNCHANGED <<session, flags, there, answered, torn>>

\* The browser's Finish button; the terminal, after its last card.
Complete(w) ==
    /\ \/ w \in Tabs /\ Showing(w) /\ Finished(w) /\ UNCHANGED window
       \/ At(w, "over") /\ window' = [window EXCEPT ![w] = Closed]
    /\ flags' = [flags EXCEPT !.completed = TRUE]
    /\ UNCHANGED <<session, there, answered, asked, torn, upsets>>

\* The browser's pause leaves the tab as it is; q pauses and leaves.
Pause(w) ==
    /\ Showing(w) /\ ~Finished(w) /\ (w \in Terminals => Pending(w) = {})
    /\ flags' = [flags EXCEPT !.paused = TRUE]
    /\ window' = IF w \in Tabs THEN window ELSE [window EXCEPT ![w] = Closed]
    /\ UNCHANGED <<session, there, answered, asked, torn, upsets>>

\* A window is closed or killed, or its resume is not heard of; what it has
\* asked is served all the same.
CloseWindow(w) ==
    /\ ~At(w, "closed") /\ Upset
    /\ window' = [window EXCEPT ![w] = Closed]
    /\ asked' = {q \in asked : q.window # w}
               \cup {[q EXCEPT !.window = "nobody"] : q \in Unserved(w)}
    /\ UNCHANGED <<session, flags, there, answered, torn>>

\* A deletion of the card's translation cascades to its row.
PruneCard(c) ==
    /\ c \in there /\ Upset
    /\ there' = there \ {c}
    /\ torn' = (torn \/ (c \in answered /\ \E w \in Windows : At(w, "load")))
    /\ UNCHANGED <<session, flags, answered, window, asked>>

Start(w) == Open(w) \/ ChooseCards(w) \/ InsertSession(w) \/ InsertCards(w)
            \/ CountAnswered(w) \/ LoadCards(w) \/ EndPause(w)
Play(w) == Rate(w) \/ Complete(w) \/ Pause(w) \/ CloseWindow(w)

Next ==
    \/ \E w \in Windows : Start(w) \/ Play(w)
    \/ \E q \in asked : AnswerCard(q) \/ Reply(q) \/ LoseReply(q)
    \/ \E c \in Deck : PruneCard(c)

-----------------------------------------------------------------------------
TypeOK ==
    /\ session \in {"none", "row", "whole"}
    /\ there \subseteq Deck /\ answered \subseteq Deck
    /\ \A w \in Windows : window[w].index <= Cardinality(Deck) + 1
    /\ \A q \in asked : q.window \in Windows \cup {"nobody"} /\ q.card \in Deck

Gone == Deck \ there

\* No card of a session is passed over: what a window has left behind was
\* answered or is gone, the answered cards are the first ones of those there
\* are, and a completed session has no other.
NothingSkipped ==
    ~torn =>
        /\ \A w \in Windows : Showing(w) =>
              \A n \in 1 .. window[w].index - 1 : window[w].deck[n] \in answered \cup Gone
        /\ \A c \in answered : \A d \in there : d < c => d \in answered
        /\ flags.completed => there \subseteq answered
=============================================================================
