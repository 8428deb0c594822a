----------------------------- MODULE DeckChoice -----------------------------
(***************************************************************************)
(* Which cards a deck is made of (vocabulary.rs, srs/session.rs,           *)
(* srs/scheduler.rs, decks.rs, api/learn.rs): due cards first, then the    *)
(* most frequent words nobody has a card for, one row for each word, read  *)
(* in two bands of the count, with a promoted phrase in every fifth place. *)
(* Each band is a statement of its own, each selection a transaction of    *)
(* its own; rows are ranked, glossed, promoted, pruned and carded between. *)
(*                                                                         *)
(* A row is a number, in the order that breaks the last ties; a word and   *)
(* the meaning of a row are numbers.  One learner starts decks, another    *)
(* puts words of a book into a deck.                                       *)
(***************************************************************************)
EXTENDS Integers, FiniteSets, Sequences, SequencesExt, FiniteSetsExt

CONSTANTS
    Rows, WordOf, FaceOf,   \* rows of translations: the word they teach, its rendering
    Short,                  \* rows with a side of one character
    Noted,                  \* words with a note in a book, and the row its meaning makes
    Size, Every,            \* cards in a deck; a phrase in each place of that number (5)
    Plans                   \* what there is at first, and how much changes

VARIABLES
    count,      \* translations.corpus_frequency by row; -1 unranked, -2 no such row
    phrases,    \* rows linked to a promoted phrase
    gloss,      \* word_glosses: none, taught or refused
    carded,     \* cards of the learner
    foreign,    \* cards of others
    due,        \* cards of the learner that are due
    named,      \* deck_cards of the learner's named deck, oldest first
    owned,      \* rows the reader made: owned_presentations, reader_translations
    deal,       \* the deck being made
    adding,     \* the word being added, between its transaction and its card
    touched,    \* words with a row that something changed since the deck was begun
    plan        \* what is left to change

vars == <<count, phrases, gloss, carded, foreign, due, named, owned, deal, adding, touched, plan>>
tables == <<count, phrases, gloss, carded, foreign, due, named, owned>>

Words == {WordOf[r] : r \in Rows}
NoDeal == [step |-> "none", kind |-> "any", size |-> 0, due |-> <<>>, words |-> <<>>,
           phrases |-> <<>>, cards |-> <<>>]

TypeOK ==
    /\ count \in [Rows -> -2 .. 3] /\ phrases \subseteq Rows
    /\ gloss \in [Words -> {"none", "taught", "refused"}]
    /\ carded \subseteq Rows /\ foreign \subseteq Rows /\ due \subseteq carded
    /\ named \in Seq(Rows) /\ owned \subseteq Rows
    /\ deal \in [step : {"none", "named", "words", "onceWords", "phrases", "oncePhrases", "ensure", "load",
                         "dealt", "refused"},
                 kind : {"any", "deck", "fast"}, size : Nat, due : Seq(Rows), words : Seq(Rows),
                 phrases : Seq(Rows), cards : Seq(Rows)]
    /\ adding \in Rows \cup {0} /\ touched \subseteq Words /\ plan.changes \in Nat

Init ==
    /\ plan \in Plans
    /\ count = plan.count /\ phrases = plan.phrases
    /\ gloss = [w \in Words |-> IF w \in plan.refused THEN "refused" ELSE "none"]
    /\ carded = plan.carded /\ foreign = {} /\ due = plan.carded
    /\ named = <<>> /\ owned = {} /\ deal = NoDeal /\ adding = 0 /\ touched = {}

-----------------------------------------------------------------------------
(***************************************************************************)
(* Ranked selections.                                                      *)
(***************************************************************************)

There == {r \in Rows : count[r] # -2}
WordsOf(S) == {WordOf[r] : r \in S}
Some(n, s) == SubSeq(s, 1, Min({n, Len(s)}))

\* carded_ids: cards of any learner, when carded rows are left out.
Free(include) == IF include THEN There ELSE There \ (carded \cup foreign)

\* presentation_predicate: a side of one character needs a gloss, and for media
\* preparation every word does; phrases keep the length floor.
Presented(r, policy) ==
    IF policy = "phrase" THEN r \notin Short
    ELSE (policy = "learning" /\ r \notin Short) \/ gloss[WordOf[r]] = "taught"

\* ranked_statement: what a band admits.
Admitted(policy, include, band) ==
    {r \in Free(include) :
        /\ (r \in phrases) = (policy = "phrase")
        /\ policy # "phrase" => gloss[WordOf[r]] # "refused"
        /\ Presented(r, policy)
        /\ IF band = "one" THEN count[r] = 1 ELSE count[r] > 1}

TopCount(S, w) == Max({count[r] : r \in {s \in S : WordOf[s] = w}})

\* selected_words_cte: the words with the highest counts.
Chosen(S, n) ==
    Some(n, SetToSortSeq(WordsOf(S),
        LAMBDA v, w : \/ TopCount(S, v) > TopCount(S, w)
                      \/ TopCount(S, v) = TopCount(S, w) /\ v < w))

\* REPRESENTATIVE_ORDER: the count, how many rows agree, the row itself.
Agreement(S, r) == Cardinality({s \in S : WordOf[s] = WordOf[r] /\ FaceOf[s] = FaceOf[r]})
Before(S, r, s) ==
    \/ count[r] > count[s]
    \/ count[r] = count[s] /\ Agreement(S, r) > Agreement(S, s)
    \/ count[r] = count[s] /\ Agreement(S, r) = Agreement(S, s) /\ r <= s
Best(S, w) == CHOOSE r \in S : WordOf[r] = w /\ \A s \in S : WordOf[s] = w => Before(S, r, s)

Ranked(policy, include, band, n, without) ==
    LET S == {r \in Admitted(policy, include, band) : WordOf[r] \notin without}
        chosen == Chosen(S, n)
    IN [i \in DOMAIN chosen |-> Best(S, chosen[i])]

\* Mutant of Excluded: the second statement does not hear what the first returned.
ExcludedNothing(rows) == {}

\* The normalised forms the first band returned.
Excluded(rows) == {WordOf[rows[i]] : i \in DOMAIN rows}

\* A selection whose two statements see one state (REPEATABLE READ, or no change).
Drawn(policy, include, n) ==
    LET above == Ranked(policy, include, "above", n, {})
    IN above \o Ranked(policy, include, "one", n - Len(above), Excluded(above))

\* interleave_deck: each place is a phrase's or a word's, and whichever is left takes it.
Placed(mix) ==
    IF mix.more # <<>> /\ (mix.words = <<>> \/ Len(mix.deck) % Every = Every - 1)
    THEN [mix EXCEPT !.deck = Append(@, Head(mix.more)), !.more = Tail(@)]
    ELSE [mix EXCEPT !.deck = Append(@, Head(mix.words)), !.words = Tail(@)]
Mixed(words, more) ==
    FoldLeft(LAMBDA mix, place : Placed(mix),
             [deck |-> <<>>, words |-> words, more |-> more], words \o more).deck
Interleaved(words, more, n) == Some(n, Mixed(words, more))
-----------------------------------------------------------------------------
(***************************************************************************)
(* Making a deck.                                                          *)
(***************************************************************************)

At(step) == deal.step = step
Remaining == deal.size - Len(deal.due)
To(step) == deal' = [deal EXCEPT !.step = step]

\* due_cards: what can be taught; a row that is a phrase or the reader's always can.
Due(kind) ==
    Some(Size, SetToSortSeq({r \in due : /\ r \in phrases \/ r \in owned \/ gloss[WordOf[r]] # "refused"
                                         /\ kind = "deck" => r \in ToSet(named)},
                            LAMBDA r, s : r < s))

\* unlearned_deck_cards: rows of the named deck without a card of the learner.
Unlearned == SelectSeq(named, LAMBDA r : r \notin carded)

Begin(kind) ==
    LET first == Due(kind)
    IN /\ At("none") /\ kind # "fast"
       /\ deal' = [NoDeal EXCEPT !.kind = kind, !.size = Size, !.due = first,
                   !.step = CASE Len(first) >= Size -> "dealt"
                              [] Len(first) < Size /\ kind = "any" -> "words"
                              [] OTHER -> "named",
                   !.cards = IF Len(first) >= Size THEN first ELSE <<>>]
       /\ UNCHANGED <<tables, adding, touched, plan>>

FromNamed ==
    /\ At("named")
    /\ deal' = [deal EXCEPT !.step = "ensure", !.words = Some(Remaining, Unlearned)]
    /\ UNCHANGED <<tables, adding, touched, plan>>

\* create_fast_deck: any number of words up to available_word_count, cards or not.
BeginFast(n) ==
    /\ At("none") /\ n > 0
    /\ deal' = [NoDeal EXCEPT !.kind = "fast", !.size = n, !.step = "words"]
    /\ UNCHANGED <<tables, adding, touched, plan>>

Fast == deal.kind = "fast"

Words1 ==
    /\ At("words")
    /\ LET above == Ranked("learning", Fast, "above", Remaining, {})
       IN deal' = [deal EXCEPT !.words = above,
                   !.step = IF Len(above) < Remaining THEN "onceWords" ELSE "phrases"]
    /\ UNCHANGED <<tables, adding, touched, plan>>

OnceWords ==
    /\ At("onceWords")
    /\ LET words == deal.words \o Ranked("learning", Fast, "one", Remaining - Len(deal.words),
                                         Excluded(deal.words))
       IN deal' = [deal EXCEPT !.words = words,
                   !.step = IF Fast /\ Len(words) < deal.size THEN "refused" ELSE "phrases"]
    /\ UNCHANGED <<tables, adding, touched, plan>>

\* A fifth as many phrases; none asks no question.
Phrases1 ==
    /\ At("phrases")
    /\ LET n == Remaining \div Every
           above == Ranked("phrase", Fast, "above", n, {})
       IN deal' = [deal EXCEPT !.phrases = above,
                   !.step = IF Len(above) < n THEN "oncePhrases" ELSE "ensure"]
    /\ UNCHANGED <<tables, adding, touched, plan>>

OncePhrases ==
    /\ At("oncePhrases")
    /\ deal' = [deal EXCEPT !.step = "ensure",
                !.phrases = @ \o Ranked("phrase", Fast, "one",
                                        Remaining \div Every - Len(@), Excluded(@))]
    /\ UNCHANGED <<tables, adding, touched, plan>>

New == IF Fast THEN Interleaved(deal.words, deal.phrases, Len(deal.words) + Len(deal.phrases))
       ELSE Interleaved(deal.words, deal.phrases, Remaining)

\* ensure_cards: a row that is gone, or is there twice, fails the statement; a fast
\* deck writes nothing.
EnsureCards ==
    /\ At("ensure")
    /\ CASE Fast -> /\ deal' = [deal EXCEPT !.step = "dealt", !.cards = New]
                    /\ UNCHANGED <<carded, due>>
         [] ~Fast /\ ToSet(New) \subseteq There /\ IsInjective(New) ->
              /\ carded' = carded \cup ToSet(New) /\ due' = due \cup (ToSet(New) \ carded)
              /\ To("load")
         [] OTHER -> To("refused") /\ UNCHANGED <<carded, due>>
    /\ UNCHANGED <<count, phrases, gloss, foreign, named, owned, adding, touched, plan>>

\* cards_for_translation_ids: one card for every row, or an error.
LoadCards ==
    /\ At("load")
    /\ IF ToSet(New) \subseteq carded
       THEN deal' = [deal EXCEPT !.step = "dealt", !.cards = deal.due \o New]
       ELSE To("refused")
    /\ UNCHANGED <<tables, adding, touched, plan>>

\* The deck is played, and its cards are due some other day.
Finish ==
    /\ deal.step \in {"dealt", "refused"} /\ deal' = NoDeal /\ touched' = {}
    /\ IF At("dealt") /\ ~Fast
       THEN due' = due \ ToSet(deal.cards) ELSE UNCHANGED due
    /\ plan' = [plan EXCEPT !.deals = @ - 1]
    /\ UNCHANGED <<count, phrases, gloss, carded, foreign, named, owned, adding>>
-----------------------------------------------------------------------------
(***************************************************************************)
(* What changes beside it.                                                 *)
(***************************************************************************)

Touch(w) == touched' = IF At("none") THEN {} ELSE touched \cup {w}
Change(w) == /\ plan.changes > 0 /\ plan' = [plan EXCEPT !.changes = @ - 1]
             /\ Touch(w) /\ UNCHANGED deal

\* bulk_update: every row of a word, unless it is a phrase; the reader's rows too.
Rank(w, n) ==
    /\ Change(w)
    /\ count' = [r \in Rows |-> IF r \in There \ phrases /\ WordOf[r] = w THEN n ELSE count[r]]
    /\ UNCHANGED <<phrases, gloss, carded, foreign, due, named, owned, adding>>

\* Pruner::demote, for one row.
Demote(r) ==
    /\ Change(WordOf[r]) /\ count[r] > 0
    /\ count' = [count EXCEPT ![r] = 0]
    /\ UNCHANGED <<phrases, gloss, carded, foreign, due, named, owned, adding>>

\* Pruner::delete: cards, deck rows, links and ownership go with the row.
Prune(r) ==
    /\ Change(WordOf[r]) /\ r \in There
    /\ count' = [count EXCEPT ![r] = -2]
    /\ phrases' = phrases \ {r} /\ carded' = carded \ {r} /\ foreign' = foreign \ {r}
    /\ due' = due \ {r} /\ owned' = owned \ {r}
    /\ named' = SelectSeq(named, LAMBDA s : s # r)
    /\ UNCHANGED <<gloss, adding>>

PromotePhrase(r) ==
    /\ Change(WordOf[r]) /\ r \in There \ phrases /\ phrases' = phrases \cup {r}
    /\ UNCHANGED <<count, gloss, carded, foreign, due, named, owned, adding>>

GlossWord(w, verdict) ==
    /\ Change(w) /\ gloss[w] # verdict /\ gloss' = [gloss EXCEPT ![w] = verdict]
    /\ UNCHANGED <<count, phrases, carded, foreign, due, named, owned, adding>>

CardOfAnother(r) ==
    /\ Change(WordOf[r]) /\ r \in There \ foreign /\ foreign' = foreign \cup {r}
    /\ UNCHANGED <<count, phrases, gloss, carded, due, named, owned, adding>>

\* DeckRepository::add_word, one transaction: the row of the note, its own when it
\* was not there, and its place in the deck.
AddWord(w) ==
    LET r == Noted[w]
    IN /\ Change(WordOf[r]) /\ adding = 0 /\ adding' = r
       /\ IF r \in There THEN UNCHANGED <<count, owned>>
          ELSE count' = [count EXCEPT ![r] = -1] /\ owned' = owned \cup {r}
       /\ named' = IF Contains(named, r) THEN named ELSE Append(named, r)
       /\ UNCHANGED <<phrases, gloss, carded, foreign, due>>

\* Its card is a statement of its own, which a crash or a prune leaves undone.
CardIt ==
    /\ adding # 0 /\ adding' = 0 /\ Touch(WordOf[adding])
    /\ \/ adding \in There /\ carded' = carded \cup {adding}
          /\ due' = IF adding \in carded THEN due ELSE due \cup {adding}
       \/ UNCHANGED <<carded, due>>
    /\ UNCHANGED <<count, phrases, gloss, foreign, named, owned, deal, plan>>

\* available_word_count: words of the higher counts, and those seen once beside them.
AvailableCount ==
    LET above == WordsOf(Admitted("learning", TRUE, "above"))
        once  == WordsOf(Admitted("learning", TRUE, "one"))
    IN Cardinality(above) + Cardinality(once \ above)

Next ==
    \/ plan.deals > 0 /\ (\E kind \in {"any", "deck"} : Begin(kind))
    \/ plan.deals > 0 /\ BeginFast(AvailableCount)
    \/ FromNamed \/ Words1 \/ OnceWords \/ Phrases1 \/ OncePhrases \/ EnsureCards \/ LoadCards \/ Finish
    \/ \E w \in Words : \/ \E n \in 0 .. 2 : Rank(w, n)
                        \/ \E v \in {"taught", "refused"} : GlossWord(w, v)
    \/ \E r \in Rows : Demote(r) \/ Prune(r) \/ PromotePhrase(r) \/ CardOfAnother(r)
    \/ \E w \in DOMAIN Noted : AddWord(w)
    \/ CardIt

Spec == Init /\ [][Next]_vars
-----------------------------------------------------------------------------
\* The new words of one deck are different words, whatever is ranked, glossed or
\* promoted between the two statements that chose them (ranked_area_candidates).
NoWordTwice == deal.kind # "deck" =>
    \A i, j \in DOMAIN deal.words :
        WordOf[deal.words[i]] = WordOf[deal.words[j]] => i = j

\* A deck holds as much as there is of the words that nothing changed while it was made,
\* whatever else is ranked, glossed, pruned or carded between its statements: all due
\* cards, as many of the most frequent words nobody has learned as there is room for
\* (and no others), and no more than every fifth new card a phrase.
Untouched(S) == {r \in S : WordOf[r] \notin touched}
DealtInFull ==
    At("dealt") /\ deal.kind = "any" =>
        LET new == ToSet(deal.cards) \ ToSet(deal.due)
            before == IF Len(deal.due) >= Size THEN {} ELSE new
            free == Untouched(There \ (foreign \cup (carded \ before)))
            can == {r \in free : /\ r \notin phrases /\ count[r] >= 1 /\ gloss[WordOf[r]] # "refused"
                                 /\ r \notin Short \/ gloss[WordOf[r]] = "taught"}
            dealt == new \ phrases
            room == Size - Len(deal.due)
        IN /\ Cardinality(Untouched(new \cap phrases)) <= room \div Every
           /\ WordsOf(Untouched(dealt)) \subseteq WordsOf(can)
           /\ Cardinality(new) < room => WordsOf(can) \subseteq WordsOf(dealt)
           /\ \A r \in Untouched(dealt), s \in can :
                 WordOf[s] \notin WordsOf(dealt) => count[r] >= count[s]

\* Whoever asks for as many words as the page says there are gets them, unless
\* something changes in between (fast_available_words, create_fast_deck).
AvailableGranted == At("refused") /\ Fast => touched # {}

\* What media is prepared for is what a learner is shown: both selections choose the
\* same row for a word (preparation_ids, ranked_candidates).
PreparedIsShown ==
    LET shown == Drawn("learning", TRUE, Cardinality(Words))
        prepared == Drawn("preparation", TRUE, Cardinality(Words))
    IN \A i \in DOMAIN prepared : Contains(shown, prepared[i])
=============================================================================
