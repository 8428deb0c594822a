------------------------------ MODULE Reading -------------------------------
(***************************************************************************)
(* The reader's page of the browser (components/reader, api/reader.rs,     *)
(* api/decks.rs) over the stored books (core reader/library.rs, decks.rs): *)
(* the shelf, a chapter with the note of a tapped word, the learner's      *)
(* place, and the words taken into decks.                                  *)
(*                                                                         *)
(* The host goes on storing and translating while the learner reads, and   *)
(* the requests of a page overlap: each tap saves a place by itself, each  *)
(* word asks for its note, and adding a word is a chain of three requests, *)
(* the second of which commits and only then makes the card.  Leaving the  *)
(* page drops its tasks, not what it has sent.                             *)
(*                                                                         *)
(* Clips and covers are left out (BookPipeline has the clips), and so is   *)
(* who owns an added translation (DeckChoice has the transaction).         *)
(***************************************************************************)
EXTENDS Integers, FiniteSets

CONSTANTS Before, After,      \* sentences of the file's two revisions
          PerChapter,         \* sentences of a full chapter
          PerParagraph,       \* and of a full paragraph
          Words,              \* word forms of the book
          Names,              \* names a learner gives a deck
          Tasks,              \* additions that may be under way
          MaxSaves,           \* bound: places on their way to the server
          MaxAsked            \* bound: requests for the note of one word

VARIABLES stored,     \* books: the revisions of the file
          texts,      \* book_translations: the sentences translated
          refused,    \* book_import_progress: the failed runs
          glossed,    \* book_glosses: the words whose note is ok
          place,      \* reading_positions of the learner and the file
          decks, deckCards, cards,
          links,      \* the shelf as it was listed: the tiles that are links
          page,       \* the reader's page: its step, its book, its chapter
          open, note, showing,  \* open_word, and the note of the popover
          menu,       \* shelf of ChapterView: the decks to choose from
          saves,      \* save_position requests under way
          asked,      \* gloss requests under way, by word
          missed,     \* the latest request of these words failed
          add,        \* additions under way
          added       \* acknowledged additions

host == <<stored, texts, refused, glossed>>
lists == <<decks, deckCards, cards, menu, add, added>>
popover == <<open, note, showing, asked, missed>>
spot == <<place, saves>>
vars == <<host, lists, popover, spot, links, page>>

Revisions == {1, 2}
Length(r) == IF r = 1 THEN Before ELSE After
Sentences(r) == 1..Length(r)
ChapterOf(p) == (p - 1) \div PerChapter + 1
InChapter(p) == (p - 1) % PerChapter
ParagraphOf(p) == InChapter(p) \div PerParagraph + 1
\* The ordinals the segmenter gives a sentence.
Ordinals(p) == <<ChapterOf(p), ParagraphOf(p), (InChapter(p) % PerParagraph) + 1>>
NoPlace == <<0, 0, 0>>

NoNote == [word |-> "", status |-> "pending"]
Away == [at |-> "shelf", book |-> 0, chapter |-> 0, shown |-> {}, trouble |-> FALSE]
Rest == [at |-> "rest", deck |-> "", word |-> "", list |-> {}, mine |-> FALSE]

-----------------------------------------------------------------------------
(* What the server answers                                                 *)

Translated(r) == {p \in Sentences(r) : <<r, p>> \in texts}
Refused(r) == {p \in Sentences(r) : <<r, p>> \in refused}
\* book_is_readable
Readable(r) == r \in stored /\ Translated(r) = Sentences(r) /\ Refused(r) = {}
\* Mutant of Linked: the shelf counts a sentence as there once its turn has passed.
LinkedOnceTried(r) == r \in stored /\ Translated(r) \cup Refused(r) = Sentences(r)
\* LibraryRow::into_dto: the same rule, in a statement of its own.
Linked(r) == r \in stored /\ Translated(r) = Sentences(r) /\ Refused(r) = {}
ChapterText(r, c) == {p \in Translated(r) : ChapterOf(p) = c}
\* A note that failed is answered as one that is awaited.
Status(w) == IF w \in glossed THEN "ok" ELSE "pending"

-----------------------------------------------------------------------------
(* The host (BookPipeline has the pipeline itself)                         *)

Stores ==
    \E r \in Revisions \ stored :
        /\ r - 1 \in stored \cup {0}
        /\ stored' = stored \cup {r} /\ UNCHANGED <<texts, refused, glossed>>
\* The cursor passes a sentence, also one the model's answer is refused for.
Translates ==
    \E r \in stored : \E p \in Sentences(r) \ (Translated(r) \cup Refused(r)) :
        /\ 1..(p - 1) \subseteq Translated(r) \cup Refused(r)
        /\ \/ texts' = texts \cup {<<r, p>>} /\ UNCHANGED refused
           \/ refused' = refused \cup {<<r, p>>} /\ UNCHANGED texts
        /\ UNCHANGED <<stored, glossed>>
Glosses ==
    \E w \in Words \ glossed :
        /\ texts # {}
        /\ glossed' = glossed \cup {w} /\ UNCHANGED <<stored, texts, refused>>
Host == (Stores \/ Translates \/ Glosses) /\ UNCHANGED <<lists, popover, spot, links, page>>

-----------------------------------------------------------------------------
(* The shelf, and opening a book                                           *)

ListBooks ==
    /\ page.at = "shelf"
    /\ links' = {r \in Revisions : Linked(r)}
    /\ UNCHANGED <<host, lists, popover, spot, page>>
OpenBook(r) ==
    /\ page.at = "shelf" /\ r \in links
    /\ page' = [Away EXCEPT !.at = "library", !.book = r]
    /\ UNCHANGED <<host, lists, popover, spot, links>>
\* The saved chapter, or the first one, also when the shelf is not answered.
StartAt ==
    /\ page.at = "library"
    /\ \E c \in {1} \cup (IF place = NoPlace THEN {} ELSE {place[1]}) :
          page' = [page EXCEPT !.at = "check", !.chapter = c]
    /\ UNCHANGED <<host, lists, popover, spot, links>>
\* chapter_text: first whether the book is readable, then its sentences.
CheckBook ==
    /\ page.at = "check"
    /\ page' = IF Readable(page.book) THEN [page EXCEPT !.at = "read"]
               ELSE [page EXCEPT !.at = "error"]
    /\ UNCHANGED <<host, lists, popover, spot, links>>
ReadChapter ==
    /\ page.at = "read"
    /\ page' = [page EXCEPT !.at = "decks", !.shown = ChapterText(page.book, page.chapter)]
    /\ UNCHANGED <<host, lists, popover, spot, links>>
ChapterLost ==
    /\ page.at \in {"check", "read"}
    /\ page' = [page EXCEPT !.at = "error", !.trouble = TRUE]
    /\ UNCHANGED <<host, lists, popover, spot, links>>
\* list_decks; a failure leaves the menu empty.
ListDecks ==
    /\ page.at = "decks"
    /\ page' = [page EXCEPT !.at = "chapter"] /\ menu' \in {decks, {}}
    /\ UNCHANGED <<host, decks, deckCards, cards, add, added, popover, spot, links>>
Leave ==
    /\ page.at \in {"chapter", "error"}
    /\ page' = Away /\ links' = {}
    /\ open' = "" /\ note' = NoNote /\ showing' = FALSE
    /\ asked' = [w \in Words |-> 0] /\ missed' = {} /\ menu' = {}
    /\ add' = [t \in Tasks |-> IF add[t].at = "set" THEN Rest ELSE [add[t] EXCEPT !.mine = FALSE]]
    /\ UNCHANGED <<host, decks, deckCards, cards, added, spot>>

-----------------------------------------------------------------------------
(* The place                                                               *)

\* What the page sends: its chapter, the paragraph, and how far the sentence
\* is down its paragraph as shown.
Counted(p) ==
    <<page.chapter, ParagraphOf(p),
      Cardinality({q \in page.shown : q <= p /\ ParagraphOf(q) = ParagraphOf(p)})>>
Tapped(p) ==
    /\ page.at = "chapter" /\ p \in page.shown
    /\ Cardinality(saves) < MaxSaves
    /\ saves' = saves \cup {Counted(p)}
    /\ UNCHANGED <<host, lists, place, links, page>>
TapSentence(p) == Tapped(p) /\ UNCHANGED popover
\* Requests reach the server in any order, or not at all.
SavePlace(c) ==
    /\ c \in saves
    /\ saves' = saves \ {c} /\ place' = c
    /\ UNCHANGED <<host, lists, popover, links, page>>
LosePlace(c) ==
    /\ c \in saves /\ saves' = saves \ {c}
    /\ UNCHANGED <<host, lists, popover, place, links, page>>

-----------------------------------------------------------------------------
(* The note of a word                                                      *)

\* The tap is one on the word's sentence too: the click bubbles.
TapWord(w, p) ==
    /\ Tapped(p) /\ asked[w] < MaxAsked
    /\ IF open = w
       THEN /\ open' = "" /\ showing' = FALSE
            /\ UNCHANGED <<asked, missed>>
       ELSE /\ open' = w /\ UNCHANGED showing
            /\ asked' = [asked EXCEPT ![w] = @ + 1] /\ missed' = missed \ {w}
    /\ UNCHANGED note
NoteComes(w) ==
    /\ asked[w] > 0
    /\ asked' = [asked EXCEPT ![w] = @ - 1]
    /\ IF open = w THEN note' = [word |-> w, status |-> Status(w)] /\ showing' = TRUE
       ELSE UNCHANGED <<note, showing>>
    /\ UNCHANGED <<host, lists, open, missed, spot, links, page>>
NoteLost(w) ==
    /\ asked[w] > 0
    /\ asked' = [asked EXCEPT ![w] = @ - 1] /\ missed' = missed \cup {w}
    /\ UNCHANGED <<host, lists, open, note, showing, spot, links, page>>

-----------------------------------------------------------------------------
(* Adding a word: create_deck, add_to_deck, list_decks                     *)

At(t, step) == add[t].at = step
Go(t, step) == add' = [add EXCEPT ![t].at = step]
Drop(t) == add' = [add EXCEPT ![t] = Rest]
\* The next request of the page, if the page is still there.
Then(t, step) == IF add[t].mine THEN Go(t, step) ELSE Drop(t)

PressAdd(t, d, new) ==
    /\ At(t, "rest") /\ page.at = "chapter"
    /\ showing /\ note.status = "ok" /\ open # ""
    /\ new \/ d \in menu
    /\ add' = [add EXCEPT ![t] = [Rest EXCEPT !.at = IF new THEN "create" ELSE "add",
                                              !.deck = d, !.word = open, !.mine = TRUE]]
    /\ UNCHANGED <<host, decks, deckCards, cards, menu, added, popover, spot, links, page>>
\* Creates the deck, or finds the one with this name.
CreateDeck(t) ==
    /\ At(t, "create")
    /\ decks' = decks \cup {add[t].deck}
    /\ Then(t, "add")
    /\ UNCHANGED <<host, deckCards, cards, menu, added, popover, spot, links, page>>
\* add_word commits the deck's row; a word without an ok note is refused.
AddWord(t) ==
    /\ At(t, "add")
    /\ IF add[t].word \notin glossed THEN Drop(t) /\ UNCHANGED deckCards
       ELSE deckCards' = deckCards \cup {<<add[t].deck, add[t].word>>} /\ Go(t, "card")
    /\ UNCHANGED <<host, decks, cards, menu, added, popover, spot, links, page>>
\* ensure_cards, the deck's summary, and the answer.
MakeCard(t) ==
    /\ At(t, "card")
    /\ cards' = cards \cup {add[t].word}
    /\ added' = IF add[t].mine THEN added \cup {<<add[t].deck, add[t].word>>} ELSE added
    /\ Then(t, "list")
    /\ UNCHANGED <<host, decks, deckCards, menu, popover, spot, links, page>>
ListAgain(t) ==
    /\ At(t, "list")
    /\ add' = [add EXCEPT ![t].at = "set", ![t].list = decks]
    /\ UNCHANGED <<host, decks, deckCards, cards, menu, added, popover, spot, links, page>>
SetMenu(t) ==
    /\ At(t, "set")
    /\ menu' = add[t].list /\ Drop(t)
    /\ UNCHANGED <<host, decks, deckCards, cards, added, popover, spot, links, page>>
\* A request fails, or the server stops between the commit and the card.
AddFails(t) ==
    /\ add[t].at \in {"create", "add", "card", "list"}
    /\ Drop(t)
    /\ UNCHANGED <<host, decks, deckCards, cards, menu, added, popover, spot, links, page>>

-----------------------------------------------------------------------------
Init ==
    /\ stored = {} /\ texts = {} /\ refused = {}
    /\ glossed = {}
    /\ decks = {} /\ deckCards = {} /\ cards = {} /\ menu = {} /\ added = {}
    /\ add = [t \in Tasks |-> Rest]
    /\ open = "" /\ note = NoNote /\ showing = FALSE
    /\ asked = [w \in Words |-> 0] /\ missed = {}
    /\ place = NoPlace /\ saves = {}
    /\ links = {} /\ page = Away

Opening == StartAt \/ CheckBook \/ ReadChapter \/ ListDecks
Noting ==
    \E w \in Words :
        (\E p \in page.shown : TapWord(w, p)) \/ NoteComes(w) \/ NoteLost(w)
Adding ==
    \E t \in Tasks :
        \/ \E d \in Names, new \in BOOLEAN : PressAdd(t, d, new)
        \/ CreateDeck(t) \/ AddWord(t) \/ MakeCard(t) \/ ListAgain(t) \/ SetMenu(t)
        \/ AddFails(t)
Next ==
    \/ Host \/ ListBooks \/ (\E r \in Revisions : OpenBook(r)) \/ Opening \/ ChapterLost
    \/ (\E p \in 1 .. Before + After : TapSentence(p))
    \/ (\E c \in saves : SavePlace(c) \/ LosePlace(c))
    \/ Noting \/ Adding \/ Leave

Spec == Init /\ [][Next]_vars

-----------------------------------------------------------------------------
(* Properties                                                              *)

Places == {Ordinals(p) : p \in 1 .. Before + After}
TypeOK ==
    /\ stored \subseteq Revisions
    /\ texts \subseteq stored \X Nat /\ refused \subseteq stored \X Nat
    /\ glossed \subseteq Words
    /\ place \in Places \cup {NoPlace} /\ saves \subseteq Places
    /\ decks \subseteq Names /\ menu \subseteq Names
    /\ deckCards \subseteq Names \X Words /\ cards \subseteq Words
    /\ links \subseteq Revisions /\ page.shown \subseteq Nat
    /\ open \in Words \cup {""} /\ showing \in BOOLEAN
    /\ asked \in [Words -> 0..MaxAsked]
    /\ \A t \in Tasks : add[t].at \in {"rest", "create", "add", "card", "list", "set"}

\* A chapter on the page is whole, although the host translates while it is
\* read: every sentence the book has there, so that the page may number them
\* by counting (library.rs:25, 71).  And a tile that is a link never leads to
\* a refusal: the shelf's rule and the chapter's are asked at different times.
ShownWhole ==
    /\ page.at \in {"decks", "chapter"} =>
           page.shown = {p \in Sentences(page.book) : ChapterOf(p) = page.chapter}
    /\ page.at = "error" => page.trouble

\* A tap sends the place of the sentence that was tapped, by the numbers the
\* segmenter gave it, which the page does not have and counts for itself
\* (page.rs:43, segment.rs:44): while the book is still being translated, and
\* when the shelf listed another revision of the file than the page opened.
PlaceTapped ==
    page.at = "chapter" => \A p \in page.shown : Counted(p) = Ordinals(p)

\* A note of another word than the open one is shown only while the note of
\* the open one is awaited, or after that request failed; and a note shown as
\* ready is the stored one (page.rs:207-214).
NoteExplained ==
    showing =>
        /\ open # ""
        /\ note.word = open \/ asked[open] > 0 \/ open \in missed
        /\ note.status = "ok" => note.word \in glossed

\* A word whose addition was acknowledged is in its deck, the deck exists,
\* and the learner has a card for it: add_word answers after ensure_cards,
\* which is not part of its transaction (decks.rs:217).
AddedKept ==
    \A a \in added : a[1] \in decks /\ a \in deckCards /\ a[2] \in cards
=============================================================================
