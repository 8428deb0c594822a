----------------------------- MODULE WordStudy -----------------------------
(***************************************************************************)
(* Words found in the sentences of a corpus and taught as cards of their   *)
(* own: extraction counts them and publishes candidates (words/extract.rs, *)
(* words/store.rs), promotion asks the model for each and links it to the  *)
(* row that teaches it (words/promote.rs), enrichment gives ranked words   *)
(* their presentation (glossing.rs); beside them the corpus is imported    *)
(* and pruned.  One pair of languages; all of a promotion's candidates fit *)
(* in one prompt.                                                          *)
(*                                                                         *)
(* A row that promotion generated is not evidence: the view of migration   *)
(* 027 leaves it out while its link owns it, and a trigger keeps the link. *)
(***************************************************************************)
EXTENDS Naturals, FiniteSets, Sequences, SequencesExt, FiniteSetsExt

CONSTANTS Words,            \* numbers, in the order of their spelling
          Sentences, Tokens,  \* how often each word stands in each sentence
          Debris,           \* sentences that are decoding debris
          Unquotable,       \* texts and meanings that are empty or over 200 characters
          Lines,            \* what may be imported: texts and their meanings
          Ids, Meanings,
          PageSize, MinOccurrences, Limit, Promoters,
          Plans             \* bound: the rows a behaviour begins with, sentences or words
                            \* alone, and how much of everything happens

VARIABLES rows,             \* translations: text, meaning, rank; none when deleted
          next,             \* the sequence of their ids
          cand,             \* word_candidates with their examples and their link
          gloss,            \* word_glosses of the current version
          scan,             \* the extraction
          job,              \* the promotions
          enricher,
          generated,        \* history: the ids of rows promotion generated
          plan

vars == <<rows, next, cand, gloss, scan, job, enricher, generated, plan>>

NoRow == [text |-> "none", word |-> 0, meaning |-> "none", rank |-> 0]
Spelling(w, meaning, rank) == [text |-> "word", word |-> w, meaning |-> meaning, rank |-> rank]
NoCand == [id |-> 0]
NoGloss == [teachable |-> FALSE, meaning |-> "none"]
Rows == {i \in Ids : rows[i] # NoRow}
Candidates == {w \in Words : cand[w] # NoCand}
Linked(w) == cand[w].row # 0
Resting == [at |-> "rest", no |-> 0, texts |-> {}, quoted |-> {}, first |-> {}, cursor |-> 0,
            count |-> [w \in Words |-> 0], examples |-> [w \in Words |-> {}], calm |-> TRUE]
Off == [at |-> "rest", refresh |-> FALSE, todo |-> <<>>, ask |-> <<>>, basis |-> <<>>, answer |-> <<>>]

Init ==
    /\ plan \in Plans
    /\ rows = [i \in Ids |-> IF i <= Len(plan.corpus) THEN plan.corpus[i] ELSE NoRow]
    /\ next = Len(plan.corpus) + 1
    /\ cand = [w \in Words |-> NoCand] /\ gloss = [w \in Words |-> NoGloss]
    /\ scan = Resting /\ job = [p \in Promoters |-> Off]
    /\ enricher = [at |-> "rest", words |-> {}] /\ generated = {}

Spend(what) == plan[what] > 0 /\ plan' = [plan EXCEPT ![what] = @ - 1]

\* corpus_evidence_translations.
Owned == {cand[w].row : w \in {v \in Candidates : Linked(v) /\ cand[v].owns}}
Evidence == Rows \ Owned

-----------------------------------------------------------------------------
(* Extraction                                                              *)

Text(i) == <<rows[i].text, rows[i].word>>
\* What a row counts for: a word alone counts once, debris not at all.
TokensOf(text) ==
    [w \in Words |-> IF text[1] = "word" THEN (IF text[2] = w THEN 1 ELSE 0)
                     ELSE IF text[1] \in Debris THEN 0 ELSE Tokens[text[1]][w]]

\* A sentence counts once, at the lowest row that has it.
FirstRows(evidence) == {i \in evidence : \A j \in evidence : Text(j) = Text(i) => i <= j}

\* A row is an example only when both of its texts are short enough to be shown.
Quotable(i) == rows[i].text \notin Unquotable /\ rows[i].meaning \notin Unquotable

BeginScan ==
    /\ scan.at \in {"rest", "published"} /\ Evidence # {} /\ Spend("scans")
    /\ scan' = [Resting EXCEPT !.at = "scan", !.no = scan.no + 1, !.first = FirstRows(Evidence),
                               !.texts = {Text(i) : i \in Evidence},
                               !.quoted = {Text(i) : i \in {j \in FirstRows(Evidence) : Quotable(j)}}]
    /\ UNCHANGED <<rows, next, cand, gloss, job, enricher, generated>>

Unread == {i \in scan.first \cap Evidence : i > scan.cursor}
Lowest(n, S) == {i \in S : Cardinality({j \in S : j < i}) < n}

\* Mutant of Page: read by offset.
PageByOffset == Lowest(PageSize, {i \in scan.first \cap Evidence : i > scan.cursor + PageSize - 1})
Page == Lowest(PageSize, Unread)

ReadPage ==
    /\ scan.at = "scan"
    /\ LET page == Page
           tokens == [i \in page |-> TokensOf(Text(i))]
       IN IF page = {} THEN scan' = [scan EXCEPT !.at = "publish"]
          ELSE scan' = [scan EXCEPT
                 !.cursor = Max(page),
                 !.count = [w \in Words |-> @[w] + MapThenSumSet(LAMBDA i : tokens[i][w], page)],
                 !.examples = [w \in Words |->
                                 Lowest(3, @[w] \cup {i \in page : tokens[i][w] > 0 /\ Quotable(i)})]]
    /\ UNCHANGED <<rows, next, cand, gloss, job, enricher, generated, plan>>

Ranked(counts, W) == SetToSortSeq(W, LAMBDA v, w :
                        counts[v] > counts[w] \/ (counts[v] = counts[w] /\ v < w))
Take(n, s) == ToSet(SubSeq(s, 1, IF n < Len(s) THEN n ELSE Len(s)))
Selected ==
    Take(Limit, Ranked(scan.count, {w \in Words : /\ scan.count[w] >= MinOccurrences
                                                  /\ Cardinality(scan.examples[w]) >= 2}))

Locked(w) == \E p \in Promoters : job[p].at = "insert" /\ Head(job[p].todo).word = w
Unselected == {w \in Candidates \ Selected : cand[w].status # "accepted"}

\* protect_owned_word_link: a link that owns a row there is cannot be deleted.
\* Mutant of Protected: the trigger lets it go.
ProtectedNot(w) == FALSE
Protected(w) == cand[w].owns /\ Linked(w)

Published(w) ==
    IF w \in Unselected THEN NoCand
    ELSE IF w \notin Selected THEN cand[w]
    ELSE IF cand[w] = NoCand
         THEN [id |-> scan.no, rev |-> 1, n |-> scan.count[w], status |-> "pending", scan |-> scan.no,
               examples |-> scan.examples[w], row |-> 0, owns |-> FALSE,
               enriched |-> 0, basis |-> {}]
         ELSE [cand[w] EXCEPT !.rev = @ + 1, !.n = scan.count[w], !.scan = scan.no,
                              !.examples = scan.examples[w]]

\* Candidates the scan did not select go unless they were accepted; a refused
\* delete fails the whole publication.
Publish ==
    /\ scan.at = "publish" /\ \A w \in Candidates : ~Locked(w)
    /\ IF \E w \in Unselected : Protected(w)
       THEN scan' = [Resting EXCEPT !.no = scan.no] /\ UNCHANGED <<cand, rows>>
       ELSE /\ cand' = [w \in Words |-> Published(w)]
            /\ rows' = [i \in Ids |->
                 IF \E w \in Selected \cap Candidates : cand[w].owns /\ cand[w].row = i
                 THEN [rows[i] EXCEPT !.rank = scan.count[rows[i].word]] ELSE rows[i]]
            /\ scan' = [scan EXCEPT !.at = "published"]
    /\ UNCHANGED <<next, gloss, job, enricher, generated, plan>>

-----------------------------------------------------------------------------
(* Promotion                                                               *)

Statuses(mode) ==
    CASE mode = "pending" -> {"pending"}
      [] mode = "retry" -> {"pending", "failed"}
      [] mode = "all" -> {"pending", "failed", "accepted", "rejected"}
Due(mode) == {w \in Candidates : \/ cand[w].status \in Statuses(mode)
                                 \/ cand[w].status = "accepted" /\ ~Linked(w)}
Item(w) == [word |-> w, id |-> cand[w].id, rev |-> cand[w].rev, n |-> cand[w].n]

\* Processes are alike: the first idle one begins.
BeginPromotion(p, mode) ==
    /\ job[p].at = "rest" /\ \A o \in Promoters : o < p => job[o].at # "rest"
    /\ Due(mode) # {} /\ Spend("promotions")
    /\ LET order == Ranked([w \in Words |-> IF w \in Candidates THEN cand[w].n ELSE 0], Due(mode))
       IN job' = [job EXCEPT ![p] = [Off EXCEPT !.at = "sort", !.refresh = (mode = "all"),
                                       !.todo = [k \in DOMAIN order |-> Item(order[k])]]]
    /\ UNCHANGED <<rows, next, cand, gloss, scan, enricher, generated>>

Current(p) == Head(job[p].todo)

\* Only an explicit refresh replaces a current presentation.
Sort(p) ==
    /\ job[p].at = "sort" /\ job[p].todo # <<>>
    /\ job' = IF ~job[p].refresh /\ gloss[Current(p).word] # NoGloss
              THEN [job EXCEPT ![p].at = "record", ![p].answer = <<gloss[Current(p).word]>>]
              ELSE [job EXCEPT ![p].todo = Tail(@), ![p].ask = Append(@, Current(p))]
    /\ UNCHANGED <<rows, next, cand, gloss, scan, enricher, generated, plan>>

\* load_requests: the examples as they are by now.
Load(p) ==
    /\ job[p].at = "sort" /\ job[p].todo = <<>>
    /\ IF job[p].ask = <<>> THEN job' = [job EXCEPT ![p] = Off]
       ELSE job' = [job EXCEPT ![p].at = "asked",
              ![p].basis = [k \in DOMAIN job[p].ask |->
                 LET i == job[p].ask[k] IN
                 IF cand[i.word] # NoCand /\ cand[i.word].id = i.id THEN cand[i.word].examples ELSE {}]]
    /\ UNCHANGED <<rows, next, cand, gloss, scan, enricher, generated, plan>>

Failed == [teachable |-> FALSE, meaning |-> "failed"]
\* What the model says of a word that is not to be taught is not read.
Refusal == [teachable |-> FALSE, meaning |-> "refused"]
Presentations == [teachable : {TRUE}, meaning : Meanings] \cup {Refusal}

\* The model answers each word, leaves it out, or fails the batch.
Asked(p) ==
    /\ job[p].at = "asked"
    /\ \E answer \in [DOMAIN job[p].ask -> Presentations \cup {Failed}] :
          /\ job' = [job EXCEPT ![p].at = "record", ![p].todo = job[p].ask, ![p].ask = <<>>,
                                ![p].answer = answer]
    /\ UNCHANGED <<rows, next, cand, gloss, scan, enricher, generated, plan>>

\* The rest of a chunk whose answers are being recorded, or of the sorting.
AfterItem(p) ==
    LET left == Tail(job[p].todo) IN
    IF job[p].basis = <<>> THEN [job[p] EXCEPT !.at = "sort", !.todo = left, !.answer = <<>>]
    ELSE IF left = <<>> THEN Off
    ELSE [job[p] EXCEPT !.at = "record", !.todo = left, !.answer = Tail(@), !.basis = Tail(@)]

\* Mutant of SameRevision: the candidate is only still there.
SameCandidate(i) == cand[i.word] # NoCand /\ cand[i.word].id = i.id
SameRevision(i) == cand[i.word] # NoCand /\ cand[i.word].id = i.id /\ cand[i.word].rev = i.rev

MarkFailed(p) ==
    LET w == Current(p).word IN
    /\ job[p].at = "record" /\ Head(job[p].answer) = Failed /\ ~Locked(w)
    /\ cand' = IF SameRevision(Current(p)) THEN [cand EXCEPT ![w].status = "failed"] ELSE cand
    /\ job' = [job EXCEPT ![p] = AfterItem(p)]
    /\ UNCHANGED <<rows, next, gloss, scan, enricher, generated, plan>>

\* What every promotion that commits leaves: the presentation, the status, and the
\* revision it was asked for; a fresh answer came from the examples of the prompt.
Commit(p, w, status, row, owns) ==
    /\ gloss' = [gloss EXCEPT ![w] = Head(job[p].answer)]
    /\ cand' = [cand EXCEPT ![w].status = status, ![w].enriched = cand[w].rev,
                            ![w].row = row, ![w].owns = owns,
                            ![w].basis = IF job[p].basis = <<>> THEN @
                              ELSE {[rev |-> cand[w].rev, examples |-> Head(job[p].basis)]}]
    /\ job' = [job EXCEPT ![p] = AfterItem(p)]

Spelled(w) == {i \in Rows : rows[i].text = "word" /\ rows[i].word = w}
Pair(w, meaning) == {i \in Spelled(w) : rows[i].meaning = meaning}

\* promote_candidate: under the candidate's lock; a row the candidate owns gets the
\* new meaning unless another row has it, a row of the word is linked, and without
\* one a row is to be generated.
Promote(p) ==
    LET i == Current(p)  w == i.word  answer == Head(job[p].answer) IN
    /\ job[p].at = "record" /\ answer # Failed /\ ~Locked(w)
    /\ \/ /\ ~SameRevision(i)
          /\ job' = [job EXCEPT ![p] = AfterItem(p)]
          /\ UNCHANGED <<rows, cand, gloss>>
       \/ /\ SameRevision(i) /\ ~answer.teachable
          /\ Commit(p, w, "rejected", cand[w].row, cand[w].owns) /\ UNCHANGED rows
       \/ /\ SameRevision(i) /\ answer.teachable /\ Linked(w)
          /\ IF cand[w].owns /\ Pair(w, answer.meaning) \ {cand[w].row} # {}
             THEN job' = [job EXCEPT ![p].answer[1] = Failed] /\ UNCHANGED <<rows, cand, gloss>>
             ELSE /\ Commit(p, w, "accepted", cand[w].row, cand[w].owns)
                  /\ rows' = IF cand[w].owns
                             THEN [rows EXCEPT ![cand[w].row] = Spelling(w, answer.meaning, i.n)]
                             ELSE rows
       \/ /\ SameRevision(i) /\ answer.teachable /\ ~Linked(w) /\ Spelled(w) # {}
          /\ \E r \in Spelled(w) : Commit(p, w, "accepted", r, FALSE)
          /\ UNCHANGED rows
       \/ /\ SameRevision(i) /\ answer.teachable /\ ~Linked(w) /\ Spelled(w) = {}
          /\ job' = [job EXCEPT ![p].at = "insert"]
          /\ UNCHANGED <<rows, cand, gloss>>
    /\ UNCHANGED <<next, scan, enricher, generated, plan>>

\* insert_generated_row: a pair that has come meanwhile is reused and not owned.
Insert(p) ==
    LET i == Current(p)  w == i.word  answer == Head(job[p].answer) IN
    /\ job[p].at = "insert" /\ next \in Ids
    /\ IF Pair(w, answer.meaning) # {}
       THEN /\ \E r \in Pair(w, answer.meaning) : Commit(p, w, "accepted", r, FALSE)
            /\ UNCHANGED <<rows, next, generated>>
       ELSE /\ Commit(p, w, "accepted", next, TRUE)
            /\ rows' = [rows EXCEPT ![next] = Spelling(w, answer.meaning, i.n)]
            /\ next' = next + 1 /\ generated' = generated \cup {next}
    /\ UNCHANGED <<scan, enricher, plan>>

\* A process dies; a transaction it was in is rolled back.
Kill ==
    /\ Spend("kills")
    /\ \/ scan.at \in {"scan", "publish"} /\ scan' = [Resting EXCEPT !.no = scan.no] /\ UNCHANGED job
       \/ \E p \in Promoters : job[p].at # "rest" /\ job' = [job EXCEPT ![p] = Off] /\ UNCHANGED scan
    /\ UNCHANGED <<rows, next, cand, gloss, enricher, generated>>

-----------------------------------------------------------------------------
(* Enrichment and the corpus                                               *)

\* pending_page, then enrich_batch: asked for without examples, and stored over
\* whatever has come meanwhile.
AskPresentations ==
    /\ enricher.at = "rest" /\ Spend("enrichments")
    /\ enricher' = [at |-> "asked", words |-> {w \in Words : gloss[w] = NoGloss /\
                                          \E i \in Spelled(w) : rows[i].rank > 1}]
    /\ enricher'.words # {}
    /\ UNCHANGED <<rows, next, cand, gloss, scan, job, generated>>

StorePresentations ==
    /\ enricher.at = "asked"
    /\ \E answer \in [enricher.words -> Presentations \cup {Failed}] :
          gloss' = [w \in Words |-> IF w \in enricher.words /\ answer[w] # Failed
                                    THEN answer[w] ELSE gloss[w]]
    /\ enricher' = [at |-> "rest", words |-> {}]
    /\ UNCHANGED <<rows, next, cand, scan, job, generated, plan>>

\* A line of a corpus: a pair that is there counts one more, generated or not.
Import(text, meaning) ==
    /\ Spend("imports")
    /\ LET same == {i \in Rows : Text(i) = text /\ rows[i].meaning = meaning} IN
       IF same # {} THEN /\ rows' = [i \in Ids |-> IF i \in same THEN [rows[i] EXCEPT !.rank = @ + 1]
                                                               ELSE rows[i]]
                         /\ UNCHANGED next
       ELSE /\ next \in Ids /\ next' = next + 1
            /\ rows' = [rows EXCEPT ![next] = [text |-> text[1], word |-> text[2],
                                              meaning |-> meaning, rank |-> 1]]
    /\ UNCHANGED <<cand, gloss, scan, job, enricher, generated>>

\* A pruned row takes its place out of links, not out of examples.
\* Mutant of Unlinked: the links keep naming it.
UnlinkedNot(i) == cand
Unlinked(i) == [w \in Words |-> IF cand[w] # NoCand /\ cand[w].row = i
                                THEN [cand[w] EXCEPT !.row = 0] ELSE cand[w]]

Prune(i) ==
    /\ i \in Rows /\ Spend("prunes")
    /\ \A w \in Words : cand[w] # NoCand /\ cand[w].row = i => ~Locked(w)
    /\ rows' = [rows EXCEPT ![i] = NoRow]
    /\ cand' = Unlinked(i)
    /\ scan' = [scan EXCEPT !.calm = FALSE]
    /\ UNCHANGED <<next, gloss, job, enricher, generated>>

Promotion(p) ==
    \/ \E mode \in {"pending", "retry", "all"} : BeginPromotion(p, mode)
    \/ Sort(p) \/ Load(p) \/ Asked(p) \/ MarkFailed(p) \/ Promote(p) \/ Insert(p)

Next ==
    \/ BeginScan \/ ReadPage \/ Publish
    \/ \E p \in Promoters : Promotion(p)
    \/ Kill \/ AskPresentations \/ StorePresentations
    \/ \E line \in Lines : Import(line[1], line[2])
    \/ \E i \in Ids : Prune(i)

-----------------------------------------------------------------------------
TypeOK ==
    /\ \A i \in Rows : i < next
    /\ \A w \in Candidates : /\ cand[w].enriched <= cand[w].rev
                             /\ cand[w].row \in Rows \cup {0}
                             /\ cand[w].status \in {"pending", "accepted", "rejected", "failed"}
    /\ \A w \in Words : gloss[w] \in Presentations \cup {NoGloss}

\* A row that promotion generated stays out of the evidence for as long as it is
\* there, through extractions that drop candidates, promotions that repair links,
\* prunes and imports of the same pair: words are not counted from their own cards.
GeneratedApart == generated \cap Evidence = {}

\* A fresh answer of the model is stored for a revision of the candidate only if it
\* was asked with the examples of that revision, although an extraction may publish
\* others between question and answer.  A link that is repaired takes the stored
\* presentation, whatever examples that came from.
FreshOfExamples ==
    \A w \in Candidates : \A fresh \in cand[w].basis :
        fresh.rev = cand[w].rev => fresh.examples = cand[w].examples

\* Unless a row was deleted under it, an extraction publishes what counting each
\* distinct sentence once gives: the words, their counts and the number of their
\* examples, which are sentences short enough to be quoted, whatever is imported or
\* promoted beside it.
Count(w) == MapThenSumSet(LAMBDA text : TokensOf(text)[w], scan.texts)
Holding(w) == {text \in scan.quoted : TokensOf(text)[w] > 0}
Wanted == Take(Limit, Ranked([w \in Words |-> Count(w)],
                             {w \in Words : Count(w) >= MinOccurrences /\ Cardinality(Holding(w)) >= 2}))
ExtractionRight ==
    scan.at = "published" /\ scan.calm =>
        /\ {w \in Candidates : cand[w].scan = scan.no} = Wanted
        /\ \A w \in Wanted : /\ cand[w].n = Count(w)
                             /\ Cardinality(cand[w].examples) = Min({3, Cardinality(Holding(w))})
=============================================================================
