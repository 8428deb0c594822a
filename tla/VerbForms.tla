----------------------------- MODULE VerbForms -----------------------------
(***************************************************************************)
(* Practice areas of one foreign language: the area of each rule, the      *)
(* class and lemma of each frequent word, the forms of each frequent verb, *)
(* their faces for each native language and their speech                   *)
(* (grammar/areas.rs, words/classes.rs, grammar/paradigms.rs,              *)
(* media/grammar_audio.rs, pipeline/grammar_status.rs).                    *)
(*                                                                         *)
(* A command repeats one batch until a batch stores nothing, and several   *)
(* commands run at once: the script's, and any by hand.  A batch reads,    *)
(* asks the model and writes; only the write is a transaction.  Words are  *)
(* numbers in the order of their count, a lemma, a spelling and a          *)
(* rendering are numbers; the label of a slot is part of a face.           *)
(***************************************************************************)
EXTENDS Integers, FiniteSets, Sequences, SequencesExt, FiniteSetsExt

CONSTANTS
    Natives, Rules, Words, Lemmas, Processes,
    HeardIn,            \* the natives whose evidence has a word
    OneWord,            \* lemmas a prompt accepts
    LabelOf,            \* the slot table: the label of each slot
    Paradigms,            \* paradigms the model may give: a spelling and a rendering by slot
    Heard,              \* spellings in the corpus
    Quoted,             \* corpus rows with the very key of a face
    Confirmed,          \* FALSE: Gaelic, whose slot table waits to be confirmed
    TopWords, TopVerbs, Batch,    \* 2000 words, 300 verbs, 100 words or rules a call
    RejectionLimit,               \* 3
    Plans               \* the commands run, and how many failures

VARIABLES
    area,       \* grammar_rules.area
    class,      \* word_classes: none, another class, or a verb's lemma
    ledger,     \* verb_paradigm_runs
    forms,      \* verb_forms: the spelling of each slot of a lemma
    attested,   \* verb_forms.attested
    faces,      \* verb_form_translations
    rows,       \* translations that show a form
    presented,  \* owned_presentations
    clips,      \* spellings that are voiced
    cached,     \* grammar_llm_cache: accepted paradigms
    job,        \* what each process runs
    stores,     \* history: paradigms stored, by native and lemma
    left        \* what is left to run

vars == <<area, class, ledger, forms, attested, faces, rows, presented, clips, cached, job, stores, left>>
taught == <<forms, attested, faces, rows, presented, stores>>

Slots == DOMAIN LabelOf
Unclassed == -1
NoVerb == 0
Row(n, rendering, s, spelling) == [to |-> n, face |-> <<rendering, LabelOf[s]>>, form |-> spelling]
NoFace == [row |-> Row(0, 0, 1, 0), owns |-> FALSE]
Prompts == Natives \X Lemmas \X {"plain", "quoted"}
NoAnswer == <<>>
Rest == [cmd |-> "none", to |-> 0, at |-> "rest", batch |-> {}, lemma |-> 0, answer |-> <<>>]

Init ==
    /\ left \in Plans
    /\ area = [r \in Rules |-> IF left.tagged THEN "other" ELSE "none"] /\ class = [w \in Words |-> Unclassed]
    /\ ledger = [l \in Lemmas |-> [status |-> "none", attempts |-> 0]]
    /\ forms = [l \in Lemmas |-> [s \in Slots |-> 0]]
    /\ attested = [l \in Lemmas |-> [s \in Slots |-> FALSE]]
    /\ faces = [n \in Natives |-> [l \in Lemmas |-> [s \in Slots |-> NoFace]]]
    /\ rows = Quoted /\ presented = {} /\ clips = {}
    /\ cached = [p \in Prompts |-> NoAnswer]
    /\ job = [p \in Processes |-> Rest]
    /\ stores = [n \in Natives |-> [l \in Lemmas |-> 0]]

TypeOK ==
    /\ area \in [Rules -> {"none", "verb", "other"}]
    /\ class \in [Words -> {Unclassed, NoVerb} \cup Lemmas]
    /\ \A l \in Lemmas : ledger[l].status \in {"none", "ok", "rejected"} /\ ledger[l].attempts \in Nat
    /\ \A l \in Lemmas, s \in Slots : forms[l][s] \in Nat /\ attested[l][s] \in BOOLEAN
    /\ \A n \in Natives, l \in Lemmas, s \in Slots :
          faces[n][l][s] # NoFace => faces[n][l][s].row \in rows
    /\ presented \subseteq rows /\ Quoted \subseteq rows
    /\ \A p \in Processes : job[p].at \in {"rest", "read", "ask", "again", "write", "voice"}

-----------------------------------------------------------------------------
\* What is there to do.

\* The n smallest of a set of numbers: the most frequent words, the next rules.
First(S, n) == {x \in S : Cardinality({y \in S : y < x}) < n}
Untagged == {r \in Rules : area[r] = "none"}
\* The top words of the pair's evidence that have no class.
Unclassified(n) == {w \in First({v \in Words : n \in HeardIn[v]}, TopWords) : class[w] = Unclassed}

\* The most frequent word of a verb, in the evidence of any native language.
Spoken == {w \in Words : class[w] \in Lemmas /\ HeardIn[w] # {}}
Verbs == {class[w] : w \in Spoken}
Ranked == SetToSortSeq(Verbs, LAMBDA l, m :
    Min({w \in Spoken : class[w] = l}) < Min({w \in Spoken : class[w] = m}))
GivenUp(l) == ledger[l].status = "rejected" /\ ledger[l].attempts >= RejectionLimit
Faceless(n, l) == \E s \in Slots : forms[l][s] # 0 /\ faces[n][l][s] = NoFace
\* paradigm_work: top verbs without a paradigm, or without a face for this native.
Wanting(n, l) == IF ledger[l].status = "ok" THEN Faceless(n, l) ELSE ~GivenUp(l)
Top == SubSeq(Ranked, 1, Min({TopVerbs, Len(Ranked)}))
Work(n) == SelectSeq(Top, LAMBDA l : Wanting(n, l))

\* grammar_areas_idle; grammar_audio_idle of the verb forms.
AreasIdle(n) == Untagged = {} /\ Unclassified(n) = {} /\ Work(n) = <<>>
Spelled == {forms[l][s] : l \in Lemmas, s \in Slots} \ {0}
AudioIdle == Spelled \subseteq clips

-----------------------------------------------------------------------------
\* Commands.

On(p, cmd, step) == job[p].cmd = cmd /\ job[p].at = step
\* The batch stored nothing, the model cannot be asked, or the process is killed.
Ends(p) == job' = [job EXCEPT ![p] = Rest]
Again(p) == job' = [job EXCEPT ![p] = [Rest EXCEPT !.cmd = job[p].cmd, !.to = job[p].to, !.at = "read"]]
\* The model cannot be asked, or the process is killed: what was committed stays.
Stop(p) ==
    /\ job[p].at # "rest" /\ left.stops > 0
    /\ Ends(p) /\ left' = [left EXCEPT !.stops = @ - 1]
    /\ UNCHANGED <<area, class, ledger, taught, clips, cached>>

Start(p, cmd, n) ==
    /\ job[p].at = "rest" /\ <<cmd, n>> \in DOMAIN left.runs /\ left.runs[<<cmd, n>>] > 0
    /\ left' = [left EXCEPT !.runs[<<cmd, n>>] = @ - 1]
    /\ cmd = "forms" => Confirmed
    /\ job' = [job EXCEPT ![p] = [Rest EXCEPT !.cmd = cmd, !.to = n, !.at = "read"]]
    /\ UNCHANGED <<area, class, ledger, taught, clips, cached>>

\* A batch of rules without an area, and the labels the model gives; a rule it omits
\* is "other".
ReadRules(p) ==
    /\ On(p, "rules", "read")
    /\ IF Untagged = {} THEN Ends(p)
       ELSE job' = [job EXCEPT ![p].at = "ask", ![p].batch = First(Untagged, Batch)]
    /\ UNCHANGED <<area, class, ledger, taught, clips, cached, left>>
LabelRules(p) ==
    /\ On(p, "rules", "ask")
    /\ \E labels \in [job[p].batch -> {"verb", "other"}] :
          job' = [job EXCEPT ![p].at = "write", ![p].answer = labels]
    /\ UNCHANGED <<area, class, ledger, taught, clips, cached, left>>
\* Only rules that still have none are written.
WriteRules(p) ==
    LET fresh == job[p].batch \cap Untagged IN
    /\ On(p, "rules", "write")
    /\ area' = [r \in Rules |-> IF r \in fresh THEN job[p].answer[r] ELSE area[r]]
    /\ IF fresh = {} THEN Ends(p) ELSE Again(p)
    /\ UNCHANGED <<class, ledger, taught, clips, cached, left>>

\* A batch of frequent words, and the classes the model gives.
ReadWords(p) ==
    /\ On(p, "words", "read")
    /\ LET todo == Unclassified(job[p].to) IN
       IF todo = {} THEN Ends(p)
       ELSE job' = [job EXCEPT ![p].at = "ask", ![p].batch = First(todo, Batch)]
    /\ UNCHANGED <<area, class, ledger, taught, clips, cached, left>>
LabelWords(p) ==
    /\ On(p, "words", "ask")
    /\ \E labels \in [job[p].batch -> {NoVerb} \cup Lemmas] :
          job' = [job EXCEPT ![p].at = "write", ![p].answer = labels]
    /\ UNCHANGED <<area, class, ledger, taught, clips, cached, left>>
\* ON CONFLICT DO NOTHING: the first class of a word stays.
WriteWords(p) ==
    LET fresh == {w \in job[p].batch : class[w] = Unclassed} IN
    /\ On(p, "words", "write")
    /\ class' = [w \in Words |-> IF w \in fresh THEN job[p].answer[w] ELSE class[w]]
    /\ IF fresh = {} THEN Ends(p) ELSE Again(p)
    /\ UNCHANGED <<area, ledger, taught, clips, cached, left>>

-----------------------------------------------------------------------------
\* One paradigm.

Reject(l) == ledger' = [ledger EXCEPT ![l] = [status |-> "rejected", attempts |-> @.attempts + 1]]

\* The most frequent verb with work.  A lemma of several words is rejected unasked, and
\* a rejection counts as nothing stored, so the command ends with it.
Choose(p) ==
    /\ On(p, "forms", "read")
    /\ LET work == Work(job[p].to) IN
       \/ work = <<>> /\ Ends(p) /\ UNCHANGED ledger
       \/ /\ work # <<>> /\ work[1] \in OneWord
          /\ job' = [job EXCEPT ![p].at = "ask", ![p].lemma = work[1]]
          /\ UNCHANGED ledger
       \/ work # <<>> /\ work[1] \notin OneWord /\ Reject(work[1]) /\ Ends(p)
    /\ UNCHANGED <<area, class, taught, clips, cached, left>>

\* validate_paradigm: an answer names exactly the slots of the language.
Accepted(answer) == DOMAIN answer = Slots
\* An accepted answer is kept for its prompt; a refused one is quoted in a second prompt,
\* and recorded when that is refused too.
Ask(p) ==
    LET l == job[p].lemma
        prompt == <<job[p].to, l, IF job[p].at = "ask" THEN "plain" ELSE "quoted">>
    IN  /\ job[p].cmd = "forms" /\ job[p].at \in {"ask", "again"}
        /\ \E a \in IF cached[prompt] = NoAnswer THEN Paradigms ELSE {cached[prompt]} :
              \/ /\ Accepted(a)
                 /\ cached' = [cached EXCEPT ![prompt] = a]
                 /\ job' = [job EXCEPT ![p].at = "write", ![p].answer = a]
                 /\ UNCHANGED <<ledger, left>>
              \/ /\ ~Accepted(a) /\ left.refusals > 0
                 /\ left' = [left EXCEPT !.refusals = @ - 1]
                 /\ \/ job[p].at = "ask" /\ job' = [job EXCEPT ![p].at = "again"] /\ UNCHANGED ledger
                    \/ job[p].at = "again" /\ Reject(l) /\ Ends(p)
                 /\ UNCHANGED cached
        /\ UNCHANGED <<area, class, taught, clips>>

\* store_forms, slot by slot: a row that is there is linked, and owned only by the face
\* that made it; a row that is not is made and owned.
\* Mutant of Linked: a row that is there is owned too.
LinkedAsOwn(f, s, row) ==
    [faces |-> [f.faces EXCEPT ![s] = [row |-> row, owns |-> TRUE]], rows |-> f.rows \cup {row}]
Linked(f, s, row) ==
    LET owns == row \in f.rows => f.faces[s] = [row |-> row, owns |-> TRUE] IN
    [faces |-> [f.faces EXCEPT ![s] = [row |-> row, owns |-> owns]], rows |-> f.rows \cup {row}]
StoreForms(n, l, answer) == FoldLeft(
    LAMBDA f, s : Linked(f, s, Row(n, answer[s].native, s, answer[s].form)),
    [faces |-> faces[n][l], rows |-> rows], [s \in Slots |-> s])

\* corpus_evidence_translations: rows no face owns; a form is attested by any of them.
OwnedIn(f) == UNION {{f[n][l][s].row : s \in {t \in Slots : f[n][l][t].owns}} :
                     n \in Natives, l \in Lemmas}
Attests(f, there, spelling) ==
    spelling \in Heard \/ \E r \in there \ OwnedIn(f) : r.form = spelling

\* Forms, faces, rows, presentations, the attestation of the whole language and the
\* ledger, in one transaction.
Store(p) ==
    LET n == job[p].to
        l == job[p].lemma
        a == job[p].answer
        done == StoreForms(n, l, a)
    IN  /\ On(p, "forms", "write")
        /\ forms' = [forms EXCEPT ![l] = [s \in Slots |-> a[s].form]]
        /\ faces' = [faces EXCEPT ![n][l] = done.faces]
        /\ rows' = done.rows
        /\ presented' = presented \cup {done.faces[s].row : s \in {t \in Slots : done.faces[t].owns}}
        /\ attested' = [m \in Lemmas |-> [s \in Slots |->
              forms'[m][s] # 0 /\ Attests(faces', rows', forms'[m][s])]]
        /\ ledger' = [ledger EXCEPT ![l].status = "ok", ![l].attempts = IF @ = 0 THEN 1 ELSE @]
        /\ stores' = [stores EXCEPT ![n][l] = @ + 1]
        /\ Again(p)
        /\ UNCHANGED <<area, class, clips, cached, left>>

\* prefetch_grammar_audio: the distinct forms of the moment, each voiced or not.
ListForms(p) ==
    /\ On(p, "speech", "read")
    /\ job' = [job EXCEPT ![p].at = "voice", ![p].batch = Spelled]
    /\ UNCHANGED <<area, class, ledger, taught, clips, cached, left>>
Voice(p) ==
    /\ On(p, "speech", "voice")
    /\ IF job[p].batch = {} THEN Ends(p) /\ UNCHANGED <<clips, left>>
       ELSE LET f == Min(job[p].batch) IN
            /\ job' = [job EXCEPT ![p].batch = @ \ {f}]
            /\ \/ clips' = clips \cup {f} /\ UNCHANGED left
               \/ /\ f \notin clips /\ left.stops > 0
                  /\ left' = [left EXCEPT !.stops = @ - 1] /\ UNCHANGED clips
    /\ UNCHANGED <<area, class, ledger, taught, cached>>

Next == \E p \in Processes :
    \/ \E run \in DOMAIN left.runs : Start(p, run[1], run[2])
    \/ ReadRules(p) \/ LabelRules(p) \/ WriteRules(p)
    \/ ReadWords(p) \/ LabelWords(p) \/ WriteWords(p)
    \/ Choose(p) \/ Ask(p) \/ Store(p) \/ ListForms(p) \/ Voice(p) \/ Stop(p)

Spec == Init /\ [][Next]_vars

-----------------------------------------------------------------------------
Shown == {t \in Natives \X Lemmas \X Slots : faces[t[1]][t[2]][t[3]] # NoFace}
FaceOf(t) == faces[t[1]][t[2]][t[3]]
Elsewhere(n, l) == \E m \in Natives \ {n} : stores[m][l] > 0

\* verb_form_candidates: the forms of a native in the order of their verbs.
VerbDeck(n) ==
    LET unranked == SetToSortSeq(Lemmas \ Verbs, <)
        inOrder  == Ranked \o unranked
    IN  FlattenSeq([i \in DOMAIN inOrder |->
            SelectSeq([s \in Slots |-> faces[n][inOrder[i]][s].row],
                      LAMBDA r : r # NoFace.row)])

\* A row made for a face has one owner.
OwnedOnce == \A t, u \in Shown :
    FaceOf(t).owns /\ FaceOf(u).owns /\ FaceOf(t).row = FaceOf(u).row => t = u

\* A form that was made counts as text of the corpus only if its paradigm was stored
\* again with another answer: two runs can store one verb with two answers.
GeneratedApart == \A r \in rows \ (Quoted \cup OwnedIn(faces)) :
    \E l \in Lemmas : stores[r.to][l] > 1
\* Nor is a form attested that the corpus does not have.
AttestedInCorpus == \A l \in Lemmas, s \in Slots :
    attested[l][s] /\ (\A n \in Natives, m \in Lemmas : stores[n][m] < 2) =>
        forms[l][s] \in Heard \cup {r.form : r \in Quoted}

\* What a card shows is the form that is kept, and voiced when the status is idle,
\* unless another native language has asked for the verb since.
ShownIsKept == \A t \in Shown : ~Elsewhere(t[1], t[2]) =>
    /\ FaceOf(t).row.form = forms[t[2]][t[3]]
    /\ AudioIdle => FaceOf(t).row.form \in clips

\* A pair whose areas are idle deals every form of each frequent verb that was not
\* given up, in the order of the verbs.
IdleIsDealt == \A n \in Natives : AreasIdle(n) => \A l \in ToSet(Top) :
    GivenUp(l) \/ Elsewhere(n, l) \/
        {forms[l][s] : s \in Slots} \subseteq {r.form : r \in ToSet(VerbDeck(n))}
=============================================================================
