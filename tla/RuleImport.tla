----------------------------- MODULE RuleImport -----------------------------
(***************************************************************************)
(* The syllabus of one language and what writes it: the resumable import   *)
(* of grammar documents (pdf_incremental.rs, pdf_matching.rs, driven by    *)
(* import-grammar.sh), the model that tops up a level (seeder.rs), the     *)
(* older import that fills a level from a document (pdf_import.rs), and a  *)
(* curated syllabus (syllabus.rs).                                         *)
(*                                                                         *)
(* A round of the import is one transaction under the language's advisory  *)
(* lock: read the syllabus, ask the model for points, have it compare      *)
(* them, store what is new, move on when the answer brought nothing new.   *)
(* The model's answers are saved in transactions of their own.  Nothing    *)
(* else takes the lock.  The model is taken to tell senses apart, and to   *)
(* say that a chunk has no more only when it has no more.                  *)
(***************************************************************************)
EXTENDS Naturals, FiniteSets, Sequences

CONSTANTS Slugs,        \* titles of points, folded
          SenseOf,      \* what a point teaches: two titles may teach the same
          Calls,        \* the schedule: the level of each call and its chunks
          Runs,         \* import-pdf --incremental, from the script or by hand
          Batch,        \* SYNTHESIS_BATCH
          RulesPerLevel, DocumentRulesPerLevel,
          Proposals,    \* bound: points in the answer another writer gets
          Plans         \* bound: the imports a behaviour may have, its failures and
                        \* refusals, and what the other writers do

VARIABLES rules,        \* grammar_rules: level and source of each slug
          progress,     \* grammar_import_progress of each call
          saved,        \* grammar_llm_cache: answers by call, chunk and titles covered
          job,          \* where each import is
          writer,       \* the other model-driven writer
          late,         \* slugs others stored beside a round, or twice in a sense
          plan          \* what is left of the plan

vars == <<rules, progress, saved, job, writer, late, plan>>

None == [level |-> 0, source |-> "none"]
Stored == {s \in Slugs : rules[s] # None}
Taught == {SenseOf[s] : s \in Stored}
Rest == [at |-> "rest", call |-> 1, chunk |-> 0, seen |-> {}, existing |-> {}, found |-> {},
         refused |-> FALSE]
Away == [at |-> "rest", kind |-> "", level |-> 0, protected |-> {}, left |-> {}]

Init ==
    /\ rules = [s \in Slugs |-> None]
    /\ progress = [c \in DOMAIN Calls |-> [next |-> 1, completed |-> FALSE]]
    /\ saved = {} /\ job = [r \in Runs |-> Rest] /\ writer = Away /\ late = {}
    /\ plan \in Plans

Mishap == plan.mishaps > 0 /\ plan' = [plan EXCEPT !.mishaps = @ - 1]
At(r, step) == job[r].at = step
Chunks(c) == Calls[c].chunks

-----------------------------------------------------------------------------
(* The import                                                              *)

\* The schedule, level by level; a call that is complete is passed over.
NextCall(r) ==
    job' = [job EXCEPT ![r] = IF @.call < Len(Calls)
                              THEN [Rest EXCEPT !.at = "check", !.call = job[r].call + 1]
                              ELSE Rest]

Begin(r) ==
    /\ At(r, "rest") /\ r \in plan.runs /\ \E c \in DOMAIN Calls : ~progress[c].completed
    /\ job' = [job EXCEPT ![r] = [Rest EXCEPT !.at = "check"]]
    /\ UNCHANGED <<rules, progress, saved, writer, late, plan>>

IsComplete(r) ==
    /\ At(r, "check")
    /\ IF progress[job[r].call].completed THEN NextCall(r)
                                          ELSE job' = [job EXCEPT ![r].at = "lock"]
    /\ UNCHANGED <<rules, progress, saved, writer, late, plan>>

Locks(r) == job[r].at \in {"ask", "commit"}
LockFree == \A r \in Runs : ~Locks(r)

\* Progress is read again under the lock; the points of this run are forgotten
\* when another import has moved the cursor.
BeginRound(r) ==
    /\ At(r, "lock") /\ LockFree
    /\ LET done == progress[job[r].call] IN
       IF done.completed THEN NextCall(r)
       ELSE job' = [job EXCEPT ![r].at = "ask", ![r].existing = Stored,
                               ![r].seen = IF job[r].chunk = done.next THEN @ ELSE {},
                               ![r].chunk = done.next]
    /\ UNCHANGED <<rules, progress, saved, writer, late, plan>>

Prompt(r) == [call |-> job[r].call, chunk |-> job[r].chunk, covered |-> job[r].seen]
SavedFor(p) == {a \in saved : a.prompt = p}
Chunk(r) == Chunks(job[r].call)[job[r].chunk]

\* The gate keeps at most a batch, and refuses the rest and what lacks prose or
\* examples.  Only an answer without refusals is saved.
Synthesise(r) ==
    /\ At(r, "ask")
    /\ \/ \E a \in SavedFor(Prompt(r)) :
            /\ job' = [job EXCEPT ![r].at = "commit", ![r].found = a.points,
                                  ![r].refused = FALSE]
            /\ UNCHANGED <<saved, plan>>
       \/ /\ SavedFor(Prompt(r)) = {}
          /\ \E points \in SUBSET Chunk(r), refused \in BOOLEAN :
                /\ Cardinality(points) <= Batch
                /\ points \subseteq job[r].seen /\ ~refused => Chunk(r) \subseteq job[r].seen
                /\ IF refused THEN Mishap /\ UNCHANGED saved
                   ELSE /\ saved' = saved \cup {[prompt |-> Prompt(r), points |-> points]}
                        /\ UNCHANGED plan
                /\ job' = [job EXCEPT ![r].at = "commit", ![r].found = points,
                                      ![r].refused = refused]
    /\ UNCHANGED <<rules, progress, writer, late>>

\* Of what the answer found, what the syllabus lacks in title and in sense; of two
\* alike in one answer the first.
NewSenses(r) == {SenseOf[s] : s \in job[r].found} \ {SenseOf[s] : s \in job[r].existing}
Distinct(r) ==
    {CHOOSE s \in job[r].found \ job[r].existing : SenseOf[s] = sense : sense \in NewSenses(r)}

\* Mutant of Discovered: an answer counts as new by what the syllabus lacks.
DiscoveredInSyllabus(r) == ~(job[r].found \subseteq job[r].existing)
Discovered(r) == ~(job[r].found \subseteq job[r].seen)

\* Existing rows are left as they are, whatever their level or source.
Commit(r) ==
    /\ At(r, "commit") /\ (Discovered(r) \/ ~job[r].refused)
    /\ LET c == job[r].call
           next == job[r].chunk + (IF Discovered(r) THEN 0 ELSE 1)
       IN /\ rules' = [s \in Slugs |-> IF s \in Distinct(r) /\ rules[s] = None
                                      THEN [level |-> Calls[c].level, source |-> "pdf"]
                                      ELSE rules[s]]
          /\ progress' = [progress EXCEPT ![c] = [next |-> next, completed |-> next > Len(Chunks(c))]]
          /\ IF next > Len(Chunks(c)) THEN NextCall(r)
             ELSE job' = [job EXCEPT ![r].at = "lock", ![r].seen = @ \cup job[r].found]
    /\ UNCHANGED <<saved, writer, late, plan>>

\* Nothing new and a point refused: the chunk stays pending, the next call is made.
Pending(r) ==
    /\ At(r, "commit") /\ ~Discovered(r) /\ job[r].refused
    /\ NextCall(r)
    /\ UNCHANGED <<rules, progress, saved, writer, late, plan>>

\* An answer that cannot be read, twice, ends this call; a provider that is out, a
\* failing database or a killed process ends the run.  The round is rolled back.
Fail(r) ==
    /\ ~At(r, "rest") /\ Mishap
    /\ \/ Locks(r) /\ NextCall(r)
       \/ job' = [job EXCEPT ![r] = Rest]
    /\ UNCHANGED <<rules, progress, saved, writer, late>>

Import(r) == Begin(r) \/ IsComplete(r) \/ BeginRound(r) \/ Synthesise(r) \/ Commit(r)
             \/ Pending(r) \/ Fail(r)

-----------------------------------------------------------------------------
(* The other writers                                                       *)

AtLevel(l, sources) == {s \in Stored : rules[s].level = l /\ rules[s].source \in sources}
AllSources == {"pdf", "llm", "reference"}
Owed(kind, l) ==
    IF kind = "seed" THEN RulesPerLevel - Cardinality(AtLevel(l, AllSources))
                     ELSE DocumentRulesPerLevel - Cardinality(AtLevel(l, {"pdf"}))
LevelIsFull(kind, l) ==
    IF kind = "seed" THEN Cardinality(AtLevel(l, AllSources)) >= RulesPerLevel
                     ELSE Cardinality(AtLevel(l, {"pdf"})) >= DocumentRulesPerLevel

Write == plan.writes > 0 /\ plan' = [plan EXCEPT !.writes = @ - 1]

\* A level that is short is read once, before the model is asked.  The answer may
\* repeat a title it was told is covered; only the document's import cuts it to
\* what is owed.
AskForLevel(kind, l) ==
    /\ writer.at = "rest" /\ ~LevelIsFull(kind, l) /\ Write
    /\ \E points \in SUBSET Slugs :
          /\ Cardinality(points) <= Proposals
          /\ kind = "fill" => Cardinality(points) <= Owed(kind, l)
          /\ writer' = [at |-> "place", kind |-> kind, level |-> l, left |-> points,
                        protected |-> IF kind = "seed" THEN {} ELSE AtLevel(l, {"llm", "reference"})]
    /\ UNCHANGED <<rules, progress, saved, job, late>>

\* What an import under way cannot have compared, or what says a sense again.
LateIfNew(s) ==
    late' = IF rules[s] = None /\ (~LockFree \/ SenseOf[s] \in Taught) THEN late \cup {s} ELSE late

\* place_rule: a point at another level stays there, one at this level is reworded.
PlaceRule(s) ==
    /\ writer.at = "place" /\ s \in writer.left
    /\ writer' = [writer EXCEPT !.left = @ \ {s}]
    /\ IF s \in writer.protected \/ rules[s].level \notin {0, writer.level}
       THEN UNCHANGED <<rules, late>>
       ELSE /\ rules' = [rules EXCEPT ![s] = [level |-> writer.level,
                                             source |-> IF writer.kind = "seed" THEN "llm" ELSE "pdf"]]
            /\ LateIfNew(s)
    /\ UNCHANGED <<progress, saved, job, plan>>

LevelWritten ==
    /\ writer.at = "place" /\ writer.left = {}
    /\ writer' = Away
    /\ UNCHANGED <<rules, progress, saved, job, late, plan>>

\* A curated entry, new or adopting a point: it may move it to its own level.
Curate(s, l) ==
    /\ Write
    /\ rules' = [rules EXCEPT ![s] = [level |-> l, source |-> "reference"]]
    /\ LateIfNew(s)
    /\ UNCHANGED <<progress, saved, job, writer>>

Levels == {Calls[c].level : c \in DOMAIN Calls}

Next ==
    \/ \E r \in Runs : Import(r)
    \/ \E l \in Levels, kind \in {"seed", "fill"} : AskForLevel(kind, l)
    \/ \E s \in Slugs : PlaceRule(s) \/ \E l \in Levels : Curate(s, l)
    \/ LevelWritten

-----------------------------------------------------------------------------
TypeOK ==
    /\ \A s \in Slugs : rules[s].level \in Levels \cup {0}
    /\ \A c \in DOMAIN Calls : progress[c].next \in 1 .. Len(Chunks(c)) + 1
    /\ late \subseteq Slugs

\* A chunk the import has left behind is taught, point by point, by its title or in
\* another, though rounds failed between answer and commit, an import was killed
\* and forgot its points, or another import moved the cursor; and a call is called
\* complete with its last chunk.
ReadThrough ==
    \A c \in DOMAIN Calls :
        /\ \A n \in 1 .. progress[c].next - 1 : \A s \in Chunks(c)[n] : SenseOf[s] \in Taught
        /\ progress[c].completed <=> progress[c].next > Len(Chunks(c))

\* No sense is taught twice but by a writer that does not take part: imports run
\* side by side and find the same point under two titles, in one chunk or in two.
TaughtOnce ==
    \A s, t \in Stored : s # t /\ SenseOf[s] = SenseOf[t] => s \in late \/ t \in late
=============================================================================
