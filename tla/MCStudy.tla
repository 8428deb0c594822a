------------------------------ MODULE MCStudy ------------------------------
(***************************************************************************)
(* How study material is made and studied, as scenes of one instance.      *)
(* Beside those of StudyScenes: the media of a deck, the words of          *)
(* sentences, a flashcard session with its windows, a placement run, decks *)
(* and the cards they are made of, a sitting of grammar practice and the   *)
(* forms of verbs.  The scenes share tables but no rows, so each behaviour *)
(* plays one, and the others stay at an initial state.                     *)
(***************************************************************************)
EXTENDS StudyScenes, TLC

\* The values of the instance.
TwoOfASense == [s \in {"a", "b", "c"} |-> IF s = "c" THEN 2 ELSE 1]
OneDocument == <<[level |-> 1, chunks |-> <<{"a", "c"}, {"b"}>>]>>
TwoLectures == {[runs |-> {"x"}, mishaps |-> 1, writes |-> 1],
                [runs |-> {"x", "y"}, mishaps |-> 1, writes |-> 0]}
TwoItems == <<1, 2>>
RulesOfFour == <<1, 2, 1, 2>>
ThreeResults == {[audio |-> TRUE, visual |-> TRUE], [audio |-> TRUE, visual |-> FALSE],
                 [audio |-> FALSE, visual |-> FALSE]}
\* Both channels match or both do not.
Throw(match, audio, visual) ==
    [match |-> [audio |-> match, visual |-> match], item |-> [audio |-> audio, visual |-> visual]]
ThreeThrows == {Throw(FALSE, 1, 1), Throw(FALSE, 2, 2), Throw(TRUE, 1, 2)}
TwoPools == {1 .. 7, 1 .. 8}
\* Logins, runs, ends of sessions and deaths of the app; who has signed in before.
Days(n, users) == [logins |-> n[1], runs |-> n[2], ends |-> n[3], deaths |-> n[4], before |-> users]
FourRations ==
    {Days(<<2, 1, 0, 0>>, {}), Days(<<2, 1, 0, 0>>, {1, 2}), Days(<<1, 1, 0, 1>>, {1, 2}),
     Days(<<1, 2, 1, 0>>, {1, 2})}

VARIABLES
    \* Prefetch
    have, task, outcome, chunk, used, refused, run, published, upset,
    \* WordStudy
    table, sequence, candidate, presentation, scan, promoter, enricher, generated, study,
    \* LearnSession
    session, flags, there, answered, window, asked, torn, upsets,
    \* Placement
    attempt, closed, score, wide, stale, form, placing, late, changes,
    \* DeckChoice
    count, phrases, gloss, carded, foreign, due, named, owned, deal, adding, touched, supply,
    \* GrammarDrill
    bank, exposed, opening, underway, given, mirror, sheet, sent, closing, moment, shown, calm, hasty, hours,
    \* VerbForms
    area, class, ledger, spelling, attested, faces, printed, presented, clips, cached, command,
    stores, budgeted

Prepare == INSTANCE Prefetch WITH
    Items <- 1 .. 3, Chunk <- 2, MaxTasks <- 2, Budget <- 4, Upsets <- 2,
    SizeOf <- [k \in {"a1", "a2", "a3", "p1", "p2"} |-> IF k = "p1" THEN 2 ELSE 1],
    KeyOf <- <<1, "audio">> :> "a1" @@ <<2, "audio">> :> "a2" @@ <<3, "audio">> :> "a3"
          @@ <<1, "image">> :> "p1" @@ <<2, "image">> :> "p1" @@ <<3, "image">> :> "p2"

Row(t, w, m, n) == [text |-> t, word |-> w, meaning |-> m, rank |-> n]
FourSentences == <<Row("s1", 0, "a", 1), Row("s2", 0, "a", 1), Row("s1", 0, "b", 1),
                   Row("s3", 0, "a", 1), Row("bad", 0, "a", 1)>>
WithAWord == <<Row("s1", 0, "a", 1), Row("s2", 0, "a", 1), Row("word", 1, "m", 2),
               Row("s3", 0, "a", 1), Row("s1", 0, "b", 1)>>
\* A sentence whose first row has a meaning too long to be quoted.
LongFirst == <<Row("s1", 0, "long", 1), Row("s2", 0, "a", 1), Row("s1", 0, "b", 1),
               Row("s3", 0, "a", 1)>>
TwoSentences == <<Row("s2", 0, "a", 1), Row("s3", 0, "a", 1)>>
\* Rows, then how many scans, promotions, kills, enrichments, imports and prunes.
Study(c, n) == [corpus |-> c, scans |-> n[1], promotions |-> n[2], kills |-> n[3],
                enrichments |-> n[4], imports |-> n[5], prunes |-> n[6]]

Vocabulary == INSTANCE WordStudy WITH
    rows <- table, next <- sequence, cand <- candidate, gloss <- presentation,
    job <- promoter, plan <- study,
    Words <- {1, 2}, Sentences <- {"s1", "s2", "s3", "s4", "bad"}, Debris <- {"bad"}, Unquotable <- {"long"},
    Tokens <- [s1 |-> <<1, 0>>, s2 |-> <<1, 1>>, s3 |-> <<0, 1>>, s4 |-> <<0, 2>>, bad |-> <<3, 3>>],
    Lines <- {<<<<"s4", 0>>, "a">>, <<<<"word", 1>>, "n">>},
    Ids <- 1 .. 8, Meanings <- {"m", "n"}, PageSize <- 2, MinOccurrences <- 2, Limit <- 1,
    Promoters <- {1, 2},
    Plans <- {Study(FourSentences, <<2, 1, 0, 0, 1, 1>>), Study(FourSentences, <<1, 2, 0, 0, 0, 1>>),
              Study(WithAWord, <<2, 1, 0, 1, 1, 0>>), Study(WithAWord, <<1, 2, 1, 1, 0, 0>>),
              Study(LongFirst, <<1, 1, 0, 0, 1, 1>>), Study(TwoSentences, <<2, 2, 0, 0, 1, 1>>)}

Learn == INSTANCE LearnSession WITH
    Tabs <- {"b"}, Terminals <- {"t"}, Deck <- 1 .. 3, Clicks <- 2, Upsets <- 1

Place == INSTANCE Placement WITH
    run <- attempt, page <- form, request <- placing, tangled <- late, upsets <- changes,
    Levels <- 1 .. 3, Sample <- 6, Rights <- {3, 4}, Requests <- {"r", "q"}, Upsets <- 1

\* Counts of the rows, phrases, refused words, cards; how many decks and changes.
Supply(counts, promoted, faulty, learned, n) ==
    [count |-> counts, phrases |-> promoted, refused |-> faulty, carded |-> learned,
     deals |-> n[1], changes |-> n[2]]

Decks == INSTANCE DeckChoice WITH
    plan <- supply,
    Rows <- 1 .. 6, WordOf <- <<1, 1, 2, 3, 4, 2>>, FaceOf <- <<1, 2, 1, 1, 1, 3>>,
    Short <- {4}, Noted <- 2 :> 6 @@ 3 :> 4, Size <- 3, Every <- 2,
    Plans <- {Supply(<<2, 2, 1, 1, 2, -2>>, {5}, {}, {}, <<1, 2>>),
              Supply(<<2, 1, 1, 1, 3, -2>>, {5}, {}, {3}, <<2, 1>>),
              Supply(<<1, 2, 2, 1, 1, -2>>, {}, {3}, {4}, <<1, 2>>)}

\* The status of items; sessions in the browser and on the device, presses, failures,
\* reviews of the bank, pages left.
Sitting(standing, n) ==
    [bank |-> standing, starts |-> n[1], sittings |-> n[2], presses |-> n[3], upsets |-> n[4],
     reviews |-> n[5], leaves |-> n[6]]
AllActive == <<"active", "active", "active">>

Drill == INSTANCE GrammarDrill WITH
    status <- bank, recent <- exposed, open <- underway, attempts <- given, page <- sheet, left <- hours,
    Items <- 1 .. 3, PointOf <- <<1, 1, 2>>, Opened <- 1 .. 3, Sat <- {9}, Length <- 2,
    Plans <- {Sitting(AllActive, <<1, 0, 3, 0, 0, 0>>), Sitting(AllActive, <<0, 1, 2, 0, 1, 0>>),
              Sitting(<<"active", "active", "candidate">>, <<3, 0, 0, 1, 0, 3>>),
              Sitting(<<"active", "candidate", "active">>, <<2, 0, 1, 0, 1, 1>>),
              Sitting(AllActive, <<1, 1, 2, 0, 0, 1>>), Sitting(AllActive, <<1, 0, 2, 1, 0, 0>>)}

\* Two slots: spelling and rendering of the first, of the second.
Paradigm(a, b, c, d) == <<[form |-> a, native |-> b], [form |-> c, native |-> d]>>
\* Runs of a command for a native language; stops; refused answers.
Commands(r, n, done) == [runs |-> r, stops |-> n[1], refusals |-> n[2], tagged |-> done]

Verbs == INSTANCE VerbForms WITH
    forms <- spelling, rows <- printed, job <- command, left <- budgeted,
    Natives <- {1, 2}, Rules <- {1, 2}, Words <- 1 .. 3, Lemmas <- {1, 2}, Processes <- {"x", "y"},
    HeardIn <- <<{1}, {1, 2}, {1}>>, OneWord <- {1}, LabelOf <- <<1, 1>>,
    Paradigms <- {Paradigm(1, 1, 2, 2), Paradigm(1, 1, 1, 1), Paradigm(2, 1, 3, 1),
                  <<[form |-> 1, native |-> 1]>>},
    Heard <- {1}, Quoted <- {[to |-> 1, face |-> <<2, 1>>, form |-> 2]}, Confirmed <- TRUE,
    TopWords <- 2, TopVerbs <- 2, Batch <- 1, RejectionLimit <- 2,
    Plans <- {Commands(<<"rules", 1>> :> 2 @@ <<"words", 1>> :> 1, <<1, 0>>, FALSE),
              Commands(<<"words", 1>> :> 2 @@ <<"words", 2>> :> 1, <<0, 0>>, TRUE),
              Commands(<<"words", 1>> :> 1 @@ <<"forms", 1>> :> 2, <<0, 2>>, TRUE),
              Commands(<<"words", 1>> :> 1 @@ <<"forms", 1>> :> 1 @@ <<"forms", 2>> :> 1, <<0, 1>>, TRUE),
              Commands(<<"words", 1>> :> 1 @@ <<"forms", 1>> :> 1 @@ <<"speech", 1>> :> 1, <<1, 0>>, TRUE)}

prepare == <<have, task, outcome, chunk, used, refused, run, published, upset>>
vocab   == <<table, sequence, candidate, presentation, scan, promoter, enricher, generated, study>>
learn   == <<session, flags, there, answered, window, asked, torn, upsets>>
place   == <<attempt, closed, score, wide, stale, form, placing, late, changes>>
dealing == <<count, phrases, gloss, carded, foreign, due, named, owned, deal, adding, touched, supply>>
drill   == <<bank, exposed, opening, underway, given, mirror, sheet, sent, closing, moment, shown, calm, hasty, hours>>
verbs   == <<area, class, ledger, spelling, attested, faces, printed, presented, clips, cached,
             command, stores, budgeted>>
others  == <<prepare, vocab, learn, place, dealing, drill, verbs>>
all     == <<learner, material, others>>

Init ==
    /\ scene \in {"prepare", "answers", "lessons", "words", "learn", "hand", "nback", "play",
                  "place", "accounts", "decks", "device", "drill", "verbs",
                  "spoken", "fetched", "listed", "fast", "paged", "worded"}
    /\ LearnerInit     /\ (scene # "accounts" => ration.before = {})
                       /\ (scene # "play" => hardness.level = 2)
    /\ MaterialInit    /\ (scene # "lessons" => plan.runs = {"x"})
                       /\ (scene \notin {"spoken", "fetched", "listed"} => right[3] /\ earned = {})
    /\ Prepare!Init    /\ (scene # "prepare" => have = {})
    /\ Vocabulary!Init /\ (scene # "words" => study = Study(FourSentences, <<2, 1, 0, 0, 1, 1>>))
    /\ Learn!Init
    /\ Place!Init      /\ (scene # "place" => wide = {})
    /\ Decks!Init      /\ (scene # "decks" => supply.deals = 2)
    /\ Drill!Init      /\ (scene # "drill" => hours = Sitting(AllActive, <<1, 0, 3, 0, 0, 0>>))
    /\ Verbs!Init      /\ (scene # "verbs" => budgeted.stops = 1 /\ budgeted.tagged)

\* One of the other scenes is played.
Playing(s) ==
    /\ scene = s /\ UNCHANGED <<learner, material>>
    /\ s # "prepare" => UNCHANGED prepare
    /\ s # "words" => UNCHANGED vocab
    /\ s # "learn" => UNCHANGED learn
    /\ s # "place" => UNCHANGED place
    /\ s # "decks" => UNCHANGED dealing
    /\ s # "drill" => UNCHANGED drill
    /\ s # "verbs" => UNCHANGED verbs

Next ==
    \/ LearnerNext /\ UNCHANGED <<material, others>>
    \/ MaterialNext /\ UNCHANGED <<learner, others>>
    \/ Playing("prepare") /\ Prepare!Next
    \/ Playing("words") /\ Vocabulary!Next
    \/ Playing("learn") /\ Learn!Next
    \/ Playing("place") /\ Place!Next
    \/ Playing("decks") /\ Decks!Next
    \/ Playing("drill") /\ Drill!Next
    \/ Playing("verbs") /\ Verbs!Next

Spec == Init /\ [][Next]_all

-----------------------------------------------------------------------------
\* Every table, page and request of the scenes keeps its type.
TypeOK ==
    /\ scene = "prepare" => Prepare!TypeOK
    /\ scene = "answers" => Answers!TypeOK
    /\ scene = "lessons" => Lessons!TypeOK
    /\ scene = "words" => Vocabulary!TypeOK
    /\ scene = "learn" => Learn!TypeOK
    /\ scene = "hand" => Upload!TypeOK
    /\ scene = "nback" => Nback!TypeOK
    /\ scene = "play" => Play!TypeOK
    /\ scene = "place" => Place!TypeOK
    /\ scene = "accounts" => Accounts!TypeOK
    /\ scene = "decks" => Decks!TypeOK
    /\ scene = "device" => Device!TypeOK
    /\ scene = "drill" => Drill!TypeOK
    /\ scene = "verbs" => Verbs!TypeOK
    /\ scene = "spoken" => Spoken!TypeOK
    /\ scene = "fetched" => Fetched!TypeOK
    /\ scene = "listed" => Listed!TypeOK
    /\ scene = "fast" => Fast!TypeOK
    /\ scene = "paged" => Paged!TypeOK
    /\ scene = "worded" => Worded!TypeOK

\* What is counted is there: a run of media preparation keeps to its budget and reports
\* what was made; words are counted from sentences and never from their own cards, and a
\* fresh answer belongs to the examples it was asked with (prefetch.rs, words/extract.rs,
\* words/store.rs, words/promote.rs).
Accounted ==
    /\ scene = "prepare" => Prepare!Accounted
    /\ scene = "words" =>
       Vocabulary!GeneratedApart /\ Vocabulary!FreshOfExamples /\ Vocabulary!ExtractionRight
    /\ scene = "verbs" => Verbs!GeneratedApart /\ Verbs!AttestedInCorpus

\* What is dealt is whole and what is told of it stands: a deck holds different words, as
\* many as there are and those media is prepared for; no card of its session is passed over;
\* the forms of a verb are those kept; a sitting of practice serves items in turn, a point is
\* rated by what the learner did, and a placement verdict is what its answers say for ever
\* after (vocabulary.rs, srs/session.rs, paradigms.rs, selection.rs, learning/mastery.rs,
\* placement.rs).
DealtAndJudged ==
    /\ scene = "decks" => /\ Decks!NoWordTwice /\ Decks!DealtInFull
                          /\ Decks!AvailableGranted /\ Decks!PreparedIsShown
    /\ scene = "learn" => Learn!NothingSkipped
    /\ scene = "verbs" => Verbs!OwnedOnce /\ Verbs!ShownIsKept /\ Verbs!IdleIsDealt
    /\ scene = "place" => Place!VerdictStands
    /\ scene = "drill" => /\ Drill!Spread /\ Drill!PassedOverInHaste
                          /\ Drill!FirstTimeTold /\ Drill!RatedAsSat
=============================================================================
