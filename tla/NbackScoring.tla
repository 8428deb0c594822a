---------------------------- MODULE NbackScoring ----------------------------
(***************************************************************************)
(* The difficulty of a dual n-back session (learning/nback/scoring.rs): a  *)
(* state, and what the answers of trials make of it.  Trials are numbered  *)
(* from the first; of each, whether its audio and its visual are right.    *)
(***************************************************************************)
EXTENDS Integers, FiniteSets, FiniteSetsExt

Window   == 5           \* ADAPTATION_WINDOW, TERMINATION_WINDOW
Channels == {"audio", "visual"}

Clamp(low, x, high) == Max({low, Min({x, high})})
NewState(level, interval) ==
    [level |-> Clamp(1, level, 9), start |-> Clamp(1, level, 9), peak |-> Clamp(1, level, 9),
     interval |-> Clamp(1500, interval, 5000), below |-> 0]

\* The last trials of some, by their numbers.
Recent(trials) ==
    {n \in DOMAIN trials : Cardinality({m \in DOMAIN trials : m > n}) < Window}
\* Per cent of the recent trials.
Accuracy(trials, channel) ==
    (100 * Cardinality({n \in Recent(trials) : trials[n][channel]}))
        \div Cardinality(Recent(trials))

Harder(s) ==
    LET up == Min({s.level + 1, 9})
    IN  [s EXCEPT !.level = up, !.peak = Max({s.peak, up}), !.below = 0,
                  !.interval = IF s.level < 9 THEN Max({s.interval - 200, 1500}) ELSE @]
Easier(s) ==
    LET down == Max({s.level - 1, 1})
    IN  [s EXCEPT !.level = down, !.below = IF down < s.start THEN @ + 1 ELSE 0,
                  !.interval = IF s.level > 1 THEN Min({s.interval + 200, 5000}) ELSE @]
Held(s) == [s EXCEPT !.below = IF s.level < s.start THEN @ + 1 ELSE @]

\* apply_adaptation, at the end of each window.
Adapted(s, trials) ==
    IF DOMAIN trials = {} \/ Cardinality(DOMAIN trials) % Window # 0 THEN s
    ELSE CASE \A c \in Channels : Accuracy(trials, c) >= 80 -> Harder(s)
           [] \E c \in Channels : Accuracy(trials, c) < 50 -> Easier(s)
           [] OTHER -> Held(s)

\* should_terminate: three windows below the first level, or both channels lost.
Terminates(s, trials) ==
    \/ s.below >= 3
    \/ /\ Cardinality(DOMAIN trials) >= Window
       /\ \A c \in Channels : Accuracy(trials, c) < 40
=============================================================================
