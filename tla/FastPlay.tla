------------------------------ MODULE FastPlay ------------------------------
(***************************************************************************)
(* The fast-download page of the browser (components/fast): a deck runs by *)
(* on a timer, with the clip of each card when the learner chose sound.    *)
(*                                                                         *)
(* Clips and pictures are fetched ahead of the shown card, play commands   *)
(* are answered by the browser when it gets to them, and either answer may *)
(* come after the learner has paused, finished or restarted.  A generation *)
(* number tells the fetches of one run from those of the next; the answers *)
(* of the audio element carry none.                                        *)
(*                                                                         *)
(* The two effects of the page (the window of fetches, the source of the   *)
(* shown card) run whenever a signal they read is set, and are part of     *)
(* each action that sets one.  The speed of the timer, the study area and  *)
(* what the page writes on the screen are left out.                        *)
(***************************************************************************)
EXTENDS Integers, Sequences, FiniteSets, Functions

CONSTANTS Sizes,      \* how many cards a deck may come back with
          Pictured,   \* the places of a deck whose card may have a picture
          Window,     \* PRELOAD_WINDOW
          MaxRuns,    \* bound: decks started
          MaxAnswers  \* bound: answers of the audio element not yet handled

VARIABLES page,       \* "counting", "choosing", "loading", "failed", "run"
          run, size,  \* the deck on the page, and how many cards it has
          index,      \* current_index
          generation, \* media_generation
          media,      \* media: the channels kept, by place in the deck
          fetches,    \* the requests under way
          requested,  \* history: how often each place of the deck was asked for
          playback,   \* playback_state
          element,    \* the <audio> element: its clip, and a play() not settled
          answers,    \* settled play() calls run_command has not handled
          starting    \* the event that start_run applies to the next deck

vars == <<page, run, size, index, generation, media, fetches, requested, playback, element,
          answers, starting>>

\* The states of a channel without a URL, and no URL.
None == <<"none", 0, 0>>
Pending == <<"pending", 0, 0>>
Failed == <<"failed", 0, 0>>
Absent == <<"absent", 0, 0>>
Modes == {"AwaitingChoice", "StartingSound", "WithSound", "WithoutSound"}
Statuses == {"Idle", "Loading", "Ready", "Playing", "Failed"}

\* The URL of what a request for a card of a deck answers.
Clip(i) == <<"clip", run, i>>
Least(a, b) == IF a < b THEN a ELSE b

-----------------------------------------------------------------------------
(* The reducer.  A result is the next state and the command to run.        *)

initial == [mode |-> "AwaitingChoice", status |-> "Idle", source |-> None, timer |-> FALSE]
NoCommand == [do |-> "nothing", clip |-> None]
Play(clip) == IF clip = None THEN NoCommand ELSE [do |-> "play", clip |-> clip]
PauseIt == [do |-> "pause", clip |-> None]

OnAudioReady(p, clip) ==
    LET plays == p.mode = "StartingSound" \/ (p.mode = "WithSound" /\ p.timer)
    IN  [state   |-> [p EXCEPT !.source = clip, !.status = IF plays THEN "Loading" ELSE "Ready"],
         command |-> IF plays THEN Play(clip) ELSE NoCommand]
OnAudioFailed(p) ==
    [state   |-> [p EXCEPT !.status = "Failed", !.timer = @ /\ p.mode # "StartingSound"],
     command |-> NoCommand]
\* StartWithSound and Retry.
OnStartWithSound(p) ==
    [state   |-> [p EXCEPT !.mode = "StartingSound", !.timer = FALSE, !.status = "Loading"],
     command |-> Play(p.source)]
OnStartWithoutSound(p) ==
    [state   |-> [p EXCEPT !.mode = "WithoutSound", !.timer = TRUE], command |-> NoCommand]
OnPlaySucceeded(p) == [p EXCEPT !.mode = "WithSound", !.status = "Playing", !.timer = TRUE]
OnPlayRejected(p) == [p EXCEPT !.mode = "AwaitingChoice", !.status = "Failed", !.timer = FALSE]
OnPause(p) ==
    [state   |-> [p EXCEPT !.timer = FALSE],
     command |-> IF p.mode = "WithSound" THEN PauseIt ELSE NoCommand]
OnResume(p) ==
    [state   |-> [p EXCEPT !.timer = @ \/ p.mode \in {"WithSound", "WithoutSound"}],
     command |-> IF p.mode = "WithSound" THEN Play(p.source) ELSE NoCommand]
OnSourceChanged(p, source) ==
    LET sounds == p.mode \in {"WithSound", "StartingSound"}
        status == IF sounds THEN "Loading"
                  ELSE IF source # None THEN "Ready"
                  ELSE IF p.status = "Failed" THEN "Failed" ELSE "Idle"
    IN  IF p.source = source THEN [state |-> p, command |-> NoCommand]
        ELSE [state   |-> [p EXCEPT !.source = source, !.status = status],
              command |-> IF sounds THEN Play(source) ELSE NoCommand]

-----------------------------------------------------------------------------
(* The audio element.  A new source and a pause() reject the play() that   *)
(* is still waiting; without an element on the page a play is unavailable. *)

NoElement == [clip |-> None, waiting |-> FALSE]
Broken == IF element.waiting THEN Append(answers, "rejected") ELSE answers
RunCommand(command) ==
    CASE command.do = "play"  -> /\ element' = [clip |-> command.clip, waiting |-> TRUE]
                                 /\ answers' = Broken
      [] command.do = "pause" -> /\ element' = [element EXCEPT !.waiting = FALSE]
                                 /\ answers' = Broken
      [] OTHER -> UNCHANGED <<element, answers>>
Room == Len(answers) < MaxAnswers

-----------------------------------------------------------------------------
(* The preload window.                                                     *)

Keep(i) == {j \in DOMAIN media : i - 1 <= j /\ j <= i + Window}
\* Mutant of Fetch: what is tracked is asked for again.
FetchTracked(i, n) == i .. Least(n, i + Window + 1) - 1
Fetch(i, n) == (i .. Least(n, i + Window + 1) - 1) \ DOMAIN media
Begin(j) == [audio |-> Pending, image |-> IF j \in Pictured THEN Pending ELSE Absent]
Windowed(i, n) ==
    [j \in Keep(i) \cup Fetch(i, n) |-> IF j \in DOMAIN media THEN media[j] ELSE Begin(j)]
Request(kind, r, j) == [kind |-> kind, clip |-> <<"clip", r, j>>, place |-> j, generation |-> generation]
Asked(r, i, n) ==
    fetches \cup {Request("audio", r, j) : j \in Fetch(i, n)}
            \cup {Request("image", r, j) : j \in Fetch(i, n) \cap Pictured}
Times(j) == IF j \in DOMAIN requested THEN requested[j] ELSE 0
Counted(i, n) == [j \in DOMAIN requested \cup Fetch(i, n) |->
                    IF j \in Fetch(i, n) THEN Times(j) + 1 ELSE Times(j)]
SourceOf(m, i) ==
    IF i \in DOMAIN m /\ m[i].audio \notin {Pending, Failed} THEN m[i].audio ELSE None

\* Card i of n of run r comes up: both effects.
Show(p, r, i, n) ==
    LET changed == OnSourceChanged(p, SourceOf(Windowed(i, n), i))
    IN  /\ media' = Windowed(i, n)
        /\ fetches' = Asked(r, i, n) /\ requested' = Counted(i, n)
        /\ playback' = changed.state
        /\ IF i < n THEN RunCommand(changed.command)
           ELSE element' = NoElement /\ answers' = Broken

-----------------------------------------------------------------------------
Init ==
    /\ page = "counting" /\ run = 0 /\ size = 0 /\ index = 0 /\ generation = 0
    /\ media = <<>> /\ fetches = {} /\ requested = <<>>
    /\ playback = initial /\ element = NoElement /\ answers = <<>> /\ starting = "none"

\* fast_available_words is answered: a count, or an error that stays.
CountWords ==
    /\ page = "counting"
    /\ page' \in {"choosing", "failed"}
    /\ UNCHANGED <<run, size, index, generation, media, fetches, requested, playback, element,
                   answers, starting>>

\* Another study area: its words are counted afresh.
ChangeArea ==
    /\ page = "choosing" /\ page' = "counting"
    /\ UNCHANGED <<run, size, index, generation, media, fetches, requested, playback, element,
                   answers, starting>>

StartRun(event) ==
    /\ page = "choosing" /\ run < MaxRuns
    /\ page' = "loading" /\ starting' = event
    /\ UNCHANGED <<run, size, index, generation, media, fetches, requested, playback, element, answers>>

DeckLoaded(n) ==
    LET start == IF starting = "StartWithSound" THEN OnStartWithSound(playback)
                 ELSE OnStartWithoutSound(playback)
    IN  /\ page = "loading"
        /\ page' = "run" /\ run' = run + 1 /\ size' = n
        /\ Show(start.state, run + 1, index, n)
        /\ starting' = "none"
        /\ UNCHANGED <<index, generation>>

DeckFailed ==
    /\ page = "loading"
    /\ page' = "failed" /\ starting' = "none"
    /\ UNCHANGED <<run, size, index, generation, media, fetches, requested, playback, element, answers>>

Shown == page = "run" /\ index < size

\* A card's clip or picture is answered, in any order, perhaps too late.
Published(f, answer) ==
    IF f.place \notin DOMAIN media THEN media
    ELSE [media EXCEPT ![f.place] = IF f.kind = "audio" THEN [@ EXCEPT !.audio = answer]
                                    ELSE [@ EXCEPT !.image = answer]]
Fetched(f, answer) ==
    LET current == f.kind = "audio" /\ f.place = index
        result  == IF answer = Failed THEN OnAudioFailed(playback) ELSE OnAudioReady(playback, answer)
    IN  /\ f \in fetches /\ Room
        /\ fetches' = fetches \ {f}
        /\ IF f.generation # generation THEN UNCHANGED <<media, playback, element, answers>>
           ELSE /\ media' = Published(f, answer)
                /\ playback' = IF current THEN result.state ELSE playback
                /\ IF current THEN RunCommand(result.command) ELSE UNCHANGED <<element, answers>>
        /\ UNCHANGED <<page, run, size, index, generation, requested, starting>>
Answered(f) ==
    \E answer \in {f.clip, Failed} \cup (IF f.kind = "image" THEN {Absent} ELSE {}) :
        Fetched(f, answer)

\* The timer: the interval of the card is over.
Tick ==
    /\ Shown /\ playback.timer /\ Room
    /\ index' = index + 1
    /\ Show(playback, run, index + 1, size)
    /\ UNCHANGED <<page, run, size, generation, starting>>

\* The browser settles the play() that waits.
Settle(outcome) ==
    /\ element.waiting /\ Room
    /\ element' = [element EXCEPT !.waiting = FALSE]
    /\ answers' = Append(answers, outcome)
    /\ UNCHANGED <<page, run, size, index, generation, media, fetches, requested, playback, starting>>

\* run_command takes the answer of its own play().
PlayAnswered ==
    /\ answers # <<>>
    /\ answers' = Tail(answers)
    /\ playback' = IF Head(answers) = "played" THEN OnPlaySucceeded(playback)
                   ELSE OnPlayRejected(playback)
    /\ UNCHANGED <<page, run, size, index, generation, media, fetches, requested, element, starting>>

\* A button of the shown card; the choice is asked for over the card.
Press(result) ==
    /\ Shown /\ Room
    /\ playback' = result.state /\ RunCommand(result.command)
    /\ UNCHANGED <<page, run, size, index, generation, media, fetches, requested, starting>>
ChooseSound == playback.mode = "AwaitingChoice" /\ Press(OnStartWithSound(playback))
ChooseSilence == playback.mode = "AwaitingChoice" /\ Press(OnStartWithoutSound(playback))
PauseOrResume == Press(IF playback.timer THEN OnPause(playback) ELSE OnResume(playback))

Restart ==
    /\ page = "run" /\ index >= size /\ size > 0
    /\ page' = "choosing" /\ index' = 0 /\ size' = 0
    /\ generation' = generation + 1
    /\ media' = <<>> /\ requested' = <<>> /\ playback' = initial
    /\ UNCHANGED <<run, fetches, element, answers, starting>>

Learner == ChangeArea \/ ChooseSound \/ ChooseSilence \/ PauseOrResume \/ Restart
Server == CountWords \/ DeckFailed \/ (\E n \in Sizes : DeckLoaded(n))
           \/ (\E f \in fetches : Answered(f))
Browser == (\E outcome \in {"played", "rejected"} : Settle(outcome)) \/ PlayAnswered

Next ==
    \/ \E event \in {"StartWithSound", "StartWithoutSound"} : StartRun(event)
    \/ Server \/ Browser \/ Learner \/ Tick

Spec == Init /\ [][Next]_vars

-----------------------------------------------------------------------------
(* Properties                                                              *)

Clips == {"clip"} \X (1..MaxRuns) \X Nat

TypeOK ==
    /\ page \in {"counting", "choosing", "loading", "failed", "run"}
    /\ run \in 0..MaxRuns /\ size \in Nat /\ index \in 0..size /\ generation \in Nat
    /\ IsFiniteSet(DOMAIN media)
    /\ \A f \in fetches : f.kind \in {"audio", "image"} /\ f.clip \in Clips
    /\ playback.mode \in Modes /\ playback.status \in Statuses /\ playback.timer \in BOOLEAN
    /\ playback.timer => playback.mode \in {"WithSound", "WithoutSound"}
    /\ element.waiting \in BOOLEAN
    /\ Len(answers) <= MaxAnswers

\* What is shown and heard belongs to this run: a channel holds what was
\* fetched for its own place of this deck, the reducer keeps the clip of the
\* shown card if that has come, and the element sounds a card of this run
\* that has been reached.  An answer to an earlier run, which names the same
\* places, changes none of it (media_generation, mod.rs:170).
RightClip ==
    /\ \A j \in DOMAIN media :
          /\ media[j].audio \in {Pending, Failed, Clip(j)}
          /\ media[j].image \in {Pending, Failed, Absent, Clip(j)}
    /\ playback.source = SourceOf(media, index)
    /\ element.clip \in {None} \cup {Clip(j) : j \in 0..index}

\* The channels kept are those of the window and no others, a channel is
\* pending exactly while its request is under way, and no place of a deck is
\* asked for twice in a run, evicted or not (indices_to_fetch,
\* indices_to_evict, preload.rs:128).
WindowKept ==
    page = "run" =>
        /\ DOMAIN media \subseteq (index - 1)..(index + Window)
        /\ (index .. Least(size, index + Window + 1) - 1) \subseteq DOMAIN media
        /\ \A j \in DOMAIN media : \A kind \in {"audio", "image"} :
              (media[j][kind] = Pending) <=>
                  \E f \in fetches : f.kind = kind /\ f.clip = Clip(j)
        /\ \A j \in DOMAIN requested : requested[j] = 1

\* A run that stands still although nothing is awaited has asked the learner
\* to choose, or was paused, and either is answered by a button.  The one
\* exception is a start with sound whose first clip could not be had
\* (AudioFailed keeps StartingSound): no button of the page leads on then.
NeverStranded ==
    (/\ Shown /\ ~playback.timer /\ answers = <<>> /\ ~element.waiting
     /\ media[index].audio # Pending)
    => \/ playback.mode # "StartingSound"
       \/ media[index].audio = Failed
=============================================================================
