--------------------------- MODULE SentenceClips ---------------------------
(***************************************************************************)
(* The sentences of the grammar, spoken: the routes that speak an example, *)
(* the answer a learner has just given, and a sentence a device names by   *)
(* its fingerprint (api/media.rs, api/mobile_media.rs); the players of the *)
(* web's practice (components/grammar/session.rs); and the device, which   *)
(* keeps what it fetched as files that all of its learners share and rows  *)
(* that each of them has alone (sync/media.rs, storage/content.rs).        *)
(*                                                                         *)
(* A fingerprint is the sentence with the voice that reads it.  A device   *)
(* publishes a clip in steps anything may come between: the bytes beside   *)
(* the final name, the rename, the row, and the look at what was           *)
(* registered; a row that cannot be written takes the file with it.        *)
(***************************************************************************)
EXTENDS Naturals, FiniteSets, Sequences

CONSTANTS Learners, Deck,      \* the cards of the web's session: items, in order
          Examples, RuleOf,    \* the rule of an item or example, by its id
          Voices,              \* 1 .. the number of voices the server is given
          Slots,               \* requests of the web's player that may be in flight
          Limit,               \* clips a synchronisation fetches at most
          Edits, Mishaps, Turns  \* bounds: re-imports and new voices; failures; sign-ins and sign-outs

VARIABLES right,        \* rule_examples.is_correct
          voice,        \* the voice of the server's configuration
          clips,        \* sentence_media
          earned,       \* <<learner, item>> with a correct attempt
          card, verdict, playing, failed, request,      \* the web's session of learner 1
          named,        \* device: the fingerprints of the examples of its items
          moved,        \* device: rules whose items the bank's feed will bring again
          rows, files, temp,    \* device: media_cache, the media directory
          active,       \* device: who is signed in
          work,         \* device: the prefetch of a synchronisation, and a tap
          spoilt,       \* history: clips whose registration failed
          vouched,      \* history: sentences that were right when something read them
          edits, mishaps, turns

serverVars == <<right, voice, clips, earned, vouched>>
webVars    == <<card, verdict, playing, failed, request>>
storeVars  == <<named, moved, rows, files, temp, spoilt>>
deviceVars == <<storeVars, active, work>>
bounds     == <<edits, mishaps, turns>>
vars       == <<serverVars, webVars, deviceVars, bounds>>

Items     == {Deck[k] : k \in DOMAIN Deck}
Workers   == {"prefetch", "tap"}
Nobody    == 0
Here      == 1                      \* the learner of the web's session
Elsewhere == 2                      \* the learner of another client
Example(e) == <<"example", e>>
Answer(i)  == <<"answer", i>>
Sentences == {Example(e) : e \in Examples} \cup {Answer(i) : i \in Items}
Fingerprint(s)  == <<s, voice>>
Prints    == Sentences \X Voices
NoClip    == <<>>
Silent    == [id |-> 0, clip |-> NoClip]
Rest      == [at |-> "rest", kind |-> "", id |-> 0, card |-> 0, clip |-> NoClip]
Idle      == [at |-> "rest", clip |-> NoClip, got |-> NoClip, list |-> {}]

\* The names the bank's pages give the examples of a rule: what each correct one
\* would be under the voice of the day.
ExamplesOf(r) == {Example(e) : e \in {x \in Examples : right[x] /\ RuleOf[x] = r}}
Names(r)      == {Fingerprint(s) : s \in ExamplesOf(r)}
Rules         == {RuleOf[e] : e \in Examples}

Init ==
    /\ right \in [Examples -> BOOLEAN] /\ voice = 1 /\ clips = {} /\ vouched = {}
    /\ earned \in SUBSET {<<u, Deck[1]>> : u \in Learners \ {Here}}
    /\ card = 1 /\ verdict = "none" /\ playing = Silent /\ failed = 0
    /\ request = [s \in Slots |-> Rest]
    /\ named = [u \in Learners |-> {}] /\ moved = [u \in Learners |-> Rules]
    /\ rows = [u \in Learners |-> {}] /\ files = [p \in Prints |-> NoClip] /\ temp = {}
    /\ active = Nobody /\ work = [w \in Workers |-> Idle]
    /\ spoilt = {}
    /\ edits = 0 /\ mishaps = 0 /\ turns = 0

-----------------------------------------------------------------------------
(* The server.                                                             *)

\* An importer writes the examples of a rule again; what an example was called
\* right or wrong may be the other way round.  Each device will hear of the rule.
Edit(e) ==
    /\ edits < Edits /\ edits' = edits + 1
    /\ right' = [right EXCEPT ![e] = ~@]
    /\ moved' = [u \in Learners |-> moved[u] \cup {RuleOf[e]}]
    /\ UNCHANGED <<voice, clips, earned, vouched, webVars, named, rows, files, temp, spoilt,
                   active, work, mishaps, turns>>

\* The server is given another voice and starts again: what it was doing is lost.
Revoice ==
    /\ edits < Edits /\ edits' = edits + 1
    /\ voice + 1 \in Voices /\ voice' = voice + 1
    /\ request' = [s \in Slots |-> IF request[s].at = "read"
                                   THEN [request[s] EXCEPT !.at = "refused"] ELSE request[s]]
    /\ UNCHANGED <<right, clips, earned, vouched, card, verdict, playing, failed, deviceVars, mishaps, turns>>

\* Mutant of Speakable: an example is spoken whatever it is an example of.
SpeakableAny(e) == TRUE
\* An example that is not correct is as good as absent.
Speakable(e) == right[e]

\* Mutant of Pronounced: the right answer is enough, given or not.
PronouncedUnearned(u, i, correct) == correct
\* An answer is spoken when it is the right one and this learner has given it.
Pronounced(u, i, correct) == correct /\ <<u, i>> \in earned

\* The cache has the clip or it is spoken into it.
Voiced(p) == clips' = clips \cup {p}

\* Mutant of SentenceServed: whatever is stored under the name is served again.
SentenceServedUnder(p) ==
    IF p \in clips THEN p[1] ELSE
    IF p \in {Fingerprint(Example(e)) : e \in {x \in Examples : right[x]}} THEN p[1] ELSE NoClip
\* What a device's name stands for: a sentence the cache has spoken before, else one
\* of the server's own correct examples; and the name must be the one the sentence
\* has under the voice of the day.
SentenceServed(p) ==
    LET known == p \in clips
                 \/ p \in {Fingerprint(Example(e)) : e \in {x \in Examples : right[x]}}
    IN IF known /\ p = Fingerprint(p[1]) THEN p[1] ELSE NoClip

-----------------------------------------------------------------------------
(* The web's practice.                                                     *)

\* The examples an item of the session shows: those its rule had when it began.
Shows(i) == {e \in Examples : RuleOf[e] = RuleOf[i]}

Current == Deck[card]
Shown   == card \in DOMAIN Deck
To(s, r) == request' = [request EXCEPT ![s] = r]
Sent(kind, i, c) == [at |-> "sent", kind |-> kind, id |-> i, card |-> c, clip |-> NoClip]

AskExample(s, e) ==
    /\ request[s].at = "rest"
    /\ Shown /\ verdict = "wrong" /\ e \in Shows(Current)
    /\ failed' = 0
    /\ To(s, Sent("example", e, 0))
    /\ UNCHANGED <<serverVars, card, verdict, playing, deviceVars, bounds>>

AnswerRequest == Sent("answer", Current, card)

\* The verdict of the server, which has the attempt by then; the player of a right
\* answer asks for its clip as it appears.
Check(s, correct) ==
    /\ Shown /\ verdict = "none" /\ request[s].at = "rest"
    /\ verdict' = IF correct THEN "right" ELSE "wrong"
    /\ IF correct THEN To(s, AnswerRequest) /\ earned' = earned \cup {<<Here, Current>>}
                  ELSE UNCHANGED <<request, earned>>
    /\ UNCHANGED <<right, voice, clips, vouched, card, playing, failed, deviceVars, bounds>>

AskAnswer(s) ==
    /\ Shown /\ verdict = "right" /\ request[s].at = "rest"
    /\ To(s, AnswerRequest)
    /\ UNCHANGED <<serverVars, card, verdict, playing, failed, deviceVars, bounds>>

Forward ==
    /\ Shown /\ verdict # "none"
    /\ card' = card + 1 /\ verdict' = "none" /\ playing' = Silent /\ failed' = 0
    /\ UNCHANGED <<serverVars, request, deviceVars, bounds>>

\* Another client of the same route names an item and an answer of its own.
AskElsewhere(s, i) ==
    /\ request[s].at = "rest"
    /\ To(s, Sent("elsewhere", i, 0))
    /\ UNCHANGED <<serverVars, card, verdict, playing, failed, deviceVars, bounds>>

Asker(q) == IF q.kind = "answer" THEN Here ELSE Elsewhere

\* The rows are read and the sentence is known, or the request is not found.
Load(s) ==
    LET q == request[s]
        x == IF q.kind = "example" THEN Example(q.id) ELSE Answer(q.id)
        found == IF q.kind = "example" THEN Speakable(q.id)
                 ELSE Pronounced(Asker(q), q.id, TRUE)
        sound == IF q.kind = "example" THEN right[q.id] ELSE <<Asker(q), q.id>> \in earned
    IN
    /\ q.at = "sent"
    /\ To(s, IF found THEN [q EXCEPT !.at = "read", !.clip = Fingerprint(x)]
                      ELSE [q EXCEPT !.at = "refused"])
    /\ vouched' = IF sound THEN vouched \cup {x} ELSE vouched
    /\ UNCHANGED <<right, voice, clips, earned, card, verdict, playing, failed, deviceVars, bounds>>

Speak(s) ==
    LET q == request[s] IN
    /\ q.at = "read"
    /\ \/ Voiced(q.clip) /\ To(s, [q EXCEPT !.at = "spoken"]) /\ UNCHANGED mishaps
       \/ /\ mishaps < Mishaps /\ mishaps' = mishaps + 1
          /\ To(s, [q EXCEPT !.at = "refused"]) /\ UNCHANGED clips
    /\ UNCHANGED <<right, voice, earned, vouched, card, verdict, playing, failed, deviceVars, edits, turns>>

\* Mutant of Expected: a reply is for whatever card is shown.
ExpectedAlways(q) == TRUE
\* The reply to an answer is dropped when the session has moved on; an example's
\* is not asked about the card.
Expected(q) == q.kind = "example" \/ (q.kind = "answer" /\ q.card = card)

Deliver(s) ==
    LET q == request[s] IN
    /\ q.at \in {"spoken", "refused"}
    /\ IF ~Expected(q) THEN UNCHANGED <<playing, failed>>
       ELSE IF q.at = "refused" THEN playing' = Silent /\ failed' = q.id
       ELSE /\ playing' = [id |-> q.id, clip |-> q.clip]
            /\ failed' = IF q.kind = "answer" THEN 0 ELSE failed
    /\ To(s, Rest)
    /\ UNCHANGED <<serverVars, card, verdict, deviceVars, bounds>>

-----------------------------------------------------------------------------
(* The device.                                                             *)

Sign(u) ==
    /\ turns < Turns /\ turns' = turns + 1
    /\ u # active /\ active' = u
    /\ UNCHANGED <<serverVars, webVars, storeVars, work, edits, mishaps>>

On(w, at)  == work[w].at = at
Move(w, j) == work' = [work EXCEPT ![w] = j]

\* The bank's feed brings the items of the rules that moved, with their examples.
PullBank ==
    /\ active # Nobody /\ On("prefetch", "rest") /\ moved[active] # {}
    /\ named' = [named EXCEPT ![active] =
                    {p \in @ : \E e \in Examples : p[1] = Example(e) /\ RuleOf[e] \notin moved[active]}
                    \cup UNION {Names(r) : r \in moved[active]}]
    /\ moved' = [moved EXCEPT ![active] = {}]
    /\ UNCHANGED <<serverVars, webVars, rows, files, temp, spoilt, active, work, bounds>>

Missing == named[active] \ rows[active]
Readable(p) == files[p] # NoClip
RowWritten(p) == rows' = [rows EXCEPT ![active] = @ \cup {p}]

BeginPrefetch ==
    /\ active # Nobody /\ On("prefetch", "rest") /\ moved[active] = {} /\ Missing # {}
    /\ \E list \in SUBSET Missing :
          /\ Cardinality(list) <= Limit
          /\ Cardinality(list) = Limit \/ list = Missing
          /\ Move("prefetch", [Idle EXCEPT !.at = "next", !.list = list])
    /\ UNCHANGED <<serverVars, webVars, storeVars, active, bounds>>

\* The next clip of the list; a cancelled synchronisation goes no further.
NextClip ==
    LET j == work["prefetch"] IN
    /\ On("prefetch", "next")
    /\ \/ \E p \in j.list : Move("prefetch", [j EXCEPT !.at = "fetch", !.clip = p, !.list = @ \ {p}])
       \/ Move("prefetch", Idle)
    /\ UNCHANGED <<serverVars, webVars, storeVars, active, bounds>>

\* A tap fetches a clip the learner has no row for; a row is played, or is
\* "Audio unavailable" without its file.
Tap(p) ==
    /\ active # Nobody /\ On("tap", "rest") /\ p \in Missing
    /\ Move("tap", [Idle EXCEPT !.at = "fetch", !.clip = p])
    /\ UNCHANGED <<serverVars, webVars, storeVars, active, bounds>>

\* Whatever becomes of one clip, a prefetch goes on to the next.
Over(w) == Move(w, IF w = "prefetch" THEN [work[w] EXCEPT !.at = "next", !.clip = NoClip, !.got = NoClip] ELSE Idle)

Fetch(w) ==
    LET p == work[w].clip
        s == SentenceServed(p)
    IN
    /\ On(w, "fetch")
    /\ \/ /\ s # NoClip
          /\ Voiced(Fingerprint(s))
          /\ vouched' = IF p \in clips THEN vouched
                        ELSE vouched \cup (ExamplesOf(RuleOf[s[2]]) \cap {s})
          /\ Move(w, [work[w] EXCEPT !.at = "write", !.got = Fingerprint(s)])
          /\ UNCHANGED mishaps
       \/ /\ s = NoClip \/ mishaps < Mishaps
          /\ mishaps' = IF s = NoClip THEN mishaps ELSE mishaps + 1
          /\ Over(w) /\ UNCHANGED <<clips, vouched>>
    /\ UNCHANGED <<right, voice, earned, webVars, storeVars, active, edits, turns>>

\* Mutant of Write: the row first.
WriteRegistered(w) ==
    /\ On(w, "write")
    /\ rows' = [u \in Learners |-> IF u = active THEN rows[u] \cup {work[w].clip} ELSE rows[u]]
    /\ temp' = temp \cup {work[w].clip}
    /\ Move(w, [work[w] EXCEPT !.at = "rename"])
    /\ UNCHANGED <<serverVars, webVars, named, moved, files, spoilt, active, bounds>>
\* The bytes beside the final name; two publishers of one clip share that name.
Write(w) ==
    /\ On(w, "write")
    /\ temp' = temp \cup {work[w].clip}
    /\ Move(w, [work[w] EXCEPT !.at = "rename"])
    /\ UNCHANGED <<serverVars, webVars, named, moved, rows, files, spoilt, active, bounds>>

Rename(w) ==
    LET p == work[w].clip IN
    /\ On(w, "rename")
    /\ IF p \in temp
       THEN /\ files' = [files EXCEPT ![p] = work[w].got] /\ temp' = temp \ {p}
            /\ Move(w, [work[w] EXCEPT !.at = "register"])
       ELSE Over(w) /\ UNCHANGED <<files, temp>>
    /\ UNCHANGED <<serverVars, webVars, named, moved, rows, spoilt, active, bounds>>

\* The row is the signed-in learner's; with nobody signed in, without the file, or
\* with a store that fails, there is none, and the file is removed.
Register(w) ==
    LET p == work[w].clip IN
    /\ On(w, "register")
    /\ \/ /\ active # Nobody /\ Readable(p) /\ RowWritten(p)
          /\ Move(w, [work[w] EXCEPT !.at = "look"])
          /\ UNCHANGED <<files, spoilt, mishaps>>
       \/ /\ active = Nobody \/ ~Readable(p) \/ mishaps < Mishaps
          /\ mishaps' = IF active = Nobody \/ ~Readable(p) THEN mishaps ELSE mishaps + 1
          /\ files' = [files EXCEPT ![p] = NoClip] /\ spoilt' = spoilt \cup {p}
          /\ Over(w) /\ UNCHANGED rows
    /\ UNCHANGED <<serverVars, webVars, named, moved, temp, active, edits, turns>>

\* The entry is read back, and a tap plays the file; or it is "Audio unavailable".
Look(w) ==
    /\ On(w, "look") /\ Over(w)
    /\ UNCHANGED <<serverVars, webVars, storeVars, active, bounds>>

\* The process ends where it is; directory and tables stay.
Stop ==
    /\ mishaps < Mishaps /\ mishaps' = mishaps + 1
    /\ \E w \in Workers : ~On(w, "rest")
    /\ work' = [w \in Workers |-> Idle]
    /\ UNCHANGED <<serverVars, webVars, storeVars, active, edits, turns>>

Next ==
    \/ Revoice \/ \E e \in Examples : Edit(e)
    \/ \E s \in Slots :
          \/ \E e \in Examples : AskExample(s, e)
          \/ \E c \in BOOLEAN : Check(s, c)
          \/ \E i \in Items : AskElsewhere(s, i)
          \/ AskAnswer(s) \/ Load(s) \/ Speak(s) \/ Deliver(s)
    \/ Forward
    \/ \E u \in Learners \cup {Nobody} : Sign(u)
    \/ PullBank \/ BeginPrefetch \/ NextClip
    \/ \E p \in Prints : Tap(p)
    \/ \E w \in Workers : Fetch(w) \/ Write(w) \/ Rename(w) \/ Register(w) \/ Look(w)
    \/ Stop

-----------------------------------------------------------------------------
TypeOK ==
    /\ right \in [Examples -> BOOLEAN] /\ voice \in Voices
    /\ clips \subseteq Prints /\ earned \subseteq Learners \X Items /\ vouched \subseteq Sentences
    /\ card \in 1 .. Len(Deck) + 1 /\ verdict \in {"none", "right", "wrong"}
    /\ named \in [Learners -> SUBSET Prints] /\ moved \in [Learners -> SUBSET Rules]
    /\ rows \in [Learners -> SUBSET Prints] /\ files \in [Prints -> Prints \cup {NoClip}]
    /\ temp \subseteq Prints /\ spoilt \subseteq Prints /\ active \in Learners \cup {Nobody}

\* Nothing is ever spoken that was not, when it was read, a correct example or an
\* answer its asker had already given: a wrong form is never voiced, and a right
\* one is not given away before it is earned (api/media.rs).
NothingWrongSpoken == \A p \in clips : p[1] \in vouched

\* What a device's file holds is the clip of its name, whatever voice the server has
\* had since the name was given (api/mobile_media.rs).
FileIsItsName == \A p \in Prints : files[p] \in {NoClip, p}

\* A clip a learner's row names is on the device, whoever fetched it, through crashes
\* and two publishers at once, until a registration of that clip fails and takes the
\* file of every learner with it (sync/media.rs).
RowHasFile == \A u \in Learners : \A p \in rows[u] : files[p] = NoClip => p \in spoilt

\* What the player of the answer has to play or to regret is of the card on the
\* screen: an earlier card's reply does not arrive there.  An example's does, where
\* the two tables gave one number to an item and an example (session.rs).
PlayerIsOfTheCard ==
    \A i \in Items \ Examples :
        /\ playing.id = i => Shown /\ i = Current /\ playing.clip[1] = Answer(i)
        /\ failed = i => Shown /\ i = Current
=============================================================================
