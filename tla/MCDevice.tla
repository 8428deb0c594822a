------------------------------ MODULE MCDevice ------------------------------
(***************************************************************************)
(* What a device copies, as two scenes of one instance: the corpus of two  *)
(* pairs, and the learner's cards with the answers that go up.  They share *)
(* no tables, so each behaviour plays one scene, and the other one stays   *)
(* at its initial state.                                                   *)
(***************************************************************************)
EXTENDS CorpusSync, DeviceCards, TLC

VARIABLE scene

\* Two translations of the first pair and one of the second.
TwoPairs == 1 :> 1 @@ 2 :> 2 @@ 3 :> 1

\* Card 1 is answered twice on the device, the second time misdated, and once
\* elsewhere, and its translation may be deleted; card 2 is answered once.
FourAnswers == <<1, 2, 1, 1>>

\* One card, answered on the device and elsewhere.
TwoAnswers == <<1, 1>>
OnePair == <<1>>

Phone == INSTANCE MobileSync

cards == <<outbox, localCards, cursor, syncPhase, runStep, held, wire, known, carded,
           ledger, changed, lastChange>>

InitAll == scene \in {"corpus", "cards"} /\ Init /\ Phone!Init

Corpus(A) == scene = "corpus" /\ A /\ UNCHANGED <<scene, cards>>
Card(A)   == scene = "cards" /\ A /\ UNCHANGED <<scene, vars>>

NextAll == Corpus(Next) \/ Card(Phone!Next)

\* The fairness of the two modules, whose actions belong to different scenes.
FairnessAll ==
    /\ WF_<<vars, cards>>(Corpus(Start) \/ Card(Phone!Start))
    /\ SF_<<vars, cards>>(Corpus(Advance) \/ Card(Phone!Advance))
    /\ SF_<<vars, cards>>(Corpus(Ask(1)) \/ Card(Phone!SendBatch))
    /\ SF_<<vars, cards>>(Corpus(Ask(2)) \/ Card(Phone!AskCards))
    /\ SF_<<vars, cards>>(Corpus(Serve(1)) \/ Card(\E u \in wire : u.live /\ Phone!ReceiveUpload(u)))
    /\ SF_<<vars, cards>>(Corpus(Serve(2)) \/ Card(Phone!ServePage))
    /\ SF_<<vars, cards>>(Corpus(Apply(1)) \/ Card(Phone!ApplyReply))
    /\ SF_<<vars, cards>>(Corpus(Apply(2)) \/ Card(Phone!ApplyPage))

SpecAll == InitAll /\ [][NextAll]_<<scene, vars, cards>> /\ FairnessAll
-----------------------------------------------------------------------------
\* Every pair mirrors the server's corpus in the end, unless a watermark is refused.
CorpusFollowed == scene = "corpus" => FollowedIfServed
\* Every pair mirrors the server's corpus in the end: violated, see CorpusSync.
PairsFollowed == scene = "corpus" => Followed
\* Answers arrive, and cards are mirrored, in the end (sync/engine.rs).
CardsArrive == scene = "cards" => Phone!UploadedIfKept /\ Phone!Mirrored
\* Every answer made on a device is uploaded in the end: violated, see MobileSync.
AnswersUploaded == scene = "cards" => Phone!Uploaded
=============================================================================
