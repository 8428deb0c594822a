--------------------------- MODULE DeviceAccounts ---------------------------
(***************************************************************************)
(* Who a device speaks for.  Two learners share one server profile of a    *)
(* device: ProfileService signs them in, restores and signs them out,      *)
(* SyncEngine runs for the identity it found when it started, and every    *)
(* transaction of the store works for the user the profile names then      *)
(* (active_scope).  The stored credential, the user the profile names and  *)
(* the state the app shows are written by different steps, and logins,     *)
(* restores, runs and crashes interleave between them.                     *)
(*                                                                         *)
(* A request presents the credential that is stored when it is sent: the   *)
(* transport itself is not part of the repository.  An answer is known     *)
(* only by its owner, and a learner's card feed is one change, numbered    *)
(* with the learner's number.                                              *)
(***************************************************************************)
EXTENDS Integers, FiniteSets

CONSTANTS
    Users,       \* the learners, positive numbers
    Tokens,      \* the session tokens the server will issue, positive numbers
    Devices,     \* the installation ids that will be drawn, positive numbers
    Logins,      \* logins that may be under way together, as numbers
    Plans        \* bounds: how many logins, runs, ends of sessions and deaths of the app;
                 \* and the users who have signed in and out before

VARIABLES
    issued,      \* server: whom each token was issued to, 0 when not yet
    live,        \* server: the tokens of sessions neither expired nor revoked
    registered,  \* server: the pairs of a user and an installation
    credited,    \* server: answers by their owner and the user they were counted for, and
                 \* whether the run that sent them had lost its learner (below)
    credential,  \* device: the stored token, or 0
    active,      \* device: the user the profile names, or 0
    installed,   \* device: the installation id of each user, or 0
    pending,     \* device: the users with an answer in the outbox
    copies,      \* device: whose cards each user's tables hold, and whether they were
                 \* asked for or stored in the midst of a sign-in
    cursor,      \* device: each user's position in the card feed
    app,         \* app: the user it shows, 0 when anonymous
    login,       \* app: the logins under way
    restore,     \* app: the restore or logout under way
    sync,        \* app: the run under way
    crossed,     \* history: installations registered for another than their login's user
    mixed,       \* a sign-in was cut off, or overtook another: until the next one, or until
                 \* the credential is forgotten, it may not be the profile user's
    doubt,       \* the app was restored in the midst of a sign-in or when mixed, and nobody
                 \* has signed in since
    left         \* what is left of the plan

serverVars == <<issued, live, registered, credited>>
storeVars == <<credential, active, installed, pending, copies, cursor>>
ghosts == <<crossed, mixed, doubt>>
vars == <<issued, live, registered, credited, credential, active, installed, pending,
          copies, cursor, app, login, restore, sync, crossed, mixed, doubt, left>>

NoLogin == [step |-> "off", user |-> 0, token |-> 0, device |-> 0]
NoRestore == [step |-> "off", user |-> 0, mid |-> FALSE]
NoRun == [step |-> "off", user |-> 0, device |-> 0, owner |-> 0, next |-> 0, of |-> 0,
          turn |-> "own", mid |-> FALSE]

TypeOK ==
    /\ issued \in [Tokens -> Users \cup {0}] /\ live \subseteq Tokens
    /\ registered \subseteq Users \X Devices
    /\ credited \subseteq [of : Users, to : Users, torn : BOOLEAN]
    /\ credential \in Tokens \cup {0} /\ active \in Users \cup {0}
    /\ installed \in [Users -> Devices \cup {0}] /\ pending \subseteq Users
    /\ copies \in [Users -> SUBSET [of : Users, torn : BOOLEAN]] /\ cursor \in [Users -> Users \cup {0}]
    /\ app \in Users \cup {0}
    /\ login \in [Logins -> [step : {"off", "issued", "saved", "known", "named", "registered",
                                     "failed"},
                             user : Users \cup {0}, token : Tokens \cup {0},
                             device : Devices \cup {0}]]
    /\ restore \in [step : {"off", "loaded", "known", "refused", "leaving"},
                    user : Users \cup {0}, mid : BOOLEAN]
    /\ sync \in [step : {"off", "begun", "ready", "sending", "told", "pulling", "paged",
                         "expired"},
                 user : Users \cup {0}, device : Devices \cup {0}, owner : Users \cup {0},
                 next : Users \cup {0}, of : Users \cup {0},
                 turn : {"own", "other", "torn"}, mid : BOOLEAN]
    /\ crossed \subseteq Devices /\ mixed \in BOOLEAN /\ doubt \in BOOLEAN
    /\ left \in [logins : Nat, runs : Nat, ends : Nat, deaths : Nat,
                before : SUBSET Users]

Init ==
    /\ left \in Plans
    /\ issued = [t \in Tokens |-> 0] /\ live = {} /\ credited = {}
    /\ registered = {<<u, u>> : u \in left.before}
    /\ credential = 0 /\ installed = [u \in Users |-> IF u \in left.before THEN u ELSE 0]
    /\ active \in IF left.before = {} THEN {0} ELSE left.before
    /\ pending = {} /\ copies = [u \in Users |-> {}] /\ cursor = [u \in Users |-> 0]
    /\ app = 0 /\ login = [l \in Logins |-> NoLogin] /\ restore = NoRestore /\ sync = NoRun
    /\ crossed = {} /\ mixed = FALSE /\ doubt = FALSE

\* The user of the session a request presents, 0 when there is none.
Caller == IF credential \in live THEN issued[credential] ELSE 0

\* Some login has stored its credential and not yet its identity.
HalfIn == \E l \in Logins : login[l].step \notin {"off", "issued"}
Unsettled == HalfIn \/ mixed

(***************************************************************************)
(* Whose learner a run works for (turn): its own; another's, when a whole  *)
(* sign-in of another user came under it; or it has lost track (torn),     *)
(* when a further sign-in began after that, or sign-ins overlapped.        *)
(***************************************************************************)
TurnAtCredential == IF sync.turn = "other" THEN "torn" ELSE sync.turn
TurnAtIdentity(u) == IF Caller \notin {0, u} THEN "torn"
                     ELSE IF sync.turn = "own" /\ u # sync.user THEN "other" ELSE sync.turn
Turns(turn) == sync' = IF sync.step = "off" THEN sync
                       ELSE [sync EXCEPT !.turn = turn, !.mid = @ \/ sync.step = "paged"]
Torn == sync.turn = "torn" \/ sync.device \in crossed

\* One of the plan's logins, runs, ends or deaths.
Spent(what) == left[what] > 0 /\ left' = [left EXCEPT ![what] = @ - 1]
-----------------------------------------------------------------------------
(***************************************************************************)
(* Signing in (ProfileService::login, finish_login).                       *)
(***************************************************************************)

Busy(l, step) == login[l].step = step
Moved(l, step) == login' = [login EXCEPT ![l].step = step]
Failed(l) == Moved(l, "failed")

\* login_session: the password is right, and a new session is issued.  Logins are
\* alike: the first idle one begins.
Authenticate(l, u) ==
    \E t \in Tokens :
        /\ Busy(l, "off") /\ (\A k \in Logins : k < l => ~Busy(k, "off"))
        /\ Spent("logins")
        /\ issued[t] = 0 /\ (\A s \in Tokens : s < t => issued[s] # 0)
        /\ issued' = [issued EXCEPT ![t] = u] /\ live' = live \cup {t}
        /\ login' = [login EXCEPT ![l] = [step |-> "issued", user |-> u, token |-> t, device |-> 0]]
        /\ UNCHANGED <<registered, credited, storeVars, app, restore, sync, ghosts>>

SaveCredential(l) ==
    /\ Busy(l, "issued") /\ Moved(l, "saved")
    /\ credential' = login[l].token /\ Turns(TurnAtCredential)
    /\ UNCHANGED <<serverVars, active, installed, pending, copies, cursor, app, restore, ghosts,
                   left>>

\* me: a session of another user is a conflict.
AskMe(l) ==
    /\ Busy(l, "saved")
    /\ IF Caller = login[l].user THEN Moved(l, "known") ELSE Failed(l)
    /\ UNCHANGED <<serverVars, storeVars, app, restore, sync, ghosts, left>>

\* Mutant of InstallationOf: the installation is named for the device, whoever signs in.
InstallationOfAny(u) ==
    IF \E v \in Users : installed[v] # 0
    THEN installed[CHOOSE v \in Users : installed[v] # 0] ELSE installed[u]

\* profile_identity: the id this user was installed under before, or none.
InstallationOf(u) == installed[u]

Drawn == {installed[u] : u \in Users} \cup {login[l].device : l \in Logins}
            \cup {r[2] : r \in registered}

\* installation_id: the one of before, or a new one.
Name(l) ==
    \E d \in Devices :
        /\ Busy(l, "known")
        /\ IF InstallationOf(login[l].user) # 0 THEN d = InstallationOf(login[l].user)
           ELSE d \notin Drawn /\ \A e \in Devices : e < d => e \in Drawn
        /\ login' = [login EXCEPT ![l].step = "named", ![l].device = d]
        /\ UNCHANGED <<serverVars, storeVars, app, restore, sync, ghosts, left>>

\* register_device: for the user of the session presented.
Register(l) ==
    /\ Busy(l, "named")
    /\ IF Caller = 0
       THEN Failed(l) /\ UNCHANGED <<registered, crossed>>
       ELSE /\ Moved(l, "registered")
            /\ registered' = registered \cup {<<Caller, login[l].device>>}
            /\ crossed' = crossed \cup (IF Caller = login[l].user THEN {} ELSE {login[l].device})
    /\ UNCHANGED <<issued, live, credited, storeVars, app, restore, sync, mixed, doubt, left>>

\* save_profile_identity, one transaction, and the login is done.
SaveIdentity(l) ==
    /\ Busy(l, "registered")
    /\ installed' = [installed EXCEPT ![login[l].user] = login[l].device]
    /\ active' = login[l].user /\ app' = login[l].user
    /\ login' = [login EXCEPT ![l] = NoLogin]
    /\ Turns(TurnAtIdentity(login[l].user))
    /\ mixed' = (Caller \notin {0, login[l].user}) /\ doubt' = FALSE
    /\ restore' = IF restore.step = "known" THEN [restore EXCEPT !.mid = TRUE] ELSE restore
    /\ UNCHANGED <<serverVars, credential, pending, copies, cursor, crossed, left>>

\* A request is lost, or the store refuses.
Lose(l) ==
    /\ login[l].step \in {"saved", "named", "registered"} /\ Failed(l)
    /\ UNCHANGED <<serverVars, storeVars, app, restore, sync, ghosts, left>>

\* delete_credentials_after_failure: whoever's they are by now.
CleanUp(l) ==
    /\ Busy(l, "failed") /\ login' = [login EXCEPT ![l] = NoLogin]
    /\ credential' = 0 /\ mixed' = FALSE
    /\ UNCHANGED <<serverVars, active, installed, pending, copies, cursor, app, restore, sync,
                   crossed, doubt, left>>
-----------------------------------------------------------------------------
(***************************************************************************)
(* Restoring and signing out.                                              *)
(***************************************************************************)

\* restore: a profile and a credential are there.
Restore ==
    /\ restore.step = "off" /\ active # 0 /\ app = 0
    /\ credential # 0 /\ restore' = [restore EXCEPT !.step = "loaded"]
    /\ UNCHANGED <<serverVars, storeVars, app, login, sync, ghosts, left>>

RestoreMe ==
    /\ restore.step = "loaded"
    /\ \/ Caller # 0 /\ restore' = [step |-> "known", user |-> Caller, mid |-> Unsettled]
       \/ Caller = 0 /\ restore' = [restore EXCEPT !.step = "refused"]
       \/ restore' = NoRestore                                  \* offline: an error
    /\ UNCHANGED <<serverVars, storeVars, app, login, sync, ghosts, left>>

\* restored_identity: the identity of the session's user, if one was stored; what
\* was refused or has no identity loses its credential.
Restored ==
    /\ restore.step \in {"known", "refused"} /\ restore' = NoRestore
    /\ IF restore.step = "known" /\ installed[restore.user] # 0
       THEN app' = restore.user /\ doubt' = restore.mid /\ UNCHANGED <<credential, mixed>>
       ELSE app' = 0 /\ credential' = 0 /\ mixed' = FALSE /\ UNCHANGED doubt
    /\ UNCHANGED <<serverVars, active, installed, pending, copies, cursor, login, sync,
                   crossed, left>>

\* logout: the session is revoked if the server can be reached, then forgotten.
Leave ==
    /\ restore.step = "off" /\ active # 0 /\ Spent("ends")
    /\ restore' = [restore EXCEPT !.step = "leaving"]
    /\ \/ live' = live \ {credential}
       \/ UNCHANGED live
    /\ UNCHANGED <<issued, registered, credited, storeVars, app, login, sync, ghosts>>

Left ==
    /\ restore.step = "leaving" /\ restore' = NoRestore
    /\ credential' = 0 /\ app' = 0 /\ mixed' = FALSE
    /\ UNCHANGED <<serverVars, active, installed, pending, copies, cursor, login, sync,
                   crossed, doubt, left>>
-----------------------------------------------------------------------------
(***************************************************************************)
(* A sync run (AppServices::sync, SyncEngine::run).                        *)
(***************************************************************************)

\* Only while a credential is stored; the identity is read once.
Begin ==
    /\ sync.step = "off" /\ active # 0 /\ credential # 0 /\ Spent("runs")
    /\ sync' = [NoRun EXCEPT !.step = "begun", !.user = active, !.device = installed[active]]
    /\ UNCHANGED <<serverVars, storeVars, app, login, restore, ghosts>>

\* Mutant of SameUser: any session will do.
SameUserOrOther == Caller # 0

\* validate_remote: the session is one of the identity's user.
SameUser == Caller = sync.user

Validate ==
    /\ sync.step = "begun"
    /\ sync' = [sync EXCEPT !.step = IF SameUser THEN "ready" ELSE "expired"]
    /\ UNCHANGED <<serverVars, storeVars, app, login, restore, ghosts, left>>

\* pending_reviews reads the outbox of the user the profile names now.
Gather ==
    /\ sync.step = "ready"
    /\ sync' = IF active \in pending THEN [sync EXCEPT !.step = "sending", !.owner = active]
               ELSE [sync EXCEPT !.step = "pulling"]
    /\ UNCHANGED <<serverVars, storeVars, app, login, restore, ghosts, left>>

\* upload_reviews: the device must be registered for the user of the session.
Send ==
    /\ sync.step = "sending"
    /\ IF <<Caller, sync.device>> \in registered
       THEN /\ credited' = credited \cup {[of |-> sync.owner, to |-> Caller, torn |-> Torn]}
            /\ sync' = [sync EXCEPT !.step = "told"]
       ELSE sync' = [sync EXCEPT !.step = "expired"] /\ UNCHANGED credited
    /\ UNCHANGED <<issued, live, registered, storeVars, app, login, restore, ghosts, left>>

\* apply_review_response: an acknowledgement of an answer this user does not
\* hold is a conflict, and the run ends.
Acknowledge ==
    /\ sync.step = "told"
    /\ IF sync.owner = active
       THEN pending' = pending \ {active} /\ sync' = [sync EXCEPT !.step = "ready"]
       ELSE sync' = NoRun /\ UNCHANGED pending
    /\ UNCHANGED <<serverVars, credential, active, installed, copies, cursor, app, login, restore,
                   ghosts, left>>

\* card_changes, from the cursor of the user the profile names; the server
\* refuses a cursor past the last change of the session's user.
Pull ==
    /\ sync.step = "pulling"
    /\ sync' = CASE Caller = 0 -> [sync EXCEPT !.step = "expired"]
                 [] Caller # 0 /\ cursor[active] > Caller -> NoRun
                 [] OTHER -> [sync EXCEPT !.step = "paged", !.next = Caller, !.of = Caller,
                                                   !.mid = HalfIn \/ sync.turn = "torn"]
    /\ UNCHANGED <<serverVars, storeVars, app, login, restore, ghosts, left>>

\* apply_card_page: into the tables of the user the profile names now.
ApplyPage ==
    /\ sync.step = "paged" /\ sync' = NoRun
    /\ IF sync.next > cursor[active]
       THEN /\ copies' = [copies EXCEPT ![active] =
                         @ \cup {[of |-> sync.of, torn |-> sync.mid]}]
            /\ cursor' = [cursor EXCEPT ![active] = sync.next]
       ELSE UNCHANGED <<copies, cursor>>
    /\ UNCHANGED <<serverVars, credential, active, installed, pending, app, login, restore, ghosts,
                   left>>

\* An expired session signs the app out and deletes the credential stored by then.
Expire ==
    /\ sync.step = "expired" /\ sync' = NoRun /\ app' = 0 /\ credential' = 0
    /\ mixed' = FALSE
    /\ UNCHANGED <<serverVars, active, installed, pending, copies, cursor, login, restore,
                   crossed, doubt, left>>
-----------------------------------------------------------------------------
\* The learner answers a card: for the user the profile names.
Answer ==
    /\ app # 0 /\ active # 0 /\ active \notin pending
    /\ pending' = pending \cup {active}
    /\ UNCHANGED <<serverVars, credential, active, installed, copies, cursor, app, login, restore,
                   sync, ghosts, left>>

\* A session ends on the server after thirty days.
SessionEnds ==
    /\ Spent("ends") /\ \E t \in live : live' = live \ {t}
    /\ UNCHANGED <<issued, registered, credited, storeVars, app, login, restore, sync, ghosts>>

\* The app dies; what is stored stays.
Crash ==
    /\ Spent("deaths")
    /\ app' = 0 /\ login' = [l \in Logins |-> NoLogin] /\ restore' = NoRestore /\ sync' = NoRun
    /\ mixed' = Unsettled
    /\ UNCHANGED <<serverVars, storeVars, crossed, doubt>>

Next ==
    \/ \E l \in Logins :
          \/ \E u \in Users : Authenticate(l, u)
          \/ SaveCredential(l) \/ AskMe(l) \/ Name(l) \/ Register(l) \/ SaveIdentity(l)
          \/ Lose(l) \/ CleanUp(l)
    \/ Restore \/ RestoreMe \/ Restored \/ Leave \/ Left
    \/ Begin \/ Validate \/ Gather \/ Send \/ Acknowledge \/ Pull \/ ApplyPage \/ Expire
    \/ Answer \/ SessionEnds \/ Crash

Spec == Init /\ [][Next]_vars
-----------------------------------------------------------------------------
\* An answer is counted for the learner who gave it, even when another signs in in the
\* middle of a run, which then sends that learner's answers: an installation is
\* registered for one learner (ensure_active_device).  It fails only for a run under
\* which one sign-in has ended and a further one began, or which met sign-ins that
\* overlapped, or whose installation such sign-ins registered for both.
AnswersOwn == \A c \in credited : c.of = c.to \/ c.torn

\* A learner's tables hold that learner's cards, whoever signs in and out, but for a
\* page that was asked for, or waited for, in the midst of a sign-in or after one was
\* cut off: apply_card_page asks whose page it is only through the cursor.
CopiesOwn == \A u \in Users : \A c \in copies[u] : c.of = u \/ c.torn

\* The learner the app shows is the one the store works for, unless it was restored in
\* the midst of a sign-in, or after one that was cut off between credential and
\* identity, and nobody has signed in since.
ShownAsStored == app \in {0, active} \/ doubt
=============================================================================
