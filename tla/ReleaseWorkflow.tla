---------------------------- MODULE ReleaseWorkflow ----------------------------
(* The emergency release of one character                                      *)
(* (bin/games/veratown/releaseWorkflowSystem.ts): a request is confirmed by    *)
(* the player, the bot moves the character to the release room, strips it of   *)
(* everything but owner-locked restraints, and holds it naked on parole until  *)
(* a timer ends the session.  The session is one document field, written as a  *)
(* whole by every step; runs, timers and pending confirmations live in memory  *)
(* and die with the process, and events of the room resume what was left.      *)
(*                                                                             *)
(* Every await is a point where other handlers run, so a handler is a thread   *)
(* with a program counter.  A session is named by the request that made it.    *)
(* Characters do not share any of this state: the model has one.               *)
EXTENDS Naturals, FiniteSets

CONSTANTS
    Requests,           \* the calls of executeRelease
    Resumes,            \* the calls of resumeIfNeeded
    Clothing, Binds,    \* the items the character may wear
    MaxDisturbances,    \* bound on restarts, disconnections and absences
    MaxErrors,          \* bound on failed database operations
    None

Items == Clothing \cup Binds
Threads == Requests \cup Resumes

ASSUME ThreadsAssumption == Requests \cap Resumes = {} /\ None \notin Requests
ASSUME ItemsAssumption == Clothing \cap Binds = {}
ASSUME BoundsAssumption == MaxDisturbances \in Nat /\ MaxErrors \in Nat

VARIABLES
    \* the database
    session,        \* releaseParoleState.releaseSession: [of, phase] or None
    isOnParole,     \* releaseParoleState.isOnParole
    \* the room
    connected,      \* the bot is in the chat room
    present,        \* so is the character
    worn,           \* the items the character wears
    ownerLocked,    \* those with an owner lock
    \* the memory of the process
    active,         \* activeRuns has the character
    pending,        \* pendingConfirmations: the request to confirm, or None
    answer,         \* answer[r]: what the confirmation promise of r resolved to
    armed,          \* the sessions whose cooldown timer is armed
    tracked,        \* cooldownTimers: the session of the character's entry
    finishing,      \* finishing[s]: how far finishCooldown of session s is
    pc,             \* the threads
    mine,           \* mine[t]: the session thread t works on
    plan,           \* plan[t]: the removals planned by t
    todo,           \* todo[t]: those still to be made
    \* bounds and history
    disturbances, errors,
    confirmed,      \* history: the sessions the player said yes to
    stripped,       \* history: the sessions whose strip was verified
    spared,         \* history: items owner-locked when a run planned its strip
    robbed,         \* history: spared items that a run took off nevertheless
    irregular       \* history: a run or a request went ahead on a false premise

database == <<session, isOnParole>>
room     == <<connected, present, worn, ownerLocked>>
timers   == <<armed, tracked, finishing>>
memory   == <<active, pending, answer>>
locals   == <<mine, plan, todo>>
threads  == <<pc, locals>>
bounds   == <<disturbances, errors>>
history  == <<confirmed, stripped, spared, robbed, irregular>>
vars == <<database, room, timers, memory, threads, bounds, history>>

ActivePhases == {"awaiting_confirmation", "moving_to_release_room",
                 "holding_in_release_room", "stripping", "cooldown"}
ContainedPhases == ActivePhases \ {"awaiting_confirmation", "cooldown"}
Sessions == [of : Requests, phase : ActivePhases \cup {"failed", "completed"}]
NoSession == [of |-> None, phase |-> "none"]

RunPCs == {"enter", "move", "hold", "strip", "remove", "cool", "arm", "fail"}
PCs == {"idle", "checking", "opening", "awaiting", "cancelling",
        "reading", "decide", "enforce", "done"} \cup RunPCs

TypeOK ==
    /\ session \in Sessions \cup {NoSession} /\ isOnParole \in BOOLEAN
    /\ connected \in BOOLEAN /\ present \in BOOLEAN
    /\ ownerLocked \subseteq worn /\ worn \subseteq Items
    /\ active \in BOOLEAN
    /\ pending \in Requests \cup {None}
    /\ answer \in [Requests -> {"none", "yes", "no"}]
    /\ armed \subseteq Requests /\ tracked \in Requests \cup {None}
    /\ finishing \in [Requests -> {"idle", "read", "write"}]
    /\ pc \in [Threads -> PCs]
    /\ mine \in [Threads -> Sessions \cup {NoSession}]
    /\ plan \in [Threads -> SUBSET Items] /\ todo \in [Threads -> SUBSET Items]
    /\ disturbances \in 0..MaxDisturbances /\ errors \in 0..MaxErrors
    /\ confirmed \subseteq Requests /\ stripped \subseteq Requests
    /\ spared \subseteq Binds /\ robbed \subseteq Binds
    /\ irregular \in BOOLEAN

Init ==
    /\ session = NoSession /\ isOnParole = FALSE
    /\ connected = TRUE /\ present = TRUE
    /\ worn = Items /\ ownerLocked \in SUBSET Binds
    /\ active = FALSE /\ pending = None
    /\ answer = [r \in Requests |-> "none"]
    /\ armed = {} /\ tracked = None
    /\ finishing = [r \in Requests |-> "idle"]
    /\ pc = [t \in Threads |-> "idle"]
    /\ mine = [t \in Threads |-> NoSession]
    /\ plan = [t \in Threads |-> {}] /\ todo = [t \in Threads |-> {}]
    /\ disturbances = 0 /\ errors = 0
    /\ confirmed = {} /\ stripped = {} /\ spared = {} /\ robbed = {}
    /\ irregular = FALSE

--------------------------------------------------------------------------------
(* Thread t goes on at another point, its local variables unchanged, ...       *)
Goto(t, where) ==
    /\ pc' = [pc EXCEPT ![t] = where]
    /\ UNCHANGED locals

(* ... or ends, and its local variables with it.                               *)
End(t) ==
    /\ pc' = [pc EXCEPT ![t] = "done"]
    /\ mine' = [mine EXCEPT ![t] = NoSession]
    /\ plan' = [plan EXCEPT ![t] = {}]
    /\ todo' = [todo EXCEPT ![t] = {}]

(* persistSession: the session field and the parole flag are overwritten,      *)
(* whatever they hold by now.                                                  *)
Persist(s) ==
    /\ session' = s
    /\ isOnParole' = (s.phase = "cooldown")

(* Thread t stores the next phase of its session and goes on.                  *)
Advance(t, phase, where) ==
    /\ Persist([mine[t] EXCEPT !.phase = phase])
    /\ mine' = [mine EXCEPT ![t].phase = phase]
    /\ pc' = [pc EXCEPT ![t] = where]

Running(t) == pc[t] \in RunPCs

--------------------------------------------------------------------------------
(* executeRelease                                                              *)

(* /bot release, up to the first await.                                        *)
Request(r) ==
    /\ pc[r] = "idle" /\ present /\ connected
    /\ Goto(r, IF active THEN "done" ELSE "checking")
    /\ UNCHANGED <<database, room, timers, memory, bounds, history>>

Check(r) ==
    /\ pc[r] = "checking"
    /\ Goto(r, IF session.phase \in ActivePhases THEN "done" ELSE "opening")
    /\ UNCHANGED <<database, room, timers, memory, bounds, history>>

(* The session is stored, and the confirmation replaces whichever is pending.  *)
Open(r) ==
    LET s == [of |-> r, phase |-> "awaiting_confirmation"]
    IN  /\ pc[r] = "opening"
        /\ Persist(s)
        /\ pending' = r
        /\ mine' = [mine EXCEPT ![r] = s]
        /\ pc' = [pc EXCEPT ![r] = "awaiting"]
        /\ irregular' = (irregular \/ session.phase \in ActivePhases)
        /\ UNCHANGED <<room, timers, active, answer, plan, todo, bounds,
                       confirmed, stripped, spared, robbed>>

(* handleConfirmationResponse; an answer after the 20 seconds counts as no.    *)
Answer(yes) ==
    /\ pending # None
    /\ present /\ connected
    /\ answer' = [answer EXCEPT ![pending] = IF yes THEN "yes" ELSE "no"]
    /\ confirmed' = IF yes THEN confirmed \cup {pending} ELSE confirmed
    /\ pending' = None
    /\ UNCHANGED <<database, room, timers, active, threads, bounds,
                   stripped, spared, robbed, irregular>>

(* The 20-second timeout looks only at its own confirmation.                   *)
TimeOut(r) ==
    /\ pc[r] = "awaiting" /\ pending = r
    /\ answer' = [answer EXCEPT ![r] = "no"]
    /\ pending' = None
    /\ UNCHANGED <<database, room, timers, active, threads, bounds, history>>

(* await confirmation: a confirmed request runs without another look at        *)
(* activeRuns or at the stored session.                                        *)
Proceed(r) ==
    /\ pc[r] = "awaiting" /\ answer[r] # "none"
    /\ Goto(r, IF answer[r] = "yes" THEN "enter" ELSE "cancelling")
    /\ active' = (active \/ answer[r] = "yes")
    /\ UNCHANGED <<database, room, timers, pending, answer, bounds, history>>

Cancel(r) ==
    /\ pc[r] = "cancelling"
    /\ Persist([mine[r] EXCEPT !.phase = "failed"])
    /\ End(r)
    /\ UNCHANGED <<room, timers, memory, bounds, history>>

--------------------------------------------------------------------------------
(* runConfirmed and strip, on behalf of thread t                               *)

Enter(t) ==
    /\ pc[t] = "enter"
    /\ Advance(t, "moving_to_release_room", "move")
    /\ UNCHANGED <<room, timers, memory, plan, todo, bounds, history>>

(* movementService.move: the arrival is observed, or the five seconds pass, or *)
(* the connection is lost.                                                     *)
Move(t) ==
    /\ pc[t] = "move"
    /\ \/ present /\ connected /\ Goto(t, "hold")
       \/ Goto(t, "fail")
    /\ UNCHANGED <<database, room, timers, memory, bounds, history>>

Hold(t) ==
    /\ pc[t] = "hold"
    /\ Advance(t, "holding_in_release_room", "strip")
    /\ UNCHANGED <<room, timers, memory, plan, todo, bounds, history>>

(* planReleaseAppearance: everything but owner-locked restraints.              *)
EverythingRemovable == worn
Removals == worn \ (ownerLocked \cap Binds)

(* The strip is planned, and the plan stored with the session.                 *)
Strip(t) ==
    /\ pc[t] = "strip"
    /\ plan' = [plan EXCEPT ![t] = Removals]
    /\ todo' = [todo EXCEPT ![t] = Removals]
    /\ spared' = spared \cup (ownerLocked \cap Binds)
    /\ Advance(t, "stripping", "remove")
    /\ UNCHANGED <<room, timers, memory, bounds, confirmed, stripped, robbed, irregular>>

(* An item comes off with its lock.                                            *)
LockLeftBehind(X) == ownerLocked
LocksWithout(X) == ownerLocked \ X

TakeOff(X) ==
    /\ worn' = worn \ X
    /\ ownerLocked' = LocksWithout(X)

(* appearanceService.remove for one planned item.  The lock is not looked at   *)
(* again (preserveLockedItems: false); a removal that is not confirmed in time *)
(* may have happened all the same.                                             *)
Remove(t, i) ==
    /\ pc[t] = "remove" /\ i \in todo[t]
    /\ \/ /\ present /\ connected
          /\ TakeOff({i})
          /\ todo' = [todo EXCEPT ![t] = @ \ {i}]
          /\ UNCHANGED <<pc, mine, plan>>
       \/ /\ TakeOff({i}) \/ UNCHANGED <<worn, ownerLocked>>
          /\ Goto(t, "fail")
    /\ robbed' = robbed \cup (spared \cap (worn \ worn'))
    /\ UNCHANGED <<database, connected, present, timers, memory, bounds,
                   confirmed, stripped, spared, irregular>>

(* The appearance is verified: nothing that was planned is worn again.         *)
NotVerified(t) == {}
Remaining(t) == Removals \cap plan[t]

Verify(t) ==
    /\ pc[t] = "remove" /\ todo[t] = {}
    /\ Goto(t, IF Remaining(t) = {} THEN "cool" ELSE "fail")
    /\ stripped' = IF Removals \cap plan[t] = {}
                   THEN stripped \cup {mine[t].of}
                   ELSE stripped
    /\ UNCHANGED <<database, room, timers, memory, bounds,
                   confirmed, spared, robbed, irregular>>

Cool(t) ==
    /\ pc[t] = "cool"
    /\ Advance(t, "cooldown", "arm")
    /\ UNCHANGED <<room, timers, memory, plan, todo, bounds, history>>

(* scheduleCooldown: the previous timer of the character is cleared.           *)
ScheduleCooldown(s) ==
    /\ armed' = (armed \ {tracked}) \cup {s}
    /\ tracked' = s
    /\ UNCHANGED finishing

(* The finally blocks: both maps lose the character's entry, whoever made it.  *)
Finally(t) ==
    /\ active' = FALSE
    /\ pending' = IF t \in Requests THEN None ELSE pending
    /\ UNCHANGED answer

Arm(t) ==
    /\ pc[t] = "arm"
    /\ ScheduleCooldown(mine[t].of)
    /\ Finally(t)
    /\ End(t)
    /\ UNCHANGED <<database, room, bounds, history>>

Fail(t) ==
    /\ pc[t] = "fail"
    /\ Persist([mine[t] EXCEPT !.phase = "failed"])
    /\ Finally(t)
    /\ End(t)
    /\ UNCHANGED <<room, timers, bounds, history>>

--------------------------------------------------------------------------------
(* finishCooldown, when the timer of session s is due                          *)

(* The timer is due ten minutes after the cooldown was computed, long after    *)
(* the run, whose last awaited write follows that computation, has ended.      *)
TimerFires(s) ==
    /\ s \in armed /\ finishing[s] = "idle"
    /\ \A t \in Threads : ~Running(t)
    /\ armed' = armed \ {s}
    /\ finishing' = [finishing EXCEPT ![s] = "read"]
    /\ UNCHANGED <<database, room, tracked, memory, threads, bounds, history>>

FinishRead(s) ==
    /\ finishing[s] = "read"
    /\ finishing' = [finishing EXCEPT ![s] =
                         IF session = [of |-> s, phase |-> "cooldown"]
                         THEN "write" ELSE "idle"]
    /\ UNCHANGED <<database, room, armed, tracked, memory, threads, bounds, history>>

FinishWrite(s) ==
    /\ finishing[s] = "write"
    /\ Persist([of |-> s, phase |-> "completed"])
    /\ finishing' = [finishing EXCEPT ![s] = "idle"]
    /\ tracked' = None
    /\ UNCHANGED <<room, armed, memory, threads, bounds, history>>

--------------------------------------------------------------------------------
(* resumeIfNeeded, when the bot or the character comes into the room           *)

(* The event starts the resume u; it reads the stored session, then decides.   *)
BeginResume(u) == pc[u] = "idle" /\ Goto(u, "reading")

ResumeRead(u) ==
    /\ pc[u] = "reading"
    /\ mine' = [mine EXCEPT ![u] = session]
    /\ pc' = [pc EXCEPT ![u] = "decide"]
    /\ UNCHANGED <<database, room, timers, memory, plan, todo, bounds, history>>

ResumeIgnoringRuns(u) == mine[u].phase \in ActivePhases \ {"cooldown"}
NeverResume(u) == FALSE
MayResumeRun(u) == mine[u].phase \in ActivePhases \ {"cooldown"} /\ ~active

ForgetTimer(u) == UNCHANGED timers
RearmCooldown(u) == ScheduleCooldown(mine[u].of)

(* A session that awaits its confirmation is resumed like any other.           *)
ResumeRun(u) ==
    /\ pc[u] = "decide"
    /\ MayResumeRun(u)
    /\ active' = TRUE
    /\ Goto(u, "enter")
    /\ irregular' = (irregular \/ mine[u] # session
                               \/ mine[u].phase = "awaiting_confirmation")
    /\ UNCHANGED <<database, room, timers, pending, answer, bounds,
                   confirmed, stripped, spared, robbed>>

ResumeCooldown(u) ==
    /\ pc[u] = "decide"
    /\ mine[u].phase = "cooldown"
    /\ RearmCooldown(u)
    /\ Goto(u, "enforce")
    /\ irregular' = (irregular \/ mine[u].of # session.of)
    /\ UNCHANGED <<database, room, memory, bounds, confirmed, stripped, spared, robbed>>

ResumeNothing(u) ==
    /\ pc[u] = "decide"
    /\ mine[u].phase # "cooldown" /\ ~MayResumeRun(u)
    /\ End(u)
    /\ UNCHANGED <<database, room, timers, memory, bounds, history>>

(* enforceCooldownAppearance: each piece of clothing comes off, or its removal *)
(* is not confirmed and only logged.                                           *)
EnforceAppearance ==
    \E X \in SUBSET (worn \cap Clothing) : TakeOff(X)

ResumeEnforce(u) ==
    /\ pc[u] = "enforce"
    /\ EnforceAppearance
    /\ End(u)
    /\ UNCHANGED <<database, connected, present, timers, memory, bounds, history>>

(* CharacterSync, and the shower's checkAndEnforceParoleViolation.             *)
Enforce ==
    /\ session.phase = "cooldown" /\ present /\ connected
    /\ EnforceAppearance
    /\ UNCHANGED <<database, connected, present, timers, memory, threads, bounds, history>>

--------------------------------------------------------------------------------
(* What happens around the workflow                                            *)

Disturb == disturbances < MaxDisturbances /\ disturbances' = disturbances + 1

(* The process restarts: everything but the database and the room is lost.     *)
Restart ==
    /\ Disturb
    /\ connected' = FALSE
    /\ active' = FALSE /\ pending' = None
    /\ armed' = {} /\ tracked' = None
    /\ finishing' = [r \in Requests |-> "idle"]
    /\ pc' = [t \in Threads |-> IF pc[t] = "idle" THEN "idle" ELSE "done"]
    /\ mine' = [t \in Threads |-> NoSession]
    /\ plan' = [t \in Threads |-> {}] /\ todo' = [t \in Threads |-> {}]
    /\ UNCHANGED <<database, present, worn, ownerLocked, answer, errors, history>>

Disconnect ==
    /\ Disturb
    /\ connected /\ connected' = FALSE
    /\ UNCHANGED <<database, present, worn, ownerLocked, timers, memory, threads,
                   errors, history>>

Leave ==
    /\ Disturb
    /\ present /\ present' = FALSE
    /\ UNCHANGED <<database, connected, worn, ownerLocked, timers, memory, threads,
                   errors, history>>

(* onConnected resumes whoever is in the room, onCharacterEntered who enters.  *)
Connect ==
    /\ ~connected /\ connected' = TRUE
    /\ IF present THEN \E u \in Resumes : BeginResume(u) ELSE UNCHANGED threads
    /\ UNCHANGED <<database, present, worn, ownerLocked, timers, memory, bounds, history>>

ComeBack ==
    /\ ~present /\ present' = TRUE
    /\ IF connected THEN \E u \in Resumes : BeginResume(u) ELSE UNCHANGED threads
    /\ UNCHANGED <<database, connected, worn, ownerLocked, timers, memory, bounds, history>>

(* Players dress the character, and its owner locks what it wears.             *)
Dress(i) ==
    /\ present /\ i \notin worn
    /\ worn' = worn \cup {i}
    /\ UNCHANGED <<database, connected, present, ownerLocked, timers, memory, threads,
                   bounds, history>>

OwnerLock(i) ==
    /\ present /\ i \in (worn \cap Binds) \ ownerLocked
    /\ ownerLocked' = ownerLocked \cup {i}
    /\ UNCHANGED <<database, connected, present, worn, timers, memory, threads,
                   bounds, history>>

(* A database operation rejects: inside the try block the run fails, outside   *)
(* it the handler ends, a run through its finally blocks.                      *)
Error(t) ==
    /\ errors < MaxErrors /\ errors' = errors + 1
    /\ \/ /\ pc[t] \in {"hold", "strip", "remove", "cool"}
          /\ Goto(t, "fail")
          /\ UNCHANGED memory
       \/ /\ pc[t] \in {"enter", "fail"}
          /\ Finally(t)
          /\ End(t)
       \/ /\ pc[t] \in {"checking", "opening", "cancelling", "reading"}
          /\ End(t)
          /\ UNCHANGED memory
    /\ UNCHANGED <<database, room, timers, disturbances, history>>

FinishError(s) ==
    /\ errors < MaxErrors /\ errors' = errors + 1
    /\ finishing[s] # "idle"
    /\ finishing' = [finishing EXCEPT ![s] = "idle"]
    /\ UNCHANGED <<database, room, armed, tracked, memory, threads, disturbances, history>>

--------------------------------------------------------------------------------
RequestStep(r) == Check(r) \/ Open(r) \/ Proceed(r) \/ Cancel(r) \/ TimeOut(r)
RunStep(t) ==
    \/ Enter(t) \/ Move(t) \/ Hold(t) \/ Strip(t) \/ Verify(t)
    \/ \E i \in Items : Remove(t, i)
    \/ Cool(t) \/ Arm(t) \/ Fail(t)
FinishStep(s) == TimerFires(s) \/ FinishRead(s) \/ FinishWrite(s)
ResumeStep(u) == ResumeRead(u) \/ ResumeRun(u) \/ ResumeCooldown(u) \/ ResumeNothing(u)
                 \/ ResumeEnforce(u)

Next ==
    \/ \E r \in Requests : Request(r) \/ RequestStep(r) \/ FinishStep(r) \/ FinishError(r)
    \/ \E t \in Threads : RunStep(t) \/ Error(t)
    \/ \E u \in Resumes : ResumeStep(u)
    \/ \E yes \in BOOLEAN : Answer(yes)
    \/ \E i \in Items : Dress(i) \/ OwnerLock(i)
    \/ Enforce \/ Restart \/ Disconnect \/ Leave \/ Connect \/ ComeBack

(* Timers fire and awaited calls return (the movement and removal actions have *)
(* timeouts of their own); the bot reconnects and the character comes back.    *)
Fairness ==
    /\ \A r \in Requests : WF_vars(RequestStep(r)) /\ WF_vars(FinishStep(r))
    /\ \A t \in Threads : WF_vars(RunStep(t))
    /\ \A u \in Resumes : WF_vars(ResumeStep(u))
    /\ WF_vars(Connect) /\ WF_vars(ComeBack)

Spec == Init /\ [][Next]_vars /\ Fairness

--------------------------------------------------------------------------------
(* Properties                                                                  *)

(* A character is never put through two runs at once, whatever the timing of   *)
(* confirmations, reconnections, returns and restarts; provided that no resume *)
(* took up an unconfirmed or an outdated session and no request replaced       *)
(* another one (irregular).                                                    *)
SingleRun ==
    ~irregular =>
        /\ \A t, u \in Threads : Running(t) /\ Running(u) => t = u
        /\ \A t \in Threads : Running(t) => active

(* The parole flag is stored only with a session in cooldown whose strip was   *)
(* verified: a restart or a concurrent write never leaves someone on parole    *)
(* who was not stripped, or on parole in a session that has ended.             *)
ParoleMeansStripped ==
    isOnParole => session.phase = "cooldown" /\ session.of \in stripped

(* A restraint that carried an owner lock when a release planned its strip is  *)
(* not taken off by any release, unless an unconfirmed or outdated session was *)
(* taken up before (irregular).                                                *)
OwnerLocksKept == ~irregular => robbed = {}

(* A parole ends, even when the process restarts or the character is away when *)
(* it is due.                                                                  *)
CooldownEnds ==
    session.phase = "cooldown" ~> session.phase # "cooldown" \/ errors > 0 \/ irregular

(* A release under way comes to an end: the character is not held for ever.    *)
ReleaseEnds ==
    session.phase \in ContainedPhases ~>
        session.phase \notin ContainedPhases \/ errors > 0 \/ irregular

(* No session keeps its character confined, or on parole, for ever.            *)
SessionsEnd == CooldownEnds /\ ReleaseEnds

(* "Release confirmation requires active accept within 20 seconds before       *)
(* release proceeds": whoever is moved and stripped has said yes.              *)
ReleaseIsConfirmed == \A t \in Threads : Running(t) => mine[t].of \in confirmed

================================================================================
