------------------------- MODULE ReleaseWorkflow_proofs -------------------------
(* Type correctness of ReleaseWorkflow, and its three invariants, for any number  *)
(* of requests, resumes and items, restarts and failed database operations.       *)
EXTENDS ReleaseWorkflow, TLAPS

(* A thread that works on a session, or has one to cancel.                        *)
Busy(t) == Running(t) \/ pc[t] \in {"awaiting", "cancelling"}

(* What a thread holds agrees with the place it has got to.                       *)
PhaseKnown ==
    \A t \in Threads :
        /\ pc[t] \in {"awaiting", "cancelling"} => mine[t].phase = "awaiting_confirmation"
        /\ pc[t] = "arm" => mine[t].phase = "cooldown"
        /\ pc[t] \in RunPCs \ {"arm"} => mine[t].phase \in ActivePhases \ {"cooldown"}

CoolIsStripped == \A t \in Threads : pc[t] = "cool" => mine[t].of \in stripped

(* The stored session is that of the thread that is busy, and there is one.       *)
BusyOwns == \A t \in Threads : Busy(t) => session = mine[t]
OneBusy == \A t, u \in Threads : Busy(t) /\ Busy(u) => t = u
RunIsActive == \A t \in Threads : Running(t) => active

(* Session s has reached its cooldown: something in memory knows of it.           *)
Past(s) ==
    \/ s \in armed \/ finishing[s] # "idle"
    \/ \E u \in Threads : pc[u] = "decide" /\ mine[u] = [of |-> s, phase |-> "cooldown"]
Fresh(r) == pc[r] \in {"idle", "checking", "opening"}

(* A session that has reached its cooldown does not go back, and is not made      *)
(* again.                                                                         *)
PastStays ==
    \A s \in Requests : Past(s) =>
        ~Fresh(s) /\ (session.of = s => session.phase \in {"cooldown", "completed"})
FreshUnknown == \A r \in Requests : Fresh(r) => session.of # r
FinishAlone ==
    \A s \in Requests : finishing[s] # "idle" =>
        \A t \in Threads : Running(t) => mine[t].of # s
WriteKnows ==
    \A s \in Requests : finishing[s] = "write" => session = [of |-> s, phase |-> "cooldown"]

OneAtATime == BusyOwns /\ OneBusy /\ RunIsActive /\ PastStays /\ FreshUnknown
                 /\ FinishAlone /\ WriteKnows

(* What was owner-locked when a strip was planned still is, and is on no plan.    *)
SparedKept ==
    /\ robbed = {} /\ spared \subseteq ownerLocked
    /\ \A t \in Threads : pc[t] = "remove" => todo[t] \cap spared = {}

Sound == TypeOK /\ PhaseKnown /\ CoolIsStripped /\ ParoleMeansStripped
IInv == Sound /\ (~irregular => OneAtATime /\ SparedKept)

--------------------------------------------------------------------------------
(* Where the threads may be, as facts for the provers.                            *)

LEMMA PCFacts ==
    /\ RunPCs \subseteq PCs
    /\ \A p \in {"idle", "checking", "opening", "awaiting", "cancelling", "reading",
                 "decide", "enforce", "done"} : p \in PCs /\ p \notin RunPCs
  BY DEF PCs, RunPCs

(* A thread whose session has an active phase holds a session.                    *)
LEMMA HoldsSession ==
    ASSUME TypeOK, NEW t \in Threads, mine[t].phase \in ActivePhases
    PROVE  mine[t] \in Sessions /\ mine[t].of \in Requests
  <1>1. mine[t] \in Sessions \cup {NoSession}
    BY DEF TypeOK
  <1>2. mine[t] # NoSession
    BY DEF NoSession, ActivePhases
  <1> QED
    BY <1>1, <1>2 DEF Sessions

LEMMA BusyHolds ==
    ASSUME TypeOK, PhaseKnown, NEW t \in Threads, Busy(t)
    PROVE  /\ mine[t].phase \in ActivePhases
           /\ mine[t] \in Sessions /\ mine[t].of \in Requests
  <1>1. mine[t].phase \in ActivePhases
    BY DEF PhaseKnown, Busy, Running, ActivePhases
  <1> QED
    BY <1>1, HoldsSession

(* What Goto, End and Advance do to the threads.                                  *)
LEMMA GotoFacts ==
    ASSUME TypeOK, NEW t \in Threads, NEW where \in PCs, Goto(t, where)
    PROVE  /\ pc' \in [Threads -> PCs] /\ pc'[t] = where
           /\ \A u \in Threads : u # t => pc'[u] = pc[u]
           /\ mine' = mine /\ plan' = plan /\ todo' = todo
  BY DEF TypeOK, Goto, locals

LEMMA EndFacts ==
    ASSUME TypeOK, NEW t \in Threads, End(t)
    PROVE  /\ pc' \in [Threads -> PCs] /\ pc'[t] = "done"
           /\ mine' \in [Threads -> Sessions \cup {NoSession}] /\ mine'[t] = NoSession
           /\ plan' \in [Threads -> SUBSET Items] /\ todo' \in [Threads -> SUBSET Items]
           /\ \A u \in Threads : u # t => /\ pc'[u] = pc[u] /\ mine'[u] = mine[u]
                                          /\ todo'[u] = todo[u]
  BY PCFacts DEF TypeOK, End

LEMMA AdvanceFacts ==
    ASSUME TypeOK, NEW t \in Threads, mine[t] \in Sessions,
           NEW phase \in ActivePhases, NEW where \in PCs, Advance(t, phase, where)
    PROVE  /\ session' = [of |-> mine[t].of, phase |-> phase] /\ session' \in Sessions
           /\ isOnParole' = (phase = "cooldown")
           /\ mine' \in [Threads -> Sessions \cup {NoSession}] /\ mine'[t] = session'
           /\ pc' \in [Threads -> PCs] /\ pc'[t] = where
           /\ \A u \in Threads : u # t => pc'[u] = pc[u] /\ mine'[u] = mine[u]
  <1>1. /\ session' = [of |-> mine[t].of, phase |-> phase]
        /\ [mine[t] EXCEPT !.phase = phase] = [of |-> mine[t].of, phase |-> phase]
    BY DEF Advance, Persist, Sessions
  <1>2. session' \in Sessions
    BY <1>1 DEF Sessions
  <1>3. isOnParole' = (phase = "cooldown")
    BY <1>1 DEF Advance, Persist
  <1>4. mine' = [mine EXCEPT ![t] = session']
    BY <1>1 DEF Advance
  <1>5. /\ mine' \in [Threads -> Sessions \cup {NoSession}] /\ mine'[t] = session'
        /\ \A u \in Threads : u # t => mine'[u] = mine[u]
    BY <1>2, <1>4 DEF TypeOK
  <1>6. /\ pc' \in [Threads -> PCs] /\ pc'[t] = where
        /\ \A u \in Threads : u # t => pc'[u] = pc[u]
    BY DEF Advance, TypeOK
  <1> QED
    BY <1>1, <1>2, <1>3, <1>5, <1>6

(* A session that is stored as failed.                                            *)
LEMMA FailedFacts ==
    ASSUME NEW t \in Threads, mine[t] \in Sessions, Persist([mine[t] EXCEPT !.phase = "failed"])
    PROVE  /\ session' = [of |-> mine[t].of, phase |-> "failed"]
           /\ session' \in Sessions /\ isOnParole' = FALSE
  BY DEF Persist, Sessions

--------------------------------------------------------------------------------
(* Types                                                                          *)

LEMMA InitType == Init => TypeOK
  <1> SUFFICES ASSUME Init PROVE TypeOK
    OBVIOUS
  <1>1. disturbances \in 0..MaxDisturbances /\ errors \in 0..MaxErrors
    BY BoundsAssumption DEF Init
  <1>2. ownerLocked \subseteq worn /\ worn \subseteq Items
    BY DEF Init, Items
  <1> QED
    BY <1>1, <1>2 DEF Init, TypeOK, PCs

LEMMA TakeOffType ==
    ASSUME TypeOK, NEW X, TakeOff(X)
    PROVE  ownerLocked' \subseteq worn' /\ worn' \subseteq Items
  BY DEF TypeOK, TakeOff, LocksWithout

LEMMA FinallyType ==
    ASSUME TypeOK, NEW t, Finally(t)
    PROVE  /\ active' \in BOOLEAN /\ pending' \in Requests \cup {None}
           /\ answer' \in [Requests -> {"none", "yes", "no"}]
  BY DEF TypeOK, Finally

LEMMA CooldownType ==
    ASSUME TypeOK, NEW s \in Requests, ScheduleCooldown(s)
    PROVE  /\ armed' \subseteq Requests /\ tracked' \in Requests \cup {None}
           /\ finishing' \in [Requests -> {"idle", "read", "write"}]
  BY DEF TypeOK, ScheduleCooldown

LEMMA RequestType ==
    ASSUME TypeOK, PhaseKnown, NEW r \in Requests, Request(r) \/ RequestStep(r)
    PROVE  TypeOK'
  <1>0. r \in Threads
    BY DEF Threads
  <1>1. CASE Request(r)
    BY <1>0, <1>1, GotoFacts, PCFacts
       DEF Request, TypeOK, database, room, timers, memory, bounds, history
  <1>2. CASE Check(r)
    BY <1>0, <1>2, GotoFacts, PCFacts
       DEF Check, TypeOK, database, room, timers, memory, bounds, history
  <1>3. CASE Open(r)
    <2>1. [of |-> r, phase |-> "awaiting_confirmation"] \in Sessions
      BY DEF Sessions, ActivePhases
    <2>2. session' \in Sessions /\ isOnParole' \in BOOLEAN /\ irregular' \in BOOLEAN
      BY <1>3, <2>1 DEF Open, Persist, TypeOK
    <2>3. mine' \in [Threads -> Sessions \cup {NoSession}] /\ pc' \in [Threads -> PCs]
      BY <1>0, <1>3, <2>1, PCFacts DEF Open, TypeOK
    <2> QED
      BY <1>3, <2>2, <2>3 DEF Open, TypeOK, room, timers, bounds
  <1>4. CASE Proceed(r)
    BY <1>0, <1>4, GotoFacts, PCFacts
       DEF Proceed, TypeOK, database, room, timers, bounds, history, PCs, RunPCs
  <1>5. CASE Cancel(r)
    <2>1. mine[r] \in Sessions
      BY <1>0, <1>5, BusyHolds DEF Cancel, Busy
    <2> QED
      BY <1>0, <1>5, <2>1, FailedFacts, EndFacts
         DEF Cancel, TypeOK, room, timers, memory, bounds, history
  <1>6. CASE TimeOut(r)
    BY <1>6 DEF TimeOut, TypeOK, database, room, timers, threads, locals, bounds, history
  <1> QED
    BY <1>1, <1>2, <1>3, <1>4, <1>5, <1>6 DEF RequestStep

LEMMA FinishType ==
    ASSUME TypeOK, NEW s \in Requests, FinishStep(s) \/ FinishError(s)
    PROVE  TypeOK'
  <1>1. CASE TimerFires(s) \/ FinishRead(s)
    BY <1>1 DEF TimerFires, FinishRead, TypeOK, database, room, memory, threads, locals,
                bounds, history
  <1>2. CASE FinishWrite(s)
    <2>1. session' \in Sessions /\ isOnParole' \in BOOLEAN
      BY <1>2 DEF FinishWrite, Persist, Sessions
    <2> QED
      BY <1>2, <2>1 DEF FinishWrite, TypeOK, room, memory, threads, locals, bounds, history
  <1>3. CASE FinishError(s)
    BY <1>3, BoundsAssumption
       DEF FinishError, TypeOK, database, room, memory, threads, locals, history
  <1> QED
    BY <1>1, <1>2, <1>3 DEF FinishStep

LEMMA RunType ==
    ASSUME TypeOK, PhaseKnown, NEW t \in Threads, RunStep(t)
    PROVE  TypeOK'
  <1>0. Running(t) => mine[t] \in Sessions /\ mine[t].of \in Requests
    BY BusyHolds DEF Busy
  <1>1. CASE Enter(t)
    BY <1>0, <1>1, AdvanceFacts
       DEF Enter, Running, RunPCs, PCs, ActivePhases, TypeOK, room, timers, memory, bounds, history
  <1>2. CASE Move(t)
    BY <1>2, GotoFacts
       DEF Move, RunPCs, PCs, TypeOK, database, room, timers, memory, bounds, history
  <1>3. CASE Hold(t)
    BY <1>0, <1>3, AdvanceFacts
       DEF Hold, Running, RunPCs, PCs, ActivePhases, TypeOK, room, timers, memory, bounds, history
  <1>4. CASE Strip(t)
    <2>1. Advance(t, "stripping", "remove") /\ mine[t] \in Sessions
      BY <1>0, <1>4 DEF Strip, Running, RunPCs
    <2>2. /\ plan' \in [Threads -> SUBSET Items] /\ todo' \in [Threads -> SUBSET Items]
          /\ spared' \subseteq Binds
      BY <1>4 DEF Strip, TypeOK, Removals
    <2> QED
      BY <1>4, <2>1, <2>2, AdvanceFacts
         DEF Strip, RunPCs, PCs, ActivePhases, TypeOK, room, timers, memory, bounds
  <1>5. ASSUME NEW i \in Items, Remove(t, i)
        PROVE  TypeOK'
    <2>1. /\ ownerLocked' \subseteq worn' /\ worn' \subseteq Items
          /\ robbed' \subseteq Binds
      BY <1>5, TakeOffType DEF Remove, TypeOK
    <2>2. CASE Goto(t, "fail")
      BY <1>5, <2>1, <2>2, GotoFacts
         DEF Remove, RunPCs, PCs, TypeOK, database, timers, memory, bounds
    <2>3. CASE todo' = [todo EXCEPT ![t] = @ \ {i}] /\ UNCHANGED <<pc, mine, plan>>
      BY <1>5, <2>1, <2>3 DEF Remove, TypeOK, database, timers, memory, bounds
    <2> QED
      BY <1>5, <2>2, <2>3 DEF Remove
  <1>6. CASE Verify(t)
    BY <1>0, <1>6, GotoFacts
       DEF Verify, Running, RunPCs, PCs, TypeOK, database, room, timers, memory, bounds
  <1>7. CASE Cool(t)
    BY <1>0, <1>7, AdvanceFacts
       DEF Cool, Running, RunPCs, PCs, ActivePhases, TypeOK, room, timers, memory, bounds, history
  <1>8. CASE Arm(t)
    BY <1>0, <1>8, EndFacts, FinallyType, CooldownType
       DEF Arm, Running, RunPCs, TypeOK, database, room, bounds, history
  <1>9. CASE Fail(t)
    BY <1>0, <1>9, EndFacts, FinallyType, FailedFacts
       DEF Fail, Running, RunPCs, TypeOK, room, timers, bounds, history
  <1> QED
    BY <1>1, <1>2, <1>3, <1>4, <1>5, <1>6, <1>7, <1>8, <1>9 DEF RunStep

LEMMA ErrorType ==
    ASSUME TypeOK, NEW t \in Threads, Error(t)
    PROVE  TypeOK'
  <1>1. CASE Goto(t, "fail") /\ UNCHANGED memory
    BY <1>1, GotoFacts, BoundsAssumption
       DEF Error, RunPCs, PCs, TypeOK, database, room, timers, memory, history
  <1>2. CASE Finally(t) /\ End(t)
    BY <1>2, EndFacts, FinallyType, BoundsAssumption
       DEF Error, TypeOK, database, room, timers, history
  <1>3. CASE End(t) /\ UNCHANGED memory
    BY <1>3, EndFacts, BoundsAssumption
       DEF Error, TypeOK, database, room, timers, memory, history
  <1> QED
    BY <1>1, <1>2, <1>3 DEF Error

LEMMA ResumeType ==
    ASSUME TypeOK, NEW u \in Resumes, ResumeStep(u)
    PROVE  TypeOK'
  <1>0. u \in Threads
    BY DEF Threads
  <1>1. CASE ResumeRead(u)
    BY <1>0, <1>1, PCFacts
       DEF ResumeRead, TypeOK, database, room, timers, memory, bounds, history
  <1>2. CASE ResumeRun(u)
    BY <1>0, <1>2, GotoFacts
       DEF ResumeRun, RunPCs, PCs, TypeOK, database, room, timers, bounds
  <1>3. CASE ResumeCooldown(u)
    <2>1. mine[u].of \in Requests
      BY <1>0, <1>3, HoldsSession DEF ResumeCooldown, ActivePhases
    <2> QED
      BY <1>0, <1>3, <2>1, GotoFacts, CooldownType, PCFacts
         DEF ResumeCooldown, RearmCooldown, TypeOK, database, room, memory, bounds
  <1>4. CASE ResumeNothing(u)
    BY <1>0, <1>4, EndFacts
       DEF ResumeNothing, TypeOK, database, room, timers, memory, bounds, history
  <1>5. CASE ResumeEnforce(u)
    <2>1. ownerLocked' \subseteq worn' /\ worn' \subseteq Items
      BY <1>5, TakeOffType DEF ResumeEnforce, EnforceAppearance
    <2> QED
      BY <1>0, <1>5, <2>1, EndFacts
         DEF ResumeEnforce, TypeOK, database, timers, memory, bounds, history
  <1> QED
    BY <1>1, <1>2, <1>3, <1>4, <1>5 DEF ResumeStep

(* The player, the room and the process.                                          *)
Surroundings ==
    \/ \E yes \in BOOLEAN : Answer(yes)
    \/ \E i \in Items : Dress(i) \/ OwnerLock(i)
    \/ Enforce \/ Restart \/ Disconnect \/ Leave \/ Connect \/ ComeBack

LEMMA SurroundingsType ==
    ASSUME TypeOK, Surroundings
    PROVE  TypeOK'
  <1>1. CASE \E yes \in BOOLEAN : Answer(yes)
    BY <1>1, ThreadsAssumption
       DEF Answer, TypeOK, database, room, timers, threads, locals, bounds
  <1>2. CASE \E i \in Items : Dress(i) \/ OwnerLock(i)
    BY <1>2 DEF Dress, OwnerLock, TypeOK, database, timers, memory, threads, locals,
                bounds, history
  <1>3. CASE Enforce
    <2>1. ownerLocked' \subseteq worn' /\ worn' \subseteq Items
      BY <1>3, TakeOffType DEF Enforce, EnforceAppearance
    <2> QED
      BY <1>3, <2>1 DEF Enforce, TypeOK, database, timers, memory, threads, locals, bounds,
                        history
  <1>0. ASSUME Disturb PROVE disturbances' \in 0..MaxDisturbances
    BY <1>0, BoundsAssumption DEF Disturb, TypeOK
  <1>4. CASE Restart
    <2>1. pc' \in [Threads -> PCs]
      BY <1>4, PCFacts DEF Restart, TypeOK
    <2> QED
      BY <1>0, <1>4, <2>1 DEF Restart, TypeOK, database, history
  <1>5. CASE Disconnect \/ Leave
    BY <1>0, <1>5
       DEF Disconnect, Leave, TypeOK, database, timers, memory, threads, locals, history
  <1>6. CASE Connect \/ ComeBack
    <2>1. \/ UNCHANGED threads
          \/ \E u \in Threads : pc[u] = "idle" /\ Goto(u, "reading")
      BY <1>6 DEF Connect, ComeBack, BeginResume, Threads
    <2>2. /\ pc' \in [Threads -> PCs]
          /\ mine' = mine /\ plan' = plan /\ todo' = todo
      BY <2>1, GotoFacts, PCFacts DEF threads, locals, TypeOK
    <2> QED
      BY <1>6, <2>2 DEF Connect, ComeBack, TypeOK, database, timers, memory, bounds, history
  <1> QED
    BY <1>1, <1>2, <1>3, <1>4, <1>5, <1>6 DEF Surroundings

LEMMA NextType ==
    ASSUME TypeOK, PhaseKnown, [Next]_vars
    PROVE  TypeOK'
  <1>1. CASE UNCHANGED vars
    BY <1>1 DEF TypeOK, vars, database, room, timers, memory, threads, locals, bounds, history
  <1>2. CASE Next
    BY <1>2, RequestType, FinishType, RunType, ErrorType, ResumeType, SurroundingsType
       DEF Next, Surroundings
  <1> QED
    BY <1>1, <1>2

--------------------------------------------------------------------------------
(* The parole flag                                                                *)

(* Most steps leave a thread where it is, or end it, or take another along.       *)
LEMMA PhaseFrame ==
    ASSUME PhaseKnown, CoolIsStripped, stripped \subseteq stripped',
           \A t \in Threads :
               \/ pc'[t] = pc[t] /\ mine'[t] = mine[t]
               \/ pc'[t] \notin RunPCs \cup {"awaiting", "cancelling"}
    PROVE  PhaseKnown' /\ CoolIsStripped'
  BY DEF PhaseKnown, CoolIsStripped, RunPCs

LEMMA ParoleFrame ==
    ASSUME ParoleMeansStripped, stripped \subseteq stripped',
           UNCHANGED database \/ isOnParole' = FALSE
    PROVE  ParoleMeansStripped'
  BY DEF ParoleMeansStripped, database

Parole == PhaseKnown /\ CoolIsStripped /\ ParoleMeansStripped

LEMMA RequestParole ==
    ASSUME TypeOK, Parole, NEW r \in Requests, Request(r) \/ RequestStep(r)
    PROVE  Parole'
  <1>0. r \in Threads /\ stripped' = stripped
    BY DEF Threads, Request, RequestStep, Check, Open, Proceed, Cancel, TimeOut, history
  <1>1. CASE Request(r) \/ Check(r)
    BY <1>0, <1>1, GotoFacts, PCFacts, PhaseFrame, ParoleFrame DEF Request, Check, Parole
  <1>2. CASE Open(r)
    <2>1. /\ mine'[r] = [of |-> r, phase |-> "awaiting_confirmation"] /\ pc'[r] = "awaiting"
          /\ isOnParole' = FALSE
          /\ \A t \in Threads : t # r => pc'[t] = pc[t] /\ mine'[t] = mine[t]
      BY <1>0, <1>2 DEF Open, Persist, TypeOK
    <2>2. ParoleMeansStripped'
      BY <1>0, <2>1, ParoleFrame DEF Parole
    <2>3. ASSUME NEW t \in Threads
          PROVE  /\ pc'[t] \in {"awaiting", "cancelling"}
                        => mine'[t].phase = "awaiting_confirmation"
                 /\ pc'[t] = "arm" => mine'[t].phase = "cooldown"
                 /\ pc'[t] \in RunPCs \ {"arm"} => mine'[t].phase \in ActivePhases \ {"cooldown"}
                 /\ pc'[t] = "cool" => mine'[t].of \in stripped'
      <3>1. CASE t = r
        BY <2>1, <3>1 DEF RunPCs
      <3>2. CASE t # r
        BY <1>0, <2>1, <3>2 DEF Parole, PhaseKnown, CoolIsStripped
      <3> QED
        BY <3>1, <3>2
    <2> QED
      BY <2>2, <2>3 DEF Parole, PhaseKnown, CoolIsStripped
  <1>3. CASE Proceed(r)
    <2>1. \/ pc'[r] = "enter" \/ pc'[r] = "cancelling"
      BY <1>0, <1>3, GotoFacts DEF Proceed, PCs, RunPCs
    <2>2. mine' = mine /\ \A t \in Threads : t # r => pc'[t] = pc[t]
      BY <1>0, <1>3, GotoFacts DEF Proceed, PCs, RunPCs
    <2>3. mine[r].phase = "awaiting_confirmation" /\ UNCHANGED database
      BY <1>0, <1>3 DEF Proceed, Parole, PhaseKnown
    <2> QED
      BY <1>0, <2>1, <2>2, <2>3, ParoleFrame
         DEF Parole, PhaseKnown, CoolIsStripped, RunPCs, ActivePhases
  <1>4. CASE Cancel(r)
    <2>1. mine[r] \in Sessions
      BY <1>0, <1>4, BusyHolds DEF Cancel, Busy, Parole
    <2> QED
      BY <1>0, <1>4, <2>1, FailedFacts, EndFacts, PCFacts, PhaseFrame, ParoleFrame
         DEF Cancel, Parole
  <1>5. CASE TimeOut(r)
    BY <1>0, <1>5, PhaseFrame, ParoleFrame DEF TimeOut, threads, locals, Parole
  <1> QED
    BY <1>1, <1>2, <1>3, <1>4, <1>5 DEF RequestStep

LEMMA FinishParole ==
    ASSUME TypeOK, Parole, NEW s \in Requests, FinishStep(s) \/ FinishError(s)
    PROVE  Parole'
  <1>1. UNCHANGED threads /\ stripped' = stripped
    BY DEF FinishStep, FinishError, TimerFires, FinishRead, FinishWrite, history
  <1>2. UNCHANGED database \/ isOnParole' = FALSE
    BY DEF FinishStep, FinishError, TimerFires, FinishRead, FinishWrite, Persist
  <1> QED
    BY <1>1, <1>2, PhaseFrame, ParoleFrame DEF threads, locals, Parole

(* A thread that stores a phase has that phase at its new place.                  *)
LEMMA AdvanceParole ==
    ASSUME TypeOK, Parole, NEW t \in Threads, Running(t), stripped' = stripped,
           NEW phase \in ActivePhases, NEW where \in RunPCs, Advance(t, phase, where),
           where = "arm" <=> phase = "cooldown", where # "cool",
           phase = "cooldown" => pc[t] = "cool"
    PROVE  Parole'
  <1>1. mine[t] \in Sessions /\ where \in PCs
    BY BusyHolds, PCFacts DEF Busy, Parole
  <1>2. /\ session' = mine'[t] /\ isOnParole' = (phase = "cooldown")
        /\ mine'[t] = [of |-> mine[t].of, phase |-> phase] /\ pc'[t] = where
        /\ \A u \in Threads : u # t => pc'[u] = pc[u] /\ mine'[u] = mine[u]
    BY <1>1, AdvanceFacts
  <1>3. ParoleMeansStripped'
    <2>1. phase = "cooldown" => mine[t].of \in stripped
      BY DEF Parole, CoolIsStripped
    <2>2. session'.phase = phase /\ session'.of = mine[t].of
      BY <1>2
    <2>3. isOnParole' => phase = "cooldown"
      BY <1>2
    <2> QED
      BY <2>1, <2>2, <2>3 DEF ParoleMeansStripped
  <1>4. ASSUME NEW u \in Threads
        PROVE  /\ pc'[u] \in {"awaiting", "cancelling"}
                      => mine'[u].phase = "awaiting_confirmation"
               /\ pc'[u] = "arm" => mine'[u].phase = "cooldown"
               /\ pc'[u] \in RunPCs \ {"arm"} => mine'[u].phase \in ActivePhases \ {"cooldown"}
               /\ pc'[u] = "cool" => mine'[u].of \in stripped'
    <2>1. CASE u = t
      BY <1>2, <2>1, PCFacts
    <2>2. CASE u # t
      BY <1>2, <2>2 DEF Parole, PhaseKnown, CoolIsStripped
    <2> QED
      BY <2>1, <2>2
  <1> QED
    BY <1>3, <1>4 DEF Parole, PhaseKnown, CoolIsStripped

(* A thread may also go to another place of its run, with what it holds.          *)
LEMMA GotoParole ==
    ASSUME TypeOK, Parole, NEW t \in Threads, Running(t), pc[t] # "arm",
           NEW where \in RunPCs \ {"arm"}, Goto(t, where), UNCHANGED database,
           stripped \subseteq stripped', where = "cool" => mine[t].of \in stripped'
    PROVE  Parole'
  <1>1. /\ pc'[t] = where /\ mine' = mine
        /\ \A u \in Threads : u # t => pc'[u] = pc[u]
    BY GotoFacts, PCFacts
  <1>2. mine[t].phase \in ActivePhases \ {"cooldown"}
    BY DEF Parole, PhaseKnown, Running
  <1>3. ASSUME NEW u \in Threads
        PROVE  /\ pc'[u] \in {"awaiting", "cancelling"}
                      => mine'[u].phase = "awaiting_confirmation"
               /\ pc'[u] = "arm" => mine'[u].phase = "cooldown"
               /\ pc'[u] \in RunPCs \ {"arm"} => mine'[u].phase \in ActivePhases \ {"cooldown"}
               /\ pc'[u] = "cool" => mine'[u].of \in stripped'
    <2>1. CASE u = t
      BY <1>1, <1>2, <2>1, PCFacts
    <2>2. CASE u # t
      BY <1>1, <2>2 DEF Parole, PhaseKnown, CoolIsStripped
    <2> QED
      BY <2>1, <2>2
  <1> QED
    BY <1>3, ParoleFrame DEF Parole, PhaseKnown, CoolIsStripped

(* A thread that ends takes nothing with it.                                      *)
LEMMA EndParole ==
    ASSUME TypeOK, Parole, NEW t \in Threads, End(t), stripped' = stripped,
           UNCHANGED database \/ isOnParole' = FALSE
    PROVE  Parole'
  BY EndFacts, PCFacts, PhaseFrame, ParoleFrame DEF Parole

LEMMA RunParole ==
    ASSUME TypeOK, Parole, NEW t \in Threads, RunStep(t)
    PROVE  Parole'
  <1>1. CASE Enter(t) \/ Hold(t) \/ Cool(t)
    BY <1>1, AdvanceParole
       DEF Enter, Hold, Cool, Running, RunPCs, ActivePhases, history
  <1>2. CASE Move(t)
    BY <1>2, GotoParole DEF Move, Running, RunPCs, history
  <1>3. CASE Strip(t)
    BY <1>3, AdvanceParole DEF Strip, Running, RunPCs, ActivePhases
  <1>4. ASSUME NEW i \in Items, Remove(t, i)
        PROVE  Parole'
    <2>1. CASE Goto(t, "fail")
      BY <1>4, <2>1, GotoParole DEF Remove, Running, RunPCs
    <2>2. CASE UNCHANGED <<pc, mine, plan>>
      BY <1>4, <2>2, PhaseFrame, ParoleFrame DEF Remove, Parole
    <2> QED
      BY <1>4, <2>1, <2>2 DEF Remove
  <1>5. CASE Verify(t)
    <2>1. CASE Remaining(t) = {}
      BY <1>5, <2>1, GotoParole DEF Verify, Running, RunPCs, Remaining
    <2>2. CASE Remaining(t) # {}
      BY <1>5, <2>2, GotoParole DEF Verify, Running, RunPCs, Remaining
    <2> QED
      BY <2>1, <2>2
  <1>6. CASE Arm(t)
    BY <1>6, EndParole DEF Arm, history
  <1>7. CASE Fail(t)
    <2>1. mine[t] \in Sessions
      BY <1>7, BusyHolds DEF Fail, Busy, Running, RunPCs, Parole
    <2> QED
      BY <1>7, <2>1, FailedFacts, EndParole DEF Fail, history
  <1> QED
    BY <1>1, <1>2, <1>3, <1>4, <1>5, <1>6, <1>7 DEF RunStep

LEMMA ErrorParole ==
    ASSUME TypeOK, Parole, NEW t \in Threads, Error(t)
    PROVE  Parole'
  <1>1. CASE pc[t] \in {"hold", "strip", "remove", "cool"} /\ Goto(t, "fail")
    BY <1>1, GotoParole DEF Error, Running, RunPCs, history
  <1>2. CASE End(t)
    BY <1>2, EndParole DEF Error, history
  <1> QED
    BY <1>1, <1>2 DEF Error

LEMMA ResumeParole ==
    ASSUME TypeOK, Parole, NEW u \in Resumes, ResumeStep(u)
    PROVE  Parole'
  <1>0. u \in Threads
    BY DEF Threads
  <1>1. CASE ResumeRead(u)
    <2>1. /\ pc'[u] = "decide" /\ stripped' = stripped /\ UNCHANGED database
          /\ \A t \in Threads : t # u => pc'[t] = pc[t] /\ mine'[t] = mine[t]
      BY <1>0, <1>1 DEF ResumeRead, TypeOK, history
    <2> QED
      BY <2>1, PCFacts, PhaseFrame, ParoleFrame DEF Parole
  <1>2. CASE ResumeRun(u)
    <2>1. /\ pc'[u] = "enter" /\ mine' = mine /\ stripped' = stripped /\ UNCHANGED database
          /\ \A t \in Threads : t # u => pc'[t] = pc[t]
      BY <1>0, <1>2, GotoFacts DEF ResumeRun, PCs, RunPCs
    <2>2. mine[u].phase \in ActivePhases \ {"cooldown"}
      BY <1>2 DEF ResumeRun, MayResumeRun
    <2>3. ASSUME NEW t \in Threads
          PROVE  /\ pc'[t] \in {"awaiting", "cancelling"}
                        => mine'[t].phase = "awaiting_confirmation"
                 /\ pc'[t] = "arm" => mine'[t].phase = "cooldown"
                 /\ pc'[t] \in RunPCs \ {"arm"} => mine'[t].phase \in ActivePhases \ {"cooldown"}
                 /\ pc'[t] = "cool" => mine'[t].of \in stripped'
      <3>1. CASE t = u
        BY <2>1, <2>2, <3>1
      <3>2. CASE t # u
        BY <2>1, <3>2 DEF Parole, PhaseKnown, CoolIsStripped
      <3> QED
        BY <3>1, <3>2
    <2> QED
      BY <2>1, <2>3, ParoleFrame DEF Parole, PhaseKnown, CoolIsStripped
  <1>3. CASE ResumeCooldown(u)
    BY <1>0, <1>3, GotoFacts, PCFacts, PhaseFrame, ParoleFrame DEF ResumeCooldown, Parole
  <1>4. CASE ResumeNothing(u) \/ ResumeEnforce(u)
    BY <1>0, <1>4, EndParole DEF ResumeNothing, ResumeEnforce, history
  <1> QED
    BY <1>1, <1>2, <1>3, <1>4 DEF ResumeStep

LEMMA SurroundingsParole ==
    ASSUME TypeOK, Parole, Surroundings
    PROVE  Parole'
  <1>1. UNCHANGED database /\ stripped' = stripped
    BY DEF Surroundings, Answer, Dress, OwnerLock, Enforce, Restart, Disconnect, Leave, Connect,
           ComeBack, history
  <1>2. CASE UNCHANGED threads
    BY <1>1, <1>2, PhaseFrame, ParoleFrame DEF threads, locals, Parole
  <1>3. CASE Restart
    <2>1. \A t \in Threads : pc'[t] \in {"idle", "done"}
      BY <1>3 DEF Restart
    <2> QED
      BY <1>1, <2>1, PCFacts, PhaseFrame, ParoleFrame DEF Parole
  <1>4. ASSUME NEW u \in Threads, pc[u] = "idle", Goto(u, "reading")
        PROVE  Parole'
    BY <1>1, <1>4, GotoFacts, PCFacts, PhaseFrame, ParoleFrame DEF Parole
  <1> QED
    BY <1>2, <1>3, <1>4
       DEF Surroundings, Answer, Dress, OwnerLock, Enforce, Disconnect, Leave, Connect, ComeBack,
           BeginResume, Threads

LEMMA NextParole ==
    ASSUME TypeOK, Parole, [Next]_vars
    PROVE  Parole'
  <1>1. CASE UNCHANGED vars
    BY <1>1, PhaseFrame, ParoleFrame DEF vars, threads, locals, history, database, Parole
  <1>2. CASE Next
    BY <1>2, RequestParole, FinishParole, RunParole, ErrorParole, ResumeParole,
       SurroundingsParole DEF Next, Surroundings
  <1> QED
    BY <1>1, <1>2

--------------------------------------------------------------------------------
(* One run at a time                                                              *)

Cooling(s) == [of |-> s, phase |-> "cooldown"]

(* The stored session is left alone, and no thread becomes busy.                  *)
LEMMA QuietFrame ==
    ASSUME TypeOK, OneAtATime, session' = session,
           \A t \in Threads : \/ pc'[t] = pc[t] /\ mine'[t] = mine[t]
                              \/ ~Busy(t)' /\ (Fresh(t)' => Fresh(t)),
           RunIsActive',
           \A s \in Requests : Past(s)' => Past(s) \/ session = Cooling(s),
           \A s \in Requests :
               finishing'[s] # "idle" => finishing[s] # "idle" \/ \A t \in Threads : ~Running(t)',
           \A s \in Requests :
               finishing'[s] = "write" => finishing[s] = "write" \/ session = Cooling(s)
    PROVE  OneAtATime'
  <1>1. \A t \in Threads : Busy(t)' => Busy(t) /\ pc'[t] = pc[t] /\ mine'[t] = mine[t]
    BY DEF Busy, Running
  <1>2. \A t \in Threads : Running(t)' => Running(t) /\ Busy(t)'
    BY <1>1 DEF Busy, Running
  <1>3. \A r \in Requests : Fresh(r)' => Fresh(r)
    BY DEF Fresh, Threads
  <1>4. BusyOwns' /\ OneBusy'
    BY <1>1 DEF OneAtATime, BusyOwns, OneBusy
  <1>5. FreshUnknown'
    BY <1>3 DEF OneAtATime, FreshUnknown
  <1>6. PastStays'
    <2> SUFFICES ASSUME NEW s \in Requests, Past(s)'
                 PROVE  ~Fresh(s)' /\ (session.of = s => session.phase \in {"cooldown", "completed"})
      BY DEF PastStays
    <2>1. CASE Past(s)
      BY <1>3, <2>1 DEF OneAtATime, PastStays
    <2>2. CASE session = Cooling(s)
      BY <1>3, <2>2 DEF OneAtATime, FreshUnknown, Cooling
    <2> QED
      BY <2>1, <2>2
  <1>7. FinishAlone'
    BY <1>1, <1>2 DEF OneAtATime, FinishAlone
  <1>8. WriteKnows'
    BY DEF OneAtATime, WriteKnows, Cooling
  <1> QED
    BY <1>4, <1>5, <1>6, <1>7, <1>8 DEF OneAtATime

(* A session that a thread works on, short of its cooldown, is not past it.       *)
LEMMA BusyNotPast ==
    ASSUME TypeOK, PhaseKnown, OneAtATime, NEW t \in Threads, Busy(t), pc[t] # "arm"
    PROVE  /\ session = mine[t] /\ session.phase \in ActivePhases \ {"cooldown"}
           /\ session \in Sessions /\ session.of \in Requests
           /\ ~Past(session.of)
           /\ \A s \in Requests : finishing[s] # "write"
  <1>1. session = mine[t] /\ session \in Sessions /\ session.of \in Requests
    BY BusyHolds DEF OneAtATime, BusyOwns
  <1>2. session.phase \in ActivePhases \ {"cooldown"}
    BY <1>1 DEF PhaseKnown, Busy, Running, ActivePhases
  <1>3. ~Past(session.of)
    BY <1>1, <1>2 DEF OneAtATime, PastStays, ActivePhases
  <1>4. \A s \in Requests : finishing[s] # "write"
    BY <1>2 DEF OneAtATime, WriteKnows
  <1> QED
    BY <1>1, <1>2, <1>3, <1>4

(* The busy thread goes on, or ends, with its session or a later phase of it.     *)
LEMMA BusyFrame ==
    ASSUME TypeOK, PhaseKnown, OneAtATime, NEW t \in Threads, Busy(t), pc[t] # "arm",
           session'.of = session.of,
           Busy(t)' => mine'[t] = session', pc'[t] \notin {"idle", "checking", "opening", "decide"},
           \A u \in Threads : u # t => pc'[u] = pc[u] /\ mine'[u] = mine[u],
           RunIsActive', armed' = armed, finishing' = finishing
    PROVE  OneAtATime'
  <1>1. /\ session = mine[t] /\ ~Past(session.of)
        /\ \A s \in Requests : finishing[s] # "write"
    BY BusyNotPast
  <1>2. \A u \in Threads : u # t => ~Busy(u)
    BY DEF OneAtATime, OneBusy
  <1>3. \A u \in Threads : Busy(u)' => u = t
    BY <1>2 DEF Busy, Running
  <1>4. BusyOwns' /\ OneBusy'
    BY <1>3 DEF BusyOwns, OneBusy
  <1>5. \A s \in Requests : Past(s)' => Past(s)
    BY DEF Past
  <1>6. \A r \in Requests : Fresh(r)' => Fresh(r)
    BY DEF Fresh, Threads
  <1>7. PastStays'
    BY <1>1, <1>5, <1>6 DEF OneAtATime, PastStays
  <1>8. FreshUnknown'
    BY <1>6 DEF OneAtATime, FreshUnknown
  <1>9. FinishAlone'
    <2> SUFFICES ASSUME NEW s \in Requests, finishing[s] # "idle",
                        NEW u \in Threads, Running(u)'
                 PROVE  mine'[u].of # s
      BY DEF FinishAlone
    <2>1. u = t /\ Busy(t)'
      BY <1>3 DEF Busy
    <2>2. mine'[u].of = session.of
      BY <2>1
    <2> QED
      BY <1>1, <2>2 DEF Past
  <1>10. WriteKnows'
    BY <1>1 DEF WriteKnows
  <1> QED
    BY <1>4, <1>7, <1>8, <1>9, <1>10 DEF OneAtATime

Safe == TypeOK /\ PhaseKnown /\ OneAtATime

LEMMA RequestOne ==
    ASSUME Safe, NEW r \in Requests, Request(r) \/ RequestStep(r), ~irregular'
    PROVE  OneAtATime'
  <1>0. r \in Threads
    BY DEF Threads
  <1>1. CASE Request(r) \/ Check(r)
    <2>1. /\ pc'[r] \in {"done", "checking", "opening"} /\ mine' = mine
          /\ Fresh(r)' => Fresh(r)
          /\ \A t \in Threads : t # r => pc'[t] = pc[t]
      BY <1>0, <1>1, GotoFacts, PCFacts DEF Request, Check, Fresh, Safe
    <2>2. UNCHANGED <<database, timers, memory>>
      BY <1>1 DEF Request, Check
    <2>3. ~Busy(r)'
      BY <2>1 DEF Busy, Running, RunPCs
    <2>4. RunIsActive'
      BY <2>1, <2>2, <2>3 DEF Safe, OneAtATime, RunIsActive, Busy, Running, memory
    <2>5. \A s \in Requests : Past(s)' => Past(s)
      BY <1>0, <2>1, <2>2 DEF Past, timers
    <2> QED
      BY <2>1, <2>2, <2>3, <2>4, <2>5, QuietFrame DEF Safe, database, timers
  <1>2. CASE Open(r)
    <2>1. session.phase \notin ActivePhases /\ Fresh(r)
      BY <1>2 DEF Open, Fresh
    <2>2. /\ session' = [of |-> r, phase |-> "awaiting_confirmation"] /\ mine'[r] = session'
          /\ pc'[r] = "awaiting"
          /\ \A t \in Threads : t # r => pc'[t] = pc[t] /\ mine'[t] = mine[t]
          /\ armed' = armed /\ finishing' = finishing /\ active' = active
      BY <1>0, <1>2 DEF Open, Persist, Safe, TypeOK, timers
    <2>3. \A t \in Threads : ~Busy(t)
      BY <2>1, BusyHolds DEF Safe, OneAtATime, BusyOwns
    <2>4. \A t \in Threads : (Busy(t)' => t = r) /\ ~Running(t)'
      BY <2>2, <2>3 DEF Busy, Running, RunPCs
    <2>5. BusyOwns' /\ OneBusy' /\ RunIsActive' /\ FinishAlone'
      BY <2>2, <2>4 DEF BusyOwns, OneBusy, RunIsActive, FinishAlone
    <2>6. \A s \in Requests : (Past(s)' => Past(s)) /\ (Fresh(s)' => Fresh(s) /\ s # r)
      BY <1>0, <2>2 DEF Past, Fresh, Threads
    <2>7. ~Past(r)
      BY <2>1 DEF Safe, OneAtATime, PastStays
    <2>8. PastStays' /\ FreshUnknown'
      BY <2>2, <2>6, <2>7 DEF Safe, OneAtATime, PastStays, FreshUnknown
    <2>9. WriteKnows'
      BY <2>1, <2>2 DEF Safe, OneAtATime, WriteKnows, ActivePhases
    <2> QED
      BY <2>5, <2>8, <2>9 DEF OneAtATime
  <1>3. CASE Proceed(r)
    <2>1. /\ Busy(r) /\ pc[r] # "arm" /\ session' = session
          /\ armed' = armed /\ finishing' = finishing
      BY <1>3 DEF Proceed, Busy, database, timers
    <2>2. /\ pc'[r] = IF answer[r] = "yes" THEN "enter" ELSE "cancelling"
          /\ mine' = mine
          /\ \A t \in Threads : t # r => pc'[t] = pc[t]
      BY <1>0, <1>3, GotoFacts DEF Proceed, PCs, RunPCs, Safe
    <2>3. session = mine[r]
      BY <1>0, <2>1 DEF Safe, OneAtATime, BusyOwns
    <2>4. RunIsActive'
      BY <1>3, <2>2 DEF Proceed, Safe, OneAtATime, RunIsActive, Running, RunPCs
    <2> QED
      BY <1>0, <2>1, <2>2, <2>3, <2>4, BusyFrame DEF Safe
  <1>4. CASE Cancel(r)
    <2>1. /\ Busy(r) /\ pc[r] # "arm" /\ armed' = armed /\ finishing' = finishing
          /\ active' = active
      BY <1>4 DEF Cancel, Busy, timers, memory
    <2>2. session = mine[r] /\ mine[r] \in Sessions
      BY <1>0, <2>1, BusyHolds DEF Safe, OneAtATime, BusyOwns
    <2>3. session'.of = session.of
      <3>1. session' = [of |-> mine[r].of, phase |-> "failed"]
        BY <1>0, <1>4, <2>2, FailedFacts DEF Cancel
      <3> QED
        BY <2>2, <3>1
    <2>4. /\ pc'[r] = "done"
          /\ \A t \in Threads : t # r => pc'[t] = pc[t] /\ mine'[t] = mine[t]
      BY <1>0, <1>4, EndFacts DEF Cancel, Safe
    <2>5. RunIsActive' /\ ~Busy(r)'
      BY <2>1, <2>4 DEF Safe, OneAtATime, RunIsActive, Running, RunPCs, Busy
    <2> QED
      BY <1>0, <2>1, <2>3, <2>4, <2>5, BusyFrame DEF Safe
  <1>5. CASE TimeOut(r)
    <2>1. UNCHANGED <<database, timers, active, threads>>
      BY <1>5 DEF TimeOut
    <2>2. RunIsActive' /\ \A s \in Requests : Past(s)' => Past(s)
      BY <2>1 DEF Safe, OneAtATime, RunIsActive, Running, Past, threads, locals, timers
    <2> QED
      BY <2>1, <2>2, QuietFrame DEF Safe, database, timers, threads, locals
  <1> QED
    BY <1>1, <1>2, <1>3, <1>4, <1>5 DEF RequestStep

LEMMA FinishOne ==
    ASSUME Safe, NEW s \in Requests, FinishStep(s) \/ FinishError(s)
    PROVE  OneAtATime'
  <1>0. UNCHANGED <<threads, memory>>
    BY DEF FinishStep, FinishError, TimerFires, FinishRead, FinishWrite
  <1>1. /\ RunIsActive' /\ \A t \in Threads : (Running(t)' <=> Running(t)) /\ (Busy(t)' <=> Busy(t))
        /\ \A r \in Requests : Fresh(r)' <=> Fresh(r)
    BY <1>0 DEF Safe, OneAtATime, RunIsActive, Running, Busy, Fresh, threads, memory
  <1>2. CASE TimerFires(s) \/ FinishRead(s) \/ FinishError(s)
    <2>1. /\ session' = session
          /\ \A q \in Requests : q # s => finishing'[q] = finishing[q]
          /\ armed' \subseteq armed
      BY <1>2 DEF TimerFires, FinishRead, FinishError, database, Safe, TypeOK
    <2>2. /\ finishing'[s] # "idle" => finishing[s] # "idle" \/ \A t \in Threads : ~Running(t)
          /\ finishing'[s] # "idle" => s \in armed \/ finishing[s] # "idle"
          /\ finishing'[s] = "write" => session = Cooling(s)
      BY <1>2 DEF TimerFires, FinishRead, FinishError, Safe, TypeOK, Cooling
    <2>3. \A q \in Requests : Past(q)' => Past(q)
      BY <1>0, <2>1, <2>2 DEF Past, threads, locals
    <2> QED
      BY <1>0, <1>1, <2>1, <2>2, <2>3, QuietFrame DEF Safe, threads, locals
  <1>3. CASE FinishWrite(s)
    <2>1. session = [of |-> s, phase |-> "cooldown"] /\ finishing[s] = "write"
      BY <1>3 DEF FinishWrite, Safe, OneAtATime, WriteKnows
    <2>2. /\ session' = [of |-> s, phase |-> "completed"] /\ armed' = armed
          /\ finishing' = [finishing EXCEPT ![s] = "idle"]
      BY <1>3 DEF FinishWrite, Persist
    <2>3. \A t \in Threads : ~Busy(t)
      <3> SUFFICES ASSUME NEW t \in Threads, Busy(t) PROVE FALSE
        OBVIOUS
      <3>1. mine[t] = session
        BY DEF Safe, OneAtATime, BusyOwns
      <3>2. pc[t] = "arm"
        BY <2>1, BusyNotPast DEF Safe
      <3> QED
        BY <2>1, <3>1, <3>2 DEF Safe, OneAtATime, FinishAlone, Running, RunPCs
    <2>4. BusyOwns' /\ OneBusy' /\ FinishAlone'
      BY <1>1, <2>3 DEF BusyOwns, OneBusy, FinishAlone, Busy
    <2>5. \A q \in Requests : Past(q)' => Past(q)
      BY <1>0, <2>2 DEF Past, threads, locals, Safe, TypeOK
    <2>6. PastStays' /\ FreshUnknown'
      BY <1>1, <2>1, <2>2, <2>5 DEF Safe, OneAtATime, PastStays, FreshUnknown
    <2>7. WriteKnows'
      <3> SUFFICES ASSUME NEW q \in Requests, finishing'[q] = "write" PROVE FALSE
        BY DEF WriteKnows
      <3>1. q # s /\ finishing[q] = "write"
        BY <2>2 DEF Safe, TypeOK
      <3>2. session = [of |-> q, phase |-> "cooldown"]
        BY <3>1 DEF Safe, OneAtATime, WriteKnows
      <3>3. session.of = q /\ session.of = s
        BY <2>1, <3>2
      <3> QED
        BY <3>1, <3>3
    <2> QED
      BY <1>1, <2>4, <2>6, <2>7 DEF OneAtATime
  <1> QED
    BY <1>2, <1>3 DEF FinishStep

(* A thread stores a phase of its session and goes on.                            *)
LEMMA AdvanceOne ==
    ASSUME Safe, NEW t \in Threads, Running(t), pc[t] # "arm",
           NEW phase \in ActivePhases, NEW where \in RunPCs, Advance(t, phase, where),
           UNCHANGED <<timers, memory>>
    PROVE  OneAtATime'
  <1>1. Busy(t) /\ mine[t] \in Sessions /\ where \in PCs
    BY BusyHolds, PCFacts DEF Busy, Safe
  <1>2. session = mine[t]
    BY <1>1 DEF Safe, OneAtATime, BusyOwns
  <1>3. /\ session' = [of |-> mine[t].of, phase |-> phase] /\ mine'[t] = session'
        /\ pc'[t] = where
        /\ \A u \in Threads : u # t => pc'[u] = pc[u] /\ mine'[u] = mine[u]
    BY <1>1, AdvanceFacts DEF Safe
  <1>4. session'.of = session.of
    BY <1>2, <1>3
  <1>5. pc'[t] \notin {"idle", "checking", "opening", "decide"}
    BY <1>3, PCFacts
  <1>6. active' = active /\ armed' = armed /\ finishing' = finishing
    BY DEF memory, timers
  <1>7. RunIsActive'
    BY <1>3, <1>6 DEF Safe, OneAtATime, RunIsActive, Running
  <1> QED
    BY <1>1, <1>3, <1>4, <1>5, <1>6, <1>7, BusyFrame DEF Safe

(* A thread goes to another place of its run.                                     *)
LEMMA GotoOne ==
    ASSUME Safe, NEW t \in Threads, Running(t), pc[t] # "arm",
           NEW where \in RunPCs, Goto(t, where), UNCHANGED <<database, timers, memory>>
    PROVE  OneAtATime'
  <1>1. /\ pc'[t] = where /\ mine' = mine
        /\ \A u \in Threads : u # t => pc'[u] = pc[u]
    BY GotoFacts, PCFacts DEF Safe
  <1>2. Busy(t) /\ session = mine[t]
    BY DEF Busy, Safe, OneAtATime, BusyOwns
  <1>3. /\ session' = session /\ active' = active
        /\ armed' = armed /\ finishing' = finishing
    BY DEF database, memory, timers
  <1>4. pc'[t] \notin {"idle", "checking", "opening", "decide"}
    BY <1>1, PCFacts
  <1>5. RunIsActive'
    BY <1>1, <1>3 DEF Safe, OneAtATime, RunIsActive, Running
  <1> QED
    BY <1>1, <1>2, <1>3, <1>4, <1>5, BusyFrame DEF Safe

(* A thread ends and leaves the stored session as it is; a run is no longer       *)
(* active then.                                                                   *)
LEMMA EndOne ==
    ASSUME Safe, NEW t \in Threads, End(t), session' = session, finishing' = finishing,
           \A s \in Requests : s \in armed' => s \in armed \/ session = Cooling(s),
           active' = active \/ Running(t)
    PROVE  OneAtATime'
  <1>1. /\ pc'[t] = "done"
        /\ \A u \in Threads : u # t => pc'[u] = pc[u] /\ mine'[u] = mine[u]
    BY EndFacts DEF Safe
  <1>2. ~Busy(t)' /\ ~Fresh(t)'
    BY <1>1 DEF Busy, Running, Fresh, RunPCs
  <1>3. RunIsActive'
    <2> SUFFICES ASSUME NEW u \in Threads, Running(u)' PROVE active'
      BY DEF RunIsActive
    <2>1. u # t /\ Running(u)
      BY <1>1, <1>2 DEF Busy, Running
    <2>2. ~Running(t)
      BY <2>1 DEF Safe, OneAtATime, OneBusy, Busy
    <2> QED
      BY <2>1, <2>2 DEF Safe, OneAtATime, RunIsActive
  <1>4. \A s \in Requests : Past(s)' => Past(s) \/ session = Cooling(s)
    BY <1>1 DEF Past
  <1> QED
    BY <1>1, <1>2, <1>3, <1>4, QuietFrame DEF Safe

LEMMA RunOne ==
    ASSUME Safe, NEW t \in Threads, RunStep(t)
    PROVE  OneAtATime'
  <1>1. CASE Enter(t) \/ Hold(t) \/ Cool(t)
    BY <1>1, AdvanceOne
       DEF Enter, Hold, Cool, Running, RunPCs, ActivePhases
  <1>2. CASE Move(t)
    BY <1>2, GotoOne DEF Move, Running, RunPCs
  <1>3. CASE Strip(t)
    BY <1>3, AdvanceOne DEF Strip, Running, RunPCs, ActivePhases
  <1>4. ASSUME NEW i \in Items, Remove(t, i)
        PROVE  OneAtATime'
    <2>1. CASE Goto(t, "fail")
      BY <1>4, <2>1, GotoOne DEF Remove, Running, RunPCs
    <2>2. CASE UNCHANGED <<pc, mine, plan>>
      <3>1. UNCHANGED <<database, timers, memory>>
        BY <1>4 DEF Remove
      <3>2. RunIsActive' /\ \A s \in Requests : Past(s)' => Past(s)
        BY <2>2, <3>1 DEF Safe, OneAtATime, RunIsActive, Running, Past, memory, timers
      <3> QED
        BY <2>2, <3>1, <3>2, QuietFrame DEF Safe, database, timers
    <2> QED
      BY <1>4, <2>1, <2>2 DEF Remove
  <1>5. CASE Verify(t)
    <2>1. CASE Remaining(t) = {}
      BY <1>5, <2>1, GotoOne DEF Verify, Running, RunPCs
    <2>2. CASE Remaining(t) # {}
      BY <1>5, <2>2, GotoOne DEF Verify, Running, RunPCs
    <2> QED
      BY <2>1, <2>2
  <1>6. CASE Arm(t)
    <2>1. Running(t) /\ session = mine[t] /\ mine[t] \in Sessions
      BY <1>6, BusyHolds DEF Arm, Running, RunPCs, Busy, Safe, OneAtATime, BusyOwns
    <2>2. mine[t].phase = "cooldown"
      BY <1>6 DEF Arm, Safe, PhaseKnown
    <2>3. session = Cooling(mine[t].of)
      BY <2>1, <2>2 DEF Cooling, Sessions
    <2>4. \A s \in Requests : s \in armed' => s \in armed \/ session = Cooling(s)
      BY <1>6, <2>3 DEF Arm, ScheduleCooldown
    <2>5. End(t) /\ session' = session /\ finishing' = finishing
      BY <1>6 DEF Arm, ScheduleCooldown, database
    <2> QED
      BY <2>1, <2>4, <2>5, EndOne
  <1>7. CASE Fail(t)
    <2>1. Busy(t) /\ Running(t) /\ pc[t] # "arm"
      BY <1>7 DEF Fail, Busy, Running, RunPCs
    <2>2. session = mine[t] /\ mine[t] \in Sessions
      BY <2>1, BusyHolds DEF Safe, OneAtATime, BusyOwns
    <2>3. session'.of = session.of
      <3>1. session' = [of |-> mine[t].of, phase |-> "failed"]
        BY <1>7, <2>2, FailedFacts DEF Fail
      <3> QED
        BY <2>2, <3>1
    <2>4. /\ pc'[t] = "done"
          /\ \A u \in Threads : u # t => pc'[u] = pc[u] /\ mine'[u] = mine[u]
      BY <1>7, EndFacts DEF Fail, Safe
    <2>5. armed' = armed /\ finishing' = finishing
      BY <1>7 DEF Fail, timers
    <2>6. ~Busy(t)' /\ \A u \in Threads : ~Running(u)'
      BY <2>1, <2>4 DEF Safe, OneAtATime, OneBusy, Busy, Running, RunPCs
    <2> QED
      BY <2>1, <2>3, <2>4, <2>5, <2>6, BusyFrame DEF Safe, RunIsActive
  <1> QED
    BY <1>1, <1>2, <1>3, <1>4, <1>5, <1>6, <1>7 DEF RunStep

LEMMA ErrorOne ==
    ASSUME Safe, NEW t \in Threads, Error(t)
    PROVE  OneAtATime'
  <1>0. UNCHANGED <<database, timers>>
    BY DEF Error
  <1>1. CASE /\ pc[t] \in {"hold", "strip", "remove", "cool"} /\ Goto(t, "fail")
             /\ UNCHANGED memory
    BY <1>0, <1>1, GotoOne DEF Running, RunPCs
  <1>2. CASE pc[t] \in {"enter", "fail"} /\ End(t)
    BY <1>0, <1>2, EndOne DEF Running, RunPCs, database, timers
  <1>3. CASE End(t) /\ UNCHANGED memory
    BY <1>0, <1>3, EndOne DEF database, timers, memory
  <1> QED
    BY <1>1, <1>2, <1>3 DEF Error

LEMMA ResumeOne ==
    ASSUME Safe, NEW u \in Resumes, ResumeStep(u), ~irregular'
    PROVE  OneAtATime'
  <1>0. u \in Threads /\ u \notin Requests
    BY ThreadsAssumption DEF Threads
  <1>1. CASE ResumeRead(u)
    <2>1. /\ pc'[u] = "decide" /\ mine'[u] = session
          /\ UNCHANGED <<database, timers, memory>>
          /\ \A t \in Threads : t # u => pc'[t] = pc[t] /\ mine'[t] = mine[t]
      BY <1>0, <1>1 DEF ResumeRead, Safe, TypeOK
    <2>2. ~Busy(u)' /\ ~Fresh(u)'
      BY <2>1 DEF Busy, Running, Fresh, RunPCs
    <2>3. RunIsActive'
      BY <2>1, <2>2 DEF Safe, OneAtATime, RunIsActive, Running, Busy, memory
    <2>4. \A s \in Requests : Past(s)' => Past(s) \/ session = Cooling(s)
      BY <2>1 DEF Past, timers, Cooling
    <2> QED
      BY <2>1, <2>2, <2>3, <2>4, QuietFrame DEF Safe, database, timers
  <1>2. CASE ResumeRun(u)
    <2>1. /\ mine[u] = session /\ session.phase \in ContainedPhases /\ ~active
          /\ pc[u] = "decide"
      BY <1>2 DEF ResumeRun, MayResumeRun, ContainedPhases
    <2>2. /\ pc'[u] = "enter" /\ mine' = mine /\ active'
          /\ UNCHANGED <<database, timers>>
          /\ \A t \in Threads : t # u => pc'[t] = pc[t]
      BY <1>0, <1>2, GotoFacts DEF ResumeRun, PCs, RunPCs, Safe
    <2>3. \A t \in Threads : ~Busy(t)
      <3> SUFFICES ASSUME NEW t \in Threads, Busy(t) PROVE FALSE
        OBVIOUS
      <3>1. ~Running(t)
        BY <2>1 DEF Safe, OneAtATime, RunIsActive
      <3>2. session.phase = "awaiting_confirmation"
        BY <3>1 DEF Busy, Safe, OneAtATime, BusyOwns, PhaseKnown
      <3> QED
        BY <2>1, <3>2 DEF ContainedPhases
    <2>4. \A t \in Threads : Busy(t)' => t = u
      BY <2>2, <2>3 DEF Busy, Running
    <2>5. BusyOwns' /\ OneBusy' /\ RunIsActive'
      BY <2>1, <2>2, <2>4 DEF BusyOwns, OneBusy, RunIsActive, database
    <2>6. \A s \in Requests : (Past(s)' => Past(s)) /\ (Fresh(s)' => Fresh(s))
      BY <1>0, <2>2 DEF Past, Fresh, timers, Threads
    <2>7. PastStays' /\ FreshUnknown' /\ WriteKnows'
      BY <2>2, <2>6 DEF Safe, OneAtATime, PastStays, FreshUnknown, WriteKnows, database, timers
    <2>8. FinishAlone'
      <3> SUFFICES ASSUME NEW s \in Requests, finishing'[s] # "idle",
                          NEW t \in Threads, Running(t)', mine'[t].of = s
                   PROVE  FALSE
        BY DEF FinishAlone
      <3>1. session.of = s /\ Past(s)
        BY <2>1, <2>2, <2>4 DEF Busy, Past, timers
      <3> QED
        BY <2>1, <3>1 DEF Safe, OneAtATime, PastStays, ContainedPhases, ActivePhases
    <2> QED
      BY <2>5, <2>7, <2>8 DEF OneAtATime
  <1>3. CASE ResumeCooldown(u)
    <2>1. pc[u] = "decide" /\ mine[u].phase = "cooldown" /\ mine[u] \in Sessions
      BY <1>0, <1>3, HoldsSession DEF ResumeCooldown, ActivePhases, Safe
    <2>2. /\ pc'[u] = "enforce" /\ mine' = mine
          /\ UNCHANGED <<database, memory>> /\ finishing' = finishing
          /\ armed' \subseteq armed \cup {mine[u].of}
          /\ \A t \in Threads : t # u => pc'[t] = pc[t]
      BY <1>0, <1>3, GotoFacts, PCFacts DEF ResumeCooldown, RearmCooldown, ScheduleCooldown, Safe
    <2>3. ~Busy(u)' /\ ~Fresh(u)'
      BY <2>2 DEF Busy, Running, Fresh, RunPCs
    <2>4. RunIsActive'
      BY <2>2, <2>3 DEF Safe, OneAtATime, RunIsActive, Running, Busy, memory
    <2>5. mine[u] = Cooling(mine[u].of)
      BY <2>1 DEF Sessions, Cooling
    <2>6. Past(mine[u].of)
      BY <1>0, <2>1, <2>5 DEF Past, Cooling
    <2>7. \A s \in Requests : Past(s)' => Past(s)
      BY <2>2, <2>6 DEF Past
    <2> QED
      BY <2>2, <2>3, <2>4, <2>7, QuietFrame DEF Safe, database
  <1>4. CASE ResumeNothing(u) \/ ResumeEnforce(u)
    BY <1>0, <1>4, EndOne DEF ResumeNothing, ResumeEnforce, database, timers, memory
  <1> QED
    BY <1>1, <1>2, <1>3, <1>4 DEF ResumeStep

LEMMA SurroundingsOne ==
    ASSUME Safe, Surroundings
    PROVE  OneAtATime'
  <1>1. CASE Restart
    <2>1. /\ UNCHANGED database /\ armed' = {}
          /\ finishing' = [r \in Requests |-> "idle"]
          /\ \A t \in Threads : /\ pc'[t] \in {"idle", "done"}
                                /\ pc'[t] = "idle" => pc[t] = "idle"
      BY <1>1 DEF Restart
    <2>2. \A t \in Threads : ~Busy(t)' /\ ~Running(t)' /\ (Fresh(t)' => Fresh(t))
      BY <2>1 DEF Busy, Running, Fresh, RunPCs
    <2>3. RunIsActive' /\ \A s \in Requests : ~Past(s)'
      BY <2>1, <2>2 DEF RunIsActive, Past
    <2> QED
      BY <2>1, <2>2, <2>3, QuietFrame DEF Safe, database
  <1>2. ASSUME UNCHANGED <<database, timers, active>>, NEW u \in Threads, pc[u] = "idle",
               Goto(u, "reading")
        PROVE  OneAtATime'
    <2>1. /\ pc'[u] = "reading" /\ mine' = mine
          /\ \A t \in Threads : t # u => pc'[t] = pc[t]
      BY <1>2, GotoFacts, PCFacts DEF Safe
    <2>2. ~Busy(u)' /\ ~Fresh(u)'
      BY <2>1 DEF Busy, Running, Fresh, RunPCs
    <2>3. RunIsActive'
      BY <1>2, <2>1, <2>2 DEF Safe, OneAtATime, RunIsActive, Running, Busy
    <2>4. \A s \in Requests : Past(s)' => Past(s)
      BY <1>2, <2>1 DEF Past, timers
    <2> QED
      BY <1>2, <2>1, <2>2, <2>3, <2>4, QuietFrame DEF Safe, database, timers
  <1>3. CASE UNCHANGED <<database, timers, active, threads>>
    <2>1. RunIsActive' /\ \A s \in Requests : Past(s)' => Past(s)
      BY <1>3 DEF Safe, OneAtATime, RunIsActive, Running, Past, threads, locals, timers
    <2> QED
      BY <1>3, <2>1, QuietFrame DEF Safe, database, timers, threads, locals
  <1> QED
    BY <1>1, <1>2, <1>3
       DEF Surroundings, Answer, Dress, OwnerLock, Enforce, Disconnect, Leave, Connect, ComeBack,
           BeginResume, Threads, memory

LEMMA NextOne ==
    ASSUME Safe, [Next]_vars, ~irregular'
    PROVE  OneAtATime'
  <1>1. CASE UNCHANGED vars
    <2>1. RunIsActive' /\ \A s \in Requests : Past(s)' => Past(s)
      BY <1>1 DEF Safe, OneAtATime, RunIsActive, Running, Past, vars, threads, locals, timers, memory
    <2> QED
      BY <1>1, <2>1, QuietFrame DEF Safe, vars, database, timers, threads, locals
  <1>2. CASE Next
    BY <1>2, RequestOne, FinishOne, RunOne, ErrorOne, ResumeOne, SurroundingsOne
       DEF Next, Surroundings
  <1> QED
    BY <1>1, <1>2

--------------------------------------------------------------------------------
(* What an owner locked                                                           *)

LEMMA SparedFrame ==
    ASSUME SparedKept, robbed' = robbed, spared' = spared, ownerLocked \subseteq ownerLocked',
           \A t \in Threads : pc'[t] = "remove" => pc[t] = "remove" /\ todo'[t] \subseteq todo[t]
    PROVE  SparedKept'
  BY DEF SparedKept

(* No clothing is among what owners lock.                                         *)
LEMMA EnforceSpared ==
    ASSUME TypeOK, SparedKept, EnforceAppearance
    PROVE  spared \subseteq ownerLocked'
  BY ItemsAssumption DEF TypeOK, SparedKept, EnforceAppearance, TakeOff, LocksWithout

(* Steps that neither plan a strip nor take anything off.                         *)
LEMMA GotoSpared ==
    ASSUME TypeOK, SparedKept, NEW t \in Threads, NEW where, where # "remove",
           robbed' = robbed, spared' = spared, ownerLocked' = ownerLocked, Goto(t, where)
    PROVE  SparedKept'
  BY SparedFrame DEF TypeOK, Goto, locals

LEMMA EndSpared ==
    ASSUME TypeOK, SparedKept, NEW t \in Threads,
           robbed' = robbed, spared' = spared, ownerLocked' = ownerLocked, End(t)
    PROVE  SparedKept'
  <1>1. \A u \in Threads : pc'[u] = "remove" => pc[u] = "remove" /\ todo'[u] \subseteq todo[u]
    BY EndFacts
  <1> QED
    BY <1>1, SparedFrame

LEMMA StepSpared ==
    ASSUME TypeOK, SparedKept, NEW t \in Threads, NEW where, where # "remove",
           robbed' = robbed, spared' = spared, ownerLocked' = ownerLocked, todo' = todo,
           pc' = [pc EXCEPT ![t] = where]
    PROVE  SparedKept'
  BY SparedFrame DEF TypeOK

LEMMA StripSpared ==
    ASSUME TypeOK, OneAtATime, SparedKept, NEW t \in Threads, Strip(t)
    PROVE  SparedKept'
  <1>1. /\ todo' = [todo EXCEPT ![t] = worn \ (ownerLocked \cap Binds)]
        /\ spared' = spared \cup (ownerLocked \cap Binds)
        /\ robbed' = robbed /\ ownerLocked' = ownerLocked
        /\ pc' = [pc EXCEPT ![t] = "remove"]
    BY DEF Strip, Removals, Advance, room
  <1>2. \A u \in Threads : u # t => ~Running(u)
    BY DEF OneAtATime, OneBusy, Busy, Running, RunPCs, Strip
  <1>3. \A u \in Threads : pc'[u] = "remove" => u = t
    BY <1>1, <1>2 DEF Running, RunPCs, TypeOK
  <1>4. todo'[t] \cap spared' = {}
    BY <1>1 DEF TypeOK, SparedKept
  <1> QED
    BY <1>1, <1>3, <1>4 DEF SparedKept

LEMMA RemoveSpared ==
    ASSUME TypeOK, SparedKept, NEW t \in Threads, NEW i \in Items, Remove(t, i)
    PROVE  SparedKept'
  <1>1. i \notin spared
    BY DEF Remove, SparedKept
  <1>2. /\ worn \ worn' \subseteq {i} /\ ownerLocked \ {i} \subseteq ownerLocked'
        /\ spared' = spared
        /\ robbed' = robbed \cup (spared \cap (worn \ worn'))
    BY DEF Remove, TakeOff, LocksWithout
  <1>3. robbed' = {} /\ spared' \subseteq ownerLocked'
    BY <1>1, <1>2 DEF SparedKept
  <1>4. \A u \in Threads : pc'[u] = "remove" => pc[u] = "remove" /\ todo'[u] \subseteq todo[u]
    <2>1. CASE Goto(t, "fail")
      BY <2>1, GotoFacts DEF PCs, RunPCs
    <2>2. CASE todo' = [todo EXCEPT ![t] = @ \ {i}] /\ UNCHANGED pc
      BY <2>2 DEF TypeOK
    <2> QED
      BY <2>1, <2>2 DEF Remove
  <1> QED
    BY <1>2, <1>3, <1>4 DEF SparedKept

LEMMA NextSpared ==
    ASSUME Safe, SparedKept, [Next]_vars
    PROVE  SparedKept'
  <1>1. CASE UNCHANGED <<ownerLocked, robbed, spared, pc, todo>>
    BY <1>1, SparedFrame
  <1>2. ASSUME NEW r \in Requests, Request(r) \/ RequestStep(r)
        PROVE  SparedKept'
    <2>0. r \in Threads /\ UNCHANGED <<ownerLocked, robbed, spared>>
      BY <1>2 DEF Threads, Request, RequestStep, Check, Open, Proceed, Cancel, TimeOut, room, history
    <2>1. CASE TimeOut(r)
      BY <1>1, <2>0, <2>1 DEF TimeOut, threads, locals
    <2>2. CASE Open(r)
      BY <2>0, <2>2, StepSpared DEF Open, Safe
    <2>3. CASE Request(r) \/ Check(r) \/ Proceed(r)
      <3>1. \/ Goto(r, "done") \/ Goto(r, "checking") \/ Goto(r, "opening")
            \/ Goto(r, "enter") \/ Goto(r, "cancelling")
        BY <2>3 DEF Request, Check, Proceed
      <3> QED
        BY <2>0, <3>1, GotoSpared DEF Safe
    <2>4. CASE Cancel(r)
      BY <2>0, <2>4, EndSpared DEF Cancel, Safe
    <2> QED
      BY <1>2, <2>1, <2>2, <2>3, <2>4 DEF RequestStep
  <1>3. ASSUME NEW s \in Requests, FinishStep(s) \/ FinishError(s)
        PROVE  SparedKept'
    BY <1>1, <1>3 DEF FinishStep, FinishError, TimerFires, FinishRead, FinishWrite, room, history,
                      threads, locals
  <1>4. ASSUME NEW t \in Threads, RunStep(t)
        PROVE  SparedKept'
    <2>1. CASE Enter(t) \/ Hold(t) \/ Cool(t)
      BY <2>1, StepSpared DEF Enter, Hold, Cool, Advance, room, history, Safe
    <2>2. CASE Move(t)
      BY <2>2, GotoSpared DEF Move, room, history, Safe
    <2>3. CASE Strip(t)
      BY <2>3, StripSpared DEF Safe
    <2>4. ASSUME NEW i \in Items, Remove(t, i)
          PROVE  SparedKept'
      BY <2>4, RemoveSpared DEF Safe
    <2>5. CASE Verify(t)
      <3>1. Goto(t, "cool") \/ Goto(t, "fail")
        BY <2>5 DEF Verify
      <3> QED
        BY <2>5, <3>1, GotoSpared DEF Verify, room, Safe
    <2>6. CASE Arm(t) \/ Fail(t)
      BY <2>6, EndSpared DEF Arm, Fail, room, history, Safe
    <2> QED
      BY <1>4, <2>1, <2>2, <2>3, <2>4, <2>5, <2>6 DEF RunStep
  <1>5. ASSUME NEW t \in Threads, Error(t)
        PROVE  SparedKept'
    <2>1. Goto(t, "fail") \/ End(t)
      BY <1>5 DEF Error
    <2> QED
      BY <1>5, <2>1, GotoSpared, EndSpared DEF Error, room, history, Safe
  <1>6. ASSUME NEW u \in Resumes, ResumeStep(u)
        PROVE  SparedKept'
    <2>0. u \in Threads
      BY DEF Threads
    <2>1. CASE ResumeRead(u)
      BY <2>0, <2>1, StepSpared DEF ResumeRead, room, history, Safe
    <2>2. CASE ResumeRun(u)
      BY <2>0, <2>2, GotoSpared DEF ResumeRun, room, Safe
    <2>3. CASE ResumeCooldown(u) \/ ResumeNothing(u)
      BY <2>0, <2>3, GotoSpared, EndSpared DEF ResumeCooldown, ResumeNothing, room, history, Safe
    <2>4. CASE ResumeEnforce(u)
      <3>1. spared' \subseteq ownerLocked' /\ robbed' = robbed /\ spared' = spared
        BY <2>4, EnforceSpared DEF ResumeEnforce, history, Safe
      <3>2. \A t \in Threads : pc'[t] = "remove" => pc[t] = "remove" /\ todo'[t] = todo[t]
        BY <2>0, <2>4, EndFacts DEF ResumeEnforce, Safe
      <3> QED
        BY <3>1, <3>2 DEF SparedKept
    <2> QED
      BY <1>6, <2>1, <2>2, <2>3, <2>4 DEF ResumeStep
  <1>7. CASE Surroundings
    <2>1. CASE Enforce
      <3>1. spared' \subseteq ownerLocked' /\ UNCHANGED <<robbed, spared, pc, todo>>
        BY <2>1, EnforceSpared DEF Enforce, history, threads, locals, Safe
      <3> QED
        BY <3>1 DEF SparedKept
    <2>2. CASE Restart
      BY <2>2 DEF Restart, SparedKept, history
    <2>3. CASE \E i \in Items : Dress(i) \/ OwnerLock(i)
      BY <2>3, SparedFrame DEF Dress, OwnerLock, history, threads, locals
    <2>4. CASE (\E yes \in BOOLEAN : Answer(yes)) \/ Disconnect \/ Leave
      BY <1>1, <2>4 DEF Answer, Disconnect, Leave, room, history, threads, locals
    <2>5. CASE Connect \/ ComeBack
      <3>1. UNCHANGED <<ownerLocked, robbed, spared>>
        BY <2>5 DEF Connect, ComeBack, history
      <3>2. UNCHANGED threads \/ \E u \in Threads : Goto(u, "reading")
        BY <2>5 DEF Connect, ComeBack, BeginResume, Threads
      <3> QED
        BY <1>1, <3>1, <3>2, GotoSpared DEF threads, locals, Safe
    <2> QED
      BY <1>7, <2>1, <2>2, <2>3, <2>4, <2>5 DEF Surroundings
  <1> QED
    BY <1>1, <1>2, <1>3, <1>4, <1>5, <1>6, <1>7
       DEF Next, Surroundings, vars, room, history, threads, locals

--------------------------------------------------------------------------------
(* The theorems                                                                   *)

LEMMA InitInvariant == Init => IInv
  <1> SUFFICES ASSUME Init PROVE IInv
    OBVIOUS
  <1>1. TypeOK
    BY InitType
  <1>2. \A t \in Threads : pc[t] = "idle" /\ ~Running(t) /\ ~Busy(t)
    BY DEF Init, Running, Busy, RunPCs
  <1>3. PhaseKnown /\ CoolIsStripped /\ ParoleMeansStripped
    BY <1>2 DEF Init, PhaseKnown, CoolIsStripped, ParoleMeansStripped, RunPCs
  <1>4. \A s \in Requests : ~Past(s)
    BY <1>2 DEF Init, Past
  <1>5. OneAtATime
    BY <1>2, <1>4, ThreadsAssumption
       DEF Init, OneAtATime, BusyOwns, OneBusy, RunIsActive, PastStays, FreshUnknown, FinishAlone,
           WriteKnows, NoSession
  <1>6. SparedKept
    BY <1>2 DEF Init, SparedKept
  <1> QED
    BY <1>1, <1>3, <1>5, <1>6 DEF IInv, Sound

(* What went ahead on a false premise is never forgotten.                         *)
LEMMA IrregularStays ==
    ASSUME TypeOK, [Next]_vars
    PROVE  irregular => irregular'
  <1>1. CASE UNCHANGED irregular
    BY <1>1
  <1>2. ASSUME NEW r \in Requests, Request(r) \/ RequestStep(r) \/ FinishStep(r) \/ FinishError(r)
        PROVE  irregular => irregular'
    BY <1>2 DEF Request, RequestStep, Check, Open, Proceed, Cancel, TimeOut, FinishStep,
                FinishError, TimerFires, FinishRead, FinishWrite, history
  <1>3. ASSUME NEW t \in Threads, RunStep(t) \/ Error(t)
        PROVE  irregular => irregular'
    BY <1>3 DEF RunStep, Error, Enter, Move, Hold, Strip, Verify, Remove, Cool, Arm, Fail, history
  <1>4. ASSUME NEW u \in Resumes, ResumeStep(u)
        PROVE  irregular => irregular'
    BY <1>4 DEF ResumeStep, ResumeRead, ResumeRun, ResumeCooldown, ResumeNothing, ResumeEnforce,
                history
  <1>5. CASE Surroundings
    BY <1>5 DEF Surroundings, Answer, Dress, OwnerLock, Enforce, Restart, Disconnect, Leave,
                Connect, ComeBack, history
  <1> QED
    BY <1>1, <1>2, <1>3, <1>4, <1>5 DEF Next, Surroundings, vars, history

LEMMA NextInvariant == IInv /\ [Next]_vars => IInv'
  <1> SUFFICES ASSUME IInv, [Next]_vars PROVE IInv'
    OBVIOUS
  <1>1. TypeOK' /\ Parole'
    BY NextType, NextParole DEF IInv, Sound, Parole
  <1>2. ASSUME ~irregular' PROVE OneAtATime' /\ SparedKept'
    <2>1. OneAtATime /\ SparedKept
      BY <1>2, IrregularStays DEF IInv, Sound
    <2> QED
      BY <1>2, <2>1, NextOne, NextSpared DEF Safe, IInv, Sound
  <1> QED
    BY <1>1, <1>2 DEF IInv, Sound, Parole

(* The inductive invariant: what every thread of every handler of                 *)
(* releaseWorkflowSystem.ts holds agrees with the place it has got to, and while  *)
(* nothing went ahead on a false premise the stored session is that of the one    *)
(* thread at work.                                                                *)
THEOREM Invariance == Spec => []IInv
  <1>1. Init => IInv
    BY InitInvariant
  <1>2. IInv /\ [Next]_vars => IInv'
    BY NextInvariant
  <1> QED
    BY <1>1, <1>2, PTL DEF Spec

(* Every variable keeps its type: each session that persistSession stores, also   *)
(* one a resume read long ago, is a session some request made.                    *)
THEOREM TypeCorrect == Spec => []TypeOK
  <1>1. IInv => TypeOK
    BY DEF IInv, Sound
  <1> QED
    BY <1>1, Invariance, PTL

(* A character is never put through two runs of runConfirmed at once, for any     *)
(* number of requests, of resumes and of restarts, as long as none of them took   *)
(* up an unconfirmed or outdated session.                                         *)
THEOREM SingleRunThm == Spec => []SingleRun
  <1>1. IInv => SingleRun
    BY DEF IInv, SingleRun, OneAtATime, OneBusy, RunIsActive, Busy
  <1> QED
    BY <1>1, Invariance, PTL

(* The stored parole flag means a session in cooldown whose strip was verified,   *)
(* whatever else the requests and the resumes overwrite.                          *)
THEOREM ParoleThm == Spec => []ParoleMeansStripped
  <1>1. IInv => ParoleMeansStripped
    BY DEF IInv, Sound
  <1> QED
    BY <1>1, Invariance, PTL

(* No removal of a release takes off a restraint that carried an owner lock when  *)
(* a strip was planned, however long the removals take, unless an unconfirmed or  *)
(* outdated session was taken up before (irregular).                              *)
THEOREM OwnerLocksThm == Spec => []OwnerLocksKept
  <1>1. IInv => OwnerLocksKept
    BY DEF IInv, OwnerLocksKept, SparedKept
  <1> QED
    BY <1>1, Invariance, PTL

================================================================================
