--------------------------- MODULE KidnappersSession ---------------------------
(* The persisted session of a kidnappers game: the operations that a session     *)
(* object takes (kidnappersGameSession.ts, dispatchPersisted), the document and  *)
(* the audits they are recorded in (kidnappersGamePersistence.ts), and the       *)
(* objects that are made of the document when the session is recovered           *)
(* (kidnappersGameLifecycleService.ts).                                          *)
(*                                                                               *)
(* What the commands do to the game is in KidnappersGame: here a snapshot is the *)
(* sequence of the operations that were applied, and whether the state machine   *)
(* accepts a command is left open, except that a terminal phase accepts nothing  *)
(* but SHUTDOWN_SESSION.                                                         *)
(* Each awaited database operation is one step, a transaction with its reads,    *)
(* together with the code that runs when it returns.  A command whose key is in  *)
(* flight on the object waits for that operation, and changes nothing.           *)
EXTENDS Naturals, Sequences

CONSTANTS
    Objects,        \* the KidnappersGameSession objects of the session
    Calls,          \* the operations that are queued
    Keys,           \* operation keys (correlation ids)
    EndKeys,        \* those of commands that end the game
    ShutdownKeys,   \* of these, those of SHUTDOWN_SESSION
    None,
    MaxAttempts,    \* the attempts executeWithRetry makes
    MaxFailures,    \* bound on database operations that reject
    MaxRestarts     \* bound on restarts

ASSUME KeysAssumption == ShutdownKeys \subseteq EndKeys /\ EndKeys \subseteq Keys
ASSUME NoneAssumption == None \notin Calls \cup Objects \cup Keys
ASSUME BoundsAssumption ==
    MaxAttempts \in Nat \ {0} /\ MaxFailures \in Nat /\ MaxRestarts \in Nat

VARIABLES
    doc,            \* the stored session: its snapshot, version, and closed
    audit,          \* audit[k]: the record of operation k
    current,        \* the object that the lifecycle service keeps
    mem,            \* mem[o]: the snapshot and persistenceVersion of object o
    readOnly,       \* the objects that were made read-only
    queue,          \* queue[o]: persistedQueue, its first operation running
    pc, keyOf,      \* pc[c], keyOf[c]: where operation c is, and its key
    before,         \* before[c]: the snapshot to restore
    attempt,        \* attempt[c]: the transactions that failed
    result,         \* what became of operation c
    reasons,        \* history: why object o may be behind the document
    failures, restarts

store == <<doc, audit>>
ops == <<queue, pc, keyOf, before, attempt, result>>
vars == <<store, current, mem, readOnly, ops, reasons, failures, restarts>>

Snapshots == Seq(Keys)
Memory == [state : Snapshots, version : Nat]
Audits == [state : Snapshots, version : Nat, ok : BOOLEAN]
ASSUME NoAuditAssumption == None \notin Audits
NoMemory == [state |-> <<>>, version |-> 0]
Writes == {"update", "reject"}
Reasons == {"replayed", "thrown", "superseded"}

TypeOK ==
    /\ doc \in [state : Snapshots, version : Nat, closed : BOOLEAN]
    /\ audit \in [Keys -> Audits \cup {None}]
    /\ current \in Objects \cup {None}
    /\ mem \in [Objects -> Memory]
    /\ readOnly \subseteq Objects
    /\ queue \in [Objects -> Seq(Calls)]
    /\ pc \in [Calls -> {"new", "find", "ended"} \cup Writes]
    /\ keyOf \in [Calls -> Keys \cup {None}]
    /\ before \in [Calls -> Snapshots]
    /\ attempt \in [Calls -> 0..(MaxAttempts - 1)]
    /\ result \in [Calls -> {"none", "ok", "refused", "thrown", "lost"}]
    /\ reasons \in [Objects -> SUBSET Reasons]
    /\ failures \in 0..MaxFailures /\ restarts \in 0..MaxRestarts

H == INSTANCE SessionHistory WITH
         applied  <- doc.state,
         rejected <- {k \in Keys : audit[k] # None /\ ~audit[k].ok},
         closed   <- doc.closed

(* The session was created, with version 0, and nobody has joined.             *)
Init ==
    /\ doc = [state |-> <<>>, version |-> 0, closed |-> FALSE]
    /\ audit = [k \in Keys |-> None]
    /\ current = None
    /\ mem = [o \in Objects |-> NoMemory]
    /\ readOnly = {}
    /\ queue = [o \in Objects |-> <<>>]
    /\ pc = [c \in Calls |-> "new"]
    /\ keyOf = [c \in Calls |-> None]
    /\ before = [c \in Calls |-> <<>>]
    /\ attempt = [c \in Calls |-> 0]
    /\ result = [c \in Calls |-> "none"]
    /\ reasons = [o \in Objects |-> {}]
    /\ failures = 0 /\ restarts = 0

--------------------------------------------------------------------------------
(* The lifecycle service                                                         *)

(* Objects are made of the document: by recoverActiveSessions when the bot       *)
(* starts, and by the recover command, whose object replaces one that may still  *)
(* have operations under way.                                                    *)
Recover(o) ==
    /\ o # current /\ queue[o] = <<>>
    /\ ~doc.closed
    /\ current' = o
    /\ mem' = [mem EXCEPT ![o] = [state |-> doc.state, version |-> doc.version]]
    /\ readOnly' = IF H!Terminal(doc.state) THEN readOnly \cup {o} ELSE readOnly \ {o}
    /\ reasons' = [reasons EXCEPT ![o] = {}]
    /\ UNCHANGED <<store, ops, failures, restarts>>

(* closePersistedSession, of a session whose phase is terminal, at once or when  *)
(* the shutdown it dispatched has ended; then another object may have replaced   *)
(* the one that was looked up.                                                   *)
CloseSession(o) ==
    /\ H!Terminal(mem[o].state) /\ H!Terminal(doc.state)
    /\ ~doc.closed /\ doc.version = mem[o].version
    /\ doc' = [doc EXCEPT !.version = @ + 1, !.closed = TRUE]
    /\ reasons' = [p \in Objects |-> reasons[p] \cup {"superseded"}]
    /\ current' = None
    /\ UNCHANGED <<audit, mem, readOnly, ops, failures, restarts>>

(* The bot stops: its objects and operations are gone.                           *)
Restart ==
    /\ restarts < MaxRestarts /\ restarts' = restarts + 1
    /\ current' = None
    /\ mem' = [o \in Objects |-> NoMemory]
    /\ readOnly' = {}
    /\ queue' = [o \in Objects |-> <<>>]
    /\ pc' = [c \in Calls |-> IF pc[c] = "new" THEN "new" ELSE "ended"]
    /\ result' = [c \in Calls |-> IF pc[c] \in {"find"} \cup Writes THEN "lost" ELSE result[c]]
    /\ before' = [c \in Calls |-> <<>>]
    /\ attempt' = [c \in Calls |-> 0]
    /\ reasons' = [o \in Objects |-> {}]
    /\ UNCHANGED <<store, keyOf, failures>>

--------------------------------------------------------------------------------
(* dispatchPersisted                                                             *)

InFlight(o, k) == \E n \in 1..Len(queue[o]) : keyOf[queue[o][n]] = k

(* closePersistedSession dispatches the shutdown, if the object shows a phase    *)
(* that is not terminal; by the time it runs the phase may be.                   *)
Dispatch(c, k) ==
    /\ pc[c] = "new"
    /\ current # None /\ current \notin readOnly
    /\ k \in ShutdownKeys => ~H!Terminal(mem[current].state)
    /\ ~InFlight(current, k)
    /\ queue' = [queue EXCEPT ![current] = Append(@, c)]
    /\ pc' = [pc EXCEPT ![c] = "find"]
    /\ keyOf' = [keyOf EXCEPT ![c] = k]
    /\ UNCHANGED <<store, current, mem, readOnly, before, attempt, result, reasons,
                   failures, restarts>>

(* Operation c is the one that object o runs.                                    *)
Runs(o, c) == queue[o] # <<>> /\ c = Head(queue[o])

StalledEnd(o, c, r) ==      \* a slip: a rejection is not caught by the queue
    /\ queue' = [queue EXCEPT ![o] = IF r = "thrown" THEN @ ELSE Tail(@)]
    /\ pc' = [pc EXCEPT ![c] = "ended"]
    /\ result' = [result EXCEPT ![c] = r]
    /\ before' = [before EXCEPT ![c] = <<>>]
    /\ attempt' = [attempt EXCEPT ![c] = 0]
    /\ UNCHANGED keyOf

Ended(o, c, r) ==
    /\ queue' = [queue EXCEPT ![o] = Tail(@)]
    /\ pc' = [pc EXCEPT ![c] = "ended"]
    /\ result' = [result EXCEPT ![c] = r]
    /\ before' = [before EXCEPT ![c] = <<>>]
    /\ attempt' = [attempt EXCEPT ![c] = 0]
    /\ UNCHANGED keyOf

(* applyPersistedTransition                                                      *)
SnapshotApplied(o, t) == mem' = [mem EXCEPT ![o].state = t.state]      \* a slip
Applied(o, t) == mem' = [mem EXCEPT ![o] = [state |-> t.state, version |-> t.version]]

(* An operation recorded before is answered with its record, which replaces what *)
(* the object holds, however old it is.                                          *)
Replay(o, c) ==
    /\ Runs(o, c) /\ pc[c] = "find"
    /\ audit[keyOf[c]] # None
    /\ Applied(o, audit[keyOf[c]])
    /\ Ended(o, c, IF audit[keyOf[c]].ok THEN "ok" ELSE "refused")
    /\ reasons' = [reasons EXCEPT ![o] = @ \cup {"replayed"}]
    /\ UNCHANGED <<store, current, readOnly, failures, restarts>>

(* The state machine applies the command to what the object holds, or rejects    *)
(* it; SHUTDOWN_SESSION it accepts in every phase.                               *)
AcceptWhenOver(o, c) ==     \* a slip: a terminal phase is no obstacle
    /\ Runs(o, c) /\ pc[c] = "find"
    /\ audit[keyOf[c]] = None
    /\ before' = [before EXCEPT ![c] = mem[o].state]
    /\ mem' = [mem EXCEPT ![o].state = Append(@, keyOf[c])]
    /\ pc' = [pc EXCEPT ![c] = "update"]
    /\ UNCHANGED <<store, current, readOnly, queue, keyOf, attempt, result, reasons,
                   failures, restarts>>
Accept(o, c) ==
    /\ Runs(o, c) /\ pc[c] = "find"
    /\ audit[keyOf[c]] = None
    /\ H!Terminal(mem[o].state) => keyOf[c] \in ShutdownKeys
    /\ before' = [before EXCEPT ![c] = mem[o].state]
    /\ mem' = [mem EXCEPT ![o].state = Append(@, keyOf[c])]
    /\ pc' = [pc EXCEPT ![c] = "update"]
    /\ UNCHANGED <<store, current, readOnly, queue, keyOf, attempt, result, reasons,
                   failures, restarts>>

Refuse(o, c) ==
    /\ Runs(o, c) /\ pc[c] = "find"
    /\ audit[keyOf[c]] = None
    /\ keyOf[c] \notin ShutdownKeys
    /\ pc' = [pc EXCEPT ![c] = "reject"]
    /\ UNCHANGED <<store, current, mem, readOnly, queue, keyOf, before, attempt, result,
                   reasons, failures, restarts>>

(* The promise rejects; a snapshot that was not recorded is taken back.  Here r  *)
(* is what reasons has become by the step otherwise.                             *)
TakenBackNever(o, c, r) ==      \* a slip
    /\ mem' = mem
    /\ Ended(o, c, "thrown")
    /\ reasons' = [r EXCEPT ![o] = @ \cup {"thrown"}]
Throw(o, c, r) ==
    /\ mem' = IF pc[c] = "update" THEN [mem EXCEPT ![o].state = before[c]] ELSE mem
    /\ Ended(o, c, "thrown")
    /\ reasons' = [r EXCEPT ![o] = @ \cup {"thrown"}]

--------------------------------------------------------------------------------
(* updateTransition and recordRejected                                           *)

AnyVersion(o) == TRUE       \* a slip
SameVersion(o) == doc.version = mem[o].version
Known(c) == audit[keyOf[c]] # None

(* The transaction takes effect.                                                 *)
Commits(o, c) ==
    /\ Runs(o, c) /\ pc[c] \in Writes
    /\ ~Known(c) /\ SameVersion(o)
    /\ IF pc[c] = "update"
       THEN /\ doc' = [doc EXCEPT !.state = mem[o].state, !.version = @ + 1]
            /\ audit' = [audit EXCEPT ![keyOf[c]] =
                            [state |-> mem[o].state, version |-> doc.version + 1, ok |-> TRUE]]
       ELSE /\ audit' = [audit EXCEPT ![keyOf[c]] =
                            [state |-> doc.state, version |-> doc.version, ok |-> FALSE]]
            /\ UNCHANGED doc

Superseded(o, c) ==
    [p \in Objects |-> IF p # o /\ pc[c] = "update" THEN reasons[p] \cup {"superseded"}
                                                    ELSE reasons[p]]

Commit(o, c) ==
    /\ Commits(o, c)
    /\ Applied(o, audit'[keyOf[c]])
    /\ Ended(o, c, IF pc[c] = "update" THEN "ok" ELSE "refused")
    /\ reasons' = Superseded(o, c)
    /\ UNCHANGED <<current, readOnly, failures, restarts>>

(* It finds the operation recorded, by an earlier attempt or by another object.  *)
Found(o, c) ==
    /\ Runs(o, c) /\ pc[c] \in Writes
    /\ Known(c)
    /\ Applied(o, audit[keyOf[c]])
    /\ Ended(o, c, IF pc[c] = "update" THEN "ok" ELSE "refused")
    /\ reasons' = [reasons EXCEPT ![o] = @ \cup
                       (IF attempt[c] = 0 THEN {"replayed"} ELSE {})]
    /\ UNCHANGED <<store, current, readOnly, failures, restarts>>

VersionConflict(o, c) ==
    /\ Runs(o, c) /\ pc[c] \in Writes
    /\ ~Known(c) /\ ~SameVersion(o)
    /\ Throw(o, c, reasons)
    /\ UNCHANGED <<store, current, readOnly, failures, restarts>>

(* validateSnapshot rejects what the command has made of the game.               *)
SnapshotInvalid(o, c) ==
    /\ Runs(o, c) /\ pc[c] = "update" /\ attempt[c] = 0
    /\ Throw(o, c, reasons)
    /\ UNCHANGED <<store, current, readOnly, failures, restarts>>

(* executeWithRetry                                                              *)
RetryOnceMore(o, c, r) ==       \* a slip
    \/ /\ attempt[c] + 1 <= MaxAttempts
       /\ attempt' = [attempt EXCEPT ![c] = @ + 1]
       /\ reasons' = r
       /\ UNCHANGED <<mem, queue, pc, keyOf, before, result>>
    \/ /\ attempt[c] = MaxAttempts
       /\ Throw(o, c, r)
Retry(o, c, r) ==
    \/ /\ attempt[c] + 1 < MaxAttempts
       /\ attempt' = [attempt EXCEPT ![c] = @ + 1]
       /\ reasons' = r
       /\ UNCHANGED <<mem, queue, pc, keyOf, before, result>>
    \/ /\ attempt[c] + 1 = MaxAttempts
       /\ Throw(o, c, r)

(* The database rejects: before the transaction, without effect, or after it     *)
(* took effect.  A read before the transaction is not made again.                *)
ReadFails(o, c) ==
    /\ failures < MaxFailures /\ failures' = failures + 1
    /\ Runs(o, c)
    /\ pc[c] = "find" \/ attempt[c] = 0
    /\ Throw(o, c, reasons)
    /\ UNCHANGED <<store, current, readOnly, restarts>>

TransactionFails(o, c) ==
    /\ failures < MaxFailures /\ failures' = failures + 1
    /\ Runs(o, c) /\ pc[c] \in Writes
    /\ Retry(o, c, reasons)
    /\ UNCHANGED <<store, current, readOnly, restarts>>

AnswerLost(o, c) ==
    /\ failures < MaxFailures /\ failures' = failures + 1
    /\ Commits(o, c)
    /\ Retry(o, c, Superseded(o, c))
    /\ UNCHANGED <<current, readOnly, restarts>>

--------------------------------------------------------------------------------

Runnable(o, c) ==
    \/ Replay(o, c) \/ Accept(o, c) \/ Refuse(o, c)
    \/ Commit(o, c) \/ Found(o, c) \/ VersionConflict(o, c)

Fails(o, c) ==
    SnapshotInvalid(o, c) \/ ReadFails(o, c) \/ TransactionFails(o, c) \/ AnswerLost(o, c)

Next ==
    \/ \E o \in Objects : Recover(o) \/ CloseSession(o)
    \/ Restart
    \/ \E c \in Calls, k \in Keys : Dispatch(c, k)
    \/ \E o \in Objects, c \in Calls : Runnable(o, c) \/ Fails(o, c)

(* The database answers at last; commands, recoveries and closing are nobody's   *)
(* duty.                                                                         *)
Fairness == \A o \in Objects : WF_vars(\E c \in Calls : Runnable(o, c))

Spec == Init /\ [][Next]_vars /\ Fairness

--------------------------------------------------------------------------------
(* Properties                                                                    *)

Prefix(s, t) == Len(s) <= Len(t) /\ \A n \in 1..Len(s) : s[n] = t[n]

(* The session implements its history: whatever is repeated, answered late or    *)
(* made by an object that was replaced, an operation is recorded once, the       *)
(* stored snapshot is never rolled back or replaced by that of another course of *)
(* the game, and only a shutdown is applied to a game that is over.              *)
ImplementsHistory == H!Spec

(* The audits tell the course of the game: that of an applied operation holds    *)
(* the snapshot that it made, with its version, and that of a rejected one a     *)
(* snapshot that was stored, so that a replay answers with what was.             *)
AuditsTellHistory ==
    \A k \in Keys : audit[k] # None =>
        /\ Prefix(audit[k].state, doc.state)
        /\ audit[k].version = Len(audit[k].state)
        /\ audit[k].ok => audit[k].version > 0 /\ audit[k].state[audit[k].version] = k

(* When a write fails, callers do not go on seeing its transition: unless it is   *)
(* writing one, an object holds a snapshot that was stored, and the version of   *)
(* that snapshot, whatever failed.  (While it writes, getSnapshot does show a    *)
(* transition that is not committed.)                                            *)
IdleIsStored ==
    \A o \in Objects : queue[o] = <<>> \/ pc[Head(queue[o])] = "find" =>
        Prefix(mem[o].state, doc.state) /\ mem[o].version = Len(mem[o].state)

(* An object is behind the document, and all its new operations conflict, only   *)
(* after it replayed an old operation, gave up on one, or was replaced.          *)
BehindHasReason ==
    \A o \in Objects :
        o = current /\ queue[o] = <<>> /\ reasons[o] = {} => mem[o].version = doc.version

(* A queued operation comes to an end, whatever becomes of those before it.      *)
OperationEnds == \A c \in Calls : (pc[c] = "find") ~> (pc[c] = "ended")

================================================================================
