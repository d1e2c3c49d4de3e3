---------------------------- MODULE ActionScheduler ----------------------------
(* The per-character scheduler of the action layer                             *)
(* (bin/action-layer/scheduler.ts), through which AppearanceService,           *)
(* MovementService, InventoryService and CommunicationService run every        *)
(* operation that changes a character.                                         *)
(*                                                                             *)
(* A call of schedule() either throws, returns the promise of a call that is   *)
(* still under way with the same operation id, or is admitted: its operation   *)
(* is chained behind the tail of the character's queue.  The queue object, the *)
(* promise and the call are created together, so all three are named by the    *)
(* call: promise[d] = c says that call d was given the promise of call c, and  *)
(* queueOf[d] = c that d counts in the queue object which call c created.      *)
(*                                                                             *)
(* JavaScript runs schedule(), and each callback, without interruption, so     *)
(* each is one action.  Between them anything may happen.                      *)
EXTENDS Naturals, FiniteSets

CONSTANTS
    Members,        \* member numbers of the characters
    OpIds,          \* operation ids
    Calls,          \* the calls of schedule() that will ever be made
    MaxPending,     \* maxPendingPerCharacter
    Hanging,        \* the characters whose operations may never settle
    None,           \* undefined
    Refused         \* schedule() threw

ASSUME MaxPendingAssumption == MaxPending \in Nat \ {0}
ASSUME HangingAssumption == Hanging \subseteq Members
ASSUME SentinelAssumption == None \notin Calls /\ Refused \notin Calls /\ None # Refused

VARIABLES
    closed,         \* the closed flag
    queueAt,        \* the map queues: queueAt[m] is m's queue object
    tail,           \* tail[q]: the call whose settling resolves q.tail
    pending,        \* pending[q]: the counter of queue object q
    operationAt,    \* the map operations
    promise,        \* promise[c]: what call c of schedule() came to
    member,         \* the arguments of call c ...
    opId,
    queueOf,        \* ... and what its closure holds: its queue object,
    prev,           \* the call it is chained behind,
    phase,          \* and how far its operation has come
    ticket,         \* history: the order of admission
    clock           \* history: the number of admissions

callVars == <<promise, member, opId, queueOf, prev, phase, ticket>>
vars == <<closed, queueAt, tail, pending, operationAt, callVars, clock>>

Unsettled == {"waiting", "running"}
Settled   == {"fulfilled", "rejected", "released"}
Live      == {"waiting", "running", "fulfilled", "rejected"}
Started   == {"running", "fulfilled", "rejected", "released"}
Phases    == {"new"} \cup Live \cup Started

TypeOK ==
    /\ closed \in BOOLEAN
    /\ queueAt \in [Members -> Calls \cup {None}]
    /\ tail \in [Calls -> Calls \cup {None}]
    /\ pending \in [Calls -> Nat]
    /\ operationAt \in [Members -> [OpIds -> Calls \cup {None}]]
    /\ promise \in [Calls -> Calls \cup {None, Refused}]
    /\ member \in [Calls -> Members \cup {None}]
    /\ opId \in [Calls -> OpIds \cup {None}]
    /\ queueOf \in [Calls -> Calls \cup {None}]
    /\ prev \in [Calls -> Calls \cup {None}]
    /\ phase \in [Calls -> Phases]
    /\ ticket \in [Calls -> Nat]
    /\ clock \in Nat

Init ==
    /\ closed = FALSE
    /\ queueAt = [m \in Members |-> None]
    /\ tail = [c \in Calls |-> None]
    /\ pending = [c \in Calls |-> 0]
    /\ operationAt = [m \in Members |-> [o \in OpIds |-> None]]
    /\ promise = [c \in Calls |-> None]
    /\ member = [c \in Calls |-> None]
    /\ opId = [c \in Calls |-> None]
    /\ queueOf = [c \in Calls |-> None]
    /\ prev = [c \in Calls |-> None]
    /\ phase = [c \in Calls |-> "new"]
    /\ ticket = [c \in Calls |-> 0]
    /\ clock = 0

--------------------------------------------------------------------------------
(* schedule()                                                                  *)

(* Slips of the code, for the runs that show each property can fail.            *)
CounterStartsOver(m) == 0
LimitPlusOne(m) == (IF queueAt[m] = None THEN 0 ELSE pending[queueAt[m]]) <= MaxPending
NoDuplicateCheck(m, o) == None
ChainIgnored(c) == TRUE
OneChainForAll(c) ==
    \A d \in Calls : ticket[d] < ticket[c] => phase[d] \in {"new"} \cup Settled
DropUnconditionally(c) == None
NeverDrop(c) == queueAt[member[c]]

(* A queue object starts with a resolved tail and no pending call.             *)
QueueSize(m) == IF queueAt[m] = None THEN 0 ELSE pending[queueAt[m]]

HasRoom(m) == QueueSize(m) < MaxPending

(* this.operations.get(operationKey)                                           *)
Existing(m, o) == operationAt[m][o]

Refuse(c) ==
    /\ promise' = [promise EXCEPT ![c] = Refused]
    /\ UNCHANGED <<closed, queueAt, tail, pending, operationAt, clock,
                   member, opId, queueOf, prev, phase, ticket>>

RefuseClosed(c) ==
    /\ promise[c] = None
    /\ closed
    /\ Refuse(c)

(* Duplicate operation ids return the existing promise, before the limit is    *)
(* looked at.                                                                  *)
Join(c, m, o) ==
    /\ promise[c] = None
    /\ ~closed
    /\ Existing(m, o) # None
    /\ promise' = [promise EXCEPT ![c] = Existing(m, o)]
    /\ member' = [member EXCEPT ![c] = m]
    /\ opId' = [opId EXCEPT ![c] = o]
    /\ UNCHANGED <<closed, queueAt, tail, pending, operationAt, clock,
                   queueOf, prev, phase, ticket>>

RefuseFull(c, m, o) ==
    /\ promise[c] = None
    /\ ~closed
    /\ Existing(m, o) = None
    /\ ~HasRoom(m)
    /\ Refuse(c)

Admit(c, m, o) ==
    LET fresh == queueAt[m] = None
        q     == IF fresh THEN c ELSE queueAt[m]
    IN  /\ promise[c] = None
        /\ ~closed
        /\ Existing(m, o) = None
        /\ HasRoom(m)
        /\ queueAt' = [queueAt EXCEPT ![m] = q]
        /\ pending' = [pending EXCEPT ![q] = QueueSize(m) + 1]
        /\ tail' = [tail EXCEPT ![q] = c]
        /\ operationAt' = [operationAt EXCEPT ![m][o] = c]
        /\ promise' = [promise EXCEPT ![c] = c]
        /\ member' = [member EXCEPT ![c] = m]
        /\ opId' = [opId EXCEPT ![c] = o]
        /\ queueOf' = [queueOf EXCEPT ![c] = q]
        /\ prev' = [prev EXCEPT ![c] = IF fresh THEN None ELSE tail[q]]
        /\ phase' = [phase EXCEPT ![c] = "waiting"]
        /\ ticket' = [ticket EXCEPT ![c] = clock]
        /\ clock' = clock + 1
        /\ UNCHANGED closed

--------------------------------------------------------------------------------
(* The callbacks of an admitted call                                           *)

(* queue.tail.catch(() => undefined): the tail the call was chained behind has *)
(* settled, whatever the outcome.                                              *)
TailSettled(c) == IF prev[c] = None THEN TRUE ELSE phase[prev[c]] \in Settled

(* .then(operation)                                                            *)
Start(c) ==
    /\ phase[c] = "waiting"
    /\ TailSettled(c)
    /\ phase' = [phase EXCEPT ![c] = "running"]
    /\ UNCHANGED <<closed, queueAt, tail, pending, operationAt, clock,
                   promise, member, opId, queueOf, prev, ticket>>

(* The operation returns or throws.                                            *)
Settle(c) ==
    /\ phase[c] = "running"
    /\ \E outcome \in {"fulfilled", "rejected"} :
           phase' = [phase EXCEPT ![c] = outcome]
    /\ UNCHANGED <<closed, queueAt, tail, pending, operationAt, clock,
                   promise, member, opId, queueOf, prev, ticket>>

(* The queue object is dropped with its last pending call, if the map still    *)
(* holds this very object.                                                     *)
QueueAfterRelease(c) ==
    IF pending[queueOf[c]] = 1 /\ queueAt[member[c]] = queueOf[c]
    THEN None
    ELSE queueAt[member[c]]

(* const release = () => { ... }                                               *)
Release(c) ==
    /\ phase[c] \in {"fulfilled", "rejected"}
    /\ pending' = [pending EXCEPT ![queueOf[c]] = @ - 1]
    /\ queueAt' = [queueAt EXCEPT ![member[c]] = QueueAfterRelease(c)]
    /\ operationAt' = [operationAt EXCEPT ![member[c]][opId[c]] =
                                              IF @ = c THEN None ELSE @]
    /\ phase' = [phase EXCEPT ![c] = "released"]
    /\ UNCHANGED <<closed, tail, clock, promise, member, opId, queueOf, prev, ticket>>

Close ==
    /\ ~closed
    /\ closed' = TRUE
    /\ UNCHANGED <<queueAt, tail, pending, operationAt, callVars, clock>>

Schedule(c) ==
    \/ RefuseClosed(c)
    \/ \E m \in Members, o \in OpIds :
           Join(c, m, o) \/ RefuseFull(c, m, o) \/ Admit(c, m, o)

Next ==
    \/ \E c \in Calls : Schedule(c) \/ Start(c) \/ Settle(c) \/ Release(c)
    \/ Close

(* The event loop runs every callback that is due.  The scheduler has no       *)
(* timeout of its own: that an operation settles is assumed of the characters  *)
(* outside Hanging only.                                                       *)
Fairness ==
    /\ \A c \in Calls : WF_vars(Start(c)) /\ WF_vars(Release(c))
    /\ \A c \in Calls : WF_vars(member[c] \notin Hanging /\ Settle(c))

Spec == Init /\ [][Next]_vars /\ Fairness

--------------------------------------------------------------------------------
(* Properties                                                                  *)

(* The operations of one character start in the order of admission, each only  *)
(* when every earlier one has settled; in particular two operations never run  *)
(* on one character at a time.  It must survive the queue object being dropped *)
(* and created anew between two calls.                                         *)
StartsInOrder ==
    \A c, d \in Calls :
        /\ phase[c] # "new"
        /\ phase[d] \in Started
        /\ member[c] = member[d]
        /\ ticket[c] < ticket[d]
        => phase[c] \in Settled

LiveOf(m) == {c \in Calls : phase[c] \in Live /\ member[c] = m}

(* The bookkeeping is exact: a queue object is in the map exactly while its    *)
(* character has a call that was not released, and its counter, which decides  *)
(* whether the next call is refused, is the number of those calls and within   *)
(* the limit.  A leaked slot would refuse a character's actions for ever.      *)
SlotsExact ==
    \A m \in Members :
        /\ queueAt[m] = None <=> LiveOf(m) = {}
        /\ QueueSize(m) = Cardinality(LiveOf(m))
        /\ QueueSize(m) <= MaxPending

(* While an operation is under way no second run of the same operation id is   *)
(* admitted for its character, and whoever asks again is given that run.       *)
NoReplay ==
    /\ \A c, d \in Calls :
           /\ phase[c] \in Live /\ phase[d] \in Live
           /\ member[c] = member[d] /\ opId[c] = opId[d]
           => c = d
    /\ \A m \in Members, o \in OpIds :
           operationAt[m][o] # None =>
               LET c == operationAt[m][o]
               IN  phase[c] \in Live /\ member[c] = m /\ opId[c] = o

(* Every promise handed out settles and its slot is given back, even when the  *)
(* operations before it fail and when another character's operation hangs for  *)
(* ever.                                                                       *)
PromisesSettle ==
    \A c \in Calls :
        promise[c] = c /\ member[c] \notin Hanging ~> phase[c] = "released"

(* close() lets the admitted work finish, and the scheduler ends empty-handed. *)
ClosedDrains ==
    \A m \in Members \ Hanging : closed ~> [](queueAt[m] = None)

(* Whatever was admitted is done, before and after close().                    *)
WorkEnds == PromisesSettle /\ ClosedDrains

--------------------------------------------------------------------------------
(* The refinement of CharacterWork                                             *)

(* The calls of m that have not settled.                                       *)
UnsettledOf(m) == {c \in Calls : phase[c] \in Unsettled /\ member[c] = m}

(* Calls U stand in line in the order of the tickets t.                        *)
Ahead(U, t, c) == {d \in U : t[d] < t[c]}
InPlace(U, t, i) == CHOOSE c \in U : Cardinality(Ahead(U, t, c)) = i - 1
Lined(U, t) == [i \in 1..Cardinality(U) |-> InPlace(U, t, i)]
LineOf(m) == Lined(UnsettledOf(m), ticket)

Busy(m) == \E c \in UnsettledOf(m) : phase[c] = "running"

Work == INSTANCE CharacterWork WITH
            line <- [m \in Members |-> LineOf(m)],
            busy <- [m \in Members |-> Busy(m)]

(* The scheduler implements one independent, fair first-in first-out worker    *)
(* per character ("Different characters never share a serialization chain").   *)
ImplementsCharacterWork == Work!Spec

================================================================================
