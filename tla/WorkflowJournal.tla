---------------------------- MODULE WorkflowJournal ----------------------------
(* The durable workflow of one operation: the state machine of a workflow      *)
(* (bin/action-layer/workflow.ts), the journal that persists its transitions   *)
(* (bin/games/shared/durableWorkflowJournal.ts), its Mongo storage             *)
(* (bin/games/shared/mongoWorkflowJournalStorage.ts), and the workflow steps   *)
(* of the removals and of the bunny punishment                                 *)
(* (bin/games/veratown/shared/veratownWorkflowRecovery.ts).                    *)
(*                                                                             *)
(* Several clients work on the operation: another instance of the bot, or the  *)
(* one that was started after a crash while writes of the former are still     *)
(* under way.  A client that crashed is one that takes no further step.  Each  *)
(* awaited database operation is one step; its acknowledgement may be lost,    *)
(* and executeDbMutation then makes it again.                                  *)
EXTENDS Naturals

CONSTANTS
    Clients,        \* the runs of the operation's code
    Stamps,         \* stage, data and time of a state, as far as they differ
    NoState,        \* undefined
    MaxAttempts,    \* the attempts executeDbMutation makes
    MaxVersion,     \* bound on the versions
    MaxFailures     \* bound on database operations that reject

ASSUME AttemptsAssumption == MaxAttempts \in Nat \ {0}
ASSUME BoundsAssumption == MaxVersion \in Nat \ {0} /\ MaxFailures \in Nat

VARIABLES
    record,         \* the stored state
    pc,             \* pc[c]: where client c is
    op,             \* op[c]: the step of the workflow it is making
    held,           \* held[c]: its workflowState, as last returned
    next,           \* next[c]: the state it is persisting
    attempt,        \* attempt[c]: the attempts at the write that were made
    failures,       \* bound
    stored          \* history: the states that were ever stored

locals == <<op, held, next, attempt>>
journalVars == <<record, pc, locals, failures, stored>>

H == INSTANCE WorkflowHistory

States == [status : H!Statuses, version : 1..MaxVersion, stamp : Stamps]
ASSUME NoStateAssumption == NoState \notin States

Ops == {"start", "open", "advance", "resume", "complete", "fail"}
PCs == {"new", "restore", "compare", "insert", "update", "started", "ready", "ended"}

JournalTypeOK ==
    /\ record \in States \cup {NoState}
    /\ pc \in [Clients -> PCs]
    /\ op \in [Clients -> Ops]
    /\ held \in [Clients -> States \cup {NoState}]
    /\ next \in [Clients -> States \cup {NoState}]
    /\ attempt \in [Clients -> 0..(MaxAttempts - 1)]
    /\ failures \in 0..MaxFailures
    /\ stored \subseteq States

JournalInit ==
    /\ record = NoState
    /\ pc = [c \in Clients |-> "new"]
    /\ op = [c \in Clients |-> "start"]
    /\ held = [c \in Clients |-> NoState]
    /\ next = [c \in Clients |-> NoState]
    /\ attempt = [c \in Clients |-> 0]
    /\ failures = 0
    /\ stored = {}

--------------------------------------------------------------------------------
(* The end of a step: the promise resolves to state s, or it rejects           *)

(* complete and fail are the last steps of a client.                           *)
Return(c, s) ==
    /\ held' = [held EXCEPT ![c] = s]
    /\ pc' = [pc EXCEPT ![c] = CASE op[c] = "start" -> "started"
                                 [] op[c] \in {"complete", "fail"} -> "ended"
                                 [] OTHER -> "ready"]
    /\ next' = [next EXCEPT ![c] = NoState]
    /\ attempt' = [attempt EXCEPT ![c] = 0]
    /\ UNCHANGED op

(* The bunny punishment goes on with the state it held when advancing to its   *)
(* confirmation rejects; elsewhere the client gives up.                        *)
Reject(c) ==
    /\ \/ pc' = [pc EXCEPT ![c] = "ended"]
       \/ op[c] \in {"advance", "resume"} /\ pc' = [pc EXCEPT ![c] = "ready"]
    /\ next' = [next EXCEPT ![c] = NoState]
    /\ attempt' = [attempt EXCEPT ![c] = 0]
    /\ UNCHANGED <<op, held>>

--------------------------------------------------------------------------------
(* VeratownWorkflowRecovery                                                    *)

StartOperation(c) ==
    /\ pc[c] = "new"
    /\ pc' = [pc EXCEPT ![c] = "restore"]
    /\ UNCHANGED <<record, locals, failures, stored>>

(* start returns what is stored, or persists a new state.                      *)
Restore(c) ==
    /\ pc[c] = "restore"
    /\ \/ /\ record # NoState
          /\ Return(c, record)
       \/ /\ record = NoState
          /\ \E x \in Stamps : next' = [next EXCEPT ![c] = H!State("pending", 1, x)]
          /\ pc' = [pc EXCEPT ![c] = "compare"]
          /\ UNCHANGED <<op, held, attempt>>
    /\ UNCHANGED <<record, failures, stored>>

(* A step that finds nothing to do returns the state it was given.             *)
FailureNotResumed(o, status) ==
    \/ status \in H!Terminal
    \/ o \in {"open", "resume"} /\ status \in {"running", "waiting", "failed"}
NothingToDo(o, status) ==
    \/ status \in H!Terminal
    \/ o \in {"open", "resume"} /\ status \in {"running", "waiting"}

Target(o, status) ==
    CASE o = "complete" -> "completed"
      [] o = "fail"     -> "failed"
      [] o = "advance" /\ status = "running" -> "waiting"
      [] OTHER          -> "running"

(* Every client resumes what it started ("open"), and then makes any of the    *)
(* other steps; transitionWorkflow throws if the transition is not allowed.    *)
Call(c, o) ==
    LET s == held[c]
        t == Target(o, s.status)
    IN  /\ pc[c] = IF o = "open" THEN "started" ELSE "ready"
        /\ op' = [op EXCEPT ![c] = o]
        /\ \/ /\ NothingToDo(o, s.status)
              /\ pc' = [pc EXCEPT ![c] = IF o \in {"complete", "fail"} THEN "ended"
                                                                     ELSE "ready"]
              /\ UNCHANGED next
           \/ /\ ~NothingToDo(o, s.status) /\ s.version < MaxVersion
              /\ IF t \in H!Allowed[s.status]
                 THEN /\ \E x \in Stamps :
                             next' = [next EXCEPT ![c] = H!State(t, s.version + 1, x)]
                      /\ pc' = [pc EXCEPT ![c] = "compare"]
                 ELSE pc' = [pc EXCEPT ![c] = "ended"] /\ UNCHANGED next
        /\ UNCHANGED <<record, held, attempt, failures, stored>>

--------------------------------------------------------------------------------
(* WorkflowJournal.persist                                                     *)

(* persist finds another state than the one to persist: start expects none,    *)
(* the others expect the version before, and that it is not terminal.          *)
Conflict(c) ==
    \/ record = NoState
    \/ op[c] = "start"
    \/ record.version + 1 # next[c].version
    \/ record.status \in H!Terminal /\ record.status # next[c].status

Compare(c) ==
    /\ pc[c] = "compare"
    /\ \/ /\ record = NoState /\ op[c] = "start"
          /\ pc' = [pc EXCEPT ![c] = "insert"]
          /\ UNCHANGED locals
       \/ /\ record = next[c]
          /\ Return(c, record)
       \/ /\ record # next[c] /\ ~(record = NoState /\ op[c] = "start")
          /\ Conflict(c)
          /\ Reject(c)
       \/ /\ record # next[c] /\ ~Conflict(c)
          /\ pc' = [pc EXCEPT ![c] = "update"]
          /\ UNCHANGED locals
    /\ UNCHANGED <<record, failures, stored>>

(* The filter of updateOne; insertOne needs the key to be free.                *)
AnyVersionMatches(c) == IF record = NoState THEN pc[c] = "insert"
                        ELSE pc[c] = "update" /\ record.status \notin H!Terminal
Matches(c) == IF record = NoState THEN pc[c] = "insert"
              ELSE /\ pc[c] = "update"
                   /\ record.version + 1 = next[c].version
                   /\ record.status \notin H!Terminal

(* executeDbMutation: the write is made again, up to a number of attempts; an  *)
(* insertion that failed to the last is a conflict if the key exists.          *)
OneAttemptMore(c) == attempt[c] = MaxAttempts
LastAttempt(c) == attempt[c] + 1 = MaxAttempts

Retry(c) ==
    \/ /\ ~LastAttempt(c)
       /\ attempt' = [attempt EXCEPT ![c] = @ + 1]
       /\ UNCHANGED <<pc, op, held, next>>
    \/ /\ LastAttempt(c)
       /\ Reject(c)

Apply(c) ==
    /\ pc[c] \in {"insert", "update"}
    /\ Matches(c)
    /\ record' = next[c]
    /\ stored' = stored \cup {next[c]}

Write(c) ==
    /\ Apply(c)
    /\ Return(c, next[c])
    /\ UNCHANGED failures

(* A write takes effect without its acknowledgement, or does not; either way   *)
(* the operation rejects.                                                      *)
AnswerLost(c) ==
    /\ failures < MaxFailures /\ failures' = failures + 1
    /\ Apply(c)
    /\ Retry(c)

WriteFails(c) ==
    /\ failures < MaxFailures /\ failures' = failures + 1
    /\ pc[c] \in {"insert", "update"}
    /\ Retry(c)
    /\ UNCHANGED <<record, stored>>

(* Nothing matched, or the key is taken: whatever the reason that is found in  *)
(* the stored state, the journal reports a conflict, although it may be the    *)
(* client's own write, repeated after its acknowledgement was lost.            *)
RefusalIgnored(c) == Return(c, next[c])
Refusal(c) == Reject(c)

WriteRefused(c) ==
    /\ pc[c] \in {"insert", "update"}
    /\ ~Matches(c)
    /\ Refusal(c)
    /\ UNCHANGED <<record, failures, stored>>

ReadFails(c) ==
    /\ failures < MaxFailures /\ failures' = failures + 1
    /\ pc[c] \in {"restore", "compare"}
    /\ Reject(c)
    /\ UNCHANGED <<record, stored>>

--------------------------------------------------------------------------------
Step(c) ==
    \/ StartOperation(c) \/ Restore(c) \/ (\E o \in Ops \ {"start"} : Call(c, o))
    \/ Compare(c) \/ Write(c) \/ AnswerLost(c) \/ WriteFails(c) \/ WriteRefused(c)
    \/ ReadFails(c)

JournalNext == \E c \in Clients : Step(c)

JournalSpec == JournalInit /\ [][JournalNext]_journalVars

--------------------------------------------------------------------------------
(* Properties                                                                  *)

(* Whatever a client is told to hold was stored, and it is what is stored now  *)
(* unless a later version is: no client goes on from a state that lost a race, *)
(* and two clients never hold different states of one version.                 *)
HeldIsStored ==
    \A c \in Clients : held[c] # NoState =>
        /\ held[c] \in stored
        /\ held[c].version <= record.version
        /\ held[c].version = record.version => held[c] = record

(* The steps that the removals and the bunny punishment make are transitions   *)
(* of the workflow, wherever an earlier client stopped or failed:              *)
(* transitionWorkflow never throws at them.                                    *)
StepsAreTransitions ==
    \A c \in Clients : \A o \in {"advance", "resume", "complete", "fail"} :
        pc[c] = "ready" /\ ~NothingToDo(o, held[c].status) =>
            Target(o, held[c].status) \in H!Allowed[held[c].status]

(* The journal implements the history of one operation, under concurrent       *)
(* clients, lost acknowledgements and repeated writes.                         *)
ImplementsHistory == H!Spec

================================================================================
