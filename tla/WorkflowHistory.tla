---------------------------- MODULE WorkflowHistory ----------------------------
(* What the workflow journal promises of one operation: it is recorded once,   *)
(* pending, and then moves along the transitions of a workflow, one version at *)
(* a time, until it is completed or cancelled; nothing ever moves it back,     *)
(* skips a version or replaces a version by another one.                       *)
(* WorkflowJournal implements this specification.                              *)
EXTENDS Naturals

CONSTANTS
    Stamps,     \* what else a state holds: its stage, its data and its time
    NoState     \* nothing is recorded

VARIABLE record

Statuses == {"pending", "running", "waiting", "completed", "failed", "cancelled"}
Terminal == {"completed", "cancelled"}

(* allowedTransitions                                                          *)
Allowed == [from \in Statuses |->
    CASE from = "pending"  -> {"running", "failed", "cancelled"}
      [] from = "running"  -> {"waiting", "completed", "failed", "cancelled"}
      [] from = "waiting"  -> {"running", "completed", "failed", "cancelled"}
      [] from = "failed"   -> {"running", "cancelled"}
      [] from \in Terminal -> {}]

State(status, version, stamp) ==
    [status |-> status, version |-> version, stamp |-> stamp]

Init == record = NoState

Create ==
    /\ record = NoState
    /\ \E x \in Stamps : record' = State("pending", 1, x)

Transition ==
    /\ record # NoState
    /\ \E s \in Allowed[record.status], x \in Stamps :
           record' = State(s, record.version + 1, x)

Next == Create \/ Transition

Spec == Init /\ [][Next]_record
================================================================================
