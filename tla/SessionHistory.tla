---------------------------- MODULE SessionHistory -----------------------------
(* What the persistence of a kidnappers game promises of one session: every    *)
(* operation is recorded once, as applied or as rejected; what was applied     *)
(* stays, in order; after an operation that ends the game only a shutdown is   *)
(* applied, and only then the session is closed, after which nothing is        *)
(* recorded.  KidnappersSession implements this specification.                 *)
EXTENDS Naturals, Sequences

CONSTANTS
    Keys,           \* operation keys
    EndKeys,        \* those of commands that end the game
    ShutdownKeys    \* of these, those that are applied in every phase

VARIABLES
    applied,        \* the operations that made the stored snapshot
    rejected,       \* the operations recorded as rejected
    closed

Recorded == {applied[n] : n \in 1..Len(applied)} \cup rejected

(* The snapshot of these operations is in a terminal phase.                    *)
Terminal(s) == \E n \in 1..Len(s) : s[n] \in EndKeys

Init == applied = <<>> /\ rejected = {} /\ closed = FALSE

Apply ==
    /\ ~closed
    /\ \E k \in Keys \ Recorded :
           /\ Terminal(applied) => k \in ShutdownKeys
           /\ applied' = Append(applied, k)
    /\ UNCHANGED <<rejected, closed>>

Reject ==
    /\ ~closed
    /\ \E k \in Keys \ Recorded : rejected' = rejected \cup {k}
    /\ UNCHANGED <<applied, closed>>

Close ==
    /\ ~closed /\ Terminal(applied)
    /\ closed' = TRUE
    /\ UNCHANGED <<applied, rejected>>

Next == Apply \/ Reject \/ Close

Spec == Init /\ [][Next]_<<applied, rejected, closed>>

================================================================================
