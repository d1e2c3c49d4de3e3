----------------------------- MODULE CharacterWork -----------------------------
(* What the action layer promises to its callers: the work submitted for one   *)
(* character is carried out one piece at a time, in the order in which it was  *)
(* submitted, and the work of one character never waits for that of another.   *)
(* ActionScheduler implements this specification.                              *)
EXTENDS Naturals, Sequences

CONSTANTS
    Members,    \* the characters
    Calls,      \* the pieces of work
    Hanging     \* the characters whose operations may never finish

VARIABLES
    line,       \* line[m]: the unfinished work of m, oldest first
    busy        \* busy[m]: the head of line[m] is being carried out

vars == <<line, busy>>

Init ==
    /\ line = [m \in Members |-> <<>>]
    /\ busy = [m \in Members |-> FALSE]

Submit(m, c) ==
    /\ \A x \in Members : \A i \in DOMAIN line[x] : line[x][i] # c
    /\ line' = [line EXCEPT ![m] = Append(@, c)]
    /\ UNCHANGED busy

Begin(m) ==
    /\ line[m] # <<>>
    /\ ~busy[m]
    /\ busy' = [busy EXCEPT ![m] = TRUE]
    /\ UNCHANGED line

Finish(m) ==
    /\ busy[m]
    /\ busy' = [busy EXCEPT ![m] = FALSE]
    /\ line' = [line EXCEPT ![m] = Tail(@)]

Next == \E m \in Members : (\E c \in Calls : Submit(m, c)) \/ Begin(m) \/ Finish(m)

(* One at a time and in order, ...                                             *)
Safety == Init /\ [][Next]_vars

(* ... and never waiting for another: work is begun for every character, and   *)
(* finished unless that very character hangs.                                  *)
Fairness ==
    /\ \A m \in Members : WF_vars(Begin(m))
    /\ \A m \in Members \ Hanging : WF_vars(Finish(m))

Spec == Safety /\ Fairness
================================================================================
