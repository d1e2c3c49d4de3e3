------------------------------ MODULE MCDareTurns ------------------------------
(* DareTurns on a small instance.                                              *)
EXTENDS DareTurns, FiniteSets

CONSTANTS a, b, c

Three == <<a, b, c>>
Two == <<a, b>>

(* What goes on after the game is over, if it will not be resumed, is nobody's   *)
(* turn.                                                                         *)
Unfinished == dare.on \/ restarts < MaxRestarts

(* At most two handlers await at a time, and one in the last round.              *)
FewHandlers ==
    Cardinality(drawing) + Cardinality({p \in Players : ending[p] > 0})
        <= IF dare.round < TotalRounds THEN 2 ELSE 1

================================================================================
