-------------------------- MODULE MCKidnappersSession --------------------------
(* KidnappersSession on a small instance.                                      *)
EXTENDS KidnappersSession

(* Operations are interchangeable: they are dispatched in the order of their   *)
(* numbers.                                                                    *)
InOrder == \A c, d \in Calls : d < c /\ pc[c] # "new" => pc[d] # "new"

CONSTANT stop

(* The session is shut down by the last operation.                             *)
StopLast == \A c \in Calls : keyOf[c] = stop => \A d \in Calls : d <= c

================================================================================
