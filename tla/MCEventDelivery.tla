---------------------------- MODULE MCEventDelivery ----------------------------
(* EventDelivery on a small instance.                                          *)
EXTENDS EventDelivery

CONSTANTS l1, l2, i

(* Calls are interchangeable: they are made in the order of their numbers.     *)
InOrder == \A c \in Calls : phase[c] # "new" => turn[c] = c

(* One of them at most has no delivery id.                                     *)
MostWithId == \A c \in Calls : phase[c] # "new" /\ c > 0 => idOf[c] # NoId

(* One listener is of all types, and may be of this type as well.              *)
OneOfAllTypes == subs["wildcard"] \in {<<>>, <<l2>>}

================================================================================
