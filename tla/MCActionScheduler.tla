--------------------------- MODULE MCActionScheduler ---------------------------
(* ActionScheduler on a small instance.                                        *)
EXTENDS ActionScheduler

(* Calls, and operation ids, are interchangeable, so the model takes each kind *)
(* in one order only.  No fair action makes a call, so the fairness conditions *)
(* are untouched.                                                              *)
FirstUseInOrder ==
    /\ \A c, d \in Calls : c < d /\ promise[c] = None => promise'[d] = None
    /\ \A c \in Calls, o \in OpIds :
           opId'[c] # opId[c] /\ o < opId'[c] => \E d \in Calls : opId[d] = o

================================================================================
