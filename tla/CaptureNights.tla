----------------------------- MODULE CaptureNights -----------------------------
(* What a kidnappers game promises those who play it: one is captured only at  *)
(* night, at most one each night, and may be released; a game that is over     *)
(* holds nobody, and captures nobody any more.  KidnappersGame implements this *)
(* specification.                                                              *)

CONSTANT Members

VARIABLES
    night,
    spent,          \* no capture is left this night
    held,           \* who is captured
    over

vars == <<night, spent, held, over>>

Init == night = FALSE /\ spent = TRUE /\ held = {} /\ over = FALSE

(* There may be nobody left to capture anybody. *)
Nightfall ==
    /\ ~over /\ ~night
    /\ night' = TRUE /\ spent' \in BOOLEAN
    /\ UNCHANGED <<held, over>>

Capture ==
    /\ ~over /\ night /\ ~spent
    /\ spent' = TRUE
    /\ \E m \in Members \ held : held' = held \cup {m}
    /\ UNCHANGED <<night, over>>

Forgo ==
    /\ night /\ ~spent
    /\ spent' = TRUE
    /\ UNCHANGED <<night, held, over>>

Dawn ==
    /\ night
    /\ night' = FALSE /\ spent' = TRUE
    /\ UNCHANGED <<held, over>>

Release ==
    /\ ~over
    /\ \E m \in held : held' = held \ {m}
    /\ UNCHANGED <<night, spent, over>>

End ==
    /\ ~over /\ over' = TRUE
    /\ held' = {}
    /\ night' = FALSE /\ spent' = TRUE

Next == Nightfall \/ Capture \/ Forgo \/ Dawn \/ Release \/ End

Spec == Init /\ [][Next]_vars

================================================================================
