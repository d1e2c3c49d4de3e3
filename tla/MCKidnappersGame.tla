---------------------------- MODULE MCKidnappersGame ----------------------------
(* KidnappersCaptures on a small instance: four players, two kidnappers of them,  *)
(* or one when the roles come with the command.                                   *)
EXTENDS KidnappersCaptures, TLC

Small ==
    [n \in MinPlayers..MaxPlayers |->
        [counts |-> [r \in Roles \ {"bystander"} |->
                        CASE r = "kidnapper" -> 2 [] r = "mistress" -> 1 [] OTHER -> 0],
         firstNightKidnapping |-> TRUE, mistressCanProtectHerself |-> FALSE,
         mistressCanPickSameTargetTwice |-> TRUE]]

Two == (1 :> "kidnapper") @@ (2 :> "kidnapper") @@ (3 :> "mistress") @@ (4 :> "bystander")
One == [Two EXCEPT ![2] = "maid", ![4] = "switch"]
Requests == {One}

(* One role at most is assigned before the start.                                 *)
FewAssigned == phase = "lobby" => Cardinality({m \in Members : role[m] # None}) <= 1

DealtSo == phase # "lobby" => \E d \in {One, Two} : \A m \in Players : role[m] = d[m]

(* One player at most is away, and of what is kept of the night and the morning   *)
(* without being looked at later, one case is enough.                             *)
FewGone == Cardinality({m \in Members : status[m] \in {"absent", "disconnected", "eliminated"}})
               <= IF phase = "lobby" THEN Cardinality(Members) ELSE 1
FewKept ==
    /\ \A m \in Members : acted[m] \in IF role[m] = "mistress" THEN {None, 4} ELSE {None, 1}
    /\ phase \in {"voting", "defense", "trial"} \/ round > 0 => skip \subseteq {1}
    /\ accusation # None =>
           /\ accusation.accused \in {1, 4} /\ accusation.accusers \subseteq {1, 3}
           /\ round > 0 => Cardinality(accusation.accusers) <= 1
           /\ due => accusation.guilty \cup accusation.innocent = {}

(* The calls of a night have come to an end by its morning, and two chains at     *)
(* most are under way at once; one player at most is upset, and while there are   *)
(* calls nobody is away and nobody acts.                                          *)
Busy == {p \in Members \X Slots : chain[p[1]][p[2]] # None}
Calls == upset # {} \/ Busy # {}

FewCalls ==
    Calls =>
        /\ phase \in {"night"} \cup Over /\ Cardinality(upset) <= 1
        /\ Cardinality(Busy) <= 2
        /\ status \in [Members -> {"active", "captured"}]
        /\ acted = [m \in Members |-> None] /\ lastTarget = None
        /\ skip = {} /\ accusation = None /\ ~due /\ role = Two
        /\ turn # None => turn.clock # "over"

================================================================================
