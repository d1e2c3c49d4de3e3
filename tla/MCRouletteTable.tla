---------------------------- MODULE MCRouletteTable ----------------------------
(* RouletteTable on a small instance.                                          *)
EXTENDS RouletteTable, TLC

CONSTANTS m1, m2, b1, b2, b3

(* Two bets of one member, which may overlap, and one of another.              *)
OwnerOf == b1 :> m1 @@ b2 :> m1 @@ b3 :> m2

(* What follows the third upset is left aside, and the table is closed, or the *)
(* game ended, with two bets at most.                                          *)
FewUpsets == Cardinality(upsets \ {"answer lost"}) < 3
FewAtClose == closings > 0 => "new" \in {pc[b1], pc[b3]}

================================================================================
