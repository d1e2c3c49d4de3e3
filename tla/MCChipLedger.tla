----------------------------- MODULE MCChipLedger -----------------------------
(* ChipLedger on a small instance.                                             *)
EXTENDS ChipLedger, TLC

MembersSymmetry == Permutations(Members)

(* Calls are interchangeable and made in one order only.                       *)
InOrder == \A c, d \in Calls : c < d /\ pc[c] = "idle" => pc'[d] = "idle"

================================================================================
