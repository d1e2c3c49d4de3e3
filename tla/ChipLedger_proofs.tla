---------------------------- MODULE ChipLedger_proofs ---------------------------
(* Proofs, for all members, calls, amounts and prices and any number of         *)
(* failures, that balances stay natural numbers, that locked chips are covered  *)
(* by the balance until two changes overlap, and that the recorded events       *)
(* explain the balance of every member whose changes neither overlapped nor     *)
(* lost an event.                                                               *)
EXTENDS ChipLedger, TLAPS

(* A call that is under way is for a member.                                    *)
CallsOK == \A c \in Calls : pc[c] \notin {"idle", "done"} => member[c] \in Members

(* The part of TypeOK that is about the calls.                                  *)
CallTypesOK ==
    /\ pc \in [Calls -> {"idle", "bondage", "balance", "current", "read", "write",
                         "record", "audit", "done"}]
    /\ kind \in [Calls -> Kinds]
    /\ member \in [Calls -> Members \cup {None}]
    /\ amount \in [Calls -> Nat]
    /\ view \in [Calls -> Account]
    /\ delta \in [Calls -> Int]
    /\ attempt \in [Calls -> 0..2]

(* The inductive invariant.                                                     *)
IInv == TypeOK /\ CallsOK /\ LockedCovered

--------------------------------------------------------------------------------
(* The changes                                                                  *)

(* Every change of an account, computed from any account, is an account, ...    *)
LEMMA ChangedIsAccount ==
    ASSUME NEW k \in Kinds, NEW n \in Nat, NEW a \in Account
    PROVE  Changed(k, n, a) \in Account
PROOF
<1> USE AmountsAssumption DEF Account
<1>1. AtLeast(a.locked, a.chips - n) \in Nat
  BY DEF AtLeast
<1>2. Available(a) \in Nat /\ (Available(a) >= Price => a.chips >= Price)
  BY DEF Available
<1>3. HalfUp(a.chips) \in Nat /\ HalfUp(a.chips) <= a.chips
  BY DEF HalfUp
<1>4. CASE k = "award"
  BY <1>4 DEF Changed, Awarded
<1>5. CASE k = "deduct"
  BY <1>1, <1>5 DEF Changed, Deducted
<1>6. CASE k = "lock"
  <2>1. AtMost(n, Available(a)) \in Nat
    BY <1>2 DEF AtMost
  <2> QED BY <1>6, <2>1 DEF Changed, Locked
<1>7. CASE k = "unlock"
  BY <1>7 DEF Changed, Unlocked
<1>8. CASE k = "buy unlock"
  <2>1. a.chips - HalfUp(a.chips) \in Nat
    BY <1>3
  <2> QED BY <1>8, <2>1 DEF Changed, UnlockBought
<1>9. CASE k = "buy protection"
  <2>1. CASE Available(a) >= Price
    <3>1. a.chips - Price \in Nat
      BY <1>2, <2>1
    <3> QED BY <1>9, <2>1, <3>1 DEF Changed, ProtectionBought
  <2>2. CASE ~(Available(a) >= Price)
    BY <1>9, <2>2 DEF Changed, ProtectionBought
  <2> QED BY <2>1, <2>2
<1>10. CASE k \in {"purchase", "none"}
  BY <1>10 DEF Changed
<1> QED BY <1>4, <1>5, <1>6, <1>7, <1>8, <1>9, <1>10 DEF Kinds

(* ... and covers its locked chips when the one it was computed from does; what *)
(* the write leaves out has not changed.                                        *)
LEMMA ChangedIsCovered ==
    ASSUME NEW k \in Kinds, NEW n \in Nat, NEW a \in Account, a.locked <= a.chips
    PROVE  /\ Changed(k, n, a).locked <= Changed(k, n, a).chips
           /\ WritesChips(k) \/ Changed(k, n, a).chips = a.chips
           /\ WritesLocked(k) \/ Changed(k, n, a).locked = a.locked
PROOF
<1> USE AmountsAssumption DEF Account
<1>1. /\ AtLeast(a.locked, a.chips - n) \in Int
      /\ AtLeast(a.locked, a.chips - n) >= a.locked
  BY DEF AtLeast
<1>2. Available(a) = a.chips - a.locked
  BY DEF Available
<1>3. CASE k = "award"
  BY <1>3 DEF Changed, Awarded, WritesChips, WritesLocked
<1>4. CASE k = "deduct"
  BY <1>1, <1>4 DEF Changed, Deducted, WritesChips, WritesLocked
<1>5. CASE k = "lock"
  <2>1. a.locked + AtMost(n, Available(a)) <= a.chips
    BY <1>2 DEF AtMost
  <2> QED BY <1>5, <2>1 DEF Changed, Locked, WritesChips, WritesLocked
<1>6. CASE k = "unlock"
  BY <1>6 DEF Changed, Unlocked, WritesChips, WritesLocked
<1>7. CASE k = "buy unlock"
  <2>1. a.chips - HalfUp(a.chips) \in Nat
    BY DEF HalfUp
  <2>2. CASE a.locked > 0
    <3>1. Changed(k, n, a).chips = a.chips - HalfUp(a.chips) /\ Changed(k, n, a).locked = 0
      BY <1>7, <2>2 DEF Changed, UnlockBought
    <3>2. WritesChips(k) /\ WritesLocked(k)
      BY <1>7 DEF WritesChips, WritesLocked
    <3> QED BY <2>1, <3>1, <3>2
  <2>3. CASE ~(a.locked > 0)
    <3>1. Changed(k, n, a) = a
      BY <1>7, <2>3 DEF Changed, UnlockBought
    <3> QED BY <3>1
  <2> QED BY <2>2, <2>3
<1>8. CASE k = "buy protection"
  <2>1. CASE Available(a) >= Price
    <3>1. Changed(k, n, a).chips = a.chips - Price /\ Changed(k, n, a).locked = a.locked
      BY <1>8, <2>1 DEF Changed, ProtectionBought
    <3>2. WritesChips(k)
      BY <1>8 DEF WritesChips
    <3> QED BY <1>2, <2>1, <3>1, <3>2
  <2>2. CASE ~(Available(a) >= Price)
    <3>1. Changed(k, n, a) = a
      BY <1>8, <2>2 DEF Changed, ProtectionBought
    <3> QED BY <3>1
  <2> QED BY <2>1, <2>2
<1>9. CASE k \in {"purchase", "none"}
  BY <1>9 DEF Changed
<1> QED BY <1>3, <1>4, <1>5, <1>6, <1>7, <1>8, <1>9 DEF Kinds

(* So a write over the account it was computed from leaves a covered account.   *)
LEMMA WrittenIsCovered ==
    ASSUME NEW k \in Kinds, NEW n \in Nat, NEW a \in Account, a.locked <= a.chips
    PROVE  Written(k, Changed(k, n, a), a).locked <= Written(k, Changed(k, n, a), a).chips
BY ChangedIsCovered DEF Written

(* What a write leaves is an account.                                           *)
LEMMA WrittenIsAccount ==
    ASSUME NEW k \in Kinds, NEW new \in Account, NEW old \in Account
    PROVE  Written(k, new, old) \in Account
BY DEF Written, Account

--------------------------------------------------------------------------------
(* The steps                                                                    *)

LEMMA InitIInv == Init => IInv
PROOF
<1> SUFFICES ASSUME Init PROVE IInv
  OBVIOUS
<1>1. TypeOK
  BY AmountsAssumption, FailuresAssumption DEF Init, TypeOK, Account, NoAccount, Kinds
<1>2. CallsOK
  BY DEF Init, CallsOK
<1>3. LockedCovered
  <2>1. ASSUME NEW m \in Members PROVE account[m].locked <= account[m].chips
    <3>1. account[m].locked = 0 /\ account[m].chips = InitialChips
      BY DEF Init
    <3> QED BY <3>1, AmountsAssumption
  <2> QED BY <2>1 DEF LockedCovered
<1> QED BY <1>1, <1>2, <1>3 DEF IInv

(* The end of a call, and the start of one, keep the types and CallsOK.         *)
LEMMA EndStep ==
    ASSUME IInv, NEW c \in Calls, End(c)
    PROVE  CallTypesOK' /\ CallsOK'
PROOF
<1>1. NoAccount \in Account
  BY DEF NoAccount, Account
<1>2. pc' = [pc EXCEPT ![c] = "done"] /\ member' = [member EXCEPT ![c] = None]
  BY DEF End
<1>3. CallsOK'
  BY <1>2 DEF CallsOK, IInv, TypeOK
<1>4. kind' \in [Calls -> Kinds]
  <2>1. "none" \in Kinds
    BY DEF Kinds
  <2> QED BY <2>1 DEF End, IInv, TypeOK
<1>5. view' \in [Calls -> Account]
  BY <1>1 DEF End, IInv, TypeOK
<1>6. /\ pc' \in [Calls -> {"idle", "bondage", "balance", "current", "read", "write",
                            "record", "audit", "done"}]
      /\ member' \in [Calls -> Members \cup {None}]
  BY <1>2 DEF IInv, TypeOK
<1>7. amount' \in [Calls -> Nat] /\ delta' \in [Calls -> Int] /\ attempt' \in [Calls -> 0..2]
  BY DEF End, IInv, TypeOK
<1> QED BY <1>3, <1>4, <1>5, <1>6, <1>7 DEF CallTypesOK

LEMMA StartStep ==
    ASSUME IInv, NEW c \in Calls, NEW k \in Kinds, NEW m \in Members, NEW n \in Nat,
           NEW where \in {"bondage", "balance", "read"}, Start(c, k, m, n, where)
    PROVE  CallTypesOK' /\ CallsOK'
PROOF
<1> USE DEF IInv, TypeOK, Start
<1>1. CallsOK'
  BY DEF CallsOK
<1>2. CallTypesOK'
  BY DEF CallTypesOK
<1> QED BY <1>1, <1>2

(* TypeOK from its parts.                                                       *)
LEMMA TypeFromParts ==
    ASSUME IInv, CallTypesOK', UNCHANGED <<stored, failures, history>>
    PROVE  TypeOK' /\ LockedCovered'
BY DEF IInv, TypeOK, CallTypesOK, LockedCovered, stored, history

LEMMA NextIInv == IInv /\ [Next]_vars => IInv'
PROOF
<1> SUFFICES ASSUME IInv, [Next]_vars PROVE IInv'
  OBVIOUS
<1> USE DEF IInv
<1>1. ASSUME NEW c \in Calls, Call(c) PROVE IInv'
  <2>1. PICK m \in Members :
          \/ \E n \in Amounts : Start(c, "award", m, n, "read") \/ Start(c, "deduct", m, n, "read")
          \/ Start(c, "buy unlock", m, 0, "read")
          \/ Start(c, "buy protection", m, 0, "read")
          \/ Start(c, "purchase", m, 0, "balance")
    BY <1>1 DEF Call
  <2>2. PICK k \in Kinds, n \in Nat, where \in {"bondage", "balance", "read"} :
          Start(c, k, m, n, where)
    BY <2>1, AmountsAssumption DEF Kinds
  <2>3. CallTypesOK' /\ CallsOK'
    BY <2>2, StartStep
  <2>4. UNCHANGED <<stored, failures, history>>
    BY <1>1 DEF Call
  <2> QED BY <2>3, <2>4, TypeFromParts
<1>2. ASSUME NEW c \in Calls, BondageApplied(c) \/ BondageRemoved(c) PROVE IInv'
  <2>1. PICK k \in Kinds, m \in Members, where \in {"bondage", "balance", "read"} :
          Start(c, k, m, 0, where)
    BY <1>2 DEF BondageApplied, BondageRemoved, Kinds
  <2>2. CallTypesOK' /\ CallsOK'
    BY <2>1, StartStep
  <2>3. UNCHANGED <<stored, failures, history>>
    BY <1>2 DEF BondageApplied, BondageRemoved
  <2> QED BY <2>2, <2>3, TypeFromParts
<1>3. ASSUME NEW c \in Calls, Transfer(c) PROVE IInv'
  <2>1. PICK from \in Members, to \in Members, n \in Amounts :
          /\ pc[c] = "idle" /\ from # to
          /\ IF MayTransfer(account[from], n)
             THEN /\ account' = [account EXCEPT ![from].chips = @ - n, ![to].chips = @ + n]
                  /\ events' = [events EXCEPT ![from] = @ - n, ![to] = @ + n]
             ELSE UNCHANGED <<account, events>>
          /\ pc' = [pc EXCEPT ![c] = "done"]
          /\ UNCHANGED <<protected, claimed, locals, failures, history>>
    BY <1>3 DEF Transfer
  <2>2. n \in Nat /\ account[from] \in Account /\ account[to] \in Account
    BY AmountsAssumption DEF TypeOK
  <2>3. CallsOK'
    BY <2>1 DEF CallsOK, TypeOK, locals
  <2>4. CASE MayTransfer(account[from], n)
    <3>1. account[from].chips - n \in Nat
          /\ account[from].chips - n >= account[from].locked
      BY <2>2, <2>4, AmountsAssumption DEF MayTransfer, Available, Account
    <3>2. account' \in [Members -> Account]
      BY <2>1, <2>2, <2>4, <3>1 DEF TypeOK, Account
    <3>3. events' \in [Members -> Int]
      BY <2>1, <2>2, <2>4 DEF TypeOK
    <3>4. TypeOK'
      BY <2>1, <3>2, <3>3 DEF TypeOK, locals, history
    <3>5. ASSUME NEW m \in Members \ overwritten' PROVE account'[m].locked <= account'[m].chips
      <4>1. account[m] \in Account /\ account[m].locked <= account[m].chips
        BY <2>1, <3>5 DEF LockedCovered, history, TypeOK
      <4> QED BY <2>1, <2>2, <2>4, <3>1, <4>1 DEF TypeOK, Account
    <3> QED BY <2>3, <3>4, <3>5 DEF LockedCovered
  <2>5. CASE ~MayTransfer(account[from], n)
    BY <2>1, <2>3, <2>5 DEF TypeOK, LockedCovered, locals, history
  <2> QED BY <2>4, <2>5
<1>4. ASSUME NEW c \in Calls, Claim(c) PROVE IInv'
  <2>1. PICK m \in Members \ claimed :
          /\ account' = [account EXCEPT ![m].chips = @ + FreeChips]
          /\ events' = [events EXCEPT ![m] = @ + FreeChips]
          /\ claimed' = claimed \cup {m}
    BY <1>4 DEF Claim
  <2>2. CallsOK'
    BY <1>4 DEF Claim, CallsOK, TypeOK, locals
  <2>3. account' \in [Members -> Account] /\ events' \in [Members -> Int]
    BY <2>1, AmountsAssumption DEF TypeOK, Account
  <2>4. TypeOK'
    BY <1>4, <2>1, <2>3 DEF Claim, TypeOK, locals, history
  <2>5. LockedCovered'
    BY <1>4, <2>1, AmountsAssumption DEF Claim, LockedCovered, TypeOK, Account, history
  <2> QED BY <2>2, <2>4, <2>5
<1>5. ASSUME NEW c \in Calls, LockHalf(c) PROVE IInv'
  <2>1. member[c] \in Members /\ HalfUp(account[member[c]].chips) \in Nat
    BY <1>5 DEF LockHalf, CallsOK, TypeOK, Account, HalfUp
  <2>2. CallTypesOK' /\ CallsOK'
    <3>1. CASE End(c)
      BY <3>1, EndStep
    <3>2. CASE ~End(c)
      BY <1>5, <2>1, <3>2 DEF LockHalf, TypeOK, CallTypesOK, CallsOK
    <3> QED BY <3>1, <3>2
  <2>3. UNCHANGED <<stored, failures, history>>
    BY <1>5 DEF LockHalf
  <2> QED BY <2>2, <2>3, TypeFromParts
<1>6. ASSUME NEW c \in Calls, CheckBalance(c) PROVE IInv'
  <2>1. member[c] \in Members /\ account[member[c]].chips \in Nat
    BY <1>6 DEF CheckBalance, CallsOK, TypeOK, Account
  <2>2. CallTypesOK' /\ CallsOK'
    <3>1. CASE End(c)
      BY <3>1, EndStep
    <3>2. CASE ~End(c)
      BY <1>6, <2>1, <3>2, AmountsAssumption DEF CheckBalance, TypeOK, CallTypesOK, CallsOK
    <3> QED BY <3>1, <3>2
  <2>3. UNCHANGED <<stored, failures, history>>
    BY <1>6 DEF CheckBalance
  <2> QED BY <2>2, <2>3, TypeFromParts
<1>7. ASSUME NEW c \in Calls, SavePlayer(c) PROVE IInv'
  <2>1. member[c] \in Members /\ account[member[c]].chips \in Nat /\ amount[c] \in Nat
    BY <1>7 DEF SavePlayer, CallsOK, TypeOK, Account
  <2>2. CallTypesOK' /\ CallsOK'
    <3>1. CASE End(c)
      BY <3>1, EndStep
    <3>2. CASE ~End(c)
      <4>1. PICK k \in {"award", "deduct"}, n \in Nat :
              /\ kind' = [kind EXCEPT ![c] = k] /\ amount' = [amount EXCEPT ![c] = n]
              /\ pc' = [pc EXCEPT ![c] = "read"]
              /\ UNCHANGED <<member, view, delta, attempt>>
        BY <1>7, <2>1, <3>2 DEF SavePlayer
      <4>2. kind' \in [Calls -> Kinds]
        BY <4>1 DEF TypeOK, Kinds
      <4> QED BY <1>7, <2>1, <4>1, <4>2 DEF SavePlayer, TypeOK, CallTypesOK, CallsOK
    <3> QED BY <3>1, <3>2
  <2>3. UNCHANGED <<stored, failures, history>>
    BY <1>7 DEF SavePlayer
  <2> QED BY <2>2, <2>3, TypeFromParts
<1>8. ASSUME NEW c \in Calls, Read(c) PROVE IInv'
  <2>1. member[c] \in Members
    BY <1>8 DEF Read, CallsOK
  <2>2. TypeOK'
    BY <1>8, <2>1 DEF Read, TypeOK, stored, history
  <2>3. CallsOK'
    BY <1>8, <2>1 DEF Read, CallsOK, TypeOK
  <2>4. LockedCovered'
    BY <1>8 DEF Read, LockedCovered, stored, history
  <2> QED BY <2>2, <2>3, <2>4
<1>9. ASSUME NEW c \in Calls, Write(c) PROVE IInv'
  <2> DEFINE new == Changed(kind[c], amount[c], view[c])
             next == Written(kind[c], new, account[member[c]])
  <2>1. /\ member[c] \in Members /\ kind[c] \in Kinds /\ amount[c] \in Nat
        /\ view[c] \in Account /\ account[member[c]] \in Account
    BY <1>9 DEF Write, CallsOK, TypeOK
  <2>2. new \in Account
    BY <2>1, ChangedIsAccount
  <2>3. next \in Account
    BY <2>1, <2>2, WrittenIsAccount
  <2>4. account' = [account EXCEPT ![member[c]] = next]
    BY <1>9 DEF Write
  <2>5. TypeOK'
    <3>1. account' \in [Members -> Account]
      BY <2>3, <2>4 DEF TypeOK
    <3>2. Delta(kind[c], amount[c], view[c], new) \in Int
      BY <2>1, <2>2 DEF Delta, Account
    <3>3. delta' \in [Calls -> Int]
      BY <1>9, <3>2 DEF Write, TypeOK
    <3>4. protected' \subseteq Members /\ overwritten' \subseteq Members
      BY <1>9, <2>1 DEF Write, TypeOK
    <3> HIDE DEF new, next
    <3> QED BY <1>9, <3>1, <3>3, <3>4 DEF Write, TypeOK
  <2>6. CallsOK'
    BY <1>9, <2>1 DEF Write, CallsOK, TypeOK
  <2>7. ASSUME NEW m \in Members \ overwritten' PROVE account'[m].locked <= account'[m].chips
    <3>1. m \notin overwritten /\ account[m].locked <= account[m].chips
      BY <1>9, <2>7 DEF Write, LockedCovered
    <3>2. CASE m = member[c]
      <4>1. view[c] = account[m]
        BY <1>9, <2>7, <3>2 DEF Write
      <4>2. next.locked <= next.chips
        BY <2>1, <3>1, <3>2, <4>1, WrittenIsCovered
      <4> QED BY <2>1, <2>4, <3>2, <4>2 DEF TypeOK
    <3>3. CASE m # member[c]
      BY <2>4, <3>1, <3>3 DEF TypeOK
    <3> QED BY <3>2, <3>3
  <2> QED BY <2>5, <2>6, <2>7 DEF LockedCovered
<1>10. ASSUME NEW c \in Calls, NoWrite(c) \/ Record(c) \/ Audit(c) PROVE IInv'
  <2>1. member[c] \in Members /\ delta[c] \in Int
    BY <1>10 DEF NoWrite, Record, Audit, CallsOK, TypeOK
  <2>2. events' \in [Members -> Int]
    BY <1>10, <2>1 DEF NoWrite, Record, Audit, TypeOK, stored
  <2>3. TypeOK' /\ CallsOK'
    <3>1. CASE End(c)
      BY <1>10, <2>2, <3>1, EndStep DEF NoWrite, Record, Audit, TypeOK, CallTypesOK, stored, history
    <3>2. CASE Goto(c, "audit")
      BY <1>10, <2>1, <2>2, <3>2 DEF NoWrite, Record, Audit, Goto, TypeOK, CallsOK,
                                     locals, stored, history
    <3> QED BY <1>10, <3>1, <3>2 DEF NoWrite, Record, Audit
  <2>4. LockedCovered'
    BY <1>10 DEF NoWrite, Record, Audit, LockedCovered, stored, history
  <2> QED BY <2>3, <2>4
<1>11. ASSUME NEW c \in Calls, Fail(c) PROVE IInv'
  <2>1. member[c] \in Members
    BY <1>11 DEF Fail, CallsOK
  <2>2. /\ failures' \in 0..MaxFailures /\ unrecorded' \subseteq Members
        /\ UNCHANGED <<account, protected, claimed, events, overwritten>>
    BY <1>11, <2>1, FailuresAssumption DEF Fail, TypeOK, stored
  <2>3. TypeOK' /\ CallsOK'
    <3>1. CASE End(c)
      BY <2>2, <3>1, EndStep DEF TypeOK, CallTypesOK
    <3>2. CASE ~End(c)
      <4>1. NoAccount \in Account
        BY DEF NoAccount, Account
      <4>2. attempt' \in [Calls -> 0..2]
        BY <1>11, <3>2 DEF Fail, TypeOK
      <4> QED BY <1>11, <2>1, <2>2, <3>2, <4>1, <4>2 DEF Fail, TypeOK, CallsOK
    <3> QED BY <3>1, <3>2
  <2>4. LockedCovered'
    BY <2>2 DEF LockedCovered
  <2> QED BY <2>3, <2>4
<1>12. CASE TimePasses
  <2>1. TypeOK'
    BY <1>12 DEF TimePasses, TypeOK, locals, history
  <2>2. CallsOK' /\ LockedCovered'
    BY <1>12 DEF TimePasses, CallsOK, LockedCovered, locals, history
  <2> QED BY <2>1, <2>2
<1>13. CASE UNCHANGED vars
  BY <1>13 DEF vars, stored, locals, history, TypeOK, CallsOK, LockedCovered
<1> QED BY <1>1, <1>2, <1>3, <1>4, <1>5, <1>6, <1>7, <1>8, <1>9, <1>10, <1>11, <1>12, <1>13
       DEF Next, Step

--------------------------------------------------------------------------------
(* The recorded events explain the balance                                      *)

(* The calls that have changed the balance of m and not yet recorded it.        *)
Owed(m) == {c \in Calls : pc[c] = "record" /\ member[c] = m}

(* The members of whom every write was of the account as stored, and of whom    *)
(* no event was lost.                                                           *)
Clear == Members \ (overwritten \cup unrecorded)

(* s gives every set of calls the sum of their entries in d.                    *)
IsSum(s, d) ==
    /\ s[{}] = 0
    /\ \A S \in SUBSET Calls : \A c \in Calls \ S : s[S \cup {c}] = s[S] + d[c]

(* The inductive form of BalanceExplained: what is missing from the events is   *)
(* the sum of what is owed.                                                     *)
Explained ==
    \E s \in [SUBSET Calls -> Int] :
        /\ IsSum(s, delta)
        /\ \A m \in Clear : account[m].chips = events[m] + s[Owed(m)]

(* One call's share of a sum.                                                   *)
Share(c, T, n) == IF c \in T THEN n ELSE 0

(* A sum is that of the others and the share of one.                            *)
LEMMA SumSplits ==
    ASSUME NEW s \in [SUBSET Calls -> Int], NEW d \in [Calls -> Int], IsSum(s, d),
           NEW c \in Calls, NEW T \in SUBSET Calls
    PROVE  s[T] = s[T \ {c}] + Share(c, T, d[c])
PROOF
<1>1. CASE c \in T
  <2>1. T \ {c} \in SUBSET Calls /\ c \notin T \ {c} /\ (T \ {c}) \cup {c} = T
    BY <1>1
  <2>2. s[(T \ {c}) \cup {c}] = s[T \ {c}] + d[c]
    BY <2>1 DEF IsSum
  <2> QED BY <1>1, <2>1, <2>2 DEF Share
<1>2. CASE c \notin T
  <2>1. T \ {c} = T
    BY <1>2
  <2>2. s[T] = s[T \ {c}] /\ s[T] \in Int
    BY <2>1
  <2>3. Share(c, T, d[c]) = 0
    BY <1>2 DEF Share
  <2> QED BY <2>2, <2>3
<1> QED BY <1>1, <1>2

(* t is a sum of the entries after that of c in d has become n, and differs from *)
(* the sum s of d by the change of that call's share.                           *)
MovesTo(s, t, d, c, n) ==
    /\ IsSum(t, [d EXCEPT ![c] = n])
    /\ \A T \in SUBSET Calls : /\ t[T] = s[T \ {c}] + Share(c, T, n)
                               /\ s[T] = s[T \ {c}] + Share(c, T, d[c])

(* When the entry of one call changes there is such a sum.                      *)
LEMMA SumMoves ==
    ASSUME NEW s \in [SUBSET Calls -> Int], NEW d \in [Calls -> Int], IsSum(s, d),
           NEW c \in Calls, NEW n \in Int
    PROVE  \E t \in [SUBSET Calls -> Int] : MovesTo(s, t, d, c, n)
PROOF
<1> DEFINE t == [T \in SUBSET Calls |-> s[T \ {c}] + Share(c, T, n)]
           e == [d EXCEPT ![c] = n]
<1>1. t \in [SUBSET Calls -> Int]
  BY DEF Share
<1>2. \A T \in SUBSET Calls : t[T] = s[T \ {c}] + Share(c, T, n)
  OBVIOUS
<1>3. t[{}] = 0
  <2>1. {} \in SUBSET Calls /\ {} \ {c} = {} /\ c \notin {}
    OBVIOUS
  <2>2. t[{}] = s[{}] + Share(c, {}, n)
    BY <1>2, <2>1
  <2> QED BY <2>1, <2>2 DEF IsSum, Share
<1> HIDE DEF t
<1>4. ASSUME NEW T \in SUBSET Calls, NEW x \in Calls \ T PROVE t[T \cup {x}] = t[T] + e[x]
  <2>1. T \cup {x} \in SUBSET Calls /\ T \ {c} \in SUBSET Calls /\ s[T \ {c}] \in Int
    OBVIOUS
  <2>2. t[T \cup {x}] = s[(T \cup {x}) \ {c}] + Share(c, T \cup {x}, n)
    BY <1>2, <2>1
  <2>3. t[T] = s[T \ {c}] + Share(c, T, n)
    BY <1>2
  <2>4. CASE x = c
    <3>1. (T \cup {x}) \ {c} = T \ {c} /\ e[x] = n
      BY <2>4
    <3>2. Share(c, T \cup {x}, n) = n /\ Share(c, T, n) = 0
      BY <2>4 DEF Share
    <3>3. t[T \cup {x}] = s[T \ {c}] + n
      BY <2>2, <3>1, <3>2
    <3>4. t[T] = s[T \ {c}]
      BY <2>1, <2>3, <3>2
    <3> QED BY <3>3, <3>4, <2>1, <2>2, <2>3, <3>1, <3>2
  <2>5. CASE x # c
    <3>1. (T \cup {x}) \ {c} = (T \ {c}) \cup {x} /\ x \in Calls \ (T \ {c}) /\ e[x] = d[x]
      BY <2>5
    <3>2. s[(T \ {c}) \cup {x}] = s[T \ {c}] + d[x]
      BY <2>1, <3>1 DEF IsSum
    <3>3. Share(c, T \cup {x}, n) = Share(c, T, n) /\ Share(c, T, n) \in Int /\ d[x] \in Int
      BY <2>5 DEF Share
    <3> HIDE DEF e
    <3>4. t[T \cup {x}] = (s[T \ {c}] + d[x]) + Share(c, T, n)
      BY <2>2, <3>1, <3>2, <3>3
    <3> QED BY <2>1, <2>3, <3>1, <3>3, <3>4
  <2> QED BY <2>4, <2>5
<1>5. \A T \in SUBSET Calls : s[T] = s[T \ {c}] + Share(c, T, d[c])
  BY SumSplits
<1> QED BY <1>1, <1>2, <1>3, <1>4, <1>5 DEF IsSum, MovesTo

(* What a step of call c that changes its entry to n must do for the            *)
(* explanation of member m to be carried over: the balance without the events   *)
(* changes as the share of c in what is owed does, and no other call comes into *)
(* that or leaves it.                                                           *)
Carries(c, n, m) ==
    /\ Owed(m)' \ {c} = Owed(m) \ {c}
    /\ account'[m].chips - events'[m] - Share(c, Owed(m)', n)
           = account[m].chips - events[m] - Share(c, Owed(m), delta[c])

(* It is carried over when that holds of every member still clear.              *)
LEMMA Carried ==
    ASSUME TypeOK, TypeOK', Explained, NEW c \in Calls, NEW n \in Int,
           delta' = [delta EXCEPT ![c] = n],
           Clear' \subseteq Clear,
           \A m \in Clear' : Carries(c, n, m)
    PROVE  Explained'
PROOF
<1>1. PICK s \in [SUBSET Calls -> Int] :
        /\ IsSum(s, delta)
        /\ \A m \in Clear : account[m].chips = events[m] + s[Owed(m)]
  BY DEF Explained
<1>2. delta \in [Calls -> Int] /\ delta' \in [Calls -> Int] /\ delta'[c] = n
  BY DEF TypeOK
<1>3. PICK t \in [SUBSET Calls -> Int] : MovesTo(s, t, delta, c, n)
  <2>1. IsSum(s, delta)
    BY <1>1
  <2> QED BY <1>2, <2>1, SumMoves
<1>4. ASSUME NEW m \in Clear' PROVE account'[m].chips = events'[m] + t[Owed(m)']
  <2> DEFINE T == Owed(m)
             U == Owed(m)'
  <2>1. T \in SUBSET Calls /\ U \in SUBSET Calls
    BY DEF Owed
  <2>2. U \ {c} = T \ {c}
    BY <1>4 DEF Carries
  <2>3. account[m].chips = events[m] + s[T]
    BY <1>1, <1>4
  <2>4. account'[m].chips - events'[m] - Share(c, U, n)
            = account[m].chips - events[m] - Share(c, T, delta[c])
    BY <1>4 DEF Carries
  <2>5. /\ account[m].chips \in Int /\ events[m] \in Int
        /\ account'[m].chips \in Int /\ events'[m] \in Int
    BY <1>4 DEF TypeOK, Account, Clear
  <2>6. Share(c, U, n) \in Int /\ Share(c, T, delta[c]) \in Int
    BY <1>2 DEF Share
  <2> HIDE DEF T, U
  <2>7. t[U] = s[T \ {c}] + Share(c, U, n) /\ s[T] = s[T \ {c}] + Share(c, T, delta[c])
    BY <1>3, <2>1, <2>2 DEF MovesTo
  <2>8. s[T \ {c}] \in Int
    BY <2>1
  <2>9. account'[m].chips = events'[m] + t[U]
    BY <2>3, <2>4, <2>5, <2>6, <2>7, <2>8
  <2> QED BY <2>9 DEF U
<1> QED BY <1>3, <1>4 DEF Explained, MovesTo

(* A step of a call that neither owed nor will owe an event, and that leaves    *)
(* balances and events alone.                                                   *)
LEMMA Unowed ==
    ASSUME TypeOK, TypeOK', Explained, NEW c \in Calls, NEW n \in Int,
           delta' = [delta EXCEPT ![c] = n],
           pc[c] # "record", pc'[c] # "record",
           \A d \in Calls \ {c} : pc'[d] = pc[d] /\ member'[d] = member[d],
           Clear' \subseteq Clear,
           \A m \in Clear' : account'[m].chips - events'[m] = account[m].chips - events[m]
    PROVE  Explained'
PROOF
<1>1. ASSUME NEW m \in Clear'
      PROVE  Carries(c, n, m)
  <2>1. c \notin Owed(m) /\ c \notin Owed(m)' /\ Owed(m)' = Owed(m)
    BY DEF Owed
  <2> QED BY <2>1 DEF Share, Carries
<1> QED BY <1>1, Carried

(* A change that does not write the chips does not change them.                 *)
LEMMA ChipsKept ==
    ASSUME NEW k \in Kinds, NEW n \in Nat, NEW a \in Account, ~WritesChips(k)
    PROVE  Changed(k, n, a).chips = a.chips
PROOF
<1>1. k \in {"lock", "unlock", "purchase", "none"}
  BY DEF Kinds, WritesChips
<1>2. CASE k = "lock"
  BY <1>2 DEF Changed, Locked, Account
<1>3. CASE k = "unlock"
  BY <1>3 DEF Changed, Unlocked, Account
<1>4. CASE k \in {"purchase", "none"}
  BY <1>4 DEF Changed
<1> QED BY <1>1, <1>2, <1>3, <1>4

(* A write over the account it was computed from changes the balance by what    *)
(* the event is to carry.                                                       *)
LEMMA WrittenByDelta ==
    ASSUME NEW k \in Kinds, NEW n \in Nat, NEW a \in Account
    PROVE  Written(k, Changed(k, n, a), a).chips - Delta(k, n, a, Changed(k, n, a)) = a.chips
PROOF
<1>1. Changed(k, n, a).chips \in Int /\ a.chips \in Int
  BY ChangedIsAccount DEF Account
<1>2. Written(k, Changed(k, n, a), a).chips = Changed(k, n, a).chips
  BY ChipsKept DEF Written
<1> QED BY <1>1, <1>2 DEF Delta

(* At first nothing is owed, and the balance is the opening event, ...          *)
LEMMA InitExplained == Init => Explained
PROOF
<1> SUFFICES ASSUME Init PROVE Explained
  OBVIOUS
<1> DEFINE s == [T \in SUBSET Calls |-> 0]
<1>1. s \in [SUBSET Calls -> Int]
  OBVIOUS
<1>2. IsSum(s, delta)
  <2>1. \A T \in SUBSET Calls : s[T] = 0
    OBVIOUS
  <2>2. \A c \in Calls : delta[c] = 0
    BY DEF Init
  <2>3. \A T \in SUBSET Calls : \A c \in Calls : T \cup {c} \in SUBSET Calls
    OBVIOUS
  <2> HIDE DEF s
  <2> QED BY <2>1, <2>2, <2>3 DEF IsSum
<1>3. ASSUME NEW m \in Clear PROVE account[m].chips = events[m] + s[Owed(m)]
  <2>1. account[m].chips = InitialChips /\ events[m] = InitialChips
    BY <1>3 DEF Init, Clear
  <2>2. s[Owed(m)] = 0
    BY DEF Owed
  <2> QED BY <2>1, <2>2, AmountsAssumption
<1> QED BY <1>1, <1>2, <1>3 DEF Explained

(* ... and every step carries the explanation over.                             *)
LEMMA NextExplained == IInv /\ IInv' /\ Explained /\ [Next]_vars => Explained'
PROOF
<1> SUFFICES ASSUME IInv, IInv', Explained, [Next]_vars PROVE Explained'
  OBVIOUS
<1>1. TypeOK /\ TypeOK' /\ CallsOK
  BY DEF IInv
(* What a call does to itself alone.                                            *)
<1>2. ASSUME NEW c \in Calls, pc[c] # "record",
             \/ End(c)
             \/ \E where \in {"idle", "bondage", "balance", "current", "read", "write", "audit", "done"} :
                    /\ pc' = [pc EXCEPT ![c] = where]
                    /\ \A d \in Calls \ {c} : member'[d] = member[d]
                    /\ delta' = delta \/ delta' = [delta EXCEPT ![c] = 0],
             UNCHANGED <<account, events, overwritten>>, unrecorded \subseteq unrecorded'
      PROVE  Explained'
  <2>1. \E n \in Int : delta' = [delta EXCEPT ![c] = n]
    <3>1. delta = [delta EXCEPT ![c] = delta[c]] /\ delta[c] \in Int
      BY <1>1 DEF TypeOK
    <3>2. CASE delta' = delta
      BY <3>1, <3>2
    <3>3. CASE delta' # delta
      BY <1>2, <3>3 DEF End
    <3> QED BY <3>2, <3>3
  <2>2. pc'[c] # "record" /\ \A d \in Calls \ {c} : pc'[d] = pc[d] /\ member'[d] = member[d]
    BY <1>1, <1>2 DEF End, TypeOK
  <2>3. Clear' \subseteq Clear
    BY <1>2 DEF Clear
  <2>4. \A m \in Clear' : account'[m].chips - events'[m] = account[m].chips - events[m]
    BY <1>2
  <2> QED BY <1>1, <1>2, <2>1, <2>2, <2>3, <2>4, Unowed
<1>3. ASSUME NEW c \in Calls, Call(c) \/ BondageApplied(c) \/ BondageRemoved(c) PROVE Explained'
  <2>1. PICK k \in Kinds, m \in Members, n \in Nat, where \in {"bondage", "balance", "read"} :
          Start(c, k, m, n, where)
    BY <1>3, AmountsAssumption DEF Call, BondageApplied, BondageRemoved, Kinds
  <2>2. pc[c] # "record" /\ \A d \in Calls \ {c} : member'[d] = member[d]
    BY <1>1, <2>1 DEF Start, TypeOK
  <2>3. delta' = delta /\ pc' = [pc EXCEPT ![c] = where]
    BY <2>1 DEF Start
  <2>4. UNCHANGED <<account, events, overwritten>> /\ unrecorded' = unrecorded
    BY <1>3 DEF Call, BondageApplied, BondageRemoved, stored, history
  <2> QED BY <1>2, <2>2, <2>3, <2>4
<1>4. ASSUME NEW c \in Calls,
             LockHalf(c) \/ CheckBalance(c) \/ SavePlayer(c) \/ Read(c) \/ NoWrite(c) \/ Audit(c)
      PROVE  Explained'
  <2>1. pc[c] # "record" /\ UNCHANGED <<account, events, overwritten, unrecorded>>
    BY <1>4 DEF LockHalf, CheckBalance, SavePlayer, Read, NoWrite, Audit, stored, history
  <2>2. CASE End(c)
    BY <1>2, <2>1, <2>2
  <2>3. CASE ~End(c)
    <3>1. PICK where \in {"current", "read", "write", "audit"} :
            pc' = [pc EXCEPT ![c] = where] /\ delta' = delta /\ member' = member
      BY <1>4, <2>3 DEF LockHalf, CheckBalance, SavePlayer, Read, NoWrite, Audit, Goto, locals
    <3> QED BY <1>2, <2>1, <3>1
  <2> QED BY <2>2, <2>3
<1>5. ASSUME NEW c \in Calls, Write(c) PROVE Explained'
  <2> DEFINE me   == member[c]
             new  == Changed(kind[c], amount[c], view[c])
             next == Written(kind[c], new, account[me])
             n    == Delta(kind[c], amount[c], view[c], new)
  <2>1. /\ me \in Members /\ kind[c] \in Kinds /\ amount[c] \in Nat
        /\ view[c] \in Account /\ account[me] \in Account
    BY <1>1, <1>5 DEF Write, CallsOK, TypeOK
  <2>2. n \in Int
    BY <2>1, ChangedIsAccount DEF Delta, Account
  <2>3. /\ pc[c] = "write" /\ pc' = [pc EXCEPT ![c] = "record"]
        /\ account' = [account EXCEPT ![me] = next] /\ delta' = [delta EXCEPT ![c] = n]
        /\ UNCHANGED <<events, member, unrecorded>>
        /\ overwritten' = IF view[c] = account[me] THEN overwritten ELSE overwritten \cup {me}
    BY <1>5 DEF Write
  <2>4. Clear' \subseteq Clear
    BY <2>3 DEF Clear
  <2>5. me \in Clear' => next.chips - n = account[me].chips
    <3>1. me \in Clear' => view[c] = account[me]
      BY <2>3 DEF Clear
    <3> QED BY <2>1, <3>1, WrittenByDelta
  <2>6. ASSUME NEW m \in Clear'
        PROVE  Carries(c, n, m)
    <3> HIDE DEF n, next
    <3>1. m \in Members /\ account'[m].chips \in Int /\ events[m] \in Int /\ account[m].chips \in Int
      BY <1>1, <2>6 DEF Clear, TypeOK, Account
    <3>2. Owed(m)' \ {c} = Owed(m) \ {c} /\ c \notin Owed(m) /\ (c \in Owed(m)' <=> m = me)
      BY <1>1, <2>3 DEF Owed, TypeOK
    <3>3. CASE m = me
      <4>1. account'[m].chips - n = account[m].chips
        BY <1>1, <2>1, <2>3, <2>5, <2>6, <3>3 DEF TypeOK
      <4>2. Share(c, Owed(m)', n) = n /\ Share(c, Owed(m), delta[c]) = 0
        BY <3>2, <3>3 DEF Share
      <4>3. account'[m].chips - events[m] - n = account[m].chips - events[m] - 0
        BY <2>2, <3>1, <4>1
      <4> QED BY <2>3, <3>2, <4>2, <4>3 DEF Carries
    <3>4. CASE m # me
      <4>1. account'[m] = account[m]
        BY <1>1, <2>3, <3>1, <3>4 DEF TypeOK
      <4> QED BY <2>3, <3>2, <3>4, <4>1 DEF Share, Carries
    <3> QED BY <3>3, <3>4
  <2> HIDE DEF n
  <2> QED BY <1>1, <2>2, <2>3, <2>4, <2>6, Carried
<1>6. ASSUME NEW c \in Calls, Record(c) PROVE Explained'
  <2>1. PICK n \in Int : delta' = [delta EXCEPT ![c] = n]
    <3>1. delta = [delta EXCEPT ![c] = delta[c]] /\ delta[c] \in Int
      BY <1>1 DEF TypeOK
    <3> QED BY <1>6, <3>1 DEF Record, End, Goto, locals
  <2>2. /\ pc[c] = "record" /\ member[c] \in Members
        /\ events' = [events EXCEPT ![member[c]] = @ + delta[c]]
        /\ UNCHANGED <<account, overwritten, unrecorded>>
    BY <1>1, <1>6 DEF Record, CallsOK, history
  <2>3. pc'[c] # "record" /\ \A d \in Calls \ {c} : pc'[d] = pc[d] /\ member'[d] = member[d]
    BY <1>1, <1>6 DEF Record, End, Goto, TypeOK, locals
  <2>4. Clear' = Clear
    BY <2>2 DEF Clear
  <2>5. ASSUME NEW m \in Clear'
        PROVE  Carries(c, n, m)
    <3>1. m \in Members /\ events[m] \in Int /\ account[m].chips \in Int /\ delta[c] \in Int
      BY <1>1, <2>5 DEF Clear, TypeOK, Account
    <3>2. Owed(m)' \ {c} = Owed(m) \ {c} /\ c \notin Owed(m)' /\ (c \in Owed(m) <=> m = member[c])
      BY <2>2, <2>3 DEF Owed
    <3>3. events'[m] = events[m] + Share(c, Owed(m), delta[c])
      BY <1>1, <2>2, <3>1, <3>2 DEF Share, TypeOK
    <3>4. Share(c, Owed(m)', n) = 0 /\ Share(c, Owed(m), delta[c]) \in Int
      BY <3>1, <3>2 DEF Share
    <3> QED BY <2>2, <3>1, <3>2, <3>3, <3>4 DEF Carries
  <2> QED BY <1>1, <2>1, <2>4, <2>5, Carried
<1>7. ASSUME NEW c \in Calls, Fail(c) PROVE Explained'
  <2>0. PICK n \in Int : n = 0
    OBVIOUS
  <2>1. /\ UNCHANGED <<account, events, overwritten>> /\ unrecorded \subseteq unrecorded'
        /\ pc[c] = "record" => unrecorded' = unrecorded \cup {member[c]}
    BY <1>7 DEF Fail, stored
  <2>2. /\ delta' = [delta EXCEPT ![c] = n]
        /\ pc'[c] # "record" /\ \A d \in Calls \ {c} : pc'[d] = pc[d] /\ member'[d] = member[d]
    BY <1>1, <1>7, <2>0 DEF Fail, End, TypeOK
  <2>3. Clear' \subseteq Clear
    BY <2>1 DEF Clear
  <2>4. ASSUME NEW m \in Clear'
        PROVE  Carries(c, n, m)
    <3>1. c \notin Owed(m)
      BY <2>1, <2>4 DEF Owed, Clear
    <3>2. Owed(m)' = Owed(m)
      BY <2>2, <3>1 DEF Owed
    <3> QED BY <2>1, <3>1, <3>2 DEF Share, Carries
  <2> QED BY <1>1, <2>2, <2>3, <2>4, Carried
<1>8. ASSUME NEW c \in Calls, Transfer(c) \/ Claim(c) PROVE Explained'
  <2>1. /\ pc[c] = "idle" /\ pc' = [pc EXCEPT ![c] = "done"]
        /\ UNCHANGED <<delta, member, overwritten, unrecorded>>
    BY <1>8 DEF Transfer, Claim, locals, history
  <2>2. pc'[c] # "record" /\ \A d \in Calls \ {c} : pc'[d] = pc[d]
    BY <1>1, <2>1 DEF TypeOK
  <2>3. delta' = [delta EXCEPT ![c] = delta[c]] /\ delta[c] \in Int
    BY <1>1, <2>1 DEF TypeOK
  <2>4. Clear' = Clear
    BY <2>1 DEF Clear
  <2>5. ASSUME NEW m \in Clear'
        PROVE  account'[m].chips - events'[m] = account[m].chips - events[m]
    <3>1. m \in Members /\ \A x \in Members : account[x].chips \in Int /\ events[x] \in Int
      BY <1>1, <2>5 DEF Clear, TypeOK, Account
    <3>2. CASE Transfer(c)
      <4>1. PICK from \in Members, to \in Members, n \in Amounts :
              /\ from # to
              /\ IF MayTransfer(account[from], n)
                 THEN /\ account' = [account EXCEPT ![from].chips = @ - n, ![to].chips = @ + n]
                      /\ events' = [events EXCEPT ![from] = @ - n, ![to] = @ + n]
                 ELSE UNCHANGED <<account, events>>
        BY <3>2 DEF Transfer
      <4>2. n \in Int
        BY AmountsAssumption
      <4>3. CASE MayTransfer(account[from], n)
        <5>1. /\ events'[m] = IF m = from THEN events[m] - n
                              ELSE IF m = to THEN events[m] + n ELSE events[m]
              /\ account'[m].chips = IF m = from THEN account[m].chips - n
                                     ELSE IF m = to THEN account[m].chips + n
                                     ELSE account[m].chips
          BY <1>1, <3>1, <4>1, <4>3 DEF TypeOK, Account
        <5> QED BY <3>1, <4>2, <5>1
      <4>4. CASE ~MayTransfer(account[from], n)
        BY <4>1, <4>4
      <4> QED BY <4>3, <4>4
    <3>3. CASE Claim(c)
      <4>1. PICK x \in Members \ claimed :
              /\ account' = [account EXCEPT ![x].chips = @ + FreeChips]
              /\ events' = [events EXCEPT ![x] = @ + FreeChips]
        BY <3>3 DEF Claim
      <4>2. /\ events'[m] = IF m = x THEN events[m] + FreeChips ELSE events[m]
            /\ account'[m].chips = IF m = x THEN account[m].chips + FreeChips ELSE account[m].chips
        BY <1>1, <3>1, <4>1 DEF TypeOK, Account
      <4> QED BY <3>1, <4>2, AmountsAssumption
    <3> QED BY <1>8, <3>2, <3>3
  <2> QED BY <1>1, <2>1, <2>2, <2>3, <2>4, <2>5, Unowed
<1>9. CASE TimePasses \/ UNCHANGED vars
  BY <1>9 DEF TimePasses, vars, stored, locals, history, Explained, Clear, Owed
<1> QED BY <1>3, <1>4, <1>5, <1>6, <1>7, <1>8, <1>9 DEF Next, Step

--------------------------------------------------------------------------------
(* The theorems                                                                 *)

(* The invariant the others follow from.                                        *)
THEOREM Invariance == Spec => []IInv
BY InitIInv, NextIInv, PTL DEF Spec

(* Balances and locked chips are natural numbers at all times, however changes, *)
(* retries and failures interleave: no overlap takes a balance below zero.      *)
THEOREM TypeCorrect == Spec => []TypeOK
<1>1. IInv => TypeOK
  BY DEF IInv
<1> QED BY <1>1, Invariance, PTL

(* Locked chips are covered by the balance of every member whose changes have   *)
(* not overlapped.                                                              *)
THEOREM LockedCoveredThm == Spec => []LockedCovered
<1>1. IInv => LockedCovered
  BY DEF IInv
<1> QED BY <1>1, Invariance, PTL

(* The recorded events explain every balance that no overlap overwrote and no   *)
(* lost event left unexplained, whatever is retried, clamped or transferred.    *)
THEOREM BalanceExplainedThm == Spec => []BalanceExplained
<1>1. IInv /\ Explained => BalanceExplained
  <2> SUFFICES ASSUME IInv, Explained, NEW m \in Members \ (overwritten \cup unrecorded),
                      \A c \in Calls : pc[c] = "record" => member[c] # m
               PROVE  account[m].chips = events[m]
    BY DEF BalanceExplained
  <2>1. PICK s \in [SUBSET Calls -> Int] :
          IsSum(s, delta) /\ \A x \in Clear : account[x].chips = events[x] + s[Owed(x)]
    BY DEF Explained
  <2>2. Owed(m) = {} /\ m \in Clear
    BY DEF Owed, Clear
  <2>3. account[m].chips = events[m] + s[{}] /\ s[{}] = 0
    BY <2>1, <2>2 DEF IsSum
  <2>4. events[m] \in Int
    BY DEF IInv, TypeOK
  <2> QED BY <2>3, <2>4
<1>2. IInv /\ Explained /\ [Next]_vars /\ IInv' => Explained'
  BY NextExplained
<1> QED BY <1>1, <1>2, InitExplained, Invariance, PTL DEF Spec

================================================================================
