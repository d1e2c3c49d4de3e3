------------------------------- MODULE ChipLedger -------------------------------
(* The chips of the characters (bin/games/shared/unifiedCharacterStore.ts),     *)
(* the mutation service that retries and audits their changes                   *)
(* (bin/games/shared/gameStateMutationService.ts), the bondage subscribers that *)
(* lock and unlock them (bin/games/shared/crossSystemSubscribers.ts), and the   *)
(* casino's purchases (bin/games/casino.ts).                                    *)
(*                                                                              *)
(* A change reads the profile, computes the new values and writes those fields, *)
(* in two awaited database operations; then it records an event.  Transfers and *)
(* the daily claim are transactions: each is one step.  A call is a thread; any *)
(* of its awaited operations may reject, and the mutation service may then run  *)
(* the whole change again.                                                      *)
EXTENDS Integers

CONSTANTS
    Members,
    Calls,              \* the calls made, each once
    Amounts,            \* the amounts awarded, deducted and transferred
    Price,              \* of one protection, of one casino purchase
    FreeChips,          \* the daily grant
    InitialChips,
    MaxFailures,        \* bound on rejected database operations
    None

ASSUME MembersAssumption == None \notin Members
ASSUME AmountsAssumption ==
    /\ Amounts \subseteq Nat \ {0} /\ Price \in Nat \ {0}
    /\ FreeChips \in Nat \ {0} /\ InitialChips \in Nat
ASSUME FailuresAssumption == MaxFailures \in Nat

VARIABLES
    account,        \* account[m]: [chips, locked], as stored
    protected,      \* the members whose chips no new bondage locks
    claimed,        \* the members that have had today's free chips
    events,         \* events[m]: the sum of the balance changes recorded for m
    pc,             \* the calls
    kind,           \* kind[c]: the change that c makes
    member,         \* member[c]: to whom
    amount,         \* amount[c]: of how many chips; the aim of a purchase
    view,           \* view[c]: the account as c read it
    delta,          \* delta[c]: what c changed the balance by, to be recorded
    attempt,        \* attempt[c]: from 0
    failures,       \* bound
    overwritten,    \* history: members with a write computed from an old view
    unrecorded      \* history: members with a change whose event was lost

stored == <<account, protected, claimed, events>>
locals == <<kind, member, amount, view, delta, attempt>>
history == <<overwritten, unrecorded>>
vars == <<stored, pc, locals, failures, history>>

Kinds == {"award", "deduct", "lock", "unlock", "buy unlock", "buy protection",
          "purchase", "none"}
Account == [chips : Nat, locked : Nat]

(* The changes the mutation service makes under withRetry, and those whose     *)
(* audit is part of what is retried.                                           *)
Retried == {"lock", "unlock", "buy unlock", "buy protection"}
AuditRetried == {"lock", "unlock"}

TypeOK ==
    /\ account \in [Members -> Account]
    /\ protected \subseteq Members /\ claimed \subseteq Members
    /\ events \in [Members -> Int]
    /\ pc \in [Calls -> {"idle", "bondage", "balance", "current", "read", "write",
                         "record", "audit", "done"}]
    /\ kind \in [Calls -> Kinds]
    /\ member \in [Calls -> Members \cup {None}]
    /\ amount \in [Calls -> Nat]
    /\ view \in [Calls -> Account]
    /\ delta \in [Calls -> Int]
    /\ attempt \in [Calls -> 0..2]
    /\ failures \in 0..MaxFailures
    /\ overwritten \subseteq Members /\ unrecorded \subseteq Members

NoAccount == [chips |-> 0, locked |-> 0]

Init ==
    /\ account = [m \in Members |-> [chips |-> InitialChips, locked |-> 0]]
    /\ protected = {} /\ claimed = {}
    /\ events = [m \in Members |-> InitialChips]
    /\ pc = [c \in Calls |-> "idle"]
    /\ kind = [c \in Calls |-> "none"]
    /\ member = [c \in Calls |-> None]
    /\ amount = [c \in Calls |-> 0]
    /\ view = [c \in Calls |-> NoAccount]
    /\ delta = [c \in Calls |-> 0]
    /\ attempt = [c \in Calls |-> 0]
    /\ failures = 0
    /\ overwritten = {} /\ unrecorded = {}

--------------------------------------------------------------------------------
(* The changes, computed from an account a                                     *)

AtLeast(x, y) == IF x >= y THEN x ELSE y
AtMost(x, y) == IF x <= y THEN x ELSE y
Available(a) == IF a.chips >= a.locked THEN a.chips - a.locked ELSE 0
HalfUp(n) == (n + 1) \div 2

(* updateChips: a deduction stops at the locked chips, ...                     *)
DeductedToZero(a, n) == [a EXCEPT !.chips = AtLeast(0, a.chips - n)]
Deducted(a, n) == [a EXCEPT !.chips = AtLeast(a.locked, a.chips - n)]
Awarded(a, n) == [a EXCEPT !.chips = a.chips + n]

(* ... lockChips locks what is available, unlockChips everything, ...          *)
Locked(a, n) == [a EXCEPT !.locked = a.locked + AtMost(n, Available(a))]
Unlocked(a) == [a EXCEPT !.locked = 0]

(* ... an unlock costs half of the balance, a protection its price.            *)
UnlockBought(a) ==
    IF a.locked > 0 THEN [chips |-> a.chips - HalfUp(a.chips), locked |-> 0] ELSE a
ProtectionOnCredit(a) == [a EXCEPT !.chips = a.chips - Price]
ProtectionBought(a) ==
    IF Available(a) >= Price THEN [a EXCEPT !.chips = a.chips - Price] ELSE a

(* The account after a change of kind k by n, computed from account a.         *)
Changed(k, n, a) ==
    CASE k = "award"          -> Awarded(a, n)
      [] k = "deduct"         -> Deducted(a, n)
      [] k = "lock"           -> Locked(a, n)
      [] k = "unlock"         -> Unlocked(a)
      [] k = "buy unlock"     -> UnlockBought(a)
      [] k = "buy protection" -> ProtectionBought(a)
      [] OTHER                -> a

(* The fields it writes; the others keep what is stored.                       *)
WritesChips(k) == k \in {"award", "deduct", "buy unlock", "buy protection"}
WritesLocked(k) == k \in {"lock", "unlock", "buy unlock"}

Written(k, new, old) ==
    [chips  |-> IF WritesChips(k) THEN new.chips ELSE old.chips,
     locked |-> IF WritesLocked(k) THEN new.locked ELSE old.locked]

--------------------------------------------------------------------------------
(* The calls                                                                   *)

Start(c, k, m, n, where) ==
    /\ pc[c] = "idle"
    /\ pc' = [pc EXCEPT ![c] = where]
    /\ kind' = [kind EXCEPT ![c] = k]
    /\ member' = [member EXCEPT ![c] = m]
    /\ amount' = [amount EXCEPT ![c] = n]
    /\ UNCHANGED <<view, delta, attempt>>

(* A call that ends forgets its locals.                                        *)
End(c) ==
    /\ pc' = [pc EXCEPT ![c] = "done"]
    /\ kind' = [kind EXCEPT ![c] = "none"]
    /\ member' = [member EXCEPT ![c] = None]
    /\ amount' = [amount EXCEPT ![c] = 0]
    /\ view' = [view EXCEPT ![c] = NoAccount]
    /\ delta' = [delta EXCEPT ![c] = 0]
    /\ attempt' = [attempt EXCEPT ![c] = 0]

Goto(c, where) ==
    /\ pc' = [pc EXCEPT ![c] = where]
    /\ UNCHANGED locals

(* awardChips, deductChips, and the casino's unlock and protect commands.      *)
Call(c) ==
    /\ \E m \in Members :
          \/ \E n \in Amounts : \/ Start(c, "award", m, n, "read")
                                \/ Start(c, "deduct", m, n, "read")
          \/ Start(c, "buy unlock", m, 0, "read")
          \/ Start(c, "buy protection", m, 0, "read")
          \/ Start(c, "purchase", m, 0, "balance")
    /\ UNCHANGED <<stored, failures, history>>

(* The subscribers of bondage_applied, which looks at the profile first, and   *)
(* of bondage_removed.                                                         *)
BondageApplied(c) ==
    /\ \E m \in Members : Start(c, "lock", m, 0, "bondage")
    /\ UNCHANGED <<stored, failures, history>>

BondageRemoved(c) ==
    /\ \E m \in Members : Start(c, "unlock", m, 0, "read")
    /\ UNCHANGED <<stored, failures, history>>

(* Half of the chips are to be locked, unless they are protected.              *)
LockHalf(c) ==
    LET half == HalfUp(account[member[c]].chips)
    IN  /\ pc[c] = "bondage"
        /\ \/ /\ member[c] \notin protected /\ half > 0
              /\ pc' = [pc EXCEPT ![c] = "read"]
              /\ amount' = [amount EXCEPT ![c] = half]
              /\ UNCHANGED <<kind, member, view, delta, attempt>>
           \/ /\ member[c] \in protected \/ half = 0
              /\ End(c)
        /\ UNCHANGED <<stored, failures, history>>

(* A casino purchase: the price is taken from the balance that was read, ...   *)
CheckBalance(c) ==
    LET chips == account[member[c]].chips
    IN  /\ pc[c] = "balance"
        /\ \/ /\ chips >= Price
              /\ amount' = [amount EXCEPT ![c] = chips - Price]
              /\ pc' = [pc EXCEPT ![c] = "current"]
              /\ UNCHANGED <<kind, member, view, delta, attempt>>
           \/ chips < Price /\ End(c)
        /\ UNCHANGED <<stored, failures, history>>

(* ... and savePlayer makes whatever change leads to the result.               *)
SavePlayer(c) ==
    LET chips == account[member[c]].chips
    IN  /\ pc[c] = "current"
        /\ \/ /\ amount[c] > chips
              /\ kind' = [kind EXCEPT ![c] = "award"]
              /\ amount' = [amount EXCEPT ![c] = amount[c] - chips]
              /\ pc' = [pc EXCEPT ![c] = "read"]
              /\ UNCHANGED <<member, view, delta, attempt>>
           \/ /\ amount[c] < chips
              /\ kind' = [kind EXCEPT ![c] = "deduct"]
              /\ amount' = [amount EXCEPT ![c] = chips - amount[c]]
              /\ pc' = [pc EXCEPT ![c] = "read"]
              /\ UNCHANGED <<member, view, delta, attempt>>
           \/ amount[c] = chips /\ End(c)
        /\ UNCHANGED <<stored, failures, history>>

Read(c) ==
    /\ pc[c] = "read"
    /\ view' = [view EXCEPT ![c] = account[member[c]]]
    /\ pc' = [pc EXCEPT ![c] = "write"]
    /\ UNCHANGED <<stored, kind, member, amount, delta, attempt, failures, history>>

(* The event carries the change of the balance that was made.                  *)
DeltaRequested(k, n, a, new) == IF k = "deduct" THEN 0 - n ELSE new.chips - a.chips
Delta(k, n, a, new) == new.chips - a.chips

(* updateOne with $set, whatever is stored by now.                             *)
Write(c) ==
    LET m   == member[c]
        new == Changed(kind[c], amount[c], view[c])
    IN  /\ pc[c] = "write"
        /\ new # view[c]
        /\ account' = [account EXCEPT ![m] = Written(kind[c], new, @)]
        /\ protected' = IF kind[c] = "buy protection" THEN protected \cup {m} ELSE protected
        /\ delta' = [delta EXCEPT ![c] = Delta(kind[c], amount[c], view[c], new)]
        /\ overwritten' = IF view[c] = account[m] THEN overwritten ELSE overwritten \cup {m}
        /\ pc' = [pc EXCEPT ![c] = "record"]
        /\ UNCHANGED <<claimed, events, kind, member, amount, view, attempt,
                       failures, unrecorded>>

(* Nothing to change: the store returns early, a retried closure still audits. *)
NoWrite(c) ==
    /\ pc[c] = "write"
    /\ Changed(kind[c], amount[c], view[c]) = view[c]
    /\ IF kind[c] \in AuditRetried THEN Goto(c, "audit") ELSE End(c)
    /\ UNCHANGED <<stored, failures, history>>

Record(c) ==
    /\ pc[c] = "record"
    /\ events' = [events EXCEPT ![member[c]] = @ + delta[c]]
    /\ IF kind[c] \in AuditRetried THEN Goto(c, "audit") ELSE End(c)
    /\ UNCHANGED <<account, protected, claimed, failures, history>>

Audit(c) ==
    /\ pc[c] = "audit"
    /\ End(c)
    /\ UNCHANGED <<stored, failures, history>>

(* A database operation rejects.  withRetry makes three attempts, each from    *)
(* the beginning; an event that was not inserted is never recorded again.      *)
Fail(c) ==
    /\ failures < MaxFailures /\ failures' = failures + 1
    /\ pc[c] \notin {"idle", "done"}
    /\ unrecorded' = IF pc[c] = "record" THEN unrecorded \cup {member[c]} ELSE unrecorded
    /\ \/ /\ kind[c] \in Retried /\ pc[c] # "bondage" /\ attempt[c] < 2
          /\ attempt' = [attempt EXCEPT ![c] = @ + 1]
          /\ view' = [view EXCEPT ![c] = NoAccount]
          /\ delta' = [delta EXCEPT ![c] = 0]
          /\ pc' = [pc EXCEPT ![c] = "read"]
          /\ UNCHANGED <<kind, member, amount>>
       \/ /\ kind[c] \notin Retried \/ pc[c] = "bondage" \/ attempt[c] = 2
          /\ End(c)
    /\ UNCHANGED <<stored, overwritten>>

--------------------------------------------------------------------------------
(* The transactions                                                            *)

(* transferChipsAtomically: locked chips stay, and the events of both members  *)
(* are inserted in the transaction.                                            *)
MayTransfer(a, n) == Available(a) >= n

Transfer(c) == \E from, to \in Members, n \in Amounts :
    /\ pc[c] = "idle" /\ from # to
    /\ IF MayTransfer(account[from], n)
       THEN /\ account' = [account EXCEPT ![from].chips = @ - n, ![to].chips = @ + n]
            /\ events' = [events EXCEPT ![from] = @ - n, ![to] = @ + n]
       ELSE UNCHANGED <<account, events>>
    /\ pc' = [pc EXCEPT ![c] = "done"]
    /\ UNCHANGED <<protected, claimed, locals, failures, history>>

(* claimDailyFreeChips, once in 24 hours.                                      *)
Claim(c) == \E m \in Members \ claimed :
    /\ pc[c] = "idle"
    /\ account' = [account EXCEPT ![m].chips = @ + FreeChips]
    /\ events' = [events EXCEPT ![m] = @ + FreeChips]
    /\ claimed' = claimed \cup {m}
    /\ pc' = [pc EXCEPT ![c] = "done"]
    /\ UNCHANGED <<protected, locals, failures, history>>

(* Days pass: another claim may be made, protections expire.                   *)
TimePasses ==
    /\ claimed' \in SUBSET claimed /\ protected' \in SUBSET protected
    /\ UNCHANGED <<account, events, pc, locals, failures, history>>

--------------------------------------------------------------------------------
Step(c) ==
    \/ LockHalf(c) \/ CheckBalance(c) \/ SavePlayer(c)
    \/ Read(c) \/ Write(c) \/ NoWrite(c) \/ Record(c) \/ Audit(c)

Next ==
    \/ \E c \in Calls : \/ Call(c) \/ BondageApplied(c) \/ BondageRemoved(c) \/ Transfer(c) \/ Claim(c)
                        \/ Step(c) \/ Fail(c)
    \/ TimePasses

Spec == Init /\ [][Next]_vars

--------------------------------------------------------------------------------
(* Properties                                                                  *)

(* Chips are locked only out of those a member has, and nothing spends them    *)
(* while they are locked: whatever calls are made, retried and interrupted,    *)
(* until two changes of one account overlap and one overwrites the other.      *)
LockedCovered ==
    \A m \in Members \ overwritten : account[m].locked <= account[m].chips

(* The recorded events explain the balance of a member, but for what overlaps  *)
(* overwrote and the events the database did not take: each chip gained, paid, *)
(* clamped or transferred is recorded once, also when a change is retried.     *)
BalanceExplained ==
    \A m \in Members \ (overwritten \cup unrecorded) :
        (\A c \in Calls : pc[c] = "record" => member[c] # m)
            => account[m].chips = events[m]

================================================================================
