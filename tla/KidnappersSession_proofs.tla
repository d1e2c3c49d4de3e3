----------------------- MODULE KidnappersSession_proofs ------------------------
(* Proofs, for every number of objects, operations, keys, failures and         *)
(* restarts, that KidnappersSession implements SessionHistory, and of what its *)
(* objects and audits hold.                                                    *)
EXTENDS KidnappersSession, SequenceTheorems, TLAPS

--------------------------------------------------------------------------------
(* The inductive invariant                                                     *)

(* The version counts the operations applied, and the closing.                 *)
DocOK ==
    /\ doc.version = IF doc.closed THEN Len(doc.state) + 1 ELSE Len(doc.state)
    /\ \A n \in 1..Len(doc.state) : audit[doc.state[n]] # None /\ audit[doc.state[n]].ok

Queued == {"find"} \cup Writes

(* Each operation is in one queue, once, and only the first of a queue writes. *)
QueueOK ==
    /\ \A o \in Objects : \A n \in 1..Len(queue[o]) :
           /\ pc[queue[o][n]] \in Queued /\ keyOf[queue[o][n]] \in Keys
           /\ n > 1 => pc[queue[o][n]] = "find"
    /\ \A o, p \in Objects : \A n \in 1..Len(queue[o]), m \in 1..Len(queue[p]) :
           queue[o][n] = queue[p][m] => o = p /\ n = m

Updating(o) == queue[o] # <<>> /\ pc[Head(queue[o])] = "update"

(* An object holds what was stored, but for the operation it is recording.     *)
StoredMemory(o) ==
    Prefix(mem[o].state, doc.state) /\ mem[o].version = Len(mem[o].state)

(* Nothing but a shutdown is applied to a game that is over.                   *)
MayApply(s, k) == H!Terminal(s) => k \in ShutdownKeys

UncommittedMemory(o, c) ==
    /\ Prefix(before[c], doc.state) /\ MayApply(before[c], keyOf[c])
    /\ mem[o].version = Len(before[c])
    /\ mem[o].state = Append(before[c], keyOf[c])

MemOK ==
    \A o \in Objects :
        /\ Updating(o) => UncommittedMemory(o, Head(queue[o]))
        /\ ~Updating(o) => StoredMemory(o)

IInv == TypeOK /\ DocOK /\ AuditsTellHistory /\ QueueOK /\ MemOK

--------------------------------------------------------------------------------
(* Sequences                                                                   *)

(* What was stored before is stored still when one operation more is applied.  *)
LEMMA PrefixGrows ==
    ASSUME NEW s \in Snapshots, NEW t \in Snapshots, NEW k \in Keys, Prefix(s, t)
    PROVE  Prefix(s, Append(t, k))
BY DEF Prefix, Snapshots

LEMMA PrefixSelf ==
    ASSUME NEW s \in Snapshots
    PROVE  Prefix(s, s) /\ Prefix(<<>>, s)
BY DEF Prefix, Snapshots

(* A stored snapshot with all the operations is the last one.                  *)
LEMMA PrefixSame ==
    ASSUME NEW s \in Snapshots, NEW t \in Snapshots, Prefix(s, t), Len(s) = Len(t)
    PROVE  s = t
BY SeqEqual DEF Prefix, Snapshots

--------------------------------------------------------------------------------
(* The head of a queue                                                         *)

LEMMA HeadFacts ==
    ASSUME IInv, NEW o \in Objects, NEW c \in Calls, Runs(o, c)
    PROVE  /\ queue[o] \in Seq(Calls) /\ 1 \in 1..Len(queue[o]) /\ queue[o][1] = c
           /\ Head(queue[o]) = c
           /\ pc[c] \in Queued /\ keyOf[c] \in Keys
           /\ Updating(o) <=> pc[c] = "update"
           /\ \A p \in Objects : p # o /\ queue[p] # <<>> => Head(queue[p]) # c
<1>1. queue[o] \in Seq(Calls) /\ queue[o] # <<>> /\ c = Head(queue[o])
  BY DEF IInv, TypeOK, Runs
<1>2. 1 \in 1..Len(queue[o]) /\ queue[o][1] = c
  BY <1>1
<1>3. ASSUME NEW p \in Objects, p # o, queue[p] # <<>>, Head(queue[p]) = c
      PROVE  FALSE
  <2>1. queue[p] \in Seq(Calls)
    BY DEF IInv, TypeOK
  <2>2. 1 \in 1..Len(queue[p]) /\ queue[p][1] = c
    BY <1>3, <2>1
  <2> QED
    BY <1>2, <1>3, <2>2 DEF IInv, QueueOK
<1>4. pc[c] \in Queued /\ keyOf[c] \in Keys
  BY <1>2 DEF IInv, QueueOK
<1> QED
  BY <1>1, <1>2, <1>3, <1>4 DEF Updating

--------------------------------------------------------------------------------
(* The document                                                                *)

Applies(k) ==
    /\ k \in Keys /\ audit[k] = None
    /\ ~doc.closed /\ MayApply(doc.state, k)
    /\ doc' = [state |-> Append(doc.state, k), version |-> Len(doc.state) + 1, closed |-> FALSE]
    /\ audit' = [audit EXCEPT ![k] =
                    [state |-> Append(doc.state, k), version |-> Len(doc.state) + 1, ok |-> TRUE]]

Rejects(k) ==
    /\ k \in Keys /\ audit[k] = None
    /\ ~doc.closed
    /\ doc' = doc
    /\ audit' = [audit EXCEPT ![k] =
                    [state |-> doc.state, version |-> Len(doc.state), ok |-> FALSE]]

Closes ==
    /\ ~doc.closed /\ H!Terminal(doc.state)
    /\ doc' = [state |-> doc.state, version |-> Len(doc.state) + 1, closed |-> TRUE]
    /\ audit' = audit

(* A transaction that takes effect adds to the stored snapshot, or records a   *)
(* rejection: the compare on the version finds the snapshot the command was    *)
(* applied to.                                                                 *)
LEMMA CommitStep ==
    ASSUME IInv, NEW o \in Objects, NEW c \in Calls, Commits(o, c)
    PROVE  /\ pc[c] = "update" => Applies(keyOf[c])
           /\ pc[c] = "reject" => Rejects(keyOf[c])
           /\ pc[c] \in Writes
<1>0. TypeOK /\ DocOK /\ MemOK
  BY DEF IInv
<1>1. keyOf[c] \in Keys /\ audit[keyOf[c]] = None /\ pc[c] \in Writes
  BY HeadFacts DEF Commits, Known
<1>2. /\ doc.state \in Snapshots /\ doc.version \in Nat /\ doc.closed \in BOOLEAN
      /\ doc = [state |-> doc.state, version |-> doc.version, closed |-> doc.closed]
  BY <1>0 DEF TypeOK
<1>3. Len(doc.state) \in Nat
  BY <1>2 DEF Snapshots
<1>4. doc.version = mem[o].version
  BY DEF Commits, SameVersion
<1>5. CASE pc[c] = "update"
  <2>1. UncommittedMemory(o, c)
    BY <1>0, <1>5, HeadFacts DEF Commits, MemOK
  <2>2. before[c] \in Snapshots /\ Len(before[c]) \in Nat
    BY <1>0 DEF TypeOK, Snapshots
  <2>3. ~doc.closed /\ Len(before[c]) = Len(doc.state)
    BY <1>0, <1>2, <1>3, <1>4, <2>1, <2>2 DEF UncommittedMemory, Prefix, DocOK
  <2>4. before[c] = doc.state
    BY <1>2, <2>1, <2>2, <2>3, PrefixSame DEF UncommittedMemory
  <2>5. mem[o].state = Append(doc.state, keyOf[c]) /\ doc.version = Len(doc.state)
    BY <1>4, <2>1, <2>3, <2>4 DEF UncommittedMemory
  <2>6. MayApply(doc.state, keyOf[c])
    BY <2>1, <2>4 DEF UncommittedMemory
  <2>7. /\ doc' = [doc EXCEPT !.state = mem[o].state, !.version = @ + 1]
        /\ audit' = [audit EXCEPT ![keyOf[c]] =
                        [state |-> mem[o].state, version |-> doc.version + 1, ok |-> TRUE]]
    BY <1>5 DEF Commits
  <2>8. doc' = [state |-> Append(doc.state, keyOf[c]), version |-> Len(doc.state) + 1,
                closed |-> FALSE]
    BY <1>2, <2>3, <2>5, <2>7
  <2> QED
    BY <1>1, <1>5, <2>3, <2>5, <2>6, <2>7, <2>8 DEF Applies
<1>6. CASE pc[c] = "reject"
  <2>1. StoredMemory(o)
    BY <1>0, <1>6, HeadFacts DEF Commits, MemOK
  <2>2. Len(mem[o].state) \in Nat
    BY <1>0 DEF TypeOK, Memory, Snapshots
  <2>3. ~doc.closed /\ doc.version = Len(doc.state)
    BY <1>0, <1>2, <1>3, <1>4, <2>1, <2>2 DEF StoredMemory, Prefix, DocOK
  <2> QED
    BY <1>1, <1>6, <2>3 DEF Rejects, Commits
<1> QED
  BY <1>1, <1>5, <1>6 DEF Writes

LEMMA StoreStep ==
    ASSUME IInv, [Next]_vars
    PROVE  \/ UNCHANGED store
           \/ \E k \in Keys : Applies(k) \/ Rejects(k)
           \/ Closes
<1>1. ASSUME NEW o \in Objects, NEW c \in Calls, Commit(o, c) \/ AnswerLost(o, c)
      PROVE  \E k \in Keys : Applies(k) \/ Rejects(k)
  <2>1. Commits(o, c)
    BY <1>1 DEF Commit, AnswerLost
  <2> QED
    BY <2>1, CommitStep, HeadFacts DEF Writes, Commits
<1>2. ASSUME NEW o \in Objects, CloseSession(o)
      PROVE  Closes
  BY <1>2 DEF CloseSession, Closes, IInv, DocOK, TypeOK
<1>3. ASSUME NEW o \in Objects, NEW c \in Calls,
             \/ Replay(o, c) \/ Accept(o, c) \/ Refuse(o, c) \/ Found(o, c)
             \/ VersionConflict(o, c) \/ SnapshotInvalid(o, c) \/ ReadFails(o, c)
             \/ TransactionFails(o, c)
      PROVE  UNCHANGED store
  BY <1>3 DEF Replay, Accept, Refuse, Found, VersionConflict, SnapshotInvalid, ReadFails,
              TransactionFails
<1>4. ASSUME NEW o \in Objects, Recover(o)
      PROVE  UNCHANGED store
  BY <1>4 DEF Recover
<1>5. CASE Restart
  BY <1>5 DEF Restart
<1>6. ASSUME NEW c \in Calls, NEW k \in Keys, Dispatch(c, k)
      PROVE  UNCHANGED store
  BY <1>6 DEF Dispatch
<1>7. CASE UNCHANGED vars
  BY <1>7 DEF vars
<1> QED
  BY <1>1, <1>2, <1>3, <1>4, <1>5, <1>6, <1>7 DEF Next, Runnable, Fails

(* The stored snapshot only grows.                                             *)
LEMMA PrefixKept ==
    ASSUME IInv, [Next]_vars, NEW s \in Snapshots, Prefix(s, doc.state)
    PROVE  Prefix(s, doc'.state)
<1>1. doc.state \in Snapshots
  BY DEF IInv, TypeOK
<1>2. ASSUME NEW k \in Keys, Applies(k)
      PROVE  Prefix(s, doc'.state)
  BY <1>1, <1>2, PrefixGrows DEF Applies
<1> QED
  BY <1>2, StoreStep DEF Rejects, Closes, store

(* What the record of an operation holds.                                      *)
LEMMA RecordFacts ==
    ASSUME IInv, NEW k \in Keys, Applies(k) \/ Rejects(k)
    PROVE  /\ audit'[k] # None
           /\ audit'[k].state = doc'.state /\ audit'[k].version = Len(doc'.state)
           /\ audit'[k].ok <=> Applies(k)
<1>0. /\ audit \in [Keys -> Audits \cup {None}] /\ doc.state \in Snapshots
      /\ Len(doc.state) \in Nat
  BY DEF IInv, TypeOK, Snapshots
<1>1. CASE Applies(k)
  <2> DEFINE t == Append(doc.state, k)
  <2> DEFINE r == [state |-> t, version |-> Len(doc.state) + 1, ok |-> TRUE]
  <2>1. t \in Snapshots /\ Len(t) = Len(doc.state) + 1
    BY <1>0 DEF Snapshots
  <2>2. audit' = [audit EXCEPT ![k] = r] /\ doc'.state = t
    BY <1>1 DEF Applies
  <2> HIDE DEF t
  <2>3. r \in Audits /\ r.state = t /\ r.version = Len(t) /\ r.ok = TRUE
    BY <1>0, <2>1 DEF Audits
  <2> HIDE DEF r
  <2>4. audit'[k] = r /\ r # None
    BY <1>0, <2>2, <2>3, NoAuditAssumption
  <2> QED
    BY <1>1, <2>2, <2>3, <2>4
<1>2. CASE Rejects(k)
  <2> DEFINE r == [state |-> doc.state, version |-> Len(doc.state), ok |-> FALSE]
  <2>1. r \in Audits /\ r.state = doc.state /\ r.version = Len(doc.state) /\ r.ok = FALSE
    BY <1>0 DEF Audits
  <2>2. audit' = [audit EXCEPT ![k] = r] /\ doc' = doc
    BY <1>2 DEF Rejects
  <2>3. ~Applies(k)
    <3>1. ASSUME Applies(k) PROVE FALSE
      <4>1. doc'.state = Append(doc.state, k)
        BY <3>1 DEF Applies
      <4> QED
        BY <1>0, <2>2, <4>1 DEF Snapshots
    <3> QED
      BY <3>1
  <2> HIDE DEF r
  <2>4. audit'[k] = r /\ r # None
    BY <1>0, <2>1, <2>2, NoAuditAssumption
  <2> QED
    BY <2>1, <2>2, <2>3, <2>4
<1> QED
  BY <1>1, <1>2

LEMMA NextStoreOK ==
    ASSUME IInv, [Next]_vars
    PROVE  /\ DocOK' /\ AuditsTellHistory'
           /\ doc' \in [state : Snapshots, version : Nat, closed : BOOLEAN]
           /\ audit' \in [Keys -> Audits \cup {None}]
<1>0. /\ DocOK /\ AuditsTellHistory
      /\ doc \in [state : Snapshots, version : Nat, closed : BOOLEAN]
      /\ audit \in [Keys -> Audits \cup {None}]
      /\ doc.state \in Snapshots /\ Len(doc.state) \in Nat
  BY DEF IInv, TypeOK, Snapshots
<1>n. \A k \in Keys : audit[k] # None => audit[k] \in Audits
  BY <1>0
<1>1. ASSUME NEW k \in Keys, Applies(k)
      PROVE  /\ DocOK' /\ AuditsTellHistory'
             /\ doc' \in [state : Snapshots, version : Nat, closed : BOOLEAN]
             /\ audit' \in [Keys -> Audits \cup {None}]
  <2> DEFINE t == Append(doc.state, k)
  <2>1. /\ t \in Snapshots /\ Len(t) = Len(doc.state) + 1 /\ t[Len(t)] = k
        /\ \A n \in 1..Len(doc.state) : t[n] = doc.state[n]
    BY <1>0 DEF Snapshots
  <2>2. /\ doc' = [state |-> t, version |-> Len(t), closed |-> FALSE]
        /\ audit' = [audit EXCEPT ![k] = [state |-> t, version |-> Len(t), ok |-> TRUE]]
    BY <1>1, <2>1 DEF Applies
  <2> HIDE DEF t
  <2>3. [state |-> t, version |-> Len(t), ok |-> TRUE] \in Audits
    BY <1>0, <2>1 DEF Audits
  <2>4. /\ doc' \in [state : Snapshots, version : Nat, closed : BOOLEAN]
        /\ audit' \in [Keys -> Audits \cup {None}]
    BY <1>0, <2>1, <2>2, <2>3
  <2>5. /\ audit'[k] = [state |-> t, version |-> Len(t), ok |-> TRUE] /\ audit'[k] # None
        /\ audit'[k].state = t /\ audit'[k].version = Len(t) /\ audit'[k].ok
    BY <1>0, <2>2, <2>3, NoAuditAssumption
  <2>6. \A j \in Keys : j # k => audit'[j] = audit[j]
    BY <1>0, <2>2
  <2>7. /\ doc'.state = t /\ doc'.version = Len(t) /\ doc'.closed = FALSE
    BY <2>2
  <2>8. ASSUME NEW n \in 1..Len(t)
        PROVE  audit'[t[n]] # None /\ audit'[t[n]].ok
    <3>1. CASE n = Len(t)
      BY <2>1, <2>5, <3>1
    <3>2. CASE n # Len(t)
      <4>1. n \in 1..Len(doc.state)
        BY <1>0, <2>1, <3>2
      <4>2. t[n] \in Keys /\ audit[t[n]] # None /\ audit[t[n]].ok
        BY <1>0, <2>1, <4>1 DEF DocOK, Snapshots
      <4> QED
        BY <2>5, <2>6, <4>2
    <3> QED
      BY <3>1, <3>2
  <2>9. DocOK'
    BY <2>7, <2>8 DEF DocOK
  <2>10. ASSUME NEW j \in Keys, audit'[j] # None
         PROVE  /\ Prefix(audit'[j].state, t) /\ audit'[j].version = Len(audit'[j].state)
                /\ audit'[j].ok =>
                      audit'[j].version > 0 /\ audit'[j].state[audit'[j].version] = j
    <3>1. CASE j = k
      BY <1>0, <2>1, <2>5, <3>1, PrefixSelf
    <3>2. CASE j # k
      <4>1. audit[j] # None /\ audit'[j] = audit[j] /\ audit[j].state \in Snapshots
        BY <1>n, <2>6, <2>10, <3>2 DEF Audits
      <4>2. Prefix(audit[j].state, t)
        BY <1>0, <1>1, <4>1, PrefixGrows DEF AuditsTellHistory, t
      <4> QED
        BY <1>0, <4>1, <4>2 DEF AuditsTellHistory
    <3> QED
      BY <3>1, <3>2
  <2>11. AuditsTellHistory'
    BY <2>7, <2>10 DEF AuditsTellHistory
  <2> QED
    BY <2>4, <2>9, <2>11
<1>2. ASSUME NEW k \in Keys, Rejects(k)
      PROVE  /\ DocOK' /\ AuditsTellHistory'
             /\ doc' \in [state : Snapshots, version : Nat, closed : BOOLEAN]
             /\ audit' \in [Keys -> Audits \cup {None}]
  <2> DEFINE r == [state |-> doc.state, version |-> Len(doc.state), ok |-> FALSE]
  <2>1. r \in Audits
    BY <1>0 DEF Audits
  <2>2. /\ audit' = [audit EXCEPT ![k] = r] /\ doc' = doc /\ audit[k] = None
        /\ r.state = doc.state /\ r.version = Len(doc.state) /\ r.ok = FALSE
    BY <1>2 DEF Rejects
  <2> HIDE DEF r
  <2>3. /\ audit'[k] = r /\ r # None
        /\ \A j \in Keys : j # k => audit'[j] = audit[j]
    BY <1>0, <2>1, <2>2, NoAuditAssumption
  <2>4. audit' \in [Keys -> Audits \cup {None}]
    BY <1>0, <2>1, <2>2
  <2>5. DocOK'
    <3>1. ASSUME NEW n \in 1..Len(doc.state)
          PROVE  audit'[doc.state[n]] = audit[doc.state[n]]
      <4>1. doc.state[n] \in Keys /\ doc.state[n] # k
        BY <1>0, <2>2 DEF DocOK, Snapshots
      <4> QED
        BY <2>3, <4>1
    <3> QED
      BY <1>0, <2>2, <3>1 DEF DocOK
  <2>6. AuditsTellHistory'
    BY <1>0, <2>2, <2>3, PrefixSelf DEF AuditsTellHistory
  <2> QED
    BY <1>0, <2>2, <2>4, <2>5, <2>6
<1>3. CASE Closes
  <2>1. /\ doc'.state = doc.state /\ doc'.version = Len(doc.state) + 1 /\ doc'.closed = TRUE
        /\ doc' \in [state : Snapshots, version : Nat, closed : BOOLEAN]
        /\ audit' = audit
    BY <1>0, <1>3 DEF Closes
  <2> QED
    BY <1>0, <2>1 DEF DocOK, AuditsTellHistory
<1>4. CASE UNCHANGED store
  BY <1>0, <1>4 DEF store, DocOK, AuditsTellHistory
<1> QED
  BY <1>1, <1>2, <1>3, <1>4, StoreStep

--------------------------------------------------------------------------------
(* Types of the other variables                                                *)

LEMMA EndedTypes ==
    ASSUME IInv, NEW o \in Objects, NEW c \in Calls, Runs(o, c),
           NEW r \in {"ok", "refused", "thrown"}, Ended(o, c, r)
    PROVE  /\ queue' \in [Objects -> Seq(Calls)]
           /\ pc' \in [Calls -> {"new", "find", "ended"} \cup Writes]
           /\ keyOf' \in [Calls -> Keys \cup {None}]
           /\ before' \in [Calls -> Snapshots]
           /\ attempt' \in [Calls -> 0..(MaxAttempts - 1)]
           /\ result' \in [Calls -> {"none", "ok", "refused", "thrown", "lost"}]
<1>1. Tail(queue[o]) \in Seq(Calls)
  BY DEF IInv, TypeOK, Runs
<1>2. <<>> \in Snapshots /\ 0 \in 0..(MaxAttempts - 1)
  BY BoundsAssumption DEF Snapshots
<1> QED
  BY <1>1, <1>2 DEF Ended, IInv, TypeOK

(* What an operation that ends does to the memory of its object.               *)
LEMMA ThrowTypes ==
    ASSUME IInv, NEW o \in Objects, NEW c \in Calls, Runs(o, c),
           NEW r \in [Objects -> SUBSET Reasons], Throw(o, c, r)
    PROVE  mem' \in [Objects -> Memory] /\ reasons' \in [Objects -> SUBSET Reasons]
<1>1. mem \in [Objects -> Memory] /\ before[c] \in Snapshots
  BY DEF IInv, TypeOK
<1>2. [mem[o] EXCEPT !.state = before[c]] \in Memory
  BY <1>1 DEF Memory
<1> QED
  BY <1>1, <1>2 DEF Throw, Reasons

LEMMA AppliedTypes ==
    ASSUME IInv, NEW o \in Objects, NEW t \in Audits, Applied(o, t)
    PROVE  mem' \in [Objects -> Memory]
BY DEF IInv, TypeOK, Applied, Audits, Memory

LEMMA RetryTypes ==
    ASSUME IInv, NEW o \in Objects, NEW c \in Calls, Runs(o, c), pc[c] \in Writes,
           NEW r \in [Objects -> SUBSET Reasons], Retry(o, c, r)
    PROVE  /\ mem' \in [Objects -> Memory] /\ reasons' \in [Objects -> SUBSET Reasons]
           /\ queue' \in [Objects -> Seq(Calls)]
           /\ pc' \in [Calls -> {"new", "find", "ended"} \cup Writes]
           /\ keyOf' \in [Calls -> Keys \cup {None}]
           /\ before' \in [Calls -> Snapshots]
           /\ attempt' \in [Calls -> 0..(MaxAttempts - 1)]
           /\ result' \in [Calls -> {"none", "ok", "refused", "thrown", "lost"}]
<1>1. CASE attempt[c] + 1 = MaxAttempts /\ Throw(o, c, r)
  <2>1. Ended(o, c, "thrown")
    BY <1>1 DEF Throw
  <2> QED
    BY <1>1, <2>1, ThrowTypes, EndedTypes
<1>2. CASE /\ attempt[c] + 1 < MaxAttempts
           /\ attempt' = [attempt EXCEPT ![c] = @ + 1]
           /\ reasons' = r
           /\ UNCHANGED <<mem, queue, pc, keyOf, before, result>>
  <2>1. attempt[c] + 1 \in 0..(MaxAttempts - 1)
    BY <1>2, BoundsAssumption DEF IInv, TypeOK
  <2> QED
    BY <1>2, <2>1 DEF IInv, TypeOK
<1> QED
  BY <1>1, <1>2 DEF Retry

LEMMA SupersededType ==
    ASSUME IInv, NEW o \in Objects, NEW c \in Calls
    PROVE  Superseded(o, c) \in [Objects -> SUBSET Reasons]
BY DEF IInv, TypeOK, Superseded, Reasons

LEMMA NextTypeOK == ASSUME IInv, [Next]_vars PROVE TypeOK'
<1>0. TypeOK
  BY DEF IInv
<1> DEFINE StoreTypes == /\ doc' \in [state : Snapshots, version : Nat, closed : BOOLEAN]
                         /\ audit' \in [Keys -> Audits \cup {None}]
<1>s. StoreTypes
  BY NextStoreOK
<1>r. reasons \in [Objects -> SUBSET Reasons]
  BY <1>0 DEF TypeOK
<1> HIDE DEF StoreTypes
<1>1. ASSUME NEW o \in Objects, Recover(o)
      PROVE  TypeOK'
  <2>1. [state |-> doc.state, version |-> doc.version] \in Memory
    BY <1>0 DEF TypeOK, Memory
  <2>2. reasons' \in [Objects -> SUBSET Reasons]
    BY <1>1, <1>r DEF Recover
  <2> QED
    BY <1>0, <1>1, <2>1, <2>2 DEF TypeOK, Recover, store, ops
<1>2. ASSUME NEW o \in Objects, CloseSession(o)
      PROVE  TypeOK'
  <2>1. reasons' \in [Objects -> SUBSET Reasons]
    BY <1>2, <1>r DEF CloseSession, Reasons
  <2> QED
    BY <1>0, <1>2, <1>s, <2>1 DEF TypeOK, CloseSession, ops, StoreTypes
<1>3. CASE Restart
  <2>1. NoMemory \in Memory /\ <<>> \in Snapshots /\ 0 \in 0..(MaxAttempts - 1)
    BY BoundsAssumption DEF NoMemory, Memory, Snapshots
  <2>2. restarts' \in 0..MaxRestarts
    BY <1>0, <1>3, BoundsAssumption DEF TypeOK, Restart
  <2> QED
    BY <1>0, <1>3, <2>1, <2>2 DEF TypeOK, Restart, store, Writes
<1>4. ASSUME NEW c \in Calls, NEW k \in Keys, Dispatch(c, k)
      PROVE  TypeOK'
  <2>1. current \in Objects
    BY <1>0, <1>4 DEF TypeOK, Dispatch
  <2>2. queue' \in [Objects -> Seq(Calls)]
    BY <1>0, <1>4, <2>1 DEF TypeOK, Dispatch
  <2> QED
    BY <1>0, <1>4, <2>2 DEF TypeOK, Dispatch, store
<1>5. ASSUME NEW o \in Objects, NEW c \in Calls, Replay(o, c) \/ Found(o, c)
      PROVE  TypeOK'
  <2>1. Runs(o, c) /\ keyOf[c] \in Keys /\ audit[keyOf[c]] \in Audits
    BY <1>0, <1>5, HeadFacts DEF Replay, Found, Known, TypeOK
  <2>2. mem' \in [Objects -> Memory]
    BY <1>5, <2>1, AppliedTypes DEF Replay, Found
  <2>3. PICK x \in {"ok", "refused", "thrown"} : Ended(o, c, x)
    BY <1>5 DEF Replay, Found
  <2>4. reasons' \in [Objects -> SUBSET Reasons]
    BY <1>5, <1>r DEF Replay, Found, Reasons
  <2> QED
    BY <1>0, <1>5, <2>1, <2>2, <2>3, <2>4, EndedTypes DEF TypeOK, Replay, Found, store
<1>6. ASSUME NEW o \in Objects, NEW c \in Calls, Accept(o, c)
      PROVE  TypeOK'
  <2> DEFINE t == Append(mem[o].state, keyOf[c])
  <2>1. /\ keyOf[c] \in Keys /\ mem[o] \in Memory /\ mem[o].state \in Snapshots
        /\ mem[o].version \in Nat
        /\ mem[o] = [state |-> mem[o].state, version |-> mem[o].version]
    BY <1>0, <1>6, HeadFacts DEF Accept, TypeOK, Memory
  <2>2. t \in Snapshots
    BY <2>1 DEF Snapshots
  <2>3. mem' = [mem EXCEPT ![o].state = t]
    BY <1>6 DEF Accept
  <2> HIDE DEF t
  <2>4. [mem[o] EXCEPT !.state = t] = [state |-> t, version |-> mem[o].version]
    BY <2>1
  <2>5. [mem[o] EXCEPT !.state = t] \in Memory
    BY <2>1, <2>2, <2>4 DEF Memory
  <2>6. mem' \in [Objects -> Memory]
    BY <1>0, <2>3, <2>5 DEF TypeOK
  <2>7. before' \in [Calls -> Snapshots]
    BY <1>0, <1>6, <2>1 DEF TypeOK, Accept
  <2>8. pc' \in [Calls -> {"new", "find", "ended"} \cup Writes]
    BY <1>0, <1>6 DEF TypeOK, Accept, Writes
  <2> QED
    BY <1>0, <1>6, <2>6, <2>7, <2>8 DEF TypeOK, Accept, store
<1>11. ASSUME NEW o \in Objects, NEW c \in Calls, Refuse(o, c)
       PROVE  TypeOK'
  <2>1. pc' \in [Calls -> {"new", "find", "ended"} \cup Writes]
    BY <1>0, <1>11 DEF TypeOK, Refuse, Writes
  <2> QED
    BY <1>0, <1>11, <2>1 DEF TypeOK, Refuse, store
<1>7. ASSUME NEW o \in Objects, NEW c \in Calls, Commit(o, c)
      PROVE  TypeOK'
  <2>1. Runs(o, c) /\ keyOf[c] \in Keys /\ Commits(o, c)
    BY <1>7, HeadFacts DEF Commit, Commits
  <2>2. audit'[keyOf[c]] \in Audits
    <3>1. Applies(keyOf[c]) \/ Rejects(keyOf[c])
      BY <2>1, CommitStep DEF Writes
    <3>2. audit'[keyOf[c]] # None
      BY <2>1, <3>1, RecordFacts
    <3> QED
      BY <1>s, <2>1, <3>2 DEF StoreTypes
  <2>3. mem' \in [Objects -> Memory]
    BY <1>7, <2>2, AppliedTypes DEF Commit
  <2>4. PICK x \in {"ok", "refused", "thrown"} : Ended(o, c, x)
    BY <1>7 DEF Commit
  <2>5. reasons' \in [Objects -> SUBSET Reasons]
    BY <1>7, SupersededType DEF Commit
  <2> QED
    BY <1>0, <1>7, <1>s, <2>1, <2>3, <2>4, <2>5, EndedTypes DEF TypeOK, Commit, StoreTypes
<1>8. ASSUME NEW o \in Objects, NEW c \in Calls,
             VersionConflict(o, c) \/ SnapshotInvalid(o, c) \/ ReadFails(o, c)
      PROVE  TypeOK'
  <2>1. Runs(o, c) /\ Throw(o, c, reasons)
    BY <1>8 DEF VersionConflict, SnapshotInvalid, ReadFails
  <2>2. Ended(o, c, "thrown")
    BY <2>1 DEF Throw
  <2>3. failures' \in 0..MaxFailures
    BY <1>0, <1>8, BoundsAssumption DEF TypeOK, VersionConflict, SnapshotInvalid, ReadFails
  <2> QED
    BY <1>0, <1>8, <1>r, <2>1, <2>2, <2>3, ThrowTypes, EndedTypes
       DEF TypeOK, VersionConflict, SnapshotInvalid, ReadFails, store
<1>9. ASSUME NEW o \in Objects, NEW c \in Calls, TransactionFails(o, c) \/ AnswerLost(o, c)
      PROVE  TypeOK'
  <2>1. Runs(o, c) /\ pc[c] \in Writes
    BY <1>9 DEF TransactionFails, AnswerLost, Commits
  <2>2. PICK r \in [Objects -> SUBSET Reasons] : Retry(o, c, r)
    BY <1>9, <1>r, SupersededType DEF TransactionFails, AnswerLost
  <2>3. failures' \in 0..MaxFailures
    BY <1>0, <1>9, BoundsAssumption DEF TypeOK, TransactionFails, AnswerLost
  <2>4. UNCHANGED <<current, readOnly, restarts>>
    BY <1>9 DEF TransactionFails, AnswerLost
  <2> QED
    BY <1>0, <1>s, <2>1, <2>2, <2>3, <2>4, RetryTypes DEF TypeOK, StoreTypes
<1>10. CASE UNCHANGED vars
  BY <1>0, <1>10 DEF TypeOK, vars, store, ops
<1> QED
  BY <1>1, <1>2, <1>3, <1>4, <1>5, <1>6, <1>7, <1>8, <1>9, <1>10, <1>11 DEF Next, Runnable, Fails

--------------------------------------------------------------------------------
(* The queues                                                                  *)

(* The end of an operation takes it out of the one queue that has it, and the  *)
(* operation that moves up has not begun.                                      *)
LEMMA QueueEnded ==
    ASSUME IInv, NEW o \in Objects, NEW c \in Calls, Runs(o, c),
           NEW r, Ended(o, c, r)
    PROVE  QueueOK' /\ ~Updating(o)'
<1>0. TypeOK /\ QueueOK
  BY DEF IInv
<1>1. /\ queue[o] \in Seq(Calls) /\ Len(queue[o]) \in Nat /\ 1 \in 1..Len(queue[o])
      /\ queue[o][1] = c
  BY <1>0, HeadFacts DEF TypeOK
<1>2. /\ queue'[o] \in Seq(Calls) /\ Len(queue'[o]) = Len(queue[o]) - 1
      /\ \A n \in 1..Len(queue'[o]) : n + 1 \in 1..Len(queue[o]) /\ queue'[o][n] = queue[o][n + 1]
  BY <1>0, <1>1 DEF Ended, TypeOK
<1>3. \A p \in Objects : p # o => queue'[p] = queue[p]
  BY <1>0 DEF Ended, TypeOK
<1>4. /\ \A d \in Calls : d # c => pc'[d] = pc[d]
      /\ UNCHANGED keyOf
  BY <1>0 DEF Ended, TypeOK
<1>5. ASSUME NEW p \in Objects, NEW n \in 1..Len(queue'[p])
      PROVE  \E m \in 1..Len(queue[p]) :
                 /\ queue'[p][n] = queue[p][m] /\ queue[p][m] # c /\ queue[p][m] \in Calls
                 /\ m = IF p = o THEN n + 1 ELSE n
  <2>1. CASE p = o
    <3>1. n + 1 \in 1..Len(queue[o]) /\ queue'[o][n] = queue[o][n + 1] /\ n + 1 # 1
      BY <1>2, <2>1
    <3>2. queue[o][n + 1] # c
      BY <1>0, <1>1, <3>1 DEF QueueOK
    <3> QED
      BY <1>1, <2>1, <3>1, <3>2
  <2>2. CASE p # o
    <3>1. queue[p][n] # c /\ queue[p] \in Seq(Calls) /\ queue'[p] = queue[p]
      BY <1>0, <1>1, <1>3, <1>5, <2>2 DEF QueueOK, TypeOK
    <3> QED
      BY <1>5, <2>2, <3>1
  <2> QED
    BY <2>1, <2>2
<1>6. ASSUME NEW p \in Objects, NEW n \in 1..Len(queue'[p])
      PROVE  /\ pc'[queue'[p][n]] \in Queued /\ keyOf'[queue'[p][n]] \in Keys
             /\ n > 1 \/ p = o => pc'[queue'[p][n]] = "find"
  <2>1. PICK m \in 1..Len(queue[p]) :
                 /\ queue'[p][n] = queue[p][m] /\ queue[p][m] # c /\ queue[p][m] \in Calls
                 /\ m = IF p = o THEN n + 1 ELSE n
    BY <1>5
  <2>2. pc'[queue[p][m]] = pc[queue[p][m]]
    BY <1>4, <2>1
  <2>3. n > 1 \/ p = o => m > 1
    BY <2>1
  <2> QED
    BY <1>0, <1>4, <2>1, <2>2, <2>3 DEF QueueOK
<1>7. ASSUME NEW p \in Objects, NEW q \in Objects, NEW n \in 1..Len(queue'[p]),
             NEW m \in 1..Len(queue'[q]), queue'[p][n] = queue'[q][m]
      PROVE  p = q /\ n = m
  <2>1. PICK n1 \in 1..Len(queue[p]) :
            queue'[p][n] = queue[p][n1] /\ n1 = IF p = o THEN n + 1 ELSE n
    BY <1>5
  <2>2. PICK m1 \in 1..Len(queue[q]) :
            queue'[q][m] = queue[q][m1] /\ m1 = IF q = o THEN m + 1 ELSE m
    BY <1>5
  <2>3. queue[p][n1] = queue[q][m1]
    BY <1>7, <2>1, <2>2
  <2>4. p = q /\ n1 = m1
    BY <1>0, <2>3 DEF QueueOK
  <2> QED
    BY <2>1, <2>2, <2>4
<1>8. QueueOK'
  BY <1>6, <1>7 DEF QueueOK
<1>9. ~Updating(o)'
  <2>1. CASE queue'[o] = <<>>
    BY <2>1 DEF Updating
  <2>2. CASE queue'[o] # <<>>
    <3>1. 1 \in 1..Len(queue'[o]) /\ Head(queue'[o]) = queue'[o][1]
      BY <1>2, <2>2
    <3> QED
      BY <1>6, <3>1 DEF Updating
  <2> QED
    BY <2>1, <2>2
<1> QED
  BY <1>8, <1>9

LEMMA QueueDispatched ==
    ASSUME IInv, NEW c \in Calls, NEW k \in Keys, Dispatch(c, k)
    PROVE  QueueOK'
<1>0. TypeOK /\ QueueOK /\ current \in Objects /\ pc[c] = "new"
  BY DEF IInv, TypeOK, Dispatch
<1> DEFINE s == queue[current]
<1>1. s \in Seq(Calls) /\ Len(s) \in Nat
  BY <1>0 DEF TypeOK
<1>2. /\ queue'[current] = Append(s, c)
      /\ \A p \in Objects : p # current => queue'[p] = queue[p]
      /\ pc'[c] = "find" /\ keyOf'[c] = k
      /\ \A d \in Calls : d # c => pc'[d] = pc[d] /\ keyOf'[d] = keyOf[d]
  BY <1>0 DEF Dispatch, TypeOK
<1>3. ASSUME NEW p \in Objects, NEW n \in 1..Len(queue[p])
      PROVE  queue[p][n] # c /\ queue[p][n] \in Calls
  <2>1. queue[p] \in Seq(Calls)
    BY <1>0 DEF TypeOK
  <2>2. pc[queue[p][n]] \in Queued
    BY <1>0 DEF QueueOK
  <2>3. pc[queue[p][n]] # "new"
    BY <2>2 DEF Queued, Writes
  <2> QED
    BY <1>0, <2>1, <2>3
<1>4. /\ Len(queue'[current]) = Len(s) + 1 /\ queue'[current][Len(s) + 1] = c
      /\ \A n \in 1..Len(s) : queue'[current][n] = s[n]
  BY <1>1, <1>2
<1>5. ASSUME NEW p \in Objects, NEW n \in 1..Len(queue'[p])
      PROVE  \/ p = current /\ n = Len(s) + 1 /\ queue'[p][n] = c
             \/ n \in 1..Len(queue[p]) /\ queue'[p][n] = queue[p][n]
  BY <1>1, <1>2, <1>4
<1> HIDE DEF s
<1>6. ASSUME NEW p \in Objects, NEW n \in 1..Len(queue'[p])
      PROVE  /\ pc'[queue'[p][n]] \in Queued /\ keyOf'[queue'[p][n]] \in Keys
             /\ n > 1 => pc'[queue'[p][n]] = "find"
  BY <1>0, <1>2, <1>3, <1>5 DEF QueueOK, Queued
<1>7. ASSUME NEW p \in Objects, NEW q \in Objects, NEW n \in 1..Len(queue'[p]),
             NEW m \in 1..Len(queue'[q]), queue'[p][n] = queue'[q][m]
      PROVE  p = q /\ n = m
  <2>1. CASE queue'[p][n] = c
    <3>1. p = current /\ n = Len(s) + 1
      BY <1>3, <1>5, <2>1
    <3>2. q = current /\ m = Len(s) + 1
      BY <1>3, <1>5, <1>7, <2>1
    <3> QED
      BY <3>1, <3>2
  <2>2. CASE queue'[p][n] # c
    <3>1. n \in 1..Len(queue[p]) /\ queue'[p][n] = queue[p][n]
      BY <1>5, <2>2
    <3>2. m \in 1..Len(queue[q]) /\ queue'[q][m] = queue[q][m]
      BY <1>5, <1>7, <2>2
    <3>3. queue[p][n] = queue[q][m]
      BY <1>7, <3>1, <3>2
    <3> QED
      BY <1>0, <3>1, <3>2, <3>3 DEF QueueOK
  <2> QED
    BY <2>1, <2>2
<1> QED
  BY <1>6, <1>7 DEF QueueOK

(* A step of the operation that runs leaves it first.                          *)
LEMMA QueueMoved ==
    ASSUME IInv, NEW o \in Objects, NEW c \in Calls, Runs(o, c), NEW w \in Queued,
           pc' = [pc EXCEPT ![c] = w], UNCHANGED <<queue, keyOf>>
    PROVE  QueueOK'
<1>0. TypeOK /\ QueueOK
  BY DEF IInv
<1>1. 1 \in 1..Len(queue[o]) /\ queue[o][1] = c
  BY HeadFacts
<1>2. /\ pc'[c] = w
      /\ \A d \in Calls : d # c => pc'[d] = pc[d]
  BY <1>0 DEF TypeOK
<1>3. ASSUME NEW p \in Objects, NEW n \in 1..Len(queue[p])
      PROVE  /\ pc'[queue[p][n]] \in Queued
             /\ n > 1 => pc'[queue[p][n]] = "find"
  <2>1. queue[p][n] \in Calls
    BY <1>0 DEF TypeOK
  <2>2. CASE queue[p][n] = c
    BY <1>0, <1>1, <1>2, <2>2 DEF QueueOK
  <2>3. CASE queue[p][n] # c
    BY <1>0, <1>2, <2>1, <2>3 DEF QueueOK
  <2> QED
    BY <2>2, <2>3
<1> QED
  BY <1>0, <1>3 DEF QueueOK

LEMMA NextQueueOK == ASSUME IInv, [Next]_vars PROVE QueueOK'
<1>0. TypeOK /\ QueueOK
  BY DEF IInv
<1>1. ASSUME NEW o \in Objects, NEW c \in Calls, Runnable(o, c) \/ Fails(o, c)
      PROVE  QueueOK'
  <2>1. Runs(o, c)
    BY <1>1 DEF Runnable, Fails, Replay, Accept, Refuse, Commit, Commits, Found, VersionConflict,
                SnapshotInvalid, ReadFails, TransactionFails, AnswerLost
  <2>2. \/ \E r \in {"ok", "refused", "thrown"} : Ended(o, c, r)
        \/ \E w \in Queued : pc' = [pc EXCEPT ![c] = w] /\ UNCHANGED <<queue, keyOf>>
        \/ UNCHANGED <<queue, pc, keyOf>>
    BY <1>1 DEF Runnable, Fails, Replay, Accept, Refuse, Commit, Found, VersionConflict,
                SnapshotInvalid, ReadFails, TransactionFails, AnswerLost, Retry, Throw,
                Queued, Writes
  <2> QED
    BY <1>0, <2>1, <2>2, QueueEnded, QueueMoved DEF QueueOK
<1>2. ASSUME NEW o \in Objects, Recover(o) \/ CloseSession(o)
      PROVE  QueueOK'
  BY <1>0, <1>2 DEF Recover, CloseSession, ops, QueueOK
<1>4. CASE Restart
  BY <1>4 DEF Restart, QueueOK
<1>5. CASE UNCHANGED vars
  BY <1>0, <1>5 DEF vars, ops, QueueOK
<1> QED
  BY <1>1, <1>2, <1>4, <1>5, QueueDispatched DEF Next

--------------------------------------------------------------------------------
(* The memories                                                                *)

MemoryOK(o) ==
    /\ Updating(o) => UncommittedMemory(o, Head(queue[o]))
    /\ ~Updating(o) => StoredMemory(o)

(* The memory of an object stays right when it and the object's operation are  *)
(* left alone, whatever is stored meanwhile.                                   *)
LEMMA MemoryKept ==
    ASSUME IInv, [Next]_vars, NEW p \in Objects,
           mem'[p] = mem[p], Updating(p)' <=> Updating(p),
           Updating(p) => /\ Head(queue'[p]) = Head(queue[p])
                          /\ before'[Head(queue[p])] = before[Head(queue[p])]
                          /\ keyOf'[Head(queue[p])] = keyOf[Head(queue[p])]
    PROVE  MemoryOK(p)'
<1>0. TypeOK /\ MemOK
  BY DEF IInv
<1>1. CASE Updating(p)
  <2>1. UncommittedMemory(p, Head(queue[p])) /\ Head(queue[p]) \in Calls
    BY <1>0, <1>1 DEF MemOK, Updating, TypeOK
  <2>2. Prefix(before[Head(queue[p])], doc'.state)
    BY <1>0, <2>1, PrefixKept DEF UncommittedMemory, TypeOK
  <2>3. UncommittedMemory(p, Head(queue[p]))'
    BY <1>1, <2>1, <2>2 DEF UncommittedMemory, MayApply, H!Terminal
  <2> QED
    BY <1>1, <2>3 DEF MemoryOK
<1>2. CASE ~Updating(p)
  <2>1. StoredMemory(p) /\ mem[p].state \in Snapshots
    BY <1>0, <1>2 DEF MemOK, TypeOK, Memory
  <2>2. StoredMemory(p)'
    BY <2>1, PrefixKept DEF StoredMemory
  <2> QED
    BY <1>2, <2>2 DEF MemoryOK
<1> QED
  BY <1>1, <1>2

(* A step of one object's operation leaves the other objects alone.            *)
LEMMA OthersKept ==
    ASSUME IInv, [Next]_vars, NEW o \in Objects, NEW c \in Calls, Runs(o, c),
           NEW p \in Objects, p # o, mem'[p] = mem[p], queue'[p] = queue[p],
           \A d \in Calls : d # c => pc'[d] = pc[d] /\ before'[d] = before[d],
           UNCHANGED keyOf
    PROVE  MemoryOK(p)'
<1>1. queue[p] # <<>> => Head(queue[p]) # c /\ Head(queue[p]) \in Calls
  BY HeadFacts DEF IInv, TypeOK
<1>2. Updating(p)' <=> Updating(p)
  BY <1>1 DEF Updating
<1> QED
  BY <1>1, <1>2, MemoryKept DEF Updating

LEMMA MemoryEnded ==
    ASSUME IInv, [Next]_vars, NEW o \in Objects, NEW c \in Calls, Runs(o, c),
           NEW r, Ended(o, c, r), StoredMemory(o)',
           \A p \in Objects : p # o => mem'[p] = mem[p]
    PROVE  MemOK'
<1>1. MemoryOK(o)'
  BY QueueEnded DEF MemoryOK
<1>2. ASSUME NEW p \in Objects, p # o
      PROVE  MemoryOK(p)'
  <2>1. queue'[p] = queue[p] /\ mem'[p] = mem[p]
    BY <1>2 DEF Ended, IInv, TypeOK
  <2>2. /\ \A d \in Calls : d # c => pc'[d] = pc[d] /\ before'[d] = before[d]
        /\ UNCHANGED keyOf
    BY DEF Ended, IInv, TypeOK
  <2> QED
    BY <1>2, <2>1, <2>2, OthersKept
<1> QED
  BY <1>1, <1>2 DEF MemOK, MemoryOK

(* What is taken back was stored.                                              *)
LEMMA MemoryThrown ==
    ASSUME IInv, [Next]_vars, NEW o \in Objects, NEW c \in Calls, Runs(o, c),
           NEW r, Throw(o, c, r)
    PROVE  MemOK'
<1>0. TypeOK /\ MemOK /\ mem[o] \in Memory /\ before[c] \in Snapshots
  BY DEF IInv, TypeOK
<1>1. Ended(o, c, "thrown")
  BY DEF Throw
<1>2. \A p \in Objects : p # o => mem'[p] = mem[p]
  BY <1>0 DEF Throw, TypeOK
<1>3. StoredMemory(o)'
  <2>1. CASE pc[c] = "update"
    <3>1. UncommittedMemory(o, c)
      BY <1>0, <2>1, HeadFacts DEF MemOK
    <3>2. mem'[o].state = before[c] /\ mem'[o].version = mem[o].version
      BY <1>0, <2>1 DEF Throw, TypeOK, Memory
    <3> QED
      BY <1>0, <3>1, <3>2, PrefixKept DEF UncommittedMemory, StoredMemory
  <2>2. CASE pc[c] # "update"
    <3>1. StoredMemory(o) /\ mem' = mem /\ mem[o].state \in Snapshots
      BY <1>0, <2>2, HeadFacts DEF MemOK, Throw, Memory
    <3> QED
      BY <3>1, PrefixKept DEF StoredMemory
  <2> QED
    BY <2>1, <2>2
<1> QED
  BY <1>1, <1>2, <1>3, MemoryEnded

LEMMA MemoryRetried ==
    ASSUME IInv, [Next]_vars, NEW o \in Objects, NEW c \in Calls, Runs(o, c),
           NEW r, Retry(o, c, r)
    PROVE  MemOK'
<1>1. CASE Throw(o, c, r)
  BY <1>1, MemoryThrown
<1>2. CASE UNCHANGED <<mem, queue, pc, keyOf, before, result>>
  <2>1. ASSUME NEW p \in Objects
        PROVE  MemoryOK(p)'
    <3>1. Updating(p)' <=> Updating(p)
      BY <1>2 DEF Updating
    <3> QED
      BY <1>2, <3>1, MemoryKept
  <2> QED
    BY <2>1 DEF MemOK, MemoryOK
<1> QED
  BY <1>1, <1>2 DEF Retry

LEMMA NextMemOK == ASSUME IInv, [Next]_vars PROVE MemOK'
<1>0. TypeOK /\ MemOK /\ DocOK /\ AuditsTellHistory
  BY DEF IInv
<1>d. doc.state \in Snapshots /\ <<>> \in Snapshots
  BY <1>0 DEF TypeOK, Snapshots
<1>1. ASSUME NEW o \in Objects, Recover(o)
      PROVE  MemOK'
  <2>1. /\ mem'[o] = [state |-> doc.state, version |-> doc.version]
        /\ UNCHANGED <<doc, queue, pc, before, keyOf>> /\ queue[o] = <<>> /\ ~doc.closed
        /\ \A p \in Objects : p # o => mem'[p] = mem[p]
    BY <1>0, <1>1 DEF Recover, store, ops, TypeOK
  <2>2. MemoryOK(o)'
    BY <1>0, <1>d, <2>1, PrefixSelf DEF MemoryOK, Updating, StoredMemory, DocOK
  <2>3. ASSUME NEW p \in Objects, p # o
        PROVE  MemoryOK(p)'
    <3>1. Updating(p)' <=> Updating(p)
      BY <2>1 DEF Updating
    <3> QED
      BY <2>1, <2>3, <3>1, MemoryKept
  <2> QED
    BY <2>2, <2>3 DEF MemOK, MemoryOK
<1>2. ASSUME \/ \E o \in Objects : CloseSession(o)
             \/ UNCHANGED vars
      PROVE  MemOK'
  <2>1. UNCHANGED <<mem, queue, pc, before, keyOf>>
    BY <1>2 DEF CloseSession, ops, vars
  <2>2. ASSUME NEW p \in Objects
        PROVE  MemoryOK(p)'
    <3>1. Updating(p)' <=> Updating(p)
      BY <2>1 DEF Updating
    <3> QED
      BY <2>1, <3>1, MemoryKept
  <2> QED
    BY <2>2 DEF MemOK, MemoryOK
<1>3. CASE Restart
  <2>1. ASSUME NEW p \in Objects
        PROVE  MemoryOK(p)'
    <3>1. mem'[p] = NoMemory /\ queue'[p] = <<>> /\ doc' = doc
      BY <1>3 DEF Restart, store
    <3>2. NoMemory.state = <<>> /\ NoMemory.version = 0 /\ Len(<<>>) = 0
      BY DEF NoMemory
    <3> QED
      BY <1>d, <3>1, <3>2, PrefixSelf DEF MemoryOK, Updating, StoredMemory
  <2> QED
    BY <2>1 DEF MemOK, MemoryOK
<1>4. ASSUME NEW c \in Calls, NEW k \in Keys, Dispatch(c, k)
      PROVE  MemOK'
  <2>1. current \in Objects /\ pc[c] = "new" /\ UNCHANGED <<mem, before>>
    BY <1>0, <1>4 DEF Dispatch, TypeOK
  <2>2. ASSUME NEW p \in Objects
        PROVE  MemoryOK(p)'
    <3>1. /\ queue[p] \in Seq(Calls)
          /\ queue'[p] = IF p = current THEN Append(queue[p], c) ELSE queue[p]
          /\ pc'[c] = "find"
          /\ \A d \in Calls : d # c => pc'[d] = pc[d] /\ keyOf'[d] = keyOf[d]
      BY <1>0, <1>4, <2>1 DEF Dispatch, TypeOK
    <3>2. CASE queue[p] = <<>>
      <4>1. queue'[p] # <<>> => Head(queue'[p]) = c
        BY <3>1, <3>2
      <4> QED
        BY <2>1, <3>1, <3>2, <4>1, MemoryKept DEF Updating
    <3>3. CASE queue[p] # <<>>
      <4>1. /\ Head(queue[p]) \in Calls /\ queue'[p] # <<>> /\ Head(queue'[p]) = Head(queue[p])
            /\ 1 \in 1..Len(queue[p]) /\ Head(queue[p]) = queue[p][1]
        BY <3>1, <3>3
      <4>2. pc[queue[p][1]] \in Queued
        BY <4>1 DEF IInv, QueueOK
      <4>3. Head(queue[p]) # c
        BY <2>1, <4>1, <4>2 DEF Queued, Writes
      <4>4. Updating(p)' <=> Updating(p)
        BY <3>1, <3>3, <4>1, <4>3 DEF Updating
      <4> QED
        BY <2>1, <3>1, <4>1, <4>3, <4>4, MemoryKept
    <3> QED
      BY <3>2, <3>3
  <2> QED
    BY <2>2 DEF MemOK, MemoryOK
<1>5. ASSUME NEW o \in Objects, NEW c \in Calls, Replay(o, c) \/ Found(o, c)
      PROVE  MemOK'
  <2>1. /\ Runs(o, c) /\ keyOf[c] \in Keys /\ audit[keyOf[c]] # None
        /\ Applied(o, audit[keyOf[c]]) /\ doc' = doc
    BY <1>5, HeadFacts DEF Replay, Found, Known, store
  <2>2. /\ mem'[o].state = audit[keyOf[c]].state /\ mem'[o].version = audit[keyOf[c]].version
        /\ \A p \in Objects : p # o => mem'[p] = mem[p]
    BY <1>0, <2>1 DEF Applied, TypeOK
  <2>3. StoredMemory(o)'
    BY <1>0, <2>1, <2>2 DEF StoredMemory, AuditsTellHistory
  <2>4. PICK r : Ended(o, c, r)
    BY <1>5 DEF Replay, Found
  <2> QED
    BY <2>1, <2>2, <2>3, <2>4, MemoryEnded
<1>6. ASSUME NEW o \in Objects, NEW c \in Calls, Commit(o, c)
      PROVE  MemOK'
  <2>1. Runs(o, c) /\ keyOf[c] \in Keys /\ Commits(o, c) /\ Applied(o, audit'[keyOf[c]])
    BY <1>6, HeadFacts DEF Commit, Commits
  <2>2. /\ audit'[keyOf[c]].state = doc'.state /\ audit'[keyOf[c]].version = Len(doc'.state)
    BY <2>1, CommitStep, RecordFacts DEF Writes
  <2>3. /\ mem'[o].state = doc'.state /\ mem'[o].version = Len(doc'.state)
        /\ \A p \in Objects : p # o => mem'[p] = mem[p]
    BY <1>0, <2>1, <2>2 DEF Applied, TypeOK
  <2>4. doc'.state \in Snapshots
    BY NextStoreOK
  <2>5. StoredMemory(o)'
    BY <2>3, <2>4, PrefixSelf DEF StoredMemory
  <2>6. PICK r : Ended(o, c, r)
    BY <1>6 DEF Commit
  <2> QED
    BY <2>1, <2>3, <2>5, <2>6, MemoryEnded
<1>7. ASSUME NEW o \in Objects, NEW c \in Calls,
             VersionConflict(o, c) \/ SnapshotInvalid(o, c) \/ ReadFails(o, c)
      PROVE  MemOK'
  BY <1>7, MemoryThrown DEF VersionConflict, SnapshotInvalid, ReadFails
<1>8. ASSUME NEW o \in Objects, NEW c \in Calls, TransactionFails(o, c) \/ AnswerLost(o, c)
      PROVE  MemOK'
  BY <1>8, MemoryRetried DEF TransactionFails, AnswerLost, Commits
<1>9. ASSUME NEW o \in Objects, NEW c \in Calls, Accept(o, c)
      PROVE  MemOK'
  <2>1. /\ Runs(o, c) /\ pc[c] = "find" /\ MayApply(mem[o].state, keyOf[c]) /\ mem[o] \in Memory
        /\ UNCHANGED <<doc, queue, keyOf>>
    BY <1>0, <1>9 DEF Accept, TypeOK, store, MayApply
  <2>2. /\ mem'[o].state = Append(mem[o].state, keyOf[c]) /\ mem'[o].version = mem[o].version
        /\ before'[c] = mem[o].state /\ pc'[c] = "update"
        /\ \A p \in Objects : p # o => mem'[p] = mem[p]
        /\ \A d \in Calls : d # c => pc'[d] = pc[d] /\ before'[d] = before[d]
    BY <1>0, <1>9, <2>1 DEF Accept, TypeOK, Memory
  <2>3. StoredMemory(o)
    BY <1>0, <2>1, HeadFacts DEF MemOK
  <2>4. UncommittedMemory(o, c)' /\ Updating(o)' /\ Head(queue'[o]) = c
    BY <2>1, <2>2, <2>3 DEF UncommittedMemory, StoredMemory, Updating, MayApply, H!Terminal, Runs
  <2>5. ASSUME NEW p \in Objects, p # o
        PROVE  MemoryOK(p)'
    BY <2>1, <2>2, <2>5, OthersKept
  <2> QED
    BY <2>4, <2>5 DEF MemOK, MemoryOK
<1>10. ASSUME NEW o \in Objects, NEW c \in Calls, Refuse(o, c)
       PROVE  MemOK'
  <2>1. /\ Runs(o, c) /\ pc[c] = "find" /\ UNCHANGED <<mem, queue, keyOf, before>>
    BY <1>10 DEF Refuse
  <2>2. pc'[c] = "reject" /\ \A d \in Calls : d # c => pc'[d] = pc[d]
    BY <1>0, <1>10 DEF Refuse, TypeOK
  <2>3. ~Updating(o) /\ ~Updating(o)'
    BY <2>1, <2>2, HeadFacts DEF Updating
  <2>4. MemoryOK(o)'
    BY <2>1, <2>3, MemoryKept
  <2>5. ASSUME NEW p \in Objects, p # o
        PROVE  MemoryOK(p)'
    BY <2>1, <2>2, <2>5, OthersKept
  <2> QED
    BY <2>4, <2>5 DEF MemOK, MemoryOK
<1> QED
  BY <1>1, <1>2, <1>3, <1>4, <1>5, <1>6, <1>7, <1>8, <1>9, <1>10 DEF Next, Runnable, Fails

--------------------------------------------------------------------------------
(* The object that is kept, and the document                                   *)

Writing(o) == queue[o] # <<>> /\ pc[Head(queue[o])] \in Writes

(* An object is as far as the document, or its operation is recorded there.    *)
UpToDate(o) ==
    /\ Writing(o) /\ Known(Head(queue[o])) =>
           audit[keyOf[Head(queue[o])]].version = doc.version
    /\ ~(Writing(o) /\ Known(Head(queue[o]))) => mem[o].version = doc.version

BehindOK == current # None /\ reasons[current] = {} => UpToDate(current)

(* The operation that moves up when another ends does not write yet.           *)
LEMMA EndedIsNotWriting ==
    ASSUME IInv, NEW o \in Objects, NEW c \in Calls, Runs(o, c), NEW r, Ended(o, c, r)
    PROVE  ~Writing(o)'
<1>1. /\ queue[o] \in Seq(Calls) /\ Len(queue[o]) \in Nat /\ queue[o] # <<>>
      /\ 1 \in 1..Len(queue[o]) /\ queue[o][1] = c
  BY HeadFacts DEF Runs
<1>2. queue'[o] = Tail(queue[o]) /\ \A d \in Calls : d # c => pc'[d] = pc[d]
  BY DEF Ended, IInv, TypeOK
<1>3. CASE queue'[o] = <<>>
  BY <1>3 DEF Writing
<1>4. CASE queue'[o] # <<>>
  <2>1. 2 \in 1..Len(queue[o]) /\ Head(queue'[o]) = queue[o][2] /\ queue[o][2] \in Calls
    BY <1>1, <1>2, <1>4
  <2>2. queue[o][2] # c /\ pc[queue[o][2]] = "find"
    BY <1>1, <2>1 DEF IInv, QueueOK
  <2> QED
    BY <1>2, <2>1, <2>2 DEF Writing, Writes
<1> QED
  BY <1>3, <1>4

(* What a transaction records, in versions.                                    *)
LEMMA CommitVersions ==
    ASSUME IInv, NEW o \in Objects, NEW c \in Calls, Commits(o, c)
    PROVE  /\ keyOf[c] \in Keys
           /\ audit'[keyOf[c]] # None /\ audit'[keyOf[c]].version = doc'.version
           /\ pc[c] # "update" => doc' = doc
           /\ \A k \in Keys : k # keyOf[c] => audit'[k] = audit[k]
<1>1. keyOf[c] \in Keys /\ (Applies(keyOf[c]) \/ Rejects(keyOf[c]))
  BY CommitStep, HeadFacts DEF Commits, Writes
<1>2. audit'[keyOf[c]] # None /\ audit'[keyOf[c]].version = Len(doc'.state)
  BY <1>1, RecordFacts
<1>3. doc'.version = Len(doc'.state)
  <2>1. CASE Applies(keyOf[c])
    <3>1. doc'.version = Len(doc.state) + 1 /\ doc'.state = Append(doc.state, keyOf[c])
      BY <2>1 DEF Applies
    <3>2. doc.state \in Snapshots
      BY DEF IInv, TypeOK
    <3> QED
      BY <1>1, <3>1, <3>2 DEF Snapshots
  <2>2. CASE Rejects(keyOf[c])
    BY <2>2 DEF Rejects, IInv, DocOK
  <2> QED
    BY <1>1, <2>1, <2>2
<1>4. pc[c] # "update" => doc' = doc
  BY DEF Commits
<1>5. \A k \in Keys : k # keyOf[c] => audit'[k] = audit[k]
  BY <1>1 DEF Applies, Rejects, IInv, TypeOK
<1> QED
  BY <1>1, <1>2, <1>3, <1>4, <1>5

(* A step of another object's operation.                                       *)
LEMMA OtherStep ==
    ASSUME IInv, BehindOK, NEW p \in Objects, NEW c \in Calls, Runnable(p, c) \/ Fails(p, c),
           NEW o \in Objects, current = o, o # p
    PROVE  BehindOK'
<1>0. TypeOK /\ QueueOK
  BY DEF IInv
<1>1. Runs(p, c) /\ current' = current
  BY DEF Runnable, Fails, Replay, Accept, Refuse, Commit, Commits, Found, VersionConflict,
         SnapshotInvalid, ReadFails, TransactionFails, AnswerLost
<1> SUFFICES ASSUME reasons'[o] = {}
             PROVE  UpToDate(o)'
  BY <1>1 DEF BehindOK
<1>2. o # p /\ current # None
  BY NoneAssumption
<1>3. mem'[o] = mem[o] /\ queue'[o] = queue[o] /\ keyOf' = keyOf
  BY <1>0, <1>2 DEF Runnable, Fails, Replay, Accept, Refuse, Commit, Found, VersionConflict,
         SnapshotInvalid, ReadFails, TransactionFails, AnswerLost, Retry, Throw, Ended, Applied,
         TypeOK
<1>4. \A d \in Calls : d # c => pc'[d] = pc[d]
  BY <1>0 DEF Runnable, Fails, Replay, Accept, Refuse, Commit, Found, VersionConflict,
         SnapshotInvalid, ReadFails, TransactionFails, AnswerLost, Retry, Throw, Ended, TypeOK
<1>5. queue[o] # <<>> => /\ Head(queue[o]) # c /\ Head(queue[o]) \in Calls
                         /\ keyOf[Head(queue[o])] \in Keys
  <2> SUFFICES ASSUME queue[o] # <<>>
               PROVE  /\ Head(queue[o]) # c /\ Head(queue[o]) \in Calls
                      /\ keyOf[Head(queue[o])] \in Keys
    OBVIOUS
  <2>1. queue[o] \in Seq(Calls)
    BY <1>0, <1>2 DEF TypeOK
  <2>2. Runs(o, Head(queue[o])) /\ Head(queue[o]) \in Calls
    BY <2>1 DEF Runs
  <2> QED
    BY <1>1, <1>2, <2>2, HeadFacts
<1>6. /\ UNCHANGED store \/ Commits(p, c)
      /\ reasons[o] = {} /\ ~(Commits(p, c) /\ pc[c] = "update")
  <2>1. CASE Commit(p, c) \/ AnswerLost(p, c)
    <3>1. \/ reasons' = Superseded(p, c)
          \/ reasons' = [Superseded(p, c) EXCEPT ![p] = @ \cup {"thrown"}]
      BY <2>1 DEF Commit, AnswerLost, Retry, Throw
    <3>2. reasons'[o] = IF pc[c] = "update" THEN reasons[o] \cup {"superseded"} ELSE reasons[o]
      BY <1>2, <3>1 DEF Superseded
    <3> QED
      BY <2>1, <3>2 DEF Commit, AnswerLost
  <2>2. CASE ~(Commit(p, c) \/ AnswerLost(p, c))
    <3>1. UNCHANGED store
      BY <2>2 DEF Runnable, Fails, Replay, Accept, Refuse, Found, VersionConflict,
                  SnapshotInvalid, ReadFails, TransactionFails
    <3>2. reasons'[o] = reasons[o]
      BY <1>0, <1>2, <2>2 DEF Runnable, Fails, Replay, Accept, Refuse, Found, VersionConflict,
                  SnapshotInvalid, ReadFails, TransactionFails, Retry, Throw, TypeOK
    <3>3. ~(Commits(p, c) /\ pc[c] = "update")
      <4>1. ASSUME Commits(p, c), pc[c] = "update"
            PROVE  FALSE
        <5>1. doc'.version = doc.version + 1 /\ doc.version \in Nat
          BY <1>0, <4>1 DEF Commits, TypeOK
        <5> QED
          BY <3>1, <5>1 DEF store
      <4> QED
        BY <4>1
    <3> QED
      BY <3>1, <3>2, <3>3
  <2> QED
    BY <2>1, <2>2
<1>7. UpToDate(o)
  BY <1>2, <1>6 DEF BehindOK
<1>8. /\ doc' = doc
      /\ \A k \in Keys : audit'[k] = audit[k]
                         \/ /\ audit[k] = None
                            /\ audit'[k] # None /\ audit'[k].version = doc.version
  <2>1. CASE UNCHANGED store
    BY <2>1 DEF store
  <2>2. CASE Commits(p, c)
    <3>1. audit[keyOf[c]] = None
      BY <2>2 DEF Commits, Known
    <3>2. pc[c] # "update" /\ doc' = doc
      BY <1>6, <2>2, CommitVersions
    <3> QED
      BY <2>2, <3>1, <3>2, CommitVersions
  <2> QED
    BY <1>6, <2>1, <2>2
<1>9. Writing(o)' <=> Writing(o)
  <2>1. CASE queue[o] = <<>>
    BY <1>3, <2>1 DEF Writing
  <2>2. CASE queue[o] # <<>>
    BY <1>3, <1>4, <1>5, <2>2 DEF Writing
  <2> QED
    BY <2>1, <2>2
<1>10. CASE ~Writing(o)
  <2>1. mem[o].version = doc.version
    BY <1>7, <1>10 DEF UpToDate
  <2> QED
    BY <1>3, <1>8, <1>9, <1>10, <2>1 DEF UpToDate
<1>11. CASE Writing(o)
  <2>1. PICK d \in Calls : d = Head(queue[o]) /\ keyOf[d] \in Keys
    BY <1>5, <1>11 DEF Writing
  <2>2. Head(queue'[o]) = d /\ keyOf'[d] = keyOf[d]
    BY <1>3, <2>1
  <2>3. mem[o].version = doc.version \/ Known(d)
    BY <1>7, <1>11, <2>1 DEF UpToDate
  <2>4. Known(d) => audit[keyOf[d]].version = doc.version
    BY <1>7, <1>11, <2>1 DEF UpToDate
  <2>5. Known(d) => Known(d)'
    BY <1>8, <2>1, <2>2 DEF Known
  <2>6. Known(d)' => audit'[keyOf[d]].version = doc.version
    BY <1>8, <2>1, <2>2, <2>4 DEF Known
  <2> QED
    BY <1>3, <1>8, <1>9, <1>11, <2>2, <2>3, <2>5, <2>6 DEF UpToDate
<1> QED
  BY <1>10, <1>11

(* A step of its own operation.                                                *)
LEMMA OwnStep ==
    ASSUME IInv, BehindOK, NEW o \in Objects, NEW c \in Calls, Runnable(o, c) \/ Fails(o, c),
           current = o
    PROVE  BehindOK'
<1>0. TypeOK /\ QueueOK
  BY DEF IInv
<1>1. Runs(o, c) /\ current' = current
  BY DEF Runnable, Fails, Replay, Accept, Refuse, Commit, Commits, Found, VersionConflict,
         SnapshotInvalid, ReadFails, TransactionFails, AnswerLost
<1> SUFFICES ASSUME reasons'[o] = {}
             PROVE  UpToDate(o)'
  BY <1>1 DEF BehindOK
<1>b. reasons[o] = {} => UpToDate(o)
  BY NoneAssumption DEF BehindOK
<1>2. queue[o] # <<>> /\ Head(queue[o]) = c /\ keyOf[c] \in Keys
  BY <1>1, HeadFacts DEF Runs
<1>3. ASSUME NEW r, Throw(o, c, r), r \in [Objects -> SUBSET Reasons]
      PROVE  FALSE
  <2>1. reasons'[o] = r[o] \cup {"thrown"}
    BY <1>3 DEF Throw
  <2> QED
    BY <2>1
<1>4. Superseded(o, c) \in [Objects -> SUBSET Reasons] /\ Superseded(o, c)[o] = reasons[o]
  BY <1>0 DEF Superseded, TypeOK, Reasons
<1>5. ~(VersionConflict(o, c) \/ SnapshotInvalid(o, c) \/ ReadFails(o, c))
  BY <1>0, <1>3 DEF VersionConflict, SnapshotInvalid, ReadFails, TypeOK
<1>6. ~Replay(o, c)
  <2>1. ASSUME Replay(o, c)
        PROVE  FALSE
    <3>1. reasons'[o] = reasons[o] \cup {"replayed"}
      BY <1>0, <2>1 DEF Replay, TypeOK
    <3> QED
      BY <3>1
  <2> QED
    BY <2>1
<1>7. CASE Accept(o, c) \/ Refuse(o, c)
  <2>1. /\ mem'[o].version = mem[o].version
        /\ UNCHANGED <<doc, audit, queue, keyOf, reasons>> /\ audit[keyOf[c]] = None
        /\ pc[c] = "find"
    BY <1>0, <1>7 DEF Accept, Refuse, TypeOK, Memory, store
  <2>2. ~Writing(o) /\ mem[o].version = doc.version
    BY <1>b, <1>2, <2>1 DEF UpToDate, Writing, Writes
  <2>3. Head(queue'[o]) = c /\ ~Known(c)'
    BY <1>2, <2>1 DEF Known
  <2> QED
    BY <2>1, <2>2, <2>3 DEF UpToDate
<1>8. CASE Commit(o, c)
  <2>1. Commits(o, c) /\ Applied(o, audit'[keyOf[c]]) /\ ~Writing(o)'
    BY <1>1, <1>8, EndedIsNotWriting DEF Commit
  <2>2. mem'[o].version = doc'.version
    BY <1>0, <2>1, CommitVersions DEF Applied, TypeOK
  <2> QED
    BY <2>1, <2>2 DEF UpToDate
<1>9. CASE Found(o, c)
  <2>1. /\ Known(c) /\ pc[c] \in Writes /\ Applied(o, audit[keyOf[c]]) /\ ~Writing(o)'
        /\ doc' = doc
    BY <1>1, <1>9, EndedIsNotWriting DEF Found, store
  <2>2. reasons[o] = {}
    BY <1>0, <1>9 DEF Found, TypeOK
  <2>3. audit[keyOf[c]].version = doc.version
    BY <1>b, <1>2, <2>1, <2>2 DEF UpToDate, Writing
  <2>4. mem'[o].version = doc'.version
    BY <1>0, <2>1, <2>3 DEF Applied, TypeOK
  <2> QED
    BY <2>1, <2>4 DEF UpToDate
<1>10. CASE TransactionFails(o, c)
  <2>1. UNCHANGED <<doc, audit, mem, queue, pc, keyOf, reasons>>
    BY <1>0, <1>3, <1>10 DEF TransactionFails, Retry, store, TypeOK
  <2>2. UpToDate(o)
    BY <1>b, <2>1
  <2> QED
    BY <2>1, <2>2 DEF UpToDate, Writing, Known
<1>11. CASE AnswerLost(o, c)
  <2>1. Commits(o, c) /\ UNCHANGED <<mem, queue, pc, keyOf>> /\ reasons' = Superseded(o, c)
    BY <1>3, <1>4, <1>11 DEF AnswerLost, Retry
  <2>2. Writing(o)' /\ Head(queue'[o]) = c /\ keyOf'[c] = keyOf[c]
    BY <1>2, <2>1 DEF Writing, Commits
  <2> QED
    BY <2>1, <2>2, CommitVersions DEF UpToDate, Known
<1> QED
  BY <1>5, <1>6, <1>7, <1>8, <1>9, <1>10, <1>11 DEF Runnable, Fails

LEMMA NextBehindOK == ASSUME IInv, BehindOK, [Next]_vars PROVE BehindOK'
<1>0. TypeOK /\ QueueOK
  BY DEF IInv
<1>1. ASSUME NEW o \in Objects, Recover(o)
      PROVE  BehindOK'
  <2>1. current' = o /\ queue'[o] = <<>> /\ mem'[o].version = doc'.version
    BY <1>0, <1>1 DEF Recover, TypeOK, ops, store
  <2> QED
    BY <2>1 DEF BehindOK, UpToDate, Writing
<1>2. ASSUME \/ \E o \in Objects : CloseSession(o)
             \/ Restart
      PROVE  BehindOK'
  BY <1>2, NoneAssumption DEF CloseSession, Restart, BehindOK
<1>3. ASSUME NEW c \in Calls, NEW k \in Keys, Dispatch(c, k)
      PROVE  BehindOK'
  <2> DEFINE o == current
  <2>1. o \in Objects /\ pc[c] = "new" /\ UNCHANGED <<doc, audit, mem, current, reasons>>
    BY <1>0, <1>3 DEF Dispatch, TypeOK, store
  <2>2. /\ queue[o] \in Seq(Calls) /\ queue'[o] = Append(queue[o], c) /\ pc'[c] = "find"
        /\ \A d \in Calls : d # c => pc'[d] = pc[d] /\ keyOf'[d] = keyOf[d]
    BY <1>0, <1>3, <2>1 DEF Dispatch, TypeOK
  <2>3. CASE queue[o] = <<>>
    <3>1. Head(queue'[o]) = c
      BY <2>2, <2>3
    <3> QED
      BY <2>1, <2>2, <2>3, <3>1 DEF BehindOK, UpToDate, Writing, Writes
  <2>4. CASE queue[o] # <<>>
    <3>1. /\ Head(queue[o]) \in Calls /\ queue'[o] # <<>> /\ Head(queue'[o]) = Head(queue[o])
          /\ Runs(o, Head(queue[o]))
      BY <2>2, <2>4 DEF Runs
    <3>2. pc[Head(queue[o])] \in Queued
      BY <2>1, <3>1, HeadFacts
    <3>3. Head(queue[o]) # c
      BY <2>1, <3>2 DEF Queued, Writes
    <3> QED
      BY <2>1, <2>2, <2>4, <3>1, <3>3 DEF BehindOK, UpToDate, Writing, Known
  <2> QED
    BY <2>3, <2>4
<1>4. CASE UNCHANGED vars
  BY <1>4 DEF vars, store, ops, BehindOK, UpToDate, Writing, Known
<1>5. ASSUME NEW o \in Objects, NEW c \in Calls, Runnable(o, c) \/ Fails(o, c)
      PROVE  BehindOK'
  <2>1. CASE current = None
    <3>1. current' = current
      BY <1>5 DEF Runnable, Fails, Replay, Accept, Refuse, Commit, Found, VersionConflict,
                  SnapshotInvalid, ReadFails, TransactionFails, AnswerLost
    <3> QED
      BY <2>1, <3>1 DEF BehindOK
  <2>2. CASE current \in Objects
    BY <1>5, <2>2, OtherStep, OwnStep
  <2> QED
    BY <1>0, <2>1, <2>2 DEF TypeOK
<1> QED
  BY <1>1, <1>2, <1>3, <1>4, <1>5 DEF Next

--------------------------------------------------------------------------------
(* The theorems                                                                *)

LEMMA InitIInv == ASSUME Init PROVE IInv
<1>1. TypeOK
  BY BoundsAssumption DEF Init, TypeOK, NoMemory, Memory, Snapshots
<1>2. DocOK /\ AuditsTellHistory
  BY DEF Init, DocOK, AuditsTellHistory
<1>3. QueueOK
  BY DEF Init, QueueOK
<1>4. MemOK
  <2>1. /\ \A o \in Objects : mem[o].state = <<>> /\ mem[o].version = 0 /\ queue[o] = <<>>
        /\ doc.state = <<>>
    BY DEF Init, NoMemory
  <2>2. <<>> \in Snapshots /\ Len(<<>>) = 0
    BY DEF Snapshots
  <2> QED
    BY <2>1, <2>2, PrefixSelf DEF MemOK, Updating, StoredMemory
<1> QED
  BY <1>1, <1>2, <1>3, <1>4 DEF IInv

(* The invariant is inductive.                                                 *)
THEOREM Invariance == Spec => []IInv
<1>1. Init => IInv
  BY InitIInv
<1>2. IInv /\ [Next]_vars => IInv'
  BY NextTypeOK, NextStoreOK, NextQueueOK, NextMemOK DEF IInv
<1> QED
  BY <1>1, <1>2, PTL DEF Spec

(* Every variable has its type: no operation makes more attempts than          *)
(* executeWithRetry allows.                                                    *)
THEOREM TypeCorrect == Spec => []TypeOK
<1>1. IInv => TypeOK
  BY DEF IInv
<1> QED
  BY <1>1, Invariance, PTL

(* The audits of updateTransition and recordRejected hold stored snapshots     *)
(* with their versions, so that a replay answers with what was.                *)
THEOREM AuditsTell == Spec => []AuditsTellHistory
<1>1. IInv => AuditsTellHistory
  BY DEF IInv
<1> QED
  BY <1>1, Invariance, PTL

(* Whatever failed, an object that runs no operation of dispatchPersisted      *)
(* holds a snapshot that was stored, and its version.                          *)
THEOREM IdleHoldsStored == Spec => []IdleIsStored
<1>1. IInv => IdleIsStored
  BY DEF IInv, MemOK, IdleIsStored, Updating, StoredMemory
<1> QED
  BY <1>1, Invariance, PTL

(* The object that the lifecycle service keeps is behind the document only     *)
(* after it replayed an old operation, gave up on one, or was overtaken.       *)
THEOREM BehindThm == Spec => []BehindHasReason
<1>1. Init => BehindOK
  BY DEF Init, BehindOK
<1>2. IInv /\ BehindOK /\ [Next]_vars => BehindOK'
  BY NextBehindOK
<1>3. IInv /\ BehindOK => BehindHasReason
  BY NoneAssumption DEF BehindOK, UpToDate, Writing, BehindHasReason
<1> QED
  BY <1>1, <1>2, <1>3, Invariance, PTL DEF Spec

(* The stored session implements SessionHistory, for any number of objects     *)
(* made of it, of retries and of restarts.                                     *)
THEOREM Implements == Spec => ImplementsHistory
<1>1. Init => H!Init
  BY DEF Init, H!Init
<1>2. IInv /\ [Next]_vars => [H!Next]_<<doc.state, {k \in Keys : audit[k] # None /\ ~audit[k].ok}, doc.closed>>
  <2> SUFFICES ASSUME IInv, [Next]_vars
               PROVE  [H!Next]_<<doc.state, {k \in Keys : audit[k] # None /\ ~audit[k].ok}, doc.closed>>
    OBVIOUS
  <2>0. /\ doc.state \in Snapshots /\ doc.closed \in BOOLEAN
        /\ audit \in [Keys -> Audits \cup {None}]
        /\ DocOK
    BY DEF IInv, TypeOK
  <2>1. ASSUME NEW k \in Keys, audit[k] = None
        PROVE  k \notin H!Recorded
    <3>1. \A n \in 1..Len(doc.state) : doc.state[n] # k
      BY <2>0, <2>1 DEF DocOK
    <3> QED
      BY <2>1, <3>1 DEF H!Recorded
  <2>2. ASSUME NEW k \in Keys, Applies(k)
        PROVE  H!Next
    <3>1. audit'[k] # None /\ audit'[k].ok /\ audit[k] = None
      BY <2>2, RecordFacts DEF Applies
    <3>2. \A j \in Keys : j # k => audit'[j] = audit[j]
      BY <2>0, <2>2 DEF Applies
    <3>3. {j \in Keys : audit'[j] # None /\ ~audit'[j].ok} = {j \in Keys : audit[j] # None /\ ~audit[j].ok}
      BY <3>1, <3>2
    <3>4. doc'.state = Append(doc.state, k) /\ doc'.closed = FALSE
      BY <2>2 DEF Applies
    <3>5. ~doc.closed /\ MayApply(doc.state, k) /\ k \in Keys \ H!Recorded /\ doc'.closed = doc.closed
      BY <2>0, <2>1, <2>2, <3>1, <3>4 DEF Applies
    <3>6. H!Apply
      BY <3>3, <3>4, <3>5 DEF H!Apply, MayApply
    <3> QED
      BY <3>6 DEF H!Next
  <2>3. ASSUME NEW k \in Keys, Rejects(k), ~Applies(k)
        PROVE  H!Next
    <3>1. audit'[k] # None /\ ~audit'[k].ok /\ audit[k] = None /\ doc' = doc /\ ~doc.closed
      BY <2>3, RecordFacts DEF Rejects
    <3>2. \A j \in Keys : j # k => audit'[j] = audit[j]
      BY <2>0, <2>3 DEF Rejects
    <3>3. {j \in Keys : audit'[j] # None /\ ~audit'[j].ok}
              = {j \in Keys : audit[j] # None /\ ~audit[j].ok} \cup {k}
      BY <3>1, <3>2
    <3>4. H!Reject
      BY <2>1, <3>1, <3>3 DEF H!Reject
    <3> QED
      BY <3>4 DEF H!Next
  <2>4. CASE Closes
    BY <2>4 DEF Closes, H!Next, H!Close
  <2>5. CASE UNCHANGED store
    BY <2>5 DEF store
  <2> QED
    BY <2>2, <2>3, <2>4, <2>5, StoreStep
<1> QED
  BY <1>1, <1>2, Invariance, PTL DEF Spec, ImplementsHistory, H!Spec

================================================================================
