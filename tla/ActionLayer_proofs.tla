--------------------------- MODULE ActionLayer_proofs --------------------------
(* What TLAPS proves of the action layer (bin/action-layer): of its scheduler,*)
(* for any characters, operation ids, calls and limit, and of its durable    *)
(* workflows, for any clients and lost acknowledgements.  The two modules keep*)
(* their names apart, so that this one extends both.                         *)
EXTENDS ActionScheduler, WorkflowJournal, Sequences, SequenceTheorems, FiniteSetTheorems, TLAPS

--------------------------------------------------------------------------------
(* The inductive invariant                                                   *)

Admitted(c) == phase[c] # "new"

(* A call of schedule() that has not been made has no operation.             *)
UncalledIsNew == \A c \in Calls : promise[c] = None => ~Admitted(c)

(* What the closure of an admitted call holds.                               *)
ClosureOK ==
    \A c \in Calls : Admitted(c) =>
        /\ member[c] \in Members
        /\ opId[c] \in OpIds
        /\ queueOf[c] \in Calls
        /\ ticket[c] < clock

TicketsDistinct ==
    \A c, d \in Calls :
        Admitted(c) /\ Admitted(d) /\ ticket[c] = ticket[d] => c = d

(* A queue object in the map belongs to its character, holds all the live    *)
(* calls of the character, and its tail is the youngest of them.             *)
QueueOK ==
    \A m \in Members :
        /\ queueAt[m] = None <=> LiveOf(m) = {}
        /\ queueAt[m] # None =>
            /\ Admitted(queueAt[m])
            /\ member[queueAt[m]] = m
            /\ tail[queueAt[m]] \in Calls
            /\ Admitted(tail[queueAt[m]])
            /\ member[tail[queueAt[m]]] = m
            /\ \A c \in LiveOf(m) :
                  /\ queueOf[c] = queueAt[m]
                  /\ ticket[c] <= ticket[tail[queueAt[m]]]

CountsOK ==
    \A m \in Members :
        /\ IsFiniteSet(LiveOf(m))
        /\ QueueSize(m) = Cardinality(LiveOf(m))
        /\ QueueSize(m) <= MaxPending

OperationsOK ==
    /\ \A c \in Calls : phase[c] \in Live => operationAt[member[c]][opId[c]] = c
    /\ \A m \in Members, o \in OpIds :
           operationAt[m][o] # None =>
               /\ phase[operationAt[m][o]] \in Live
               /\ member[operationAt[m][o]] = m
               /\ opId[operationAt[m][o]] = o

(* The chain: behind an unsettled call, whoever was admitted later for the   *)
(* same character is chained to a call at least as young.                    *)
ChainOK ==
    \A c, d \in Calls :
        /\ phase[c] \in Unsettled
        /\ Admitted(d)
        /\ member[c] = member[d]
        /\ ticket[c] < ticket[d]
        => /\ prev[d] # None
           /\ Admitted(prev[d])
           /\ member[prev[d]] = member[d]
           /\ ticket[c] <= ticket[prev[d]]

IInv ==
    /\ TypeOK
    /\ UncalledIsNew
    /\ ClosureOK
    /\ TicketsDistinct
    /\ QueueOK
    /\ CountsOK
    /\ OperationsOK
    /\ ChainOK
    /\ StartsInOrder

--------------------------------------------------------------------------------
(* Initially nothing is live.                                                *)
LEMMA InitIInv == Init => IInv
<1> SUFFICES ASSUME Init PROVE IInv
  OBVIOUS
<1> USE SentinelAssumption
<1>1. TypeOK
  BY DEF Init, TypeOK, Phases
<1>2. \A c \in Calls : phase[c] = "new"
  BY DEF Init
<1>3. \A m \in Members : LiveOf(m) = {} /\ queueAt[m] = None
  BY DEF Init, LiveOf, Live
<1>4. CountsOK
  BY <1>3, FS_EmptySet, MaxPendingAssumption DEF CountsOK, QueueSize
<1>5. OperationsOK
  BY <1>2 DEF Init, OperationsOK, Live
<1>6. ChainOK /\ StartsInOrder /\ ClosureOK /\ TicketsDistinct /\ UncalledIsNew
  BY <1>2 DEF ChainOK, StartsInOrder, ClosureOK, TicketsDistinct, UncalledIsNew,
              Admitted, Unsettled, Started
<1>7. QueueOK
  BY <1>3 DEF QueueOK
<1> QED
  BY <1>1, <1>4, <1>5, <1>6, <1>7 DEF IInv

(* A step that leaves the map, the counters and the calls' phases as they are*)
(* and touches the arguments only of a call without an operation.            *)
LEMMA QuietStep ==
    ASSUME IInv, TypeOK',
           UNCHANGED <<queueAt, tail, pending, operationAt, queueOf, prev, phase,
                       ticket, clock>>,
           \A c \in Calls : Admitted(c) => member'[c] = member[c] /\ opId'[c] = opId[c],
           \A c \in Calls : promise'[c] = None => promise[c] = None
    PROVE  IInv'
<1> USE DEF IInv
<1>1. \A m \in Members : LiveOf(m)' = LiveOf(m)
  BY DEF LiveOf, Live, Admitted
<1>2. UncalledIsNew' /\ ClosureOK' /\ TicketsDistinct'
  BY DEF UncalledIsNew, ClosureOK, TicketsDistinct, Admitted
<1>3. QueueOK'
  BY <1>1 DEF QueueOK, Admitted, TypeOK
<1>4. CountsOK'
  BY <1>1 DEF CountsOK, QueueSize
<1>5. OperationsOK'
  BY DEF OperationsOK, Admitted, Live, TypeOK
<1>6. ChainOK'
  BY DEF ChainOK, Admitted, Unsettled, TypeOK
<1>7. StartsInOrder'
  BY DEF StartsInOrder, Admitted, Started
<1> QED
  BY <1>2, <1>3, <1>4, <1>5, <1>6, <1>7

(* Every action keeps the types.                                             *)
LEMMA NextTypeOK == IInv /\ [Next]_vars => TypeOK'
<1> SUFFICES ASSUME IInv, [Next]_vars PROVE TypeOK'
  OBVIOUS
<1> USE SentinelAssumption DEF Phases, Live, Started
<1>t. TypeOK
  BY DEF IInv
<1>1. ASSUME NEW c \in Calls, RefuseClosed(c) PROVE TypeOK'
  BY <1>t, <1>1 DEF RefuseClosed, Refuse, TypeOK
<1>2. ASSUME NEW c \in Calls, NEW m \in Members, NEW o \in OpIds, Join(c, m, o)
      PROVE  TypeOK'
  BY <1>t, <1>2 DEF Join, Existing, TypeOK
<1>3. ASSUME NEW c \in Calls, NEW m \in Members, NEW o \in OpIds, RefuseFull(c, m, o)
      PROVE  TypeOK'
  BY <1>t, <1>3 DEF RefuseFull, Refuse, TypeOK
<1>4. ASSUME NEW c \in Calls, NEW m \in Members, NEW o \in OpIds, Admit(c, m, o)
      PROVE  TypeOK'
  <2> DEFINE q == IF queueAt[m] = None THEN c ELSE queueAt[m]
  <2>1. q \in Calls /\ QueueSize(m) \in Nat
    BY <1>t DEF TypeOK, QueueSize
  <2>2. pending' = [pending EXCEPT ![q] = QueueSize(m) + 1]
    BY <1>4 DEF Admit
  <2>3. pending' \in [Calls -> Nat]
    BY <1>t, <2>1, <2>2 DEF TypeOK
  <2>4. /\ queueAt' \in [Members -> Calls \cup {None}]
        /\ tail' \in [Calls -> Calls \cup {None}]
        /\ operationAt' \in [Members -> [OpIds -> Calls \cup {None}]]
    BY <1>t, <1>4, <2>1 DEF Admit, TypeOK
  <2>5. /\ promise' \in [Calls -> Calls \cup {None, Refused}]
        /\ member' \in [Calls -> Members \cup {None}]
        /\ opId' \in [Calls -> OpIds \cup {None}]
    BY <1>t, <1>4 DEF Admit, TypeOK
  <2>6. /\ queueOf' \in [Calls -> Calls \cup {None}]
        /\ prev' \in [Calls -> Calls \cup {None}]
        /\ phase' \in [Calls -> Phases]
    BY <1>t, <1>4, <2>1 DEF Admit, TypeOK
  <2>7. ticket' \in [Calls -> Nat] /\ clock' \in Nat /\ closed' \in BOOLEAN
    BY <1>t, <1>4 DEF Admit, TypeOK
  <2> QED
    BY <2>3, <2>4, <2>5, <2>6, <2>7 DEF TypeOK
<1>5. ASSUME NEW c \in Calls, Start(c) PROVE TypeOK'
  BY <1>t, <1>5 DEF Start, TypeOK
<1>6. ASSUME NEW c \in Calls, Settle(c) PROVE TypeOK'
  BY <1>t, <1>6 DEF Settle, TypeOK
<1>7. ASSUME NEW c \in Calls, Release(c) PROVE TypeOK'
  <2>1. /\ phase[c] \in Live
        /\ member[c] \in Members /\ opId[c] \in OpIds /\ queueOf[c] \in Calls
    BY <1>7 DEF Release, IInv, ClosureOK, Admitted
  <2>2. /\ queueAt[member[c]] = queueOf[c]
        /\ c \in LiveOf(member[c])
    BY <2>1, <1>t DEF IInv, QueueOK, LiveOf, TypeOK
  <2>3. pending[queueOf[c]] = Cardinality(LiveOf(member[c]))
    BY <2>1, <2>2 DEF IInv, CountsOK, QueueSize
  <2>4. Cardinality(LiveOf(member[c])) \in Nat \ {0}
    BY <2>1, <2>2, FS_EmptySet, FS_CardinalityType DEF IInv, CountsOK
  <2>5. pending' \in [Calls -> Nat]
    <3>1. pending[queueOf[c]] - 1 \in Nat
      BY <2>3, <2>4
    <3>2. pending' = [pending EXCEPT ![queueOf[c]] = pending[queueOf[c]] - 1]
      BY <1>7 DEF Release
    <3> QED
      BY <1>t, <2>1, <3>1, <3>2 DEF TypeOK
  <2>6. queueAt' \in [Members -> Calls \cup {None}]
    <3>1. QueueAfterRelease(c) \in Calls \cup {None}
      BY <1>t, <2>1 DEF QueueAfterRelease, TypeOK
    <3>2. queueAt' = [queueAt EXCEPT ![member[c]] = QueueAfterRelease(c)]
      BY <1>7 DEF Release
    <3> QED
      BY <1>t, <2>1, <3>1, <3>2 DEF TypeOK
  <2>7. phase' \in [Calls -> Phases]
    BY <1>t, <1>7, <2>1 DEF Release, TypeOK
  <2>8. operationAt' \in [Members -> [OpIds -> Calls \cup {None}]]
    <3> DEFINE row == [operationAt[member[c]] EXCEPT ![opId[c]] = IF @ = c THEN None ELSE @]
    <3>1. operationAt[member[c]] \in [OpIds -> Calls \cup {None}]
      BY <1>t, <2>1 DEF TypeOK
    <3>2. row \in [OpIds -> Calls \cup {None}]
      BY <2>1, <3>1
    <3>3. operationAt' = [operationAt EXCEPT ![member[c]] = row]
      BY <1>7 DEF Release
    <3> HIDE DEF row
    <3> QED
      BY <1>t, <2>1, <3>2, <3>3 DEF TypeOK
  <2> QED
    BY <1>t, <1>7, <2>5, <2>6, <2>7, <2>8 DEF Release, TypeOK
<1>8. ASSUME Close PROVE TypeOK'
  BY <1>t, <1>8 DEF Close, callVars, TypeOK
<1>9. ASSUME UNCHANGED vars PROVE TypeOK'
  BY <1>t, <1>9 DEF vars, callVars, TypeOK
<1> QED
  BY <1>1, <1>2, <1>3, <1>4, <1>5, <1>6, <1>7, <1>8, <1>9 DEF Next, Schedule

(* The operation of an admitted call starts or settles: only its phase moves,*)
(* and it stays live.                                                        *)
LEMMA PhaseStep ==
    ASSUME IInv, TypeOK', NEW c \in Calls,
           phase[c] \in {"waiting", "running"},
           phase'[c] \in {"running", "fulfilled", "rejected"},
           phase[c] = "waiting" => phase'[c] = "running" /\ TailSettled(c),
           phase[c] = "running" => phase'[c] # "running",
           \A d \in Calls : d # c => phase'[d] = phase[d],
           UNCHANGED <<queueAt, tail, pending, operationAt, promise, member, opId,
                       queueOf, prev, ticket, clock>>
    PROVE  IInv'
<1>t. TypeOK
  BY DEF IInv
<1>0. \A d \in Calls : /\ Admitted(d)' <=> Admitted(d)
                       /\ phase'[d] \in Live <=> phase[d] \in Live
                       /\ phase'[d] \in Unsettled => phase[d] \in Unsettled
                       /\ phase[d] \in Settled => phase'[d] \in Settled
  BY DEF Admitted, Live, Unsettled, Settled
<1>1. \A m \in Members : LiveOf(m)' = LiveOf(m)
  BY <1>0 DEF LiveOf
<1>2. UncalledIsNew' /\ ClosureOK' /\ TicketsDistinct'
  BY <1>0 DEF IInv, UncalledIsNew, ClosureOK, TicketsDistinct
<1>3. QueueOK'
  BY <1>0, <1>1, <1>t DEF IInv, QueueOK, TypeOK
<1>4. CountsOK'
  BY <1>1 DEF IInv, CountsOK, QueueSize
<1>5. OperationsOK'
  BY <1>0, <1>t DEF IInv, OperationsOK, TypeOK
<1>6. ChainOK'
  BY <1>0, <1>t DEF IInv, ChainOK, TypeOK
<1>7. StartsInOrder'
  <2> SUFFICES ASSUME NEW a \in Calls, NEW d \in Calls,
                      Admitted(a), phase'[d] \in Started, member[a] = member[d],
                      ticket[a] < ticket[d]
               PROVE  phase'[a] \in Settled
    BY <1>0 DEF StartsInOrder, Admitted
  <2>1. CASE d # c \/ phase[c] = "running"
    <3>1. phase[d] \in Started
      BY <2>1 DEF Started
    <3> QED
      BY <3>1, <1>0 DEF IInv, StartsInOrder, Admitted
  <2>2. CASE d = c /\ phase[c] = "waiting"
    <3> SUFFICES ASSUME phase[a] \in Unsettled PROVE FALSE
      <4>1. phase[a] \in Unsettled \cup Settled
        BY <1>t DEF TypeOK, Admitted, Phases, Unsettled, Settled, Live, Started
      <4> QED
        BY <4>1, <1>0
    <3>1. /\ prev[d] # None /\ prev[d] \in Calls
          /\ Admitted(prev[d]) /\ member[prev[d]] = member[d]
          /\ ticket[a] <= ticket[prev[d]]
      BY <2>2, <1>t DEF IInv, ChainOK, TypeOK, Admitted
    <3>2. phase[prev[d]] \in Settled
      BY <2>2, <3>1 DEF TailSettled
    <3>3. a # prev[d]
      BY <3>2 DEF Settled, Unsettled
    <3>4. ticket[a] # ticket[prev[d]]
      BY <3>1, <3>3 DEF IInv, TicketsDistinct
    <3>n. ticket[a] \in Nat /\ ticket[prev[d]] \in Nat
      BY <3>1, <1>t DEF TypeOK
    <3>5. ticket[a] < ticket[prev[d]]
      BY <3>1, <3>4, <3>n
    <3>6. phase[prev[d]] \in Started
      BY <3>2 DEF Settled, Started
    <3>7. phase[a] \in Settled
      BY <3>1, <3>5, <3>6 DEF IInv, StartsInOrder, Admitted
    <3> QED
      BY <3>7 DEF Settled, Unsettled
  <2> QED
    BY <2>1, <2>2
<1> QED
  BY <1>2, <1>3, <1>4, <1>5, <1>6, <1>7 DEF IInv

(* A call is admitted: it becomes the youngest live call of its character.   *)
LEMMA AdmitStep ==
    ASSUME IInv, TypeOK', NEW c \in Calls, NEW m \in Members, NEW o \in OpIds,
           Admit(c, m, o)
    PROVE  IInv'
<1> DEFINE q == IF queueAt[m] = None THEN c ELSE queueAt[m]
<1> USE SentinelAssumption
<1>t. TypeOK
  BY DEF IInv
<1>0. /\ ~Admitted(c)
      /\ q \in Calls
      /\ queueAt[m] # None => Admitted(q) /\ q # c /\ member[q] = m
  BY <1>t DEF Admit, IInv, UncalledIsNew, QueueOK, TypeOK
<1>1. /\ phase'[c] = "waiting" /\ member'[c] = m /\ opId'[c] = o
      /\ queueOf'[c] = q /\ ticket'[c] = clock
      /\ prev'[c] = IF queueAt[m] = None THEN None ELSE tail[q]
      /\ clock' = clock + 1
  BY <1>t DEF Admit, TypeOK
<1>2. \A d \in Calls \ {c} :
          /\ phase'[d] = phase[d] /\ member'[d] = member[d] /\ opId'[d] = opId[d]
          /\ queueOf'[d] = queueOf[d] /\ prev'[d] = prev[d] /\ ticket'[d] = ticket[d]
          /\ promise'[d] = promise[d]
  BY <1>t DEF Admit, TypeOK
<1>3. /\ queueAt'[m] = q
      /\ tail'[q] = c
      /\ pending'[q] = QueueSize(m) + 1
      /\ \A x \in Members \ {m} : queueAt'[x] = queueAt[x]
      /\ \A d \in Calls \ {q} : tail'[d] = tail[d] /\ pending'[d] = pending[d]
  BY <1>0, <1>t DEF Admit, TypeOK
<1>4. /\ LiveOf(m)' = LiveOf(m) \cup {c}
      /\ c \notin LiveOf(m)
      /\ \A x \in Members \ {m} : LiveOf(x)' = LiveOf(x)
  BY <1>0, <1>1, <1>2 DEF LiveOf, Live, Admitted
<1>5. \A d \in Calls : Admitted(d) => ticket[d] < clock /\ d # c /\ ticket[d] \in Nat
  BY <1>0, <1>t DEF IInv, ClosureOK, TypeOK
<1>n. clock \in Nat /\ clock' \in Nat /\ clock < clock'
  BY <1>1, <1>t DEF TypeOK
<1>a. \A d \in Calls : Admitted(d)' <=> d = c \/ Admitted(d)
  BY <1>1, <1>2 DEF Admitted
<1>p. promise'[c] # None
  BY <1>t DEF Admit, TypeOK
<1>6. UncalledIsNew'
  BY <1>a, <1>2, <1>p DEF IInv, UncalledIsNew
<1>7. ClosureOK'
  <2> SUFFICES ASSUME NEW d \in Calls, Admitted(d)'
               PROVE  /\ member'[d] \in Members /\ opId'[d] \in OpIds
                      /\ queueOf'[d] \in Calls /\ ticket'[d] < clock'
    BY DEF ClosureOK
  <2>1. CASE d = c
    BY <2>1, <1>0, <1>1, <1>n
  <2>2. CASE d # c
    <3>1. Admitted(d) /\ ticket[d] < clock /\ ticket[d] \in Nat
      BY <2>2, <1>a, <1>5
    <3>2. ticket'[d] < clock'
      BY <2>2, <3>1, <1>2, <1>n
    <3> QED
      BY <2>2, <3>1, <3>2, <1>2 DEF IInv, ClosureOK
  <2> QED
    BY <2>1, <2>2
<1>8. TicketsDistinct'
  <2> SUFFICES ASSUME NEW a \in Calls, NEW d \in Calls,
                      Admitted(a)', Admitted(d)', ticket'[a] = ticket'[d]
               PROVE  a = d
    BY DEF TicketsDistinct
  <2>1. \A x \in Calls : x # c /\ Admitted(x)' => ticket'[x] # ticket'[c]
    BY <1>1, <1>2, <1>5, <1>a, <1>n
  <2> QED
    BY <2>1, <1>2, <1>a DEF IInv, TicketsDistinct
<1>9. QueueOK'
  <2> SUFFICES ASSUME NEW x \in Members
               PROVE  /\ queueAt'[x] = None <=> LiveOf(x)' = {}
                      /\ queueAt'[x] # None =>
                          /\ Admitted(queueAt[x])'
                          /\ member'[queueAt'[x]] = x
                          /\ tail'[queueAt'[x]] \in Calls
                          /\ Admitted(tail[queueAt[x]])'
                          /\ member'[tail'[queueAt'[x]]] = x
                          /\ \A d \in LiveOf(x)' :
                                /\ queueOf'[d] = queueAt'[x]
                                /\ ticket'[d] <= ticket'[tail'[queueAt'[x]]]
    BY DEF QueueOK
  <2>1. CASE x = m
    <3>1. queueAt'[x] = q /\ queueAt'[x] # None /\ LiveOf(x)' # {} /\ tail'[q] = c
      BY <2>1, <1>0, <1>3, <1>4
    <3>2. Admitted(queueAt[x])' /\ member'[q] = m
      BY <3>1, <1>0, <1>1, <1>2, <1>a
    <3>3. ASSUME NEW d \in LiveOf(x)'
          PROVE  queueOf'[d] = q /\ ticket'[d] <= ticket'[c]
      <4>1. CASE d = c
        BY <4>1, <1>1, <1>n
      <4>2. CASE d # c
        <5>1. d \in LiveOf(m) /\ d \in Calls
          BY <2>1, <4>2, <3>3, <1>4 DEF LiveOf
        <5>2. queueOf[d] = queueAt[m] /\ queueAt[m] # None
          BY <5>1 DEF IInv, QueueOK
        <5>3. ticket[d] < clock /\ ticket[d] \in Nat
          BY <5>1, <1>5 DEF LiveOf, Live, Admitted
        <5>4. ticket[d] <= clock
          BY <5>3, <1>n
        <5> QED
          BY <4>2, <5>1, <5>2, <5>4, <1>1, <1>2
      <4> QED
        BY <4>1, <4>2
    <3> QED
      BY <2>1, <3>1, <3>2, <3>3, <1>1, <1>a
  <2>2. CASE x # m
    <3> DEFINE p == queueAt[x]
    <3>1. queueAt'[x] = p /\ LiveOf(x)' = LiveOf(x)
      BY <2>2, <1>3, <1>4
    <3>2. p = None <=> LiveOf(x) = {}
      BY DEF IInv, QueueOK
    <3>3. ASSUME p # None
          PROVE  /\ phase'[p] # "new" /\ member'[p] = x
                 /\ tail'[p] = tail[p]
                 /\ tail[p] \in Calls /\ tail[p] # c
                 /\ phase[tail[p]] # "new" /\ member[tail[p]] = x
      <4>1. /\ Admitted(p) /\ p \in Calls /\ member[p] = x
            /\ tail[p] \in Calls /\ Admitted(tail[p]) /\ member[tail[p]] = x
        BY <3>3, <1>t DEF IInv, QueueOK, TypeOK
      <4>2. p # c /\ p # q
        BY <4>1, <2>2, <1>0
      <4> QED
        BY <4>1, <4>2, <1>0, <1>2, <1>3 DEF Admitted
    <3>4. ASSUME p # None, NEW d \in LiveOf(x)
          PROVE  queueOf'[d] = p /\ ticket'[d] <= ticket'[tail[p]]
      <4>1. d \in Calls /\ d # c
        BY <1>0 DEF LiveOf, Live, Admitted
      <4>2. queueOf[d] = p /\ ticket[d] <= ticket[tail[p]]
        BY <3>4 DEF IInv, QueueOK
      <4> QED
        BY <4>1, <4>2, <3>3, <3>4, <1>2
    <3> HIDE DEF p
    <3> DEFINE t == tail[p]
    <3> HIDE DEF t
    <3>5. p # None => /\ t \in Calls /\ phase'[t] # "new" /\ member'[t] = x
                      /\ tail'[p] = t /\ phase'[p] # "new" /\ member'[p] = x
      BY <3>3, <1>2 DEF t
    <3>6. p # None => \A d \in LiveOf(x) : queueOf'[d] = p /\ ticket'[d] <= ticket'[t]
      BY <3>4 DEF t
    <3> HIDE DEF p
    <3> QED
      BY <3>1, <3>2, <3>5, <3>6 DEF Admitted
  <2> QED
    BY <2>1, <2>2
<1>10. CountsOK'
  <2> SUFFICES ASSUME NEW x \in Members
               PROVE  /\ IsFiniteSet(LiveOf(x))'
                      /\ QueueSize(x)' = Cardinality(LiveOf(x))'
                      /\ QueueSize(x)' <= MaxPending
    BY DEF CountsOK
  <2>1. CASE x = m
    <3>1. /\ IsFiniteSet(LiveOf(m)) /\ QueueSize(m) = Cardinality(LiveOf(m))
          /\ QueueSize(m) \in Nat
      BY FS_CardinalityType DEF IInv, CountsOK
    <3>2. /\ IsFiniteSet(LiveOf(m) \cup {c})
          /\ Cardinality(LiveOf(m) \cup {c}) = Cardinality(LiveOf(m)) + 1
      BY <3>1, <1>4, FS_AddElement
    <3>3. QueueSize(m)' = QueueSize(m) + 1
      BY <1>0, <1>3 DEF QueueSize
    <3>4. QueueSize(m) + 1 <= MaxPending
      BY <3>1, MaxPendingAssumption DEF Admit, HasRoom
    <3> QED
      BY <2>1, <3>1, <3>2, <3>3, <3>4, <1>4
  <2>2. CASE x # m
    <3>1. QueueSize(x)' = QueueSize(x)
      <4>1. queueAt[x] # None => queueAt[x] \in Calls /\ queueAt[x] # q
        BY <2>2, <1>0, <1>t DEF IInv, QueueOK, TypeOK
      <4> QED
        BY <2>2, <4>1, <1>3 DEF QueueSize
    <3> QED
      BY <2>2, <3>1, <1>4 DEF IInv, CountsOK
  <2> QED
    BY <2>1, <2>2
<1>11. OperationsOK'
  <2>1. /\ operationAt'[m][o] = c
        /\ \A x \in Members, y \in OpIds :
              x # m \/ y # o => operationAt'[x][y] = operationAt[x][y]
    BY <1>t DEF Admit, TypeOK
  <2>2. operationAt[m][o] = None
    BY DEF Admit, Existing
  <2>3. ASSUME NEW d \in Calls, phase'[d] \in Live
        PROVE  operationAt'[member'[d]][opId'[d]] = d
    <3>1. CASE d = c
      BY <3>1, <2>1, <1>1
    <3>2. CASE d # c
      <4>1. phase[d] \in Live /\ operationAt[member[d]][opId[d]] = d
        BY <3>2, <2>3, <1>2 DEF IInv, OperationsOK
      <4>2. member[d] \in Members /\ opId[d] \in OpIds
        BY <4>1 DEF IInv, ClosureOK, Admitted, Live
      <4>3. d # None
        OBVIOUS
      <4>4. member[d] # m \/ opId[d] # o
        BY <4>1, <4>3, <2>2
      <4> QED
        BY <3>2, <4>1, <4>2, <4>4, <2>1, <1>2
    <3> QED
      BY <3>1, <3>2
  <2>4. ASSUME NEW x \in Members, NEW y \in OpIds, operationAt'[x][y] # None
        PROVE  /\ phase'[operationAt'[x][y]] \in Live
               /\ member'[operationAt'[x][y]] = x
               /\ opId'[operationAt'[x][y]] = y
    <3>1. CASE x = m /\ y = o
      BY <3>1, <2>1, <1>1 DEF Live
    <3>2. CASE x # m \/ y # o
      <4> DEFINE e == operationAt[x][y]
      <4>1. operationAt'[x][y] = e /\ e # None
        BY <3>2, <2>1, <2>4
      <4>2. e \in Calls
        BY <4>1, <1>t DEF TypeOK
      <4>3. phase[e] \in Live /\ member[e] = x /\ opId[e] = y
        BY <4>1 DEF IInv, OperationsOK
      <4>4. e # c
        BY <4>3, <1>0 DEF Live, Admitted
      <4> HIDE DEF e
      <4> QED
        BY <4>1, <4>2, <4>3, <4>4, <1>2
    <3> QED
      BY <3>1, <3>2
  <2> QED
    BY <2>3, <2>4 DEF OperationsOK
<1>12. ChainOK'
  <2> SUFFICES ASSUME NEW a \in Calls, NEW d \in Calls,
                      phase'[a] \in Unsettled, Admitted(d)',
                      member'[a] = member'[d], ticket'[a] < ticket'[d]
               PROVE  /\ prev'[d] # None
                      /\ Admitted(prev[d])'
                      /\ member'[prev'[d]] = member'[d]
                      /\ ticket'[a] <= ticket'[prev'[d]]
    BY DEF ChainOK
  <2>0. Admitted(a)'
    BY DEF Admitted, Unsettled
  <2>1. a # c
    <3>1. CASE d = c
      BY <3>1, <1>1, <1>n
    <3>2. CASE d # c
      <4>1. ticket'[d] < clock /\ ticket'[d] \in Nat
        BY <3>2, <1>2, <1>5, <1>a
      <4>2. ~(clock < ticket'[d])
        BY <4>1, <1>n
      <4> QED
        BY <4>2, <1>1
    <3> QED
      BY <3>1, <3>2
  <2>2. phase[a] \in Unsettled /\ member'[a] = member[a] /\ ticket'[a] = ticket[a]
    BY <2>1, <1>2
  <2>3. CASE d = c
    <3>1. a \in LiveOf(m)
      BY <2>2, <2>3, <1>1 DEF LiveOf, Live, Unsettled
    <3>2. queueAt[m] # None
      BY <3>1 DEF IInv, QueueOK
    <3> DEFINE p == tail[q]
    <3>3. q = queueAt[m]
      BY <3>2
    <3>4. p \in Calls /\ Admitted(p) /\ member[p] = m /\ ticket[a] <= ticket[p]
      BY <3>1, <3>2, <3>3 DEF IInv, QueueOK
    <3>5. prev'[d] = p /\ p # c
      BY <2>3, <3>2, <3>4, <1>0, <1>1
    <3> HIDE DEF p
    <3>6. p # None /\ phase'[p] # "new" /\ member'[p] = m /\ ticket'[p] = ticket[p]
      BY <3>4, <3>5, <1>2 DEF Admitted
    <3> QED
      BY <2>2, <2>3, <3>4, <3>5, <3>6, <1>1 DEF Admitted
  <2>4. CASE d # c
    <3> DEFINE p == prev[d]
    <3>1. Admitted(d) /\ member[a] = member[d] /\ ticket[a] < ticket[d]
      BY <2>2, <2>4, <1>2, <1>a
    <3>2. p # None /\ Admitted(p) /\ member[p] = member[d] /\ ticket[a] <= ticket[p]
      BY <2>2, <3>1 DEF IInv, ChainOK
    <3>3. p \in Calls /\ p # c /\ prev'[d] = p
      BY <2>4, <3>2, <1>0, <1>2, <1>t DEF TypeOK
    <3> HIDE DEF p
    <3>4. phase'[p] # "new" /\ member'[p] = member[p] /\ ticket'[p] = ticket[p]
      BY <3>2, <3>3, <1>2 DEF Admitted
    <3> QED
      BY <2>2, <2>4, <3>2, <3>3, <3>4, <1>2 DEF Admitted
  <2> QED
    BY <2>3, <2>4
<1>13. StartsInOrder'
  <2> SUFFICES ASSUME NEW a \in Calls, NEW d \in Calls,
                      Admitted(a)', phase'[d] \in Started,
                      member'[a] = member'[d], ticket'[a] < ticket'[d]
               PROVE  phase'[a] \in Settled
    BY DEF StartsInOrder, Admitted
  <2>1. d # c
    BY <1>1 DEF Started
  <2>2. phase[d] \in Started /\ ticket'[d] = ticket[d] /\ member'[d] = member[d]
    BY <2>1, <1>2
  <2>3. ticket[d] < clock /\ ticket[d] \in Nat
    BY <2>2, <1>5 DEF Started, Admitted
  <2>4. ~(clock < ticket[d])
    BY <2>3, <1>n
  <2>5. a # c
    BY <2>2, <2>4, <1>1
  <2> QED
    BY <2>2, <2>5, <1>2, <1>a DEF IInv, StartsInOrder, Admitted
<1> QED
  BY <1>6, <1>7, <1>8, <1>9, <1>10, <1>11, <1>12, <1>13 DEF IInv

(* A settled call gives its slot back; the last one takes the queue along.   *)
LEMMA ReleaseStep ==
    ASSUME IInv, TypeOK', NEW c \in Calls, Release(c)
    PROVE  IInv'
<1> DEFINE m == member[c]
           o == opId[c]
           q == queueOf[c]
<1> USE SentinelAssumption
<1>t. TypeOK
  BY DEF IInv
<1>0. /\ phase[c] \in {"fulfilled", "rejected"} /\ Admitted(c)
      /\ m \in Members /\ o \in OpIds /\ q \in Calls
      /\ c \in LiveOf(m)
  BY DEF Release, IInv, ClosureOK, Admitted, LiveOf, Live
<1>1. queueAt[m] = q /\ queueAt[m] # None /\ member[q] = m
  BY <1>0 DEF IInv, QueueOK
<1>2. /\ phase'[c] = "released"
      /\ \A d \in Calls \ {c} : phase'[d] = phase[d]
      /\ UNCHANGED <<tail, clock, promise, member, opId, queueOf, prev, ticket>>
  BY <1>t DEF Release, TypeOK
<1>3. /\ pending'[q] = pending[q] - 1
      /\ \A d \in Calls \ {q} : pending'[d] = pending[d]
      /\ queueAt'[m] = IF pending[q] = 1 THEN None ELSE q
      /\ \A x \in Members \ {m} : queueAt'[x] = queueAt[x]
  BY <1>0, <1>1, <1>t DEF Release, QueueAfterRelease, TypeOK
<1>4. /\ LiveOf(m)' = LiveOf(m) \ {c}
      /\ \A x \in Members \ {m} : LiveOf(x)' = LiveOf(x)
  BY <1>2 DEF LiveOf, Live
<1>5. \A d \in Calls : /\ Admitted(d)' <=> Admitted(d)
                       /\ phase'[d] \in Unsettled <=> phase[d] \in Unsettled
                       /\ phase'[d] \in Started <=> phase[d] \in Started
                       /\ phase[d] \in Settled => phase'[d] \in Settled
  BY <1>0, <1>2 DEF Admitted, Unsettled, Started, Settled
<1>6. /\ IsFiniteSet(LiveOf(m)')
      /\ Cardinality(LiveOf(m)') = pending[q] - 1
      /\ pending[q] \in Nat \ {0}
      /\ pending[q] <= MaxPending
      /\ pending[q] = 1 <=> LiveOf(m)' = {}
  <2>1. /\ IsFiniteSet(LiveOf(m)) /\ pending[q] = Cardinality(LiveOf(m))
        /\ pending[q] <= MaxPending
    BY <1>0, <1>1 DEF IInv, CountsOK, QueueSize
  <2>2. /\ IsFiniteSet(LiveOf(m) \ {c})
        /\ Cardinality(LiveOf(m) \ {c}) = Cardinality(LiveOf(m)) - 1
    BY <2>1, <1>0, FS_RemoveElement
  <2>3. Cardinality(LiveOf(m)) # 0 /\ Cardinality(LiveOf(m)) \in Nat
    BY <2>1, <1>0, FS_EmptySet, FS_CardinalityType
  <2>4. Cardinality(LiveOf(m) \ {c}) = 0 <=> LiveOf(m) \ {c} = {}
    BY <2>2, FS_EmptySet
  <2> HIDE DEF m, q
  <2> QED
    BY <2>1, <2>2, <2>3, <2>4, <1>4
<1>7. UncalledIsNew' /\ ClosureOK' /\ TicketsDistinct'
  BY <1>2, <1>5 DEF IInv, UncalledIsNew, ClosureOK, TicketsDistinct
<1>8. QueueOK'
  <2> SUFFICES ASSUME NEW x \in Members
               PROVE  /\ queueAt'[x] = None <=> LiveOf(x)' = {}
                      /\ queueAt'[x] # None =>
                          /\ queueAt'[x] = queueAt[x]
                          /\ LiveOf(x)' \subseteq LiveOf(x)
    BY <1>2, <1>5, <1>t DEF IInv, QueueOK, TypeOK, Admitted
  <2>1. CASE x = m
    BY <2>1, <1>1, <1>2, <1>3, <1>4, <1>6
  <2>2. CASE x # m
    BY <2>2, <1>3, <1>4 DEF IInv, QueueOK
  <2> QED
    BY <2>1, <2>2
<1>9. CountsOK'
  <2> SUFFICES ASSUME NEW x \in Members
               PROVE  /\ IsFiniteSet(LiveOf(x))'
                      /\ QueueSize(x)' = Cardinality(LiveOf(x))'
                      /\ QueueSize(x)' <= MaxPending
    BY DEF CountsOK
  <2>1. CASE x = m
    <3>1. QueueSize(m)' = pending[q] - 1
      BY <1>1, <1>2, <1>3, <1>6 DEF QueueSize
    <3>2. pending[q] - 1 <= MaxPending
      BY <1>6, MaxPendingAssumption
    <3> QED
      BY <2>1, <3>1, <3>2, <1>6, <1>2
  <2>2. CASE x # m
    <3>1. queueAt[x] # None => queueAt[x] \in Calls /\ queueAt[x] # q
      BY <2>2, <1>0, <1>1, <1>t DEF IInv, QueueOK, TypeOK
    <3>2. QueueSize(x)' = QueueSize(x)
      BY <2>2, <3>1, <1>3 DEF QueueSize
    <3> QED
      BY <2>2, <3>2, <1>4 DEF IInv, CountsOK
  <2> QED
    BY <2>1, <2>2
<1>10. OperationsOK'
  <2>1. operationAt[m][o] = c
    BY <1>0 DEF IInv, OperationsOK, Live
  <2>2. /\ operationAt'[m][o] = None
        /\ \A x \in Members, y \in OpIds :
              x # m \/ y # o => operationAt'[x][y] = operationAt[x][y]
    <3> DEFINE row == [operationAt[m] EXCEPT ![o] = None]
    <3>1. row[o] = None /\ \A y \in OpIds \ {o} : row[y] = operationAt[m][y]
      BY <1>0, <1>t DEF TypeOK
    <3>2. operationAt' = [operationAt EXCEPT ![m] = row]
      BY <2>1 DEF Release
    <3> HIDE DEF row
    <3> QED
      BY <3>1, <3>2, <1>0, <1>t DEF TypeOK
  <2>3. ASSUME NEW d \in Calls, phase'[d] \in Live
        PROVE  operationAt'[member'[d]][opId'[d]] = d
    <3>1. d # c /\ phase[d] \in Live
      BY <2>3, <1>2 DEF Live
    <3>2. operationAt[member[d]][opId[d]] = d
      BY <3>1 DEF IInv, OperationsOK
    <3>3. member[d] \in Members /\ opId[d] \in OpIds
      BY <3>1 DEF IInv, ClosureOK, Admitted, Live
    <3>4. member[d] # m \/ opId[d] # o
      BY <3>1, <3>2, <2>1
    <3> QED
      BY <3>2, <3>3, <3>4, <2>2, <1>2
  <2>4. ASSUME NEW x \in Members, NEW y \in OpIds, operationAt'[x][y] # None
        PROVE  /\ phase'[operationAt'[x][y]] \in Live
               /\ member'[operationAt'[x][y]] = x
               /\ opId'[operationAt'[x][y]] = y
    <3> DEFINE e == operationAt[x][y]
    <3>1. (x # m \/ y # o) /\ operationAt'[x][y] = e /\ e # None
      BY <2>2, <2>4
    <3>2. phase[e] \in Live /\ member[e] = x /\ opId[e] = y
      BY <3>1 DEF IInv, OperationsOK
    <3>4. e \in Calls
      BY <3>1, <1>t DEF TypeOK
    <3>3. e # c
      BY <3>1, <3>2
    <3> HIDE DEF e
    <3> QED
      BY <3>1, <3>2, <3>3, <3>4, <1>2
  <2> QED
    BY <2>3, <2>4 DEF OperationsOK
<1>11. ChainOK'
  BY <1>2, <1>5, <1>t DEF IInv, ChainOK, TypeOK
<1>12. StartsInOrder'
  BY <1>2, <1>5 DEF IInv, StartsInOrder, Admitted
<1> QED
  BY <1>7, <1>8, <1>9, <1>10, <1>11, <1>12 DEF IInv

--------------------------------------------------------------------------------
(* The invariant is inductive.                                               *)
LEMMA NextIInv == IInv /\ [Next]_vars => IInv'
<1> SUFFICES ASSUME IInv, [Next]_vars PROVE IInv'
  OBVIOUS
<1>t. TypeOK /\ TypeOK'
  BY NextTypeOK DEF IInv
<1>1. ASSUME NEW c \in Calls, RefuseClosed(c) PROVE IInv'
  BY <1>t, <1>1, QuietStep, SentinelAssumption DEF RefuseClosed, Refuse, TypeOK
<1>2. ASSUME NEW c \in Calls, NEW m \in Members, NEW o \in OpIds, Join(c, m, o)
      PROVE  IInv'
  <2>1. ~Admitted(c)
    BY <1>2 DEF Join, IInv, UncalledIsNew
  <2>2. \A d \in Calls : Admitted(d) => member'[d] = member[d] /\ opId'[d] = opId[d]
    BY <2>1, <1>2, <1>t DEF Join, TypeOK
  <2>3. \A d \in Calls : promise'[d] = None => promise[d] = None
    BY <1>2, <1>t DEF Join, TypeOK
  <2> QED
    BY <2>2, <2>3, <1>2, <1>t, QuietStep DEF Join
<1>3. ASSUME NEW c \in Calls, NEW m \in Members, NEW o \in OpIds, RefuseFull(c, m, o)
      PROVE  IInv'
  BY <1>t, <1>3, QuietStep, SentinelAssumption DEF RefuseFull, Refuse, TypeOK
<1>4. ASSUME NEW c \in Calls, NEW m \in Members, NEW o \in OpIds, Admit(c, m, o)
      PROVE  IInv'
  BY <1>t, <1>4, AdmitStep
<1>5. ASSUME NEW c \in Calls, Start(c) PROVE IInv'
  <2>1. /\ phase[c] = "waiting" /\ phase'[c] = "running" /\ TailSettled(c)
        /\ \A d \in Calls : d # c => phase'[d] = phase[d]
    BY <1>t, <1>5 DEF Start, TypeOK
  <2> QED
    BY <1>t, <1>5, <2>1, PhaseStep DEF Start
<1>6. ASSUME NEW c \in Calls, Settle(c) PROVE IInv'
  <2>1. /\ phase[c] = "running" /\ phase'[c] \in {"fulfilled", "rejected"}
        /\ \A d \in Calls : d # c => phase'[d] = phase[d]
    BY <1>t, <1>6 DEF Settle, TypeOK
  <2> QED
    BY <1>t, <1>6, <2>1, PhaseStep DEF Settle
<1>7. ASSUME NEW c \in Calls, Release(c) PROVE IInv'
  BY <1>t, <1>7, ReleaseStep
<1>8. ASSUME Close PROVE IInv'
  BY <1>t, <1>8, QuietStep DEF Close, callVars
<1>9. ASSUME UNCHANGED vars PROVE IInv'
  BY <1>t, <1>9, QuietStep DEF vars, callVars
<1> QED
  BY <1>1, <1>2, <1>3, <1>4, <1>5, <1>6, <1>7, <1>8, <1>9 DEF Next, Schedule

(* The invariant holds in every reachable state, however calls of schedule() *)
(* and the settling of their operations interleave.                          *)
THEOREM Invariance == Spec => []IInv
<1> QED
  BY InitIInv, NextIInv, PTL DEF Spec

--------------------------------------------------------------------------------
(* The variables keep their types: no counter goes below zero and no queue   *)
(* object or promise is used that was never made.                            *)
THEOREM TypeCorrect == Spec => []TypeOK
<1>1. IInv => TypeOK
  BY DEF IInv
<1> QED
  BY <1>1, Invariance, PTL

(* Operations of one character start in the order of admission, each after all*)
(* earlier ones have settled, for any number of calls and any limit.         *)
THEOREM StartsInOrderThm == Spec => []StartsInOrder
<1>1. IInv => StartsInOrder
  BY DEF IInv
<1> QED
  BY <1>1, Invariance, PTL

(* At most one operation runs on a character at a time.                      *)
OneAtATime ==
    \A c, d \in Calls :
        phase[c] = "running" /\ phase[d] = "running" /\ member[c] = member[d] => c = d

(* Of two that run, the invariant would have the older settled.              *)
LEMMA OnlyOneRuns == IInv => OneAtATime
<1> SUFFICES ASSUME IInv PROVE OneAtATime
  OBVIOUS
<1>1. OneAtATime
  <2> SUFFICES ASSUME NEW c \in Calls, NEW d \in Calls,
                      phase[c] = "running", phase[d] = "running",
                      member[c] = member[d], c # d
               PROVE  FALSE
    BY DEF OneAtATime
  <2>1. Admitted(c) /\ Admitted(d) /\ phase[c] \in Started /\ phase[d] \in Started
    BY DEF Admitted, Started
  <2>2. ticket[c] # ticket[d]
    BY <2>1 DEF IInv, TicketsDistinct
  <2>3. ticket[c] \in Nat /\ ticket[d] \in Nat
    BY DEF IInv, TypeOK
  <2>4. ticket[c] < ticket[d] \/ ticket[d] < ticket[c]
    BY <2>2, <2>3
  <2>5. phase[c] \in Settled \/ phase[d] \in Settled
    BY <2>1, <2>4 DEF IInv, StartsInOrder, Admitted
  <2> QED
    BY <2>5 DEF Settled
<1> QED
  BY <1>1

(* The scheduler never runs two operations of one character at the same time,*)
(* whatever is submitted.                                                    *)
THEOREM MutualExclusion == Spec => []OneAtATime
BY OnlyOneRuns, Invariance, PTL

(* The queue map and its counters are exact and within the limit.            *)
THEOREM SlotsExactThm == Spec => []SlotsExact
<1>1. IInv => SlotsExact
  BY DEF IInv, SlotsExact, QueueOK, CountsOK
<1> QED
  BY <1>1, Invariance, PTL

(* No operation id has two live runs for one character, and the map of       *)
(* operations names exactly the live run.                                    *)
THEOREM NoReplayThm == Spec => []NoReplay
<1>1. IInv => NoReplay
  <2> SUFFICES ASSUME IInv PROVE NoReplay
    OBVIOUS
  <2>1. ASSUME NEW c \in Calls, NEW d \in Calls, phase[c] \in Live, phase[d] \in Live,
               member[c] = member[d], opId[c] = opId[d]
        PROVE  c = d
    BY <2>1 DEF IInv, OperationsOK
  <2> QED
    BY <2>1 DEF IInv, OperationsOK, NoReplay
<1> QED
  BY <1>1, Invariance, PTL

--------------------------------------------------------------------------------
(* The refinement of CharacterWork                                           *)

(* A set of calls that the tickets put in order.                             *)
Orderly(U, t) ==
    /\ IsFiniteSet(U)
    /\ \A x \in U : t[x] \in Nat
    /\ \A x, y \in U : t[x] = t[y] => x = y

(* How many are ahead of a call is below the number of calls, and grows with *)
(* the ticket; ...                                                           *)
LEMMA AheadBounded ==
    ASSUME NEW U, NEW t, Orderly(U, t), NEW x \in U
    PROVE  IsFiniteSet(Ahead(U, t, x)) /\ Cardinality(Ahead(U, t, x)) \in 0..(Cardinality(U) - 1)
<1>1. /\ Ahead(U, t, x) \in SUBSET U /\ x \notin Ahead(U, t, x)
  BY DEF Ahead, Orderly
<1>2. /\ IsFiniteSet(Ahead(U, t, x)) /\ Cardinality(Ahead(U, t, x)) <= Cardinality(U)
      /\ Cardinality(U) # Cardinality(Ahead(U, t, x))
  BY <1>1, FS_Subset DEF Orderly
<1>3. Cardinality(U) \in Nat /\ Cardinality(Ahead(U, t, x)) \in Nat
  BY <1>2, FS_CardinalityType DEF Orderly
<1> QED BY <1>2, <1>3

(* Who was admitted later has more of them ahead.                            *)
LEMMA AheadGrows ==
    ASSUME NEW U, NEW t, Orderly(U, t), NEW x \in U, NEW y \in U, t[x] < t[y]
    PROVE  Cardinality(Ahead(U, t, x)) < Cardinality(Ahead(U, t, y))
<1>1. Ahead(U, t, x) \in SUBSET Ahead(U, t, y)
  BY DEF Ahead, Orderly
<1>2. x \in Ahead(U, t, y) /\ x \notin Ahead(U, t, x)
  BY DEF Ahead, Orderly
<1>3. /\ Cardinality(Ahead(U, t, x)) <= Cardinality(Ahead(U, t, y))
      /\ Cardinality(Ahead(U, t, y)) # Cardinality(Ahead(U, t, x))
  BY <1>1, <1>2, AheadBounded, FS_Subset
<1>4. Cardinality(Ahead(U, t, x)) \in Nat /\ Cardinality(Ahead(U, t, y)) \in Nat
  BY AheadBounded, FS_CardinalityType
<1> QED BY <1>3, <1>4

(* ... so no two calls are in the same place, ...                            *)
LEMMA PlaceIsOwn ==
    ASSUME NEW U, NEW t, Orderly(U, t), NEW x \in U, NEW y \in U,
           Cardinality(Ahead(U, t, x)) = Cardinality(Ahead(U, t, y))
    PROVE  x = y
<1>1. Cardinality(Ahead(U, t, x)) \in Nat /\ Cardinality(Ahead(U, t, y)) \in Nat
  BY AheadBounded, FS_CardinalityType
<1>2. ~(t[x] < t[y]) /\ ~(t[y] < t[x])
  BY <1>1, AheadGrows
<1>3. t[x] = t[y]
  BY <1>2 DEF Orderly
<1> QED BY <1>3 DEF Orderly

(* ... and every place is taken.                                             *)
LEMMA PlaceIsTaken ==
    ASSUME NEW U, NEW t, Orderly(U, t), NEW i \in 1..Cardinality(U)
    PROVE  InPlace(U, t, i) \in U /\ Cardinality(Ahead(U, t, InPlace(U, t, i))) = i - 1
<1> DEFINE n == Cardinality(U)
           T == 0..(n - 1)
           f == [x \in U |-> Cardinality(Ahead(U, t, x))]
<1>1. IsFiniteSet(U) /\ n \in Nat
  BY FS_CardinalityType DEF Orderly
<1>2. IsFiniteSet(T) /\ Cardinality(T) = n
  <2>1. 0 \in Int /\ n - 1 \in Int /\ (0 > n - 1 <=> n = 0)
    BY <1>1
  <2>2. IsFiniteSet(T) /\ Cardinality(T) = IF 0 > n - 1 THEN 0 ELSE (n - 1) - 0 + 1
    BY <2>1, FS_Interval
  <2> HIDE DEF n
  <2> QED BY <1>1, <2>1, <2>2
<1>3. f \in [U -> T]
  BY AheadBounded
<1>4. \A x, y \in U : f[x] = f[y] => x = y
  BY PlaceIsOwn
<1>5. f \in Injection(U, T)
  BY <1>3, <1>4 DEF Injection, IsInjective
<1>6. f \in Surjection(U, T)
  BY <1>1, <1>2, <1>5, FS_Injection
<1>7. i - 1 \in T
  BY <1>1
<1>8. \E x \in U : f[x] = i - 1
  BY <1>6, <1>7 DEF Surjection
<1>9. \E x \in U : Cardinality(Ahead(U, t, x)) = i - 1
  BY <1>8
<1> QED BY <1>9 DEF InPlace

(* So a line has each call once, in its place.                               *)
LEMMA LinedIsSeq ==
    ASSUME NEW U, NEW t, Orderly(U, t)
    PROVE  /\ Lined(U, t) \in Seq(U)
           /\ Len(Lined(U, t)) = Cardinality(U)
           /\ \A i \in 1..Cardinality(U) : Lined(U, t)[i] = InPlace(U, t, i)
<1> DEFINE n == Cardinality(U)
           s == Lined(U, t)
<1>1. n \in Nat
  BY FS_CardinalityType DEF Orderly
<1>2. s = [i \in 1..n |-> InPlace(U, t, i)]
  BY DEF Lined
<1>3. \A i \in 1..n : InPlace(U, t, i) \in U
  BY PlaceIsTaken
<1> HIDE DEF s, n
<1>4. s \in Seq(U) /\ Len(s) = n /\ \A i \in 1..n : s[i] = InPlace(U, t, i)
  BY <1>1, <1>2, <1>3
<1> QED BY <1>4 DEF s, n

(* A call with the highest ticket joins the line at its end, ...             *)
LEMMA LineGrows ==
    ASSUME NEW U, NEW t, NEW u, Orderly(U, t), NEW c, c \notin U,
           \A x \in U : u[x] = t[x] /\ t[x] < u[c],
           u[c] \in Nat
    PROVE  Lined(U \cup {c}, u) = Append(Lined(U, t), c)
<1> DEFINE n == Cardinality(U)
           V == U \cup {c}
<1>1. IsFiniteSet(U) /\ n \in Nat /\ IsFiniteSet(V) /\ Cardinality(V) = n + 1
  BY FS_CardinalityType, FS_AddElement DEF Orderly
<1>2. ASSUME NEW x \in U PROVE Ahead(V, u, x) = Ahead(U, t, x)
  BY <1>2 DEF Ahead, Orderly
<1>3. Ahead(V, u, c) = U
  BY DEF Ahead, Orderly
<1>4. Orderly(V, u)
  <2>1. \A x \in V : u[x] \in Nat
    BY DEF Orderly
  <2>2. \A x \in U : u[x] # u[c]
    BY <2>1 DEF Orderly
  <2> QED BY <1>1, <2>1, <2>2 DEF Orderly
<1>5. ASSUME NEW i \in 1..(n + 1), NEW x \in V, Cardinality(Ahead(V, u, x)) = i - 1
      PROVE  InPlace(V, u, i) = x
  <2>1. i \in 1..Cardinality(V)
    BY <1>1
  <2>2. /\ InPlace(V, u, i) \in V
        /\ Cardinality(Ahead(V, u, InPlace(V, u, i))) = i - 1
    BY <1>4, <2>1, PlaceIsTaken
  <2>3. Cardinality(Ahead(V, u, InPlace(V, u, i))) = Cardinality(Ahead(V, u, x))
    BY <1>5, <2>2
  <2> QED BY <1>4, <2>2, <2>3, PlaceIsOwn
<1>6. ASSUME NEW i \in 1..n PROVE InPlace(V, u, i) = InPlace(U, t, i)
  <2>1. InPlace(U, t, i) \in U /\ Cardinality(Ahead(U, t, InPlace(U, t, i))) = i - 1
    BY PlaceIsTaken
  <2>2. InPlace(U, t, i) \in V /\ Cardinality(Ahead(V, u, InPlace(U, t, i))) = i - 1
    BY <1>2, <2>1
  <2>3. i \in 1..(n + 1)
    BY <1>1
  <2> QED BY <1>5, <2>2, <2>3
<1>7. InPlace(V, u, n + 1) = c
  <2>1. c \in V /\ n + 1 \in 1..(n + 1) /\ (n + 1) - 1 = n
    BY <1>1
  <2>2. Cardinality(Ahead(V, u, c)) = (n + 1) - 1
    BY <1>3, <2>1
  <2> QED BY <1>5, <2>1, <2>2
<1> DEFINE s == Lined(U, t)
           w == Lined(V, u)
           a == Append(s, c)
<1>8. s \in Seq(V) /\ Len(s) = n /\ \A i \in 1..n : s[i] = InPlace(U, t, i)
  BY LinedIsSeq, SeqMonotonic
<1>9. w \in Seq(V) /\ Len(w) = n + 1 /\ \A i \in 1..(n + 1) : w[i] = InPlace(V, u, i)
  BY <1>1, <1>4, LinedIsSeq
<1> HIDE DEF s, w
<1>10. /\ a \in Seq(V) /\ Len(a) = n + 1 /\ a[n + 1] = c
       /\ \A i \in 1..n : a[i] = s[i]
  BY <1>8, AppendProperties
<1> HIDE DEF a, n, V
<1>11. ASSUME NEW i \in 1..(n + 1) PROVE w[i] = a[i]
  <2>1. CASE i = n + 1
    BY <1>7, <1>9, <1>10, <2>1
  <2>2. CASE i # n + 1
    <3>1. i \in 1..n
      BY <1>1, <2>2
    <3> QED BY <1>6, <1>8, <1>9, <1>10, <3>1
  <2> QED BY <2>1, <2>2
<1>12. w = a
  BY <1>9, <1>10, <1>11, SeqEqual
<1> QED BY <1>12 DEF w, a, s, V

(* ... and when the first is done, the others move up.                       *)
LEMMA LineShrinks ==
    ASSUME NEW U, NEW t, Orderly(U, t), NEW c \in U, \A x \in U \ {c} : t[c] < t[x]
    PROVE  Lined(U \ {c}, t) = Tail(Lined(U, t))
<1> DEFINE n == Cardinality(U)
           V == U \ {c}
<1>1. IsFiniteSet(U) /\ n \in Nat \ {0} /\ IsFiniteSet(V) /\ Cardinality(V) = n - 1
  BY FS_CardinalityType, FS_RemoveElement, FS_EmptySet DEF Orderly
<1>2. Orderly(V, t)
  BY <1>1 DEF Orderly
<1>3. ASSUME NEW x \in V
      PROVE  Cardinality(Ahead(V, t, x)) = Cardinality(Ahead(U, t, x)) - 1
  <2>1. c \in Ahead(U, t, x) /\ Ahead(V, t, x) = Ahead(U, t, x) \ {c}
    BY <1>3 DEF Ahead
  <2>2. IsFiniteSet(Ahead(U, t, x))
    BY <1>3, AheadBounded
  <2> QED BY <2>1, <2>2, FS_RemoveElement
<1>4. ASSUME NEW i \in 1..(n - 1) PROVE InPlace(V, t, i) = InPlace(U, t, i + 1)
  <2> DEFINE p == InPlace(U, t, i + 1)
             q == InPlace(V, t, i)
  <2>1. i \in 1..Cardinality(V) /\ i + 1 \in 1..Cardinality(U)
    BY <1>1
  <2>2. q \in V /\ Cardinality(Ahead(V, t, q)) = i - 1
    BY <1>2, <2>1, PlaceIsTaken
  <2>3. p \in U /\ Cardinality(Ahead(U, t, p)) = (i + 1) - 1
    BY <2>1, PlaceIsTaken
  <2> HIDE DEF p, q
  <2>4. Cardinality(Ahead(U, t, q)) \in Nat
    BY <2>2, AheadBounded, FS_CardinalityType
  <2>5. Cardinality(Ahead(U, t, q)) = Cardinality(Ahead(U, t, p))
    BY <1>3, <2>2, <2>3, <2>4
  <2>6. q = p
    BY <2>2, <2>3, <2>5, PlaceIsOwn
  <2> QED BY <2>6 DEF p, q
<1> DEFINE s == Lined(U, t)
           w == Lined(V, t)
           r == Tail(s)
<1>5. s \in Seq(U) /\ Len(s) = n /\ \A i \in 1..n : s[i] = InPlace(U, t, i)
  BY LinedIsSeq
<1>6. w \in Seq(U) /\ Len(w) = n - 1 /\ \A i \in 1..(n - 1) : w[i] = InPlace(V, t, i)
  <2>1. w \in Seq(V) /\ Len(w) = n - 1 /\ \A i \in 1..(n - 1) : w[i] = InPlace(V, t, i)
    BY <1>1, <1>2, LinedIsSeq
  <2>2. V \subseteq U
    OBVIOUS
  <2> HIDE DEF w, V, n
  <2> QED BY <2>1, <2>2, SeqMonotonic
<1> HIDE DEF s, w
<1>7. s # <<>>
  BY <1>1, <1>5, EmptySeq
<1>8. r \in Seq(U) /\ Len(r) = n - 1 /\ \A i \in 1..(n - 1) : r[i] = s[i + 1]
  BY <1>1, <1>5, <1>7, HeadTailProperties
<1> HIDE DEF r, n, V
<1>9. ASSUME NEW i \in 1..(n - 1) PROVE w[i] = r[i]
  <2>1. i + 1 \in 1..n
    BY <1>1
  <2> QED BY <1>4, <1>5, <1>6, <1>8, <2>1
<1>10. w = r
  BY <1>6, <1>8, <1>9, SeqEqual
<1> QED BY <1>10 DEF w, r, s, V

(* The unsettled calls of a character are put in order.                      *)
LEMMA UnsettledOrderly ==
    ASSUME IInv, NEW m \in Members
    PROVE  Orderly(UnsettledOf(m), ticket)
<1>1. UnsettledOf(m) \in SUBSET LiveOf(m) /\ IsFiniteSet(LiveOf(m))
  BY DEF IInv, CountsOK, UnsettledOf, LiveOf, Unsettled, Live
<1>2. IsFiniteSet(UnsettledOf(m))
  BY <1>1, FS_Subset
<1> QED BY <1>2 DEF IInv, TypeOK, TicketsDistinct, Orderly, UnsettledOf, Unsettled, Admitted

(* A line depends on the tickets of those who stand in it.                   *)
LEMMA LineStays ==
    ASSUME NEW U, NEW t, NEW u, \A x \in U : u[x] = t[x]
    PROVE  Lined(U, u) = Lined(U, t)
<1>1. \A x \in U : Ahead(U, u, x) = Ahead(U, t, x)
  BY DEF Ahead
<1>2. ASSUME NEW i PROVE InPlace(U, u, i) = InPlace(U, t, i)
  BY <1>1 DEF InPlace
<1> QED BY <1>2 DEF Lined

(* Where no call joins or leaves, starts or settles, nothing is done in the  *)
(* abstract.                                                                 *)
LEMMA NoWork ==
    ASSUME \A m \in Members : UnsettledOf(m)' = UnsettledOf(m),
           \A c \in Calls : phase[c] \in Unsettled => ticket'[c] = ticket[c],
           \A c \in Calls : phase'[c] = "running" <=> phase[c] = "running"
    PROVE  UNCHANGED Work!vars
<1>1. ASSUME NEW m \in Members PROVE LineOf(m)' = LineOf(m) /\ Busy(m)' = Busy(m)
  <2> PICK U, t, u : U = UnsettledOf(m) /\ t = ticket /\ u = ticket'
    OBVIOUS
  <2>1. \A x \in U : u[x] = t[x]
    BY DEF UnsettledOf
  <2>2. Lined(U, u) = Lined(U, t)
    BY <2>1, LineStays
  <2>3. UnsettledOf(m)' = U
    BY <1>1
  <2>4. LineOf(m)' = Lined(U, u) /\ LineOf(m) = Lined(U, t)
    BY <2>3 DEF LineOf
  <2>5. Busy(m)' <=> Busy(m)
    BY <2>3 DEF Busy, UnsettledOf
  <2> QED BY <2>2, <2>4, <2>5 DEF Busy
<1> QED BY <1>1 DEF Work!vars

(* An admitted call is submitted work, ...                                   *)
LEMMA AdmitSubmits ==
    ASSUME IInv, IInv', NEW c \in Calls, NEW m \in Members, NEW o \in OpIds, Admit(c, m, o)
    PROVE  Work!Submit(m, c)
<1>t. TypeOK
  BY DEF IInv
<1>0. /\ ~Admitted(c) /\ \A d \in Calls : Admitted(d) => ticket[d] < clock /\ d # c
      /\ clock \in Nat
  BY <1>t DEF Admit, IInv, UncalledIsNew, ClosureOK, TypeOK
<1>1. /\ phase'[c] = "waiting" /\ member'[c] = m /\ ticket'[c] = clock
      /\ \A d \in Calls \ {c} : /\ phase'[d] = phase[d] /\ member'[d] = member[d]
                                 /\ ticket'[d] = ticket[d]
  BY <1>t DEF Admit, TypeOK
<1>2. \A x \in Members : c \notin UnsettledOf(x)
  BY <1>0 DEF UnsettledOf, Unsettled, Admitted
<1>3. UnsettledOf(m)' = UnsettledOf(m) \cup {c}
  BY <1>1 DEF UnsettledOf, Unsettled
<1>4. \A x \in Members \ {m} : UnsettledOf(x)' = UnsettledOf(x)
  BY <1>0, <1>1 DEF UnsettledOf, Unsettled, Admitted
<1>5. LineOf(m)' = Append(LineOf(m), c)
  <2> PICK U, t, u : U = UnsettledOf(m) /\ t = ticket /\ u = ticket'
    OBVIOUS
  <2>1. Orderly(U, t) /\ c \notin U
    BY <1>2, UnsettledOrderly
  <2>2. u[c] \in Nat /\ \A x \in U : u[x] = t[x] /\ t[x] < u[c]
    BY <1>0, <1>1 DEF UnsettledOf, Unsettled, Admitted
  <2>3. Lined(U \cup {c}, u) = Append(Lined(U, t), c)
    BY <2>1, <2>2, LineGrows
  <2>4. LineOf(m)' = Lined(U \cup {c}, u) /\ LineOf(m) = Lined(U, t)
    BY <1>3 DEF LineOf
  <2> QED BY <2>3, <2>4
<1>6. ASSUME NEW x \in Members \ {m} PROVE LineOf(x)' = LineOf(x)
  <2> PICK U, t, u : U = UnsettledOf(x) /\ t = ticket /\ u = ticket'
    OBVIOUS
  <2>1. \A y \in U : u[y] = t[y]
    BY <1>1, <1>2 DEF UnsettledOf
  <2>2. Lined(U, u) = Lined(U, t)
    BY <2>1, LineStays
  <2>3. LineOf(x)' = Lined(U, u) /\ LineOf(x) = Lined(U, t)
    BY <1>4 DEF LineOf
  <2> QED BY <2>2, <2>3
<1>7. ASSUME NEW x \in Members PROVE Busy(x)' <=> Busy(x)
  <2>1. \A y \in UnsettledOf(x) : phase'[y] = phase[y]
    BY <1>1, <1>2 DEF UnsettledOf
  <2> QED BY <1>1, <1>3, <1>4, <2>1 DEF Busy
<1>8. ASSUME NEW x \in Members, NEW i \in DOMAIN LineOf(x) PROVE LineOf(x)[i] # c
  <2> PICK U, t : U = UnsettledOf(x) /\ t = ticket
    OBVIOUS
  <2>1. Orderly(U, t)
    BY UnsettledOrderly
  <2>2. LineOf(x) = Lined(U, t) /\ DOMAIN Lined(U, t) = 1..Cardinality(U)
    BY DEF LineOf, Lined
  <2>3. LineOf(x)[i] \in U
    BY <1>8, <2>1, <2>2, LinedIsSeq, PlaceIsTaken
  <2> QED BY <1>2, <2>3
<1> QED BY <1>5, <1>6, <1>7, <1>8 DEF Work!Submit, Busy

(* A function that differs in one place.                                     *)
LEMMA FunctionUpdated ==
    ASSUME NEW S, NEW n \in S, NEW v, NEW F, NEW G,
           F = [x \in S |-> F[x]], G = [x \in S |-> G[x]],
           G[n] = v, \A x \in S \ {n} : G[x] = F[x]
    PROVE  G = [F EXCEPT ![n] = v]
<1>1. DOMAIN F = S
  OBVIOUS
<1>2. [F EXCEPT ![n] = v] = [x \in S |-> IF x = n THEN v ELSE F[x]]
  BY <1>1
<1> QED BY <1>2

(* Whether a character is busy is true or false.                             *)
LEMMA BusyIsTruth == \A m \in Members : Busy(m) \in BOOLEAN /\ Busy(m)' \in BOOLEAN
BY DEF Busy

(* ... its start is the beginning, ...                                       *)
LEMMA StartBegins ==
    ASSUME IInv, IInv', NEW c \in Calls, Start(c)
    PROVE  Work!Begin(member[c])
<1> PICK m : m = member[c]
  OBVIOUS
<1>t. TypeOK
  BY DEF IInv
<1>1. /\ phase[c] = "waiting" /\ phase'[c] = "running"
      /\ \A d \in Calls \ {c} : phase'[d] = phase[d]
      /\ UNCHANGED <<member, ticket>>
  BY <1>t DEF Start, TypeOK
<1>2. m \in Members /\ c \in UnsettledOf(m)
  BY <1>1 DEF IInv, ClosureOK, Admitted, UnsettledOf, Unsettled
<1>3. \A x \in Members : UnsettledOf(x)' = UnsettledOf(x)
  BY <1>1 DEF UnsettledOf, Unsettled
<1>4. ASSUME NEW x \in Members PROVE LineOf(x)' = LineOf(x)
  BY <1>1, <1>3 DEF LineOf
<1>5. LineOf(m) # <<>>
  <2> PICK U, t : U = UnsettledOf(m) /\ t = ticket
    OBVIOUS
  <2>1. Orderly(U, t) /\ c \in U
    BY <1>2, UnsettledOrderly
  <2>2. Len(Lined(U, t)) # 0
    BY <2>1, LinedIsSeq, FS_EmptySet DEF Orderly
  <2> QED BY <2>2, EmptySeq DEF LineOf
<1>6. ASSUME NEW d \in UnsettledOf(m) PROVE phase[d] # "running"
  <2> SUFFICES ASSUME phase[d] = "running" PROVE FALSE
    OBVIOUS
  <2>1. d \in Calls /\ d # c /\ member[d] = m /\ phase'[d] = "running"
    BY <1>1 DEF UnsettledOf
  <2>2. Admitted(c) /\ Admitted(d) /\ ticket[c] \in Nat /\ ticket[d] \in Nat
    BY <1>t, <1>1, <2>1 DEF Admitted, TypeOK
  <2>3. ~(ticket[c] < ticket[d])
    BY <1>1, <1>2, <2>1 DEF IInv, StartsInOrder, Settled, Started
  <2>4. ~(ticket[d] < ticket[c])
    BY <1>1, <2>1 DEF IInv, StartsInOrder, Settled, Started
  <2>5. ticket[c] = ticket[d]
    BY <2>2, <2>3, <2>4
  <2> QED BY <2>1, <2>2, <2>5 DEF IInv, TicketsDistinct
<1>7. ~Busy(m) /\ Busy(m)'
  BY <1>1, <1>2, <1>3, <1>6 DEF Busy
<1>8. ASSUME NEW x \in Members \ {m} PROVE Busy(x)' <=> Busy(x)
  BY <1>1, <1>3 DEF Busy, UnsettledOf
<1>9. [x \in Members |-> LineOf(x)'] = [x \in Members |-> LineOf(x)]
  BY <1>4
<1>10. [x \in Members |-> Busy(x)'] = [[x \in Members |-> Busy(x)] EXCEPT ![m] = TRUE]
  <2> PICK F, G : F = [x \in Members |-> Busy(x)] /\ G = [x \in Members |-> Busy(x)']
    OBVIOUS
  <2>1. G[m] = TRUE
    BY <1>2, <1>7, BusyIsTruth
  <2>2. \A x \in Members \ {m} : G[x] = F[x]
    BY <1>8, BusyIsTruth
  <2>3. G = [F EXCEPT ![m] = TRUE]
    BY <1>2, <2>1, <2>2, FunctionUpdated
  <2> QED BY <2>3
<1> QED BY <1>2, <1>5, <1>7, <1>9, <1>10 DEF Work!Begin

(* ... and its settling the end of the work that stands first.               *)
LEMMA SettleFinishes ==
    ASSUME IInv, IInv', NEW c \in Calls, Settle(c)
    PROVE  Work!Finish(member[c])
<1> PICK m : m = member[c]
  OBVIOUS
<1>t. TypeOK
  BY DEF IInv
<1>1. /\ phase[c] = "running" /\ phase'[c] \in {"fulfilled", "rejected"}
      /\ \A d \in Calls \ {c} : phase'[d] = phase[d]
      /\ UNCHANGED <<member, ticket>>
  BY <1>t DEF Settle, TypeOK
<1>2. m \in Members /\ c \in UnsettledOf(m)
  BY <1>1 DEF IInv, ClosureOK, Admitted, UnsettledOf, Unsettled
<1>3. /\ UnsettledOf(m)' = UnsettledOf(m) \ {c}
      /\ \A x \in Members \ {m} : UnsettledOf(x)' = UnsettledOf(x)
  BY <1>1 DEF UnsettledOf, Unsettled
<1>4. ASSUME NEW x \in UnsettledOf(m) \ {c} PROVE ticket[c] < ticket[x] /\ phase[x] # "running"
  <2>1. /\ x \in Calls /\ member[x] = m /\ phase[x] \in Unsettled /\ Admitted(x) /\ Admitted(c)
        /\ phase[c] \in Started
    BY <1>1 DEF UnsettledOf, Unsettled, Admitted, Started
  <2>2. ~(ticket[x] < ticket[c])
    BY <2>1 DEF IInv, StartsInOrder, Settled, Unsettled, Admitted
  <2>3. ticket[x] # ticket[c]
    BY <1>4, <2>1 DEF IInv, TicketsDistinct
  <2>t. ticket[c] \in Nat /\ ticket[x] \in Nat
    BY <1>t, <2>1 DEF TypeOK
  <2>4. ticket[c] < ticket[x]
    BY <2>t, <2>2, <2>3
  <2>5. phase[x] # "running"
    BY <1>1, <1>4, <2>1, OnlyOneRuns DEF OneAtATime
  <2> QED BY <2>4, <2>5
<1>5. LineOf(m)' = Tail(LineOf(m))
  <2> PICK U, t : U = UnsettledOf(m) /\ t = ticket
    OBVIOUS
  <2>1. Orderly(U, t) /\ c \in U /\ \A x \in U \ {c} : t[c] < t[x]
    BY <1>2, <1>4, UnsettledOrderly
  <2>2. Lined(U \ {c}, t) = Tail(Lined(U, t))
    BY <2>1, LineShrinks
  <2> QED BY <1>1, <1>3, <2>2 DEF LineOf
<1>6. ASSUME NEW x \in Members \ {m} PROVE LineOf(x)' = LineOf(x) /\ (Busy(x)' <=> Busy(x))
  BY <1>1, <1>3 DEF LineOf, Busy, UnsettledOf
<1>7. Busy(m)
  BY <1>1, <1>2 DEF Busy
<1>8. ~Busy(m)'
  <2>1. ASSUME NEW x \in UnsettledOf(m) \ {c} PROVE phase'[x] # "running"
    BY <1>1, <1>4, <2>1 DEF UnsettledOf
  <2> QED BY <1>3, <2>1 DEF Busy
<1>9. [x \in Members |-> LineOf(x)'] = [[x \in Members |-> LineOf(x)] EXCEPT ![m] = Tail(@)]
  <2> PICK F, G : F = [x \in Members |-> LineOf(x)] /\ G = [x \in Members |-> LineOf(x)']
    OBVIOUS
  <2>1. G[m] = Tail(F[m])
    BY <1>2, <1>5
  <2>2. \A x \in Members \ {m} : G[x] = F[x]
    BY <1>6
  <2>3. G = [F EXCEPT ![m] = Tail(F[m])]
    BY <1>2, <2>1, <2>2, FunctionUpdated
  <2> QED BY <2>3
<1>10. [x \in Members |-> Busy(x)'] = [[x \in Members |-> Busy(x)] EXCEPT ![m] = FALSE]
  <2> PICK F, G : F = [x \in Members |-> Busy(x)] /\ G = [x \in Members |-> Busy(x)']
    OBVIOUS
  <2>1. G[m] = FALSE
    BY <1>2, <1>8, BusyIsTruth
  <2>2. \A x \in Members \ {m} : G[x] = F[x]
    BY <1>6, BusyIsTruth
  <2>3. G = [F EXCEPT ![m] = FALSE]
    BY <1>2, <2>1, <2>2, FunctionUpdated
  <2> QED BY <2>3
<1> QED BY <1>2, <1>7, <1>9, <1>10 DEF Work!Finish

(* Every step of the scheduler is a step of the abstract workers, or none.   *)
LEMMA NextIsWork == IInv /\ IInv' /\ [Next]_vars => [Work!Next]_(Work!vars)
<1> SUFFICES ASSUME IInv, IInv', [Next]_vars PROVE Work!Next \/ UNCHANGED Work!vars
  OBVIOUS
<1>t. TypeOK
  BY DEF IInv
<1>1. ASSUME NEW c \in Calls, NEW m \in Members, NEW o \in OpIds, Admit(c, m, o)
      PROVE  Work!Next
  BY <1>1, AdmitSubmits DEF Work!Next
<1>2. ASSUME NEW c \in Calls, Start(c) \/ Settle(c) PROVE Work!Next
  <2>1. member[c] \in Members
    BY <1>2 DEF Start, Settle, IInv, ClosureOK, Admitted
  <2> QED BY <1>2, <2>1, StartBegins, SettleFinishes DEF Work!Next
<1>3. ASSUME UNCHANGED <<phase, ticket>>,
             \A c \in Calls : Admitted(c) => member'[c] = member[c]
      PROVE  UNCHANGED Work!vars
  <2>1. \A m \in Members : UnsettledOf(m)' = UnsettledOf(m)
    BY <1>3 DEF UnsettledOf, Unsettled, Admitted
  <2> QED BY <1>3, <2>1, NoWork
<1>4. ASSUME NEW c \in Calls, NEW m \in Members, NEW o \in OpIds,
             RefuseClosed(c) \/ RefuseFull(c, m, o) \/ Join(c, m, o)
      PROVE  UNCHANGED Work!vars
  <2>1. UNCHANGED <<phase, ticket>> /\ ~Admitted(c)
    BY <1>4 DEF RefuseClosed, RefuseFull, Refuse, Join, IInv, UncalledIsNew
  <2>2. \A d \in Calls \ {c} : member'[d] = member[d]
    BY <1>t, <1>4 DEF RefuseClosed, RefuseFull, Refuse, Join, TypeOK
  <2> QED BY <1>3, <2>1, <2>2
<1>5. ASSUME NEW c \in Calls, Release(c) PROVE UNCHANGED Work!vars
  <2>1. /\ phase[c] \in {"fulfilled", "rejected"} /\ phase'[c] = "released"
        /\ \A d \in Calls \ {c} : phase'[d] = phase[d]
        /\ UNCHANGED <<member, ticket>>
    BY <1>t, <1>5 DEF Release, TypeOK
  <2>2. \A m \in Members : UnsettledOf(m)' = UnsettledOf(m)
    BY <2>1 DEF UnsettledOf, Unsettled
  <2>3. \A d \in Calls : phase'[d] = "running" <=> phase[d] = "running"
    BY <2>1
  <2> QED BY <2>1, <2>2, <2>3, NoWork
<1>6. CASE Close \/ UNCHANGED vars
  BY <1>3, <1>6 DEF Close, vars, callVars
<1>7. ASSUME NEW c \in Calls, RefuseClosed(c) PROVE UNCHANGED Work!vars
  <2>1. UNCHANGED <<phase, ticket, member>>
    BY <1>7 DEF RefuseClosed, Refuse
  <2> QED BY <1>3, <2>1
<1> QED BY <1>1, <1>2, <1>4, <1>5, <1>6, <1>7 DEF Next, Schedule

(* The scheduler implements, for any characters, calls and limit, the safety *)
(* part of CharacterWork: one worker per character that takes the calls in the*)
(* order of their admission, one at a time.                                  *)
THEOREM ImplementsWorkInOrder == Spec => Work!Safety
<1>1. Init => Work!Init
  <2> SUFFICES ASSUME Init PROVE Work!Init
    OBVIOUS
  <2>1. ASSUME NEW m \in Members PROVE UnsettledOf(m) = {}
    BY DEF Init, UnsettledOf, Unsettled
  <2>2. ASSUME NEW m \in Members PROVE LineOf(m) = <<>> /\ Busy(m) = FALSE
    BY <2>1, FS_EmptySet DEF LineOf, Lined, Busy
  <2> QED BY <2>2 DEF Work!Init
<1>2. IInv /\ IInv' /\ [Next]_vars => [Work!Next]_(Work!vars)
  BY NextIsWork
<1> QED BY <1>1, <1>2, Invariance, PTL DEF Spec, Work!Safety

--------------------------------------------------------------------------------
(* The workflow journal                                                      *)
(*                                                                           *)
(* Its invariants, and that it implements WorkflowHistory.  The argument: the*)
(* states that were ever stored have different versions, and the latest of   *)
(* them is the record; a client that persists holds a stored state, so that a*)
(* version that matches is a state that matches, and the transition computed *)
(* from the one is a transition of the other.                                *)

Persisting == {"compare", "insert", "update"}

(* A state that every further step is a transition of, or leaves alone.      *)
Proceedable(s) ==
    s # NoState /\ s.status \in {"running", "waiting", "completed", "cancelled"}

(* The stored states have different versions, and the record is the latest.  *)
Durable ==
    /\ record = NoState => stored = {}
    /\ record # NoState => record \in stored
    /\ \A s \in stored : s.version <= record.version
    /\ \A s \in stored : s.version = record.version => s = record

(* What a client holds was stored; what it persists is what the step it is in*)
(* makes of that.                                                            *)
HoldsStored(c) == held[c] # NoState => held[c] \in stored

Located(c) ==
    /\ pc[c] \in {"new", "restore", "insert"} => op[c] = "start"
    /\ pc[c] = "update" => op[c] # "start"
    /\ pc[c] = "started" => held[c] # NoState
    /\ pc[c] = "ready" => Proceedable(held[c])

Persists(c) ==
    /\ pc[c] \in Persisting => next[c] # NoState
    /\ pc[c] \in Persisting /\ op[c] = "start" => next[c].status = "pending" /\ next[c].version = 1
    /\ pc[c] \in Persisting /\ op[c] # "start" =>
           /\ held[c] # NoState
           /\ next[c].version = held[c].version + 1
           /\ next[c].status \in H!Allowed[held[c].status]
    /\ pc[c] \in Persisting /\ op[c] \in {"open", "advance", "resume"} =>
           next[c].status \in {"running", "waiting"}
    /\ pc[c] \in Persisting /\ op[c] \in {"advance", "resume"} => Proceedable(held[c])

ClientOK(c) == HoldsStored(c) /\ Located(c) /\ Persists(c)

JournalIInv == JournalTypeOK /\ Durable /\ \A c \in Clients : ClientOK(c)

--------------------------------------------------------------------------------
(* Data                                                                      *)

(* A state that a step of the workflow makes is one.                         *)
LEMMA StateType ==
    ASSUME NEW status \in H!Statuses, NEW version \in 1..MaxVersion, NEW x \in Stamps
    PROVE  /\ H!State(status, version, x) \in States
           /\ H!State(status, version, x).status = status
           /\ H!State(status, version, x).version = version
  BY DEF States, H!State

(* The parts of a state.                                                     *)
LEMMA StateFields ==
    ASSUME NEW s \in States
    PROVE  /\ s.status \in H!Statuses
           /\ s.version \in Nat
           /\ s.version <= MaxVersion
           /\ s # NoState
  BY NoStateAssumption, BoundsAssumption DEF States

(* The transitions from the states that a client goes on from.               *)
LEMMA AllowedValues ==
    /\ H!Allowed["running"] = {"waiting", "completed", "failed", "cancelled"}
    /\ H!Allowed["waiting"] = {"running", "completed", "failed", "cancelled"}
  <1>1. "running" \in H!Statuses /\ "waiting" \in H!Statuses
    BY DEF H!Statuses
  <1>2. H!Allowed["running"] = {"waiting", "completed", "failed", "cancelled"}
    BY <1>1 DEF H!Allowed, H!Terminal
  <1>3. H!Allowed["waiting"] = {"running", "completed", "failed", "cancelled"}
    BY <1>1 DEF H!Allowed, H!Terminal
  <1> QED
    BY <1>2, <1>3

(* Transitions lead to statuses.                                             *)
LEMMA AllowedAreStatuses ==
    ASSUME NEW s \in H!Statuses
    PROVE  H!Allowed[s] \subseteq H!Statuses
  BY DEF H!Allowed, H!Statuses, H!Terminal

(* Resuming and advancing lead to a state that one can go on from.           *)
LEMMA TargetOfResume ==
    ASSUME NEW o \in {"open", "advance", "resume"}, NEW status
    PROVE  Target(o, status) \in {"running", "waiting"}
  BY DEF Target

(* Every step from a state that one can go on from is a transition.          *)
LEMMA ProceedableSteps ==
    ASSUME NEW o \in {"advance", "resume", "complete", "fail"}, NEW s \in States,
           Proceedable(s), ~NothingToDo(o, s.status)
    PROVE  Target(o, s.status) \in H!Allowed[s.status]
  <1>1. s.status \in {"running", "waiting"}
    BY DEF Proceedable, NothingToDo, H!Terminal
  <1>2. CASE s.status = "running"
    BY <1>2, AllowedValues DEF Target, NothingToDo
  <1>3. CASE s.status = "waiting"
    BY <1>3, AllowedValues DEF Target, NothingToDo
  <1> QED
    BY <1>1, <1>2, <1>3

--------------------------------------------------------------------------------
(* The ways in which a step of a client ends                                 *)

(* JournalTypeOK, of the variables of the clients and of the others.         *)
ClientTypes ==
    /\ pc \in [Clients -> PCs]
    /\ op \in [Clients -> Ops]
    /\ held \in [Clients -> States \cup {NoState}]
    /\ next \in [Clients -> States \cup {NoState}]
    /\ attempt \in [Clients -> 0..(MaxAttempts - 1)]

StoreTypes ==
    /\ record \in States \cup {NoState}
    /\ failures \in 0..MaxFailures
    /\ stored \subseteq States

ClientsOK == \A c \in Clients : ClientOK(c)

(* The type invariant, in these two parts.                                   *)
LEMMA TypeParts == JournalTypeOK <=> ClientTypes /\ StoreTypes
  BY DEF JournalTypeOK, ClientTypes, StoreTypes

(* The states that were stored stay stored, so a client that takes no step   *)
(* stays as it was.                                                          *)
LEMMA OthersOK ==
    ASSUME NEW d \in Clients, ClientOK(d), stored \subseteq stored',
           pc'[d] = pc[d], op'[d] = op[d], held'[d] = held[d], next'[d] = next[d]
    PROVE  ClientOK(d)'
  BY DEF ClientOK, HoldsStored, Located, Persists, Proceedable, Persisting

(* A step that returns a stored state leaves every client in order.          *)
LEMMA ReturnStep ==
    ASSUME ClientTypes, ClientsOK, NEW c \in Clients, NEW s \in States, Return(c, s),
           stored \subseteq stored', s \in stored',
           op[c] \in {"open", "advance", "resume"} => Proceedable(s)
    PROVE  ClientTypes' /\ ClientsOK'
  <1>1. ClientTypes'
    BY AttemptsAssumption DEF ClientTypes, Return, PCs
  <1>2. ASSUME NEW d \in Clients PROVE ClientOK(d)'
    <2>1. CASE d # c
      BY <2>1, OthersOK DEF ClientsOK, ClientTypes, Return
    <2>2. CASE d = c
      <3>1. /\ pc'[c] \in {"started", "ended", "ready"}
            /\ pc'[c] = "ready" => op[c] \in {"open", "advance", "resume"}
        BY DEF ClientTypes, Return, Ops
      <3>2. held'[c] = s /\ op'[c] = op[c] /\ s # NoState
        BY StateFields DEF ClientTypes, Return
      <3> QED
        BY <2>2, <3>1, <3>2 DEF ClientOK, HoldsStored, Located, Persists, Proceedable, Persisting
    <2> QED
      BY <2>1, <2>2
  <1> QED
    BY <1>1, <1>2 DEF ClientsOK

(* So does one that rejects, since it leaves the client what it held.        *)
LEMMA RejectStep ==
    ASSUME ClientTypes, ClientsOK, NEW c \in Clients, Reject(c),
           stored \subseteq stored', pc[c] \in Persisting \cup {"restore"}
    PROVE  ClientTypes' /\ ClientsOK'
  <1>1. ClientTypes'
    BY AttemptsAssumption DEF ClientTypes, Reject, PCs
  <1>2. ASSUME NEW d \in Clients PROVE ClientOK(d)'
    <2>1. CASE d # c
      <3>1. pc'[d] = pc[d] /\ op'[d] = op[d] /\ held'[d] = held[d] /\ next'[d] = next[d]
        BY <2>1 DEF ClientTypes, Reject
      <3> QED
        BY <3>1, OthersOK DEF ClientsOK
    <2>2. CASE d = c
      <3>1. /\ pc'[c] = "ended" \/ (pc'[c] = "ready" /\ op[c] \in {"advance", "resume"})
            /\ held'[c] = held[c] /\ op'[c] = op[c]
        BY DEF ClientTypes, Reject
      <3>2. HoldsStored(c) /\ Located(c) /\ Persists(c)
        BY DEF ClientsOK, ClientOK
      <3>3. pc'[c] = "ready" => Proceedable(held[c])
        BY <3>1, <3>2 DEF Located, Persists, Persisting
      <3> QED
        BY <2>2, <3>1, <3>2, <3>3
        DEF ClientOK, HoldsStored, Located, Persists, Proceedable, Persisting
    <2> QED
      BY <2>1, <2>2
  <1> QED
    BY <1>1, <1>2 DEF ClientsOK

(* So does one that is made again, or was for the last time.                 *)
LEMMA RetryStep ==
    ASSUME ClientTypes, ClientsOK, NEW c \in Clients,
           Retry(c), stored \subseteq stored', pc[c] \in {"insert", "update"}
    PROVE  ClientTypes' /\ ClientsOK'
  <1>1. CASE LastAttempt(c)
    BY <1>1, RejectStep DEF Retry, Persisting
  <1>2. CASE ~LastAttempt(c)
    <2>1. /\ attempt' = [attempt EXCEPT ![c] = @ + 1]
          /\ UNCHANGED <<pc, op, held, next>>
      BY <1>2 DEF Retry
    <2>2. attempt[c] \in 0..(MaxAttempts - 1) /\ attempt[c] + 1 # MaxAttempts
      BY <1>2 DEF ClientTypes, LastAttempt
    <2>3. attempt[c] + 1 \in 0..(MaxAttempts - 1)
      BY <2>2, AttemptsAssumption
    <2>4. ClientTypes'
      BY <2>1, <2>3 DEF ClientTypes
    <2>5. ClientsOK'
      BY <2>1, OthersOK DEF ClientsOK
    <2> QED
      BY <2>4, <2>5
  <1> QED
    BY <1>1, <1>2

--------------------------------------------------------------------------------
(* The writes                                                                *)

(* A write that takes effect creates the record, or makes a transition of it:*)
(* the client computed the transition from a stored state of the version that*)
(* matched, and there is only one.                                           *)
LEMMA ApplyStep ==
    ASSUME JournalIInv, NEW c \in Clients, Apply(c)
    PROVE  /\ next[c] \in States /\ record' = next[c]
           /\ stored' \subseteq States /\ stored \subseteq stored' /\ next[c] \in stored'
           /\ Durable'
           /\ H!Next
           /\ op[c] \in {"open", "advance", "resume"} => Proceedable(next[c])
  <1> USE DEF Apply
  <1>1. /\ pc[c] \in {"insert", "update"} /\ Matches(c)
        /\ record' = next[c] /\ stored' = stored \cup {next[c]}
    OBVIOUS
  <1>2. HoldsStored(c) /\ Located(c) /\ Persists(c)
    BY DEF JournalIInv, ClientOK
  <1>3. /\ next[c] \in States /\ stored \subseteq States
        /\ held[c] \in States \cup {NoState} /\ record \in States \cup {NoState}
    BY <1>1, <1>2 DEF JournalIInv, JournalTypeOK, Persists, Persisting
  <1>4. next[c] # NoState /\ next[c].version \in Nat
        /\ next[c].stamp \in Stamps /\ next[c].status \in H!Statuses
        /\ next[c] = H!State(next[c].status, next[c].version, next[c].stamp)
    BY <1>3, StateFields DEF States, H!State
  <1>5. op[c] \in {"open", "advance", "resume"} => Proceedable(next[c])
    BY <1>1, <1>2, <1>4 DEF Persists, Proceedable, Persisting
  <1>6. CASE record = NoState
    <2>1. op[c] = "start" /\ next[c].status = "pending" /\ next[c].version = 1
      BY <1>1, <1>2, <1>6 DEF Matches, Located, Persists, Persisting
    <2>2. stored = {}
      BY <1>6 DEF JournalIInv, Durable
    <2>3. Durable'
      BY <1>1, <1>4, <2>2 DEF Durable
    <2>4. H!Create
      BY <1>1, <1>4, <1>6, <2>1 DEF H!Create
    <2> QED
      BY <1>1, <1>3, <1>5, <2>3, <2>4 DEF H!Next
  <1>7. CASE record # NoState
    <2>1. pc[c] = "update" /\ record.version + 1 = next[c].version
      BY <1>1, <1>7 DEF Matches
    <2>2. /\ held[c] # NoState /\ next[c].version = held[c].version + 1
          /\ next[c].status \in H!Allowed[held[c].status]
      BY <1>2, <2>1 DEF Located, Persists, Persisting
    <2>3. held[c] \in stored /\ record \in States /\ held[c] \in States
      BY <1>2, <1>3, <1>7, <2>2 DEF HoldsStored
    <2>4. record.version \in Nat /\ held[c].version \in Nat
      BY <2>3, StateFields
    <2>5. held[c] = record
      <3>1. held[c].version = record.version
        BY <2>1, <2>2, <2>4
      <3> QED
        BY <2>3, <3>1 DEF JournalIInv, Durable
    <2>6. Durable'
      <3>1. \A t \in stored : t.version \in Nat /\ t.version <= record.version
        BY <1>3, StateFields DEF JournalIInv, Durable
      <3>2. \A t \in stored : t.version < next[c].version
        BY <2>1, <2>4, <3>1
      <3>3. \A t \in stored' : t.version <= next[c].version
        BY <1>1, <1>4, <3>1, <3>2
      <3>4. \A t \in stored' : t.version = next[c].version => t = next[c]
        BY <1>1, <1>4, <3>1, <3>2
      <3> QED
        BY <1>1, <1>4, <3>3, <3>4 DEF Durable
    <2>7. H!Transition
      <3>1. record' = H!State(next[c].status, record.version + 1, next[c].stamp)
        BY <1>1, <1>4, <2>1
      <3> QED
        BY <1>4, <1>7, <2>2, <2>5, <3>1 DEF H!Transition
    <2> QED
      BY <1>1, <1>3, <1>5, <2>6, <2>7 DEF H!Next
  <1> QED
    BY <1>6, <1>7

(* Nothing is stored, and nobody holds anything.                             *)
LEMMA JournalInitIInv == JournalInit => JournalIInv
  BY AttemptsAssumption, BoundsAssumption
  DEF JournalInit, JournalIInv, JournalTypeOK, Durable, ClientOK, HoldsStored, Located, Persists, Persisting,
      PCs, Ops

--------------------------------------------------------------------------------
(* The steps                                                                 *)

(* The database is as it was.                                                *)
LEMMA StoreUnchanged ==
    ASSUME JournalIInv, UNCHANGED <<record, stored>>, failures' \in 0..MaxFailures
    PROVE  StoreTypes' /\ Durable'
  BY DEF JournalIInv, JournalTypeOK, StoreTypes, Durable

(* The bound on failures is kept.                                            *)
LEMMA MoreFailures ==
    ASSUME JournalIInv, failures < MaxFailures, failures' = failures + 1
    PROVE  failures' \in 0..MaxFailures
  BY BoundsAssumption DEF JournalIInv, JournalTypeOK

(* Starting, and starting to persist.                                        *)
LEMMA StartStep ==
    ASSUME JournalIInv, NEW c \in Clients, StartOperation(c)
    PROVE  JournalIInv'
  <1>1. ClientTypes' /\ ClientsOK'
    <2>1. /\ UNCHANGED <<record, op, held, next, attempt, failures, stored>>
          /\ pc[c] = "new" /\ pc' = [pc EXCEPT ![c] = "restore"]
      BY DEF StartOperation, locals
    <2>2. ClientTypes'
      BY <2>1 DEF JournalIInv, JournalTypeOK, ClientTypes, PCs
    <2>3. ASSUME NEW d \in Clients PROVE ClientOK(d)'
      <3>1. CASE d = c
        <4>1. pc'[c] = "restore" /\ op[c] = "start" /\ HoldsStored(c)
          BY <2>1 DEF JournalIInv, JournalTypeOK, ClientOK, Located
        <4> QED
          BY <2>1, <3>1, <4>1 DEF ClientOK, HoldsStored, Located, Persists, Persisting
      <3>2. CASE d # c
        BY <2>1, <3>2, OthersOK DEF JournalIInv, JournalTypeOK
      <3> QED
        BY <3>1, <3>2
    <2> QED
      BY <2>2, <2>3 DEF ClientsOK
  <1>2. StoreTypes' /\ Durable'
    BY StoreUnchanged DEF StartOperation, JournalIInv, JournalTypeOK
  <1> QED
    BY <1>1, <1>2 DEF JournalIInv, JournalTypeOK, ClientTypes, StoreTypes, ClientsOK

(* start: a client takes what is stored, or begins to persist a new state.   *)
LEMMA RestoreStep ==
    ASSUME JournalIInv, NEW c \in Clients, Restore(c)
    PROVE  JournalIInv'
  <1>1. StoreTypes' /\ Durable'
    BY StoreUnchanged DEF Restore, JournalIInv, JournalTypeOK
  <1>2. ClientTypes /\ ClientsOK
    BY DEF JournalIInv, JournalTypeOK, ClientTypes, ClientsOK
  <1>3. pc[c] = "restore" /\ op[c] = "start" /\ HoldsStored(c)
    BY DEF Restore, JournalIInv, ClientOK, Located
  <1>4. CASE record # NoState
    <2>1. Return(c, record) /\ record \in States /\ record \in stored /\ stored' = stored
      BY <1>4 DEF Restore, JournalIInv, JournalTypeOK, Durable
    <2>2. ClientTypes' /\ ClientsOK'
      BY <1>2, <1>3, <2>1, ReturnStep
    <2> QED
      BY <1>1, <2>2 DEF JournalIInv, JournalTypeOK, ClientTypes, StoreTypes, ClientsOK
  <1>5. CASE record = NoState
    <2>1. PICK x \in Stamps : next' = [next EXCEPT ![c] = H!State("pending", 1, x)]
      BY <1>5 DEF Restore
    <2>2. /\ pc' = [pc EXCEPT ![c] = "compare"]
          /\ UNCHANGED <<op, held, attempt, record, stored>>
      BY <1>5 DEF Restore
    <2>3. /\ H!State("pending", 1, x) \in States
          /\ H!State("pending", 1, x).status = "pending"
          /\ H!State("pending", 1, x).version = 1
          /\ H!State("pending", 1, x) # NoState
      BY StateType, NoStateAssumption, BoundsAssumption DEF H!Statuses
    <2>4. ClientTypes'
      BY <1>2, <2>1, <2>2, <2>3 DEF ClientTypes, PCs
    <2>5. ASSUME NEW d \in Clients PROVE ClientOK(d)'
      <3>1. CASE d = c
        <4>1. /\ pc'[c] = "compare" /\ op'[c] = "start" /\ held'[c] = held[c]
              /\ next'[c] = H!State("pending", 1, x)
          BY <1>2, <1>3, <2>1, <2>2 DEF ClientTypes
        <4> QED
          BY <1>3, <2>2, <2>3, <3>1, <4>1
          DEF ClientOK, HoldsStored, Located, Persists, Persisting
      <3>2. CASE d # c
        <4>1. /\ pc'[d] = pc[d] /\ op'[d] = op[d] /\ held'[d] = held[d]
              /\ next'[d] = next[d]
          BY <1>2, <2>1, <2>2, <3>2 DEF ClientTypes
        <4> QED
          BY <1>2, <2>2, <4>1, OthersOK DEF ClientsOK
      <3> QED
        BY <3>1, <3>2
    <2> QED
      BY <1>1, <2>4, <2>5 DEF JournalIInv, JournalTypeOK, ClientTypes, StoreTypes
  <1> QED
    BY <1>4, <1>5

(* A step of the workflow: the client holds a stored state, and persists a   *)
(* transition of it.                                                         *)
LEMMA CallStep ==
    ASSUME JournalIInv, NEW c \in Clients, NEW o \in Ops \ {"start"}, Call(c, o)
    PROVE  JournalIInv'
  <1> DEFINE s == held[c]
             t == Target(o, s.status)
  <1>1. /\ pc[c] = (IF o = "open" THEN "started" ELSE "ready")
        /\ op' = [op EXCEPT ![c] = o]
        /\ UNCHANGED <<record, held, attempt, failures, stored>>
    BY DEF Call
  <1>2. ClientTypes /\ ClientsOK /\ HoldsStored(c) /\ Located(c)
    BY DEF JournalIInv, JournalTypeOK, ClientTypes, ClientsOK, ClientOK
  <1>3. s \in States /\ s.status \in H!Statuses /\ s.version \in Nat
    BY <1>1, <1>2, StateFields DEF ClientTypes, Located, Proceedable
  <1>4. o # "open" => Proceedable(s)
    BY <1>1, <1>2 DEF Located
  <1>5. StoreTypes' /\ Durable'
    BY <1>1, StoreUnchanged DEF JournalIInv, JournalTypeOK
  <1>6. ASSUME ClientTypes',
               ClientOK(c)',
               \A d \in Clients \ {c} : pc'[d] = pc[d] /\ next'[d] = next[d]
        PROVE  JournalIInv'
    <2>1. ASSUME NEW d \in Clients PROVE ClientOK(d)'
      <3>1. CASE d = c
        BY <1>6, <3>1
      <3>2. CASE d # c
        <4>1. op'[d] = op[d] /\ held'[d] = held[d]
          BY <1>1, <1>2, <3>2 DEF ClientTypes
        <4> QED
          BY <1>1, <1>2, <1>6, <3>2, <4>1, OthersOK DEF ClientsOK
      <3> QED
        BY <3>1, <3>2
    <2> QED
      BY <1>5, <1>6, <2>1 DEF JournalIInv, JournalTypeOK, ClientTypes, StoreTypes
  <1>7. CASE NothingToDo(o, s.status)
    <2>1. /\ pc' = [pc EXCEPT ![c] = IF o \in {"complete", "fail"} THEN "ended" ELSE "ready"]
          /\ UNCHANGED next
      BY <1>7 DEF Call
    <2>2. ClientTypes'
      BY <1>1, <1>2, <2>1 DEF ClientTypes, PCs
    <2>3. Proceedable(s)
      <3>1. CASE o = "open"
        BY <1>3, <1>7, <3>1, StateFields DEF NothingToDo, Proceedable, H!Terminal
      <3> QED
        BY <1>4, <3>1
    <2>4. /\ pc'[c] \in {"ended", "ready"} /\ op'[c] = o /\ held'[c] = s
          /\ next'[c] = next[c]
      BY <1>1, <1>2, <2>1 DEF ClientTypes
    <2>5. ClientOK(c)'
      BY <1>1, <1>2, <2>3, <2>4
      DEF ClientOK, HoldsStored, Located, Persists, Proceedable, Persisting
    <2> QED
      BY <1>2, <1>6, <2>1, <2>2, <2>5 DEF ClientTypes
  <1>8. CASE ~NothingToDo(o, s.status) /\ t \notin H!Allowed[s.status]
    <2>1. pc' = [pc EXCEPT ![c] = "ended"] /\ UNCHANGED next
      BY <1>8 DEF Call
    <2>2. ClientTypes'
      BY <1>1, <1>2, <2>1 DEF ClientTypes, PCs
    <2>3. pc'[c] = "ended" /\ held'[c] = s
      BY <1>1, <1>2, <2>1 DEF ClientTypes
    <2>4. ClientOK(c)'
      BY <1>1, <1>2, <2>3 DEF ClientOK, HoldsStored, Located, Persists, Persisting
    <2> QED
      BY <1>2, <1>6, <2>1, <2>2, <2>4 DEF ClientTypes
  <1>9. CASE ~NothingToDo(o, s.status) /\ t \in H!Allowed[s.status]
    <2>1. /\ s.version < MaxVersion
          /\ pc' = [pc EXCEPT ![c] = "compare"]
          /\ \E x \in Stamps : next' = [next EXCEPT ![c] = H!State(t, s.version + 1, x)]
      BY <1>9 DEF Call
    <2>2. PICK x \in Stamps : next' = [next EXCEPT ![c] = H!State(t, s.version + 1, x)]
      BY <2>1
    <2>3. t \in H!Statuses /\ s.version + 1 \in 1..MaxVersion
      BY <1>3, <1>9, <2>1, AllowedAreStatuses, BoundsAssumption
    <2>4. /\ H!State(t, s.version + 1, x) \in States
          /\ H!State(t, s.version + 1, x) # NoState
          /\ H!State(t, s.version + 1, x).status = t
          /\ H!State(t, s.version + 1, x).version = s.version + 1
      BY <2>3, StateType, NoStateAssumption
    <2>5. ClientTypes'
      BY <1>1, <1>2, <2>1, <2>2, <2>4 DEF ClientTypes, PCs
    <2>6. /\ pc'[c] = "compare" /\ op'[c] = o /\ held'[c] = s
          /\ next'[c] = H!State(t, s.version + 1, x)
      BY <1>1, <1>2, <2>1, <2>2 DEF ClientTypes
    <2>7. o \in {"open", "advance", "resume"} => t \in {"running", "waiting"}
      BY TargetOfResume
    <2>8. ClientOK(c)'
      <3> HIDE DEF s, t
      <3>1. HoldsStored(c)'
        BY <1>1, <1>2, <2>6 DEF HoldsStored, s
      <3>2. Located(c)'
        BY <2>6 DEF Located
      <3>3. Persists(c)'
        BY <1>3, <1>4, <1>9, <2>4, <2>6, <2>7, StateFields
        DEF Persists, Persisting, Proceedable, s
      <3> QED
        BY <3>1, <3>2, <3>3 DEF ClientOK
    <2> QED
      BY <1>2, <1>6, <2>1, <2>2, <2>5, <2>8 DEF ClientTypes
  <1> QED
    BY <1>7, <1>8, <1>9

(* persist, up to its write: a state that is stored already is returned, a   *)
(* conflict rejects.                                                         *)
LEMMA CompareStep ==
    ASSUME JournalIInv, NEW c \in Clients, Compare(c)
    PROVE  JournalIInv'
  <1>1. StoreTypes' /\ Durable'
    BY StoreUnchanged DEF Compare, JournalIInv, JournalTypeOK
  <1>2. /\ ClientTypes /\ ClientsOK
        /\ HoldsStored(c) /\ Located(c) /\ Persists(c)
    BY DEF JournalIInv, JournalTypeOK, ClientTypes, ClientsOK, ClientOK
  <1>3. pc[c] = "compare" /\ UNCHANGED <<record, failures, stored>>
    BY DEF Compare
  <1>4. SUFFICES ClientTypes' /\ ClientsOK'
    BY <1>1 DEF JournalIInv, JournalTypeOK, ClientTypes, StoreTypes, ClientsOK
  <1>5. ASSUME NEW where \in {"insert", "update"},
               pc' = [pc EXCEPT ![c] = where],
               where = "insert" <=> op[c] = "start",
               UNCHANGED locals
        PROVE  ClientTypes' /\ ClientsOK'
    <2>1. UNCHANGED <<op, held, next, attempt>>
      BY <1>5 DEF locals
    <2>2. ClientTypes'
      BY <1>2, <1>5, <2>1 DEF ClientTypes, PCs
    <2>3. ASSUME NEW d \in Clients PROVE ClientOK(d)'
      <3>1. CASE d = c
        <4>1. pc'[c] = where
          BY <1>2, <1>5 DEF ClientTypes
        <4> QED
          BY <1>2, <1>3, <1>5, <2>1, <3>1, <4>1
          DEF ClientOK, HoldsStored, Located, Persists, Proceedable, Persisting
      <3>2. CASE d # c
        <4>1. pc'[d] = pc[d]
          BY <1>2, <1>5, <3>2 DEF ClientTypes
        <4> QED
          BY <1>2, <1>3, <2>1, <4>1, OthersOK DEF ClientsOK
      <3> QED
        BY <3>1, <3>2
    <2> QED
      BY <2>2, <2>3 DEF ClientsOK
  <1>6. CASE /\ record = NoState /\ op[c] = "start"
             /\ pc' = [pc EXCEPT ![c] = "insert"]
             /\ UNCHANGED locals
    BY <1>5, <1>6
  <1>7. CASE record = next[c] /\ Return(c, record)
    <2>1. next[c] # NoState /\ record \in States /\ record \in stored
      BY <1>2, <1>3, <1>7 DEF JournalIInv, JournalTypeOK, Durable, Persists, Persisting
    <2>2. op[c] \in {"open", "advance", "resume"} => Proceedable(record)
      BY <1>2, <1>3, <1>7, <2>1 DEF Persists, Persisting, Proceedable
    <2> QED
      BY <1>2, <1>3, <1>7, <2>1, <2>2, ReturnStep
  <1>8. CASE Reject(c)
    BY <1>2, <1>3, <1>8, RejectStep DEF Persisting
  <1>9. CASE /\ ~Conflict(c)
             /\ pc' = [pc EXCEPT ![c] = "update"]
             /\ UNCHANGED locals
    <2>1. op[c] # "start"
      BY <1>9 DEF Conflict
    <2> QED
      BY <1>5, <1>9, <2>1
  <1> QED
    BY <1>6, <1>7, <1>8, <1>9 DEF Compare

(* A write that takes effect, with or without its acknowledgement, is a step *)
(* of the history.                                                           *)
LEMMA WriteStep ==
    ASSUME JournalIInv, NEW c \in Clients, Write(c) \/ AnswerLost(c)
    PROVE  JournalIInv' /\ H!Next
  <1>1. ClientTypes /\ ClientsOK
    BY DEF JournalIInv, JournalTypeOK, ClientTypes, ClientsOK
  <1>2. Apply(c) /\ pc[c] \in {"insert", "update"}
    BY DEF Write, AnswerLost, Apply
  <1>3. /\ next[c] \in States /\ record' = next[c]
        /\ stored' \subseteq States /\ stored \subseteq stored' /\ next[c] \in stored'
        /\ Durable' /\ H!Next
        /\ op[c] \in {"open", "advance", "resume"} => Proceedable(next[c])
    BY <1>2, ApplyStep
  <1>4. ClientTypes' /\ ClientsOK' /\ failures' \in 0..MaxFailures
    <2>1. CASE Write(c)
      BY <1>1, <1>3, <2>1, ReturnStep DEF Write, JournalIInv, JournalTypeOK
    <2>2. CASE AnswerLost(c)
      <3>1. failures' \in 0..MaxFailures
        BY <2>2, MoreFailures DEF AnswerLost
      <3>2. Retry(c)
        BY <2>2 DEF AnswerLost
      <3> QED
        BY <1>1, <1>2, <1>3, <3>1, <3>2, RetryStep
    <2> QED
      BY <2>1, <2>2
  <1> QED
    BY <1>3, <1>4 DEF JournalIInv, JournalTypeOK, ClientTypes, ClientsOK

(* A write that does not, and a read that fails, leave the record as it was. *)
LEMMA FailStep ==
    ASSUME JournalIInv, NEW c \in Clients, WriteFails(c) \/ WriteRefused(c) \/ ReadFails(c)
    PROVE  JournalIInv'
  <1>1. ClientTypes /\ ClientsOK
    BY DEF JournalIInv, JournalTypeOK, ClientTypes, ClientsOK
  <1>2. UNCHANGED <<record, stored>> /\ failures' \in 0..MaxFailures
    BY MoreFailures DEF WriteFails, WriteRefused, ReadFails, JournalIInv, JournalTypeOK
  <1>3. ClientTypes' /\ ClientsOK'
    <2>1. CASE WriteFails(c)
      BY <1>1, <1>2, <2>1, RetryStep DEF WriteFails
    <2>2. CASE WriteRefused(c)
      BY <1>1, <1>2, <2>2, RejectStep DEF WriteRefused, Refusal, Persisting
    <2>3. CASE ReadFails(c)
      BY <1>1, <1>2, <2>3, RejectStep DEF ReadFails, Persisting
    <2> QED
      BY <2>1, <2>2, <2>3
  <1> QED
    BY <1>2, <1>3, StoreUnchanged DEF JournalIInv, JournalTypeOK, ClientTypes, StoreTypes, ClientsOK

(* Every step keeps the invariant, and is one of the history or none.        *)
LEMMA JournalStepOK ==
    ASSUME JournalIInv, [JournalNext]_journalVars
    PROVE  JournalIInv' /\ [H!Next]_record
  <1>1. CASE UNCHANGED journalVars
    BY <1>1 DEF journalVars, locals, JournalIInv, JournalTypeOK, Durable, ClientOK, HoldsStored, Located,
                Persists, Proceedable, Persisting
  <1>2. ASSUME NEW c \in Clients, Step(c) PROVE JournalIInv' /\ [H!Next]_record
    <2>1. CASE StartOperation(c)
      BY <2>1, StartStep DEF StartOperation
    <2>2. CASE Restore(c)
      BY <2>2, RestoreStep DEF Restore
    <2>3. CASE \E o \in Ops \ {"start"} : Call(c, o)
      BY <2>3, CallStep DEF Call
    <2>4. CASE Compare(c)
      BY <2>4, CompareStep DEF Compare
    <2>5. CASE Write(c) \/ AnswerLost(c)
      BY <2>5, WriteStep
    <2>6. CASE WriteFails(c) \/ WriteRefused(c) \/ ReadFails(c)
      BY <2>6, FailStep DEF WriteFails, WriteRefused, ReadFails
    <2> QED
      BY <1>2, <2>1, <2>2, <2>3, <2>4, <2>5, <2>6 DEF Step
  <1> QED
    BY <1>1, <1>2 DEF JournalNext

--------------------------------------------------------------------------------
(* The theorems                                                              *)

(* The invariant of the journal holds in every reachable state, however many *)
(* clients write, repeat their writes and stop.                              *)
THEOREM JournalInvariance == JournalSpec => []JournalIInv
  <1>1. JournalInit => JournalIInv
    BY JournalInitIInv
  <1>2. JournalIInv /\ [JournalNext]_journalVars => JournalIInv'
    BY JournalStepOK
  <1> QED
    BY <1>1, <1>2, PTL DEF JournalSpec

(* The variables of the journal keep their types.                            *)
THEOREM JournalTypeCorrect == JournalSpec => []JournalTypeOK
  <1>1. JournalIInv => JournalTypeOK
    BY DEF JournalIInv
  <1> QED
    BY <1>1, JournalInvariance, PTL

(* What a client is told to hold was stored, and is the record unless a later*)
(* version is: persist returns nothing that lost a race.                     *)
THEOREM HeldIsStoredThm == JournalSpec => []HeldIsStored
  <1>1. ASSUME JournalIInv, NEW c \in Clients, held[c] # NoState
        PROVE  /\ held[c] \in stored
               /\ held[c].version <= record.version
               /\ held[c].version = record.version => held[c] = record
    BY <1>1 DEF JournalIInv, ClientOK, HoldsStored, Durable
  <1>2. JournalIInv => HeldIsStored
    BY <1>1 DEF HeldIsStored
  <1> QED
    BY <1>2, JournalInvariance, PTL

(* transitionWorkflow never throws at the steps of the removals and of the   *)
(* bunny punishment.                                                         *)
THEOREM StepsAreTransitionsThm == JournalSpec => []StepsAreTransitions
  <1>1. ASSUME JournalIInv, NEW c \in Clients,
               NEW o \in {"advance", "resume", "complete", "fail"},
               pc[c] = "ready", ~NothingToDo(o, held[c].status)
        PROVE  Target(o, held[c].status) \in H!Allowed[held[c].status]
    <2>1. Proceedable(held[c]) /\ held[c] \in States
      BY <1>1 DEF JournalIInv, JournalTypeOK, ClientOK, Located, Proceedable
    <2> QED
      BY <1>1, <2>1, ProceedableSteps
  <1>2. JournalIInv => StepsAreTransitions
    BY <1>1 DEF StepsAreTransitions
  <1> QED
    BY <1>2, JournalInvariance, PTL

(* The journal implements the history of one operation: every change of the  *)
(* stored state creates it or is a transition of it to the next version,     *)
(* however many clients write at once and repeat their writes.               *)
THEOREM JournalImplementsHistory == JournalSpec => ImplementsHistory
  <1>1. JournalInit => H!Init
    BY DEF JournalInit, H!Init
  <1>2. JournalIInv /\ [JournalNext]_journalVars => [H!Next]_record
    BY JournalStepOK
  <1> QED
    BY <1>1, <1>2, JournalInvariance, PTL DEF JournalSpec, ImplementsHistory, H!Spec

================================================================================
