-------------------------- MODULE EventDelivery_proofs -------------------------
(* Proofs, for every number of listeners, calls, ids and attempts, of the      *)
(* safety properties of EventDelivery.                                         *)
EXTENDS EventDelivery, TLAPS

--------------------------------------------------------------------------------
(* The inductive invariant                                                     *)

Published(c) == phase[c] # "new"
Finished(c) == phase[c] = "done"
SameId(c, d) == idOf[c] = idOf[d] /\ idOf[c] # NoId

(* Calls are numbered in the order in which they are made.                     *)
TurnsOK ==
    /\ \A c \in Calls : Published(c) => turn[c] < made
    /\ \A c, d \in Calls :
           Published(c) /\ Published(d) /\ turn[c] = turn[d] => c = d

(* All calls of an id that have not returned are the last, or before it.       *)
TailOK ==
    \A i \in Ids :
        /\ tail[i] # None => Published(tail[i]) /\ idOf[tail[i]] = i
        /\ \A c \in Calls :
               Published(c) /\ ~Finished(c) /\ idOf[c] = i =>
                   /\ tail[i] # None
                   /\ c = tail[i] \/ turn[c] < turn[tail[i]]

(* What is before a waiting call is the call it awaits, or before that.        *)
ChainOK ==
    \A c \in Calls : phase[c] = "waiting" =>
        /\ idOf[c] \in Ids
        /\ prev[c] # None => Published(prev[c]) /\ SameId(c, prev[c])
        /\ \A d \in Calls :
               Published(d) /\ ~Finished(d) /\ SameId(c, d) /\ turn[d] < turn[c] =>
                   /\ prev[c] # None
                   /\ d = prev[c] \/ turn[d] < turn[prev[c]]

(* Who has been reached under an id has handled one event.                     *)
HandledOK ==
    \A i \in Ids, l \in Listeners :
        handled[i][l] = IF l \in delivered[i] THEN 1 ELSE 0

(* The listener being called has not been reached before.                      *)
CallingOK ==
    \A c \in Calls : phase[c] = "calling" =>
        Place(c) <= Len(list[c]) /\ ~Reached(c) /\ ~Repeated(c)

OutcomesOK ==
    \A c \in Calls :
        /\ phase[c] \in {"new", "waiting"} => outcome[c] = <<>>
        /\ \A k \in 1..Len(outcome[c]) :
               /\ outcome[c][k] \in {"delivered", "skipped"} /\ idOf[c] # NoId
                      => list[c][k] \in delivered[idOf[c]]
               /\ outcome[c][k] = "repeated" <=>
                      \E j \in 1..(k - 1) : list[c][j] = list[c][k]
        /\ phase[c] = "done" => Len(outcome[c]) = Len(list[c])

Queues == TurnsOK /\ TailOK /\ ChainOK /\ Serialized

IInv == TypeOK /\ Queues /\ HandledOK /\ CallingOK /\ OutcomesOK

--------------------------------------------------------------------------------
(* Sequences                                                                   *)

(* A listener is removed from a list of listeners.                             *)
LEMMA RemoveAtType ==
    ASSUME NEW S, NEW s \in Seq(S), NEW n \in 1..Len(s)
    PROVE  RemoveAt(s, n) \in Seq(S)
BY DEF RemoveAt

(* What has come of the first listeners of a call stays when one more goes.    *)
LEMMA AppendKeeps ==
    ASSUME NEW S, NEW s \in Seq(S), NEW x \in S
    PROVE  /\ Append(s, x) \in Seq(S)
           /\ Len(Append(s, x)) = Len(s) + 1
           /\ Append(s, x)[Len(s) + 1] = x
           /\ \A k \in 1..Len(s) : Append(s, x)[k] = s[k]
OBVIOUS

--------------------------------------------------------------------------------
(* Initialisation                                                              *)

LEMMA InitIInv == Init => IInv
<1> SUFFICES ASSUME Init PROVE IInv
  OBVIOUS
<1>1. TypeOK
  BY BoundsAssumption DEF Init, TypeOK, Phases, Started, Active
<1>2. Queues
  BY IdsAssumption DEF Init, Queues, TurnsOK, TailOK, ChainOK, Serialized, Published, Started, Active
<1>3. HandledOK /\ CallingOK /\ OutcomesOK
  BY DEF Init, HandledOK, CallingOK, OutcomesOK
<1> QED
  BY <1>1, <1>2, <1>3 DEF IInv

--------------------------------------------------------------------------------
(* Types                                                                       *)

LEMMA NextTypeOK == ASSUME IInv, [Next]_vars PROVE TypeOK'
<1> USE DEF Started, Active, Phases, Outcomes, Place
<1>0. TypeOK /\ CallingOK /\ OutcomesOK
  BY DEF IInv
<1>1. ASSUME NEW kind \in {"typed", "wildcard"}, NEW l \in Listeners, Subscribe(kind, l)
      PROVE  TypeOK'
  BY <1>0, <1>1 DEF TypeOK, Subscribe, queue
<1>2. ASSUME NEW kind \in {"typed", "wildcard"}, NEW l \in Listeners, Unsubscribe(kind, l)
      PROVE  TypeOK'
  <2>1. PICK n \in DOMAIN subs[kind] :
            subs' = [subs EXCEPT ![kind] = RemoveAt(subs[kind], n)]
    BY <1>2 DEF Unsubscribe
  <2>2. subs[kind] \in Seq(Listeners) /\ n \in 1..Len(subs[kind])
    BY <1>0, <2>1 DEF TypeOK
  <2>3. RemoveAt(subs[kind], n) \in Seq(Listeners)
    BY <2>2, RemoveAtType
  <2>4. subs' \in [{"typed", "wildcard"} -> Seq(Listeners)]
    BY <1>0, <2>1, <2>3 DEF TypeOK
  <2> QED
    BY <1>0, <1>2, <2>4 DEF TypeOK, Unsubscribe, queue
<1>3. GetListeners \in Seq(Listeners)
  BY <1>0 DEF TypeOK, GetListeners
<1>4. ASSUME NEW c \in Calls, NEW i \in Ids \cup {NoId}, PublishReliable(c, i)
      PROVE  TypeOK'
  <2>1. outcome[c] = <<>>
    BY <1>0, <1>4 DEF PublishReliable, OutcomesOK
  <2>2. /\ list' \in [Calls -> Seq(Listeners)]
        /\ \A d \in Calls \ {c} : list'[d] = list[d]
    BY <1>0, <1>3, <1>4 DEF TypeOK, PublishReliable
  <2>3. \A d \in Calls : Len(outcome[d]) <= Len(list'[d])
    <3>1. Len(list'[c]) \in Nat /\ Len(outcome[c]) = 0
      BY <2>1, <2>2
    <3>2. ASSUME NEW d \in Calls, d # c
          PROVE  Len(outcome[d]) <= Len(list'[d])
      BY <1>0, <2>2, <3>2 DEF TypeOK
    <3> QED
      BY <3>1, <3>2
  <2>4. /\ phase' \in [Calls -> Phases]
        /\ prev' \in [Calls -> Calls \cup {None}]
        /\ tail' \in [Ids -> Calls \cup {None}]
    BY <1>0, <1>4 DEF TypeOK, PublishReliable
  <2> QED
    BY <1>0, <1>4, <2>2, <2>3, <2>4 DEF TypeOK, PublishReliable
<1>5. ASSUME NEW c \in Calls, Begin(c)
      PROVE  TypeOK'
  <2>1. outcome[c] = <<>>
    BY <1>0, <1>5 DEF Begin, OutcomesOK
  <2>2. /\ list' \in [Calls -> Seq(Listeners)]
        /\ \A d \in Calls \ {c} : list'[d] = list[d]
    BY <1>0, <1>3, <1>5 DEF TypeOK, Begin
  <2>3. \A d \in Calls : Len(outcome[d]) <= Len(list'[d])
    <3>1. Len(list'[c]) \in Nat /\ Len(outcome[c]) = 0
      BY <2>1, <2>2
    <3>2. ASSUME NEW d \in Calls, d # c
          PROVE  Len(outcome[d]) <= Len(list'[d])
      BY <1>0, <2>2, <3>2 DEF TypeOK
    <3> QED
      BY <3>1, <3>2
  <2> QED
    BY <1>0, <1>5, <2>2, <2>3 DEF TypeOK, Begin, queue
<1>6. ASSUME NEW c \in Calls, Pass(c)
      PROVE  TypeOK'
  <2>1. PICK w \in Outcomes : outcome' = [outcome EXCEPT ![c] = Append(@, w)]
    BY <1>6 DEF Pass, Goes
  <2> QED
    BY <1>0, <1>6, <2>1, AppendKeeps DEF TypeOK, Pass, queue
<1>7. ASSUME NEW c \in Calls, CallListener(c)
      PROVE  TypeOK'
  BY <1>0, <1>7 DEF TypeOK, CallListener, queue
<1>8. ASSUME NEW c \in Calls, Handled(c)
      PROVE  TypeOK'
  <2>1. Place(c) <= Len(list[c]) /\ Next1(c) \in Listeners
    BY <1>0, <1>8 DEF TypeOK, CallingOK, Handled, Next1
  <2>2. 1 \in 1..Attempts
    BY BoundsAssumption
  <2>3. /\ outcome' \in [Calls -> Seq(Outcomes)]
        /\ \A d \in Calls : Len(outcome'[d]) <= Len(list[d])
    BY <1>0, <1>8, <2>1, AppendKeeps DEF TypeOK, Handled, Goes
  <2>4. delivered' \in [Ids -> SUBSET Listeners] /\ handled' \in [Ids -> [Listeners -> Nat]]
    <3>1. CASE idOf[c] = NoId
      BY <1>0, <1>8, <3>1 DEF TypeOK, Handled
    <3>2. CASE idOf[c] # NoId
      <4>1. idOf[c] \in Ids
        BY <1>0, <3>2 DEF TypeOK
      <4>2. delivered' = [delivered EXCEPT ![idOf[c]] = delivered[idOf[c]] \cup {Next1(c)}]
        BY <1>8, <3>2 DEF Handled
      <4>3. delivered' \in [Ids -> SUBSET Listeners]
        BY <1>0, <2>1, <4>1, <4>2 DEF TypeOK
      <4>4. handled' = [handled EXCEPT ![idOf[c]][Next1(c)] = handled[idOf[c]][Next1(c)] + 1]
        BY <1>8, <3>2 DEF Handled
      <4>5. handled[idOf[c]][Next1(c)] + 1 \in Nat
        BY <1>0, <2>1, <4>1 DEF TypeOK
      <4>6. handled' \in [Ids -> [Listeners -> Nat]]
        BY <1>0, <2>1, <4>1, <4>4, <4>5 DEF TypeOK
      <4> QED
        BY <4>3, <4>6
    <3> QED
      BY <3>1, <3>2
  <2> QED
    BY <1>0, <1>8, <2>2, <2>3, <2>4 DEF TypeOK, Handled, queue
<1>9. ASSUME NEW c \in Calls, Rejected(c)
      PROVE  TypeOK'
  <2>1. Place(c) <= Len(list[c])
    BY <1>0, <1>9 DEF CallingOK, Rejected
  <2>2. CASE attempt[c] < Attempts
    <3>1. attempt[c] + 1 \in 1..Attempts
      BY <1>0, <2>2, BoundsAssumption DEF TypeOK
    <3>2. attempt' \in [Calls -> 1..Attempts]
      BY <1>0, <1>9, <2>2, <3>1 DEF TypeOK, Rejected
    <3> QED
      BY <1>0, <1>9, <2>2, <3>2 DEF TypeOK, Rejected, queue
  <2>3. CASE ~(attempt[c] < Attempts)
    <3>0. outcome' = [outcome EXCEPT ![c] = Append(@, "failed")]
      BY <1>9, <2>3 DEF Rejected, Goes
    <3>1. /\ outcome' \in [Calls -> Seq(Outcomes)]
          /\ \A d \in Calls : Len(outcome'[d]) <= Len(list[d])
      BY <1>0, <2>1, <3>0, AppendKeeps DEF TypeOK
    <3>2. 1 \in 1..Attempts
      BY BoundsAssumption
    <3> QED
      BY <1>0, <1>9, <2>3, <3>1, <3>2 DEF TypeOK, Rejected, queue
  <2> QED
    BY <2>2, <2>3
<1>10. ASSUME NEW c \in Calls, Return(c)
       PROVE  TypeOK'
  BY <1>0, <1>10 DEF TypeOK, Return
<1>11. CASE UNCHANGED vars
  BY <1>0, <1>11 DEF TypeOK, vars, queue
<1> QED
  BY <1>1, <1>2, <1>4, <1>5, <1>6, <1>7, <1>8, <1>9, <1>10, <1>11
     DEF Next, Subscription, Step, Settles

--------------------------------------------------------------------------------
(* The queues                                                                  *)

(* A step that publishes nothing and ends no call leaves the queues alone,     *)
(* unless a call begins.                                                       *)
LEMMA QueuesKept ==
    ASSUME IInv, UNCHANGED <<idOf, queue>>, phase' \in [Calls -> Phases],
           \A c \in Calls : phase'[c] = phase[c] \/ {phase[c], phase'[c]} \subseteq Active
    PROVE  Queues'
<1> USE DEF Published, Finished, SameId, Started, Active, queue
<1>0. TurnsOK /\ TailOK /\ ChainOK /\ Serialized
  BY DEF IInv, Queues
<1>1. \A c \in Calls : /\ phase'[c] = "new" <=> phase[c] = "new"
                       /\ phase'[c] = "waiting" <=> phase[c] = "waiting"
                       /\ phase'[c] = "done" <=> phase[c] = "done"
                       /\ phase'[c] \in Started <=> phase[c] \in Started
  OBVIOUS
<1>2. /\ \A i \in Ids : tail[i] \in Calls \cup {None}
      /\ \A c \in Calls : prev[c] \in Calls \cup {None}
  BY DEF IInv, TypeOK
<1>3. TurnsOK'
  BY <1>0, <1>1 DEF TurnsOK
<1>4. TailOK'
  BY <1>0, <1>1, <1>2 DEF TailOK
<1>5. ChainOK'
  BY <1>0, <1>1, <1>2 DEF ChainOK
<1>6. Serialized'
  BY <1>0, <1>1 DEF Serialized
<1> QED
  BY <1>3, <1>4, <1>5, <1>6 DEF Queues

LEMMA PublishQueues ==
    ASSUME IInv, NEW c \in Calls, NEW i \in Ids \cup {NoId}, PublishReliable(c, i)
    PROVE  Queues'
<1> USE DEF Published, Finished, SameId, Started, Active
<1>0. TypeOK /\ TurnsOK /\ TailOK /\ ChainOK /\ Serialized
  BY DEF IInv, Queues
<1>1. phase[c] = "new" /\ turn'[c] = made /\ made' = made + 1 /\ idOf'[c] = i
  BY <1>0 DEF PublishReliable, TypeOK
<1>2. \A d \in Calls : d # c => /\ phase'[d] = phase[d] /\ turn'[d] = turn[d]
                                /\ idOf'[d] = idOf[d] /\ prev'[d] = prev[d]
                                /\ Published(d) => turn[d] < made
  BY <1>0 DEF PublishReliable, TypeOK, TurnsOK
<1>3. phase'[c] \in {"waiting", "running"} /\ (i # NoId => phase'[c] = "waiting")
  BY <1>0 DEF PublishReliable, TypeOK
<1>4. /\ \A j \in Ids : tail'[j] = IF j = i THEN c ELSE tail[j]
      /\ \A j \in Ids : tail[j] \in Calls \cup {None}
  BY <1>0, IdsAssumption DEF PublishReliable, TypeOK
<1>5. made \in Nat /\ \A d \in Calls : turn[d] \in Nat
  BY <1>0 DEF TypeOK
<1>6. TurnsOK'
  BY <1>0, <1>1, <1>2, <1>5 DEF TurnsOK
<1>7. TailOK'
  <2> SUFFICES ASSUME NEW j \in Ids PROVE
        /\ tail'[j] # None => phase'[tail'[j]] # "new" /\ idOf'[tail'[j]] = j
        /\ \A d \in Calls :
               phase'[d] # "new" /\ phase'[d] # "done" /\ idOf'[d] = j =>
                   /\ tail'[j] # None
                   /\ d = tail'[j] \/ turn'[d] < turn'[tail'[j]]
    BY DEF TailOK
  <2>1. CASE j = i
    BY <1>1, <1>2, <1>3, <1>4, <2>1, IdsAssumption
  <2>2. CASE j # i
    BY <1>0, <1>1, <1>2, <1>3, <1>4, <2>2, IdsAssumption DEF TailOK
  <2> QED
    BY <2>1, <2>2
<1>8. ChainOK'
  <2> SUFFICES ASSUME NEW e \in Calls, phase'[e] = "waiting"
               PROVE  /\ idOf'[e] \in Ids
                      /\ prev'[e] # None => /\ phase'[prev'[e]] # "new"
                                            /\ idOf'[e] = idOf'[prev'[e]] /\ idOf'[e] # NoId
                      /\ \A d \in Calls :
                             /\ phase'[d] # "new" /\ phase'[d] # "done"
                             /\ idOf'[e] = idOf'[d] /\ idOf'[e] # NoId
                             /\ turn'[d] < turn'[e]
                             => /\ prev'[e] # None
                                /\ d = prev'[e] \/ turn'[d] < turn'[prev'[e]]
    BY DEF ChainOK
  <2>1. CASE e = c
    <3>1. i \in Ids /\ prev'[c] = tail[i]
      BY <1>0, <2>1 DEF PublishReliable, TypeOK
    <3>2. tail[i] # None => tail[i] \in Calls /\ tail[i] # c
      BY <1>0, <1>1, <1>4, <3>1 DEF TailOK
    <3> QED
      BY <1>0, <1>1, <1>2, <1>5, <2>1, <3>1, <3>2, IdsAssumption DEF TailOK
  <2>2. CASE e # c
    <3>1. /\ phase[e] = "waiting" /\ prev'[e] = prev[e] /\ prev[e] \in Calls \cup {None}
      BY <1>0, <1>2, <2>2 DEF TypeOK
    <3>2. prev[e] # None => prev[e] \in Calls /\ prev[e] # c
      BY <1>0, <1>1, <3>1 DEF ChainOK
    <3>3. turn'[e] < turn'[c]
      BY <1>1, <1>2, <2>2, <3>1
    <3>4. ~(turn'[c] < turn'[e])
      BY <1>1, <1>2, <1>5, <2>2, <3>3
    <3> QED
      BY <1>0, <1>2, <2>2, <3>1, <3>2, <3>4 DEF ChainOK
  <2> QED
    BY <2>1, <2>2
<1>9. Serialized'
  <2> SUFFICES ASSUME NEW e \in Calls, NEW d \in Calls, phase'[e] \in Started,
                      phase'[d] # "new", idOf'[e] = idOf'[d], idOf'[e] # NoId,
                      turn'[d] < turn'[e]
               PROVE  phase'[d] = "done"
    BY DEF Serialized
  <2>1. e # c
    BY <1>1, <1>3
  <2>2. d # c
    BY <1>1, <1>2, <1>5, <2>1
  <2> QED
    BY <1>0, <1>2, <2>1, <2>2 DEF Serialized
<1> QED
  BY <1>6, <1>7, <1>8, <1>9 DEF Queues

LEMMA BeginQueues ==
    ASSUME IInv, NEW c \in Calls, Begin(c)
    PROVE  Queues'
<1> USE DEF Published, Finished, SameId, Started, Active
<1>0. TypeOK /\ Queues
  BY DEF IInv
<1>1. /\ phase[c] = "waiting" /\ phase' = [phase EXCEPT ![c] = "running"]
      /\ UNCHANGED <<idOf, turn, made, prev, tail>>
  BY DEF Begin, queue
<1>2. TurnsOK' /\ TailOK' /\ ChainOK'
  <2>1. /\ phase'[c] = "running"
        /\ \A d \in Calls : d # c => phase'[d] = phase[d]
        /\ \A i \in Ids : tail[i] \in Calls \cup {None}
        /\ \A d \in Calls : prev[d] \in Calls \cup {None}
    BY <1>0, <1>1 DEF TypeOK
  <2>2. TurnsOK'
    BY <1>0, <1>1, <2>1 DEF Queues, TurnsOK
  <2>3. TailOK'
    BY <1>0, <1>1, <2>1 DEF Queues, TailOK
  <2>4. ChainOK'
    BY <1>0, <1>1, <2>1 DEF Queues, ChainOK
  <2> QED
    BY <2>2, <2>3, <2>4
<1>3. ASSUME NEW d \in Calls, Published(d), SameId(c, d), turn[d] < turn[c], ~Finished(d)
      PROVE  FALSE
  <2>1. prev[c] # None /\ (d = prev[c] \/ turn[d] < turn[prev[c]])
    BY <1>0, <1>1, <1>3 DEF Queues, ChainOK
  <2>2. prev[c] \in Calls /\ phase[prev[c]] = "done" /\ SameId(c, prev[c])
    BY <1>0, <1>1, <2>1 DEF Begin, Released, Queues, ChainOK, TypeOK
  <2> QED
    BY <1>0, <1>3, <2>1, <2>2 DEF Queues, Serialized, TypeOK
<1>4. Serialized'
  <2> SUFFICES ASSUME NEW e \in Calls, NEW d \in Calls, phase'[e] \in Started,
                      phase'[d] # "new", idOf[e] = idOf[d], idOf[e] # NoId, turn[d] < turn[e]
               PROVE  phase'[d] = "done"
    BY <1>1 DEF Serialized
  <2>1. CASE e = c
    BY <1>0, <1>1, <1>3, <2>1 DEF TypeOK
  <2>2. CASE e # c
    <3>1. phase[d] = "done"
      BY <1>0, <1>1, <2>2 DEF Queues, Serialized, TypeOK
    <3> QED
      BY <1>0, <1>1, <3>1 DEF TypeOK
  <2> QED
    BY <2>1, <2>2
<1> QED
  BY <1>2, <1>4 DEF Queues

LEMMA ReturnQueues ==
    ASSUME IInv, NEW c \in Calls, Return(c)
    PROVE  Queues'
<1> USE DEF Published, Finished, SameId, Started, Active
<1>0. TypeOK /\ Queues
  BY DEF IInv
<1>1. /\ phase[c] = "running" /\ phase' = [phase EXCEPT ![c] = "done"]
      /\ tail' = [i \in Ids |-> IF i = idOf[c] /\ tail[i] = c THEN None ELSE tail[i]]
      /\ UNCHANGED <<idOf, turn, made, prev>>
  BY DEF Return
<1>2. TurnsOK'
  BY <1>0, <1>1 DEF Queues, TurnsOK, TypeOK
<1>3. ASSUME NEW d \in Calls, NEW i \in Ids, tail[i] = c, idOf[c] = i, d # c,
             Published(d), ~Finished(d), idOf[d] = i
      PROVE  FALSE
  <2>1. turn[d] < turn[c]
    BY <1>0, <1>3 DEF Queues, TailOK
  <2> QED
    BY <1>0, <1>1, <1>3, <2>1, IdsAssumption DEF Queues, Serialized, TypeOK
<1>4. TailOK'
  <2> SUFFICES ASSUME NEW i \in Ids PROVE
        /\ tail'[i] # None => phase'[tail'[i]] # "new" /\ idOf[tail'[i]] = i
        /\ \A d \in Calls :
               phase'[d] # "new" /\ phase'[d] # "done" /\ idOf[d] = i =>
                   /\ tail'[i] # None
                   /\ d = tail'[i] \/ turn[d] < turn[tail'[i]]
    BY <1>1 DEF TailOK
  <2>1. CASE i = idOf[c] /\ tail[i] = c
    <3>1. tail'[i] = None
      BY <1>1, <2>1
    <3> QED
      BY <1>0, <1>1, <1>3, <2>1, <3>1 DEF TypeOK
  <2>2. CASE ~(i = idOf[c] /\ tail[i] = c)
    <3>1. tail'[i] = tail[i]
      BY <1>1, <2>2
    <3> QED
      BY <1>0, <1>1, <3>1 DEF Queues, TailOK, TypeOK
  <2> QED
    BY <2>1, <2>2
<1>5. ChainOK'
  BY <1>0, <1>1 DEF Queues, ChainOK, TypeOK
<1>6. Serialized'
  BY <1>0, <1>1 DEF Queues, Serialized, TypeOK
<1> QED
  BY <1>2, <1>4, <1>5, <1>6 DEF Queues

LEMMA NextQueues == ASSUME IInv, [Next]_vars, TypeOK' PROVE Queues'
<1>0. TypeOK
  BY DEF IInv
<1>1. CASE Subscription
  <2>1. UNCHANGED <<phase, idOf, queue>>
    BY <1>1 DEF Subscription, Subscribe, Unsubscribe
  <2> QED
    BY <1>0, <2>1, QueuesKept DEF TypeOK
<1>2. ASSUME NEW c \in Calls, Pass(c) \/ CallListener(c) \/ Handled(c) \/ Rejected(c)
      PROVE  Queues'
  <2>1. UNCHANGED <<idOf, queue>>
    BY <1>2 DEF Pass, CallListener, Handled, Rejected
  <2>2. \A d \in Calls : phase'[d] = phase[d] \/ {phase[d], phase'[d]} \subseteq Active
    BY <1>0, <1>2 DEF Pass, CallListener, Handled, Rejected, TypeOK, Active
  <2> QED
    BY <2>1, <2>2, QueuesKept DEF TypeOK
<1>3. CASE UNCHANGED vars
  BY <1>0, <1>3, QueuesKept DEF TypeOK, vars
<1> QED
  BY <1>1, <1>2, <1>3, PublishQueues, BeginQueues, ReturnQueues
     DEF Next, Step, Settles

--------------------------------------------------------------------------------
(* Deliveries                                                                  *)

(* Two calls of one id do not go through their listeners at once.              *)
LEMMA OneActive ==
    ASSUME IInv, NEW c \in Calls, NEW d \in Calls,
           phase[c] \in Active, phase[d] \in Active, SameId(c, d)
    PROVE  c = d
<1>1. TypeOK /\ TurnsOK /\ Serialized
  BY DEF IInv, Queues
<1>2. turn[c] = turn[d] \/ turn[c] < turn[d] \/ turn[d] < turn[c]
  BY <1>1 DEF TypeOK
<1>3. ~(turn[c] < turn[d]) /\ ~(turn[d] < turn[c])
  BY <1>1 DEF Serialized, SameId, Active, Started
<1> QED
  BY <1>1, <1>2, <1>3 DEF TurnsOK, Published, Active

(* A step of the kinds that reach nobody, and put nobody in reach.             *)
LEMMA DeliveredKept ==
    ASSUME IInv, [Next]_vars, \A c \in Calls : ~Handled(c)
    PROVE  UNCHANGED <<delivered, handled>>
BY DEF Next, Subscription, Subscribe, Unsubscribe, PublishReliable, Step, Begin, Pass,
       CallListener, Return, Settles, Rejected, vars

LEMMA HandledStep ==
    ASSUME IInv, NEW c \in Calls, Handled(c)
    PROVE  /\ Place(c) \in 1..Len(list[c]) /\ Next1(c) \in Listeners
           /\ idOf[c] # NoId => /\ idOf[c] \in Ids
                               /\ Next1(c) \notin delivered[idOf[c]]
                               /\ delivered' = [delivered EXCEPT ![idOf[c]] = @ \cup {Next1(c)}]
                               /\ handled' = [handled EXCEPT ![idOf[c]][Next1(c)] = @ + 1]
           /\ idOf[c] = NoId => UNCHANGED <<delivered, handled>>
           /\ \A i \in Ids : delivered[i] \subseteq delivered'[i]
<1>1. TypeOK /\ CallingOK /\ phase[c] = "calling"
  BY DEF IInv, Handled
<1>2. Place(c) \in 1..Len(list[c]) /\ Next1(c) \in Listeners
  BY <1>1 DEF CallingOK, TypeOK, Place, Next1
<1>3. idOf[c] # NoId => idOf[c] \in Ids /\ Next1(c) \notin delivered[idOf[c]]
  BY <1>1 DEF CallingOK, Reached, TypeOK
<1>4. \A i \in Ids : delivered[i] \subseteq delivered'[i]
  <2>1. CASE idOf[c] = NoId
    BY <2>1 DEF Handled
  <2>2. CASE idOf[c] # NoId
    <3>1. delivered' = [delivered EXCEPT ![idOf[c]] = @ \cup {Next1(c)}]
      BY <2>2 DEF Handled
    <3> QED
      BY <1>1, <3>1 DEF TypeOK
  <2> QED
    BY <2>1, <2>2
<1> QED
  BY <1>2, <1>3, <1>4 DEF Handled

LEMMA NextHandledOK == ASSUME IInv, [Next]_vars PROVE HandledOK'
<1>0. TypeOK /\ HandledOK
  BY DEF IInv
<1>1. ASSUME NEW c \in Calls, Handled(c)
      PROVE  HandledOK'
  <2>1. CASE idOf[c] = NoId
    BY <1>0, <1>1, <2>1, HandledStep DEF HandledOK
  <2>2. CASE idOf[c] # NoId
    <3>1. /\ idOf[c] \in Ids /\ Next1(c) \in Listeners
          /\ Next1(c) \notin delivered[idOf[c]]
          /\ delivered' = [delivered EXCEPT ![idOf[c]] = @ \cup {Next1(c)}]
          /\ handled' = [handled EXCEPT ![idOf[c]][Next1(c)] = @ + 1]
      BY <1>1, <2>2, HandledStep
    <3>2. handled[idOf[c]][Next1(c)] = 0
      BY <1>0, <3>1 DEF HandledOK
    <3> QED
      BY <1>0, <3>1, <3>2 DEF HandledOK, TypeOK
  <2> QED
    BY <2>1, <2>2
<1>2. CASE \A c \in Calls : ~Handled(c)
  BY <1>0, <1>2, DeliveredKept DEF HandledOK
<1> QED
  BY <1>1, <1>2

(* A call that a step does not move keeps what holds of its place.             *)
LEMMA CallingKept ==
    ASSUME IInv, [Next]_vars, NEW d \in Calls, phase'[d] = "calling",
           phase[d] = "calling", UNCHANGED <<list[d], outcome[d], idOf[d]>>
    PROVE  Place(d)' <= Len(list'[d]) /\ ~Reached(d)' /\ ~Repeated(d)'
<1>0. TypeOK /\ CallingOK
  BY DEF IInv
<1>1. Place(d)' = Place(d) /\ Next1(d)' = Next1(d)
  BY DEF Place, Next1
<1>2. Place(d)' <= Len(list'[d]) /\ ~Repeated(d)'
  BY <1>0, <1>1 DEF CallingOK, Repeated
<1>3. ~Reached(d)'
  <2>1. CASE \A c \in Calls : ~Handled(c)
    BY <1>0, <1>1, <2>1, DeliveredKept DEF CallingOK, Reached
  <2>2. ASSUME NEW c \in Calls, Handled(c)
        PROVE  ~Reached(d)'
    <3>1. c # d
      BY <1>0, <2>2 DEF Handled, TypeOK
    <3>2. CASE idOf[c] = NoId
      BY <1>0, <1>1, <2>2, <3>2, HandledStep DEF CallingOK, Reached
    <3>3. CASE idOf[c] # NoId
      <4>1. idOf[d] # idOf[c]
        BY <2>2, <3>1, <3>3, OneActive DEF Handled, Active, SameId
      <4>2. idOf[d] # NoId => idOf[d] \in Ids /\ delivered'[idOf[d]] = delivered[idOf[d]]
        BY <1>0, <2>2, <3>3, <4>1, HandledStep DEF TypeOK
      <4> QED
        BY <1>0, <1>1, <4>2 DEF CallingOK, Reached
    <3> QED
      BY <3>2, <3>3
  <2> QED
    BY <2>1, <2>2
<1> QED
  BY <1>2, <1>3

LEMMA NextCallingOK == ASSUME IInv, [Next]_vars PROVE CallingOK'
<1> SUFFICES ASSUME NEW d \in Calls, phase'[d] = "calling"
             PROVE  Place(d)' <= Len(list'[d]) /\ ~Reached(d)' /\ ~Repeated(d)'
  BY DEF CallingOK
<1>0. TypeOK
  BY DEF IInv
<1>1. CASE CallListener(d)
  BY <1>1 DEF CallListener, Place, Next1, Reached, Repeated
<1>2. CASE ~CallListener(d)
  <2>1. phase[d] = "calling"
    <3>1. CASE Subscription \/ UNCHANGED vars
      BY <3>1 DEF Subscription, Subscribe, Unsubscribe, vars
    <3>2. ASSUME NEW c \in Calls, NEW i \in Ids \cup {NoId}, PublishReliable(c, i)
          PROVE  phase[d] = "calling"
      BY <1>0, <3>2 DEF TypeOK, PublishReliable
    <3>3. ASSUME NEW c \in Calls, Begin(c) \/ Pass(c) \/ Return(c) \/ Handled(c) \/ Rejected(c)
          PROVE  phase[d] = "calling"
      BY <1>0, <3>3 DEF TypeOK, Begin, Pass, Return, Handled, Rejected
    <3>4. ASSUME NEW c \in Calls, CallListener(c)
          PROVE  phase[d] = "calling"
      BY <1>0, <1>2, <3>4 DEF TypeOK, CallListener
    <3> QED
      BY <3>1, <3>2, <3>3, <3>4 DEF Next, Step, Settles
  <2>2. UNCHANGED <<list[d], outcome[d], idOf[d]>>
    BY <1>0, <2>1 DEF Next, Subscription, Subscribe, Unsubscribe, PublishReliable, Step,
                      Begin, Pass, CallListener, Return, Settles, Handled, Rejected, Goes,
                      vars, TypeOK
  <2> QED
    BY <2>1, <2>2, CallingKept
<1> QED
  BY <1>1, <1>2

--------------------------------------------------------------------------------
(* Reports                                                                     *)

(* What OutcomesOK says of one call.                                           *)
Told(d) ==
    \A k \in 1..Len(outcome[d]) :
        /\ outcome[d][k] \in {"delivered", "skipped"} /\ idOf[d] # NoId
               => list[d][k] \in delivered[idOf[d]]
        /\ outcome[d][k] = "repeated" <=> \E j \in 1..(k - 1) : list[d][j] = list[d][k]

(* Who has been reached stays so, and so does what a call has told.            *)
LEMMA ToldKept ==
    ASSUME IInv, [Next]_vars, NEW d \in Calls, UNCHANGED <<list[d], outcome[d], idOf[d]>>
    PROVE  Told(d)'
<1>0. TypeOK /\ OutcomesOK
  BY DEF IInv
<1>1. \A i \in Ids : delivered[i] \subseteq delivered'[i]
  BY DeliveredKept, HandledStep
<1>2. idOf[d] # NoId => delivered[idOf[d]] \subseteq delivered'[idOf[d]]
  BY <1>0, <1>1 DEF TypeOK
<1> QED
  BY <1>0, <1>2 DEF OutcomesOK, Told

(* A call that goes on tells of one more listener.                             *)
LEMMA ToldMore ==
    ASSUME IInv, [Next]_vars, NEW d \in Calls, NEW w \in Outcomes,
           outcome'[d] = Append(outcome[d], w), UNCHANGED <<list[d], idOf[d]>>,
           w = "repeated" <=> Repeated(d),
           w \in {"delivered", "skipped"} /\ idOf[d] # NoId => Next1(d) \in delivered'[idOf[d]]
    PROVE  Told(d)'
<1>0. TypeOK /\ OutcomesOK
  BY DEF IInv
<1>1. \A i \in Ids : delivered[i] \subseteq delivered'[i]
  BY DeliveredKept, HandledStep
<1>2. idOf[d] # NoId => delivered[idOf[d]] \subseteq delivered'[idOf[d]]
  BY <1>0, <1>1 DEF TypeOK
<1>3. outcome[d] \in Seq(Outcomes) /\ Len(outcome[d]) \in Nat
  BY <1>0 DEF TypeOK
<1>4. /\ Len(outcome'[d]) = Len(outcome[d]) + 1
      /\ outcome'[d][Len(outcome[d]) + 1] = w
      /\ \A k \in 1..Len(outcome[d]) : outcome'[d][k] = outcome[d][k]
  BY <1>3, AppendKeeps
<1> SUFFICES ASSUME NEW k \in 1..(Len(outcome[d]) + 1)
             PROVE  /\ outcome'[d][k] \in {"delivered", "skipped"} /\ idOf[d] # NoId
                           => list[d][k] \in delivered'[idOf[d]]
                    /\ outcome'[d][k] = "repeated" <=>
                           \E j \in 1..(k - 1) : list[d][j] = list[d][k]
  BY <1>4 DEF Told
<1>5. CASE k \in 1..Len(outcome[d])
  BY <1>0, <1>2, <1>4, <1>5 DEF OutcomesOK
<1>6. CASE k = Len(outcome[d]) + 1
  <2>1. list[d][k] = Next1(d) /\ 1..(k - 1) = 1..Len(outcome[d])
    BY <1>3, <1>6 DEF Next1, Place
  <2> QED
    BY <1>4, <1>6, <2>1 DEF Repeated
<1> QED
  BY <1>3, <1>5, <1>6

LEMMA NextTold == ASSUME IInv, [Next]_vars, NEW d \in Calls PROVE Told(d)'
<1>0. TypeOK /\ OutcomesOK /\ CallingOK
  BY DEF IInv
<1>1. CASE Pass(d)
  <2>1. outcome'[d] = Append(outcome[d], IF Repeated(d) THEN "repeated" ELSE "skipped")
    BY <1>0, <1>1 DEF Pass, Goes, TypeOK
  <2>2. /\ UNCHANGED <<list[d], idOf[d], delivered>>
        /\ ~Repeated(d) => Reached(d)
    BY <1>1 DEF Pass
  <2>3. CASE Repeated(d)
    BY <2>1, <2>2, <2>3, ToldMore DEF Outcomes
  <2>4. CASE ~Repeated(d)
    BY <2>1, <2>2, <2>4, ToldMore DEF Outcomes, Reached
  <2> QED
    BY <2>3, <2>4
<1>2. CASE Handled(d)
  <2>1. outcome'[d] = Append(outcome[d], "delivered") /\ UNCHANGED <<list[d], idOf[d]>>
    BY <1>0, <1>2 DEF Handled, Goes, TypeOK
  <2>2. idOf[d] # NoId => Next1(d) \in delivered'[idOf[d]]
    BY <1>0, <1>2, HandledStep DEF TypeOK
  <2>3. ~Repeated(d)
    BY <1>0, <1>2 DEF Handled, CallingOK
  <2> QED
    BY <2>1, <2>2, <2>3, ToldMore DEF Outcomes
<1>3. CASE Rejected(d) /\ ~(attempt[d] < Attempts)
  <2>1. outcome'[d] = Append(outcome[d], "failed") /\ UNCHANGED <<list[d], idOf[d]>>
    BY <1>0, <1>3 DEF Rejected, Goes, TypeOK
  <2>2. ~Repeated(d)
    BY <1>0, <1>3 DEF Rejected, CallingOK
  <2> QED
    BY <2>1, <2>2, ToldMore DEF Outcomes
<1>4. CASE (\E i \in Ids \cup {NoId} : PublishReliable(d, i)) \/ Begin(d)
  <2>1. outcome'[d] = <<>>
    BY <1>0, <1>4 DEF PublishReliable, Begin, OutcomesOK
  <2> QED
    BY <2>1 DEF Told
<1>5. CASE ~Pass(d) /\ ~Handled(d) /\ ~(Rejected(d) /\ ~(attempt[d] < Attempts))
           /\ ~(\E i \in Ids \cup {NoId} : PublishReliable(d, i)) /\ ~Begin(d)
  <2>1. UNCHANGED <<list[d], outcome[d], idOf[d]>>
    <3>1. CASE Subscription \/ UNCHANGED vars
      BY <3>1 DEF Subscription, Subscribe, Unsubscribe, vars
    <3>2. ASSUME NEW c \in Calls, c # d,
                 (\E i \in Ids \cup {NoId} : PublishReliable(c, i)) \/ Step(c) \/ Settles(c)
          PROVE  UNCHANGED <<list[d], outcome[d], idOf[d]>>
      BY <1>0, <3>2 DEF TypeOK, PublishReliable, Step, Begin, Pass, CallListener, Return,
                        Settles, Handled, Rejected, Goes
    <3>3. CASE CallListener(d) \/ Return(d) \/ Rejected(d)
      BY <1>5, <3>3 DEF CallListener, Return, Rejected
    <3> QED
      BY <1>5, <3>1, <3>2, <3>3 DEF Next, Step, Settles
  <2> QED
    BY <2>1, ToldKept
<1> QED
  BY <1>1, <1>2, <1>3, <1>4, <1>5

LEMMA NextOutcomesOK == ASSUME IInv, [Next]_vars PROVE OutcomesOK'
<1> SUFFICES ASSUME NEW d \in Calls
             PROVE  /\ phase'[d] \in {"new", "waiting"} => outcome'[d] = <<>>
                    /\ Told(d)'
                    /\ phase'[d] = "done" => Len(outcome'[d]) = Len(list'[d])
  BY DEF OutcomesOK, Told
<1>0. TypeOK /\ OutcomesOK
  BY DEF IInv
<1>1. CASE Subscription \/ UNCHANGED vars
  BY <1>0, <1>1, NextTold DEF Subscription, Subscribe, Unsubscribe, vars, OutcomesOK
<1>2. ASSUME NEW c \in Calls, NEW i \in Ids \cup {NoId}, PublishReliable(c, i)
      PROVE  /\ phase'[d] \in {"new", "waiting"} => outcome'[d] = <<>>
             /\ phase'[d] = "done" => Len(outcome'[d]) = Len(list'[d])
  BY <1>0, <1>2 DEF PublishReliable, TypeOK, OutcomesOK
<1>3. ASSUME NEW c \in Calls, Step(c) \/ Settles(c)
      PROVE  /\ phase'[d] \in {"new", "waiting"} => outcome'[d] = <<>>
             /\ phase'[d] = "done" => Len(outcome'[d]) = Len(list'[d])
  <2>1. CASE Return(c)
    <3>1. Len(outcome[c]) = Len(list[c])
      BY <1>0, <2>1 DEF Return, Place, TypeOK
    <3> QED
      BY <1>0, <2>1, <3>1 DEF Return, TypeOK, OutcomesOK
  <2>2. CASE ~Return(c)
    BY <1>0, <1>3, <2>2 DEF TypeOK, OutcomesOK, Step, Settles, Begin, Pass, CallListener,
                            Handled, Rejected, Goes
  <2> QED
    BY <2>1, <2>2
<1> QED
  BY <1>1, <1>2, <1>3, NextTold DEF Next

--------------------------------------------------------------------------------
(* Theorems                                                                    *)

LEMMA NextIInv == IInv /\ [Next]_vars => IInv'
BY NextTypeOK, NextQueues, NextHandledOK, NextCallingOK, NextOutcomesOK DEF IInv

THEOREM Invariance == Spec => []IInv
<1> QED
  BY InitIInv, NextIInv, PTL DEF Spec

(* The variables keep their types.                                             *)
THEOREM TypeCorrect == Spec => []TypeOK
<1>1. IInv => TypeOK
  BY DEF IInv
<1> QED
  BY <1>1, Invariance, PTL

(* No listener handles two events of one delivery id, for any number of calls, *)
(* whatever the order in which they wait, run, fail and are repeated.          *)
THEOREM HandledOnceThm == Spec => []HandledOnce
<1>1. IInv => HandledOnce
  BY DEF IInv, HandledOK, HandledOnce
<1> QED
  BY <1>1, Invariance, PTL

(* The calls of one delivery id run one after the other, in the order in which *)
(* they were made.                                                             *)
THEOREM SerializedThm == Spec => []Serialized
<1>1. IInv => Serialized
  BY DEF IInv, Queues
<1> QED
  BY <1>1, Invariance, PTL

(* What a delivery id promises holds of every call made with it.               *)
THEOREM OncePerIdThm == Spec => []OncePerId
<1>1. HandledOnce /\ Serialized => OncePerId
  BY DEF OncePerId
<1> QED
  BY <1>1, HandledOnceThm, SerializedThm, PTL

(* A report accounts for every listener, and for each one once.                *)
THEOREM ReportCompleteThm == Spec => []ReportComplete
<1>1. IInv => ReportComplete
  <2> SUFFICES ASSUME IInv, NEW c \in Calls, phase[c] = "done"
               PROVE  /\ Len(outcome[c]) = Len(list[c])
                      /\ \A k \in DOMAIN outcome[c] :
                             /\ outcome[c][k] \in {"delivered", "skipped"} /\ idOf[c] # NoId
                                    => list[c][k] \in delivered[idOf[c]]
                             /\ outcome[c][k] = "repeated" <=>
                                    \E j \in 1..(k - 1) : list[c][j] = list[c][k]
    BY DEF ReportComplete
  <2>1. DOMAIN outcome[c] = 1..Len(outcome[c])
    BY DEF IInv, TypeOK
  <2> QED
    BY <2>1 DEF IInv, OutcomesOK
<1> QED
  BY <1>1, Invariance, PTL

================================================================================
