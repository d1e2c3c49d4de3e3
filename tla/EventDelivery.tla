----------------------------- MODULE EventDelivery -----------------------------
(* Reliable publication on the event bus (bin/games/shared/eventBus.ts).  A call *)
(* of publishReliable() calls the listeners of the event one after the other,    *)
(* each again until it succeeds or its attempts are used up.  Under a delivery   *)
(* id the bus remembers who has been reached, so that a later call with the same *)
(* id reaches only the others, and the calls of one id wait for each other.      *)
(*                                                                               *)
(* One type of event: subs.typed and subs.wildcard are the listeners that        *)
(* getListeners joins.  A promise of reliableQueues is named by the call that    *)
(* made it: it is resolved when that call is done.  The code runs from one await *)
(* to the next without interruption, which is one step here, except that the     *)
(* loop over the listeners takes one step for each: nothing but the loop reads   *)
(* or writes what it works on.  publish(), which keeps nothing, is left out.     *)
EXTENDS Naturals, SequencesExt

CONSTANTS
    Listeners,
    Calls,          \* calls of publishReliable
    Ids,            \* delivery ids
    NoId,           \* an event has no delivery id
    None,
    Attempts,       \* retries + 1
    Hanging,        \* listeners that may never settle
    MaxListed       \* bound on the subscriptions of one kind

ASSUME IdsAssumption == NoId \notin Ids /\ None \notin Calls
ASSUME BoundsAssumption == Attempts \in Nat \ {0} /\ MaxListed \in Nat

VARIABLES
    subs,           \* the listeners of the type, and those of all types
    phase,          \* phase[c]: where call c has got to
    idOf,           \* the delivery id of its event
    turn,           \* when it was made, among all calls
    made,           \* calls made so far
    prev,           \* the call whose promise it awaits
    tail,           \* tail[i]: reliableQueues, whose promise is the last
    list,           \* list[c]: the listeners it goes through
    outcome,        \* what came of the first of them
    attempt,        \* the attempt at the next one
    delivered,      \* delivered[i]: deliveredByKey
    handled         \* handled[i][l]: how often l has handled an event of id i

queue == <<turn, made, prev, tail>>
vars == <<subs, phase, idOf, queue, list, outcome, attempt, delivered, handled>>

Active == {"running", "calling"}
Started == Active \cup {"done"}
Phases == {"new", "waiting"} \cup Started
Outcomes == {"delivered", "skipped", "failed", "repeated"}

TypeOK ==
    /\ subs \in [{"typed", "wildcard"} -> Seq(Listeners)]
    /\ phase \in [Calls -> Phases]
    /\ idOf \in [Calls -> Ids \cup {NoId}]
    /\ turn \in [Calls -> Nat] /\ made \in Nat
    /\ prev \in [Calls -> Calls \cup {None}]
    /\ tail \in [Ids -> Calls \cup {None}]
    /\ list \in [Calls -> Seq(Listeners)]
    /\ outcome \in [Calls -> Seq(Outcomes)]
    /\ attempt \in [Calls -> 1..Attempts]
    /\ delivered \in [Ids -> SUBSET Listeners]
    /\ handled \in [Ids -> [Listeners -> Nat]]
    /\ \A c \in Calls : Len(outcome[c]) <= Len(list[c])

Init ==
    /\ subs = [k \in {"typed", "wildcard"} |-> <<>>]
    /\ phase = [c \in Calls |-> "new"]
    /\ idOf = [c \in Calls |-> NoId]
    /\ turn = [c \in Calls |-> 0] /\ made = 0
    /\ prev = [c \in Calls |-> None]
    /\ tail = [i \in Ids |-> None]
    /\ list = [c \in Calls |-> <<>>]
    /\ outcome = [c \in Calls |-> <<>>]
    /\ attempt = [c \in Calls |-> 1]
    /\ delivered = [i \in Ids |-> {}]
    /\ handled = [i \in Ids |-> [l \in Listeners |-> 0]]

--------------------------------------------------------------------------------
(* Subscriptions, which may change at any moment                                 *)

Subscribe(kind, l) ==
    /\ Len(subs[kind]) < MaxListed
    /\ subs' = [subs EXCEPT ![kind] = Append(@, l)]
    /\ UNCHANGED <<phase, idOf, queue, list, outcome, attempt, delivered, handled>>

(* The first of its subscriptions goes.                                          *)
Unsubscribe(kind, l) ==
    /\ \E n \in DOMAIN subs[kind] :
           /\ subs[kind][n] = l /\ \A k \in 1..(n - 1) : subs[kind][k] # l
           /\ subs' = [subs EXCEPT ![kind] = RemoveAt(@, n)]
    /\ UNCHANGED <<phase, idOf, queue, list, outcome, attempt, delivered, handled>>

--------------------------------------------------------------------------------
(* Where a call has got to                                                       *)

Place(c) == Len(outcome[c]) + 1
Next1(c) == list[c][Place(c)]
Repeated(c) == \E k \in 1..Len(outcome[c]) : list[c][k] = Next1(c)
Reached(c) == idOf[c] # NoId /\ Next1(c) \in delivered[idOf[c]]

Goes(c, what) == outcome' = [outcome EXCEPT ![c] = Append(@, what)]

--------------------------------------------------------------------------------
(* Slips of the code, for the runs that show each property can fail              *)

ReleasedLate(c) == prev[c] = None

ReturnForgets(c) ==
    /\ phase[c] = "running"
    /\ Place(c) > Len(list[c])
    /\ phase' = [phase EXCEPT ![c] = "done"]
    /\ tail' = [i \in Ids |-> IF i = idOf[c] THEN None ELSE tail[i]]
    /\ UNCHANGED <<subs, idOf, turn, made, prev, list, outcome, attempt, delivered, handled>>

(* A failure ends the call.                                                      *)
RejectedStops(c) ==
    /\ phase[c] = "calling"
    /\ IF attempt[c] < Attempts
       THEN /\ attempt' = [attempt EXCEPT ![c] = @ + 1]
            /\ phase' = [phase EXCEPT ![c] = "running"] /\ UNCHANGED outcome
       ELSE /\ attempt' = [attempt EXCEPT ![c] = 1]
            /\ phase' = [phase EXCEPT ![c] = "done"] /\ Goes(c, "failed")
    /\ UNCHANGED <<subs, idOf, queue, list, delivered, handled>>

(* One attempt too many.                                                         *)
RejectedOnceMore(c) ==
    /\ phase[c] = "calling"
    /\ phase' = [phase EXCEPT ![c] = "running"]
    /\ IF attempt[c] <= Attempts
       THEN attempt' = [attempt EXCEPT ![c] = @ + 1] /\ UNCHANGED outcome
       ELSE attempt' = [attempt EXCEPT ![c] = 1] /\ Goes(c, "failed")
    /\ UNCHANGED <<subs, idOf, queue, list, delivered, handled>>

--------------------------------------------------------------------------------
(* publishReliable                                                               *)

GetListeners == subs["typed"] \o subs["wildcard"]

(* It runs at once if its event has no delivery id, and awaits the tail of its   *)
(* id otherwise.                                                                 *)
PublishReliable(c, i) ==
    /\ phase[c] = "new"
    /\ idOf' = [idOf EXCEPT ![c] = i]
    /\ turn' = [turn EXCEPT ![c] = made] /\ made' = made + 1
    /\ IF i = NoId
       THEN /\ phase' = [phase EXCEPT ![c] = "running"]
            /\ list' = [list EXCEPT ![c] = GetListeners]
            /\ UNCHANGED <<prev, tail>>
       ELSE /\ phase' = [phase EXCEPT ![c] = "waiting"]
            /\ prev' = [prev EXCEPT ![c] = tail[i]]
            /\ tail' = [tail EXCEPT ![i] = c]
            /\ UNCHANGED list
    /\ UNCHANGED <<subs, outcome, attempt, delivered, handled>>

Released(c) == prev[c] # None => phase[prev[c]] = "done"

(* publishReliableOnce takes its listeners when the call has its turn.           *)
Begin(c) ==
    /\ phase[c] = "waiting"
    /\ Released(c)
    /\ phase' = [phase EXCEPT ![c] = "running"]
    /\ list' = [list EXCEPT ![c] = GetListeners]
    /\ UNCHANGED <<subs, idOf, queue, outcome, attempt, delivered, handled>>

(* A listener listed twice counts once; one that was reached is skipped.         *)
Pass(c) ==
    /\ phase[c] = "running"
    /\ Place(c) <= Len(list[c])
    /\ Repeated(c) \/ Reached(c)
    /\ Goes(c, IF Repeated(c) THEN "repeated" ELSE "skipped")
    /\ UNCHANGED <<subs, phase, idOf, queue, list, attempt, delivered, handled>>

CallListener(c) ==
    /\ phase[c] = "running"
    /\ Place(c) <= Len(list[c])
    /\ ~Repeated(c) /\ ~Reached(c)
    /\ phase' = [phase EXCEPT ![c] = "calling"]
    /\ UNCHANGED <<subs, idOf, queue, list, outcome, attempt, delivered, handled>>

Handled(c) ==
    /\ phase[c] = "calling"
    /\ phase' = [phase EXCEPT ![c] = "running"]
    /\ attempt' = [attempt EXCEPT ![c] = 1]
    /\ Goes(c, "delivered")
    /\ IF idOf[c] = NoId
       THEN UNCHANGED <<delivered, handled>>
       ELSE /\ delivered' = [delivered EXCEPT ![idOf[c]] = @ \cup {Next1(c)}]
            /\ handled' = [handled EXCEPT ![idOf[c]][Next1(c)] = @ + 1]
    /\ UNCHANGED <<subs, idOf, queue, list>>

(* The listener throws: it is called again, or given up for this call.           *)
Rejected(c) ==
    /\ phase[c] = "calling"
    /\ phase' = [phase EXCEPT ![c] = "running"]
    /\ IF attempt[c] < Attempts
       THEN attempt' = [attempt EXCEPT ![c] = @ + 1] /\ UNCHANGED outcome
       ELSE attempt' = [attempt EXCEPT ![c] = 1] /\ Goes(c, "failed")
    /\ UNCHANGED <<subs, idOf, queue, list, delivered, handled>>

(* The report is returned and the next call of the id released; the map forgets  *)
(* the promise if no call was made meanwhile.                                    *)
Return(c) ==
    /\ phase[c] = "running"
    /\ Place(c) > Len(list[c])
    /\ phase' = [phase EXCEPT ![c] = "done"]
    /\ tail' = [i \in Ids |-> IF i = idOf[c] /\ tail[i] = c THEN None ELSE tail[i]]
    /\ UNCHANGED <<subs, idOf, turn, made, prev, list, outcome, attempt, delivered, handled>>

--------------------------------------------------------------------------------

Subscription ==
    \E kind \in {"typed", "wildcard"}, l \in Listeners :
        Subscribe(kind, l) \/ Unsubscribe(kind, l)

Step(c) == Begin(c) \/ Pass(c) \/ CallListener(c) \/ Return(c)

Settles(c) == Handled(c) \/ Rejected(c)

Next ==
    \/ Subscription
    \/ \E c \in Calls :
           (\E i \in Ids \cup {NoId} : PublishReliable(c, i)) \/ Step(c) \/ Settles(c)

(* Promises that can go on do; listeners that do not hang settle.  Nobody has to *)
(* subscribe or to publish.                                                      *)
Fairness ==
    \A c \in Calls :
        /\ WF_vars(Step(c))
        /\ WF_vars(phase[c] = "calling" /\ Next1(c) \notin Hanging /\ Settles(c))

Spec == Init /\ [][Next]_vars /\ Fairness

--------------------------------------------------------------------------------
(* Properties                                                                    *)

(* No listener handles two events of one delivery id, whatever calls are made    *)
(* with it, one after the other or while others wait, run or are repeated.       *)
HandledOnce == \A i \in Ids, l \in Listeners : handled[i][l] <= 1

(* A call of a delivery id starts only after all earlier calls of that id have   *)
(* returned, also when the map has forgotten the promise of the last one.        *)
Serialized ==
    \A c, d \in Calls :
        /\ phase[c] \in Started /\ phase[d] # "new"
        /\ idOf[c] = idOf[d] /\ idOf[c] # NoId
        /\ turn[d] < turn[c]
        => phase[d] = "done"

(* What a delivery id promises: one call after the other, and each event once.   *)
OncePerId == Serialized /\ HandledOnce

(* One that fails does not keep the event from the others: when a call returns,  *)
(* each of its listeners has been reached under the id, or has just failed, and  *)
(* is reported once.                                                             *)
ReportComplete ==
    \A c \in Calls : phase[c] = "done" =>
        /\ Len(outcome[c]) = Len(list[c])
        /\ \A k \in DOMAIN outcome[c] :
               /\ outcome[c][k] \in {"delivered", "skipped"} /\ idOf[c] # NoId
                      => list[c][k] \in delivered[idOf[c]]
               /\ outcome[c][k] = "repeated" <=>
                      \E j \in 1..(k - 1) : list[c][j] = list[c][k]

(* A call returns, or is kept for ever by a listener that does not settle, in    *)
(* the call itself or in an earlier one of the same id.                          *)
KeptByHanging(c) ==
    \E d \in Calls :
        /\ phase[d] = "calling" /\ Next1(d) \in Hanging
        /\ d = c \/ (idOf[d] = idOf[c] /\ idOf[c] # NoId)

PublishEnds ==
    \A c \in Calls : (phase[c] # "new") ~> (phase[c] = "done" \/ KeptByHanging(c))

================================================================================
