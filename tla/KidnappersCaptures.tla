--------------------------- MODULE KidnappersCaptures ---------------------------
(* What the capture service (kidnappersGameCaptureService.ts) does to the players *)
(* of a KidnappersGame: whoever is captured is marked with an effect and bound,   *)
(* each escape that fails binds them harder, and whoever is released, or held     *)
(* when the game is over, is freed.                                               *)
(*                                                                                *)
(* This is done after the command has been recorded, by a chain of awaited calls  *)
(* of the mutation service (gameStateMutationService.ts), outside the queue of    *)
(* the session: chains of several commands go on beside each other, and beside    *)
(* the commands that follow.  A call is tried again when it rejects, though it    *)
(* may have had its effect, and in the end is given up with the rest of its chain.*)
(* A chain may never begin, and a restart forgets those under way.                *)
EXTENDS KidnappersGame

CONSTANT Slots      \* bound on the chains under way for one player

VARIABLES
    chain,          \* of each player: the call that comes next, and its restraints
    bonds,          \* dare.activeBondage: the restraints of the game, by level
    mark,           \* the effect kidnappers:capture of this session
    upset           \* history: the players for whom a chain failed, was lost, or was overtaken

service == <<chain, bonds, mark, upset>>
allVars == <<vars, service>>

Levels == 1..MaxRestraint
Chains == [next : {"mark", "bind", "read", "remove", "unmark"}, items : SUBSET Levels]

ASSUME ChainsAssumption == None \notin Chains

ServiceTypeOK ==
    /\ TypeOK
    /\ chain \in [Members -> [Slots -> Chains \cup {None}]]
    /\ bonds \in [Members -> SUBSET Levels]
    /\ mark \in [Members -> {"never", "active", "cancelled"}]
    /\ upset \subseteq Members

ServiceInit ==
    /\ Init
    /\ chain = [m \in Members |-> [s \in Slots |-> None]]
    /\ bonds = [m \in Members |-> {}]
    /\ mark = [m \in Members |-> "never"]
    /\ upset = {}

Underway(m) == {s \in Slots : chain[m][s] # None}
Binding(m) == \E s \in Underway(m) : chain[m][s].next \in {"mark", "bind"}
Freeing(m) == \E s \in Underway(m) : chain[m][s].next \in {"read", "remove", "unmark"}

--------------------------------------------------------------------------------
(* What a command that has been recorded asks for                                 *)

Caught(m) == ~Captive(m) /\ Captive(m)'
Tightened(m) == Captive(m) /\ Captive(m)' /\ prog'[m].attempts # prog[m].attempts
Released(m) == (Captive(m) /\ ~Captive(m)') \/ (Terminal' /\ ~Terminal /\ prog[m] # None)

Asking == {m \in Members : Caught(m) \/ Tightened(m) \/ Released(m)}

(* applyCaptureEffect, applyRestraint and release                                 *)
FirstCallByLevel(m) ==      \* a slip: takes off what the game knows of last
    IF Released(m) THEN [next |-> "remove", items |-> {prog[m].level}]
    ELSE [next |-> IF Caught(m) THEN "mark" ELSE "bind", items |-> {prog'[m].level}]
FirstCall(m) ==
    IF Released(m) THEN [next |-> "read", items |-> {}]
    ELSE [next |-> IF Caught(m) THEN "mark" ELSE "bind", items |-> {prog'[m].level}]

Overtaking(m) == IF Released(m) THEN Binding(m) ELSE Freeing(m)

FreeSlot(m) == CHOOSE s \in Slots : chain[m][s] = None

Serve ==
    /\ \A m \in Asking : Underway(m) # Slots
    /\ chain' = [m \in Members |-> IF m \in Asking
                                   THEN [chain[m] EXCEPT ![FreeSlot(m)] = FirstCall(m)]
                                   ELSE chain[m]]
    /\ upset' = (upset \ {m \in Asking : Underway(m) = {} /\ ~Tightened(m)})
                    \cup {m \in Asking : Overtaking(m)}

(* The command was recorded, but its answer lost; or the service did not see, when *)
(* the command began to wait for its turn, the capture that it would cut short    *)
(* (pendingCapture); or the session was closed past the service                   *)
(* (closePersistedSession).                                                       *)
Unserved == UNCHANGED chain /\ upset' = upset \cup Asking

Recorded ==
    /\ Command /\ Valid'
    /\ \/ prog' = prog /\ UNCHANGED <<chain, upset>>
       \/ prog' # prog /\ (Serve \/ Unserved)
    /\ UNCHANGED <<bonds, mark>>

--------------------------------------------------------------------------------
(* The calls of the mutation service                                              *)

Comes(m, s, call) == chain[m][s] # None /\ chain[m][s].next = call
GoesOn(m, s, call, items) == chain' = [chain EXCEPT ![m][s] = [next |-> call, items |-> items]]
Ends(m, s) == chain' = [chain EXCEPT ![m][s] = None]

(* The key of the effect is that of session and player, and is used once, though  *)
(* the effect be cancelled: no second capture is marked.                          *)
Marks(m) == mark' = [mark EXCEPT ![m] = IF @ = "never" THEN "active" ELSE @]
Unmarks(m) == mark' = [mark EXCEPT ![m] = IF @ = "active" THEN "cancelled" ELSE @]

ApplyEffect(m, s) ==
    /\ Comes(m, s, "mark")
    /\ Marks(m) /\ GoesOn(m, s, "bind", chain[m][s].items)
    /\ UNCHANGED <<bonds, upset>>

ApplyBondage(m, s) ==
    /\ Comes(m, s, "bind")
    /\ bonds' = [bonds EXCEPT ![m] = @ \cup chain[m][s].items]
    /\ Ends(m, s)
    /\ UNCHANGED <<mark, upset>>

(* removeBondage takes off, one by one, what it found at first.                   *)
ReadBondage(m, s) ==
    /\ Comes(m, s, "read")
    /\ GoesOn(m, s, "remove", bonds[m])
    /\ UNCHANGED <<bonds, mark, upset>>

RemoveItem(m, s) ==
    /\ Comes(m, s, "remove")
    /\ \E i \in chain[m][s].items :
           /\ bonds' = [bonds EXCEPT ![m] = @ \ {i}]
           /\ GoesOn(m, s, "remove", chain[m][s].items \ {i})
    /\ UNCHANGED <<mark, upset>>

Removed(m, s) ==
    /\ Comes(m, s, "remove") /\ chain[m][s].items = {}
    /\ GoesOn(m, s, "unmark", {})
    /\ UNCHANGED <<bonds, mark, upset>>

CancelEffect(m, s) ==
    /\ Comes(m, s, "unmark")
    /\ Unmarks(m) /\ Ends(m, s)
    /\ UNCHANGED <<bonds, upset>>

(* withRetry, after a call that rejected though it had its effect; removeBondage  *)
(* begins anew.                                                                   *)
Retry(m, s) ==
    /\ \/ Comes(m, s, "mark") /\ Marks(m) /\ UNCHANGED <<chain, bonds>>
       \/ /\ Comes(m, s, "bind")
          /\ bonds' = [bonds EXCEPT ![m] = @ \cup chain[m][s].items]
          /\ UNCHANGED <<chain, mark>>
       \/ Comes(m, s, "remove") /\ GoesOn(m, s, "read", {}) /\ UNCHANGED <<bonds, mark>>
       \/ Comes(m, s, "unmark") /\ Unmarks(m) /\ UNCHANGED <<chain, bonds>>
    /\ UNCHANGED upset

GiveUp(m, s) ==
    /\ chain[m][s] # None
    /\ Ends(m, s) /\ upset' = upset \cup {m}
    /\ UNCHANGED <<bonds, mark>>

Crash ==
    /\ \E m \in Members : Underway(m) # {}
    /\ chain' = [m \in Members |-> [s \in Slots |-> None]]
    /\ upset' = upset \cup {m \in Members : Underway(m) # {}}
    /\ UNCHANGED <<bonds, mark>>

Call(m, s) ==
    \/ ApplyEffect(m, s) \/ ApplyBondage(m, s)
    \/ ReadBondage(m, s) \/ RemoveItem(m, s) \/ Removed(m, s) \/ CancelEffect(m, s)
    \/ Retry(m, s) \/ GiveUp(m, s)

ServiceNext ==
    \/ Recorded
    \/ TimeGoesBy /\ UNCHANGED service
    \/ (\E m \in Members, s \in Slots : Call(m, s)) /\ UNCHANGED vars
    \/ Crash /\ UNCHANGED vars

ServiceSpec == ServiceInit /\ [][ServiceNext]_allVars

--------------------------------------------------------------------------------
(* Properties                                                                     *)

(* Once the calls of the capture service for a player have come to an end, the    *)
(* player is bound if and only if the game holds them, and marked only then, and  *)
(* a captive has been marked before: retries, calls of other players and the      *)
(* escapes that tighten bonds, in whatever order, do no harm.  A player for whom  *)
(* a chain was given up, lost, or overtaken by that of a later command is         *)
(* exempted, but only up to the next capture or release that goes undisturbed:    *)
(* this puts right whatever was left behind.                                      *)
BoundAreCaptured ==
    \A m \in Members \ upset : Underway(m) = {} =>
        /\ bonds[m] # {} <=> Captive(m)
        /\ mark[m] = "active" => Captive(m)
        /\ Captive(m) => mark[m] # "never"

================================================================================
