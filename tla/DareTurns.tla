-------------------------------- MODULE DareTurns --------------------------------
(* The turns of one dare game (bin/games/dare.ts, bin/games/dare/gameManager.ts, *)
(* bin/games/dare/turnTimerManager.ts): players draw dares in turn, pass, or     *)
(* forfeit, an auto-pass timer ends the turn of who does not respond, players    *)
(* leave the room and return within a grace period or are purged, and a restart  *)
(* resumes the game from the last snapshot that was stored.                      *)
(*                                                                               *)
(* A handler runs up to its next await in one step; what removing a player or    *)
(* ending a turn sets off runs in that step to its end.  The games share neither *)
(* players nor turns: the model has one.  The effects of the dares, the binds    *)
(* that decide the winner, and the reminder, which only sends a message, are     *)
(* left out.                                                                     *)
EXTENDS Naturals, SequencesExt

CONSTANTS
    Roster,         \* the players in the turn order that was drawn
    TotalRounds,
    MaxEnding,      \* bound on the awaiting handlers of one player
    MaxRestarts     \* bound on restarts

Players == Range(Roster)

ASSUME RosterAssumption ==
    Roster \in Seq(Players) /\ IsInjective(Roster) /\ Len(Roster) >= 2
ASSUME BoundsAssumption ==
    TotalRounds \in Nat \ {0} /\ MaxEnding \in Nat \ {0} /\ MaxRestarts \in Nat

VARIABLES
    dare,           \* the game, its timers and what is kept for each player:
                    \*   on: the game is running;  order, cur, round: its turns;
                    \*   autoPass, bondage, grace: whose auto-pass, bondage
                    \*     decision and disconnect-grace timers are armed;
                    \*   pending: pendingDraws;  passed: who has passed before;
                    \*   away: disconnectedAt
    starting,       \* the start command has not begun the first turn yet
    present,        \* the players in the room
    drawing,        \* the players whose draw takes its two seconds
    ending,         \* ending[p]: the awaiting handlers that will finish p's turn
    saved,          \* the stored snapshot
    restarts

handlers == <<drawing, ending>>
vars == <<dare, starting, present, handlers, saved, restarts>>

Table == [on : BOOLEAN, order : BoundedSeq(Players, Len(Roster)),
          cur : 1..Len(Roster), round : 1..TotalRounds,
          autoPass : SUBSET Players, bondage : SUBSET Players, grace : SUBSET Players,
          pending : SUBSET Players, passed : SUBSET Players, away : SUBSET Players]

(* A running game has two players at least, each once, and one whose turn it is. *)
TypeOK ==
    /\ dare \in Table /\ saved \in Table
    /\ IsInjective(dare.order)
    /\ dare.on => Len(dare.order) >= 2 /\ dare.cur <= Len(dare.order)
    /\ starting \in BOOLEAN /\ present \subseteq Players
    /\ drawing \subseteq Players /\ ending \in [Players -> 0..MaxEnding]
    /\ restarts \in 0..MaxRestarts

NoGame == [on |-> FALSE, order |-> <<>>, cur |-> 1, round |-> 1,
           autoPass |-> {}, bondage |-> {}, grace |-> {},
           pending |-> {}, passed |-> {}, away |-> {}]

(* The lobby's players are in a new game, of which nothing is stored yet.        *)
Init ==
    /\ dare = [NoGame EXCEPT !.on = TRUE, !.order = Roster]
    /\ starting = TRUE
    /\ present = Players
    /\ drawing = {} /\ ending = [p \in Players |-> 0]
    /\ saved = NoGame
    /\ restarts = 0

--------------------------------------------------------------------------------
(* What the synchronous code makes of a table d                                  *)

InGame(d, p) == p \in Range(d.order)
HasTurn(d, p) == d.on /\ p = d.order[d.cur]

(* Slips of the code, for the runs that show each property can fail.             *)
IndexKept(d, m) ==
    LET i == CHOOSE j \in DOMAIN d.order : d.order[j] = m
    IN  [d EXCEPT !.order = RemoveAt(d.order, i),
                  !.cur = IF i = @ /\ i = Len(d.order) THEN 1 ELSE @]
PendingKept(d, m) ==
    [d EXCEPT !.pending = @ \ {m}, !.passed = @ \ {m}, !.autoPass = @ \ {m}]
RoundKept(d) == IF d.cur < Len(d.order) THEN [d EXCEPT !.cur = @ + 1] ELSE [d EXCEPT !.cur = 1]
NotRearmed(d) == {}

(* GameManager.removePlayer: the next player moves up into the place of the      *)
(* current one, and the first does behind the last.                              *)
Without(d, m) ==
    LET i    == CHOOSE j \in DOMAIN d.order : d.order[j] = m
        rest == RemoveAt(d.order, i)
    IN  [d EXCEPT !.order = rest,
                  !.cur = CASE i < d.cur -> d.cur - 1
                            [] i = d.cur /\ i > Len(rest) -> 1
                            [] OTHER -> d.cur]

(* cleanupMemberBookkeeping                                                      *)
Forgotten(d, m) ==
    [d EXCEPT !.pending = @ \ {m}, !.passed = @ \ {m},
              !.autoPass = @ \ {m}, !.bondage = @ \ {m}]

(* resetGameState; timers left to the players of a game that is gone do nothing. *)
Over(d) ==
    LET R == Range(d.order)
    IN  [d EXCEPT !.on = FALSE, !.order = <<>>, !.cur = 1, !.round = 1, !.autoPass = {},
                  !.pending = @ \ R, !.passed = @ \ R, !.bondage = @ \ R]

(* GameManager.advanceTurn, by which the round may become TotalRounds + 1.       *)
Moved(d) ==
    IF d.cur < Len(d.order)
    THEN [d EXCEPT !.cur = @ + 1]
    ELSE [d EXCEPT !.cur = 1, !.round = @ + 1]

(* startTurnTimers                                                               *)
Begun(d) == [d EXCEPT !.autoPass = @ \cup {d.order[d.cur]}]

(* The functions S[1], S[2], ..., one after the other.                           *)
Applied(S, x) ==
    LET after[k \in 0..Len(S)] == IF k = 0 THEN x ELSE S[k][after[k - 1]]
    IN  after[Len(S)]

(* A slip, too: the turn of a player who had it is left where it is.             *)
RemovedOnly(A, d, m) ==
    LET e == Forgotten(Without(d, m), m)
    IN  IF Len(e.order) <= 1 THEN Over(e) ELSE e

(* removePlayerFromGame: the turn of a player who had it is advanced, too.  What  *)
(* that makes of a table e is A[e].                                              *)
RemovedBy(A, d, m) ==
    LET e == Forgotten(Without(d, m), m)
    IN  IF Len(e.order) <= 1 THEN Over(e)
        ELSE IF HasTurn(d, m) THEN A[e] ELSE e

(* pruneUnavailableParticipants: who is absent without a grace timer.            *)
PrunedBy(A, d) ==
    LET Gone(e, m) == m \notin present \cup d.grace /\ InGame(e, m)
    IN  Applied([k \in 1..Len(d.order) |-> [e \in Table |->
                     IF Gone(e, d.order[k]) THEN RemovedBy(A, e, d.order[k]) ELSE e]], d)

(* One turn of the loop in advanceTurn, and whether the loop goes on: a next     *)
(* player who is absent is removed, with or without a grace timer.               *)
Attempt(A, d) ==
    LET e == Moved(d)
        p == e.order[e.cur]
        f == RemovedBy(A, e, p)
    IN  IF Len(d.order) <= 1 THEN <<Over(d), FALSE>>
        ELSE IF e.round > TotalRounds THEN <<Over(e), FALSE>>
        ELSE IF p \in present THEN <<Begun(e), FALSE>>
        ELSE <<f, f.on>>

NextTurnBy(A, d) ==
    LET Try == [t \in Table \X BOOLEAN |-> IF t[2] THEN Attempt(A, t[1]) ELSE t]
        t   == Applied([k \in 1..(Len(d.order) + 1) |-> Try], <<d, d.on>>)
    IN  IF t[2] THEN Over(t[1]) ELSE t[1]

(* advanceTurn.  It removes players, which may advance the turn again: each such *)
(* call within another is about a player less.                                   *)
AdvancedBy(A) == [d \in Table |-> NextTurnBy(A, PrunedBy(A, d))]
AdvancedAmong[k \in 0..Len(Roster)] ==
    IF k = 0 THEN [d \in Table |-> d] ELSE AdvancedBy(AdvancedAmong[k - 1])

Advanced(d) == AdvancedAmong[Len(Roster)][d]
Removed(d, m) == RemovedBy(AdvancedAmong[Len(Roster)], d, m)
Pruned(d) == PrunedBy(AdvancedAmong[Len(Roster)], d)

(* finishTurn, for whoever is in the game.                                       *)
Finished(d, p) == IF InGame(d, p) THEN Advanced(d) ELSE d

(* clearForPlayer and the deletions that go with it                              *)
Resolved(d, p) ==
    [d EXCEPT !.autoPass = @ \ {p}, !.bondage = @ \ {p}, !.pending = @ \ {p}]

--------------------------------------------------------------------------------
(* persistState takes the snapshot at once; it is stored, or a later one is, or  *)
(* none.  Of the snapshots that one step takes, only the last counts; what is    *)
(* stored after the last restart is never loaded.                                *)
Snapshot(d) == [d EXCEPT !.grace = {}, !.autoPass = {}, !.bondage = @ \cap d.pending]
Save == \/ UNCHANGED saved
        \/ restarts < MaxRestarts /\ saved' = Snapshot(dare')
SaveIf(changed) == IF changed THEN Save ELSE UNCHANGED saved

Others == <<starting, present, restarts>>

(* The end of the start command: everyone's outfit was captured.                 *)
Begin ==
    /\ starting /\ starting' = FALSE
    /\ dare' = IF dare.on THEN Begun(dare) ELSE dare
    /\ SaveIf(dare.on)
    /\ UNCHANGED <<present, handlers, restarts>>

--------------------------------------------------------------------------------
(* Commands: each prunes the participants before it looks at anything            *)

(* A command that does nothing more, or is refused.                              *)
Command ==
    /\ Pruned(dare) # dare
    /\ dare' = Pruned(dare)
    /\ Save
    /\ UNCHANGED <<handlers, Others>>

(* !dare draw, one at a time for each player; the turn is not looked at again    *)
(* after the two seconds.                                                        *)
Draw(p) ==
    LET d == Pruned(dare)
    IN  /\ p \in present /\ HasTurn(d, p) /\ p \notin drawing
        /\ drawing' = drawing \cup {p}
        /\ dare' = d
        /\ SaveIf(d # dare)
        /\ UNCHANGED <<ending, Others>>

(* The deck is empty or cannot be read, or a bondage dare awaits its decision, ...*)
DrawNothing(p) ==
    /\ p \in drawing /\ drawing' = drawing \ {p}
    /\ UNCHANGED <<dare, ending, saved, Others>>

DrawBondage(p) ==
    /\ p \in drawing /\ drawing' = drawing \ {p}
    /\ dare' = [dare EXCEPT !.pending = @ \cup {p}, !.bondage = @ \cup {p}]
    /\ Save
    /\ UNCHANGED <<ending, Others>>

(* A handler of p awaits the database or the room, and will finish p's turn.     *)
Await(p) == ending[p] < MaxEnding /\ ending' = [ending EXCEPT ![p] = @ + 1]

(* ... or the dare is applied; it stays in pendingDraws.                         *)
DrawEffect(p) ==
    /\ p \in drawing /\ drawing' = drawing \ {p}
    /\ Await(p)
    /\ dare' = [dare EXCEPT !.pending = @ \cup {p}]
    /\ UNCHANGED <<saved, Others>>

(* applyPassConsequence: from the second time on it awaits a snapshot.           *)
Consequence(d, p) ==
    /\ UNCHANGED drawing
    /\ IF p \in d.passed
       THEN Await(p) /\ dare' = d
       ELSE /\ dare' = Finished([d EXCEPT !.passed = @ \cup {p}], p)
            /\ UNCHANGED ending

(* !dare pass, for whatever dare the player drew last.                           *)
Pass(p) ==
    LET d == Pruned(dare)
    IN  /\ p \in present /\ p \in d.pending
        /\ Consequence(IF p \in d.bondage THEN Resolved(d, p)
                                          ELSE [d EXCEPT !.pending = @ \ {p}], p)
        /\ Save
        /\ UNCHANGED Others

Forfeit(p) ==
    LET d == Pruned(dare)
    IN  /\ p \in present /\ p \in d.bondage
        /\ dare' = Finished(Resolved(d, p), p)
        /\ Save
        /\ UNCHANGED <<handlers, Others>>

(* !dare leave, or an admin's !dare remove.                                      *)
Leave(p) ==
    LET d == Pruned(dare)
    IN  /\ InGame(d, p)
        /\ dare' = Removed(d, p)
        /\ Save
        /\ UNCHANGED <<handlers, Others>>

(* An admin's !dare stop.                                                        *)
Stop ==
    /\ dare.on
    /\ dare' = Over(Pruned(dare))
    /\ Save
    /\ UNCHANGED <<handlers, Others>>

(* A dare was applied, or a pass has had its consequence.                        *)
Finish(p) ==
    /\ ending[p] > 0 /\ ending' = [ending EXCEPT ![p] = @ - 1]
    /\ dare' = Finished(dare, p)
    /\ Save
    /\ UNCHANGED <<drawing, Others>>

--------------------------------------------------------------------------------
(* Timers                                                                        *)

(* fireTurnAutoPass; drawing does not stop the timer.                            *)
AutoPass(p) ==
    LET d == [dare EXCEPT !.autoPass = @ \ {p}]
    IN  /\ p \in dare.autoPass
        /\ \/ /\ ~HasTurn(d, p)
              /\ dare' = d
              /\ UNCHANGED <<handlers, saved>>
           \/ /\ HasTurn(d, p) /\ p \notin present
              /\ dare' = Removed(d, p)
              /\ Save
              /\ UNCHANGED handlers
           \/ /\ HasTurn(d, p) /\ p \in present
              /\ Consequence(d, p)
              /\ Save
        /\ UNCHANGED Others

(* autoApplyPendingBondage                                                       *)
DecisionDue(p) ==
    LET d == Resolved(dare, p)
    IN  /\ p \in dare.bondage
        /\ \/ /\ p \notin present
              /\ dare' = Finished(d, p)
              /\ Save
              /\ UNCHANGED handlers
           \/ /\ p \in present /\ Await(p)
              /\ dare' = d
              /\ UNCHANGED <<drawing, saved>>
        /\ UNCHANGED Others

(* purgeDisconnected, also for a player who returned while the bot was down.     *)
Purge(p) ==
    LET d == [dare EXCEPT !.grace = @ \ {p}, !.away = @ \ {p}]
    IN  /\ p \in dare.grace
        /\ dare' = IF InGame(d, p) THEN Removed(d, p) ELSE d
        /\ Save
        /\ UNCHANGED <<handlers, Others>>

--------------------------------------------------------------------------------
(* The room and the process                                                      *)

(* Whether those who are not in the game are present makes no difference.        *)
CharacterLeft(p) ==
    /\ InGame(dare, p)
    /\ p \in present /\ present' = present \ {p}
    /\ dare' = [dare EXCEPT !.grace = @ \cup {p}, !.away = @ \cup {p}]
    /\ Save
    /\ UNCHANGED <<starting, handlers, restarts>>

CharacterEntered(p) ==
    /\ p \notin present /\ present' = present \cup {p}
    /\ dare' = [dare EXCEPT !.grace = @ \ {p}, !.away = @ \ {p}]
    /\ SaveIf(p \in dare.grace)
    /\ UNCHANGED <<starting, handlers, restarts>>

(* resumeTurnTimers                                                              *)
Rearmed(d) == IF d.on THEN {d.order[d.cur]} ELSE {}

(* loadState: the timers are armed anew, disconnectedAt stays empty.             *)
Restart ==
    /\ restarts < MaxRestarts /\ restarts' = restarts + 1
    /\ dare' = [saved EXCEPT !.autoPass = Rearmed(saved), !.grace = saved.away, !.away = {}]
    /\ starting' = FALSE /\ drawing' = {} /\ ending' = [p \in Players |-> 0]
    /\ present' \in SUBSET Players
    /\ UNCHANGED saved

--------------------------------------------------------------------------------
Draws(p) == DrawNothing(p) \/ DrawBondage(p) \/ DrawEffect(p)

Next ==
    \/ Begin \/ Command \/ Stop \/ Restart
    \/ \E p \in Players :
          \/ Draw(p) \/ Draws(p) \/ Pass(p) \/ Forfeit(p) \/ Leave(p)
          \/ Finish(p) \/ AutoPass(p) \/ DecisionDue(p) \/ Purge(p)
          \/ CharacterLeft(p) \/ CharacterEntered(p)

(* An armed auto-pass timer fires and awaited operations return; no player has    *)
(* to do anything, and no other timer to fire.  This is the weak fairness of     *)
(* Begin, AutoPass(p) and Finish(p), with the conditions that enable them.       *)
AutoPassDue(p) ==
    /\ p \in dare.autoPass
    /\ HasTurn(dare, p) /\ p \in present \cap dare.passed => ending[p] < MaxEnding

Fairness ==
    /\ []<>~starting
    /\ \A p \in Players : /\ []<>~AutoPassDue(p) \/ []<><<AutoPass(p)>>_vars
                          /\ []<>(ending[p] = 0) \/ []<><<Finish(p)>>_vars

Spec == Init /\ [][Next]_vars /\ Fairness

--------------------------------------------------------------------------------
(* Properties                                                                    *)

(* A running game is never left to itself: the auto-pass timer of the player     *)
(* whose turn it is is armed, or a handler that will end that player's turn is   *)
(* under way.  Commands clear timers, late handlers end turns of others, players *)
(* vanish in the middle of a turn, and restarts lose every timer.                *)
TurnIsWatched ==
    dare.on => LET p == dare.order[dare.cur]
               IN  starting \/ p \in dare.autoPass \/ ending[p] > 0

(* A bondage decision whose timer runs is about a dare that is still pending: it *)
(* can be passed, and a snapshot taken now brings it back after a restart.       *)
DecisionHasDare == dare.bondage \subseteq dare.pending

(* Both also hold of a game that was resumed, whenever the bot went down, from   *)
(* whichever snapshot was stored, and whoever went or came meanwhile; as long as *)
(* the calls that the handlers and the start await do not reject.                *)
GameIsWatched == TurnIsWatched /\ DecisionHasDare

(* A game comes to its end although nobody ever does anything: "so an            *)
(* unresponsive player doesn't stall it".                                        *)
GameEnds == dare.on ~> ~dare.on

================================================================================
