----------------------------- MODULE KidnappersGame -----------------------------
(* One kidnappers game: the commands of the state machine                         *)
(* (kidnappersGameStateMachine.ts), when it is decided                            *)
(* (kidnappersGameOutcome.ts), and the snapshots that the persistence accepts     *)
(* (validateSnapshot): a command whose snapshot it rejects is taken back, and     *)
(* changes nothing.                                                               *)
(*                                                                                *)
(* A step is a command recorded in the document of the session.  The order in     *)
(* which commands are recorded, and their repetition, is the matter of            *)
(* KidnappersSession; what is done to the players afterwards is that of           *)
(* KidnappersCaptures.  Time is what the guards see of it: a turn is open, due at *)
(* its very deadline, or over; a phase is due or not; an escape is cooled down or *)
(* not.                                                                           *)
EXTENDS Naturals, FiniteSets

CONSTANTS
    Members,        \* member numbers
    None,
    MinPlayers, MaxPlayers,
    MinClub,        \* with fewer club members free the game is decided
    EscapesToRelease, MaxRestraint,
    Roles,          \* those in play
    Requested,      \* the assignments that a START_GAME command may carry
    Configurations, \* by the number of players (KIDNAPPERS_CONFIGURATIONS)
    MaxRounds       \* bound on rounds

ASSUME MembersAssumption == Members \subseteq Nat \ {0}
ASSUME RolesAssumption ==
    {"kidnapper", "bystander"} \subseteq Roles /\ Roles \subseteq
        {"kidnapper", "maid", "switch", "stalker", "fan", "masochist", "mistress", "bystander"}
ASSUME RequestedAssumption == Requested \subseteq UNION {[P -> Roles] : P \in SUBSET Members}
ASSUME LimitsAssumption ==
    /\ MinPlayers \in Nat /\ MaxPlayers \in Nat /\ MinClub \in Nat /\ MaxRounds \in Nat
    /\ EscapesToRelease \in Nat \ {0} /\ MaxRestraint \in Nat \ {0}
ASSUME ConfigurationsAssumption ==
    Configurations \in [MinPlayers..MaxPlayers ->
        [counts : [Roles \ {"bystander"} -> Nat], firstNightKidnapping : BOOLEAN,
         mistressCanProtectHerself : BOOLEAN, mistressCanPickSameTargetTwice : BOOLEAN]]

VARIABLES
    phase, round,
    status, role,   \* of each member
    dealt,          \* the number of players that chose the configuration
    skip,           \* daySkipVotes
    acted,          \* nightActions: the target that each player chose tonight
    lastTarget,     \* lastMistressTargetMemberNumber
    accusation,     \* with its suspicions, as the set of accusers, and votes
    turn,           \* the capture turn
    due,            \* the deadline of the phase has come
    prog            \* progressions

day == <<skip, accusation>>
night == <<acted, lastTarget>>
vars == <<phase, round, status, role, dealt, day, night, turn, due, prog>>

Following ==                \* ADVANCE_TARGETS
    [night |-> "resolving_night", resolving_night |-> "day", day |-> "voting",
     voting |-> "resolving_day", defense |-> "trial", trial |-> "resolving_day",
     resolving_day |-> "night"]
Playing == DOMAIN Following
Over == {"completed", "aborted"}
Terminal == phase \in Over
Timed == {"day", "night", "defense", "trial"}      \* phaseDeadline is not null

Accusations == [accused : Members, accusers : SUBSET Members, defended : BOOLEAN,
                guilty : SUBSET Members, innocent : SUBSET Members]
Turns == [owner : Members, clock : {"open", "due", "over"}, pending : Members \cup {None}]
Progressions == [phase : {"captured", "restrained", "released"}, level : 1..MaxRestraint,
                 attempts : 0..EscapesToRelease, cooled : BOOLEAN]
Statuses == {"absent", "active", "captured", "eliminated", "disconnected"}

ASSUME NoneAssumption ==
    /\ None \notin Members /\ None \notin Roles
    /\ None \notin Accusations /\ None \notin Turns /\ None \notin Progressions

TypeOK ==
    /\ phase \in {"lobby"} \cup Playing \cup Over /\ round \in 0..MaxRounds
    /\ status \in [Members -> Statuses] /\ role \in [Members -> Roles \cup {None}]
    /\ dealt \in {0} \cup MinPlayers..MaxPlayers
    /\ skip \subseteq Members
    /\ acted \in [Members -> Members \cup {None}] /\ lastTarget \in Members \cup {None}
    /\ accusation \in Accusations \cup {None}
    /\ turn \in Turns \cup {None} /\ due \in BOOLEAN
    /\ prog \in [Members -> Progressions \cup {None}]

Init ==
    /\ phase = "lobby" /\ round = 0
    /\ status = [m \in Members |-> "absent"] /\ role = [m \in Members |-> None]
    /\ dealt = 0
    /\ skip = {} /\ acted = [m \in Members |-> None] /\ lastTarget = None
    /\ accusation = None /\ turn = None /\ due = FALSE
    /\ prog = [m \in Members |-> None]

Players == {m \in Members : status[m] # "absent"}
Active == {m \in Members : status[m] = "active"}
Config == Configurations[dealt]

--------------------------------------------------------------------------------
(* The lobby                                                                      *)

MayJoin(m) == phase = "lobby" /\ m \notin Players /\ Cardinality(Players) < MaxPlayers

Join(m) ==
    /\ MayJoin(m)
    /\ status' = [status EXCEPT ![m] = "active"]
    /\ UNCHANGED <<phase, round, role, dealt, day, night, turn, due, prog>>

(* One may leave in every phase.                                                  *)
MayLeave(m) == ~Terminal /\ m \in Players

Leave(m) ==
    /\ MayLeave(m)
    /\ status' = [status EXCEPT ![m] = "absent"]
    /\ role' = [role EXCEPT ![m] = None]
    /\ UNCHANGED <<phase, round, dealt, day, night, turn, due, prog>>

MayAssignRole(m) == phase = "lobby" /\ m \in Players

AssignRole(m, r) ==
    /\ MayAssignRole(m)
    /\ role' = [role EXCEPT ![m] = r]
    /\ UNCHANGED <<phase, round, status, dealt, day, night, turn, due, prog>>

(* assignConfiguredRoles                                                          *)
Drawn(d) ==
    \A r \in Roles \ {"bystander"} :
        Cardinality({m \in Players : d[m] = r}) = Configurations[Cardinality(Players)].counts[r]

Kidnappers(r) == {m \in Players : r[m] = "kidnapper"}

(* The roles come with the command, or are drawn for those who have none; whether *)
(* there is a kidnapper is asked before they are drawn, if all have one.          *)
MayStart == phase = "lobby" /\ Cardinality(Players) \in MinPlayers..MaxPlayers

Start ==
    /\ MayStart
    /\ \/ \E d \in Requested :
              /\ DOMAIN d = Players /\ Kidnappers(d) # {}
              /\ role' = [m \in Members |-> IF m \in Players THEN d[m] ELSE None]
       \/ /\ (\E m \in Players : role[m] = None) \/ Kidnappers(role) # {}
          /\ \E d \in [Players -> Roles] :
                 /\ Drawn(d)
                 /\ role' = [m \in Members |-> IF m \in Players /\ role[m] = None THEN d[m]
                                                                                ELSE role[m]]
    /\ dealt' = Cardinality(Players)
    /\ phase' = "day" /\ round' = 0 /\ due' = FALSE
    /\ turn' = None
    /\ UNCHANGED <<status, day, night, prog>>

--------------------------------------------------------------------------------
(* The end                                                                        *)

(* determineKidnappersWinner                                                      *)
Decided ==
    LET active == Active
        club == {m \in active : role[m] # "kidnapper"}
    IN  IF active = club THEN "victims"
        ELSE IF Cardinality(active) <= 2 \/ Cardinality(club) < MinClub
             THEN IF \E m \in active : role[m] = "switch" THEN "victims" ELSE "captors"
             ELSE None

(* finishGame                                                                     *)
Finish(reason) ==
    /\ phase' = IF reason = "normal" THEN "completed" ELSE "aborted"
    /\ turn' = None /\ due' = FALSE
    /\ prog' = [m \in Members |-> None]
    /\ UNCHANGED <<round, status, role, dealt, day, night>>

(* Once it is over, only SHUTDOWN_SESSION is accepted, and changes nothing.       *)
MayEndGame(reason) == ~Terminal /\ (reason = "normal" => phase # "lobby")

EndGame(reason) == MayEndGame(reason) /\ Finish(reason)

CompleteGame(reason) == phase \in Playing /\ Finish(reason)
AbortSession == ~Terminal /\ Finish("administrative")
ShutdownSession == ~Terminal /\ Finish("shutdown")

--------------------------------------------------------------------------------
(* Phases                                                                         *)

PendingCapture == turn # None /\ turn.pending # None

(* createTurn                                                                     *)
NewTurn ==
    LET owners == {m \in Active : role[m] = "kidnapper"}
    IN  IF owners = {} THEN None
        ELSE [owner |-> CHOOSE m \in owners : \A n \in owners : m <= n,
              clock |-> "open", pending |-> None]

EnterUncleared(to) ==       \* a slip: the day's votes and accusation are kept
    /\ phase' = to /\ due' = FALSE
    /\ \/ /\ to = "night"
          /\ round < MaxRounds /\ round' = round + 1
          /\ turn' = NewTurn
          /\ acted' = [m \in Members |-> None]
          /\ UNCHANGED <<skip, accusation, lastTarget>>
       \/ /\ to # "night"
          /\ turn' = IF phase = "night" THEN None ELSE turn
          /\ UNCHANGED <<round, day, night>>
    /\ UNCHANGED <<status, role, dealt, prog>>
Enter(to) ==
    /\ phase' = to /\ due' = FALSE
    /\ \/ /\ to = "night"
          /\ round < MaxRounds /\ round' = round + 1
          /\ turn' = NewTurn
          /\ accusation' = None /\ skip' = {}
          /\ acted' = [m \in Members |-> None]
          /\ UNCHANGED lastTarget
       \/ /\ to # "night"
          /\ turn' = IF phase = "night" THEN None ELSE turn
          /\ UNCHANGED <<round, day, night>>
    /\ UNCHANGED <<status, role, dealt, prog>>

Resolving == phase \in {"resolving_night", "resolving_day"}

(* A trial that the admin ends before its verdict acquits.                        *)
MayAdvance == phase \in Playing /\ ~PendingCapture

AdvancePhase ==
    /\ MayAdvance
    /\ \/ Resolving /\ Decided # None /\ Finish("normal")
       \/ ~(Resolving /\ Decided # None) /\ Enter(Following[phase])

MayTimeOutPhase == phase \in Playing /\ due /\ ~PendingCapture

TimeoutPhase == MayTimeOutPhase /\ Enter(Following[phase])

--------------------------------------------------------------------------------
(* Captures                                                                       *)

MayCapture(a, t) ==
    /\ phase = "night"
    /\ round = 1 => Config.firstNightKidnapping
    /\ a \in Active /\ t \in Active /\ a # t
    /\ role[a] = "kidnapper" /\ role[t] # "kidnapper"
    /\ turn # None /\ turn.owner = a /\ turn.clock # "over" /\ turn.pending = None

AttemptCapture(a, t) ==
    /\ MayCapture(a, t)
    /\ turn' = [turn EXCEPT !.pending = t]
    /\ UNCHANGED <<phase, round, status, role, dealt, day, night, due, prog>>

(* advanceCaptureTurn: one shared capture a night                                 *)
TurnPasses ==          \* a slip: the second kidnapper has a turn of their own
    turn' = LET others == {m \in Active \ {turn.owner} : role[m] = "kidnapper"}
            IN  IF others = {} THEN None
                ELSE [owner |-> CHOOSE m \in others : TRUE, clock |-> "open", pending |-> None]
TurnEnds == turn' = None

Captured(m) ==
    /\ status' = [status EXCEPT ![m] = "captured"]
    /\ prog' = [prog EXCEPT ![m] = [phase |-> "captured", level |-> 1, attempts |-> 0,
                                    cooled |-> TRUE]]

Protected(t) == \E m \in Members : acted[m] = t /\ role[m] = "mistress"

(* ACCEPT_, RESIST_, ESCAPE_ and RESOLVE_CAPTURE, of the player it waits for.     *)
MayResolve ==
    /\ phase = "night" /\ PendingCapture
    /\ turn.clock # "over"
    /\ turn.pending \in Active

ResolveCapture(outcome) ==
    /\ MayResolve
    /\ \/ outcome = "captured" /\ ~Protected(turn.pending) /\ Captured(turn.pending)
       \/ /\ outcome # "captured" \/ Protected(turn.pending)
          /\ UNCHANGED <<status, prog>>
    /\ TurnEnds
    /\ UNCHANGED <<phase, round, role, dealt, day, night, due>>

(* Who has not answered is captured, protected or not.                            *)
MayTimeOutTurn == ~Terminal /\ turn # None /\ turn.clock # "open"

TimeoutTurn ==
    /\ MayTimeOutTurn
    /\ \/ turn.pending # None /\ Captured(turn.pending)
       \/ turn.pending = None /\ UNCHANGED <<status, prog>>
    /\ TurnEnds
    /\ UNCHANGED <<phase, round, role, dealt, day, night, due>>

ReleasedLate(m) ==          \* a slip: an off-by-one
    /\ \/ /\ prog[m].attempts + 1 > EscapesToRelease
          /\ prog' = [prog EXCEPT ![m].phase = "released", ![m].attempts = @ + 1,
                                  ![m].cooled = TRUE]
          /\ status' = [status EXCEPT ![m] = "active"]
       \/ /\ prog[m].attempts + 1 <= EscapesToRelease
          /\ prog' = [prog EXCEPT ![m].phase = "restrained", ![m].attempts = @ + 1,
                                  ![m].level = IF @ < MaxRestraint THEN @ + 1 ELSE @,
                                  ![m].cooled = FALSE]
          /\ UNCHANGED status
Escapes(m) ==
    \/ /\ prog[m].attempts + 1 >= EscapesToRelease
       /\ prog' = [prog EXCEPT ![m].phase = "released", ![m].attempts = @ + 1,
                               ![m].cooled = TRUE]
       /\ status' = [status EXCEPT ![m] = "active"]
    \/ /\ prog[m].attempts + 1 < EscapesToRelease
       /\ prog' = [prog EXCEPT ![m].phase = "restrained", ![m].attempts = @ + 1,
                               ![m].level = IF @ < MaxRestraint THEN @ + 1 ELSE @,
                               ![m].cooled = FALSE]
       /\ UNCHANGED status

Captive(m) == prog[m] # None /\ prog[m].phase # "released"
Held(m) == status[m] = "captured" /\ Captive(m)

MayEscape(m) == ~Terminal /\ Held(m) /\ prog[m].cooled

AttemptEscape(m) ==
    /\ MayEscape(m) /\ Escapes(m)
    /\ UNCHANGED <<phase, round, role, dealt, day, night, turn, due>>

MayRelease(m) == ~Terminal /\ Held(m)

ReleasePlayer(m) ==
    /\ MayRelease(m)
    /\ prog' = [prog EXCEPT ![m].phase = "released", ![m].cooled = TRUE]
    /\ status' = [status EXCEPT ![m] = "active"]
    /\ UNCHANGED <<phase, round, role, dealt, day, night, turn, due>>

(* Who is to answer a capture and leaves the room is captured.                    *)
MayChange(m) == ~Terminal /\ m \in Players

PlayerDisconnected(m) ==
    /\ MayChange(m) /\ status[m] # "disconnected"
    /\ \/ /\ PendingCapture /\ turn.pending = m
          /\ Captured(m) /\ TurnEnds
       \/ /\ ~(PendingCapture /\ turn.pending = m)
          /\ status' = [status EXCEPT ![m] = "disconnected"]
          /\ turn' = IF turn # None /\ turn.owner = m THEN None ELSE turn
          /\ UNCHANGED prog
    /\ UNCHANGED <<phase, round, role, dealt, day, night, due>>

PlayerReconnected(m) ==
    /\ MayChange(m) /\ status[m] = "disconnected"
    /\ status' = [status EXCEPT ![m] = "active"]
    /\ UNCHANGED <<phase, round, role, dealt, day, night, turn, due, prog>>

MayAct(m, t) ==
    /\ phase = "night"
    /\ m \in Active /\ t \in Active /\ acted[m] = None
    /\ role[m] \in {"maid", "stalker", "mistress"}
    /\ role[m] = "mistress" => /\ t # m \/ Config.mistressCanProtectHerself
                               /\ t # lastTarget \/ Config.mistressCanPickSameTargetTwice

NightAction(m, t) ==
    /\ MayAct(m, t)
    /\ acted' = [acted EXCEPT ![m] = t]
    /\ lastTarget' = IF role[m] = "mistress" THEN t ELSE lastTarget
    /\ UNCHANGED <<phase, round, status, role, dealt, day, turn, due, prog>>

--------------------------------------------------------------------------------
(* The day                                                                        *)

MaySkip(m) == phase = "day" /\ m \in Active \ skip

SkipDay(m) ==
    /\ MaySkip(m)
    /\ skip' = skip \cup {m}
    /\ phase' = IF Cardinality(skip') >= Cardinality(Active) THEN "resolving_day" ELSE phase
    /\ due' = (due /\ phase' = phase)
    /\ UNCHANGED <<round, status, role, dealt, accusation, night, turn, prog>>

MayAccuse(a, t) ==
    /\ phase = "voting"
    /\ a \in Active /\ t \in Active
    /\ accusation # None => accusation.accused = t /\ a \notin accusation.accusers

(* The second suspicion of one player takes the voting to the defense.            *)
RaiseAccusation(a, t) ==
    /\ MayAccuse(a, t)
    /\ accusation' = IF accusation = None
                     THEN [accused |-> t, accusers |-> {a}, defended |-> FALSE,
                           guilty |-> {}, innocent |-> {}]
                     ELSE [accusation EXCEPT !.accusers = @ \cup {a}]
    /\ phase' = IF Cardinality(accusation'.accusers) >= 2 THEN "defense" ELSE phase
    /\ due' = FALSE
    /\ UNCHANGED <<round, status, role, dealt, skip, night, turn, prog>>

MayDefend(m) ==
    /\ phase = "defense" /\ accusation # None
    /\ accusation.accused = m /\ ~accusation.defended

DefendAccusation(m) ==
    /\ MayDefend(m)
    /\ accusation' = [accusation EXCEPT !.defended = TRUE]
    /\ UNCHANGED <<phase, round, status, role, dealt, skip, night, turn, due, prog>>

(* The verdict, as far as it is found: by the votes of those who may vote now.    *)
Verdict(a) ==
    LET voters == Cardinality(Active \ {a.accused})
    IN  IF 2 * Cardinality(a.guilty) > voters THEN "guilty"
        ELSE IF Cardinality(a.guilty) + Cardinality(a.innocent) >= voters THEN "innocent"
        ELSE "none"

MayVote(m) ==
    /\ phase = "trial" /\ accusation # None
    /\ m \in Active \ ({accusation.accused} \cup accusation.guilty \cup accusation.innocent)

TrialVote(m, vote) ==
    /\ MayVote(m)
    /\ accusation' = IF vote = "guilty" THEN [accusation EXCEPT !.guilty = @ \cup {m}]
                                        ELSE [accusation EXCEPT !.innocent = @ \cup {m}]
    /\ status' = IF Verdict(accusation') = "guilty" /\ accusation.accused \in Players
                 THEN [status EXCEPT ![accusation.accused] = "eliminated"] ELSE status
    /\ phase' = IF Verdict(accusation') = "none" THEN phase ELSE "resolving_day"
    /\ due' = (due /\ phase' = phase)
    /\ UNCHANGED <<round, role, dealt, skip, night, turn, prog>>

--------------------------------------------------------------------------------
(* The snapshots that the persistence accepts                                     *)

ProgressionsValid ==
    \A m \in Members : prog[m] # None =>
        m \in Players /\ (prog[m].phase # "released" <=> status[m] = "captured")

Valid ==
    /\ skip \subseteq Players
    /\ \A m \in Members : acted[m] # None => {m, acted[m]} \subseteq Players
    /\ lastTarget # None => lastTarget \in Players
    /\ accusation # None =>
           {accusation.accused} \cup accusation.accusers \cup accusation.guilty
               \cup accusation.innocent \subseteq Players
    /\ ProgressionsValid
    /\ turn # None => {turn.owner, turn.pending} \subseteq Players \cup {None}

--------------------------------------------------------------------------------

Command ==
    \/ \E m \in Members : Join(m) \/ Leave(m) \/ PlayerDisconnected(m) \/ PlayerReconnected(m)
    \/ \E m \in Members, r \in Roles : AssignRole(m, r)
    \/ Start \/ AdvancePhase \/ TimeoutPhase
    \/ \E a, t \in Members : AttemptCapture(a, t) \/ NightAction(a, t) \/ RaiseAccusation(a, t)
    \/ \E outcome \in {"captured", "resisted", "escaped"} : ResolveCapture(outcome)
    \/ TimeoutTurn
    \/ \E m \in Members : AttemptEscape(m) \/ ReleasePlayer(m)
    \/ \E m \in Members : SkipDay(m) \/ DefendAccusation(m)
    \/ \E m \in Members, vote \in {"guilty", "innocent"} : TrialVote(m, vote)
    \/ \E reason \in {"normal", "timeout"} : EndGame(reason) \/ CompleteGame(reason)
    \/ AbortSession \/ ShutdownSession

Rest == UNCHANGED <<phase, round, status, role, dealt, day, night>>

(* Time passes.  Every night is longer than a capture turn.                       *)
TurnGoesBy ==
    /\ turn # None /\ turn.clock # "over"
    /\ turn' = [turn EXCEPT !.clock = IF @ = "open" THEN "due" ELSE "over"]
    /\ Rest /\ UNCHANGED <<due, prog>>
PhaseExpires ==
    /\ phase \in Timed /\ ~due /\ due' = TRUE
    /\ turn # None => turn.clock = "over"
    /\ Rest /\ UNCHANGED <<turn, prog>>
CoolsDown(m) ==
    /\ prog[m] # None /\ ~prog[m].cooled
    /\ prog' = [prog EXCEPT ![m].cooled = TRUE]
    /\ Rest /\ UNCHANGED <<turn, due>>

TimeGoesBy == TurnGoesBy \/ PhaseExpires \/ \E m \in Members : CoolsDown(m)

Next == (Command /\ Valid') \/ TimeGoesBy

Spec == Init /\ [][Next]_vars

--------------------------------------------------------------------------------
(* Properties                                                                     *)

N == INSTANCE CaptureNights WITH
        night <- phase = "night", spent <- turn = None, over <- Terminal,
        held <- {m \in Members : Captive(m)}

(* However captures are answered, run out of time or are cut short by players who *)
(* leave, one player at most is captured a night, and only then; a game that is   *)
(* over holds nobody any more.                                                    *)
ImplementsNights == N!Spec

(* The capture turn is that of a kidnapper who is there, and whom it waits for is *)
(* a club member who is there to answer.                                          *)
TurnIsLive ==
    turn # None =>
        /\ phase = "night"
        /\ turn.owner \in Active /\ role[turn.owner] = "kidnapper"
        /\ turn.pending # None => turn.pending \in Active /\ role[turn.pending] # "kidnapper"

(* What was voted and voiced one day has no effect on the next: a defense follows *)
(* two suspicions, and a verdict the votes, of the same day.                      *)
DayIsItsOwn ==
    /\ phase \in {"lobby", "night", "resolving_night"} => skip = {}
    /\ phase \in {"lobby", "night", "resolving_night", "day"} => accusation = None
    /\ phase \in {"defense", "trial"} =>
           accusation # None /\ Cardinality(accusation.accusers) = 2
    /\ phase # "trial" /\ phase # "resolving_day" /\ ~Terminal /\ accusation # None =>
           accusation.guilty = {} /\ accusation.innocent = {}

PhasesKeepApart == TurnIsLive /\ DayIsItsOwn

================================================================================
