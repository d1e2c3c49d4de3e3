------------------------- MODULE KidnappersGame_proofs -------------------------
(* Proofs, for any number of members, roles, rounds and configurations, that      *)
(* KidnappersGame implements CaptureNights, of whose turn it is and what is kept  *)
(* from one phase to the next, and that KidnappersCaptures binds those whom the   *)
(* game holds.                                                                    *)
EXTENDS KidnappersCaptures, FiniteSetTheorems, WellFoundedInduction, TLAPS

--------------------------------------------------------------------------------
(* The inductive invariant                                                        *)

(* A capture ends by release before the attempts run out; whoever is captured has *)
(* a progression, by which the end of the game finds them, and keeps none after.  *)
ProgressionsOK ==
    /\ \A m \in Members :
           prog[m] # None /\ prog[m].phase # "released" => prog[m].attempts < EscapesToRelease
    /\ ~Terminal => \A m \in Members : status[m] = "captured" => prog[m] # None
    /\ Terminal => \A m \in Members : prog[m] = None

(* The first of the two suspicions.                                               *)
VotingOK == phase = "voting" /\ accusation # None => \E m : accusation.accusers = {m}

IInv ==
    /\ TypeOK /\ Valid
    /\ ProgressionsOK /\ VotingOK
    /\ TurnIsLive /\ DayIsItsOwn

--------------------------------------------------------------------------------
(* The kidnapper who has the turn                                                 *)

(* A set of member numbers that is not empty has a least one.                     *)
LEMMA LeastMember ==
    ASSUME NEW S \in SUBSET Members, S # {}
    PROVE  \E m \in S : \A n \in S : m <= n
<1> DEFINE Less == {p \in Nat \X Nat : p[1] < p[2]}
<1>1. S \subseteq Nat
  BY MembersAssumption
<1>2. IsWellFoundedOn(Less, Nat)
  BY NatLessThanWellFounded DEF OpToRel
<1>3. PICK m \in S : \A n \in S : ~ (<<n, m>> \in Less)
  BY <1>1, <1>2, WFMin
<1>4. ASSUME NEW n \in S
      PROVE  m <= n
  <2>1. m \in Nat /\ n \in Nat /\ ~ (<<n, m>> \in Less)
    BY <1>1, <1>3
  <2> QED
    BY <2>1
<1> QED
  BY <1>4

(* createTurn gives the turn to a kidnapper who is there, or to nobody.           *)
LEMMA NewTurnFacts ==
    NewTurn # None =>
        /\ NewTurn \in Turns /\ NewTurn.pending = None
        /\ NewTurn.owner \in Active /\ role[NewTurn.owner] = "kidnapper"
<1> DEFINE owners == {m \in Active : role[m] = "kidnapper"}
           least == CHOOSE m \in owners : \A n \in owners : m <= n
<1>1. CASE owners = {}
  BY <1>1 DEF NewTurn
<1>2. CASE owners # {}
  <2>1. owners \in SUBSET Members
    BY DEF Active
  <2>2. least \in owners
    BY <1>2, <2>1, LeastMember
  <2>3. NewTurn = [owner |-> least, clock |-> "open", pending |-> None]
    BY <1>2 DEF NewTurn
  <2> QED
    BY <2>1, <2>2, <2>3 DEF Turns
<1> QED
  BY <1>1, <1>2

--------------------------------------------------------------------------------
(* Types                                                                          *)

LEMMA FinishTypeOK ==
    ASSUME TypeOK, NEW reason, Finish(reason)
    PROVE  TypeOK'
BY DEF TypeOK, Finish, Over, day, night

LEMMA EnterTypeOK ==
    ASSUME TypeOK, NEW to \in Playing, Enter(to)
    PROVE  TypeOK'
<1>1. round' \in 0..MaxRounds /\ turn' \in Turns \cup {None}
  BY NewTurnFacts, LimitsAssumption DEF TypeOK, Enter
<1>2. /\ skip' \subseteq Members /\ acted' \in [Members -> Members \cup {None}]
      /\ lastTarget' \in Members \cup {None} /\ accusation' \in Accusations \cup {None}
  BY DEF TypeOK, Enter, day, night
<1> QED
  BY <1>1, <1>2 DEF TypeOK, Enter

LEMMA CapturedFacts ==
    ASSUME TypeOK, NEW m \in Members, Captured(m)
    PROVE  /\ status' \in [Members -> Statuses] /\ status'[m] = "captured"
           /\ prog' \in [Members -> Progressions \cup {None}]
           /\ prog'[m] # None /\ prog'[m].phase = "captured" /\ prog'[m].attempts < EscapesToRelease
           /\ \A n \in Members : n # m => status'[n] = status[n] /\ prog'[n] = prog[n]
<1> DEFINE first == [phase |-> "captured", level |-> 1, attempts |-> 0, cooled |-> TRUE]
<1>1. first \in Progressions /\ 0 < EscapesToRelease
  BY LimitsAssumption DEF Progressions
<1>2. first # None
  BY <1>1, NoneAssumption
<1> QED
  BY <1>1, <1>2 DEF TypeOK, Captured, Statuses

(* The player at whom an escape or a release is aimed is held still, or free.     *)
Freed(m) ==
    /\ status' = [status EXCEPT ![m] = "active"]
    /\ prog'[m].phase = "released"

StillHeld(m) ==
    /\ status' = status
    /\ prog'[m].phase = "restrained" /\ prog'[m].attempts < EscapesToRelease

LEMMA HeldFacts ==
    ASSUME TypeOK, ProgressionsOK, NEW m \in Members, Held(m),
           \/ Escapes(m)
           \/ /\ prog' = [prog EXCEPT ![m].phase = "released", ![m].cooled = TRUE]
              /\ status' = [status EXCEPT ![m] = "active"]
    PROVE  /\ Freed(m) \/ StillHeld(m)
           /\ prog' \in [Members -> Progressions \cup {None}]
           /\ prog'[m] # None
           /\ \A n \in Members : n # m => prog'[n] = prog[n]
<1>1. prog[m] \in Progressions /\ prog[m].attempts < EscapesToRelease
  BY DEF TypeOK, Held, Captive, ProgressionsOK
<1>2. EscapesToRelease \in Nat /\ MaxRestraint \in Nat
  BY LimitsAssumption
<1>3. CASE Escapes(m) /\ prog[m].attempts + 1 >= EscapesToRelease
  <2>1. prog' = [prog EXCEPT ![m].phase = "released", ![m].attempts = @ + 1, ![m].cooled = TRUE]
        /\ status' = [status EXCEPT ![m] = "active"]
    BY <1>1, <1>2, <1>3 DEF Escapes, Progressions
  <2>2. /\ prog' \in [Members -> Progressions \cup {None}] /\ prog'[m] \in Progressions
        /\ prog'[m].phase = "released"
        /\ \A n \in Members : n # m => prog'[n] = prog[n]
    BY <1>1, <1>2, <2>1 DEF TypeOK, Progressions
  <2> QED
    BY <2>1, <2>2, NoneAssumption DEF Freed
<1>4. CASE Escapes(m) /\ ~(prog[m].attempts + 1 >= EscapesToRelease)
  <2>1. prog' = [prog EXCEPT ![m].phase = "restrained", ![m].attempts = @ + 1,
                             ![m].level = IF @ < MaxRestraint THEN @ + 1 ELSE @,
                             ![m].cooled = FALSE]
        /\ status' = status
    BY <1>1, <1>2, <1>4 DEF Escapes, Progressions
  <2>2. /\ prog' \in [Members -> Progressions \cup {None}] /\ prog'[m] \in Progressions
        /\ prog'[m].phase = "restrained" /\ prog'[m].attempts < EscapesToRelease
        /\ \A n \in Members : n # m => prog'[n] = prog[n]
    BY <1>1, <1>2, <1>4, <2>1 DEF TypeOK, Progressions
  <2> QED
    BY <2>1, <2>2, NoneAssumption DEF StillHeld
<1>5. CASE /\ prog' = [prog EXCEPT ![m].phase = "released", ![m].cooled = TRUE]
           /\ status' = [status EXCEPT ![m] = "active"]
  <2>1. /\ prog' \in [Members -> Progressions \cup {None}] /\ prog'[m] \in Progressions
        /\ prog'[m].phase = "released"
        /\ \A n \in Members : n # m => prog'[n] = prog[n]
    BY <1>1, <1>5 DEF TypeOK, Progressions
  <2> QED
    BY <1>5, <2>1, NoneAssumption DEF Freed
<1> QED
  BY <1>3, <1>4, <1>5

LEMMA RoleTypeOK ==
    ASSUME TypeOK, Start
    PROVE  role' \in [Members -> Roles \cup {None}]
<1>1. CASE \E d \in Requested : /\ DOMAIN d = Players
                                /\ role' = [m \in Members |-> IF m \in Players THEN d[m] ELSE None]
  <2>1. PICK d \in Requested : /\ DOMAIN d = Players
                               /\ role' = [m \in Members |-> IF m \in Players THEN d[m] ELSE None]
    BY <1>1
  <2>2. PICK P \in SUBSET Members : d \in [P -> Roles]
    BY <2>1, RequestedAssumption
  <2> QED
    BY <2>1, <2>2
<1>2. CASE \E d \in [Players -> Roles] :
               role' = [m \in Members |-> IF m \in Players /\ role[m] = None THEN d[m] ELSE role[m]]
  BY <1>2 DEF TypeOK
<1> QED
  BY <1>1, <1>2 DEF Start, MayStart

LEMMA NextTypeOK ==
    ASSUME TypeOK, ProgressionsOK, [Next]_vars
    PROVE  TypeOK'
<1>1. ASSUME NEW m \in Members, Join(m) \/ Leave(m) \/ PlayerReconnected(m)
      PROVE  TypeOK'
  BY <1>1 DEF TypeOK, Join, Leave, PlayerReconnected, Statuses, day, night, MayJoin, MayLeave,
              MayChange
<1>2. ASSUME NEW m \in Members, PlayerDisconnected(m)
      PROVE  TypeOK'
  <2>1. CASE Captured(m) /\ TurnEnds
    BY <1>2, <2>1, CapturedFacts DEF TypeOK, PlayerDisconnected, TurnEnds, day, night, MayChange
  <2>2. CASE ~(Captured(m) /\ TurnEnds)
    BY <1>2, <2>2 DEF TypeOK, PlayerDisconnected, Statuses, day, night, MayChange
  <2> QED
    BY <2>1, <2>2
<1>3. ASSUME NEW m \in Members, NEW r \in Roles, AssignRole(m, r)
      PROVE  TypeOK'
  BY <1>3 DEF TypeOK, AssignRole, day, night, MayAssignRole
<1>4. CASE Start
  <2>1. phase' \in Playing /\ round' \in 0..MaxRounds /\ dealt' \in MinPlayers..MaxPlayers
    BY <1>4, LimitsAssumption DEF Start, Playing, Following, MayStart
  <2> QED
    BY <1>4, <2>1, RoleTypeOK DEF TypeOK, Start, day, night, MayStart
<1>5. ASSUME phase \in Playing
      PROVE  Following[phase] \in Playing
  BY <1>5 DEF Playing, Following
<1>6. CASE AdvancePhase \/ TimeoutPhase
  BY <1>5, <1>6, FinishTypeOK, EnterTypeOK DEF AdvancePhase, TimeoutPhase, MayAdvance,
                                               MayTimeOutPhase
<1>7. ASSUME NEW a \in Members, NEW t \in Members, AttemptCapture(a, t)
      PROVE  TypeOK'
  BY <1>7 DEF TypeOK, AttemptCapture, Turns, day, night, MayCapture
<1>8. ASSUME NEW a \in Members, NEW t \in Members, NightAction(a, t)
      PROVE  TypeOK'
  BY <1>8 DEF TypeOK, NightAction, day, night, MayAct
<1>9. ASSUME NEW a \in Members, NEW t \in Members, RaiseAccusation(a, t)
      PROVE  TypeOK'
  <2>1. accusation' \in Accusations
    BY <1>9 DEF TypeOK, RaiseAccusation, Accusations, MayAccuse
  <2>2. phase' \in Playing
    BY <1>9 DEF RaiseAccusation, Playing, Following, MayAccuse
  <2> QED
    BY <1>9, <2>1, <2>2 DEF TypeOK, RaiseAccusation, day, night, MayAccuse
<1>10. ASSUME NEW outcome, ResolveCapture(outcome)
       PROVE  TypeOK'
  <2>1. turn.pending \in Members
    BY <1>10 DEF ResolveCapture, Active, MayResolve
  <2>2. CASE Captured(turn.pending)
    BY <1>10, <2>1, <2>2, CapturedFacts DEF TypeOK, ResolveCapture, TurnEnds, day, night, MayResolve
  <2>3. CASE ~Captured(turn.pending)
    BY <1>10, <2>3 DEF TypeOK, ResolveCapture, TurnEnds, day, night, MayResolve
  <2> QED
    BY <2>2, <2>3
<1>11. CASE TimeoutTurn
  <2>1. turn.pending \in Members \cup {None}
    BY <1>11 DEF TimeoutTurn, TypeOK, Turns, MayTimeOutTurn
  <2>2. CASE turn.pending # None /\ Captured(turn.pending)
    BY <1>11, <2>1, <2>2, CapturedFacts DEF TypeOK, TimeoutTurn, TurnEnds, day, night,
                                            MayTimeOutTurn
  <2>3. CASE UNCHANGED <<status, prog>>
    BY <1>11, <2>3 DEF TypeOK, TimeoutTurn, TurnEnds, day, night, MayTimeOutTurn
  <2> QED
    BY <1>11, <2>2, <2>3 DEF TimeoutTurn, MayTimeOutTurn
<1>12. ASSUME NEW m \in Members, AttemptEscape(m) \/ ReleasePlayer(m)
       PROVE  TypeOK'
  <2>1. /\ Freed(m) \/ StillHeld(m)
        /\ prog' \in [Members -> Progressions \cup {None}]
    BY <1>12, HeldFacts DEF AttemptEscape, ReleasePlayer, MayEscape, MayRelease
  <2>2. status' \in [Members -> Statuses]
    BY <2>1 DEF TypeOK, Freed, StillHeld, Statuses
  <2> QED
    BY <1>12, <2>1, <2>2 DEF TypeOK, AttemptEscape, ReleasePlayer, day, night, MayEscape, MayRelease
<1>13. ASSUME NEW m \in Members, SkipDay(m)
       PROVE  TypeOK'
  BY <1>13 DEF TypeOK, SkipDay, Active, Playing, Following, day, night, MaySkip
<1>14. ASSUME NEW m \in Members, DefendAccusation(m)
       PROVE  TypeOK'
  BY <1>14 DEF TypeOK, DefendAccusation, Accusations, day, night, MayDefend
<1>15. ASSUME NEW m \in Members, NEW vote, TrialVote(m, vote)
       PROVE  TypeOK'
  <2>1. accusation' \in Accusations /\ status' \in [Members -> Statuses]
    BY <1>15 DEF TypeOK, TrialVote, Accusations, Statuses, Active, MayVote
  <2>2. phase' \in Playing
    BY <1>15 DEF TrialVote, Playing, Following, MayVote
  <2>3. due' \in BOOLEAN
    BY <1>15 DEF TrialVote, MayVote
  <2> QED
    BY <1>15, <2>1, <2>2, <2>3 DEF TypeOK, TrialVote, day, night, MayVote
<1>16. ASSUME NEW reason, EndGame(reason) \/ CompleteGame(reason)
       PROVE  TypeOK'
  BY <1>16, FinishTypeOK DEF EndGame, CompleteGame, MayEndGame
<1>17. CASE AbortSession \/ ShutdownSession
  BY <1>17, FinishTypeOK DEF AbortSession, ShutdownSession
<1>18. CASE TurnGoesBy \/ PhaseExpires
  BY <1>18 DEF TypeOK, TurnGoesBy, PhaseExpires, Rest, Turns, day, night
<1>19. ASSUME NEW m \in Members, CoolsDown(m)
       PROVE  TypeOK'
  BY <1>19 DEF TypeOK, CoolsDown, Rest, Progressions, day, night
<1>20. CASE UNCHANGED vars
  BY <1>20 DEF TypeOK, vars, day, night
<1> QED
  BY <1>1, <1>2, <1>3, <1>4, <1>6, <1>7, <1>8, <1>9, <1>10, <1>11, <1>12, <1>13, <1>14, <1>15,
     <1>16, <1>17, <1>18, <1>19, <1>20 DEF Next, Command, TimeGoesBy

--------------------------------------------------------------------------------
(* Who is held                                                                    *)

ProgOK == Valid /\ ProgressionsOK

(* Before the end, the captives are those whose status says so.                   *)
LEMMA CaptivesAre ==
    ASSUME ProgOK, ~Terminal, NEW m \in Members
    PROVE  Captive(m) <=> status[m] = "captured"
BY DEF ProgOK, ProgressionsOK, Valid, ProgressionsValid, Captive

LEMMA FinishReleases ==
    ASSUME NEW reason, Finish(reason)
    PROVE  Terminal' /\ ProgressionsOK' /\ \A m \in Members : ~Captive(m)'
BY DEF Finish, Terminal, Over, ProgressionsOK, Captive

(* Whoever is not captured by a step that does not change the progressions was    *)
(* not captured before: the snapshot would be rejected.                           *)
LEMMA OnlyStatus ==
    ASSUME TypeOK, ProgOK, ~Terminal, ~Terminal', Valid', NEW m \in Members, NEW s \in Statuses,
           s # "captured", status' = [status EXCEPT ![m] = s], prog' = prog
    PROVE  ProgressionsOK'
<1>1. status'[m] = s /\ \A n \in Members : n # m => status'[n] = status[n]
  BY DEF TypeOK
<1>2. \A n \in Members : status'[n] = "captured" => status[n] = "captured"
  BY <1>1
<1> QED
  BY <1>2 DEF ProgOK, ProgressionsOK

LEMMA CapturedOK ==
    ASSUME TypeOK, ProgOK, ~Terminal, ~Terminal', NEW m \in Members, Captured(m)
    PROVE  ProgressionsOK'
BY CapturedFacts DEF ProgOK, ProgressionsOK

LEMMA SameProgressions ==
    ASSUME ProgOK, UNCHANGED <<status, prog>>, Terminal' = Terminal
    PROVE  ProgressionsOK'
BY DEF ProgOK, ProgressionsOK

(* The passing of time does not make a snapshot invalid.                          *)
LEMMA ValidInTime ==
    ASSUME TypeOK, Valid, TimeGoesBy \/ UNCHANGED vars
    PROVE  Valid'
<1>1. UNCHANGED <<status, day, night>>
  BY DEF TimeGoesBy, TurnGoesBy, PhaseExpires, CoolsDown, Rest, vars
<1>2. Players' = Players /\ UNCHANGED <<skip, accusation, acted, lastTarget>>
  BY <1>1 DEF Players, day, night
<1>3. turn' # None => turn # None /\ turn'.owner = turn.owner /\ turn'.pending = turn.pending
  <2>1. CASE TurnGoesBy
    BY <2>1 DEF TurnGoesBy, TypeOK, Turns
  <2>2. CASE ~TurnGoesBy
    BY <2>2 DEF TimeGoesBy, PhaseExpires, CoolsDown, vars
  <2> QED
    BY <2>1, <2>2
<1>4. \A m \in Members : prog'[m] # None => prog[m] # None /\ prog'[m].phase = prog[m].phase
  <2>1. ASSUME NEW m \in Members, CoolsDown(m)
        PROVE  \A n \in Members : prog'[n] # None => prog[n] # None /\ prog'[n].phase = prog[n].phase
    <3>1. prog[m] \in Progressions
      BY <2>1 DEF TypeOK, CoolsDown
    <3> QED
      BY <2>1, <3>1 DEF CoolsDown, TypeOK, Progressions
  <2>2. CASE ~(\E m \in Members : CoolsDown(m))
    BY <2>2 DEF TimeGoesBy, TurnGoesBy, PhaseExpires, Rest, vars
  <2> QED
    BY <2>1, <2>2
<1>5. ProgressionsValid'
  BY <1>1, <1>2, <1>4 DEF Valid, ProgressionsValid
<1> QED
  BY <1>2, <1>3, <1>5 DEF Valid

(* Every step leaves a snapshot that the persistence accepts.                     *)
LEMMA NextValid ==
    ASSUME TypeOK, Valid, [Next]_vars
    PROVE  Valid'
BY ValidInTime DEF Next

LEMMA NextProgOK ==
    ASSUME TypeOK, TypeOK', ProgOK, TurnIsLive, [Next]_vars
    PROVE  ProgOK'
<1>0. Valid'
  BY NextValid DEF ProgOK
<1> SUFFICES ProgressionsOK'
  BY <1>0 DEF ProgOK
<1>1. ASSUME NEW m \in Members, Join(m)
      PROVE  ProgressionsOK'
  BY <1>0, <1>1, OnlyStatus DEF Join, Terminal, Over, Statuses, MayJoin
<1>2. ASSUME NEW m \in Members, Leave(m) \/ PlayerReconnected(m)
      PROVE  ProgressionsOK'
  BY <1>0, <1>2, OnlyStatus DEF Leave, PlayerReconnected, Statuses, MayLeave, MayChange, Terminal
<1>3. ASSUME NEW m \in Members, PlayerDisconnected(m)
      PROVE  ProgressionsOK'
  BY <1>0, <1>3, OnlyStatus, CapturedOK DEF PlayerDisconnected, Statuses, MayChange, Terminal
<1>4. CASE Start \/ \E m \in Members, r \in Roles : AssignRole(m, r)
  BY <1>4, SameProgressions DEF Start, AssignRole, Terminal, Over, MayAssignRole, MayStart
<1>5. ASSUME NEW to \in Playing, phase \in Playing, Enter(to)
      PROVE  ProgressionsOK'
  <2>1. Terminal' = Terminal
    BY <1>5 DEF Enter, Terminal, Over, Playing, Following
  <2> QED
    BY <1>5, <2>1, SameProgressions DEF Enter
<1>6. CASE AdvancePhase \/ TimeoutPhase
  <2>1. phase \in Playing /\ ~Terminal /\ Following[phase] \in Playing
    BY <1>6 DEF AdvancePhase, TimeoutPhase, Playing, Following, Terminal, Over, MayAdvance,
                MayTimeOutPhase
  <2> QED
    BY <1>5, <1>6, <2>1, FinishReleases DEF AdvancePhase, TimeoutPhase, MayAdvance, MayTimeOutPhase
<1>7. ASSUME NEW a \in Members, NEW t \in Members,
             AttemptCapture(a, t) \/ NightAction(a, t) \/ RaiseAccusation(a, t)
      PROVE  ProgressionsOK'
  BY <1>7, SameProgressions DEF AttemptCapture, NightAction, RaiseAccusation, Terminal, Over, MayCapture,
                       MayAct, MayAccuse
<1>8. ASSUME NEW outcome, ResolveCapture(outcome)
      PROVE  ProgressionsOK'
  <2>1. turn.pending \in Members /\ ~Terminal /\ Terminal' = Terminal
    BY <1>8 DEF ResolveCapture, Active, Terminal, Over, MayResolve
  <2> QED
    BY <1>8, <2>1, CapturedOK, SameProgressions DEF ResolveCapture, MayResolve
<1>9. CASE TimeoutTurn
  <2>1. turn.pending \in Members \cup {None} /\ ~Terminal /\ Terminal' = Terminal
    BY <1>9 DEF TimeoutTurn, TypeOK, Turns, Terminal, Over, MayTimeOutTurn
  <2> QED
    BY <1>9, <2>1, CapturedOK, SameProgressions DEF TimeoutTurn, MayTimeOutTurn
<1>10. ASSUME NEW m \in Members, AttemptEscape(m) \/ ReleasePlayer(m)
       PROVE  ProgressionsOK'
  <2>1. /\ Freed(m) \/ StillHeld(m)
        /\ prog'[m] # None /\ \A n \in Members : n # m => prog'[n] = prog[n]
        /\ status[m] = "captured" /\ ~Terminal /\ Terminal' = Terminal
    BY <1>10, HeldFacts DEF AttemptEscape, ReleasePlayer, Held, ProgOK, Terminal, MayEscape,
                            MayRelease
  <2>2. CASE Freed(m)
    BY <2>1, <2>2 DEF Freed, ProgOK, ProgressionsOK, TypeOK
  <2>3. CASE StillHeld(m)
    BY <2>1, <2>3 DEF StillHeld, ProgOK, ProgressionsOK
  <2> QED
    BY <2>1, <2>2, <2>3
<1>11. ASSUME NEW m \in Members, SkipDay(m) \/ DefendAccusation(m)
       PROVE  ProgressionsOK'
  BY <1>11, SameProgressions DEF SkipDay, DefendAccusation, Terminal, Over, MaySkip, MayDefend
<1>12. ASSUME NEW m \in Members, NEW vote, TrialVote(m, vote)
       PROVE  ProgressionsOK'
  <2>1. ~Terminal /\ Terminal' = Terminal /\ UNCHANGED prog
    BY <1>12 DEF TrialVote, Terminal, Over, MayVote
  <2>2. CASE status' = status
    BY <2>1, <2>2, SameProgressions
  <2>3. CASE accusation.accused \in Players
             /\ status' = [status EXCEPT ![accusation.accused] = "eliminated"]
    BY <1>0, <2>1, <2>3, OnlyStatus DEF Players, Statuses
  <2> QED
    BY <1>12, <2>2, <2>3 DEF TrialVote, MayVote
<1>13. ASSUME NEW reason, EndGame(reason) \/ CompleteGame(reason)
       PROVE  ProgressionsOK'
  <2>1. ~Terminal
    BY <1>13 DEF EndGame, CompleteGame, Terminal, Over, Playing, Following, MayEndGame
  <2> QED
    BY <1>13, <2>1, FinishReleases DEF EndGame, CompleteGame, MayEndGame
<1>14. CASE AbortSession \/ ShutdownSession
  BY <1>14, FinishReleases DEF AbortSession, ShutdownSession
<1>15. CASE TurnGoesBy \/ PhaseExpires \/ UNCHANGED vars
  BY <1>15, SameProgressions DEF TurnGoesBy, PhaseExpires, Rest, vars, Terminal
<1>16. ASSUME NEW m \in Members, CoolsDown(m)
       PROVE  ProgressionsOK'
  <2>1. prog[m] \in Progressions /\ UNCHANGED status /\ Terminal' = Terminal
    BY <1>16 DEF TypeOK, CoolsDown, Rest, Terminal
  <2>2. /\ prog'[m] \in Progressions /\ prog'[m].phase = prog[m].phase
        /\ prog'[m].attempts = prog[m].attempts
        /\ \A n \in Members : n # m => prog'[n] = prog[n]
    BY <1>16, <2>1 DEF TypeOK, CoolsDown, Progressions
  <2> QED
    BY <1>16, <2>1, <2>2, NoneAssumption DEF CoolsDown, ProgOK, ProgressionsOK
<1> QED
  BY <1>1, <1>2, <1>3, <1>4, <1>6, <1>7, <1>8, <1>9, <1>10, <1>11, <1>12, <1>13, <1>14, <1>15,
     <1>16 DEF Next, Command, TimeGoesBy

--------------------------------------------------------------------------------
(* The capture turn                                                               *)

LEMMA NoTurn == ASSUME turn' = None PROVE TurnIsLive'
BY DEF TurnIsLive

(* Outside the night there is no turn.                                            *)
LEMMA StillNoTurn ==
    ASSUME TurnIsLive, phase # "night", turn' = turn
    PROVE  TurnIsLive'
BY DEF TurnIsLive

LEMMA NextTurnIsLive ==
    ASSUME TypeOK, TypeOK', Valid', TurnIsLive, [Next]_vars
    PROVE  TurnIsLive'
<1>1. ASSUME NEW m \in Members, Join(m) \/ PlayerReconnected(m)
      PROVE  TurnIsLive'
  BY <1>1 DEF Join, PlayerReconnected, TurnIsLive, TypeOK, Active, MayJoin, MayChange
<1>2. ASSUME NEW m \in Members, Leave(m), turn # None
      PROVE  TurnIsLive'
  <2>1. turn' = turn /\ phase' = phase /\ turn \in Turns
    BY <1>2 DEF Leave, TypeOK, MayLeave
  <2>2. turn.owner \in Players' /\ (turn.pending # None => turn.pending \in Players')
    <3>1. turn.owner # None
      BY <2>1, NoneAssumption DEF Turns
    <3> QED
      BY <1>2, <2>1, <3>1 DEF Valid
  <2>3. turn.owner # m /\ turn.pending # m
    BY <1>2, <2>1, <2>2, NoneAssumption DEF Leave, Players, TypeOK, Turns, MayLeave
  <2> QED
    BY <1>2, <2>1, <2>3 DEF Leave, TurnIsLive, TypeOK, Active, MayLeave
<1>3. ASSUME NEW m \in Members, PlayerDisconnected(m)
      PROVE  TurnIsLive'
  BY <1>3 DEF PlayerDisconnected, TurnEnds, PendingCapture, TurnIsLive, TypeOK, Active, MayChange
<1>4. CASE Start \/ \E m \in Members, r \in Roles : AssignRole(m, r)
  BY <1>4, NoTurn, StillNoTurn DEF Start, AssignRole, MayAssignRole, MayStart
<1>5. ASSUME NEW to \in Playing, Enter(to)
      PROVE  TurnIsLive'
  <2>1. CASE to = "night"
    <3>1. /\ phase' = "night" /\ turn' = NewTurn /\ role' = role /\ Active' = Active
      BY <1>5, <2>1 DEF Enter, Active
    <3> QED
      BY <3>1, NewTurnFacts DEF TurnIsLive
  <2>2. CASE to # "night"
    BY <1>5, <2>2, NoTurn, StillNoTurn DEF Enter
  <2> QED
    BY <2>1, <2>2
<1>6. CASE AdvancePhase \/ TimeoutPhase
  <2>1. phase \in Playing => Following[phase] \in Playing
    BY DEF Playing, Following
  <2> QED
    BY <1>5, <1>6, <2>1, NoTurn DEF AdvancePhase, TimeoutPhase, Finish, MayAdvance, MayTimeOutPhase
<1>7. ASSUME NEW a \in Members, NEW t \in Members, AttemptCapture(a, t)
      PROVE  TurnIsLive'
  <2>1. turn'.owner = a /\ turn'.pending = t
    BY <1>7 DEF AttemptCapture, TypeOK, Turns, MayCapture
  <2> QED
    BY <1>7, <2>1 DEF AttemptCapture, TurnIsLive, Active, MayCapture
<1>8. ASSUME NEW a \in Members, NEW t \in Members, NightAction(a, t) \/ RaiseAccusation(a, t)
      PROVE  TurnIsLive'
  BY <1>8, StillNoTurn DEF NightAction, RaiseAccusation, TurnIsLive, Active, MayAct, MayAccuse
<1>9. CASE TimeoutTurn \/ \E outcome \in {"captured", "resisted", "escaped"} : ResolveCapture(outcome)
  BY <1>9, NoTurn DEF TimeoutTurn, ResolveCapture, TurnEnds, MayResolve, MayTimeOutTurn
<1>10. ASSUME NEW m \in Members, AttemptEscape(m) \/ ReleasePlayer(m)
       PROVE  TurnIsLive'
  <2>1. /\ UNCHANGED <<phase, turn, role>>
        /\ status' = status \/ status' = [status EXCEPT ![m] = "active"]
    BY <1>10 DEF AttemptEscape, ReleasePlayer, Escapes, MayEscape, MayRelease
  <2> QED
    BY <2>1 DEF TurnIsLive, TypeOK, Active
<1>11. CASE \E m \in Members : SkipDay(m) \/ DefendAccusation(m)
  BY <1>11, StillNoTurn DEF SkipDay, DefendAccusation, MaySkip, MayDefend
<1>12. CASE \E m \in Members, vote \in {"guilty", "innocent"} : TrialVote(m, vote)
  BY <1>12, StillNoTurn DEF TrialVote, MayVote
<1>13. CASE \/ \E reason \in {"normal", "timeout"} : EndGame(reason) \/ CompleteGame(reason)
            \/ AbortSession \/ ShutdownSession
  BY <1>13, NoTurn DEF EndGame, CompleteGame, AbortSession, ShutdownSession, Finish, MayEndGame
<1>14. CASE TurnGoesBy
  <2>1. turn'.owner = turn.owner /\ turn'.pending = turn.pending /\ turn # None
    BY <1>14 DEF TurnGoesBy, TypeOK, Turns
  <2> QED
    BY <1>14, <2>1 DEF TurnGoesBy, Rest, TurnIsLive, Active
<1>15. CASE PhaseExpires \/ (\E m \in Members : CoolsDown(m)) \/ UNCHANGED vars
  BY <1>15 DEF PhaseExpires, CoolsDown, Rest, vars, TurnIsLive, Active
<1>16. ASSUME NEW m \in Members, Leave(m)
       PROVE  TurnIsLive'
  BY <1>2, <1>16, NoTurn DEF Leave, MayLeave
<1> QED
  BY <1>1, <1>3, <1>4, <1>6, <1>7, <1>8, <1>9, <1>10, <1>11, <1>12, <1>13, <1>14, <1>15, <1>16
     DEF Next, Command, TimeGoesBy

--------------------------------------------------------------------------------
(* The day                                                                        *)

DayOK == VotingOK /\ DayIsItsOwn

LEMMA SameDay ==
    ASSUME DayOK, UNCHANGED <<phase, day>>
    PROVE  DayOK'
BY DEF DayOK, VotingOK, DayIsItsOwn, Terminal, day

LEMMA DayOver ==
    ASSUME Terminal', phase' # "voting"
    PROVE  DayOK'
BY DEF DayOK, VotingOK, DayIsItsOwn, Terminal, Over

(* A second accuser makes two.                                                    *)
LEMMA TwoAccusers ==
    ASSUME NEW a, NEW b, a # b
    PROVE  Cardinality({a} \cup {b}) = 2
<1>1. IsFiniteSet({a}) /\ Cardinality({a}) = 1
  BY FS_Singleton
<1>2. Cardinality({a} \cup {b}) = IF b \in {a} THEN Cardinality({a}) ELSE Cardinality({a}) + 1
  BY <1>1, FS_AddElement
<1>3. b \notin {a}
  OBVIOUS
<1> QED
  BY <1>1, <1>2, <1>3

LEMMA NextDayOK ==
    ASSUME TypeOK, DayOK, [Next]_vars
    PROVE  DayOK'
<1>1. CASE \E m \in Members : Join(m) \/ Leave(m) \/ PlayerDisconnected(m) \/ PlayerReconnected(m)
  BY <1>1, SameDay DEF Join, Leave, PlayerDisconnected, PlayerReconnected, MayJoin, MayLeave,
                       MayChange
<1>2. CASE \E m \in Members, r \in Roles : AssignRole(m, r)
  BY <1>2, SameDay DEF AssignRole, MayAssignRole
<1>3. CASE Start
  BY <1>3 DEF Start, DayOK, VotingOK, DayIsItsOwn, Terminal, Over, day, MayStart
<1>4. ASSUME phase \in Playing, Enter(Following[phase])
      PROVE  DayOK'
  <2>1. CASE phase = "resolving_day"
    BY <1>4, <2>1 DEF Enter, DayOK, VotingOK, DayIsItsOwn, Following
  <2>2. CASE phase # "resolving_day"
    <3>1. UNCHANGED day /\ phase' = Following[phase] /\ phase' # "night"
      BY <1>4, <2>2 DEF Enter, Playing, Following
    <3> QED
      BY <1>4, <2>2, <3>1
         DEF DayOK, VotingOK, DayIsItsOwn, Playing, Following, Terminal, Over, day
  <2> QED
    BY <2>1, <2>2
<1>5. ASSUME NEW reason, Finish(reason)
      PROVE  DayOK'
  BY <1>5, DayOver DEF Finish, Terminal, Over
<1>6. CASE AdvancePhase \/ TimeoutPhase
  BY <1>4, <1>5, <1>6 DEF AdvancePhase, TimeoutPhase, MayAdvance, MayTimeOutPhase
<1>7. CASE \E a, t \in Members : AttemptCapture(a, t) \/ NightAction(a, t)
  BY <1>7, SameDay DEF AttemptCapture, NightAction, MayCapture, MayAct
<1>8. ASSUME NEW a \in Members, NEW t \in Members, RaiseAccusation(a, t)
      PROVE  DayOK'
  <2>1. /\ phase = "voting" /\ UNCHANGED skip
        /\ phase' = IF Cardinality(accusation'.accusers) >= 2 THEN "defense" ELSE phase
    BY <1>8 DEF RaiseAccusation, MayAccuse
  <2>2. CASE accusation = None
    <3>1. accusation' \in Accusations /\ accusation'.accusers = {a}
          /\ accusation'.guilty = {} /\ accusation'.innocent = {}
      BY <1>8, <2>2 DEF RaiseAccusation, Accusations, MayAccuse
    <3>2. Cardinality({a}) = 1
      BY FS_Singleton
    <3>3. phase' = "voting"
      BY <2>1, <3>1, <3>2
    <3> QED
      BY <3>1, <3>3 DEF DayOK, VotingOK, DayIsItsOwn
  <2>3. CASE accusation # None
    <3>1. PICK b : accusation.accusers = {b}
      BY <2>1, <2>3 DEF DayOK, VotingOK
    <3>2. /\ accusation \in Accusations /\ accusation.guilty = {} /\ accusation.innocent = {}
      BY <2>1, <2>3 DEF TypeOK, DayOK, DayIsItsOwn, Terminal, Over
    <3>3. accusation' \in Accusations /\ accusation'.accusers = {b} \cup {a} /\ a # b
          /\ accusation'.guilty = {} /\ accusation'.innocent = {}
      BY <1>8, <2>3, <3>1, <3>2 DEF RaiseAccusation, Accusations, MayAccuse
    <3>4. Cardinality(accusation'.accusers) = 2
      <4>1. Cardinality({b} \cup {a}) = 2
        BY <3>3, TwoAccusers
      <4> QED
        BY <3>3, <4>1
    <3>5. phase' = "defense" /\ accusation' # None
      BY <2>1, <3>3, <3>4, NoneAssumption
    <3> QED
      BY <3>3, <3>4, <3>5 DEF DayOK, VotingOK, DayIsItsOwn
  <2> QED
    BY <2>2, <2>3
<1>9. CASE TimeoutTurn \/ \E outcome \in {"captured", "resisted", "escaped"} : ResolveCapture(outcome)
  BY <1>9, SameDay DEF TimeoutTurn, ResolveCapture, MayResolve, MayTimeOutTurn
<1>10. CASE \E m \in Members : AttemptEscape(m) \/ ReleasePlayer(m)
  BY <1>10, SameDay DEF AttemptEscape, ReleasePlayer, MayEscape, MayRelease
<1>11. CASE \E m \in Members : SkipDay(m)
  BY <1>11 DEF SkipDay, DayOK, VotingOK, DayIsItsOwn, MaySkip
<1>12. ASSUME NEW m \in Members, DefendAccusation(m)
       PROVE  DayOK'
  <2>1. /\ accusation \in Accusations /\ phase' = "defense" /\ phase = "defense" /\ skip' = skip
    BY <1>12 DEF DefendAccusation, TypeOK, MayDefend
  <2>2. /\ accusation' \in Accusations /\ accusation'.accusers = accusation.accusers
        /\ accusation'.guilty = accusation.guilty /\ accusation'.innocent = accusation.innocent
    BY <1>12, <2>1 DEF DefendAccusation, Accusations, MayDefend
  <2> QED
    BY <2>1, <2>2, <1>12, NoneAssumption
       DEF DefendAccusation, DayOK, VotingOK, DayIsItsOwn, Terminal, Over, MayDefend
<1>13. ASSUME NEW m \in Members, NEW vote, TrialVote(m, vote)
       PROVE  DayOK'
  <2>1. /\ accusation \in Accusations /\ phase = "trial" /\ phase' \in {"trial", "resolving_day"}
        /\ skip' = skip
    BY <1>13 DEF TrialVote, TypeOK, MayVote
  <2>2. accusation' \in Accusations /\ accusation'.accusers = accusation.accusers
    BY <1>13, <2>1 DEF TrialVote, Accusations, Active, MayVote
  <2> QED
    BY <2>1, <2>2, <1>13, NoneAssumption DEF TrialVote, DayOK, VotingOK, DayIsItsOwn, MayVote
<1>14. CASE \/ \E reason \in {"normal", "timeout"} : EndGame(reason) \/ CompleteGame(reason)
            \/ AbortSession \/ ShutdownSession
  BY <1>5, <1>14 DEF EndGame, CompleteGame, AbortSession, ShutdownSession, MayEndGame
<1>15. CASE \/ TurnGoesBy \/ PhaseExpires \/ \E m \in Members : CoolsDown(m)
            \/ UNCHANGED vars
  BY <1>15, SameDay DEF TurnGoesBy, PhaseExpires, CoolsDown, Rest, vars
<1> QED
  BY <1>1, <1>2, <1>3, <1>6, <1>7, <1>8, <1>9, <1>10, <1>11, <1>12, <1>13, <1>14, <1>15
     DEF Next, Command, TimeGoesBy

--------------------------------------------------------------------------------
(* The theorems                                                                   *)

LEMMA InitIInv == ASSUME Init PROVE IInv
<1>1. TypeOK
  <2>1. round \in 0..MaxRounds
    BY LimitsAssumption DEF Init
  <2> QED
    BY <2>1 DEF Init, TypeOK, Statuses
<1>2. Valid /\ ProgressionsOK /\ VotingOK /\ TurnIsLive
  BY DEF Init, Valid, ProgressionsValid, ProgressionsOK, VotingOK, TurnIsLive
<1>3. DayIsItsOwn
  BY DEF Init, DayIsItsOwn
<1> QED
  BY <1>1, <1>2, <1>3 DEF IInv

(* The invariant is inductive.                                                    *)
THEOREM Invariance == Spec => []IInv
<1>1. Init => IInv
  BY InitIInv
<1>2. IInv /\ [Next]_vars => IInv'
  <2> SUFFICES ASSUME IInv, [Next]_vars
               PROVE  IInv'
    OBVIOUS
  <2>1. TypeOK'
    BY NextTypeOK DEF IInv
  <2>2. ProgOK'
    BY <2>1, NextProgOK DEF IInv, ProgOK
  <2>3. TurnIsLive'
    BY <2>1, <2>2, NextTurnIsLive DEF IInv, ProgOK
  <2>4. DayOK'
    BY NextDayOK DEF IInv, DayOK
  <2> QED
    BY <2>1, <2>2, <2>3, <2>4 DEF IInv, ProgOK, DayOK
<1> QED
  BY <1>1, <1>2, PTL DEF Spec

(* Every variable has its type: no command counts an escape beyond those that     *)
(* release, nor a round that never begins.                                        *)
THEOREM TypeCorrect == Spec => []TypeOK
<1>1. IInv => TypeOK
  BY DEF IInv
<1> QED
  BY <1>1, Invariance, PTL

(* No turn, accusation or vote is left over from one phase of the state machine   *)
(* to another.                                                                    *)
THEOREM PhasesApart == Spec => []PhasesKeepApart
<1>1. IInv => PhasesKeepApart
  BY DEF IInv, PhasesKeepApart
<1> QED
  BY <1>1, Invariance, PTL

Captives == {m \in Members : Captive(m)}
AbstractVars == <<phase = "night", turn = None, Captives, Terminal>>

LEMMA SameCaptives == ASSUME prog' = prog PROVE Captives' = Captives
BY DEF Captives, Captive

LEMMA CapturedAdds ==
    ASSUME TypeOK, ProgOK, NEW m \in Members, Captured(m)
    PROVE  Captives' = Captives \cup {m}
BY CapturedFacts DEF Captives, Captive

(* A captive is freed, or held as before.                                         *)
LEMMA HeldCaptives ==
    ASSUME NEW m \in Members, Captive(m), Freed(m) \/ StillHeld(m), prog'[m] # None,
           \A n \in Members : n # m => prog'[n] = prog[n]
    PROVE  Captives' = IF Freed(m) THEN Captives \ {m} ELSE Captives
BY DEF Captives, Captive, Freed, StillHeld

LEMMA FinishIsEnd ==
    ASSUME IInv, NEW reason, ~Terminal, Finish(reason)
    PROVE  N!Next
<1>1. Terminal' /\ Captives' = {} /\ turn' = None
  BY FinishReleases DEF Captives, Finish
<1>2. phase' # "night"
  BY DEF Finish
<1> QED
  BY <1>1, <1>2 DEF N!Next, N!End, Captives

LEMMA EnterIsNight ==
    ASSUME IInv, phase \in Playing, Enter(Following[phase])
    PROVE  [N!Next]_AbstractVars
<1>1. ~Terminal /\ ~Terminal' /\ Captives' = Captives
  BY SameCaptives DEF Enter, Terminal, Over, Playing, Following
<1>2. CASE phase = "resolving_day"
  <2>1. phase' = "night"
    BY <1>2 DEF Enter, Following
  <2>2. N!Nightfall
    BY <1>1, <1>2, <2>1 DEF N!Nightfall, Terminal, Captives
  <2> QED
    BY <2>2 DEF N!Next
<1>3. CASE phase = "night"
  <2>1. phase' # "night" /\ turn' = None
    BY <1>3 DEF Enter, Following
  <2>2. N!Dawn
    BY <1>1, <1>3, <2>1 DEF N!Dawn, Terminal, Captives
  <2> QED
    BY <2>2 DEF N!Next
<1>4. CASE phase # "night" /\ phase # "resolving_day"
  <2>1. phase' # "night" /\ turn' = turn
    BY <1>4 DEF Enter, Playing, Following
  <2> QED
    BY <1>1, <1>4, <2>1 DEF AbstractVars, Terminal
<1> QED
  BY <1>2, <1>3, <1>4

(* Whom the turn waits for is not held, so  their capture is a new one.           *)
LEMMA CapturedIsCapture ==
    ASSUME IInv, ~Terminal, PendingCapture, Captured(turn.pending), TurnEnds, phase' = phase
    PROVE  N!Next
<1>1. phase = "night" /\ turn.pending \in Active /\ turn # None
  BY DEF IInv, TurnIsLive, PendingCapture
<1>2. turn.pending \in Members \ Captives
  BY <1>1, CaptivesAre DEF IInv, ProgOK, Active, Captives
<1>3. Captives' = Captives \cup {turn.pending}
  BY <1>2, CapturedAdds DEF IInv, ProgOK
<1>4. ~Terminal'
  BY DEF Terminal
<1>5. N!Capture
  BY <1>1, <1>2, <1>3, <1>4 DEF N!Capture, TurnEnds, Terminal, Captives
<1> QED
  BY <1>5 DEF N!Next

LEMMA EndIsForgo ==
    ASSUME IInv, turn # None, turn' = None, UNCHANGED <<phase, prog>>
    PROVE  N!Next
<1>1. phase = "night"
  BY DEF IInv, TurnIsLive
<1>2. N!Forgo
  BY <1>1, SameCaptives DEF N!Forgo, Terminal, Captives
<1> QED
  BY <1>2 DEF N!Next

LEMMA SameNight ==
    ASSUME UNCHANGED <<prog, turn = None, phase = "night", Terminal>>
    PROVE  [N!Next]_AbstractVars
BY SameCaptives DEF AbstractVars

LEMMA StepIsStep ==
    ASSUME IInv, [Next]_vars
    PROVE  [N!Next]_AbstractVars
<1>1. CASE \E m \in Members : Join(m) \/ Leave(m) \/ PlayerReconnected(m)
  BY <1>1, SameNight DEF Join, Leave, PlayerReconnected, Terminal, MayJoin, MayLeave, MayChange
<1>2. ASSUME NEW m \in Members, PlayerDisconnected(m)
      PROVE  [N!Next]_AbstractVars
  <2>1. CASE PendingCapture /\ turn.pending = m
    BY <1>2, <2>1, CapturedIsCapture DEF PlayerDisconnected, MayChange
  <2>2. CASE ~(PendingCapture /\ turn.pending = m)
    BY <1>2, <2>2, EndIsForgo, SameNight DEF PlayerDisconnected, Terminal, MayChange
  <2> QED
    BY <2>1, <2>2
<1>3. CASE \E m \in Members, r \in Roles : AssignRole(m, r)
  BY <1>3, SameNight DEF AssignRole, Terminal, MayAssignRole
<1>4. CASE Start
  <2>1. phase = "lobby" /\ phase' = "day" /\ turn' = None /\ prog' = prog
    BY <1>4 DEF Start, MayStart
  <2>2. turn = None
    BY <2>1 DEF IInv, TurnIsLive
  <2> QED
    BY <2>1, <2>2, SameNight DEF Terminal, Over
<1>5. CASE AdvancePhase \/ TimeoutPhase
  <2>1. phase \in Playing /\ ~Terminal
    BY <1>5 DEF AdvancePhase, TimeoutPhase, Playing, Following, Terminal, Over, MayAdvance,
                MayTimeOutPhase
  <2> QED
    BY <1>5, <2>1, FinishIsEnd, EnterIsNight DEF AdvancePhase, TimeoutPhase, MayAdvance,
                                                 MayTimeOutPhase
<1>6. ASSUME NEW a \in Members, NEW t \in Members, AttemptCapture(a, t)
      PROVE  [N!Next]_AbstractVars
  <2>1. turn # None /\ turn' \in Turns
    BY <1>6 DEF AttemptCapture, IInv, TypeOK, Turns, MayCapture
  <2> QED
    BY <1>6, <2>1, SameNight, NoneAssumption DEF AttemptCapture, Terminal, MayCapture
<1>7. ASSUME NEW a \in Members, NEW t \in Members, NightAction(a, t) \/ RaiseAccusation(a, t)
      PROVE  [N!Next]_AbstractVars
  BY <1>7, SameNight DEF NightAction, RaiseAccusation, Terminal, Over, MayAct, MayAccuse
<1>8. ASSUME NEW outcome, ResolveCapture(outcome)
      PROVE  [N!Next]_AbstractVars
  BY <1>8, CapturedIsCapture, EndIsForgo
     DEF ResolveCapture, PendingCapture, TurnEnds, Terminal, Over, MayResolve
<1>9. CASE TimeoutTurn
  BY <1>9, CapturedIsCapture, EndIsForgo DEF TimeoutTurn, PendingCapture, TurnEnds, MayTimeOutTurn
<1>10. ASSUME NEW m \in Members, AttemptEscape(m) \/ ReleasePlayer(m)
       PROVE  [N!Next]_AbstractVars
  <2>1. /\ Freed(m) \/ StillHeld(m)
        /\ prog'[m] # None /\ \A n \in Members : n # m => prog'[n] = prog[n]
        /\ Captive(m) /\ ~Terminal /\ UNCHANGED <<phase, turn>>
    BY <1>10, HeldFacts DEF AttemptEscape, ReleasePlayer, Held, IInv, MayEscape, MayRelease
  <2>2. CASE Freed(m)
    <3>1. m \in Captives /\ Captives' = Captives \ {m}
      BY <2>1, <2>2, HeldCaptives DEF Captives
    <3>2. N!Release
      BY <2>1, <3>1 DEF N!Release, Terminal, Captives
    <3> QED
      BY <3>2 DEF N!Next
  <2>3. CASE ~Freed(m)
    BY <2>1, <2>3, HeldCaptives DEF AbstractVars, Terminal
  <2> QED
    BY <2>2, <2>3
<1>11. CASE \E m \in Members : SkipDay(m) \/ DefendAccusation(m)
  BY <1>11, SameNight DEF SkipDay, DefendAccusation, Terminal, Over, MaySkip, MayDefend
<1>12. CASE \E m \in Members, vote \in {"guilty", "innocent"} : TrialVote(m, vote)
  BY <1>12, SameNight DEF TrialVote, Terminal, Over, MayVote
<1>13. CASE \/ \E reason \in {"normal", "timeout"} : EndGame(reason) \/ CompleteGame(reason)
            \/ AbortSession \/ ShutdownSession
  <2>1. ~Terminal
    BY <1>13 DEF EndGame, CompleteGame, AbortSession, ShutdownSession, Terminal, Over, Playing,
                 MayEndGame,
                 Following
  <2> QED
    BY <1>13, <2>1, FinishIsEnd DEF EndGame, CompleteGame, AbortSession, ShutdownSession, MayEndGame
<1>14. CASE TurnGoesBy
  <2>1. turn # None /\ turn' \in Turns
    BY <1>14 DEF TurnGoesBy, IInv, TypeOK, Turns
  <2> QED
    BY <1>14, <2>1, SameNight, NoneAssumption DEF TurnGoesBy, Rest, Terminal
<1>15. CASE PhaseExpires \/ UNCHANGED vars
  BY <1>15, SameNight DEF PhaseExpires, Rest, vars, Terminal
<1>16. ASSUME NEW m \in Members, CoolsDown(m)
       PROVE  [N!Next]_AbstractVars
  <2>1. prog[m] \in Progressions /\ UNCHANGED <<phase, turn>>
    BY <1>16 DEF IInv, TypeOK, CoolsDown, Rest
  <2>2. /\ prog'[m] \in Progressions /\ prog'[m].phase = prog[m].phase
        /\ \A n \in Members : n # m => prog'[n] = prog[n]
    BY <1>16, <2>1 DEF IInv, TypeOK, CoolsDown, Progressions
  <2>3. Captives' = Captives
    BY <1>16, <2>2, NoneAssumption DEF CoolsDown, Captives, Captive
  <2> QED
    BY <2>1, <2>3 DEF AbstractVars, Terminal
<1> QED
  BY <1>1, <1>2, <1>3, <1>4, <1>5, <1>6, <1>7, <1>8, <1>9, <1>10, <1>11, <1>12, <1>13, <1>14, <1>15,
     <1>16 DEF Next, Command, TimeGoesBy

(* The game implements CaptureNights, for any number of players, rounds and       *)
(* attempts.                                                                      *)
THEOREM Implements == Spec => ImplementsNights
<1>1. Init => N!Init
  BY DEF Init, N!Init, Terminal, Over, Captive
<1>2. IInv /\ [Next]_vars => [N!Next]_AbstractVars
  BY StepIsStep
<1> QED
  BY <1>1, <1>2, Invariance, PTL DEF Spec, ImplementsNights, N!Spec, N!vars, AbstractVars, Captives

--------------------------------------------------------------------------------
(* The capture service                                                            *)

(* What the service does leaves the game as it is.                                *)
LEMMA ServiceStep == ASSUME [ServiceNext]_allVars PROVE [Next]_vars
BY DEF ServiceNext, Recorded, Next, allVars

(* The game that is served is a game: what is proved of it holds with the service.*)
THEOREM ServiceRefines == ServiceSpec => Spec
<1>1. ServiceInit => Init
  BY DEF ServiceInit
<1>2. [ServiceNext]_allVars => [Next]_vars
  BY ServiceStep
<1> QED
  BY <1>1, <1>2, PTL DEF ServiceSpec, Spec

(* A captive is bound already, or yet to be, and nothing frees them; whoever is   *)
(* no captive is free, or a chain has yet to find what binds them or to take it   *)
(* off, and nothing binds them any more.                                          *)
BeingHeld(m) ==
    /\ ~Freeing(m)
    /\ bonds[m] # {} \/ Binding(m)
    /\ mark[m] # "never" \/ \E s \in Slots : Comes(m, s, "mark")

BeingFreed(m) ==
    /\ ~Binding(m)
    /\ mark[m] = "active" => Freeing(m)
    /\ \/ bonds[m] = {}
       \/ \E s \in Slots : Comes(m, s, "read")
       \/ \E s \in Slots : Comes(m, s, "remove") /\ bonds[m] \subseteq chain[m][s].items

BindsSomething ==
    \A m \in Members, s \in Slots :
        Comes(m, s, "mark") \/ Comes(m, s, "bind") => chain[m][s].items # {}

Sides == \A m \in Members \ upset : IF Captive(m) THEN BeingHeld(m) ELSE BeingFreed(m)

ServiceInv == IInv /\ ServiceTypeOK /\ BindsSomething /\ Sides

LEMMA SidesShow ==
    ASSUME Sides
    PROVE  BoundAreCaptured
<1>1. ASSUME NEW m \in Members \ upset, Underway(m) = {}
      PROVE  /\ ~Binding(m) /\ ~Freeing(m)
             /\ \A s \in Slots, call \in {"mark", "read", "remove"} : ~Comes(m, s, call)
  BY <1>1 DEF Underway, Binding, Freeing, Comes
<1> QED
  BY <1>1 DEF Sides, BeingHeld, BeingFreed, BoundAreCaptured

(* Whether one is bound depends on one's own chains only.                         *)
LEMMA OthersAreLeft ==
    ASSUME NEW m \in Members, chain'[m] = chain[m], bonds'[m] = bonds[m], mark'[m] = mark[m]
    PROVE  (BeingHeld(m) => BeingHeld(m)') /\ (BeingFreed(m) => BeingFreed(m)')
BY DEF BeingHeld, BeingFreed, Binding, Freeing, Underway, Comes

--------------------------------------------------------------------------------
(* Its calls                                                                      *)

LEMMA ComesFacts ==
    ASSUME ServiceTypeOK, NEW m \in Members, NEW s \in Slots, chain[m][s] # None
    PROVE  chain[m][s] \in Chains /\ chain[m][s].items \in SUBSET Levels
BY DEF ServiceTypeOK, Chains

LEMMA CallTypeOK ==
    ASSUME ServiceTypeOK, NEW m \in Members, NEW s \in Slots, Call(m, s), UNCHANGED vars
    PROVE  ServiceTypeOK'
<1>1. TypeOK'
  BY DEF ServiceTypeOK, TypeOK, vars, day, night
<1>2. chain[m][s] \in Chains /\ chain[m][s].items \in SUBSET Levels /\ bonds[m] \in SUBSET Levels
  BY ComesFacts DEF Call, ApplyEffect, ApplyBondage, ReadBondage, RemoveItem, Removed,
                    CancelEffect, Retry, GiveUp, Comes, ServiceTypeOK
<1>3. chain' \in [Members -> [Slots -> Chains \cup {None}]]
  <2>1. ASSUME NEW call \in {"bind", "read", "remove", "unmark"}, NEW items \in SUBSET Levels,
               GoesOn(m, s, call, items)
        PROVE  chain' \in [Members -> [Slots -> Chains \cup {None}]]
    BY <2>1 DEF GoesOn, Chains, ServiceTypeOK
  <2>2. CASE Ends(m, s) \/ UNCHANGED chain
    BY <2>2 DEF Ends, ServiceTypeOK
  <2>3. CASE ApplyEffect(m, s) \/ ReadBondage(m, s) \/ Removed(m, s)
    BY <1>2, <2>1, <2>3 DEF ApplyEffect, ReadBondage, Removed
  <2>4. CASE RemoveItem(m, s)
    BY <1>2, <2>1, <2>4 DEF RemoveItem
  <2>5. CASE Retry(m, s)
    BY <2>1, <2>2, <2>5 DEF Retry
  <2> QED
    BY <2>2, <2>3, <2>4, <2>5 DEF Call, ApplyBondage, CancelEffect, GiveUp
<1>4. bonds' \in [Members -> SUBSET Levels]
  BY <1>2 DEF Call, ApplyEffect, ApplyBondage, ReadBondage, RemoveItem, Removed, CancelEffect,
              Retry, GiveUp, ServiceTypeOK
<1>5. mark' \in [Members -> {"never", "active", "cancelled"}] /\ upset' \subseteq Members
  BY DEF Call, ApplyEffect, ApplyBondage, ReadBondage, RemoveItem, Removed, CancelEffect, Retry,
         GiveUp, Marks, Unmarks, ServiceTypeOK
<1> QED
  BY <1>1, <1>3, <1>4, <1>5 DEF ServiceTypeOK

(* The chain goes on with the next call, and leaves the others alone.             *)
LEMMA ChainGoesOn ==
    ASSUME ServiceTypeOK, NEW m \in Members, NEW s \in Slots, NEW call, NEW items,
           GoesOn(m, s, call, items),
           call \in {"bind", "read", "remove", "unmark"}, items \in SUBSET Levels
    PROVE  /\ Comes(m, s, call)' /\ chain'[m][s].items = items
           /\ \A c : c # call => ~Comes(m, s, c)'
           /\ \A t \in Slots \ {s} : chain'[m][t] = chain[m][t]
           /\ \A n \in Members \ {m} : chain'[n] = chain[n]
<1> DEFINE c == [next |-> call, items |-> items]
<1>1. c \in Chains
  BY DEF Chains
<1>2. c # None
  BY <1>1, ChainsAssumption
<1>3. chain' = [chain EXCEPT ![m][s] = c]
  BY DEF GoesOn
<1>4. chain'[m][s] = c
  BY <1>3 DEF ServiceTypeOK
<1> QED
  BY <1>2, <1>3, <1>4 DEF ServiceTypeOK, Comes

LEMMA ChainEnds ==
    ASSUME ServiceTypeOK, NEW m \in Members, NEW s \in Slots, Ends(m, s)
    PROVE  /\ chain'[m][s] = None
           /\ \A t \in Slots \ {s} : chain'[m][t] = chain[m][t]
           /\ \A n \in Members \ {m} : chain'[n] = chain[n]
BY DEF ServiceTypeOK, Ends

(* A captive is bound or yet to be after each call of their chains.               *)
LEMMA CallKeepsHeld ==
    ASSUME ServiceTypeOK, BindsSomething, NEW m \in Members, NEW s \in Slots,
           Call(m, s), ~GiveUp(m, s), BeingHeld(m)
    PROVE  BeingHeld(m)'
<1>1. \A t \in Slots : ~Comes(m, t, "read") /\ ~Comes(m, t, "remove") /\ ~Comes(m, t, "unmark")
  BY DEF BeingHeld, Freeing, Underway, Comes
<1>2. CASE ApplyEffect(m, s)
  <2>1. /\ Comes(m, s, "bind")' /\ ~Comes(m, s, "mark")'
        /\ \A t \in Slots \ {s} : chain'[m][t] = chain[m][t]
    BY <1>2, ComesFacts, ChainGoesOn DEF ApplyEffect, Comes
  <2>2. mark'[m] # "never"
    BY <1>2 DEF ApplyEffect, Marks, ServiceTypeOK
  <2> QED
    BY <1>1, <2>1, <2>2 DEF BeingHeld, Binding, Freeing, Underway, Comes
<1>3. CASE ApplyBondage(m, s)
  <2>1. chain'[m][s] = None /\ \A t \in Slots \ {s} : chain'[m][t] = chain[m][t]
    BY <1>3, ChainEnds DEF ApplyBondage
  <2>2. bonds'[m] # {} /\ mark' = mark
    BY <1>3 DEF ApplyBondage, BindsSomething, ServiceTypeOK
  <2>3. ~Comes(m, s, "mark")
    BY <1>3 DEF ApplyBondage, Comes
  <2> QED
    BY <1>1, <2>1, <2>2, <2>3 DEF BeingHeld, Freeing, Underway, Comes
<1>4. CASE Retry(m, s)
  <2>1. chain' = chain
    BY <1>1, <1>4 DEF Retry
  <2>2. bonds'[m] # {} \/ bonds'[m] = bonds[m]
    BY <1>1, <1>4 DEF Retry, BindsSomething, ServiceTypeOK
  <2>3. mark'[m] # "never" \/ mark'[m] = mark[m]
    BY <1>1, <1>4 DEF Retry, Marks, ServiceTypeOK
  <2> QED
    BY <2>1, <2>2, <2>3 DEF BeingHeld, Binding, Freeing, Underway, Comes
<1> QED
  BY <1>1, <1>2, <1>3, <1>4 DEF Call, ReadBondage, RemoveItem, Removed, CancelEffect

(* Whoever is no captive is free in the end, whatever chains free them.           *)
LEMMA CallKeepsFreed ==
    ASSUME ServiceTypeOK, NEW m \in Members, NEW s \in Slots,
           Call(m, s), ~GiveUp(m, s), BeingFreed(m)
    PROVE  BeingFreed(m)'
<1>1. \A t \in Slots : ~Comes(m, t, "mark") /\ ~Comes(m, t, "bind")
  BY DEF BeingFreed, Binding, Underway, Comes
<1>2. ASSUME NEW call \in {"read", "remove", "unmark"}, NEW items \in SUBSET Levels,
             GoesOn(m, s, call, items), mark' = mark
      PROVE  ~Binding(m)' /\ (mark'[m] = "active" => Freeing(m)')
  <2>1. /\ Comes(m, s, call)' /\ ~Comes(m, s, "mark")' /\ ~Comes(m, s, "bind")'
        /\ \A t \in Slots \ {s} : chain'[m][t] = chain[m][t]
    BY <1>2, ChainGoesOn
  <2> QED
    BY <1>1, <2>1 DEF Binding, Freeing, Underway, Comes
<1>3. CASE ReadBondage(m, s)
  <2>1. bonds[m] \in SUBSET Levels /\ GoesOn(m, s, "remove", bonds[m]) /\ UNCHANGED <<bonds, mark>>
    BY <1>3 DEF ReadBondage, ServiceTypeOK
  <2>2. Comes(m, s, "remove")' /\ chain'[m][s].items = bonds[m]
    BY <2>1, ChainGoesOn
  <2> QED
    BY <1>2, <2>1, <2>2 DEF BeingFreed
<1>4. CASE RemoveItem(m, s)
  <2>1. PICK i \in chain[m][s].items : /\ bonds' = [bonds EXCEPT ![m] = @ \ {i}]
                                       /\ GoesOn(m, s, "remove", chain[m][s].items \ {i})
    BY <1>4 DEF RemoveItem
  <2>2. chain[m][s].items \ {i} \in SUBSET Levels /\ mark' = mark
    BY <1>4, ComesFacts DEF RemoveItem, Comes
  <2>3. /\ Comes(m, s, "remove")' /\ chain'[m][s].items = chain[m][s].items \ {i}
        /\ \A t \in Slots \ {s} : chain'[m][t] = chain[m][t]
    BY <2>1, <2>2, ChainGoesOn
  <2>4. bonds'[m] = bonds[m] \ {i}
    BY <2>1 DEF ServiceTypeOK
  <2>5. ~Comes(m, s, "read")
    BY <1>4 DEF RemoveItem, Comes
  <2> QED
    BY <1>2, <2>1, <2>2, <2>3, <2>4, <2>5 DEF BeingFreed, Comes
<1>5. CASE Removed(m, s)
  <2>1. /\ GoesOn(m, s, "unmark", {}) /\ {} \in SUBSET Levels /\ UNCHANGED <<bonds, mark>>
        /\ chain[m][s].items = {} /\ ~Comes(m, s, "read")
    BY <1>5 DEF Removed, Comes
  <2>2. \A t \in Slots \ {s} : chain'[m][t] = chain[m][t]
    BY <2>1, ChainGoesOn
  <2> QED
    BY <1>2, <2>1, <2>2 DEF BeingFreed, Comes
<1>6. CASE CancelEffect(m, s)
  <2>1. chain'[m][s] = None /\ \A t \in Slots \ {s} : chain'[m][t] = chain[m][t]
    BY <1>6, ChainEnds DEF CancelEffect
  <2>2. bonds' = bonds /\ mark'[m] # "active" /\ ~Comes(m, s, "read") /\ ~Comes(m, s, "remove")
    BY <1>6 DEF CancelEffect, Unmarks, ServiceTypeOK, Comes
  <2> QED
    BY <1>1, <2>1, <2>2 DEF BeingFreed, Binding, Underway, Comes
<1>7. CASE Retry(m, s)
  <2>1. CASE Comes(m, s, "remove") /\ GoesOn(m, s, "read", {}) /\ UNCHANGED <<bonds, mark>>
    <3>1. Comes(m, s, "read")'
      BY <2>1, ChainGoesOn
    <3> QED
      BY <1>2, <2>1, <3>1 DEF BeingFreed
  <2>2. CASE Comes(m, s, "unmark") /\ Unmarks(m) /\ UNCHANGED <<chain, bonds>>
    <3>1. mark'[m] # "active"
      BY <2>2 DEF Unmarks, ServiceTypeOK
    <3> QED
      BY <2>2, <3>1 DEF BeingFreed, Binding, Underway, Comes
  <2> QED
    BY <1>1, <1>7, <2>1, <2>2 DEF Retry
<1> QED
  BY <1>1, <1>3, <1>4, <1>5, <1>6, <1>7 DEF Call, ApplyEffect, ApplyBondage

LEMMA CallOK ==
    ASSUME ServiceInv, NEW m \in Members, NEW s \in Slots, Call(m, s), UNCHANGED vars
    PROVE  BindsSomething' /\ Sides'
<1>1. BindsSomething'
  <2>1. ASSUME NEW n \in Members, NEW t \in Slots, Comes(n, t, "mark")' \/ Comes(n, t, "bind")'
        PROVE  chain'[n][t].items # {}
    <3>1. CASE chain'[n][t] = chain[n][t]
      BY <2>1, <3>1 DEF ServiceInv, BindsSomething, Comes
    <3>2. CASE ApplyEffect(m, s) /\ n = m /\ t = s
      <4>1. chain'[m][s].items = chain[m][s].items
        BY <3>2, ComesFacts, ChainGoesOn DEF ApplyEffect, Comes, ServiceInv
      <4> QED
        BY <3>2, <4>1 DEF ApplyEffect, ServiceInv, BindsSomething
    <3>3. ASSUME NEW call \in {"read", "remove", "unmark"}, NEW items \in SUBSET Levels,
                 GoesOn(m, s, call, items)
          PROVE  chain'[n][t] = chain[n][t]
      BY <2>1, <3>3, ChainGoesOn DEF ServiceInv
    <3>4. CASE Ends(m, s)
      BY <2>1, <3>1, <3>4, ChainEnds DEF ServiceInv, Comes
    <3>5. CASE ApplyEffect(m, s) /\ ~(n = m /\ t = s)
      BY <3>1, <3>5, ComesFacts, ChainGoesOn DEF ApplyEffect, Comes, ServiceInv
    <3>6. CASE ReadBondage(m, s) \/ Removed(m, s)
      BY <3>1, <3>3, <3>6 DEF ReadBondage, Removed, ServiceInv, ServiceTypeOK
    <3>7. CASE RemoveItem(m, s)
      BY <3>1, <3>3, <3>7, ComesFacts DEF RemoveItem, ServiceInv, Comes
    <3>8. CASE Retry(m, s)
      BY <3>1, <3>3, <3>8 DEF Retry
    <3> QED
      BY <3>2, <3>4, <3>5, <3>6, <3>7, <3>8 DEF Call, ApplyBondage, CancelEffect, GiveUp
  <2> QED
    BY <2>1 DEF BindsSomething
<1>2. \A n \in Members : Captive(n)' = Captive(n)
  BY DEF Captive, vars
<1>3. ASSUME NEW n \in Members \ upset'
      PROVE  IF Captive(n)' THEN BeingHeld(n)' ELSE BeingFreed(n)'
  <2>1. n \notin upset /\ (n = m => ~GiveUp(m, s))
    BY <1>3 DEF Call, ApplyEffect, ApplyBondage, ReadBondage, RemoveItem, Removed, CancelEffect,
                Retry, GiveUp, ServiceInv, ServiceTypeOK
  <2>2. IF Captive(n) THEN BeingHeld(n) ELSE BeingFreed(n)
    BY <2>1 DEF ServiceInv, Sides
  <2>3. CASE n = m
    BY <1>2, <2>1, <2>2, <2>3, CallKeepsHeld, CallKeepsFreed DEF ServiceInv
  <2>4. CASE n # m
    <3>1. bonds'[n] = bonds[n] /\ mark'[n] = mark[n]
      BY <2>4 DEF Call, ApplyEffect, ApplyBondage, ReadBondage, RemoveItem, Removed, CancelEffect,
                  Retry, GiveUp, Marks, Unmarks, ServiceInv, ServiceTypeOK
    <3>2. chain'[n] = chain[n]
      BY <2>4 DEF Call, ApplyEffect, ApplyBondage, ReadBondage, RemoveItem, Removed, CancelEffect,
                  Retry, GiveUp, GoesOn, Ends, ServiceInv, ServiceTypeOK
    <3> QED
      BY <1>2, <2>2, <3>1, <3>2, OthersAreLeft
  <2> QED
    BY <2>3, <2>4
<1> QED
  BY <1>1, <1>3 DEF Sides

--------------------------------------------------------------------------------
(* What the commands ask of it                                                    *)

LEMMA FirstCallFacts ==
    ASSUME TypeOK', NEW m \in Asking
    PROVE  /\ FirstCall(m) \in Chains /\ FirstCall(m) # None
           /\ FirstCall(m).next = IF Released(m) THEN "read" ELSE IF Caught(m) THEN "mark" ELSE "bind"
           /\ ~Released(m) => FirstCall(m).items # {}
<1>1. CASE Released(m)
  BY <1>1, ChainsAssumption DEF FirstCall, Chains
<1>2. CASE ~Released(m)
  <2>1. m \in Members /\ prog'[m] # None
    BY <1>2 DEF Asking, Caught, Tightened, Captive
  <2>2. prog'[m].level \in Levels
    BY <2>1 DEF TypeOK, Progressions, Levels
  <2> QED
    BY <1>2, <2>2, ChainsAssumption DEF FirstCall, Chains
<1> QED
  BY <1>1, <1>2

(* The chain that a command asks for takes a slot that is free.                   *)
LEMMA ServeFacts ==
    ASSUME ServiceTypeOK, TypeOK', Serve, NEW m \in Members
    PROVE  /\ chain'[m] \in [Slots -> Chains \cup {None}]
           /\ m \notin Asking => chain'[m] = chain[m]
           /\ m \in Asking => \E s \in Slots :
                  /\ chain[m][s] = None /\ chain'[m][s] = FirstCall(m)
                  /\ \A t \in Slots \ {s} : chain'[m][t] = chain[m][t]
<1>1. chain[m] \in [Slots -> Chains \cup {None}]
  BY DEF ServiceTypeOK
<1>2. CASE m \in Asking
  <2>1. \E s \in Slots : chain[m][s] = None
    BY <1>2 DEF Serve, Underway
  <2>2. FreeSlot(m) \in Slots /\ chain[m][FreeSlot(m)] = None
    BY <2>1 DEF FreeSlot
  <2>3. chain'[m] = [chain[m] EXCEPT ![FreeSlot(m)] = FirstCall(m)]
    BY <1>2 DEF Serve
  <2>4. FirstCall(m) \in Chains
    BY <1>2, FirstCallFacts
  <2>5. /\ chain'[m] \in [Slots -> Chains \cup {None}]
        /\ chain'[m][FreeSlot(m)] = FirstCall(m)
        /\ \A t \in Slots \ {FreeSlot(m)} : chain'[m][t] = chain[m][t]
    BY <1>1, <2>2, <2>3, <2>4
  <2> QED
    BY <1>2, <2>2, <2>5
<1>3. CASE m \notin Asking
  BY <1>1, <1>3 DEF Serve
<1> QED
  BY <1>2, <1>3

LEMMA RecordedTypeOK ==
    ASSUME ServiceTypeOK, TypeOK', Recorded
    PROVE  ServiceTypeOK'
<1>1. Asking \subseteq Members
  BY DEF Asking
<1>2. UNCHANGED <<bonds, mark>> /\ upset' \subseteq Members
  BY <1>1 DEF Recorded, Serve, Unserved, ServiceTypeOK
<1>3. chain' \in [Members -> [Slots -> Chains \cup {None}]]
  <2>1. CASE Serve
    <3>1. chain' = [m \in Members |-> chain'[m]]
      BY <2>1 DEF Serve
    <3>2. \A m \in Members : chain'[m] \in [Slots -> Chains \cup {None}]
      BY <2>1, ServeFacts
    <3> QED
      BY <3>1, <3>2
  <2>2. CASE ~Serve
    BY <2>2 DEF Recorded, Unserved, ServiceTypeOK
  <2> QED
    BY <2>1, <2>2
<1> QED
  BY <1>2, <1>3 DEF ServiceTypeOK

(* Whatever state a player is in, a capture or a release that overtakes nothing   *)
(* leads to the one it should; bonds are tightened from the state they are in.    *)
LEMMA AskedOK ==
    ASSUME TypeOK', ProgressionsOK', ServiceTypeOK, Serve, UNCHANGED <<bonds, mark>>,
           NEW m \in Asking, ~Overtaking(m), ~Tightened(m) \/ BeingHeld(m)
    PROVE  IF Captive(m)' THEN BeingHeld(m)' ELSE BeingFreed(m)'
<1>1. m \in Members
  BY DEF Asking
<1>2. PICK s \in Slots : /\ chain[m][s] = None /\ chain'[m][s] = FirstCall(m)
                         /\ \A t \in Slots \ {s} : chain'[m][t] = chain[m][t]
  BY <1>1, ServeFacts
<1>3. CASE Released(m)
  <2>1. ~Captive(m)'
    BY <1>1, <1>3 DEF Released, Captive, ProgressionsOK
  <2>2. FirstCall(m) # None /\ FirstCall(m).next = "read"
    BY <1>3, FirstCallFacts
  <2>3. ~Binding(m)
    BY <1>3 DEF Overtaking
  <2> QED
    BY <1>2, <2>1, <2>2, <2>3 DEF BeingFreed, Binding, Freeing, Underway, Comes
<1>4. CASE ~Released(m)
  <2>1. Captive(m)' /\ ~Freeing(m)
    BY <1>4 DEF Asking, Caught, Tightened, Overtaking
  <2>2. FirstCall(m) # None /\ FirstCall(m).next = IF Caught(m) THEN "mark" ELSE "bind"
    BY <1>4, FirstCallFacts
  <2>3. CASE Caught(m)
    BY <1>2, <2>1, <2>2, <2>3 DEF BeingHeld, Binding, Freeing, Underway, Comes
  <2>4. CASE ~Caught(m)
    <3>1. BeingHeld(m)
      BY <1>4, <2>4 DEF Asking
    <3> QED
      BY <1>2, <2>1, <2>2, <2>4, <3>1 DEF BeingHeld, Binding, Freeing, Underway, Comes
  <2> QED
    BY <2>3, <2>4
<1> QED
  BY <1>3, <1>4

LEMMA RecordedOK ==
    ASSUME ServiceInv, TypeOK', ProgressionsOK', Recorded
    PROVE  BindsSomething' /\ Sides'
<1>1. BindsSomething'
  <2>1. ASSUME NEW m \in Members, NEW s \in Slots, Comes(m, s, "mark")' \/ Comes(m, s, "bind")'
        PROVE  chain'[m][s].items # {}
    <3>1. CASE chain'[m][s] = chain[m][s]
      BY <2>1, <3>1 DEF ServiceInv, BindsSomething, Comes
    <3>2. CASE m \in Asking /\ chain'[m][s] = FirstCall(m)
      BY <2>1, <3>2, FirstCallFacts DEF Comes
    <3> QED
      BY <3>1, <3>2, ServeFacts DEF Recorded, Unserved, ServiceInv
  <2> QED
    BY <2>1 DEF BindsSomething
<1>2. ASSUME NEW m \in Members \ upset'
      PROVE  IF Captive(m)' THEN BeingHeld(m)' ELSE BeingFreed(m)'
  <2>1. UNCHANGED <<bonds, mark>>
    BY DEF Recorded
  <2>2. ASSUME m \notin upset, chain'[m] = chain[m], Captive(m)' = Captive(m)
        PROVE  IF Captive(m)' THEN BeingHeld(m)' ELSE BeingFreed(m)'
    <3>1. IF Captive(m) THEN BeingHeld(m) ELSE BeingFreed(m)
      BY <2>2 DEF ServiceInv, Sides
    <3> QED
      BY <2>1, <2>2, <3>1, OthersAreLeft
  <2>3. m \notin Asking => Captive(m)' = Captive(m)
    BY DEF Asking, Caught, Released, Captive
  <2>4. CASE prog' = prog /\ UNCHANGED <<chain, upset>>
    BY <2>2, <2>4 DEF Captive
  <2>5. CASE Unserved
    BY <2>2, <2>3, <2>5 DEF Unserved
  <2>6. CASE Serve /\ m \notin Asking
    <3>1. m \notin upset /\ chain'[m] = chain[m]
      BY <1>2, <2>6, ServeFacts DEF Serve, ServiceInv
    <3> QED
      BY <2>2, <2>3, <2>6, <3>1
  <2>7. CASE Serve /\ m \in Asking
    <3>1. ~Overtaking(m)
      BY <1>2, <2>7 DEF Serve
    <3>2. ~Tightened(m) \/ BeingHeld(m)
      BY <1>2, <2>7 DEF Serve, ServiceInv, Sides, Tightened
    <3> QED
      BY <2>1, <2>7, <3>1, <3>2, AskedOK DEF ServiceInv
  <2> QED
    BY <2>4, <2>5, <2>6, <2>7 DEF Recorded
<1> QED
  BY <1>1, <1>2 DEF Sides

(* Time cools escapes down and frees nobody.                                      *)
LEMMA TimeKeepsCaptives ==
    ASSUME TypeOK, TimeGoesBy, NEW m \in Members
    PROVE  Captive(m)' = Captive(m)
<1>1. CASE TurnGoesBy \/ PhaseExpires
  BY <1>1 DEF TurnGoesBy, PhaseExpires, Rest, Captive
<1>2. ASSUME NEW n \in Members, CoolsDown(n)
      PROVE  Captive(m)' = Captive(m)
  <2>1. prog[n] \in Progressions
    BY <1>2 DEF TypeOK, CoolsDown
  <2>2. prog'[n] \in Progressions /\ prog'[n].phase = prog[n].phase
        /\ (m # n => prog'[m] = prog[m])
    BY <1>2, <2>1 DEF TypeOK, CoolsDown, Progressions
  <2> QED
    BY <1>2, <2>2, NoneAssumption DEF CoolsDown, Captive
<1> QED
  BY <1>1, <1>2 DEF TimeGoesBy

LEMMA CrashOK ==
    ASSUME ServiceInv, Crash, UNCHANGED vars
    PROVE  ServiceTypeOK' /\ BindsSomething' /\ Sides'
<1>1. \A m \in Members, s \in Slots : chain'[m][s] = None
  BY DEF Crash
<1>2. ServiceTypeOK'
  BY DEF Crash, ServiceInv, ServiceTypeOK, TypeOK, vars, day, night
<1>3. BindsSomething'
  BY <1>1 DEF BindsSomething, Comes
<1>4. ASSUME NEW m \in Members \ upset'
      PROVE  IF Captive(m)' THEN BeingHeld(m)' ELSE BeingFreed(m)'
  <2>1. m \notin upset /\ Underway(m) = {}
    BY <1>4 DEF Crash
  <2>2. chain'[m] = chain[m]
    BY <2>1 DEF Crash, Underway, ServiceInv, ServiceTypeOK
  <2>3. Captive(m)' = Captive(m) /\ bonds' = bonds /\ mark' = mark
    BY DEF Crash, Captive, vars
  <2> QED
    BY <2>1, <2>2, <2>3, OthersAreLeft DEF ServiceInv, Sides
<1> QED
  BY <1>2, <1>3, <1>4 DEF Sides

LEMMA ServiceInitOK == ASSUME ServiceInit PROVE ServiceInv
<1>1. IInv
  BY InitIInv DEF ServiceInit
<1>2. ServiceTypeOK
  BY <1>1 DEF IInv, ServiceInit, ServiceTypeOK
<1>3. BindsSomething /\ Sides
  BY DEF Init, ServiceInit, BindsSomething, Sides, BeingFreed, Binding, Underway, Comes, Captive
<1> QED
  BY <1>1, <1>2, <1>3 DEF ServiceInv

(* What the capture service keeps, whatever commands are recorded meanwhile and   *)
(* whatever calls reject or are lost.                                             *)
THEOREM ServiceInvariance == ServiceSpec => []ServiceInv
<1>1. ServiceInit => ServiceInv
  BY ServiceInitOK
<1>2. ServiceInv /\ IInv' /\ [ServiceNext]_allVars => ServiceInv'
  <2> SUFFICES ASSUME ServiceInv, IInv', [ServiceNext]_allVars
               PROVE  ServiceTypeOK' /\ BindsSomething' /\ Sides'
    BY DEF ServiceInv
  <2>1. CASE Recorded
    BY <2>1, RecordedTypeOK, RecordedOK DEF ServiceInv, IInv
  <2>2. CASE TimeGoesBy /\ UNCHANGED service
    <3>1. ServiceTypeOK' /\ BindsSomething'
      BY <2>2 DEF ServiceInv, IInv, ServiceTypeOK, BindsSomething, Comes, service
    <3>2. Sides'
      BY <2>2, TimeKeepsCaptives, OthersAreLeft DEF ServiceInv, IInv, Sides, service
    <3> QED
      BY <3>1, <3>2
  <2>3. CASE (\E m \in Members, s \in Slots : Call(m, s)) /\ UNCHANGED vars
    BY <2>3, CallTypeOK, CallOK DEF ServiceInv
  <2>4. CASE Crash /\ UNCHANGED vars
    BY <2>4, CrashOK
  <2>5. CASE UNCHANGED allVars
    <3>1. ServiceTypeOK' /\ BindsSomething'
      BY <2>5 DEF ServiceInv, IInv, ServiceTypeOK, BindsSomething, Comes, service, allVars
    <3>2. \A m \in Members : Captive(m)' = Captive(m)
      BY <2>5 DEF Captive, allVars, vars
    <3>3. Sides'
      BY <2>5, <3>2, OthersAreLeft DEF ServiceInv, Sides, service, allVars
    <3> QED
      BY <3>1, <3>3
  <2> QED
    BY <2>1, <2>2, <2>3, <2>4, <2>5 DEF ServiceNext
<1> QED
  BY <1>1, <1>2, ServiceRefines, Invariance, PTL DEF ServiceSpec

(* Every variable has its type: no command counts an escape beyond those that     *)
(* release, nor a round that never begins, and no call binds harder than the      *)
(* restraints of kidnappersGameCaptureService go.                                 *)
THEOREM ServiceTypeCorrect == ServiceSpec => []ServiceTypeOK
<1>1. ServiceInv => ServiceTypeOK
  BY DEF ServiceInv
<1> QED
  BY <1>1, ServiceInvariance, PTL

(* Once the calls for a player have come to an end, none of them failed, lost or  *)
(* overtaken since the last capture or release that went undisturbed, the player  *)
(* is bound if and only if the state machine has them captured.                   *)
THEOREM BoundCaptured == ServiceSpec => []BoundAreCaptured
<1>1. ServiceInv => BoundAreCaptured
  BY SidesShow DEF ServiceInv
<1> QED
  BY <1>1, ServiceInvariance, PTL

================================================================================
