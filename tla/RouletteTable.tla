----------------------------- MODULE RouletteTable -----------------------------
(* The roulette table of the casino (bin/games/casino/roulette.ts): bets that    *)
(* are placed and cancelled, the timers of the spin and of the pause after it,   *)
(* rounds that are settled once, and the closing of the table and the end of the *)
(* game (bin/games/casino.ts).                                                   *)
(*                                                                               *)
(* Which number wins and how much is left out: a bet is settled when its round   *)
(* pays it or takes it.  Whether a player can afford a bet, and what the chips   *)
(* do, is the matter of ChipLedger.  A handler runs up to its next await in one  *)
(* step; awaits that follow each other without anything between that others see  *)
(* are one.  A round is named by the bet that made its id.  The time of the spin *)
(* is what the guards see of it: open for bets, after the last call, within the  *)
(* three seconds in which nothing is cancelled or past.                          *)
EXTENDS Naturals, FiniteSets

CONSTANTS
    Members,
    Bets,           \* bet commands, each of which may become a bet, ...
    Forfeits,       \* ... those that stake a forfeit instead of chips, ...
    Owner,          \* ... and the member each is from
    None,
    MaxFailures,    \* bound on awaited calls that reject
    MaxClosings     \* bound on close commands and ends of the game

ASSUME OwnerAssumption == Owner \in [Bets -> Members]
ASSUME NoneAssumption == None \notin Bets
ASSUME BoundsAssumption == MaxFailures \in Nat /\ MaxClosings \in Nat

VARIABLES
    pc,             \* pc[b]: where command b has got to
    bets,           \* the bets on the table
    refunding,      \* the cancel commands that await a refund, by what they took off
    round, phase,   \* currentRoundId and currentPhase
    settledRounds,
    willSpin,       \* willSpinAt
    armed,          \* the spin timer ticks
    pause,          \* the reset timer runs
    spin,           \* where spinWheel has got to, ...
    due,            \* ... the bets its loop has yet to come to, ...
    shared,         \* ... and whether it goes through the array that is this.bets
    bettingOpen,
    closing,        \* where the close command has got to
    ending,         \* where the end of the game has got to
    settled,        \* history: how often each bet was settled, ...
    refunded,       \* ... and the bets that were given back
    upsets,         \* history: what has gone wrong
    failures, closings

rounds == <<round, phase, settledRounds>>
clock == <<willSpin, armed, pause>>
wheel == <<spin, due, shared>>
admin == <<bettingOpen, closing, ending, closings>>
fates == <<settled, refunded>>
vars == <<pc, bets, refunding, rounds, clock, wheel, admin, fates, upsets, failures>>

Upsets == {"late", "outlasted", "failed", "answer lost", "put back", "unrecorded", "unnamed",
           "empty", "refused", "ended"}

BetsTyped ==
    /\ pc \in [Bets -> {"new", "checking", "recording", "done", "refused"}]
    /\ bets \subseteq Bets /\ refunding \subseteq SUBSET Bets /\ due \subseteq Bets
    /\ settled \in [Bets -> Nat] /\ refunded \subseteq Bets
RoundsTyped ==
    /\ round \in Bets \cup {None} /\ phase \in {"betting", "spinning", "settled"}
    /\ settledRounds \subseteq Bets /\ upsets \subseteq Upsets
ClockTyped ==
    /\ willSpin \in {"none", "open", "late", "past"} /\ armed \in BOOLEAN /\ pause \in BOOLEAN
    /\ spin \in {"idle", "turning", "shown", "paying"} /\ shared \in BOOLEAN
AdminTyped ==
    /\ bettingOpen \in BOOLEAN
    /\ closing \in {"no", "pausing", "playing", "ended"}
    /\ ending \in {"no", "playing", "waiting", "over"}
CountersTyped == failures \in 0..MaxFailures /\ closings \in 0..MaxClosings
TypeOK == BetsTyped /\ RoundsTyped /\ ClockTyped /\ AdminTyped /\ CountersTyped

Init ==
    /\ pc = [b \in Bets |-> "new"]
    /\ bets = {} /\ refunding = {}
    /\ round = None /\ phase = "betting" /\ settledRounds = {}
    /\ willSpin = "none" /\ armed = FALSE /\ pause = FALSE
    /\ spin = "idle" /\ due = {} /\ shared = FALSE
    /\ bettingOpen = TRUE /\ closing = "no" /\ ending = "no"
    /\ settled = [b \in Bets |-> 0] /\ refunded = {}
    /\ upsets = {} /\ failures = 0 /\ closings = 0

Fails == failures < MaxFailures /\ failures' = failures + 1
Upset(what) == upsets' = upsets \cup what
UpsetIf(what, happens) == upsets' = IF happens THEN upsets \cup {what} ELSE upsets

(* What is pushed onto this.bets is seen by a loop over the same array; a loop   *)
(* over an array that was replaced goes on with the old one.                     *)
Push(new) ==
    /\ bets' = bets \cup new
    /\ due' = IF shared THEN due \cup new ELSE due
    /\ UNCHANGED <<spin, shared>>
Replace(new) == bets' = new /\ shared' = FALSE /\ UNCHANGED <<spin, due>>

--------------------------------------------------------------------------------
(* The bet command                                                               *)

BetsOf(m) == {b \in bets : Owner[b] = m}

Bet(b) ==
    /\ pc[b] = "new" /\ ending # "over"
    /\ bettingOpen /\ willSpin \in {"none", "open"} /\ BetsOf(Owner[b]) = {}
    /\ pc' = [pc EXCEPT ![b] = "checking"]
    /\ UNCHANGED <<bets, refunding, rounds, clock, wheel, admin, fates, upsets, failures>>

(* The player cannot afford the stake, may not bet the forfeit, or a call before *)
(* the bet is placed rejects.                                                    *)
Refuse(b) ==
    /\ pc[b] = "checking"
    /\ pc' = [pc EXCEPT ![b] = "refused"]
    /\ UNCHANGED <<bets, refunding, rounds, clock, wheel, admin, fates, upsets, failures>>

(* The stake was deducted, or the permissions were found to allow the forfeit;   *)
(* what the command checked first is not looked at again.                        *)
OneRoundForAll == round # None          \* a slip
SameRound == round # None /\ phase # "settled"

Place(b) ==
    /\ pc[b] = "checking"
    /\ pc' = [pc EXCEPT ![b] = "recording"]
    /\ IF SameRound THEN UNCHANGED rounds
       ELSE round' = b /\ phase' = "betting" /\ UNCHANGED settledRounds
    /\ Push({b})
    /\ UpsetIf("late", willSpin \notin {"none", "open"} \/ ending = "over")
    /\ UNCHANGED <<refunding, clock, admin, fates, failures>>

(* The first bet that is recorded starts the time until the spin.                *)
StartUnarmed == willSpin' = "open" /\ UNCHANGED armed      \* a slip
StartTimer == willSpin' = "open" /\ armed' = TRUE

Recorded(b) ==
    /\ pc[b] = "recording"
    /\ pc' = [pc EXCEPT ![b] = "done"]
    /\ IF willSpin = "none" THEN StartTimer /\ pause' = FALSE ELSE UNCHANGED clock
    /\ UNCHANGED <<bets, refunding, rounds, wheel, admin, fates, upsets, failures>>

RecordFails(b) ==
    /\ pc[b] = "recording"
    /\ pc' = [pc EXCEPT ![b] = "done"]
    /\ Fails /\ Upset({"unrecorded"})
    /\ UNCHANGED <<bets, refunding, rounds, clock, wheel, admin, fates>>

--------------------------------------------------------------------------------
(* The cancel command                                                            *)

CancelAnyTime == willSpin # "none"      \* a slip
CancelInTime == willSpin \in {"open", "late"}

Cancel(m) ==
    /\ ending # "over"
    /\ BetsOf(m) # {} /\ CancelInTime
    /\ Replace(bets \ BetsOf(m))
    /\ IF BetsOf(m) \subseteq Forfeits
       THEN refunded' = refunded \cup BetsOf(m) /\ UNCHANGED refunding
       ELSE refunding' = refunding \cup {BetsOf(m)} /\ UNCHANGED refunded
    /\ UNCHANGED <<pc, rounds, clock, admin, settled, upsets, failures>>

Refund(took) ==
    /\ refunding' = refunding \ {took}
    /\ refunded' = refunded \cup took
    /\ UNCHANGED <<pc, bets, rounds, clock, wheel, admin, settled, upsets, failures>>

(* The bets are put back, although the chips may have been awarded.              *)
RefundFails(took) ==
    /\ refunding' = refunding \ {took}
    /\ Push(took)
    /\ Fails
    /\ \/ UNCHANGED refunded /\ Upset({"put back"})
       \/ refunded' = refunded \cup took /\ Upset({"put back", "answer lost"})
    /\ UNCHANGED <<pc, rounds, clock, admin, settled>>

--------------------------------------------------------------------------------
(* The spin                                                                      *)

(* The end of the game waits for two seconds, a bet for thirty at least.         *)
Tick ==
    /\ \/ willSpin = "open" /\ willSpin' = "late"
       \/ willSpin = "late" /\ willSpin' = "past"
    /\ ending # "waiting"
    /\ UNCHANGED <<pc, bets, refunding, rounds, armed, pause, wheel, admin, fates, upsets,
                   failures>>

Due == armed /\ willSpin = "past"
AlreadySettled == round # None /\ round \in settledRounds

NamedOrNot(r) == {r}                    \* a slip
Named(r) == {r} \ {None}

(* A settlement does not outlast the time until the next spin.                   *)
SpinWheel ==
    /\ Due /\ ~AlreadySettled
    /\ spin = "idle"
    /\ armed' = FALSE
    /\ settledRounds' = settledRounds \cup Named(round)
    /\ phase' = "spinning" /\ spin' = "turning"
    /\ UpsetIf("unnamed", round = None)
    /\ UNCHANGED <<pc, bets, refunding, round, willSpin, pause, due, shared, admin, fates,
                   failures>>

(* Nothing else happens, so that willSpinAt remains.                             *)
RefuseSpin ==
    /\ Due /\ AlreadySettled
    /\ armed' = FALSE
    /\ Upset({IF bets = {} THEN "empty" ELSE "refused"})
    /\ UNCHANGED <<pc, bets, refunding, rounds, willSpin, pause, wheel, admin, fates, failures>>

(* The wheel turns for ten seconds, after which the pause of twelve begins, ...  *)
Shows ==
    /\ spin = "turning" /\ spin' = "shown"
    /\ pause' = TRUE
    /\ UNCHANGED <<pc, bets, refunding, rounds, willSpin, armed, due, shared, admin, fates,
                   upsets, failures>>

(* ... and two seconds later the bets on the table are gone through.             *)
Pays ==
    /\ spin = "shown" /\ spin' = "paying"
    /\ due' = bets /\ shared' = TRUE
    /\ UNCHANGED <<pc, bets, refunding, rounds, clock, admin, fates, upsets, failures>>

SettleBet(b) ==
    /\ spin = "paying" /\ b \in due
    /\ due' = due \ {b}
    /\ settled' = [settled EXCEPT ![b] = @ + 1]
    /\ UNCHANGED <<pc, bets, refunding, rounds, clock, spin, shared, admin, refunded, upsets,
                   failures>>

SettleRound ==
    /\ spin = "paying" /\ due = {}
    /\ bets' = {} /\ shared' = FALSE
    /\ phase' = "settled" /\ spin' = "idle"
    /\ UNCHANGED <<pc, refunding, round, settledRounds, clock, due, admin, fates, upsets,
                   failures>>

(* The state cannot be saved, the wheel cannot be had, or what a bet wins cannot *)
(* be awarded or recorded, although it may have been awarded.                    *)
SpinFails ==
    /\ \/ spin = "turning" /\ UNCHANGED settled
       \/ /\ spin = "paying" /\ due # {}
          /\ \/ UNCHANGED settled
             \/ \E b \in due : settled' = [settled EXCEPT ![b] = @ + 1]
    /\ spin' = "idle" /\ due' = {} /\ shared' = FALSE
    /\ Fails /\ Upset({"failed"})
    /\ UNCHANGED <<pc, bets, refunding, rounds, clock, admin, refunded>>

(* The pause is longer than the two seconds before the settlement, and may be    *)
(* over before it is.                                                            *)
PauseEnds ==
    /\ pause /\ spin # "shown"
    /\ pause' = FALSE /\ willSpin' = "none"
    /\ UpsetIf("outlasted", spin = "paying")
    /\ UNCHANGED <<pc, bets, refunding, rounds, armed, wheel, admin, fates, failures>>

--------------------------------------------------------------------------------
(* Closing and ending                                                            *)

Play == UNCHANGED <<pc, refunding, rounds, pause, fates, failures>>
Table == UNCHANGED <<bets, wheel, upsets>>

Close ==
    /\ closing = "no" /\ bettingOpen /\ ending # "over"
    /\ closing' = "pausing"
    /\ closings < MaxClosings /\ closings' = closings + 1
    /\ Play /\ Table /\ UNCHANGED <<willSpin, armed, bettingOpen, ending>>

(* One more round, unless one is on.                                             *)
LastRound ==
    /\ closing = "pausing" /\ ~pause
    /\ closing' = "playing"
    /\ IF willSpin = "none" THEN StartTimer ELSE UNCHANGED <<willSpin, armed>>
    /\ Play /\ Table /\ UNCHANGED <<bettingOpen, ending, closings>>

LastRoundPlayed ==
    /\ closing = "playing" /\ willSpin = "none"
    /\ closing' = "ended"
    /\ Play /\ Table /\ UNCHANGED <<willSpin, armed, bettingOpen, ending, closings>>

Closed ==
    /\ closing = "ended" /\ ~pause
    /\ closing' = "no" /\ bettingOpen' = FALSE
    /\ Play /\ Table /\ UNCHANGED <<willSpin, armed, ending, closings>>

Open ==
    /\ ~bettingOpen /\ ending # "over"
    /\ bettingOpen' = TRUE
    /\ Play /\ Table /\ UNCHANGED <<willSpin, armed, closing, ending, closings>>

(* endGame, after which there is another game and no command for this one.       *)
EndGame ==
    /\ ending = "no" /\ ending' = "playing"
    /\ closings < MaxClosings /\ closings' = closings + 1
    /\ Play /\ Table /\ UNCHANGED <<willSpin, armed, bettingOpen, closing>>

EndPlayed ==
    /\ ending = "playing" /\ willSpin = "none"
    /\ ending' = "waiting"
    /\ Play /\ Table /\ UNCHANGED <<willSpin, armed, bettingOpen, closing, closings>>

Ended ==
    /\ ending = "waiting" /\ ending' = "over"
    /\ Replace({})
    /\ UpsetIf("ended", bets # {})
    /\ Play /\ UNCHANGED <<willSpin, armed, bettingOpen, closing, closings>>

--------------------------------------------------------------------------------

BetStep(b) == Place(b) \/ Recorded(b)
Spinning == SpinWheel \/ RefuseSpin \/ Shows \/ Pays \/ SettleRound \/ \E b \in Bets : SettleBet(b)
Admin == Close \/ LastRound \/ LastRoundPlayed \/ Closed \/ Open \/ EndGame \/ EndPlayed \/ Ended

Next ==
    \/ \E b \in Bets : Bet(b) \/ BetStep(b) \/ Refuse(b) \/ RecordFails(b)
    \/ \E m \in Members : Cancel(m)
    \/ \E took \in refunding : Refund(took) \/ RefundFails(took)
    \/ Tick \/ Spinning \/ SpinFails \/ PauseEnds
    \/ Admin

(* Timers fire and awaited calls settle; commands are nobody's duty.             *)
Fairness ==
    /\ WF_vars(Tick) /\ WF_vars(Spinning) /\ WF_vars(PauseEnds)
    /\ WF_vars(LastRound) /\ WF_vars(LastRoundPlayed) /\ WF_vars(Closed) /\ WF_vars(Ended)
    /\ \A b \in Bets : WF_vars(BetStep(b))
    /\ WF_vars(\E took \in refunding : Refund(took))

Spec == Init /\ [][Next]_vars /\ Fairness

--------------------------------------------------------------------------------
(* Properties                                                                    *)

Without(what) == upsets \cap what = {}
Placed == {b \in Bets : pc[b] \in {"recording", "done"}}
Returning == UNION refunding
OnTable == bets \cup Returning

(* No bet is paid twice, whatever rejects and is cancelled meanwhile; unless a   *)
(* payment outlasts the pause after the round, or a round without a name fails.  *)
SettledOnce ==
    Without({"unnamed", "outlasted"}) => \A b \in Bets : settled[b] <= 1

(* What was given back is neither on the table any more nor was it paid.         *)
EitherOr ==
    Without({"outlasted", "failed", "answer lost"}) =>
        \A b \in refunded : settled[b] = 0 /\ b \notin OnTable

(* No bet that was placed is lost: bets come while the wheel turns and while the *)
(* round is paid, and the table is cleared at the end of the round.  The end of  *)
(* the game clears the table too, which loses those of its last two seconds.     *)
NoneLost ==
    Without({"outlasted", "ended"}) =>
        \A b \in Placed : b \in OnTable \cup refunded \/ settled[b] > 0

BetsHonoured == SettledOnce /\ EitherOr /\ NoneLost

(* Bets on the table never wait for nothing: a spin is scheduled, or a command   *)
(* that will schedule one is under way.  A bet that is placed after the last     *)
(* call, or put back after its round, may lie there until the next.              *)
ComesUp ==
    bets # {} /\ Without({"late", "unrecorded", "failed", "outlasted", "put back"}) =>
        willSpin # "none" \/ \E b \in Bets : pc[b] = "recording"

(* No round is refused as settled while there are bets to be played, ...         *)
RefusedForReason == "refused" \in upsets => ~Without({"failed", "put back", "outlasted"})

(* ... so that every bet comes up.                                               *)
SpinComes == ComesUp /\ RefusedForReason

AtRest ==
    bets = {} /\ refunding = {} /\ spin = "idle" /\ willSpin = "none" /\ closing = "no"

(* Again and again everything that was begun is done: bets are played or given   *)
(* back, the table is open for the next round, and a close command has closed    *)
(* it.  Not so when nobody bets in the last round after another that was settled *)
(* ("empty"): its spin is refused, and the table is never free again.  Exempted  *)
(* are also bets that were placed after the last call, failed to be recorded or  *)
(* were put back after their round, a spin that failed, and a payment that       *)
(* outlasts the pause.                                                           *)
Rests ==
    []<>(AtRest \/ ~Without({"late", "unrecorded", "failed", "outlasted", "put back", "empty"}))

================================================================================
