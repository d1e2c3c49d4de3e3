------------------------- MODULE RouletteTable_proofs --------------------------
(* What holds of a roulette table for any bets, members, failures and closings:  *)
(* bets are honoured and a spin comes for them, up to the upsets that each part  *)
(* names.                                                                        *)
EXTENDS RouletteTable, TLAPS

(* The clock and the wheel: nothing is scheduled while the wheel turns, and the  *)
(* pause lasts until the round is settled, or outlasted is recorded.             *)
Timing ==
    /\ armed => willSpin # "none"
    /\ pause => willSpin = "past" /\ ~armed /\ spin # "turning"
    /\ spin \in {"turning", "shown"} => willSpin = "past" /\ ~armed
    /\ spin = "shown" => pause
    /\ spin = "paying" /\ Without({"outlasted"}) => pause /\ shared
    /\ shared => spin = "paying"
    /\ ending = "waiting" => willSpin \in {"none", "open"}

(* Where bets are: in one place at most, and only those that were placed.        *)
Whereabouts ==
    /\ bets \cup Returning \cup refunded \cup due \cup settledRounds \subseteq Placed
    /\ round \in Placed \cup {None}
    /\ \A b \in Bets : settled[b] > 0 => b \in Placed
    /\ bets \cap Returning = {}
    /\ \A t, u \in refunding : t # u => t \cap u = {}

(* A spin that failed leaves the table stuck, so that no bet is paid again.      *)
Stuck == spin = "idle" /\ AlreadySettled /\ phase # "settled"
Unpaid(b) == settled[b] = 0 \/ ("failed" \in upsets /\ Stuck)

(* What the settlement has gone through, and what it has yet to come to.         *)
Payments ==
    /\ due # {} => spin = "paying"
    /\ Without({"outlasted"}) => due \subseteq bets
    /\ Without({"outlasted"}) /\ spin = "paying" => \A b \in bets : b \in due \/ settled[b] > 0
    /\ Without({"outlasted"}) /\ ~({"failed", "unnamed"} \subseteq upsets) =>
          /\ \A b \in Returning : Unpaid(b)
          /\ \A b \in due : settled[b] = 0
          /\ \A b \in bets : Unpaid(b) \/ (spin = "paying" /\ b \notin due)

(* Rounds: the one that is played is named and recorded as settled; when none is *)
(* played, the one on the table has no bets or was not settled.                  *)
RoundsOK ==
    /\ Without({"unnamed"}) /\ spin # "idle" => AlreadySettled /\ phase = "spinning"
    /\ Without({"failed", "put back"}) /\ spin = "idle" =>
          IF phase = "settled" THEN bets = {} ELSE ~AlreadySettled
    /\ Without({"late", "unrecorded", "failed", "outlasted", "put back"}) =>
          (pause /\ spin = "idle" => bets = {})

IInv == TypeOK /\ Timing /\ Whereabouts /\ Payments /\ RoundsOK /\ BetsHonoured /\ SpinComes

(* What rejects is counted up to its bound.                                      *)
LEMMA FailsCounts ==
  ASSUME CountersTyped, Fails, UNCHANGED closings
  PROVE  CountersTyped'
  BY BoundsAssumption DEF CountersTyped, Fails

(* So are close commands and ends of the game.                                   *)
LEMMA ClosingCounts ==
  ASSUME CountersTyped, closings < MaxClosings, closings' = closings + 1, UNCHANGED failures
  PROVE  CountersTyped'
  BY BoundsAssumption DEF CountersTyped

(* A step of the administration, or of a bet command that places no bet: what    *)
(* the other parts speak of is as it was.                                        *)
LEMMA FrameKeeps ==
  ASSUME IInv, TypeOK',
         UNCHANGED <<bets, refunding, rounds, clock, wheel, fates, upsets>>,
         Placed' = Placed,
         \A b \in Bets : pc[b] = "recording" => pc'[b] = "recording",
         ending' = "waiting" => willSpin \in {"none", "open"}
  PROVE  IInv'
<1>1. Timing /\ Whereabouts /\ Payments /\ RoundsOK /\ BetsHonoured /\ SpinComes
  BY DEF IInv
<1>2. Returning' = Returning
  BY DEF Returning
<1>3. UNCHANGED <<round, phase, settledRounds, willSpin, armed, pause, spin, due, shared,
                  settled, refunded>>
  BY DEF rounds, clock, wheel, fates
<1>4. Timing'
  BY <1>1, <1>3 DEF Timing, Without
<1>5. Whereabouts'
  BY <1>1, <1>2, <1>3 DEF Whereabouts
<1>6. Payments'
  BY <1>1, <1>2, <1>3 DEF Payments, Unpaid, Stuck, AlreadySettled, Without
<1>7. RoundsOK'
  BY <1>1, <1>3 DEF RoundsOK, AlreadySettled, Without
<1>8. BetsHonoured'
  BY <1>1, <1>2, <1>3 DEF BetsHonoured, SettledOnce, EitherOr, NoneLost, OnTable,
     Without
<1>9. SpinComes'
  BY <1>1, <1>3 DEF SpinComes, ComesUp, RefusedForReason, Without
<1> QED
  BY <1>4, <1>5, <1>6, <1>7, <1>8, <1>9 DEF IInv

(* A bet command is let through: nothing is on the table yet.                    *)
LEMMA BetKeeps ==
  ASSUME IInv, NEW b \in Bets, Bet(b)
  PROVE  IInv'
<1>0. TypeOK /\ Timing /\ Whereabouts /\ Payments /\ RoundsOK /\ BetsHonoured /\ SpinComes
  BY DEF IInv
<1>1. TypeOK'
  BY <1>0 DEF TypeOK, BetsTyped, RoundsTyped, ClockTyped, AdminTyped, CountersTyped,
     Bet, BetsOf, rounds, clock, wheel, admin, fates
<1>2. UNCHANGED <<bets, refunding, rounds, clock, wheel, fates, upsets>>
  BY DEF Bet, BetsOf, rounds, clock, wheel, admin, fates
<1>3. Placed' = Placed /\ \A x \in Bets : pc[x] = "recording" => pc'[x] = "recording"
  BY <1>0 DEF TypeOK, BetsTyped, Placed, Bet, BetsOf, rounds, clock, wheel, admin, fates
<1>4. ending' = "waiting" => willSpin \in {"none", "open"}
  BY <1>0 DEF Timing, Bet, BetsOf, rounds, clock, wheel, admin, fates
<1> QED
  BY <1>1, <1>2, <1>3, <1>4, FrameKeeps

(* A bet command is refused after its checks: nothing was placed.                *)
LEMMA RefuseKeeps ==
  ASSUME IInv, NEW b \in Bets, Refuse(b)
  PROVE  IInv'
<1>0. TypeOK /\ Timing /\ Whereabouts /\ Payments /\ RoundsOK /\ BetsHonoured /\ SpinComes
  BY DEF IInv
<1>1. TypeOK'
  BY <1>0 DEF TypeOK, BetsTyped, RoundsTyped, ClockTyped, AdminTyped, CountersTyped,
     Refuse, rounds, clock, wheel, admin, fates
<1>2. UNCHANGED <<bets, refunding, rounds, clock, wheel, fates, upsets>>
  BY DEF Refuse, rounds, clock, wheel, admin, fates
<1>3. Placed' = Placed /\ \A x \in Bets : pc[x] = "recording" => pc'[x] = "recording"
  BY <1>0 DEF TypeOK, BetsTyped, Placed, Refuse, rounds, clock, wheel, admin, fates
<1>4. ending' = "waiting" => willSpin \in {"none", "open"}
  BY <1>0 DEF Timing, Refuse, rounds, clock, wheel, admin, fates
<1> QED
  BY <1>1, <1>2, <1>3, <1>4, FrameKeeps

(* A new bet was in no round: it opens one, or comes into the round that is on,  *)
(* where it is yet to be paid.                                                   *)
LEMMA PlaceKeeps ==
  ASSUME IInv, NEW b \in Bets, Place(b)
  PROVE  IInv'
<1>0. TypeOK /\ Timing /\ Whereabouts /\ Payments /\ RoundsOK /\ BetsHonoured /\ SpinComes
  BY DEF IInv
<1>1. TypeOK'
  <2>1. BetsTyped'
    BY <1>0 DEF TypeOK, BetsTyped, Place, UpsetIf, Push, SameRound, rounds, clock,
       admin, fates
  <2>2. RoundsTyped'
    BY <1>0 DEF TypeOK, RoundsTyped, Place, UpsetIf, Push, SameRound, rounds, clock,
       admin, fates, Upsets
  <2>3. ClockTyped'
    BY <1>0 DEF TypeOK, ClockTyped, Place, UpsetIf, Push, SameRound, rounds, clock,
       admin, fates
  <2>4. AdminTyped'
    BY <1>0 DEF TypeOK, AdminTyped, Place, UpsetIf, Push, SameRound, rounds, clock,
       admin, fates
  <2>5. CountersTyped'
    BY <1>0 DEF TypeOK, CountersTyped, Place, UpsetIf, Push, SameRound, rounds,
       clock, admin, fates
  <2> QED
    BY <2>1, <2>2, <2>3, <2>4, <2>5 DEF TypeOK
<1>2. Timing'
  BY <1>0 DEF TypeOK, ClockTyped, Timing, Without, Place, UpsetIf, Push, SameRound,
     rounds, clock, admin, fates
<1>3. Placed' = Placed \cup {b} /\ b \notin Placed
  BY <1>0 DEF TypeOK, BetsTyped, Placed, Place, UpsetIf, Push, SameRound, rounds,
     clock, admin, fates
<1>4. Returning' = Returning
  BY <1>0 DEF Returning, Whereabouts, Place, UpsetIf, Push, SameRound, rounds,
     clock, admin, fates
<1>5. Whereabouts'
  BY <1>0, <1>3, <1>4, NoneAssumption DEF TypeOK, BetsTyped, RoundsTyped,
     Whereabouts, Place, UpsetIf, Push, SameRound, rounds, clock, admin, fates
<1>6. Payments'
  <2>1. settled[b] = 0
    BY <1>0, <1>3 DEF TypeOK, BetsTyped, Whereabouts
  <2>2. Stuck => Stuck'
    BY DEF Place, SameRound, Push, Stuck, AlreadySettled, rounds
  <2>3. \A u : u # "late" => (u \in upsets' <=> u \in upsets)
    BY DEF Place, UpsetIf
  <2>4. /\ bets' = bets \cup {b} /\ due' = IF shared THEN due \cup {b} ELSE due
        /\ UNCHANGED <<spin, settled>>
    BY DEF Place, Push, fates
  <2>5. due' # {} => spin' = "paying"
    BY <1>0, <2>4 DEF Timing, Payments
  <2>6. Without({"outlasted"})' => due' \subseteq bets'
    BY <1>0, <2>3, <2>4 DEF Payments, Without
  <2>7. Without({"outlasted"})' /\ spin' = "paying" => \A x \in bets' : x \in due' \/ settled'[x] > 0
    BY <1>0, <2>3, <2>4 DEF Payments, Timing, Without
  <2>8. ASSUME Without({"outlasted"})', ~({"failed", "unnamed"} \subseteq upsets')
        PROVE  /\ \A x \in Returning' : Unpaid(x)'
               /\ \A x \in due' : settled'[x] = 0
               /\ \A x \in bets' : Unpaid(x)' \/ (spin' = "paying" /\ x \notin due')
    <3>1. Without({"outlasted"}) /\ ~({"failed", "unnamed"} \subseteq upsets)
      BY <2>3, <2>8 DEF Without
    <3>2. \A x : Unpaid(x) => Unpaid(x)'
      BY <2>2, <2>3, <2>4 DEF Unpaid
    <3>3. Unpaid(b)'
      BY <2>1, <2>4 DEF Unpaid
    <3> QED
      BY <1>0, <1>4, <2>1, <2>4, <3>1, <3>2, <3>3 DEF Payments, Timing
  <2> QED
    BY <2>5, <2>6, <2>7, <2>8 DEF Payments
<1>7. RoundsOK'
  <2>1. b \notin settledRounds
    BY <1>0, <1>3 DEF Whereabouts
  <2>2. \A u : u # "late" => (u \in upsets' <=> u \in upsets)
    BY DEF Place, UpsetIf
  <2>3. UNCHANGED <<spin, settledRounds>>
    BY DEF Place, SameRound, Push, rounds
  <2>4. Without({"unnamed"})' /\ spin' # "idle" => AlreadySettled' /\ phase' = "spinning"
    <3>1. SUFFICES ASSUME Without({"unnamed"})', spin' # "idle"
                   PROVE  AlreadySettled' /\ phase' = "spinning"
      OBVIOUS
    <3>2. Without({"unnamed"})
      BY <2>2, <3>1 DEF Without
    <3>3. AlreadySettled /\ phase = "spinning"
      BY <1>0, <2>3, <3>1, <3>2 DEF RoundsOK
    <3> QED
      BY <3>3 DEF AlreadySettled, Place, SameRound, rounds
  <2>6. Without({"failed", "put back"})' /\ spin' = "idle" => phase' # "settled" /\ ~AlreadySettled'
    <3>1. SUFFICES ASSUME Without({"failed", "put back"})', spin' = "idle"
                   PROVE  phase' # "settled" /\ ~AlreadySettled'
      OBVIOUS
    <3>2. Without({"failed", "put back"})
      BY <2>2, <3>1 DEF Without
    <3>3. CASE SameRound
      <4>1. phase # "settled" /\ UNCHANGED <<round, phase, settledRounds>>
        BY <3>3 DEF Place, SameRound, rounds
      <4>2. ~AlreadySettled
        BY <1>0, <2>3, <3>1, <3>2, <4>1 DEF RoundsOK
      <4> QED
        BY <4>1, <4>2 DEF AlreadySettled
    <3>4. CASE ~SameRound
      BY <2>1, <2>3, <3>4 DEF Place, AlreadySettled
    <3> QED
      BY <3>3, <3>4
  <2>5. pause' => "late" \in upsets'
    BY <1>0 DEF Timing, Place, UpsetIf, clock
  <2> QED
    BY <2>4, <2>5, <2>6 DEF RoundsOK, Without
<1>8. BetsHonoured'
  <2>1. SettledOnce'
    BY <1>0, <1>3, <1>4 DEF TypeOK, BetsTyped, RoundsTyped, Payments, BetsHonoured,
       SettledOnce, Unpaid, Stuck, AlreadySettled, Without, Place, UpsetIf, Push,
       SameRound, rounds, clock, admin, fates
  <2>2. EitherOr'
    <3>1. \A u : u # "late" => (u \in upsets' <=> u \in upsets)
      BY DEF Place, UpsetIf
    <3>2. b \notin refunded /\ UNCHANGED <<refunded, settled>> /\ bets' = bets \cup {b}
      BY <1>0, <1>3 DEF Whereabouts, Place, Push, fates
    <3> QED
      BY <1>0, <1>4, <3>1, <3>2 DEF BetsHonoured, EitherOr, OnTable, Without
  <2>3. NoneLost'
    BY <1>0, <1>3, <1>4 DEF TypeOK, BetsTyped, RoundsTyped, Payments, OnTable,
       BetsHonoured, NoneLost, Without, Place, UpsetIf, Push, SameRound, rounds, clock,
       admin, fates
  <2> QED
    BY <2>1, <2>2, <2>3 DEF BetsHonoured
<1>9. SpinComes'
  BY <1>0, <1>3, <1>4 DEF TypeOK, BetsTyped, RoundsTyped, Timing, RoundsOK,
     SpinComes, ComesUp, RefusedForReason, AlreadySettled, Without, Place, UpsetIf,
     Push, SameRound, rounds, clock, admin, fates
<1> QED
  BY <1>1, <1>2, <1>5, <1>6, <1>7, <1>8, <1>9 DEF IInv

(* The first recorded bet starts the clock, so that the bets of its round come   *)
(* up.                                                                           *)
LEMMA RecordedKeeps ==
  ASSUME IInv, NEW b \in Bets, Recorded(b)
  PROVE  IInv'
<1>0. TypeOK /\ Timing /\ Whereabouts /\ Payments /\ RoundsOK /\ BetsHonoured /\ SpinComes
  BY DEF IInv
<1>1. TypeOK'
  <2>1. BetsTyped'
    BY <1>0 DEF TypeOK, BetsTyped, Recorded, StartTimer, rounds, clock, wheel,
       admin, fates
  <2>2. RoundsTyped'
    BY <1>0 DEF TypeOK, RoundsTyped, Recorded, StartTimer, rounds, clock, wheel,
       admin, fates, Upsets
  <2>3. ClockTyped'
    BY <1>0 DEF TypeOK, ClockTyped, Recorded, StartTimer, rounds, clock, wheel,
       admin, fates
  <2>4. AdminTyped'
    BY <1>0 DEF TypeOK, AdminTyped, Recorded, StartTimer, rounds, clock, wheel,
       admin, fates
  <2>5. CountersTyped'
    BY <1>0 DEF TypeOK, CountersTyped, Recorded, StartTimer, rounds, clock, wheel,
       admin, fates
  <2> QED
    BY <2>1, <2>2, <2>3, <2>4, <2>5 DEF TypeOK
<1>2. Timing'
  BY <1>0 DEF TypeOK, ClockTyped, Timing, Without, Recorded, StartTimer, rounds,
     clock, wheel, admin, fates
<1>3. Placed' = Placed
  BY <1>0 DEF TypeOK, BetsTyped, Placed, Recorded, StartTimer, rounds, clock, wheel,
     admin, fates
<1>4. Returning' = Returning
  BY <1>0 DEF Returning, Whereabouts, Recorded, StartTimer, rounds, clock, wheel,
     admin, fates
<1>5. Whereabouts'
  BY <1>0, <1>3, <1>4, NoneAssumption DEF TypeOK, BetsTyped, RoundsTyped,
     Whereabouts, Recorded, StartTimer, rounds, clock, wheel, admin, fates
<1>6. Payments'
  BY <1>0, <1>3, <1>4 DEF TypeOK, BetsTyped, RoundsTyped, Timing, Whereabouts,
     Payments, RoundsOK, Unpaid, Stuck, AlreadySettled, Without, Recorded, StartTimer,
     rounds, clock, wheel, admin, fates
<1>7. RoundsOK'
  BY <1>0, <1>3, <1>4 DEF TypeOK, BetsTyped, RoundsTyped, Timing, Whereabouts,
     RoundsOK, AlreadySettled, Without, Recorded, StartTimer, rounds, clock, wheel,
     admin, fates
<1>8. BetsHonoured'
  <2>1. SettledOnce'
    BY <1>0, <1>3, <1>4 DEF TypeOK, BetsTyped, RoundsTyped, Payments, BetsHonoured,
       SettledOnce, Unpaid, Stuck, AlreadySettled, Without, Recorded, StartTimer,
       rounds, clock, wheel, admin, fates
  <2>2. EitherOr'
    BY <1>0, <1>3, <1>4 DEF TypeOK, BetsTyped, RoundsTyped, Payments, Timing,
       OnTable, BetsHonoured, EitherOr, Whereabouts, Without, Recorded, StartTimer,
       rounds, clock, wheel, admin, fates
  <2>3. NoneLost'
    BY <1>0, <1>3, <1>4 DEF TypeOK, BetsTyped, RoundsTyped, Payments, OnTable,
       BetsHonoured, NoneLost, Without, Recorded, StartTimer, rounds, clock, wheel,
       admin, fates
  <2> QED
    BY <2>1, <2>2, <2>3 DEF BetsHonoured
<1>9. SpinComes'
  BY <1>0, <1>3, <1>4 DEF TypeOK, BetsTyped, RoundsTyped, Timing, RoundsOK,
     SpinComes, ComesUp, RefusedForReason, AlreadySettled, Without, Recorded,
     StartTimer, rounds, clock, wheel, admin, fates
<1> QED
  BY <1>1, <1>2, <1>5, <1>6, <1>7, <1>8, <1>9 DEF IInv

(* A bet that could not be recorded is on the table all the same.                *)
LEMMA RecordFailsKeeps ==
  ASSUME IInv, NEW b \in Bets, RecordFails(b)
  PROVE  IInv'
<1>0. TypeOK /\ Timing /\ Whereabouts /\ Payments /\ RoundsOK /\ BetsHonoured /\ SpinComes
  BY DEF IInv
<1>1. TypeOK'
  <2>1. BetsTyped'
    BY <1>0 DEF TypeOK, BetsTyped, RecordFails, Upset, Fails, rounds, clock, wheel,
       admin, fates
  <2>2. RoundsTyped'
    BY <1>0 DEF TypeOK, RoundsTyped, RecordFails, Upset, Fails, rounds, clock,
       wheel, admin, fates, Upsets
  <2>3. ClockTyped'
    BY <1>0 DEF TypeOK, ClockTyped, RecordFails, Upset, Fails, rounds, clock, wheel,
       admin, fates
  <2>4. AdminTyped'
    BY <1>0 DEF TypeOK, AdminTyped, RecordFails, Upset, Fails, rounds, clock, wheel,
       admin, fates
  <2>5. CountersTyped'
    BY <1>0, FailsCounts DEF TypeOK, RecordFails, Upset, rounds, clock, wheel,
       admin, fates
  <2> QED
    BY <2>1, <2>2, <2>3, <2>4, <2>5 DEF TypeOK
<1>2. Timing'
  BY <1>0 DEF TypeOK, ClockTyped, Timing, Without, RecordFails, Upset, Fails,
     rounds, clock, wheel, admin, fates
<1>3. Placed' = Placed
  BY <1>0 DEF TypeOK, BetsTyped, Placed, RecordFails, Upset, Fails, rounds, clock,
     wheel, admin, fates
<1>4. Returning' = Returning
  BY <1>0 DEF Returning, Whereabouts, RecordFails, Upset, Fails, rounds, clock,
     wheel, admin, fates
<1>5. Whereabouts'
  BY <1>0, <1>3, <1>4, NoneAssumption DEF TypeOK, BetsTyped, RoundsTyped,
     Whereabouts, RecordFails, Upset, Fails, rounds, clock, wheel, admin, fates
<1>6. Payments'
  BY <1>0, <1>3, <1>4 DEF TypeOK, BetsTyped, RoundsTyped, Timing, Whereabouts,
     Payments, RoundsOK, Unpaid, Stuck, AlreadySettled, Without, RecordFails, Upset,
     Fails, rounds, clock, wheel, admin, fates
<1>7. RoundsOK'
  BY <1>0, <1>3, <1>4 DEF TypeOK, BetsTyped, RoundsTyped, Timing, Whereabouts,
     RoundsOK, AlreadySettled, Without, RecordFails, Upset, Fails, rounds, clock,
     wheel, admin, fates
<1>8. BetsHonoured'
  <2>1. SettledOnce'
    BY <1>0, <1>3, <1>4 DEF TypeOK, BetsTyped, RoundsTyped, Payments, BetsHonoured,
       SettledOnce, Unpaid, Stuck, AlreadySettled, Without, RecordFails, Upset, Fails,
       rounds, clock, wheel, admin, fates
  <2>2. EitherOr'
    BY <1>0, <1>3, <1>4 DEF TypeOK, BetsTyped, RoundsTyped, Payments, Timing,
       OnTable, BetsHonoured, EitherOr, Whereabouts, Without, RecordFails, Upset,
       Fails, rounds, clock, wheel, admin, fates
  <2>3. NoneLost'
    BY <1>0, <1>3, <1>4 DEF TypeOK, BetsTyped, RoundsTyped, Payments, OnTable,
       BetsHonoured, NoneLost, Without, RecordFails, Upset, Fails, rounds, clock,
       wheel, admin, fates
  <2> QED
    BY <2>1, <2>2, <2>3 DEF BetsHonoured
<1>9. SpinComes'
  BY <1>0, <1>3, <1>4 DEF TypeOK, BetsTyped, RoundsTyped, Timing, RoundsOK,
     SpinComes, ComesUp, RefusedForReason, AlreadySettled, Without, RecordFails, Upset,
     Fails, rounds, clock, wheel, admin, fates
<1> QED
  BY <1>1, <1>2, <1>5, <1>6, <1>7, <1>8, <1>9 DEF IInv

(* Bets taken off the table in time were not paid in the round that is on.       *)
LEMMA CancelKeeps ==
  ASSUME IInv, NEW m \in Members, Cancel(m)
  PROVE  IInv'
<1>0. TypeOK /\ Timing /\ Whereabouts /\ Payments /\ RoundsOK /\ BetsHonoured /\ SpinComes
  BY DEF IInv
<1>1. TypeOK'
  <2>1. BetsTyped'
    BY <1>0 DEF TypeOK, BetsTyped, Cancel, Replace, CancelInTime, BetsOf, rounds,
       clock, admin
  <2>2. RoundsTyped'
    BY <1>0 DEF TypeOK, RoundsTyped, Cancel, Replace, CancelInTime, BetsOf, rounds,
       clock, admin, Upsets
  <2>3. ClockTyped'
    BY <1>0 DEF TypeOK, ClockTyped, Cancel, Replace, CancelInTime, BetsOf, rounds,
       clock, admin
  <2>4. AdminTyped'
    BY <1>0 DEF TypeOK, AdminTyped, Cancel, Replace, CancelInTime, BetsOf, rounds,
       clock, admin
  <2>5. CountersTyped'
    BY <1>0 DEF TypeOK, CountersTyped, Cancel, Replace, CancelInTime, BetsOf,
       rounds, clock, admin
  <2> QED
    BY <2>1, <2>2, <2>3, <2>4, <2>5 DEF TypeOK
<1>2. Timing'
  BY <1>0 DEF TypeOK, ClockTyped, Timing, Without, Cancel, Replace, CancelInTime,
     BetsOf, rounds, clock, admin
<1>3. Placed' = Placed
  BY <1>0 DEF TypeOK, BetsTyped, Placed, Cancel, Replace, CancelInTime, BetsOf,
     rounds, clock, admin
<1>4. Returning' \subseteq Returning \cup BetsOf(m)
  BY <1>0 DEF Returning, Whereabouts, Cancel, Replace, CancelInTime, BetsOf, rounds,
     clock, admin
<1>5. Whereabouts'
  <2>1. bets' = bets \ BetsOf(m) /\ BetsOf(m) \subseteq bets
    BY DEF Cancel, Replace, BetsOf
  <2>2. UNCHANGED <<due, settledRounds, round, settled>>
    BY DEF Cancel, Replace, rounds
  <2>3. refunded' \subseteq refunded \cup BetsOf(m) /\ refunding' \subseteq refunding \cup {BetsOf(m)}
    BY DEF Cancel
  <2>4. \A t \in refunding : t \subseteq Returning
    BY DEF Returning
  <2>5. \A t, u \in refunding' : t # u => t \cap u = {}
    BY <1>0, <2>1, <2>3, <2>4 DEF Whereabouts
  <2> QED
    BY <1>0, <1>3, <1>4, <2>1, <2>2, <2>3, <2>5 DEF Whereabouts
<1>6. Payments'
  BY <1>0, <1>3, <1>4 DEF TypeOK, BetsTyped, RoundsTyped, Timing, Whereabouts,
     Payments, RoundsOK, Unpaid, Stuck, AlreadySettled, Without, Cancel, Replace,
     CancelInTime, BetsOf, rounds, clock, admin
<1>7. RoundsOK'
  BY <1>0, <1>3, <1>4 DEF TypeOK, BetsTyped, RoundsTyped, Timing, Whereabouts,
     RoundsOK, AlreadySettled, Without, Cancel, Replace, CancelInTime, BetsOf, rounds,
     clock, admin
<1>8. BetsHonoured'
  <2>1. SettledOnce'
    BY <1>0, <1>3, <1>4 DEF TypeOK, BetsTyped, RoundsTyped, Payments, BetsHonoured,
       SettledOnce, Unpaid, Stuck, AlreadySettled, Without, Cancel, Replace,
       CancelInTime, BetsOf, rounds, clock, admin
  <2>2. EitherOr'
    <3>1. SUFFICES ASSUME Without({"outlasted", "failed", "answer lost"}), NEW x \in refunded'
                   PROVE  settled[x] = 0 /\ x \notin OnTable'
      BY DEF EitherOr, Without, Cancel
    <3>2. bets' = bets \ BetsOf(m) /\ BetsOf(m) \subseteq bets
      BY DEF Cancel, Replace, BetsOf
    <3>3. CASE x \in refunded
      BY <1>0, <1>4, <3>1, <3>2, <3>3 DEF BetsHonoured, EitherOr, OnTable, Without
    <3>4. CASE x \notin refunded
      <4>1. x \in BetsOf(m) /\ UNCHANGED refunding
        BY <3>1, <3>4 DEF Cancel
      <4>2. spin # "paying"
        BY <1>0, <3>1 DEF Timing, Cancel, CancelInTime, Without
      <4>3. Unpaid(x)
        BY <1>0, <3>1, <3>2, <4>1, <4>2 DEF Payments, Without
      <4> QED
        BY <1>0, <3>1, <3>2, <4>1, <4>3 DEF Unpaid, Without, Whereabouts, OnTable,
           Returning
    <3> QED
      BY <3>3, <3>4
  <2>3. NoneLost'
    <3>1. bets' = bets \ BetsOf(m) /\ BetsOf(m) \subseteq bets
      BY DEF Cancel, Replace, BetsOf
    <3>2. BetsOf(m) \subseteq refunded' \cup Returning' /\ refunded \subseteq refunded'
      BY DEF Cancel, Returning
    <3>3. Returning \subseteq Returning'
      BY DEF Cancel, Returning
    <3> QED
      BY <1>0, <1>3, <3>1, <3>2, <3>3 DEF BetsHonoured, NoneLost, OnTable, Without,
         Cancel
  <2> QED
    BY <2>1, <2>2, <2>3 DEF BetsHonoured
<1>9. SpinComes'
  BY <1>0, <1>3, <1>4 DEF TypeOK, BetsTyped, RoundsTyped, Timing, RoundsOK,
     SpinComes, ComesUp, RefusedForReason, AlreadySettled, Without, Cancel, Replace,
     CancelInTime, BetsOf, rounds, clock, admin
<1> QED
  BY <1>1, <1>2, <1>5, <1>6, <1>7, <1>8, <1>9 DEF IInv

(* What is given back was off the table since its cancel command.                *)
LEMMA RefundKeeps ==
  ASSUME IInv, NEW took \in refunding, Refund(took)
  PROVE  IInv'
<1>0. TypeOK /\ Timing /\ Whereabouts /\ Payments /\ RoundsOK /\ BetsHonoured /\ SpinComes
  BY DEF IInv
<1>1. TypeOK'
  BY <1>0 DEF TypeOK, BetsTyped, RoundsTyped, ClockTyped, AdminTyped, CountersTyped,
     Refund, rounds, clock, wheel, admin
<1>2. Timing'
  BY <1>0 DEF TypeOK, ClockTyped, Timing, Without, Refund, rounds, clock, wheel, admin
<1>3. Placed' = Placed
  BY <1>0 DEF TypeOK, BetsTyped, Placed, Refund, rounds, clock, wheel, admin
<1>4. Returning = Returning' \cup took /\ Returning' \cap took = {}
  BY <1>0 DEF Returning, Whereabouts, Refund, rounds, clock, wheel, admin
<1>5. Whereabouts'
  BY <1>0, <1>3, <1>4, NoneAssumption DEF TypeOK, BetsTyped, RoundsTyped,
     Whereabouts, Refund, rounds, clock, wheel, admin
<1>6. Payments'
  BY <1>0, <1>3, <1>4 DEF TypeOK, BetsTyped, RoundsTyped, Timing, Whereabouts,
     Payments, RoundsOK, Unpaid, Stuck, AlreadySettled, Without, Refund, rounds, clock,
     wheel, admin
<1>7. RoundsOK'
  BY <1>0, <1>3, <1>4 DEF TypeOK, BetsTyped, RoundsTyped, Timing, Whereabouts,
     RoundsOK, AlreadySettled, Without, Refund, rounds, clock, wheel, admin
<1>8. BetsHonoured'
  <2>1. SettledOnce'
    BY <1>0, <1>3, <1>4 DEF TypeOK, BetsTyped, RoundsTyped, Payments, BetsHonoured,
       SettledOnce, Unpaid, Stuck, AlreadySettled, Without, Refund, rounds, clock,
       wheel, admin
  <2>2. EitherOr'
    <3>1. took \subseteq Returning /\ took \cap bets = {}
      BY <1>0, <1>4 DEF Whereabouts
    <3>2. ASSUME Without({"outlasted", "failed", "answer lost"})
          PROVE  \A x \in took : settled[x] = 0
      BY <1>0, <3>1, <3>2 DEF Payments, Unpaid, Without
    <3> QED
      BY <1>0, <1>4, <3>1, <3>2 DEF BetsHonoured, EitherOr, OnTable, Without, Refund
  <2>3. NoneLost'
    BY <1>0, <1>3, <1>4 DEF TypeOK, BetsTyped, RoundsTyped, Payments, OnTable,
       BetsHonoured, NoneLost, Without, Refund, rounds, clock, wheel, admin
  <2> QED
    BY <2>1, <2>2, <2>3 DEF BetsHonoured
<1>9. SpinComes'
  BY <1>0, <1>3, <1>4 DEF TypeOK, BetsTyped, RoundsTyped, Timing, RoundsOK,
     SpinComes, ComesUp, RefusedForReason, AlreadySettled, Without, Refund, rounds,
     clock, wheel, admin
<1> QED
  BY <1>1, <1>2, <1>5, <1>6, <1>7, <1>8, <1>9 DEF IInv

(* What cannot be given back is put on the table again, unpaid.                  *)
LEMMA RefundFailsKeeps ==
  ASSUME IInv, NEW took \in refunding, RefundFails(took)
  PROVE  IInv'
<1>0. TypeOK /\ Timing /\ Whereabouts /\ Payments /\ RoundsOK /\ BetsHonoured /\ SpinComes
  BY DEF IInv
<1>1. TypeOK'
  <2>1. BetsTyped'
    BY <1>0 DEF TypeOK, BetsTyped, RefundFails, Upset, Fails, Push, rounds, clock, admin
  <2>2. RoundsTyped'
    BY <1>0 DEF TypeOK, RoundsTyped, RefundFails, Upset, Fails, Push, rounds, clock,
       admin, Upsets
  <2>3. ClockTyped'
    BY <1>0 DEF TypeOK, ClockTyped, RefundFails, Upset, Fails, Push, rounds, clock,
       admin
  <2>4. AdminTyped'
    BY <1>0 DEF TypeOK, AdminTyped, RefundFails, Upset, Fails, Push, rounds, clock,
       admin
  <2>5. CountersTyped'
    BY <1>0, FailsCounts DEF TypeOK, RefundFails, Upset, Push, rounds, clock, admin
  <2> QED
    BY <2>1, <2>2, <2>3, <2>4, <2>5 DEF TypeOK
<1>2. Timing'
  BY <1>0 DEF TypeOK, ClockTyped, Timing, Without, RefundFails, Upset, Fails, Push,
     rounds, clock, admin
<1>3. Placed' = Placed
  BY <1>0 DEF TypeOK, BetsTyped, Placed, RefundFails, Upset, Fails, Push, rounds,
     clock, admin
<1>4. Returning = Returning' \cup took /\ Returning' \cap took = {}
  <2>1. refunding' = refunding \ {took}
    BY DEF RefundFails
  <2> QED
    BY <1>0, <2>1 DEF Returning, Whereabouts
<1>5. Whereabouts'
  BY <1>0, <1>3, <1>4, NoneAssumption DEF TypeOK, BetsTyped, RoundsTyped,
     Whereabouts, RefundFails, Upset, Fails, Push, rounds, clock, admin
<1>6. Payments'
  BY <1>0, <1>3, <1>4 DEF TypeOK, BetsTyped, RoundsTyped, Timing, Whereabouts,
     Payments, RoundsOK, Unpaid, Stuck, AlreadySettled, Without, RefundFails, Upset,
     Fails, Push, rounds, clock, admin
<1>7. RoundsOK'
  BY <1>0, <1>3, <1>4 DEF TypeOK, BetsTyped, RoundsTyped, Timing, Whereabouts,
     RoundsOK, AlreadySettled, Without, RefundFails, Upset, Fails, Push, rounds, clock,
     admin
<1>8. BetsHonoured'
  <2>1. SettledOnce'
    BY <1>0, <1>3, <1>4 DEF TypeOK, BetsTyped, RoundsTyped, Payments, BetsHonoured,
       SettledOnce, Unpaid, Stuck, AlreadySettled, Without, RefundFails, Upset, Fails,
       Push, rounds, clock, admin
  <2>2. EitherOr'
    BY <1>0, <1>3, <1>4 DEF TypeOK, BetsTyped, RoundsTyped, Payments, Timing,
       OnTable, BetsHonoured, EitherOr, Whereabouts, Without, RefundFails, Upset,
       Fails, Push, rounds, clock, admin
  <2>3. NoneLost'
    BY <1>0, <1>3, <1>4 DEF TypeOK, BetsTyped, RoundsTyped, Payments, OnTable,
       BetsHonoured, NoneLost, Without, RefundFails, Upset, Fails, Push, rounds, clock,
       admin
  <2> QED
    BY <2>1, <2>2, <2>3 DEF BetsHonoured
<1>9. SpinComes'
  BY <1>0, <1>3, <1>4 DEF TypeOK, BetsTyped, RoundsTyped, Timing, RoundsOK,
     SpinComes, ComesUp, RefusedForReason, AlreadySettled, Without, RefundFails, Upset,
     Fails, Push, rounds, clock, admin
<1> QED
  BY <1>1, <1>2, <1>5, <1>6, <1>7, <1>8, <1>9 DEF IInv

(* Time passes while no spin is on.                                              *)
LEMMA TickKeeps ==
  ASSUME IInv, Tick
  PROVE  IInv'
<1>0. TypeOK /\ Timing /\ Whereabouts /\ Payments /\ RoundsOK /\ BetsHonoured /\ SpinComes
  BY DEF IInv
<1>1. TypeOK'
  BY <1>0 DEF TypeOK, BetsTyped, RoundsTyped, ClockTyped, AdminTyped, CountersTyped,
     Tick, rounds, wheel, admin, fates
<1>2. Timing'
  BY <1>0 DEF TypeOK, ClockTyped, Timing, Without, Tick, rounds, wheel, admin, fates
<1>3. Placed' = Placed
  BY <1>0 DEF TypeOK, BetsTyped, Placed, Tick, rounds, wheel, admin, fates
<1>4. Returning' = Returning
  BY <1>0 DEF Returning, Whereabouts, Tick, rounds, wheel, admin, fates
<1>5. Whereabouts'
  BY <1>0, <1>3, <1>4, NoneAssumption DEF TypeOK, BetsTyped, RoundsTyped,
     Whereabouts, Tick, rounds, wheel, admin, fates
<1>6. Payments'
  BY <1>0, <1>3, <1>4 DEF TypeOK, BetsTyped, RoundsTyped, Timing, Whereabouts,
     Payments, RoundsOK, Unpaid, Stuck, AlreadySettled, Without, Tick, rounds, wheel,
     admin, fates
<1>7. RoundsOK'
  BY <1>0, <1>3, <1>4 DEF TypeOK, BetsTyped, RoundsTyped, Timing, Whereabouts,
     RoundsOK, AlreadySettled, Without, Tick, rounds, wheel, admin, fates
<1>8. BetsHonoured'
  <2>1. SettledOnce'
    BY <1>0, <1>3, <1>4 DEF TypeOK, BetsTyped, RoundsTyped, Payments, BetsHonoured,
       SettledOnce, Unpaid, Stuck, AlreadySettled, Without, Tick, rounds, wheel, admin,
       fates
  <2>2. EitherOr'
    BY <1>0, <1>3, <1>4 DEF TypeOK, BetsTyped, RoundsTyped, Payments, Timing,
       OnTable, BetsHonoured, EitherOr, Whereabouts, Without, Tick, rounds, wheel,
       admin, fates
  <2>3. NoneLost'
    BY <1>0, <1>3, <1>4 DEF TypeOK, BetsTyped, RoundsTyped, Payments, OnTable,
       BetsHonoured, NoneLost, Without, Tick, rounds, wheel, admin, fates
  <2> QED
    BY <2>1, <2>2, <2>3 DEF BetsHonoured
<1>9. SpinComes'
  BY <1>0, <1>3, <1>4 DEF TypeOK, BetsTyped, RoundsTyped, Timing, RoundsOK,
     SpinComes, ComesUp, RefusedForReason, AlreadySettled, Without, Tick, rounds,
     wheel, admin, fates
<1> QED
  BY <1>1, <1>2, <1>5, <1>6, <1>7, <1>8, <1>9 DEF IInv

(* A spin settles its round before the wheel turns, unless the round has no      *)
(* name.                                                                         *)
LEMMA SpinWheelKeeps ==
  ASSUME IInv, SpinWheel
  PROVE  IInv'
<1>0. TypeOK /\ Timing /\ Whereabouts /\ Payments /\ RoundsOK /\ BetsHonoured /\ SpinComes
  BY DEF IInv
<1>1. TypeOK'
  <2>1. BetsTyped'
    BY <1>0 DEF TypeOK, BetsTyped, SpinWheel, UpsetIf, Due, Named, admin, fates
  <2>2. RoundsTyped'
    BY <1>0 DEF TypeOK, RoundsTyped, SpinWheel, UpsetIf, Due, Named, admin, fates,
       Upsets
  <2>3. ClockTyped'
    BY <1>0 DEF TypeOK, ClockTyped, SpinWheel, UpsetIf, Due, Named, admin, fates
  <2>4. AdminTyped'
    BY <1>0 DEF TypeOK, AdminTyped, SpinWheel, UpsetIf, Due, Named, admin, fates
  <2>5. CountersTyped'
    BY <1>0 DEF TypeOK, CountersTyped, SpinWheel, UpsetIf, Due, Named, admin, fates
  <2> QED
    BY <2>1, <2>2, <2>3, <2>4, <2>5 DEF TypeOK
<1>2. Timing'
  BY <1>0 DEF TypeOK, ClockTyped, Timing, Without, SpinWheel, UpsetIf, Due, Named,
     admin, fates
<1>3. Placed' = Placed
  BY <1>0 DEF TypeOK, BetsTyped, Placed, SpinWheel, UpsetIf, Due, Named, admin, fates
<1>4. Returning' = Returning
  BY <1>0 DEF Returning, Whereabouts, SpinWheel, UpsetIf, Due, Named, admin, fates
<1>5. Whereabouts'
  BY <1>0, <1>3, <1>4, NoneAssumption DEF TypeOK, BetsTyped, RoundsTyped,
     Whereabouts, SpinWheel, UpsetIf, Due, Named, admin, fates
<1>6. Payments'
  BY <1>0, <1>3, <1>4 DEF TypeOK, BetsTyped, RoundsTyped, Timing, Whereabouts,
     Payments, RoundsOK, Unpaid, Stuck, AlreadySettled, Without, SpinWheel, UpsetIf,
     Due, Named, admin, fates
<1>7. RoundsOK'
  BY <1>0, <1>3, <1>4 DEF TypeOK, BetsTyped, RoundsTyped, Timing, Whereabouts,
     RoundsOK, AlreadySettled, Without, SpinWheel, UpsetIf, Due, Named, admin, fates
<1>8. BetsHonoured'
  <2>1. SettledOnce'
    BY <1>0, <1>3, <1>4 DEF TypeOK, BetsTyped, RoundsTyped, Payments, BetsHonoured,
       SettledOnce, Unpaid, Stuck, AlreadySettled, Without, SpinWheel, UpsetIf, Due,
       Named, admin, fates
  <2>2. EitherOr'
    BY <1>0, <1>3, <1>4 DEF TypeOK, BetsTyped, RoundsTyped, Payments, Timing,
       OnTable, BetsHonoured, EitherOr, Whereabouts, Without, SpinWheel, UpsetIf, Due,
       Named, admin, fates
  <2>3. NoneLost'
    BY <1>0, <1>3, <1>4 DEF TypeOK, BetsTyped, RoundsTyped, Payments, OnTable,
       BetsHonoured, NoneLost, Without, SpinWheel, UpsetIf, Due, Named, admin, fates
  <2> QED
    BY <2>1, <2>2, <2>3 DEF BetsHonoured
<1>9. SpinComes'
  BY <1>0, <1>3, <1>4 DEF TypeOK, BetsTyped, RoundsTyped, Timing, RoundsOK,
     SpinComes, ComesUp, RefusedForReason, AlreadySettled, Without, SpinWheel, UpsetIf,
     Due, Named, admin, fates
<1> QED
  BY <1>1, <1>2, <1>5, <1>6, <1>7, <1>8, <1>9 DEF IInv

(* A round is refused as settled only without bets, or after something failed.   *)
LEMMA RefuseSpinKeeps ==
  ASSUME IInv, RefuseSpin
  PROVE  IInv'
<1>0. TypeOK /\ Timing /\ Whereabouts /\ Payments /\ RoundsOK /\ BetsHonoured /\ SpinComes
  BY DEF IInv
<1>1. TypeOK'
  <2>1. BetsTyped'
    BY <1>0 DEF TypeOK, BetsTyped, RefuseSpin, Upset, Due, rounds, wheel, admin, fates
  <2>2. RoundsTyped'
    BY <1>0 DEF TypeOK, RoundsTyped, RefuseSpin, Upset, Due, rounds, wheel, admin,
       fates, Upsets
  <2>3. ClockTyped'
    BY <1>0 DEF TypeOK, ClockTyped, RefuseSpin, Upset, Due, rounds, wheel, admin, fates
  <2>4. AdminTyped'
    BY <1>0 DEF TypeOK, AdminTyped, RefuseSpin, Upset, Due, rounds, wheel, admin, fates
  <2>5. CountersTyped'
    BY <1>0 DEF TypeOK, CountersTyped, RefuseSpin, Upset, Due, rounds, wheel, admin,
       fates
  <2> QED
    BY <2>1, <2>2, <2>3, <2>4, <2>5 DEF TypeOK
<1>2. Timing'
  BY <1>0 DEF TypeOK, ClockTyped, Timing, Without, RefuseSpin, Upset, Due, rounds,
     wheel, admin, fates
<1>3. Placed' = Placed
  BY <1>0 DEF TypeOK, BetsTyped, Placed, RefuseSpin, Upset, Due, rounds, wheel,
     admin, fates
<1>4. Returning' = Returning
  BY <1>0 DEF Returning, Whereabouts, RefuseSpin, Upset, Due, rounds, wheel, admin,
     fates
<1>5. Whereabouts'
  BY <1>0, <1>3, <1>4, NoneAssumption DEF TypeOK, BetsTyped, RoundsTyped,
     Whereabouts, RefuseSpin, Upset, Due, rounds, wheel, admin, fates
<1>6. Payments'
  BY <1>0, <1>3, <1>4 DEF TypeOK, BetsTyped, RoundsTyped, Timing, Whereabouts,
     Payments, RoundsOK, Unpaid, Stuck, AlreadySettled, Without, RefuseSpin, Upset,
     Due, rounds, wheel, admin, fates
<1>7. RoundsOK'
  BY <1>0, <1>3, <1>4 DEF TypeOK, BetsTyped, RoundsTyped, Timing, Whereabouts,
     RoundsOK, AlreadySettled, Without, RefuseSpin, Upset, Due, rounds, wheel, admin,
     fates
<1>8. BetsHonoured'
  <2>1. SettledOnce'
    BY <1>0, <1>3, <1>4 DEF TypeOK, BetsTyped, RoundsTyped, Payments, BetsHonoured,
       SettledOnce, Unpaid, Stuck, AlreadySettled, Without, RefuseSpin, Upset, Due,
       rounds, wheel, admin, fates
  <2>2. EitherOr'
    BY <1>0, <1>3, <1>4 DEF TypeOK, BetsTyped, RoundsTyped, Payments, Timing,
       OnTable, BetsHonoured, EitherOr, Whereabouts, Without, RefuseSpin, Upset, Due,
       rounds, wheel, admin, fates
  <2>3. NoneLost'
    BY <1>0, <1>3, <1>4 DEF TypeOK, BetsTyped, RoundsTyped, Payments, OnTable,
       BetsHonoured, NoneLost, Without, RefuseSpin, Upset, Due, rounds, wheel, admin,
       fates
  <2> QED
    BY <2>1, <2>2, <2>3 DEF BetsHonoured
<1>9. SpinComes'
  <2>1. upsets \subseteq upsets' /\ UNCHANGED <<bets, willSpin, pc>>
    BY DEF RefuseSpin, Upset, clock
  <2>2. ComesUp'
    BY <1>0, <2>1 DEF SpinComes, ComesUp, Without
  <2>3. ASSUME "refused" \in upsets', Without({"failed", "put back", "outlasted"})'
        PROVE  FALSE
    <3>1. Without({"failed", "put back", "outlasted"})
      BY <2>1, <2>3 DEF Without
    <3>2. bets # {} /\ AlreadySettled
      BY <1>0, <2>3, <3>1 DEF SpinComes, RefusedForReason, RefuseSpin, Upset
    <3>3. spin = "idle"
      BY <1>0, <3>1 DEF Timing, TypeOK, ClockTyped, RefuseSpin, Due, Without
    <3> QED
      BY <1>0, <3>1, <3>2, <3>3 DEF RoundsOK, Without
  <2> QED
    BY <2>2, <2>3 DEF SpinComes, RefusedForReason
<1> QED
  BY <1>1, <1>2, <1>5, <1>6, <1>7, <1>8, <1>9 DEF IInv

(* The pause begins when the wheel has turned.                                   *)
LEMMA ShowsKeeps ==
  ASSUME IInv, Shows
  PROVE  IInv'
<1>0. TypeOK /\ Timing /\ Whereabouts /\ Payments /\ RoundsOK /\ BetsHonoured /\ SpinComes
  BY DEF IInv
<1>1. TypeOK'
  BY <1>0 DEF TypeOK, BetsTyped, RoundsTyped, ClockTyped, AdminTyped, CountersTyped,
     Shows, rounds, admin, fates
<1>2. Timing'
  BY <1>0 DEF TypeOK, ClockTyped, Timing, Without, Shows, rounds, admin, fates
<1>3. Placed' = Placed
  BY <1>0 DEF TypeOK, BetsTyped, Placed, Shows, rounds, admin, fates
<1>4. Returning' = Returning
  BY <1>0 DEF Returning, Whereabouts, Shows, rounds, admin, fates
<1>5. Whereabouts'
  BY <1>0, <1>3, <1>4, NoneAssumption DEF TypeOK, BetsTyped, RoundsTyped,
     Whereabouts, Shows, rounds, admin, fates
<1>6. Payments'
  BY <1>0, <1>3, <1>4 DEF TypeOK, BetsTyped, RoundsTyped, Timing, Whereabouts,
     Payments, RoundsOK, Unpaid, Stuck, AlreadySettled, Without, Shows, rounds, admin,
     fates
<1>7. RoundsOK'
  BY <1>0, <1>3, <1>4 DEF TypeOK, BetsTyped, RoundsTyped, Timing, Whereabouts,
     RoundsOK, AlreadySettled, Without, Shows, rounds, admin, fates
<1>8. BetsHonoured'
  <2>1. SettledOnce'
    BY <1>0, <1>3, <1>4 DEF TypeOK, BetsTyped, RoundsTyped, Payments, BetsHonoured,
       SettledOnce, Unpaid, Stuck, AlreadySettled, Without, Shows, rounds, admin, fates
  <2>2. EitherOr'
    BY <1>0, <1>3, <1>4 DEF TypeOK, BetsTyped, RoundsTyped, Payments, Timing,
       OnTable, BetsHonoured, EitherOr, Whereabouts, Without, Shows, rounds, admin,
       fates
  <2>3. NoneLost'
    BY <1>0, <1>3, <1>4 DEF TypeOK, BetsTyped, RoundsTyped, Payments, OnTable,
       BetsHonoured, NoneLost, Without, Shows, rounds, admin, fates
  <2> QED
    BY <2>1, <2>2, <2>3 DEF BetsHonoured
<1>9. SpinComes'
  BY <1>0, <1>3, <1>4 DEF TypeOK, BetsTyped, RoundsTyped, Timing, RoundsOK,
     SpinComes, ComesUp, RefusedForReason, AlreadySettled, Without, Shows, rounds,
     admin, fates
<1> QED
  BY <1>1, <1>2, <1>5, <1>6, <1>7, <1>8, <1>9 DEF IInv

(* The settlement begins with all bets that are on the table.                    *)
LEMMA PaysKeeps ==
  ASSUME IInv, Pays
  PROVE  IInv'
<1>0. TypeOK /\ Timing /\ Whereabouts /\ Payments /\ RoundsOK /\ BetsHonoured /\ SpinComes
  BY DEF IInv
<1>1. TypeOK'
  BY <1>0 DEF TypeOK, BetsTyped, RoundsTyped, ClockTyped, AdminTyped, CountersTyped,
     Pays, rounds, clock, admin, fates
<1>2. Timing'
  BY <1>0 DEF TypeOK, ClockTyped, Timing, Without, Pays, rounds, clock, admin, fates
<1>3. Placed' = Placed
  BY <1>0 DEF TypeOK, BetsTyped, Placed, Pays, rounds, clock, admin, fates
<1>4. Returning' = Returning
  BY <1>0 DEF Returning, Whereabouts, Pays, rounds, clock, admin, fates
<1>5. Whereabouts'
  BY <1>0, <1>3, <1>4, NoneAssumption DEF TypeOK, BetsTyped, RoundsTyped,
     Whereabouts, Pays, rounds, clock, admin, fates
<1>6. Payments'
  BY <1>0, <1>3, <1>4 DEF TypeOK, BetsTyped, RoundsTyped, Timing, Whereabouts,
     Payments, RoundsOK, Unpaid, Stuck, AlreadySettled, Without, Pays, rounds, clock,
     admin, fates
<1>7. RoundsOK'
  BY <1>0, <1>3, <1>4 DEF TypeOK, BetsTyped, RoundsTyped, Timing, Whereabouts,
     RoundsOK, AlreadySettled, Without, Pays, rounds, clock, admin, fates
<1>8. BetsHonoured'
  <2>1. SettledOnce'
    BY <1>0, <1>3, <1>4 DEF TypeOK, BetsTyped, RoundsTyped, Payments, BetsHonoured,
       SettledOnce, Unpaid, Stuck, AlreadySettled, Without, Pays, rounds, clock, admin,
       fates
  <2>2. EitherOr'
    BY <1>0, <1>3, <1>4 DEF TypeOK, BetsTyped, RoundsTyped, Payments, Timing,
       OnTable, BetsHonoured, EitherOr, Whereabouts, Without, Pays, rounds, clock,
       admin, fates
  <2>3. NoneLost'
    BY <1>0, <1>3, <1>4 DEF TypeOK, BetsTyped, RoundsTyped, Payments, OnTable,
       BetsHonoured, NoneLost, Without, Pays, rounds, clock, admin, fates
  <2> QED
    BY <2>1, <2>2, <2>3 DEF BetsHonoured
<1>9. SpinComes'
  BY <1>0, <1>3, <1>4 DEF TypeOK, BetsTyped, RoundsTyped, Timing, RoundsOK,
     SpinComes, ComesUp, RefusedForReason, AlreadySettled, Without, Pays, rounds,
     clock, admin, fates
<1> QED
  BY <1>1, <1>2, <1>5, <1>6, <1>7, <1>8, <1>9 DEF IInv

(* A bet is paid that the loop had yet to come to: it was not paid before.       *)
LEMMA SettleBetKeeps ==
  ASSUME IInv, NEW b \in Bets, SettleBet(b)
  PROVE  IInv'
<1>0. TypeOK /\ Timing /\ Whereabouts /\ Payments /\ RoundsOK /\ BetsHonoured /\ SpinComes
  BY DEF IInv
<1>1. TypeOK'
  BY <1>0 DEF TypeOK, BetsTyped, RoundsTyped, ClockTyped, AdminTyped, CountersTyped,
     SettleBet, rounds, clock, admin
<1>2. Timing'
  BY <1>0 DEF TypeOK, ClockTyped, Timing, Without, SettleBet, rounds, clock, admin
<1>3. Placed' = Placed
  BY <1>0 DEF TypeOK, BetsTyped, Placed, SettleBet, rounds, clock, admin
<1>4. Returning' = Returning
  BY <1>0 DEF Returning, Whereabouts, SettleBet, rounds, clock, admin
<1>5. Whereabouts'
  BY <1>0, <1>3, <1>4, NoneAssumption DEF TypeOK, BetsTyped, RoundsTyped,
     Whereabouts, SettleBet, rounds, clock, admin
<1>6. Payments'
  BY <1>0, <1>3, <1>4 DEF TypeOK, BetsTyped, RoundsTyped, Timing, Whereabouts,
     Payments, RoundsOK, Unpaid, Stuck, AlreadySettled, Without, SettleBet, rounds,
     clock, admin
<1>7. RoundsOK'
  BY <1>0, <1>3, <1>4 DEF TypeOK, BetsTyped, RoundsTyped, Timing, Whereabouts,
     RoundsOK, AlreadySettled, Without, SettleBet, rounds, clock, admin
<1>8. BetsHonoured'
  <2>1. SettledOnce'
    BY <1>0, <1>3, <1>4 DEF TypeOK, BetsTyped, RoundsTyped, Payments, BetsHonoured,
       SettledOnce, Unpaid, Stuck, AlreadySettled, Without, SettleBet, rounds, clock,
       admin
  <2>2. EitherOr'
    <3>1. SUFFICES ASSUME Without({"outlasted", "failed", "answer lost"}), NEW x \in refunded
                   PROVE  settled'[x] = 0 /\ x \notin OnTable'
      BY DEF EitherOr, Without, SettleBet
    <3>2. settled[x] = 0 /\ x \notin OnTable
      BY <1>0, <3>1 DEF BetsHonoured, EitherOr
    <3>3. b \in bets
      BY <1>0, <3>1 DEF Payments, Without, SettleBet
    <3>4. x # b
      BY <3>2, <3>3 DEF OnTable
    <3> QED
      BY <1>0, <1>4, <3>2, <3>4 DEF TypeOK, BetsTyped, SettleBet, OnTable
  <2>3. NoneLost'
    BY <1>0, <1>3, <1>4 DEF TypeOK, BetsTyped, RoundsTyped, Payments, OnTable,
       BetsHonoured, NoneLost, Without, SettleBet, rounds, clock, admin
  <2> QED
    BY <2>1, <2>2, <2>3 DEF BetsHonoured
<1>9. SpinComes'
  BY <1>0, <1>3, <1>4 DEF TypeOK, BetsTyped, RoundsTyped, Timing, RoundsOK,
     SpinComes, ComesUp, RefusedForReason, AlreadySettled, Without, SettleBet, rounds,
     clock, admin
<1> QED
  BY <1>1, <1>2, <1>5, <1>6, <1>7, <1>8, <1>9 DEF IInv

(* At the end of the settlement all bets on the table were paid.                 *)
LEMMA SettleRoundKeeps ==
  ASSUME IInv, SettleRound
  PROVE  IInv'
<1>0. TypeOK /\ Timing /\ Whereabouts /\ Payments /\ RoundsOK /\ BetsHonoured /\ SpinComes
  BY DEF IInv
<1>1. TypeOK'
  BY <1>0 DEF TypeOK, BetsTyped, RoundsTyped, ClockTyped, AdminTyped, CountersTyped,
     SettleRound, clock, admin, fates
<1>2. Timing'
  BY <1>0 DEF TypeOK, ClockTyped, Timing, Without, SettleRound, clock, admin, fates
<1>3. Placed' = Placed
  BY <1>0 DEF TypeOK, BetsTyped, Placed, SettleRound, clock, admin, fates
<1>4. Returning' = Returning
  BY <1>0 DEF Returning, Whereabouts, SettleRound, clock, admin, fates
<1>5. Whereabouts'
  BY <1>0, <1>3, <1>4, NoneAssumption DEF TypeOK, BetsTyped, RoundsTyped,
     Whereabouts, SettleRound, clock, admin, fates
<1>6. Payments'
  BY <1>0, <1>3, <1>4 DEF TypeOK, BetsTyped, RoundsTyped, Timing, Whereabouts,
     Payments, RoundsOK, Unpaid, Stuck, AlreadySettled, Without, SettleRound, clock,
     admin, fates
<1>7. RoundsOK'
  BY <1>0, <1>3, <1>4 DEF TypeOK, BetsTyped, RoundsTyped, Timing, Whereabouts,
     RoundsOK, AlreadySettled, Without, SettleRound, clock, admin, fates
<1>8. BetsHonoured'
  <2>1. SettledOnce'
    BY <1>0, <1>3, <1>4 DEF TypeOK, BetsTyped, RoundsTyped, Payments, BetsHonoured,
       SettledOnce, Unpaid, Stuck, AlreadySettled, Without, SettleRound, clock, admin,
       fates
  <2>2. EitherOr'
    BY <1>0, <1>3, <1>4 DEF TypeOK, BetsTyped, RoundsTyped, Payments, Timing,
       OnTable, BetsHonoured, EitherOr, Whereabouts, Without, SettleRound, clock,
       admin, fates
  <2>3. NoneLost'
    BY <1>0, <1>3, <1>4 DEF TypeOK, BetsTyped, RoundsTyped, Payments, OnTable,
       BetsHonoured, NoneLost, Without, SettleRound, clock, admin, fates
  <2> QED
    BY <2>1, <2>2, <2>3 DEF BetsHonoured
<1>9. SpinComes'
  BY <1>0, <1>3, <1>4 DEF TypeOK, BetsTyped, RoundsTyped, Timing, RoundsOK,
     SpinComes, ComesUp, RefusedForReason, AlreadySettled, Without, SettleRound, clock,
     admin, fates
<1> QED
  BY <1>1, <1>2, <1>5, <1>6, <1>7, <1>8, <1>9 DEF IInv

(* A spin that fails is stuck in its round: no spin of it will be let through.   *)
LEMMA SpinFailsKeeps ==
  ASSUME IInv, SpinFails
  PROVE  IInv'
<1>0. TypeOK /\ Timing /\ Whereabouts /\ Payments /\ RoundsOK /\ BetsHonoured /\ SpinComes
  BY DEF IInv
<1>1. TypeOK'
  <2>1. BetsTyped'
    BY <1>0 DEF TypeOK, BetsTyped, SpinFails, Upset, Fails, rounds, clock, admin
  <2>2. RoundsTyped'
    BY <1>0 DEF TypeOK, RoundsTyped, SpinFails, Upset, Fails, rounds, clock, admin,
       Upsets
  <2>3. ClockTyped'
    BY <1>0 DEF TypeOK, ClockTyped, SpinFails, Upset, Fails, rounds, clock, admin
  <2>4. AdminTyped'
    BY <1>0 DEF TypeOK, AdminTyped, SpinFails, Upset, Fails, rounds, clock, admin
  <2>5. CountersTyped'
    BY <1>0, FailsCounts DEF TypeOK, SpinFails, Upset, rounds, clock, admin
  <2> QED
    BY <2>1, <2>2, <2>3, <2>4, <2>5 DEF TypeOK
<1>2. Timing'
  BY <1>0 DEF TypeOK, ClockTyped, Timing, Without, SpinFails, Upset, Fails, rounds,
     clock, admin
<1>3. Placed' = Placed
  BY <1>0 DEF TypeOK, BetsTyped, Placed, SpinFails, Upset, Fails, rounds, clock, admin
<1>4. Returning' = Returning
  BY <1>0 DEF Returning, Whereabouts, SpinFails, Upset, Fails, rounds, clock, admin
<1>5. Whereabouts'
  BY <1>0, <1>3, <1>4, NoneAssumption DEF TypeOK, BetsTyped, RoundsTyped,
     Whereabouts, SpinFails, Upset, Fails, rounds, clock, admin
<1>6. Payments'
  <2>1. /\ spin' = "idle" /\ due' = {} /\ upsets' = upsets \cup {"failed"}
        /\ UNCHANGED <<bets, round, phase, settledRounds>>
    BY DEF SpinFails, Upset, rounds
  <2>2. ASSUME "unnamed" \notin upsets
        PROVE  Stuck'
    BY <1>0, <2>1, <2>2 DEF SpinFails, Stuck, RoundsOK, AlreadySettled, Without
  <2> QED
    BY <2>1, <2>2 DEF Payments, Unpaid, Without
<1>7. RoundsOK'
  BY <1>0, <1>3, <1>4 DEF TypeOK, BetsTyped, RoundsTyped, Timing, Whereabouts,
     RoundsOK, AlreadySettled, Without, SpinFails, Upset, Fails, rounds, clock, admin
<1>8. BetsHonoured'
  <2>1. SettledOnce'
    BY <1>0, <1>3, <1>4 DEF TypeOK, BetsTyped, RoundsTyped, Payments, BetsHonoured,
       SettledOnce, Unpaid, Stuck, AlreadySettled, Without, SpinFails, Upset, Fails,
       rounds, clock, admin
  <2>2. EitherOr'
    BY <1>0, <1>3, <1>4 DEF TypeOK, BetsTyped, RoundsTyped, Payments, Timing,
       OnTable, BetsHonoured, EitherOr, Whereabouts, Without, SpinFails, Upset, Fails,
       rounds, clock, admin
  <2>3. NoneLost'
    <3>1. \A x \in Bets : settled'[x] >= settled[x]
      BY <1>0 DEF TypeOK, BetsTyped, SpinFails
    <3>2. UNCHANGED <<bets, refunded>> /\ upsets' = upsets \cup {"failed"}
      BY DEF SpinFails, Upset
    <3> QED
      BY <1>0, <1>3, <1>4, <1>1, <3>1, <3>2 DEF BetsHonoured, NoneLost, OnTable,
         Without, TypeOK, BetsTyped, Placed
  <2> QED
    BY <2>1, <2>2, <2>3 DEF BetsHonoured
<1>9. SpinComes'
  BY <1>0, <1>3, <1>4 DEF TypeOK, BetsTyped, RoundsTyped, Timing, RoundsOK,
     SpinComes, ComesUp, RefusedForReason, AlreadySettled, Without, SpinFails, Upset,
     Fails, rounds, clock, admin
<1> QED
  BY <1>1, <1>2, <1>5, <1>6, <1>7, <1>8, <1>9 DEF IInv

(* When the pause is over there are no bets on the table.                        *)
LEMMA PauseEndsKeeps ==
  ASSUME IInv, PauseEnds
  PROVE  IInv'
<1>0. TypeOK /\ Timing /\ Whereabouts /\ Payments /\ RoundsOK /\ BetsHonoured /\ SpinComes
  BY DEF IInv
<1>1. TypeOK'
  <2>1. BetsTyped'
    BY <1>0 DEF TypeOK, BetsTyped, PauseEnds, UpsetIf, rounds, wheel, admin, fates
  <2>2. RoundsTyped'
    BY <1>0 DEF TypeOK, RoundsTyped, PauseEnds, UpsetIf, rounds, wheel, admin,
       fates, Upsets
  <2>3. ClockTyped'
    BY <1>0 DEF TypeOK, ClockTyped, PauseEnds, UpsetIf, rounds, wheel, admin, fates
  <2>4. AdminTyped'
    BY <1>0 DEF TypeOK, AdminTyped, PauseEnds, UpsetIf, rounds, wheel, admin, fates
  <2>5. CountersTyped'
    BY <1>0 DEF TypeOK, CountersTyped, PauseEnds, UpsetIf, rounds, wheel, admin, fates
  <2> QED
    BY <2>1, <2>2, <2>3, <2>4, <2>5 DEF TypeOK
<1>2. Timing'
  BY <1>0 DEF TypeOK, ClockTyped, Timing, Without, PauseEnds, UpsetIf, rounds,
     wheel, admin, fates
<1>3. Placed' = Placed
  BY <1>0 DEF TypeOK, BetsTyped, Placed, PauseEnds, UpsetIf, rounds, wheel, admin, fates
<1>4. Returning' = Returning
  BY <1>0 DEF Returning, Whereabouts, PauseEnds, UpsetIf, rounds, wheel, admin, fates
<1>5. Whereabouts'
  BY <1>0, <1>3, <1>4, NoneAssumption DEF TypeOK, BetsTyped, RoundsTyped,
     Whereabouts, PauseEnds, UpsetIf, rounds, wheel, admin, fates
<1>6. Payments'
  BY <1>0, <1>3, <1>4 DEF TypeOK, BetsTyped, RoundsTyped, Timing, Whereabouts,
     Payments, RoundsOK, Unpaid, Stuck, AlreadySettled, Without, PauseEnds, UpsetIf,
     rounds, wheel, admin, fates
<1>7. RoundsOK'
  BY <1>0, <1>3, <1>4 DEF TypeOK, BetsTyped, RoundsTyped, Timing, Whereabouts,
     RoundsOK, AlreadySettled, Without, PauseEnds, UpsetIf, rounds, wheel, admin, fates
<1>8. BetsHonoured'
  <2>1. SettledOnce'
    BY <1>0, <1>3, <1>4 DEF TypeOK, BetsTyped, RoundsTyped, Payments, BetsHonoured,
       SettledOnce, Unpaid, Stuck, AlreadySettled, Without, PauseEnds, UpsetIf, rounds,
       wheel, admin, fates
  <2>2. EitherOr'
    BY <1>0, <1>3, <1>4 DEF TypeOK, BetsTyped, RoundsTyped, Payments, Timing,
       OnTable, BetsHonoured, EitherOr, Whereabouts, Without, PauseEnds, UpsetIf,
       rounds, wheel, admin, fates
  <2>3. NoneLost'
    BY <1>0, <1>3, <1>4 DEF TypeOK, BetsTyped, RoundsTyped, Payments, OnTable,
       BetsHonoured, NoneLost, Without, PauseEnds, UpsetIf, rounds, wheel, admin, fates
  <2> QED
    BY <2>1, <2>2, <2>3 DEF BetsHonoured
<1>9. SpinComes'
  <2>1. upsets \subseteq upsets' /\ UNCHANGED <<bets, pc, spin>>
    BY DEF PauseEnds, UpsetIf, wheel
  <2>2. RefusedForReason'
    BY <1>0 DEF SpinComes, RefusedForReason, Without, PauseEnds, UpsetIf
  <2>3. ASSUME Without({"late", "unrecorded", "failed", "outlasted", "put back"})'
        PROVE  bets = {}
    <3>1. Without({"late", "unrecorded", "failed", "outlasted", "put back"})
      BY <2>1, <2>3 DEF Without
    <3>2. spin # "paying"
      BY <2>3 DEF PauseEnds, UpsetIf, Without
    <3>3. pause /\ spin = "idle"
      BY <1>0, <3>2 DEF TypeOK, ClockTyped, Timing, PauseEnds
    <3> QED
      BY <1>0, <3>1, <3>3 DEF RoundsOK
  <2>4. ComesUp'
    BY <2>1, <2>3 DEF ComesUp
  <2> QED
    BY <2>2, <2>4 DEF SpinComes
<1> QED
  BY <1>1, <1>2, <1>5, <1>6, <1>7, <1>8, <1>9 DEF IInv

(* A close command concerns the administration only.                             *)
LEMMA CloseKeeps ==
  ASSUME IInv, Close
  PROVE  IInv'
<1>0. TypeOK /\ Timing /\ Whereabouts /\ Payments /\ RoundsOK /\ BetsHonoured /\ SpinComes
  BY DEF IInv
<1>1. TypeOK'
  BY <1>0, ClosingCounts DEF TypeOK, BetsTyped, RoundsTyped, ClockTyped, AdminTyped,
     Close, Play, Table, rounds, fates, wheel
<1>2. UNCHANGED <<bets, refunding, rounds, clock, wheel, fates, upsets>>
  BY DEF Close, Play, Table, rounds, fates, wheel, clock
<1>3. Placed' = Placed /\ \A x \in Bets : pc[x] = "recording" => pc'[x] = "recording"
  BY <1>0 DEF TypeOK, BetsTyped, Placed, Close, Play, Table, rounds, fates, wheel
<1>4. ending' = "waiting" => willSpin \in {"none", "open"}
  BY <1>0 DEF Timing, Close, Play, Table, rounds, fates, wheel
<1> QED
  BY <1>1, <1>2, <1>3, <1>4, FrameKeeps

(* The last round starts the clock, unless it ticks.                             *)
LEMMA LastRoundKeeps ==
  ASSUME IInv, LastRound
  PROVE  IInv'
<1>0. TypeOK /\ Timing /\ Whereabouts /\ Payments /\ RoundsOK /\ BetsHonoured /\ SpinComes
  BY DEF IInv
<1>1. TypeOK'
  BY <1>0 DEF TypeOK, BetsTyped, RoundsTyped, ClockTyped, AdminTyped, CountersTyped,
     LastRound, StartTimer, Play, Table, rounds, fates, wheel
<1>2. Timing'
  BY <1>0 DEF TypeOK, ClockTyped, Timing, Without, LastRound, StartTimer, Play,
     Table, rounds, fates, wheel
<1>3. Placed' = Placed
  BY <1>0 DEF TypeOK, BetsTyped, Placed, LastRound, StartTimer, Play, Table, rounds,
     fates, wheel
<1>4. Returning' = Returning
  BY <1>0 DEF Returning, Whereabouts, LastRound, StartTimer, Play, Table, rounds,
     fates, wheel
<1>5. Whereabouts'
  BY <1>0, <1>3, <1>4, NoneAssumption DEF TypeOK, BetsTyped, RoundsTyped,
     Whereabouts, LastRound, StartTimer, Play, Table, rounds, fates, wheel
<1>6. Payments'
  BY <1>0, <1>3, <1>4 DEF TypeOK, BetsTyped, RoundsTyped, Timing, Whereabouts,
     Payments, RoundsOK, Unpaid, Stuck, AlreadySettled, Without, LastRound, StartTimer,
     Play, Table, rounds, fates, wheel
<1>7. RoundsOK'
  BY <1>0, <1>3, <1>4 DEF TypeOK, BetsTyped, RoundsTyped, Timing, Whereabouts,
     RoundsOK, AlreadySettled, Without, LastRound, StartTimer, Play, Table, rounds,
     fates, wheel
<1>8. BetsHonoured'
  <2>1. SettledOnce'
    BY <1>0, <1>3, <1>4 DEF TypeOK, BetsTyped, RoundsTyped, Payments, BetsHonoured,
       SettledOnce, Unpaid, Stuck, AlreadySettled, Without, LastRound, StartTimer,
       Play, Table, rounds, fates, wheel
  <2>2. EitherOr'
    BY <1>0, <1>3, <1>4 DEF TypeOK, BetsTyped, RoundsTyped, Payments, Timing,
       OnTable, BetsHonoured, EitherOr, Whereabouts, Without, LastRound, StartTimer,
       Play, Table, rounds, fates, wheel
  <2>3. NoneLost'
    BY <1>0, <1>3, <1>4 DEF TypeOK, BetsTyped, RoundsTyped, Payments, OnTable,
       BetsHonoured, NoneLost, Without, LastRound, StartTimer, Play, Table, rounds,
       fates, wheel
  <2> QED
    BY <2>1, <2>2, <2>3 DEF BetsHonoured
<1>9. SpinComes'
  BY <1>0, <1>3, <1>4 DEF TypeOK, BetsTyped, RoundsTyped, Timing, RoundsOK,
     SpinComes, ComesUp, RefusedForReason, AlreadySettled, Without, LastRound,
     StartTimer, Play, Table, rounds, fates, wheel
<1> QED
  BY <1>1, <1>2, <1>5, <1>6, <1>7, <1>8, <1>9 DEF IInv

(* The last round is over.                                                       *)
LEMMA LastRoundPlayedKeeps ==
  ASSUME IInv, LastRoundPlayed
  PROVE  IInv'
<1>0. TypeOK /\ Timing /\ Whereabouts /\ Payments /\ RoundsOK /\ BetsHonoured /\ SpinComes
  BY DEF IInv
<1>1. TypeOK'
  BY <1>0 DEF TypeOK, BetsTyped, RoundsTyped, ClockTyped, AdminTyped, CountersTyped,
     LastRoundPlayed, Play, Table, rounds, fates, wheel
<1>2. UNCHANGED <<bets, refunding, rounds, clock, wheel, fates, upsets>>
  BY DEF LastRoundPlayed, Play, Table, rounds, fates, wheel, clock
<1>3. Placed' = Placed /\ \A x \in Bets : pc[x] = "recording" => pc'[x] = "recording"
  BY <1>0 DEF TypeOK, BetsTyped, Placed, LastRoundPlayed, Play, Table, rounds,
     fates, wheel
<1>4. ending' = "waiting" => willSpin \in {"none", "open"}
  BY <1>0 DEF Timing, LastRoundPlayed, Play, Table, rounds, fates, wheel
<1> QED
  BY <1>1, <1>2, <1>3, <1>4, FrameKeeps

(* The table takes no bets.                                                      *)
LEMMA ClosedKeeps ==
  ASSUME IInv, Closed
  PROVE  IInv'
<1>0. TypeOK /\ Timing /\ Whereabouts /\ Payments /\ RoundsOK /\ BetsHonoured /\ SpinComes
  BY DEF IInv
<1>1. TypeOK'
  BY <1>0 DEF TypeOK, BetsTyped, RoundsTyped, ClockTyped, AdminTyped, CountersTyped,
     Closed, Play, Table, rounds, fates, wheel
<1>2. UNCHANGED <<bets, refunding, rounds, clock, wheel, fates, upsets>>
  BY DEF Closed, Play, Table, rounds, fates, wheel, clock
<1>3. Placed' = Placed /\ \A x \in Bets : pc[x] = "recording" => pc'[x] = "recording"
  BY <1>0 DEF TypeOK, BetsTyped, Placed, Closed, Play, Table, rounds, fates, wheel
<1>4. ending' = "waiting" => willSpin \in {"none", "open"}
  BY <1>0 DEF Timing, Closed, Play, Table, rounds, fates, wheel
<1> QED
  BY <1>1, <1>2, <1>3, <1>4, FrameKeeps

(* The table takes bets again.                                                   *)
LEMMA OpenKeeps ==
  ASSUME IInv, Open
  PROVE  IInv'
<1>0. TypeOK /\ Timing /\ Whereabouts /\ Payments /\ RoundsOK /\ BetsHonoured /\ SpinComes
  BY DEF IInv
<1>1. TypeOK'
  BY <1>0 DEF TypeOK, BetsTyped, RoundsTyped, ClockTyped, AdminTyped, CountersTyped,
     Open, Play, Table, rounds, fates, wheel
<1>2. UNCHANGED <<bets, refunding, rounds, clock, wheel, fates, upsets>>
  BY DEF Open, Play, Table, rounds, fates, wheel, clock
<1>3. Placed' = Placed /\ \A x \in Bets : pc[x] = "recording" => pc'[x] = "recording"
  BY <1>0 DEF TypeOK, BetsTyped, Placed, Open, Play, Table, rounds, fates, wheel
<1>4. ending' = "waiting" => willSpin \in {"none", "open"}
  BY <1>0 DEF Timing, Open, Play, Table, rounds, fates, wheel
<1> QED
  BY <1>1, <1>2, <1>3, <1>4, FrameKeeps

(* The end of the game is announced.                                             *)
LEMMA EndGameKeeps ==
  ASSUME IInv, EndGame
  PROVE  IInv'
<1>0. TypeOK /\ Timing /\ Whereabouts /\ Payments /\ RoundsOK /\ BetsHonoured /\ SpinComes
  BY DEF IInv
<1>1. TypeOK'
  BY <1>0, ClosingCounts DEF TypeOK, BetsTyped, RoundsTyped, ClockTyped, AdminTyped,
     EndGame, Play, Table, rounds, fates, wheel
<1>2. UNCHANGED <<bets, refunding, rounds, clock, wheel, fates, upsets>>
  BY DEF EndGame, Play, Table, rounds, fates, wheel, clock
<1>3. Placed' = Placed /\ \A x \in Bets : pc[x] = "recording" => pc'[x] = "recording"
  BY <1>0 DEF TypeOK, BetsTyped, Placed, EndGame, Play, Table, rounds, fates, wheel
<1>4. ending' = "waiting" => willSpin \in {"none", "open"}
  BY <1>0 DEF Timing, EndGame, Play, Table, rounds, fates, wheel
<1> QED
  BY <1>1, <1>2, <1>3, <1>4, FrameKeeps

(* The end of the game finds the round played.                                   *)
LEMMA EndPlayedKeeps ==
  ASSUME IInv, EndPlayed
  PROVE  IInv'
<1>0. TypeOK /\ Timing /\ Whereabouts /\ Payments /\ RoundsOK /\ BetsHonoured /\ SpinComes
  BY DEF IInv
<1>1. TypeOK'
  BY <1>0 DEF TypeOK, BetsTyped, RoundsTyped, ClockTyped, AdminTyped, CountersTyped,
     EndPlayed, Play, Table, rounds, fates, wheel
<1>2. UNCHANGED <<bets, refunding, rounds, clock, wheel, fates, upsets>>
  BY DEF EndPlayed, Play, Table, rounds, fates, wheel, clock
<1>3. Placed' = Placed /\ \A x \in Bets : pc[x] = "recording" => pc'[x] = "recording"
  BY <1>0 DEF TypeOK, BetsTyped, Placed, EndPlayed, Play, Table, rounds, fates, wheel
<1>4. ending' = "waiting" => willSpin \in {"none", "open"}
  BY <1>0 DEF Timing, EndPlayed, Play, Table, rounds, fates, wheel
<1> QED
  BY <1>1, <1>2, <1>3, <1>4, FrameKeeps

(* The table is cleared, which loses the bets of the last two seconds.           *)
LEMMA EndedKeeps ==
  ASSUME IInv, Ended
  PROVE  IInv'
<1>0. TypeOK /\ Timing /\ Whereabouts /\ Payments /\ RoundsOK /\ BetsHonoured /\ SpinComes
  BY DEF IInv
<1>1. TypeOK'
  <2>1. BetsTyped'
    BY <1>0 DEF TypeOK, BetsTyped, Ended, UpsetIf, Replace, Play, rounds, fates
  <2>2. RoundsTyped'
    BY <1>0 DEF TypeOK, RoundsTyped, Ended, UpsetIf, Replace, Play, rounds, fates,
       Upsets
  <2>3. ClockTyped'
    BY <1>0 DEF TypeOK, ClockTyped, Ended, UpsetIf, Replace, Play, rounds, fates
  <2>4. AdminTyped'
    BY <1>0 DEF TypeOK, AdminTyped, Ended, UpsetIf, Replace, Play, rounds, fates
  <2>5. CountersTyped'
    BY <1>0 DEF TypeOK, CountersTyped, Ended, UpsetIf, Replace, Play, rounds, fates
  <2> QED
    BY <2>1, <2>2, <2>3, <2>4, <2>5 DEF TypeOK
<1>2. Timing'
  BY <1>0 DEF TypeOK, ClockTyped, Timing, Without, Ended, UpsetIf, Replace, Play,
     rounds, fates
<1>3. Placed' = Placed
  BY <1>0 DEF TypeOK, BetsTyped, Placed, Ended, UpsetIf, Replace, Play, rounds, fates
<1>4. Returning' = Returning
  BY <1>0 DEF Returning, Whereabouts, Ended, UpsetIf, Replace, Play, rounds, fates
<1>5. Whereabouts'
  BY <1>0, <1>3, <1>4, NoneAssumption DEF TypeOK, BetsTyped, RoundsTyped,
     Whereabouts, Ended, UpsetIf, Replace, Play, rounds, fates
<1>6. Payments'
  BY <1>0, <1>3, <1>4 DEF TypeOK, BetsTyped, RoundsTyped, Timing, Whereabouts,
     Payments, RoundsOK, Unpaid, Stuck, AlreadySettled, Without, Ended, UpsetIf,
     Replace, Play, rounds, fates
<1>7. RoundsOK'
  BY <1>0, <1>3, <1>4 DEF TypeOK, BetsTyped, RoundsTyped, Timing, Whereabouts,
     RoundsOK, AlreadySettled, Without, Ended, UpsetIf, Replace, Play, rounds, fates
<1>8. BetsHonoured'
  <2>1. SettledOnce'
    BY <1>0, <1>3, <1>4 DEF TypeOK, BetsTyped, RoundsTyped, Payments, BetsHonoured,
       SettledOnce, Unpaid, Stuck, AlreadySettled, Without, Ended, UpsetIf, Replace,
       Play, rounds, fates
  <2>2. EitherOr'
    BY <1>0, <1>3, <1>4 DEF TypeOK, BetsTyped, RoundsTyped, Payments, Timing,
       OnTable, BetsHonoured, EitherOr, Whereabouts, Without, Ended, UpsetIf, Replace,
       Play, rounds, fates
  <2>3. NoneLost'
    BY <1>0, <1>3, <1>4 DEF TypeOK, BetsTyped, RoundsTyped, Payments, OnTable,
       BetsHonoured, NoneLost, Without, Ended, UpsetIf, Replace, Play, rounds, fates
  <2> QED
    BY <2>1, <2>2, <2>3 DEF BetsHonoured
<1>9. SpinComes'
  BY <1>0, <1>3, <1>4 DEF TypeOK, BetsTyped, RoundsTyped, Timing, RoundsOK,
     SpinComes, ComesUp, RefusedForReason, AlreadySettled, Without, Ended, UpsetIf,
     Replace, Play, rounds, fates
<1> QED
  BY <1>1, <1>2, <1>5, <1>6, <1>7, <1>8, <1>9 DEF IInv

(* A new table has no bets.                                                      *)
LEMMA InitHolds == Init => IInv
<1> SUFFICES ASSUME Init PROVE IInv
  OBVIOUS
<1>1. TypeOK
  <2>1. BetsTyped /\ RoundsTyped /\ ClockTyped /\ AdminTyped
    BY DEF Init, BetsTyped, RoundsTyped, ClockTyped, AdminTyped, Upsets
  <2>2. CountersTyped
    BY BoundsAssumption DEF Init, CountersTyped
  <2> QED
    BY <2>1, <2>2 DEF TypeOK
<1>2. Timing /\ RoundsOK /\ SpinComes
  BY DEF Init, Timing, RoundsOK, SpinComes, ComesUp, RefusedForReason,
     AlreadySettled, Without
<1>3. Returning = {} /\ Placed = {}
  BY DEF Init, Returning, Placed
<1>4. Whereabouts /\ Payments /\ BetsHonoured
  BY <1>3 DEF Init, Whereabouts, Payments, Unpaid, BetsHonoured, SettledOnce,
     EitherOr, NoneLost, OnTable
<1> QED
  BY <1>1, <1>2, <1>4 DEF IInv

(* Nothing happens.                                                              *)
LEMMA Stutters == IInv /\ UNCHANGED vars => IInv'
<1> SUFFICES ASSUME IInv, UNCHANGED vars PROVE IInv'
  OBVIOUS
<1>1. TypeOK'
  <2>1. BetsTyped' /\ RoundsTyped'
    BY DEF IInv, TypeOK, BetsTyped, RoundsTyped, vars, rounds, wheel, fates
  <2>2. ClockTyped' /\ AdminTyped' /\ CountersTyped'
    BY DEF IInv, TypeOK, ClockTyped, AdminTyped, CountersTyped, vars, clock, wheel,
       admin
  <2> QED
    BY <2>1, <2>2 DEF TypeOK
<1>2. UNCHANGED <<bets, refunding, rounds, clock, wheel, fates, upsets, pc, ending>>
  BY DEF vars, admin
<1>3. Placed' = Placed
  BY <1>2 DEF Placed
<1>4. ending' = "waiting" => willSpin \in {"none", "open"}
  BY <1>2 DEF IInv, Timing
<1> QED
  BY <1>1, <1>2, <1>3, <1>4, FrameKeeps

(* Whatever happens at the table keeps the invariant.                            *)
LEMMA StepKeeps == IInv /\ [Next]_vars => IInv'
<1> SUFFICES ASSUME IInv, [Next]_vars PROVE IInv'
  OBVIOUS
<1>1. CASE \E b \in Bets : Bet(b) \/ BetStep(b) \/ Refuse(b) \/ RecordFails(b)
  BY <1>1, BetKeeps, PlaceKeeps, RecordedKeeps, RefuseKeeps, RecordFailsKeeps DEF
     BetStep
<1>2. CASE \E m \in Members : Cancel(m)
  BY <1>2, CancelKeeps
<1>3. CASE \E took \in refunding : Refund(took) \/ RefundFails(took)
  BY <1>3, RefundKeeps, RefundFailsKeeps
<1>4. CASE Tick \/ SpinFails \/ PauseEnds
  BY <1>4, TickKeeps, SpinFailsKeeps, PauseEndsKeeps
<1>5. CASE Spinning
  BY <1>5, SpinWheelKeeps, RefuseSpinKeeps, ShowsKeeps, PaysKeeps, SettleRoundKeeps,
     SettleBetKeeps DEF Spinning
<1>6. CASE Admin
  BY <1>6, CloseKeeps, LastRoundKeeps, LastRoundPlayedKeeps, ClosedKeeps, OpenKeeps,
     EndGameKeeps, EndPlayedKeeps, EndedKeeps DEF Admin
<1>7. CASE UNCHANGED vars
  BY <1>7, Stutters
<1> QED
  BY <1>1, <1>2, <1>3, <1>4, <1>5, <1>6, <1>7 DEF Next

(* The inductive invariant: where bets are, what was paid of them, which round   *)
(* is on and what the clock is at agree at all times, for any number of bets and *)
(* members.                                                                      *)
THEOREM Invariance == Spec => []IInv
<1> QED
  BY InitHolds, StepKeeps, PTL DEF Spec

(* Every variable has its type.                                                  *)
THEOREM TypeCorrect == Spec => []TypeOK
<1>1. IInv => TypeOK
  BY DEF IInv
<1> QED
  BY <1>1, Invariance, PTL

(* Bets are honoured (spinWheel, handleBet, cancelBets of roulette.ts): however  *)
(* bets, cancels, spins and the end of the game interleave and whatever rejects, *)
(* no bet is paid twice, none is both given back and paid, none is lost; up to   *)
(* the upsets that each part names.                                              *)
THEOREM BetsHonouredThm == Spec => []BetsHonoured
<1>1. IInv => BetsHonoured
  BY DEF IInv
<1> QED
  BY <1>1, Invariance, PTL

(* A spin comes for bets on the table (willSpinAt, resetGame of roulette.ts):    *)
(* there is no moment when bets lie on the table with no spin scheduled nor a    *)
(* command about to schedule one, and no round with bets is refused as settled   *)
(* unless something failed before.                                               *)
THEOREM SpinComesThm == Spec => []SpinComes
<1>1. IInv => SpinComes
  BY DEF IInv
<1> QED
  BY <1>1, Invariance, PTL

================================================================================
