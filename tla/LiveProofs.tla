----------------------------- MODULE LiveProofs ------------------------------
(***************************************************************************)
(* What guards the live account, for every value of the constants.         *)
(*                                                                         *)
(* The two stops: the kill switch for every cooldown length, every pair of *)
(* drawdown limits and every set of external reasons; the daily latch for  *)
(* every set of day boundaries, every threshold and every equity.  The     *)
(* lemmas say what each method does to a switch or an engine; the theorems *)
(* lift them to the state machines.                                        *)
(*                                                                         *)
(* The live loop's book, for every set of heads and every bound on         *)
(* positions, layers, ids and cuts.  IInv strengthens the type invariant   *)
(* with what makes it inductive: the work list is empty outside the two    *)
(* passes that use one, position ids are never reused, a row belongs to    *)
(* one head, a process that has not recovered is neither stopped nor       *)
(* synced, and a stopped book holds only what the flatten has still to     *)
(* visit or has failed to close.                                           *)
(***************************************************************************)
EXTENDS Stops, LiveLoop, FiniteSetTheorems, WellFoundedInduction, TLAPS

-----------------------------------------------------------------------------
(* The kill switch.                                                        *)

\* A resume time is pending exactly while a loss cooldown holds the switch.
WellFormed(k) ==
    /\ (k.cooldown_until # NoTime) <=>
         (k.active /\ k.reason = "ConsecutiveLosses")
    /\ k.cooldown_until # NoTime =>
         k.cooldown_until = k.activated_at + Cooldown

\* The switch the constructor returns (kill_switch.rs:33) is well formed.
LEMMA NewWellFormed == New \in Switches /\ WellFormed(New)
BY SwitchConstants DEF New, Switches, WellFormed, NoTime, NoStreak, NoReason

\* Arming an idle switch for a reason other than a streak (kill_switch.rs:130)
\* leaves it well formed, active and without a resume time.
LEMMA ArmWellFormed ==
    ASSUME NEW k \in Switches, WellFormed(k), ~k.active,
           NEW why \in Reasons \ {"ConsecutiveLosses"}, NEW t \in Nat
    PROVE  /\ Arm(k, why, t) \in Switches
           /\ WellFormed(Arm(k, why, t))
           /\ Arm(k, why, t).active
           /\ Arm(k, why, t).reason = why
BY SwitchConstants DEF Arm, Switches, WellFormed, NoTime, NoStreak, NoReason

\* tick() (kill_switch.rs:46) keeps a switch well formed, and clears it only
\* when a loss cooldown has run out.
LEMMA TickWellFormed ==
    ASSUME NEW k \in Switches, WellFormed(k), NEW t \in Nat
    PROVE  /\ Tick(k, t) \in Switches
           /\ WellFormed(Tick(k, t))
           /\ Tick(k, t) = k \/ (/\ Expired(k, t)
                                 /\ k.reason = "ConsecutiveLosses"
                                 /\ ~Tick(k, t).active)
<1>1. CASE Expired(k, t)
  BY <1>1, NewWellFormed
     DEF Tick, Expired, New, Switches, WellFormed, NoTime, NoStreak, NoReason
<1>2. CASE ~Expired(k, t)
  BY <1>2 DEF Tick
<1>3. QED BY <1>1, <1>2

\* Forgetting the remembered streak (kill_switch.rs:69) touches nothing else.
LEMMA ForgetWellFormed ==
    ASSUME NEW k \in Switches, WellFormed(k), NEW n \in Nat
    PROVE  /\ ForgetStreak(k, n) \in Switches
           /\ WellFormed(ForgetStreak(k, n))
           /\ ForgetStreak(k, n).active = k.active
           /\ ForgetStreak(k, n).reason = k.reason
           /\ ForgetStreak(k, n).activated_at = k.activated_at
           /\ ForgetStreak(k, n).cooldown_until = k.cooldown_until
           /\ ForgetStreak(k, n).streak \in {k.streak, NoStreak}
BY DEF ForgetStreak, Switches, WellFormed, NoStreak

\* The triggers of check() (kill_switch.rs:80) leave an idle switch well
\* formed, and armed whenever a drawdown limit is breached.
LEMMA TriggerWellFormed ==
    ASSUME NEW k \in Switches, WellFormed(k), ~k.active,
           NEW d \in Nat, NEW n \in Nat, NEW t \in Nat
    PROVE  /\ Trigger(k, d, n, t) \in Switches
           /\ WellFormed(Trigger(k, d, n, t))
           /\ Breaches(d, DailyLimit) \/ Breaches(d, MaxLimit)
                => Trigger(k, d, n, t).active
<1>1. "DailyDD" \in Reasons \ {"ConsecutiveLosses"} /\ "TotalDD" \in Reasons \ {"ConsecutiveLosses"}
  BY DEF Reasons, DrawdownReasons
<1>2. CASE Breaches(d, DailyLimit)
  BY <1>1, <1>2, ArmWellFormed DEF Trigger
<1>3. CASE ~Breaches(d, DailyLimit) /\ Breaches(d, MaxLimit)
  BY <1>1, <1>3, ArmWellFormed DEF Trigger
<1>4. CASE ~Breaches(d, DailyLimit) /\ ~Breaches(d, MaxLimit) /\ NewStreak(k, n)
  <2> DEFINE c == [k EXCEPT !.cooldown_until = t + Cooldown, !.streak = n]
  <2>1. Trigger(k, d, n, t) = Arm(c, "ConsecutiveLosses", t)
    BY <1>4 DEF Trigger
  <2>2. t + Cooldown \in Nat /\ t + Cooldown # NoTime
    BY SwitchConstants DEF NoTime
  <2>3. Arm(c, "ConsecutiveLosses", t) \in Switches
    BY <2>2 DEF Arm, Switches, Reasons, NoTime, NoStreak, NoReason
  <2>4. WellFormed(Arm(c, "ConsecutiveLosses", t))
    BY <2>2 DEF Arm, Switches, WellFormed
  <2>5. QED BY <1>4, <2>1, <2>3, <2>4
<1>5. CASE ~Breaches(d, DailyLimit) /\ ~Breaches(d, MaxLimit) /\ ~NewStreak(k, n)
  BY <1>5 DEF Trigger
<1>6. QED BY <1>2, <1>3, <1>4, <1>5

\* check() (kill_switch.rs:68) keeps a switch well formed, answers TRUE in
\* every breach, and reopens trading only past an expired loss cooldown.
LEMMA CheckWellFormed ==
    ASSUME NEW k \in Switches, WellFormed(k),
           NEW d \in Nat, NEW n \in Nat, NEW t \in Nat
    PROVE  /\ Check(k, d, n, t) \in Switches
           /\ WellFormed(Check(k, d, n, t))
           /\ Breaches(d, DailyLimit) \/ Breaches(d, MaxLimit)
                => Check(k, d, n, t).active
           /\ k.active => \/ /\ Check(k, d, n, t).active
                             /\ Check(k, d, n, t).reason = k.reason
                             /\ Check(k, d, n, t).activated_at = k.activated_at
                          \/ Expired(k, t) /\ k.reason = "ConsecutiveLosses"
<1> DEFINE ticked == Tick(k, t)
           forgot == ForgetStreak(ticked, n)
<1>1. /\ ticked \in Switches
      /\ WellFormed(ticked)
      /\ ticked = k \/ (Expired(k, t) /\ k.reason = "ConsecutiveLosses" /\ ~ticked.active)
  BY TickWellFormed
<1>2. /\ forgot \in Switches
      /\ WellFormed(forgot)
      /\ forgot.active = ticked.active
      /\ forgot.reason = ticked.reason
      /\ forgot.activated_at = ticked.activated_at
  BY <1>1, ForgetWellFormed
<1>3. CASE forgot.active
  <2>1. Check(k, d, n, t) = forgot
    BY <1>3 DEF Check
  <2>2. QED BY <1>1, <1>2, <1>3, <2>1
<1>4. CASE ~forgot.active
  <2>1. Check(k, d, n, t) = Trigger(forgot, d, n, t)
    BY <1>4 DEF Check
  <2>2. QED BY <1>1, <1>2, <1>4, <2>1, TriggerWellFormed
<1>5. QED BY <1>2, <1>3, <1>4 DEF Switches
-----------------------------------------------------------------------------
(* The state machine.                                                      *)

SwitchIInv == SwitchTypeOK /\ CooldownOwnsResume

LEMMA SwitchInitIInv == SwitchInit => SwitchIInv
<1> SUFFICES ASSUME SwitchInit
             PROVE  SwitchIInv
  OBVIOUS
<1>1. ks \in Switches /\ WellFormed(ks)
  BY NewWellFormed, Zenon DEF SwitchInit
<1>2. dd \in Nat /\ losses \in Nat /\ now \in Nat
  BY DEF SwitchInit
<1>3. fresh \in BOOLEAN
  BY DEF SwitchInit
<1>4. QED BY <1>1, <1>2, <1>3 DEF SwitchIInv, SwitchTypeOK, CooldownOwnsResume, WellFormed

LEMMA SwitchNextIInv == SwitchIInv /\ [SwitchNext]_switchVars => SwitchIInv'
<1> SUFFICES ASSUME SwitchIInv, [SwitchNext]_switchVars
             PROVE  SwitchIInv'
  OBVIOUS
<1>0. ks \in Switches /\ WellFormed(ks) /\ dd \in Nat /\ losses \in Nat /\ now \in Nat
  BY DEF SwitchIInv, SwitchTypeOK, CooldownOwnsResume, WellFormed
<1>1. CASE Loss
  BY <1>0, <1>1 DEF Loss, SwitchIInv, SwitchTypeOK, CooldownOwnsResume
<1>2. CASE Win
  BY <1>0, <1>2 DEF Win, SwitchIInv, SwitchTypeOK, CooldownOwnsResume
<1>3. CASE MoveEquity
  BY <1>0, <1>3, SwitchConstants DEF MoveEquity, SwitchIInv, SwitchTypeOK, CooldownOwnsResume
<1>4. CASE Elapse
  BY <1>0, <1>4 DEF Elapse, SwitchIInv, SwitchTypeOK, CooldownOwnsResume
<1>5. CASE CheckSwitch
  <2>1. ks' \in Switches /\ WellFormed(ks')
    BY <1>0, <1>5, CheckWellFormed DEF CheckSwitch
  <2>2. fresh' \in BOOLEAN
    BY <1>5 DEF CheckSwitch
  <2>3. UNCHANGED <<dd, losses, now>>
    BY <1>5 DEF CheckSwitch
  <2>4. QED BY <1>0, <2>1, <2>2, <2>3 DEF SwitchIInv, SwitchTypeOK, CooldownOwnsResume, WellFormed
<1>6. CASE ActivateSwitch
  <2>1. PICK why \in ExternalReasons : ks' = Activate(ks, why, now)
    BY <1>6 DEF ActivateSwitch
  <2>2. why \in Reasons \ {"ConsecutiveLosses"}
    BY <2>1, SwitchConstants DEF Reasons
  <2>3. ks' \in Switches /\ WellFormed(ks')
    BY <1>0, <2>1, <2>2, ArmWellFormed DEF Activate
  <2>4. UNCHANGED <<dd, losses, now, fresh>>
    BY <1>6 DEF ActivateSwitch
  <2>5. QED BY <1>0, <2>3, <2>4 DEF SwitchIInv, SwitchTypeOK, CooldownOwnsResume, WellFormed
<1>7. CASE UNCHANGED switchVars
  BY <1>0, <1>7 DEF switchVars, SwitchIInv, SwitchTypeOK, CooldownOwnsResume
<1>8. QED BY <1>1, <1>2, <1>3, <1>4, <1>5, <1>6, <1>7 DEF SwitchNext

LEMMA SwitchInvariance == SwitchSpec => []SwitchIInv
BY SwitchInitIInv, SwitchNextIInv, PTL DEF SwitchSpec

\* Every reachable switch has the types of kill_switch.rs:22.
THEOREM SwitchTypeCorrect == SwitchSpec => []SwitchTypeOK
<1>1. SwitchIInv => SwitchTypeOK
  BY DEF SwitchIInv
<1>2. QED BY <1>1, SwitchInvariance, PTL

\* A resume time belongs to a running loss cooldown, always.
THEOREM ResumeBelongsToCooldown == SwitchSpec => []CooldownOwnsResume
<1>1. SwitchIInv => CooldownOwnsResume
  BY DEF SwitchIInv
<1>2. QED BY <1>1, SwitchInvariance, PTL

\* The audit trail keeps the first trip, and only an expired cooldown clears
\* the switch (kill_switch.rs:17).
THEOREM FirstTrip == SwitchSpec => FirstTripKept
<1>1. ASSUME SwitchIInv, [SwitchNext]_switchVars, ks.active
      PROVE  \/ /\ ks'.active
                /\ ks'.reason = ks.reason
                /\ ks'.activated_at = ks.activated_at
             \/ Expired(ks, now) /\ CheckSwitch
  <2>0. ks \in Switches /\ WellFormed(ks) /\ dd \in Nat /\ losses \in Nat /\ now \in Nat
    BY <1>1 DEF SwitchIInv, SwitchTypeOK, CooldownOwnsResume, WellFormed
  <2>1. CASE CheckSwitch
    BY <1>1, <2>0, <2>1, CheckWellFormed DEF CheckSwitch
  <2>2. CASE ActivateSwitch
    BY <1>1, <2>2 DEF ActivateSwitch, Activate
  <2>3. CASE Loss \/ Win \/ MoveEquity \/ Elapse \/ UNCHANGED switchVars
    BY <1>1, <2>3 DEF Loss, Win, MoveEquity, Elapse, switchVars
  <2>4. QED BY <1>1, <2>1, <2>2, <2>3 DEF SwitchNext
<1>2. QED BY <1>1, SwitchInvariance, PTL DEF SwitchSpec, FirstTripKept

\* A drawdown or external stop is never lifted, whatever the limits, the
\* cooldown and the order of the calls.
THEOREM PermanentStops == SwitchSpec => OtherStopsPermanent
<1>1. ASSUME SwitchIInv, [SwitchNext]_switchVars, ks.active, ks.reason # "ConsecutiveLosses"
      PROVE  ks'.active /\ ks'.reason = ks.reason
  <2>0. ks \in Switches /\ WellFormed(ks) /\ dd \in Nat /\ losses \in Nat /\ now \in Nat
    BY <1>1 DEF SwitchIInv, SwitchTypeOK, CooldownOwnsResume, WellFormed
  <2>1. CASE CheckSwitch
    BY <1>1, <2>0, <2>1, CheckWellFormed DEF CheckSwitch
  <2>2. CASE ActivateSwitch
    BY <1>1, <2>2 DEF ActivateSwitch, Activate
  <2>3. CASE Loss \/ Win \/ MoveEquity \/ Elapse \/ UNCHANGED switchVars
    BY <1>1, <2>3 DEF Loss, Win, MoveEquity, Elapse, switchVars
  <2>4. QED BY <1>1, <2>1, <2>2, <2>3 DEF SwitchNext
<1>2. QED BY <1>1, SwitchInvariance, PTL DEF SwitchSpec, OtherStopsPermanent

\* No call of check() lets a drawdown breach pass.
THEOREM BreachStops == SwitchSpec => BreachAlwaysStops
<1>1. ASSUME SwitchIInv, [SwitchNext]_switchVars, CheckSwitch,
             Breaches(dd, DailyLimit) \/ Breaches(dd, MaxLimit)
      PROVE  ks'.active
  <2>0. ks \in Switches /\ WellFormed(ks) /\ dd \in Nat /\ losses \in Nat /\ now \in Nat
    BY <1>1 DEF SwitchIInv, SwitchTypeOK, CooldownOwnsResume, WellFormed
  <2>1. QED BY <1>1, <2>0, CheckWellFormed DEF CheckSwitch
<1>2. QED BY <1>1, SwitchInvariance, PTL DEF SwitchSpec, BreachAlwaysStops

-----------------------------------------------------------------------------
(* The daily latch: at most one flatten request a day, never a silent stop,*)
(* and the engine implements DailyLatch step by step.                      *)
(*                                                                         *)
(* The invariants are inductive only together, and only with the fact that *)
(* the engine's day never runs ahead of the clock (DayNotAhead): it is what*)
(* makes a day that handed out a request unreachable again.                *)

\* The trading day is a natural number that grows with the clock
\* (daily_pnl.rs:7).
LEMMA DayIndexMonotone ==
    ASSUME NEW s \in Nat, NEW t \in Nat, s <= t
    PROVE  /\ TradingDayIndex(s) \in Nat
           /\ TradingDayIndex(t) \in Nat
           /\ TradingDayIndex(s) <= TradingDayIndex(t)
<1> DEFINE upTo(u) == {b \in Boundaries : b <= u}
<1>1. IsFiniteSet(upTo(t)) /\ IsFiniteSet(upTo(s))
  BY FS_Subset, EngineAssumption
<1>2. upTo(s) \subseteq upTo(t)
  <2>1. \A b \in Boundaries : b <= s => b <= t
    BY EngineAssumption
  <2>2. QED BY <2>1
<1>3. QED BY <1>1, <1>2, FS_Subset, FS_CardinalityType DEF TradingDayIndex

\* What one update leaves in the engine, whatever equity it is given
\* (daily_pnl.rs:166).
LEMMA UpdateEffect ==
    ASSUME NEW e \in Engines, NEW equity \in Nat, NEW t \in Nat
    PROVE  /\ Update(e, equity, t) \in Engines
           /\ Update(e, equity, t).last_day = TradingDayIndex(t)
           /\ TradingDayIndex(t) = e.last_day =>
                /\ Severity(Update(e, equity, t).state) >= Severity(e.state)
                /\ Update(e, equity, t).pending <=>
                     (e.pending \/ (/\ Update(e, equity, t).state = "DailyStopped"
                                    /\ Severity(e.state) < 3))
           /\ TradingDayIndex(t) # e.last_day =>
                (Update(e, equity, t).pending <=>
                   Update(e, equity, t).state = "DailyStopped")
<1> DEFINE day == TradingDayIndex(t)
           r   == Roll(e, equity, day)
           m   == Marked(r, equity)
           c   == Candidate(m, equity)
<1>1. day \in Nat
  BY DayIndexMonotone
<1>2. /\ r \in Engines
      /\ r.last_day = day
      /\ day = e.last_day => r = e
      /\ day # e.last_day => r.state = "Normal" /\ r.pending = FALSE
  <2>1. CASE day = e.last_day
    BY <2>1 DEF Roll
  <2>2. CASE day # e.last_day
    <3> DEFINE opening == IF e.last_day >= 0 THEN equity ELSE e.day_open
    <3>1. opening \in Nat
      BY DEF Engines
    <3>2. r = [day_open |-> opening, pnl |-> 0, peak |-> equity,
               state |-> "Normal", last_day |-> day, pending |-> FALSE]
      BY <2>2 DEF Roll
    <3> HIDE DEF opening, r
    <3>3. QED BY <1>1, <2>2, <3>1, <3>2 DEF Engines, DayStates
  <2>3. QED BY <2>1, <2>2
<1>3. /\ m \in Engines
      /\ m.last_day = day
      /\ m.state = r.state
      /\ m.pending = r.pending
  <2> DEFINE peak == IF equity > r.peak THEN equity ELSE r.peak
  <2>1. peak \in Nat /\ equity - r.day_open \in Int
    BY <1>2 DEF Engines
  <2>2. m = [r EXCEPT !.pnl = equity - r.day_open, !.peak = peak]
    BY DEF Marked
  <2> HIDE DEF peak, r, m
  <2>3. QED BY <1>2, <2>1, <2>2 DEF Engines
<1>4. c \in DayStates
  BY DEF Candidate, DayStates
<1>5. Update(e, equity, t) = Advance(m, c)
  BY DEF Update
<1> HIDE DEF r, m, c
<1>6. CASE Severity(c) > Severity(m.state)
  <2>1. /\ Advance(m, c) \in Engines
        /\ Advance(m, c).last_day = day
        /\ Advance(m, c).state = c
        /\ Advance(m, c).pending = (m.pending \/ c = "DailyStopped")
    BY <1>3, <1>4, <1>6 DEF Advance, Engines
  <2>2. QED BY <2>1, <1>2, <1>3, <1>4, <1>5, <1>6 DEF Severity, DayStates, Engines
<1>7. CASE ~(Severity(c) > Severity(m.state))
  <2>1. Advance(m, c) = m
    BY <1>7 DEF Advance
  <2>2. QED BY <2>1, <1>2, <1>3, <1>5 DEF Severity, DayStates, Engines
<1>8. QED BY <1>6, <1>7
-----------------------------------------------------------------------------
(* The inductive invariant.                                                *)

\* The engine's day is never ahead of the clock, and a day handed out its
\* request only if it is stopped.
DayNotAhead ==
    /\ engine.last_day <= TradingDayIndex(hour)
    /\ taken <= engine.last_day
    /\ taken = engine.last_day => engine.state = "DailyStopped"

DayIInv == DayTypeOK /\ OneRequestPerDay /\ StopRaisesRequest /\ DayNotAhead

LEMMA DayInitIInv == DayInit => DayIInv
<1> SUFFICES ASSUME DayInit
             PROVE  DayIInv
  OBVIOUS
<1>1. PICK equity \in Equities : engine = NewEngine(equity)
  BY DEF DayInit
<1>2. engine \in Engines
  BY <1>1, EngineAssumption DEF NewEngine, Engines, DayStates
<1>3. /\ engine.last_day = -1
      /\ engine.state = "Normal"
      /\ engine.pending = FALSE
  BY <1>1 DEF NewEngine, Unstarted
<1>4. hour = 0 /\ taken = -2
  BY DEF DayInit, Unstarted
<1>5. TradingDayIndex(0) \in Nat
  BY DayIndexMonotone
<1>6. QED BY <1>2, <1>3, <1>4, <1>5
          DEF DayIInv, DayTypeOK, OneRequestPerDay, StopRaisesRequest, DayNotAhead

\* The step of UpdateEngine, in terms of the day it lands in.
LEMMA UpdateStep ==
    ASSUME DayIInv, UpdateEngine
    PROVE  /\ engine' \in Engines
           /\ hour' = hour /\ taken' = taken
           /\ \/ /\ engine'.last_day = engine.last_day
                 /\ Severity(engine'.state) >= Severity(engine.state)
                 /\ engine'.pending <=>
                      (engine.pending \/ (/\ engine'.state = "DailyStopped"
                                          /\ engine.state # "DailyStopped"))
              \/ /\ engine'.last_day > engine.last_day
                 /\ engine'.last_day = TradingDayIndex(hour)
                 /\ engine'.pending <=> engine'.state = "DailyStopped"
           /\ engine'.last_day <= TradingDayIndex(hour)
<1> DEFINE day == TradingDayIndex(hour)
<1>1. PICK equity \in Equities : engine' = Update(engine, equity, hour)
  BY DEF UpdateEngine
<1>2. /\ engine \in Engines /\ hour \in Nat /\ equity \in Nat
      /\ day \in Nat /\ engine.last_day <= day /\ engine.last_day \in Int
  BY DayIndexMonotone, EngineAssumption
     DEF DayIInv, DayTypeOK, DayNotAhead, Engines, Unstarted
<1>3. UNCHANGED <<hour, taken>>
  BY DEF UpdateEngine
<1>4. /\ engine' \in Engines
      /\ engine'.last_day = day
      /\ day = engine.last_day =>
           /\ Severity(engine'.state) >= Severity(engine.state)
           /\ engine'.pending <=> (engine.pending \/ (/\ engine'.state = "DailyStopped"
                                                      /\ Severity(engine.state) < 3))
      /\ day # engine.last_day =>
           (engine'.pending <=> engine'.state = "DailyStopped")
  <2> DEFINE u == Update(engine, equity, hour)
  <2>1. /\ u \in Engines
        /\ u.last_day = day
        /\ day = engine.last_day =>
             /\ Severity(u.state) >= Severity(engine.state)
             /\ u.pending <=> (engine.pending \/ (/\ u.state = "DailyStopped"
                                                  /\ Severity(engine.state) < 3))
        /\ day # engine.last_day => (u.pending <=> u.state = "DailyStopped")
    BY <1>2, UpdateEffect
  <2>2. QED BY <1>1, <2>1
<1>5. CASE day = engine.last_day
  <2>1. (Severity(engine.state) < 3) <=> (engine.state # "DailyStopped")
    BY <1>2 DEF Severity, Engines, DayStates
  <2>2. QED BY <1>2, <1>3, <1>4, <1>5, <2>1
<1>6. CASE day # engine.last_day
  BY <1>2, <1>3, <1>4, <1>6
<1>7. QED BY <1>5, <1>6

LEMMA DayNextIInv == DayIInv /\ [DayNext]_dayVars => DayIInv'
<1> SUFFICES ASSUME DayIInv, [DayNext]_dayVars
             PROVE  DayIInv'
  OBVIOUS
<1>0. /\ engine \in Engines /\ hour \in Nat /\ taken \in Int
      /\ engine.last_day \in Int /\ engine.state \in DayStates
  BY DEF DayIInv, DayTypeOK, Engines, Unstarted
<1>1. CASE UpdateEngine
  <2>1. DayTypeOK'
    BY <1>0, <1>1, UpdateStep DEF DayTypeOK
  <2>2. engine'.last_day \in Int /\ engine'.state \in DayStates
    BY <1>1, UpdateStep DEF Engines, Unstarted
  <2>3. Severity(engine'.state) >= Severity(engine.state) /\ engine.state = "DailyStopped"
          => engine'.state = "DailyStopped"
    BY <1>0, <2>2 DEF Severity, DayStates
  <2>4. OneRequestPerDay' /\ StopRaisesRequest' /\ DayNotAhead'
    BY <1>0, <1>1, <2>2, <2>3, UpdateStep
       DEF DayIInv, OneRequestPerDay, StopRaisesRequest, DayNotAhead
  <2>5. QED BY <2>1, <2>4 DEF DayIInv
<1>2. CASE TakeRequest
  <2>1. /\ engine' \in Engines
        /\ engine'.last_day = engine.last_day
        /\ engine'.state = engine.state
        /\ engine'.pending = FALSE
        /\ taken' = engine.last_day
        /\ hour' = hour
        /\ engine.pending
    BY <1>0, <1>2 DEF TakeRequest, TakeProtectiveClose, Engines
  <2>2. QED BY <1>0, <2>1
            DEF DayIInv, DayTypeOK, OneRequestPerDay, StopRaisesRequest, DayNotAhead
<1>3. CASE NextHour
  <2>1. hour' \in Nat /\ hour <= hour' /\ UNCHANGED <<engine, taken>>
    BY <1>0, <1>3 DEF NextHour
  <2>2. /\ TradingDayIndex(hour) \in Nat /\ TradingDayIndex(hour') \in Nat
        /\ TradingDayIndex(hour) <= TradingDayIndex(hour')
    BY <1>0, <2>1, DayIndexMonotone
  <2>3. QED BY <1>0, <2>1, <2>2
            DEF DayIInv, DayTypeOK, OneRequestPerDay, StopRaisesRequest, DayNotAhead
<1>4. CASE UNCHANGED dayVars
  BY <1>4 DEF dayVars, DayIInv, DayTypeOK, OneRequestPerDay, StopRaisesRequest, DayNotAhead
<1>5. QED BY <1>1, <1>2, <1>3, <1>4 DEF DayNext

LEMMA DayInvariance == DaySpec => []DayIInv
BY DayInitIInv, DayNextIInv, PTL DEF DaySpec

\* A trading day flattens the book at most once (daily_pnl.rs:144).
THEOREM AtMostOneRequest == DaySpec => []OneRequestPerDay
<1>1. DayIInv => OneRequestPerDay
  BY DEF DayIInv
<1>2. QED BY <1>1, DayInvariance, PTL

\* The daily stop is never entered in silence (daily_pnl.rs:213).
THEOREM NoSilentStop == DaySpec => []StopRaisesRequest
<1>1. DayIInv => StopRaisesRequest
  BY DEF DayIInv
<1>2. QED BY <1>1, DayInvariance, PTL

\* Within a day the state only tightens (daily_pnl.rs:163).
THEOREM Tightening == DaySpec => OnlyTightens
<1>1. ASSUME DayIInv, [DayNext]_dayVars
      PROVE  /\ engine'.last_day >= engine.last_day
             /\ engine'.last_day = engine.last_day =>
                  Severity(engine'.state) >= Severity(engine.state)
  <2>0. engine \in Engines /\ engine.last_day \in Int /\ Severity(engine.state) \in Int
    BY <1>1 DEF DayIInv, DayTypeOK, Engines, Unstarted, Severity, DayStates
  <2>1. CASE UpdateEngine
    <3>1. engine'.last_day \in Int
      BY <1>1, <2>1, UpdateStep DEF Engines, Unstarted
    <3>2. QED BY <1>1, <2>0, <2>1, <3>1, UpdateStep
  <2>2. CASE TakeRequest
    <3>1. engine'.last_day = engine.last_day /\ engine'.state = engine.state
      BY <2>0, <2>2 DEF TakeRequest, TakeProtectiveClose, Engines
    <3>2. QED BY <2>0, <3>1
  <2>3. CASE NextHour \/ UNCHANGED dayVars
    BY <2>0, <2>3 DEF NextHour, dayVars
  <2>4. QED BY <1>1, <2>1, <2>2, <2>3 DEF DayNext
<1>2. QED BY <1>1, DayInvariance, PTL DEF DaySpec, OnlyTightens

\* Every step of the engine is a step of the latch it promises, or none
\* that the latch can see.
THEOREM Implementation == DaySpec => ImplementsLatch
<1> DEFINE rq == IF engine.pending THEN "raised"
                 ELSE IF engine.state = "DailyStopped" THEN "taken" ELSE "none"
<1>1. ASSUME DayInit
      PROVE  Latch!LatchInit
  <2>1. engine.last_day = -1 /\ engine.state = "Normal" /\ engine.pending = FALSE
    BY <1>1 DEF DayInit, NewEngine, Unstarted
  <2>2. QED BY <2>1 DEF Latch!LatchInit, Severity
<1>2. ASSUME DayIInv, [DayNext]_dayVars
      PROVE  [Latch!LatchNext]_(Latch!latchVars)
  <2>0. /\ engine \in Engines /\ engine.last_day \in Int
        /\ engine.state \in DayStates
        /\ engine.pending => engine.state = "DailyStopped"
    BY <1>2 DEF DayIInv, DayTypeOK, Engines, Unstarted, OneRequestPerDay
  <2>1. CASE UpdateEngine
    <3>1. /\ engine' \in Engines /\ engine'.state \in DayStates
          /\ engine'.last_day \in Int
      BY <1>2, <2>1, UpdateStep DEF Engines, Unstarted
    <3>2. Severity(engine'.state) \in 0..3 /\ Severity(engine.state) \in 0..3
      BY <2>0, <3>1 DEF Severity, DayStates
    <3>3. /\ (Severity(engine'.state) = 3) <=> (engine'.state = "DailyStopped")
          /\ (Severity(engine.state) = 3) <=> (engine.state = "DailyStopped")
      BY <2>0, <3>1 DEF Severity, DayStates
    <3> HIDE DEF rq
    <3>4. CASE engine'.last_day = engine.last_day
      <4>1. /\ Severity(engine'.state) >= Severity(engine.state)
            /\ engine'.pending <=>
                 (engine.pending \/ (/\ engine'.state = "DailyStopped"
                                     /\ engine.state # "DailyStopped"))
        BY <1>2, <2>1, <3>1, <3>4, <2>0, UpdateStep
      <4>2. Severity(engine'.state) \in Severity(engine.state)..3
        BY <3>2, <4>1
      <4>3. rq' = IF Severity(engine'.state) = 3 /\ rq = "none" THEN "raised" ELSE rq
        BY <2>0, <3>2, <3>3, <4>1 DEF rq
      <4>4. Latch!Mark
        BY <3>4, <4>2, <4>3 DEF rq, Latch!Mark, Latch!Tighten, Latch!Stopped
      <4>5. QED BY <4>4 DEF Latch!LatchNext
    <3>5. CASE engine'.last_day # engine.last_day
      <4>1. /\ engine'.last_day > engine.last_day
            /\ engine'.pending <=> engine'.state = "DailyStopped"
        BY <1>2, <2>1, <3>5, UpdateStep
      <4>2. rq' = IF Severity(engine'.state) = 3 /\ "none" = "none" THEN "raised" ELSE "none"
        BY <3>3, <4>1 DEF rq
      <4>3. Latch!Rollover
        BY <3>2, <4>1, <4>2 DEF rq, Latch!Rollover, Latch!Tighten, Latch!Stopped
      <4>4. QED BY <4>3 DEF Latch!LatchNext
    <3>6. QED BY <3>4, <3>5
  <2>2. CASE TakeRequest
    <3>1. /\ engine'.last_day = engine.last_day
          /\ engine'.state = engine.state
          /\ engine'.pending = FALSE
          /\ engine.pending
      BY <2>0, <2>2 DEF TakeRequest, TakeProtectiveClose, Engines
    <3>2. Latch!Take
      BY <2>0, <3>1 DEF Latch!Take
    <3>3. QED BY <3>2 DEF Latch!LatchNext
  <2>3. CASE NextHour \/ UNCHANGED dayVars
    BY <2>3 DEF NextHour, dayVars, Latch!latchVars
  <2>4. QED BY <1>2, <2>1, <2>2, <2>3 DEF DayNext
<1>3. QED BY <1>1, <1>2, DayInvariance, PTL DEF DaySpec, ImplementsLatch, Latch!LatchSpec

-----------------------------------------------------------------------------
(* The book of the live loop.                                              *)

Worklist ==
    /\ pc \notin {"flatten", "adding"} => todo = {}
    /\ pc = "adding" => ~stopped /\ ~kill /\ ~halted /\ todo \subseteq MayAdd

FreshIds ==
    /\ \A h \in Heads : tracked[h] < nextId
    /\ \A r \in rows : r[2] < nextId
    /\ \A id \in open : id < nextId

RowsOwned == \A g, h \in Heads, id \in Ids :
                <<g, id>> \in rows /\ <<h, id>> \in rows => g = h

StoppedBook ==
    /\ pc \in {"start", "recover"} => ~stopped /\ ~broker_synced
    /\ stopped => Held \subseteq todo \cup failed

IInv == TypeOK /\ Worklist /\ FreshIds /\ RowsOwned /\ OneHeadPerPosition /\ StoppedBook

-----------------------------------------------------------------------------
(* Recovery.                                                               *)

\* The order of opening decides: a non-empty set of positions has a latest.
LEMMA LatestExists ==
    ASSUME NEW S \in SUBSET Ids, S # {}
    PROVE  Latest(S) \in S
<1> DEFINE age(id) == MaxIds - id
           T == {age(id) : id \in S}
<1>1. T \subseteq Nat /\ T # {}
  <2>1. \A id \in S : age(id) \in Nat
    BY ConstantsAssumption DEF Ids
  <2>2. QED BY <2>1
<1>2. PICK a \in T : \A b \in T : ~(<<b, a>> \in OpToRel(<, Nat))
  BY <1>1, WFMin, NatLessThanWellFounded
<1>3. \A b \in T : ~(b < a)
  BY <1>1, <1>2 DEF OpToRel
<1>4. PICK id \in S : a = age(id)
  BY <1>2
<1>5. ASSUME NEW other \in S PROVE other <= id
  <2>1. age(other) \in T
    OBVIOUS
  <2>2. ~(age(other) < age(id))
    BY <1>3, <1>4, <2>1
  <2>3. MaxIds \in Nat /\ id \in Nat /\ other \in Nat
    BY ConstantsAssumption DEF Ids
  <2>4. ~(MaxIds - other < MaxIds - id)
    BY <2>2
  <2> HIDE DEF age, T
  <2>5. QED BY ONLY <2>3, <2>4, SMTT(30)
<1>6. QED
  BY <1>5 DEF Latest

\* recover_positions (phase1.rs:628) restores to each head a position that is
\* open at the venue and that the database knows under this head.
LEMMA RecoveredKnown ==
    ASSUME TypeOK, NEW h \in Heads
    PROVE  /\ Recovered[h] \in Ids \cup {None}
           /\ Recovered[h] # None => Recovered[h] \in open /\ <<h, Recovered[h]>> \in rows
<1>1. CASE Known(h) = {}
  BY <1>1 DEF Recovered
<1>2. CASE Known(h) # {}
  <2>1. Known(h) \in SUBSET Ids
    BY DEF TypeOK, Known
  <2>2. Latest(Known(h)) \in Known(h)
    BY <1>2, <2>1, LatestExists
  <2>3. Recovered[h] = Latest(Known(h))
    BY <1>2 DEF Recovered
  <2>4. QED BY <2>1, <2>2, <2>3 DEF Known
<1>3. QED BY <1>1, <1>2

-----------------------------------------------------------------------------
(* The invariant.                                                          *)

LEMMA InitInv == Init => IInv
<1> SUFFICES ASSUME Init PROVE IInv OBVIOUS
<1>1. Held = {} BY DEF Init, Held, Forgotten
<1>2. TypeOK
  <2>1. tracked \in [Heads -> Ids \cup {None}] /\ layers \in [Heads -> NoPyramid..MaxLayers]
    BY ConstantsAssumption DEF Init, Forgotten, NoLayers, None, NoPyramid, Ids
  <2>2. link \in [up : BOOLEAN, synced : BOOLEAN, cuts : 0..MaxCuts]
    BY ConstantsAssumption DEF Init
  <2>3. nextId \in 1..MaxIds + 1 /\ limbo \in 0..MaxIds
    BY ConstantsAssumption DEF Init
  <2>4. QED BY <1>1, <2>1, <2>2, <2>3 DEF Init, TypeOK, Steps
<1>3. Worklist BY DEF Init, Worklist
<1>4. FreshIds BY DEF Init, FreshIds, Forgotten, None
<1>5. RowsOwned BY DEF Init, RowsOwned
<1>6. OneHeadPerPosition BY <1>1 DEF OneHeadPerPosition
<1>7. StoppedBook BY <1>1 DEF Init, StoppedBook
<1>8. QED BY <1>2, <1>3, <1>4, <1>5, <1>6, <1>7 DEF IInv

\* Dropping a head from the book, by a signal or by the flatten.
LEMMA CloseKeeps ==
    ASSUME IInv, NEW h \in Held, CloseSucceeds(h),
           UNCHANGED <<nextId, limbo>>
    PROVE  /\ tracked' \in [Heads -> Ids \cup {None}]
           /\ layers' \in [Heads -> NoPyramid..MaxLayers]
           /\ rows' \subseteq rows
           /\ open' \subseteq open
           /\ Held' = Held \ {h}
           /\ \A g \in Held' : tracked'[g] = tracked[g]
           /\ FreshIds' /\ RowsOwned' /\ OneHeadPerPosition'
<1> USE DEF IInv, TypeOK
<1>1. tracked' \in [Heads -> Ids \cup {None}] /\ layers' \in [Heads -> NoPyramid..MaxLayers]
  <2>1. NoPyramid \in NoPyramid..MaxLayers
    BY ConstantsAssumption DEF NoPyramid
  <2>2. QED BY <2>1 DEF CloseSucceeds, Drop
<1>2. rows' \subseteq rows /\ open' \subseteq open
  BY DEF CloseSucceeds
<1>3. h \in Heads /\ \A g \in Heads : tracked'[g] = IF g = h THEN None ELSE tracked[g]
  BY DEF CloseSucceeds, Drop, Held
<1>4. Held' = Held \ {h} /\ \A g \in Held' : tracked'[g] = tracked[g]
  BY <1>3 DEF Held
<1>5. FreshIds'
  BY <1>2, <1>3 DEF FreshIds, None
<1>6. RowsOwned'
  BY <1>2 DEF RowsOwned
<1>7. OneHeadPerPosition'
  BY <1>4 DEF OneHeadPerPosition
<1>8. QED BY <1>1, <1>2, <1>4, <1>5, <1>6, <1>7

\* An empty book satisfies everything said of the book.
LEMMA ForgetKeeps ==
    ASSUME ForgetBook
    PROVE  /\ tracked' \in [Heads -> Ids \cup {None}]
           /\ layers' \in [Heads -> NoPyramid..MaxLayers]
           /\ Held' = {}
           /\ \A h \in Heads : tracked'[h] = None
BY ConstantsAssumption DEF ForgetBook, Forgotten, NoLayers, NoPyramid, Held

LEMMA NextInv == IInv /\ [Next]_vars => IInv'
<1> SUFFICES ASSUME IInv, [Next]_vars PROVE IInv' OBVIOUS
<1> USE DEF IInv
<1>1. CASE Connect
  BY <1>1 DEF Connect, TypeOK, Steps, Worklist, FreshIds, RowsOwned, OneHeadPerPosition,
       StoppedBook, Held, MayAdd, loopVars, riskVars, venueVars
<1>2. CASE Recover
  <2>1. CASE link.up /\ tracked' = Recovered
    <3>1. tracked' \in [Heads -> Ids \cup {None}]
      BY <2>1, RecoveredKnown DEF Recovered
    <3>2. \A h \in Heads : tracked'[h] # None => tracked'[h] \in open /\ <<h, tracked'[h]>> \in rows
      BY <2>1, RecoveredKnown
    <3>3. todo = {} /\ ~stopped
      BY <1>2 DEF Recover, Worklist, StoppedBook
    <3>4. TypeOK'
      BY <1>2, <3>1, <3>3 DEF Recover, TypeOK, Steps, Held, riskVars, venueVars
    <3>5. Worklist' /\ StoppedBook' /\ RowsOwned'
      BY <1>2, <3>3 DEF Recover, Worklist, StoppedBook, RowsOwned, riskVars, venueVars
    <3>6. FreshIds'
      <4>1. \A h \in Heads : tracked'[h] < nextId
        <5> SUFFICES ASSUME NEW h \in Heads PROVE tracked'[h] < nextId OBVIOUS
        <5>1. CASE tracked'[h] = None
          BY <5>1 DEF TypeOK, None
        <5>2. CASE tracked'[h] # None
          BY <5>2, <3>2 DEF FreshIds
        <5>3. QED BY <5>1, <5>2
      <4>2. QED BY <1>2, <4>1 DEF Recover, FreshIds, venueVars
    <3>7. OneHeadPerPosition'
      BY <3>1, <3>2 DEF OneHeadPerPosition, Held, RowsOwned
    <3>8. QED BY <3>4, <3>5, <3>6, <3>7
  <2>2. CASE UNCHANGED <<broker_synced, tracked>>
    BY <1>2, <2>2 DEF Recover, TypeOK, Steps, Worklist, FreshIds, RowsOwned, OneHeadPerPosition,
       StoppedBook, Held, MayAdd, riskVars, venueVars
  <2>3. QED BY <1>2, <2>1, <2>2 DEF Recover
<1>3. CASE Reconnect
  BY <1>3 DEF Reconnect, TypeOK, Steps, Worklist, FreshIds, RowsOwned, OneHeadPerPosition,
       StoppedBook, Held, MayAdd, loopVars, riskVars, venueVars
<1>4. CASE Shutdown
  BY <1>4 DEF Shutdown, TypeOK, Steps, Worklist, FreshIds, RowsOwned, OneHeadPerPosition,
       StoppedBook, Held, MayAdd, loopVars, riskVars, venueVars
<1>5. CASE BarCloses
  <2>1. todo = {} /\ todo' = {} /\ pc' = "evaluate"
    BY <1>5 DEF BarCloses, Worklist
  <2>2. CASE ForgetBook
    <3>1. TypeOK'
      BY <1>5, <2>1, <2>2, ForgetKeeps
         DEF BarCloses, ReconcileOpenPositions, TypeOK, Steps, riskVars, venueVars
    <3>2. FreshIds'
      BY <1>5, <2>2, ForgetKeeps DEF BarCloses, FreshIds, TypeOK, None, venueVars
    <3>3. OneHeadPerPosition'
      BY <2>2, ForgetKeeps DEF OneHeadPerPosition
    <3>4. Worklist' /\ StoppedBook' /\ RowsOwned'
      BY <1>5, <2>1, <2>2, ForgetKeeps
         DEF BarCloses, Worklist, StoppedBook, RowsOwned, riskVars, venueVars
    <3>5. QED BY <3>1, <3>2, <3>3, <3>4
  <2>3. CASE UNCHANGED <<tracked, layers>>
    BY <1>5, <2>1, <2>3 DEF BarCloses, ReconcileOpenPositions, TypeOK, Steps, Worklist, FreshIds,
       RowsOwned, OneHeadPerPosition, StoppedBook, Held, riskVars, venueVars
  <2>4. QED BY <1>5, <2>2, <2>3 DEF BarCloses, ReconcileOpenPositions
<1>6. CASE NoSignals \/ SomeSignals \/ SignalsDone
  BY <1>6 DEF NoSignals, SomeSignals, SignalsDone, TypeOK, Steps, Worklist, FreshIds, RowsOwned,
       OneHeadPerPosition, StoppedBook, Held, MayAdd, loopVars, riskVars, venueVars
<1>7. CASE CloseSignal
  <2>1. PICK h \in Held : CloseSucceeds(h)
    BY <1>7 DEF CloseSignal
  <2>2. UNCHANGED <<nextId, limbo>>
    BY <1>7 DEF CloseSignal
  <2>3. todo = {} /\ todo' = {} /\ pc' = "signals" /\ pc = "signals"
    BY <1>7 DEF CloseSignal, Worklist
  <2>4. TypeOK'
    BY <1>7, <2>1, <2>2, <2>3, CloseKeeps DEF CloseSignal, TypeOK, riskVars
  <2>5. Worklist' /\ StoppedBook'
    BY <1>7, <2>1, <2>2, <2>3, CloseKeeps DEF CloseSignal, Worklist, StoppedBook, riskVars
  <2>6. QED BY <2>1, <2>2, <2>4, <2>5, CloseKeeps
<1>8. CASE OpenSignal
  <2>1. todo = {} /\ todo' = {} /\ pc' = "signals" /\ ~stopped /\ ~stopped'
    BY <1>8 DEF OpenSignal, GateAdmits, Worklist, riskVars
  <2>2. Worklist' /\ StoppedBook'
    BY <2>1 DEF Worklist, StoppedBook
  <2>3. PICK h \in Heads \ Held :
          \/ /\ OrderFills
             /\ tracked' = [tracked EXCEPT ![h] = nextId]
             /\ layers' = [layers EXCEPT ![h] = 0]
             /\ rows' \in {rows, rows \cup {<<h, nextId>>}}
          \/ /\ OrderLost
             /\ UNCHANGED <<tracked, layers, rows>>
    BY <1>8 DEF OpenSignal
  <2>4. CASE OrderFills /\ tracked' = [tracked EXCEPT ![h] = nextId]
             /\ layers' = [layers EXCEPT ![h] = 0]
             /\ rows' \in {rows, rows \cup {<<h, nextId>>}}
    <3>1. nextId \in Ids /\ nextId \in Nat /\ nextId # None /\ nextId' = nextId + 1
          /\ open' = open \cup {nextId} /\ limbo' = limbo
      BY <2>4 DEF OrderFills, Ids, None
    <3>2. TypeOK'
      BY <1>8, <2>1, <2>4, <3>1, ConstantsAssumption
         DEF OpenSignal, TypeOK, Steps, Ids, NoPyramid, riskVars
    <3>3. FreshIds'
      BY <2>4, <3>1 DEF TypeOK, FreshIds, Ids, None
    <3>4. RowsOwned'
      BY <2>4, <3>1 DEF TypeOK, RowsOwned, FreshIds, Ids
    <3>5. OneHeadPerPosition'
      <4>1. \A g \in Heads : tracked'[g] = IF g = h THEN nextId ELSE tracked[g]
        BY <2>4 DEF TypeOK
      <4>2. \A g \in Heads : tracked[g] # nextId
        BY <3>1 DEF FreshIds, TypeOK, Ids, None
      <4>3. QED BY <4>1, <4>2 DEF OneHeadPerPosition, Held
    <3>6. QED BY <2>2, <3>2, <3>3, <3>4, <3>5
  <2>5. CASE OrderLost /\ UNCHANGED <<tracked, layers, rows>>
    <3>1. limbo' \in 0..MaxIds
      BY <2>5, ConstantsAssumption DEF OrderLost, TypeOK, Ids
    <3>2. QED
      BY <1>8, <2>1, <2>2, <2>5, <3>1 DEF OpenSignal, OrderLost, TypeOK, FreshIds, RowsOwned,
         OneHeadPerPosition, Held, riskVars
  <2>6. QED BY <2>3, <2>4, <2>5
<1>9. CASE RiskUpdate
  <2>1. todo = {} /\ Held' = Held
    BY <1>9 DEF RiskUpdate, Worklist, Held
  <2>2. stopped' \in BOOLEAN /\ breach' \in BOOLEAN /\ kill' \in BOOLEAN /\ halted' \in BOOLEAN
    BY <1>9 DEF RiskUpdate, DailyUpdate, TypeOK
  <2>3. CASE FlattenStart
    <3>1. todo' = Held' /\ failed' = {} /\ pc' = "flatten"
      BY <2>1, <2>3 DEF FlattenStart
    <3>2. TypeOK'
      BY <1>9, <2>2, <3>1 DEF RiskUpdate, TypeOK, Steps, venueVars
    <3>3. Worklist' /\ StoppedBook'
      BY <3>1 DEF Worklist, StoppedBook
    <3>4. QED
      BY <1>9, <2>1, <3>2, <3>3 DEF RiskUpdate, FreshIds, RowsOwned, OneHeadPerPosition, venueVars
  <2>4. CASE ~(stopped' /\ ~stopped) /\ pc' \in {"top", "pyramid"} /\ UNCHANGED <<todo, failed>>
    BY <1>9, <2>1, <2>2, <2>4 DEF RiskUpdate, TypeOK, Steps, Worklist, StoppedBook, FreshIds,
       RowsOwned, OneHeadPerPosition, venueVars
  <2>5. QED BY <1>9, <2>3, <2>4 DEF RiskUpdate, AfterRisk
<1>10. CASE FlattenNext
  <2>1. PICK h \in todo :
          /\ todo' = todo \ {h}
          /\ \/ CloseSucceeds(h) /\ UNCHANGED failed
             \/ failed' = failed \cup {h} /\ UNCHANGED <<tracked, layers, rows, open>>
    BY <1>10 DEF FlattenNext
  <2>2. h \in Held /\ h \in Heads /\ UNCHANGED <<nextId, limbo>> /\ pc' = "flatten" /\ pc = "flatten"
    BY <1>10 DEF FlattenNext, TypeOK, Held
  <2>3. CASE CloseSucceeds(h) /\ UNCHANGED failed
    <3>1. TypeOK'
      BY <1>10, <2>1, <2>2, <2>3, CloseKeeps DEF FlattenNext, TypeOK, riskVars
    <3>2. Worklist' /\ StoppedBook'
      BY <1>10, <2>1, <2>2, <2>3, CloseKeeps DEF FlattenNext, Worklist, StoppedBook, riskVars
    <3>3. QED BY <2>2, <2>3, <3>1, <3>2, CloseKeeps
  <2>4. CASE failed' = failed \cup {h} /\ UNCHANGED <<tracked, layers, rows, open>>
    BY <1>10, <2>1, <2>2, <2>4 DEF FlattenNext, TypeOK, Worklist, StoppedBook, FreshIds, RowsOwned,
       OneHeadPerPosition, Held, riskVars
  <2>5. QED BY <2>1, <2>3, <2>4
<1>11. CASE FlattenDone \/ PyramidSkip \/ PyramidDone
  BY <1>11 DEF FlattenDone, PyramidSkip, PyramidDone, TypeOK, Steps, Worklist, FreshIds, RowsOwned,
       OneHeadPerPosition, StoppedBook, Held, MayAdd, loopVars, riskVars, venueVars
<1>12. CASE PyramidScan
  <2>1. MayAdd \subseteq Held
    BY DEF MayAdd
  <2>2. QED
    BY <1>12, <2>1 DEF PyramidScan, TypeOK, Steps, Worklist, FreshIds, RowsOwned,
       OneHeadPerPosition, StoppedBook, Held, MayAdd, riskVars, venueVars
<1>13. CASE PyramidAdd
  <2>1. PICK h \in todo : todo' = todo \ {h} /\ layers' = [layers EXCEPT ![h] = @ + 1]
    BY <1>13 DEF PyramidAdd
  <2>2. h \in Heads /\ layers[h] \in NoPyramid..MaxLayers /\ 0 <= layers[h] /\ layers[h] < MaxLayers
        /\ ~stopped /\ todo \subseteq MayAdd
    BY <1>13, <2>1 DEF PyramidAdd, Worklist, MayAdd, Held, TypeOK
  <2>3. layers' \in [Heads -> NoPyramid..MaxLayers]
    BY <2>1, <2>2, ConstantsAssumption DEF TypeOK, NoPyramid
  <2>4. \A g \in todo' : layers'[g] = layers[g]
    BY <2>1, <2>2 DEF TypeOK, Held
  <2>5. Held' = Held /\ todo' \subseteq Held'
    BY <1>13, <2>1 DEF PyramidAdd, Held, TypeOK
  <2>6. Worklist' /\ StoppedBook' /\ OneHeadPerPosition' /\ RowsOwned'
    BY <1>13, <2>1, <2>2, <2>4, <2>5 DEF PyramidAdd, Worklist, StoppedBook, MayAdd,
       OneHeadPerPosition, RowsOwned, riskVars
  <2>7. open' \subseteq Ids /\ nextId' \in 1..MaxIds + 1 /\ limbo' \in 0..MaxIds /\ FreshIds'
    <3>1. CASE OrderFills
      BY <1>13, <3>1, ConstantsAssumption DEF PyramidAdd, OrderFills, TypeOK, FreshIds, Ids, None
    <3>2. CASE OrderLost
      BY <1>13, <3>2, ConstantsAssumption DEF PyramidAdd, OrderLost, TypeOK, FreshIds, Ids
    <3>3. CASE UNCHANGED venueVars
      BY <1>13, <3>3 DEF PyramidAdd, venueVars, TypeOK, FreshIds
    <3>4. QED BY <1>13, <3>1, <3>2, <3>3 DEF PyramidAdd
  <2>8. TypeOK'
    BY <1>13, <2>3, <2>5, <2>7 DEF PyramidAdd, TypeOK, riskVars
  <2>9. QED BY <2>6, <2>7, <2>8
<1>14. CASE VenueCloses
  BY <1>14 DEF VenueCloses, TypeOK, Worklist, FreshIds, RowsOwned, OneHeadPerPosition, StoppedBook,
       Held, MayAdd, loopVars, riskVars
<1>15. CASE LateFill
  <2>1. open' \subseteq Ids /\ nextId' \in 1..MaxIds + 1 /\ limbo' \in 0..MaxIds /\ FreshIds'
    <3>1. limbo' \in 0..MaxIds
      BY <1>15, ConstantsAssumption DEF LateFill, TypeOK
    <3>2. CASE nextId \in Ids /\ open' = open \cup {nextId} /\ nextId' = nextId + 1
      <4>1. nextId' \in 1..MaxIds + 1 /\ open' \subseteq Ids
        BY <3>2, ConstantsAssumption DEF TypeOK, Ids
      <4>2. UNCHANGED <<tracked, rows>>
        BY <1>15 DEF LateFill, loopVars
      <4>3. FreshIds'
        BY <3>2, <4>2 DEF TypeOK, FreshIds, Ids, None
      <4>4. QED BY <3>1, <4>1, <4>3
    <3>3. CASE UNCHANGED <<open, nextId>>
      BY <1>15, <3>1, <3>3 DEF LateFill, TypeOK, FreshIds, loopVars
    <3>4. QED BY <1>15, <3>2, <3>3 DEF LateFill
  <2>2. QED
    BY <1>15, <2>1 DEF LateFill, TypeOK, Worklist, RowsOwned, OneHeadPerPosition, StoppedBook,
       Held, MayAdd, loopVars, riskVars
<1>16. CASE Cut
  <2>1. link' \in [up : BOOLEAN, synced : BOOLEAN, cuts : 0..MaxCuts]
    <3>1. link.cuts + 1 \in 0..MaxCuts
      BY <1>16, ConstantsAssumption DEF Cut, TypeOK
    <3>2. QED BY <1>16, <3>1 DEF Cut, TypeOK
  <2>2. QED
    BY <1>16, <2>1 DEF Cut, TypeOK, Worklist, FreshIds, RowsOwned, OneHeadPerPosition,
       StoppedBook, Held, MayAdd, loopVars, riskVars, venueVars
<1>17. CASE Restart
  <2>1. TypeOK'
    <3>1. link' \in [up : BOOLEAN, synced : BOOLEAN, cuts : 0..MaxCuts]
      BY <1>17, ConstantsAssumption DEF Restart, TypeOK
    <3>2. QED BY <1>17, <3>1, ForgetKeeps DEF Restart, TypeOK, Steps, venueVars
  <2>2. FreshIds'
    BY <1>17, ForgetKeeps DEF Restart, FreshIds, TypeOK, None, venueVars
  <2>3. Worklist' /\ StoppedBook' /\ RowsOwned' /\ OneHeadPerPosition'
    BY <1>17, ForgetKeeps DEF Restart, Worklist, StoppedBook, RowsOwned, OneHeadPerPosition, venueVars
  <2>4. QED BY <2>1, <2>2, <2>3
<1>18. CASE UNCHANGED vars
  BY <1>18 DEF vars, TypeOK, Worklist, FreshIds, RowsOwned, OneHeadPerPosition, StoppedBook, Held,
       MayAdd, loopVars, riskVars, venueVars
<1>19. QED
  BY <1>1, <1>2, <1>3, <1>4, <1>5, <1>6, <1>7, <1>8, <1>9, <1>10, <1>11, <1>12, <1>13, <1>14,
     <1>15, <1>16, <1>17, <1>18 DEF Next

LEMMA Invariance == Spec => []IInv
BY InitInv, NextInv, PTL DEF Spec

-----------------------------------------------------------------------------
(* The theorems.                                                           *)

\* Every reachable state of the loop (phase1.rs:830) is well typed: layers
\* stay within the pyramid's limit, and the pass in progress works on
\* positions that are tracked.
THEOREM TypeCorrect == Spec => []TypeOK
BY Invariance, PTL DEF IInv

\* Through forgotten books, late fills and recoveries no two heads ever
\* manage the same position (phase1.rs:628, 1514).
THEOREM DistinctPositions == Spec => []OneHeadPerPosition
BY Invariance, PTL DEF IInv

\* After the flatten (phase1.rs:1826) a stopped day's book holds only
\* positions whose protective close failed.
THEOREM StoppedBookFlat == Spec => []StoppedBookIsFlat
<1>1. IInv => StoppedBookIsFlat
  <2> SUFFICES ASSUME IInv, stopped, pc # "flatten" PROVE Held \subseteq failed
    BY DEF StoppedBookIsFlat
  <2>1. todo = {} BY DEF IInv, Worklist
  <2>2. QED BY <2>1 DEF IInv, StoppedBook
<1>2. QED BY <1>1, Invariance, PTL

\* Opens and pyramid adds alike pass the gate (gate.rs:100) and the halts of
\* the loop (phase1.rs:1393, 1681).
LEMMA OrdersPassTheGate ==
    IInv /\ [Next]_vars => (Sent => broker_synced /\ ~stopped /\ ~kill /\ ~halted)
<1> SUFFICES ASSUME IInv, [Next]_vars, Sent
             PROVE  broker_synced /\ ~stopped /\ ~kill /\ ~halted
  OBVIOUS
<1>1. limbo \in Nat /\ nextId \in Nat
  BY ConstantsAssumption DEF IInv, TypeOK
<1>2. CASE OpenSignal
  BY <1>2 DEF OpenSignal, GateAdmits
<1>3. CASE PyramidAdd
  <2>1. pc = "adding" /\ ~halted
    BY <1>3 DEF PyramidAdd, IInv, Worklist
  <2>2. CASE GateAdmits
    BY <2>1, <2>2 DEF GateAdmits
  <2>3. CASE UNCHANGED venueVars
    BY <1>1, <2>3 DEF venueVars, Sent
  <2>4. QED BY <1>3, <2>2, <2>3 DEF PyramidAdd
<1>4. CASE LateFill
  BY <1>1, <1>4 DEF LateFill, Sent
<1>5. CASE UNCHANGED <<nextId, limbo>>
  BY <1>1, <1>5 DEF Sent
<1>6. QED
  BY <1>2, <1>3, <1>4, <1>5 DEF Next, Connect, Recover, Reconnect, Shutdown, BarCloses, NoSignals,
     SomeSignals, SignalsDone, CloseSignal, RiskUpdate, FlattenNext, FlattenDone, PyramidScan,
     PyramidSkip, PyramidDone, VenueCloses, Cut, Restart, vars, venueVars

\* No order leaves once the day is stopped, the switch armed or the target
\* met, nor from a process that never reconciled its recovery.
THEOREM RefusedMeansSilent == Spec => NoOrderWhenRefused
<1>1. IInv /\ [Next]_vars => [Sent => broker_synced /\ ~stopped /\ ~kill /\ ~halted]_vars
  BY OrdersPassTheGate
<1>2. QED BY <1>1, Invariance, PTL DEF Spec, NoOrderWhenRefused

\* And so the venue's book can only grow by orders sent before.
THEOREM ExposureShrinks == Spec => NoNewExposure
<1>1. IInv /\ [Next]_vars =>
        [stopped \/ kill \/ halted => open' \subseteq open \/ limbo' < limbo]_vars
  <2> SUFFICES ASSUME IInv, [Next]_vars, stopped \/ kill \/ halted
               PROVE  open' \subseteq open \/ limbo' < limbo
    OBVIOUS
  <2>1. limbo \in Nat /\ nextId \in Nat
    BY ConstantsAssumption DEF IInv, TypeOK
  <2>2. ~Sent
    BY OrdersPassTheGate
  <2>3. CASE OpenSignal
    BY <2>1, <2>2, <2>3 DEF OpenSignal, OrderFills, OrderLost, Sent
  <2>4. CASE PyramidAdd
    BY <2>1, <2>2, <2>4 DEF PyramidAdd, OrderFills, OrderLost, Sent, venueVars
  <2>5. CASE LateFill
    BY <2>1, <2>5 DEF LateFill
  <2>6. CASE open' \subseteq open
    BY <2>6
  <2>7. QED
    BY <2>3, <2>4, <2>5, <2>6 DEF Next, Connect, Recover, Reconnect, Shutdown, BarCloses,
       NoSignals, SomeSignals, SignalsDone, CloseSignal, CloseSucceeds, RiskUpdate, FlattenNext,
       FlattenDone, PyramidScan, PyramidSkip, PyramidDone, VenueCloses, Cut, Restart, vars,
       venueVars
<1>2. QED BY <1>1, Invariance, PTL DEF Spec, NoNewExposure

\* Recovery cannot lose a position in silence: the restored book injects into
\* the venue's, so one that is missing makes the counts differ.
LEMMA MissingIsCounted ==
    ASSUME IInv, NEW id \in open, \A h \in Heads : Recovered[h] # id
    PROVE  OrphanWarning(Recovered)
<1> DEFINE H == {h \in Heads : Recovered[h] # None}
           f == [h \in H |-> Recovered[h]]
<1>1. IsFiniteSet(open)
  <2>1. IsFiniteSet(Ids)
    BY FS_Interval, ConstantsAssumption DEF Ids
  <2>2. QED BY <2>1, FS_Subset DEF IInv, TypeOK
<1>2. \A h \in H : Recovered[h] \in open /\ Recovered[h] \in Ids /\ <<h, Recovered[h]>> \in rows
  BY RecoveredKnown DEF IInv, None
<1>3. f \in [H -> open \ {id}]
  BY <1>2
<1>4. \A g, h \in H : f[g] = f[h] => g = h
  BY <1>2 DEF IInv, RowsOwned
<1>5. f \in Injection(H, open \ {id})
  BY <1>3, <1>4 DEF Injection, IsInjective
<1>6. IsFiniteSet(open \ {id}) /\ Cardinality(open \ {id}) = Cardinality(open) - 1
  BY <1>1, FS_RemoveElement
<1>7. IsFiniteSet(H) /\ Cardinality(H) <= Cardinality(open \ {id})
  <2> HIDE DEF f, H
  <2>1. QED BY <1>5, <1>6, FS_Injection
<1>8. Cardinality(H) \in Nat /\ Cardinality(open) \in Nat
  BY <1>1, <1>7, FS_CardinalityType
<1>9. Count(Recovered) = Cardinality(H)
  BY DEF Count
<1>10. Cardinality(open) > Count(Recovered)
  <2> HIDE DEF H
  <2>1. QED BY <1>6, <1>7, <1>8, <1>9
<1>11. QED BY <1>10 DEF OrphanWarning

\* Whatever positions, rows and heads overlap, an orphan at the venue is
\* reported (phase1.rs:964).
THEOREM OrphanIsReported == Spec => OrphansReported
<1>1. IInv /\ [Next]_vars =>
        [pc = "recover" /\ broker_synced'
           /\ (\E id \in open : \A h \in Heads : tracked'[h] # id)
         => OrphanWarning(tracked')]_vars
  <2> SUFFICES ASSUME IInv, [Next]_vars, pc = "recover", broker_synced', vars' # vars,
                      NEW id \in open, \A h \in Heads : tracked'[h] # id
               PROVE  OrphanWarning(tracked')
    OBVIOUS
  <2>1. ~broker_synced
    BY DEF IInv, StoppedBook
  <2>2. tracked' = Recovered
    BY <2>1 DEF Next, Connect, Recover, Reconnect, Shutdown, BarCloses, NoSignals, SomeSignals,
       SignalsDone, CloseSignal, OpenSignal, RiskUpdate, FlattenNext, FlattenDone, PyramidScan,
       PyramidSkip, PyramidAdd, PyramidDone, VenueCloses, LateFill, Cut, Restart, vars
  <2>3. QED BY <2>2, MissingIsCounted
<1>2. QED BY <1>1, Invariance, PTL DEF Spec, OrphansReported

=============================================================================
