----------------------------- MODULE KillSwitch -----------------------------
(***************************************************************************)
(* The kill switch of the risk stack (gadarah-risk/src/kill_switch.rs).    *)
(*                                                                         *)
(* The switch is a value: every method of the Rust type is an operator     *)
(* from a switch (and its arguments) to the switch it leaves.  The module  *)
(* also closes the type into a state machine: an account whose drawdown    *)
(* and loss streak move freely, a clock, and the two calls the rest of the *)
(* program makes, check() and activate().  LiveLoop instantiates the       *)
(* operators on its own copy of the switch.                                *)
(*                                                                         *)
(* Abstractions.  Percentages are integers in units of the test bounds;    *)
(* the free-text `details` field is left out; an absent Option is NoTime,  *)
(* NoStreak or NoReason.                                                   *)
(***************************************************************************)
EXTENDS Integers

CONSTANTS
    Cooldown,          \* length of the loss cooldown (1800 s in the code)
    StreakLimit,       \* consecutive losses that start one (3 in the code)
    DailyLimit,        \* firm.daily_dd_limit_pct
    MaxLimit,          \* firm.max_dd_limit_pct
    ExternalReasons,   \* reasons other modules pass to activate()
    DdLevels,          \* bound: the drawdowns the account shows
    MaxLosses,         \* bound: longest loss streak
    MaxTime            \* bound: last value of the clock

ASSUME SwitchConstants ==
    /\ Cooldown \in Nat \ {0}
    /\ StreakLimit \in Nat \ {0}
    /\ DailyLimit \in Nat /\ MaxLimit \in Nat
    /\ DdLevels \subseteq Nat
    /\ MaxLosses \in Nat /\ MaxTime \in Nat
    /\ ExternalReasons \cap {"None", "ConsecutiveLosses"} = {}

NoTime   == -1
NoStreak == -1
NoReason == "None"

DrawdownReasons == {"DailyDD", "TotalDD"}
Reasons == DrawdownReasons \cup {"ConsecutiveLosses"} \cup ExternalReasons

Switches == [active         : BOOLEAN,
             reason         : Reasons \cup {NoReason},
             activated_at   : Nat \cup {NoTime},
             cooldown_until : Nat \cup {NoTime},
             streak         : Nat \cup {NoStreak}]

New == [active |-> FALSE, reason |-> NoReason, activated_at |-> NoTime,
        cooldown_until |-> NoTime, streak |-> NoStreak]

-----------------------------------------------------------------------------
(* The methods of KillSwitch.                                              *)

Expired(k, t) == k.cooldown_until # NoTime /\ t >= k.cooldown_until

\* Mutation of Tick: trading reopens but the resume time is left behind.
TickKeepsResume(k, t) ==
    IF Expired(k, t)
    THEN [New EXCEPT !.streak = k.streak, !.cooldown_until = k.cooldown_until]
    ELSE k

\* tick: an expired cooldown clears everything but the remembered streak.
Tick(k, t) ==
    IF Expired(k, t)
    THEN [New EXCEPT !.streak = k.streak]
    ELSE k

\* arm: overwrite reason and time; both callers test `active` first.
Arm(k, why, t) ==
    [k EXCEPT !.active = TRUE, !.reason = why, !.activated_at = t]

\* A drop of the streak below the remembered one allows a new cooldown.
ForgetStreak(k, losses) ==
    IF k.streak # NoStreak /\ losses < k.streak
    THEN [k EXCEPT !.streak = NoStreak]
    ELSE k

\* 95% of a drawdown limit, without the division.
Breaches(dd, limit) == 100 * dd >= 95 * limit

\* Mutation of NewStreak: the remembered streak is not consulted.
AnyStreak(k, losses) == losses >= StreakLimit

NewStreak(k, losses) == losses >= StreakLimit /\ k.streak # losses

\* The three triggers, in the order check() tries them on an idle switch.
Trigger(k, dd, losses, t) ==
    IF Breaches(dd, DailyLimit) THEN Arm(k, "DailyDD", t)
    ELSE IF Breaches(dd, MaxLimit) THEN Arm(k, "TotalDD", t)
    ELSE IF NewStreak(k, losses)
         THEN Arm([k EXCEPT !.cooldown_until = t + Cooldown, !.streak = losses],
                  "ConsecutiveLosses", t)
    ELSE k

\* Mutation of Check: a call that ends a cooldown returns without triggers.
CheckTickOrTrigger(k, dd, losses, t) ==
    LET ticked == ForgetStreak(Tick(k, t), losses)
    IN  IF k.active THEN ticked ELSE Trigger(ticked, dd, losses, t)

\* Mutation of Check: the active switch returns before the clock advances.
CheckActiveFirst(k, dd, losses, t) ==
    IF k.active THEN k ELSE Trigger(ForgetStreak(k, losses), dd, losses, t)

Check(k, dd, losses, t) ==
    LET ticked == ForgetStreak(Tick(k, t), losses)
    IN  IF ticked.active THEN ticked ELSE Trigger(ticked, dd, losses, t)

Activate(k, why, t) == IF k.active THEN k ELSE Arm(k, why, t)

-----------------------------------------------------------------------------
(* The closed system.                                                      *)

VARIABLES
    ks,       \* the switch
    dd,       \* account.dd_from_hwm_pct
    losses,   \* account.consecutive_losses
    now,      \* the timestamp of the next call
    fresh     \* a loss has closed since the last win or the last halt

switchVars == <<ks, dd, losses, now, fresh>>

SwitchInit ==
    /\ ks = New
    /\ dd = 0
    /\ losses = 0
    /\ now = 0
    /\ fresh = FALSE

\* A trade closes at a loss; the streak grows.
Loss ==
    /\ losses < MaxLosses
    /\ losses' = losses + 1
    /\ fresh' = TRUE
    /\ UNCHANGED <<ks, dd, now>>

\* A trade closes in profit; the streak is gone.
Win ==
    /\ losses' = 0
    /\ fresh' = FALSE
    /\ UNCHANGED <<ks, dd, now>>

\* The account is marked to market.
MoveEquity ==
    /\ \E d \in DdLevels : dd' = d
    /\ UNCHANGED <<ks, losses, now, fresh>>

Elapse ==
    /\ now < MaxTime
    /\ now' = now + 1
    /\ UNCHANGED <<ks, dd, losses, fresh>>

\* The risk stack calls check(account, timestamp).
CheckSwitch ==
    /\ ks' = Check(ks, dd, losses, now)
    /\ fresh' = (fresh /\ ~ks'.active)
    /\ UNCHANGED <<dd, losses, now>>

\* Another module calls activate(reason, timestamp).
ActivateSwitch ==
    /\ \E why \in ExternalReasons : ks' = Activate(ks, why, now)
    /\ UNCHANGED <<dd, losses, now, fresh>>

SwitchNext ==
    \/ Loss
    \/ Win
    \/ MoveEquity
    \/ Elapse
    \/ CheckSwitch
    \/ ActivateSwitch

SwitchSpec == SwitchInit /\ [][SwitchNext]_switchVars

\* Bars keep arriving and each one checks the switch.
SwitchFairness == WF_switchVars(Elapse) /\ WF_switchVars(CheckSwitch)

SwitchFairSpec == SwitchSpec /\ SwitchFairness

-----------------------------------------------------------------------------
(* Properties.                                                             *)

\* Every field of the switch keeps its type.
SwitchTypeOK ==
    /\ ks \in Switches
    /\ dd \in Nat
    /\ losses \in Nat
    /\ now \in Nat
    /\ fresh \in BOOLEAN

\* A resume time is pending exactly while a loss cooldown holds the switch.
\* It is what makes tick() safe: tick() looks only at cooldown_until, so a
\* resume time left behind by an earlier cooldown would silently clear a
\* drawdown stop armed later.
CooldownOwnsResume ==
    /\ (ks.cooldown_until # NoTime) <=>
         (ks.active /\ ks.reason = "ConsecutiveLosses")
    /\ ks.cooldown_until # NoTime =>
         ks.cooldown_until = ks.activated_at + Cooldown

\* While the switch is active the audit trail keeps the first trip, and the
\* only step that clears it is a check past an expired cooldown.
FirstTripKept ==
    [][ks.active =>
         \/ /\ ks'.active
            /\ ks'.reason = ks.reason
            /\ ks'.activated_at = ks.activated_at
         \/ Expired(ks, now) /\ CheckSwitch]_switchVars

\* A stop for any reason but a loss streak is permanent: no sequence of
\* wins, recoveries, checks and activations reopens trading.
OtherStopsPermanent ==
    [][ks.active /\ ks.reason # "ConsecutiveLosses" =>
         ks'.active /\ ks'.reason = ks.reason]_switchVars

\* check() answers TRUE at every call made in a drawdown breach, also at the
\* very call whose tick() ends a cooldown.
BreachAlwaysStops ==
    [][CheckSwitch /\ (Breaches(dd, DailyLimit) \/ Breaches(dd, MaxLimit)) =>
         ks'.active]_switchVars

\* One streak is cooled once: a cooldown starts only when the streak differs
\* from the one remembered, so the halt does not repeat itself while no
\* trade closes.
NoRepeatedCooldown ==
    [][ks'.cooldown_until \notin {NoTime, ks.cooldown_until} =>
         losses # ks.streak /\ losses >= StreakLimit]_switchVars

\* A cooldown comes to an end once its resume time is on the clock.
CooldownEnds ==
    \A t \in 0..MaxTime : (ks.cooldown_until = t) ~> (ks.cooldown_until # t)

\* config/firms/ftmo_1step.toml:9: a firm without a daily-loss rule has its
\* daily limit "kept at 0.0 so the daily gate disables itself".
NoDailyRuleNoDailyStop == DailyLimit = 0 => ks.reason # "DailyDD"

\* The documentation of the type (kill_switch.rs:15): three consecutive
\* losses halt trading.  After a check no streak of the limit or more is
\* left that no cooldown answered since the streak began.
ThirdLossHalts ==
    [][CheckSwitch /\ losses >= StreakLimit /\ fresh => ks'.active]_switchVars
=============================================================================
