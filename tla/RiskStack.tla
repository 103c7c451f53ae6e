----------------------------- MODULE RiskStack ------------------------------
(***************************************************************************)
(* The risk stack of one live process (gadarah-cli/src/phase1.rs): the     *)
(* account (gadarah-risk/src/account.rs), the daily engine and the kill    *)
(* switch, fed on every bar with a signal from the equity the broker client*)
(* has cached, and the counters the live loop keeps beside them.  DailyPnl *)
(* and KillSwitch supply the operators of the two parts.                   *)
(*                                                                         *)
(* Money is in basis points of the starting balance, so percentages of it  *)
(* are the amounts themselves.  The one real quotient, drawdown in percent *)
(* of the high-water mark, is rounded down; every threshold it meets is a  *)
(* whole number (WholeThresholds), so no comparison changes.               *)
(***************************************************************************)
EXTENDS Integers, FiniteSets

CONSTANTS
    Modes,             \* firm.dd_mode of the firms at hand
    Equities,          \* bound: the balances of the account at the broker
    MaxDd,             \* firm.max_dd_limit_pct
    DailyDd,           \* firm.daily_dd_limit_pct
    Target,            \* firm.profit_target_pct
    MinTradingDays,    \* firm.min_trading_days
    CruiseBp,          \* daily target * cruise threshold
    ProtectBp,         \* daily target * protect threshold
    Boundaries,        \* timestamps at which New York passes 17:00
    Midnights,         \* timestamps at which UTC passes midnight
    Cooldown,          \* length of the loss cooldown
    StreakLimit,       \* consecutive losses that start one
    RefreshEvery,      \* bars between two account refreshes (10)
    MaxLosses,         \* bound: longest loss streak
    LastTime           \* bound: last bar

Start == 10000

ASSUME ConstantsAssumption ==
    /\ Modes \subseteq {"static", "trailing", "trailing_locked_to_start", "eod_trailing"}
    /\ Equities \subseteq Nat \ {0} /\ Start \in Equities
    /\ MaxDd \in 1..Start /\ DailyDd \in Nat
    /\ Target \in Nat /\ MinTradingDays \in Nat
    /\ Boundaries \subseteq Nat /\ IsFiniteSet(Boundaries)
    /\ Midnights \subseteq Nat /\ IsFiniteSet(Midnights)
    /\ CruiseBp \in Nat /\ ProtectBp \in Nat
    /\ Cooldown \in Nat \ {0} /\ StreakLimit \in Nat \ {0}
    /\ RefreshEvery \in Nat \ {0}
    /\ MaxLosses \in Nat /\ LastTime \in Nat

ASSUME WholeThresholds == MaxDd % 20 = 0 /\ DailyDd % 20 = 0

VARIABLES
    mode,       \* the firm's drawdown mode, fixed by its configuration
    acct,       \* AccountState: equity, high-water mark, drawdown, headroom
    daily,      \* DailyPnlEngine
    kill,       \* KillSwitch
    losses,     \* runtime.consecutive_losses
    days,       \* runtime.trading_days, as UTC day numbers
    halted,     \* runtime.profit_target_halted
    since,      \* bars_since_account_refresh
    cached,     \* the equity in the broker client's account_info
    balance,    \* the account as the broker has it
    clock       \* the timestamp of the last bar

stackVars == <<mode, acct, daily, kill, losses, days, halted, since, cached, balance, clock>>

Day == INSTANCE DailyPnl WITH
    StopBp <- IF DailyDd > 0 THEN DailyDd ELSE Start,
    engine <- daily, hour <- clock, taken <- -1, DayEnd <- LastTime

Switch == INSTANCE KillSwitch WITH
    DailyLimit <- DailyDd, MaxLimit <- MaxDd, MaxTime <- LastTime,
    ExternalReasons <- {}, DdLevels <- Nat,
    ks <- kill, dd <- acct.dd, now <- clock, fresh <- FALSE

-----------------------------------------------------------------------------
(* AccountState::update_equity                                             *)

Least(a, b)    == IF a < b THEN a ELSE b
Greatest(a, b) == IF a > b THEN a ELSE b

\* The locked mode measures drawdown from the high-water mark until the floor
\* has reached the starting balance.
Reference(hwm) ==
    CASE mode = "static"                   -> Start
      [] mode = "trailing_locked_to_start" -> Least(hwm, Start + MaxDd)
      [] mode = "eod_trailing"             -> Greatest(hwm, Start)

\* Mutation of Headroom: the floor of the locked mode trails without end.
HeadroomUnlocked(equity, hwm) ==
    CASE mode = "static" -> Greatest(MaxDd - Greatest(Start - equity, 0), 0)
      [] mode = "trailing_locked_to_start" -> Greatest(equity - (hwm - MaxDd), 0)
      [] mode = "eod_trailing" -> Greatest(equity - (Greatest(hwm, Start) - MaxDd), 0)
      [] OTHER -> MaxDd - (10000 * (hwm - equity)) \div hwm

\* Basis points left above the floor.
Headroom(equity, hwm) ==
    CASE mode = "static" -> Greatest(MaxDd - Greatest(Start - equity, 0), 0)
      [] mode = "trailing_locked_to_start" ->
             Greatest(equity - Least(hwm - MaxDd, Start), 0)
      [] mode = "eod_trailing" -> Greatest(equity - (Greatest(hwm, Start) - MaxDd), 0)
      [] OTHER -> MaxDd - (10000 * (hwm - equity)) \div hwm

\* Basis points used below the reference; negative never.
Used(equity, hwm) ==
    IF mode = "trailing"
    THEN (10000 * (hwm - equity)) \div hwm
    ELSE Greatest(Reference(hwm) - equity, 0)

Peak(a, equity) == Greatest(a.hwm, equity)

UpdateEquity(a, equity) ==
    LET hwm == Peak(a, equity)
    IN  [equity |-> equity, hwm |-> hwm,
         dd |-> Used(equity, hwm), remaining |-> Headroom(equity, hwm)]

NewAccount == [equity |-> Start, hwm |-> Start, dd |-> 0, remaining |-> MaxDd]

IsAtFloor(a) == a.remaining <= 0

\* 85% of the starting balance (its absolute minimum of $100 lies below).
BelowTradingEquity(a) == 100 * a.equity < 85 * Start

-----------------------------------------------------------------------------
(* The live process.                                                       *)

UtcDay(t) == Cardinality({m \in Midnights : m <= t})

MinDaysMet == Cardinality(days) >= MinTradingDays

StackInit ==
    /\ mode \in Modes
    /\ acct = NewAccount
    /\ daily = Day!NewEngine(Start)
    /\ kill = Switch!New
    /\ losses = 0
    /\ days = {}
    /\ halted = FALSE
    /\ since = 0
    /\ balance \in Equities
    /\ cached = balance
    /\ clock = 0

\* A signal closes a position.  The report carries no profit and loss, so the
\* net result the loop computes is minus the commission, whatever the trade
\* made.
CloseTrade ==
    /\ \E b \in Equities : balance' = b
    /\ \E commission \in {0, 1} :
           losses' = IF 0 - commission < 0 THEN losses + 1 ELSE 0
    /\ losses' <= MaxLosses
    /\ days' = days \cup {UtcDay(clock)}
    /\ UNCHANGED <<mode, acct, daily, kill, halted, since, cached, clock>>

\* The account moves without the loop: a stop loss, a take profit, a protective
\* close, a swap charge.
AccountMoves ==
    /\ \E b \in Equities : balance' = b
    /\ UNCHANGED <<mode, acct, daily, kill, losses, days, halted, since, cached, clock>>

\* The trader request is sent once per connection.
Reconnect ==
    /\ cached' = balance
    /\ UNCHANGED <<mode, acct, daily, kill, losses, days, halted, since, balance, clock>>

MarkSwitch(a, t) == Switch!Check(kill, a.dd, losses, t)

\* The request to flatten is taken in the bar that raises it.
MarkDay(t) == Day!TakeProtectiveClose(Day!Update(daily, cached, t))

CountBar(n) == IF n + 1 >= RefreshEvery THEN 0 ELSE n + 1

\* A bar closes; the account refresh of every tenth bar reads the cache.
BarPasses ==
    /\ clock < LastTime
    /\ clock' = clock + 1
    /\ since' = CountBar(since)

\* A bar on which no head signals ends before the risk stack is fed.
QuietBar ==
    /\ BarPasses
    /\ UNCHANGED <<mode, acct, daily, kill, losses, days, halted, cached, balance>>

\* On any other bar account, daily engine, kill switch and profit target see
\* the cached equity.
Bar ==
    /\ BarPasses
    /\ acct' = UpdateEquity(acct, cached)
    /\ daily' = MarkDay(clock')
    /\ kill' = MarkSwitch(acct', clock')
    /\ halted' = (halted \/ (cached - Start >= Target /\ MinDaysMet))
    /\ UNCHANGED <<mode, losses, days, cached, balance>>

\* The process starts again: nothing of the stack is persisted.
ProcessRestarts ==
    /\ acct' = NewAccount
    /\ daily' = Day!NewEngine(Start)
    /\ kill' = Switch!New
    /\ losses' = 0
    /\ days' = {}
    /\ halted' = FALSE
    /\ since' = 0
    /\ cached' = balance
    /\ UNCHANGED <<mode, balance, clock>>

StackNext == CloseTrade \/ AccountMoves \/ Reconnect \/ QuietBar \/ Bar \/ ProcessRestarts

StackSpec == StackInit /\ [][StackNext]_stackVars

\* Mutation of GateOpen: the gate leaves the daily stop to the kill switch.
GateOpenNoDay ==
    /\ ~kill.active
    /\ ~IsAtFloor(acct)
    /\ ~BelowTradingEquity(acct)
    /\ ~halted

\* What the stack contributes to the answer of the pre-trade gate.
GateOpen ==
    /\ ~kill.active
    /\ Day!CanTrade(daily)
    /\ ~IsAtFloor(acct)
    /\ ~BelowTradingEquity(acct)
    /\ ~halted

-----------------------------------------------------------------------------
(* Properties.                                                             *)

\* Every part of the stack keeps its type.
StackTyped ==
    /\ mode \in Modes
    /\ acct \in [equity : Equities, hwm : Equities, dd : Int, remaining : Int]
    /\ daily \in Day!Engines
    /\ kill \in Switch!Switches
    /\ losses \in 0..MaxLosses
    /\ days \subseteq Nat
    /\ halted \in BOOLEAN
    /\ since \in 0..(RefreshEvery - 1)
    /\ cached \in Equities /\ balance \in Equities
    /\ clock \in 0..LastTime

\* The firm's floor, as its rule states it: the highest equity that ends the
\* account.
Floor(a) ==
    CASE mode = "static"                   -> Start - MaxDd
      [] mode = "trailing"                 -> (a.hwm * (Start - MaxDd)) \div Start
      [] mode = "trailing_locked_to_start" -> Least(a.hwm - MaxDd, Start)
      [] mode = "eod_trailing"             -> a.hwm - MaxDd

\* An account recorded at its floor has the kill switch armed, in every
\* drawdown mode and also in the bar that ends a loss cooldown: the headroom
\* the gate reads and the drawdown the switch reads are computed separately
\* and must not come apart.
FloorTripsSwitch == IsAtFloor(acct) => kill.active

\* The gate is open only while the recorded equity is above the firm's floor,
\* above the day's stop and above the high of the day less the stop.
GateRespectsRules ==
    GateOpen =>
        /\ acct.equity > Floor(acct)
        /\ DailyDd > 0 => 10000 * (daily.day_open - acct.equity) < DailyDd * daily.day_open
        /\ DailyDd > 0 => 10000 * (daily.peak - acct.equity) < DailyDd * daily.day_open

\* Within one process the floor only rises, and the locked one never passes
\* the starting balance.
FloorRatchets ==
    [][Bar => /\ Floor(acct') >= Floor(acct)
              /\ mode = "trailing_locked_to_start" => Floor(acct') <= Start]_stackVars

\* The floor follows "the highest preceding balance" (account.rs:92), through
\* restarts of the process as well.
FloorFollowsPeak == [][Floor(acct') >= Floor(acct)]_stackVars

\* The refresh of every tenth bar (phase1.rs:1075) leaves the loop with the
\* account as the broker has it.
RefreshRefreshes == [][since' < since => cached' = balance']_stackVars

\* kill_switch.rs:13: a daily stop means that 95% of the daily limit has been
\* lost since the high of the trading day.
DailyStopIsDaily ==
    [][kill'.reason = "DailyDD" /\ ~kill.active =>
          100 * 10000 * (Greatest(daily'.day_open, daily'.peak) - acct'.equity)
              >= 95 * DailyDd * daily'.day_open]_stackVars

\* phase1.rs:107: the streak is "Reset on a win": a close that leaves the
\* account richer ends it.
WinResets == [][CloseTrade /\ balance' > balance => losses' = 0]_stackVars

\* phase1.rs:1572: the trading-day tracker and the daily engine "never disagree
\* about when today ends", so no more trading days are counted than have begun.
TrackerAgrees == Cardinality(days) <= Day!TradingDayIndex(clock) + 1
=============================================================================
