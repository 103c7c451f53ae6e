------------------------------ MODULE DailyPnl ------------------------------
(***************************************************************************)
(* The daily P&L engine (gadarah-risk/src/daily_pnl.rs): marks the account *)
(* to market, tightens the day state as thresholds are crossed, raises one *)
(* flatten request when the daily stop is hit, and starts over at 17:00    *)
(* New York.  The engine is a value; the module also drives it by any      *)
(* sequence of marks, takes and passing time.  What it promises to the     *)
(* live loop is DailyLatch.                                                *)
(*                                                                         *)
(* Equity is an integer; percentages are basis points of the equity the    *)
(* day opened with, compared without the division.  The 17:00 New York     *)
(* boundaries are any set of timestamps, so days of 23, 24 and 25 hours    *)
(* are alike.                                                              *)
(***************************************************************************)
EXTENDS Integers, FiniteSets

CONSTANTS
    Equities,      \* bound: the equities the account shows
    Boundaries,    \* timestamps at which New York passes 17:00
    CruiseBp,      \* daily_target_pct * cruise_threshold_pct
    ProtectBp,     \* daily_target_pct * protect_threshold_pct
    StopBp,        \* daily_stop_pct
    DayEnd         \* bound: last value of the clock

VARIABLES
    engine,    \* the DailyPnlEngine
    hour,      \* the timestamp of the next call
    taken      \* the trading day of the last request handed out

dayVars == <<engine, hour, taken>>

ASSUME EngineAssumption ==
    /\ Equities \subseteq Nat \ {0} /\ Equities # {}
    /\ Boundaries \subseteq Nat /\ IsFiniteSet(Boundaries)
    /\ CruiseBp \in Nat /\ ProtectBp \in Nat /\ StopBp \in Nat

DayStates == {"Normal", "Cruising", "Protecting", "DailyStopped"}

Severity(s) ==
    CASE s = "Normal" -> 0
      [] s = "Cruising" -> 1
      [] s = "Protecting" -> 2
      [] s = "DailyStopped" -> 3

TradingDayIndex(t) == Cardinality({b \in Boundaries : b <= t})

Unstarted == -1

NewEngine(equity) ==
    [day_open |-> equity, pnl |-> 0, peak |-> equity, state |-> "Normal",
     last_day |-> Unstarted, pending |-> FALSE]

-----------------------------------------------------------------------------
(* update()                                                                *)

\* The reset at a new trading day; the first call keeps the opening equity
\* the engine was created with.
Roll(e, equity, day) ==
    IF day = e.last_day THEN e
    ELSE [day_open |-> IF e.last_day >= 0 THEN equity ELSE e.day_open,
          pnl |-> 0, peak |-> equity, state |-> "Normal",
          last_day |-> day, pending |-> FALSE]

\* amount is at least bp basis points of the equity the day opened with.
AtLeast(e, amount, bp) == 10000 * amount >= bp * e.day_open

Candidate(e, equity) ==
    IF \/ AtLeast(e, e.peak - equity, StopBp)
       \/ AtLeast(e, -e.pnl, StopBp)  THEN "DailyStopped"
    ELSE IF AtLeast(e, e.pnl, ProtectBp) THEN "Protecting"
    ELSE IF AtLeast(e, e.pnl, CruiseBp) THEN "Cruising"
    ELSE "Normal"

Marked(e, equity) ==
    [e EXCEPT !.pnl = equity - e.day_open,
              !.peak = IF equity > e.peak THEN equity ELSE e.peak]

\* Mutation of Advance: the latch is set by level, not by edge.
AdvanceByLevel(e, candidate) ==
    [e EXCEPT
        !.state = IF Severity(candidate) > Severity(e.state) THEN candidate ELSE e.state,
        !.pending = e.pending \/ candidate = "DailyStopped"]

\* Mutation of Advance: only the step from Normal raises the request.
AdvanceFromNormal(e, candidate) ==
    IF Severity(candidate) > Severity(e.state)
    THEN [e EXCEPT
            !.state = candidate,
            !.pending = e.pending \/ (candidate = "DailyStopped" /\ e.state = "Normal")]
    ELSE e

\* Only a more severe candidate is accepted; the edge into DailyStopped sets
\* the latch.
Advance(e, candidate) ==
    IF Severity(candidate) > Severity(e.state)
    THEN [e EXCEPT
            !.state = candidate,
            !.pending = e.pending \/ candidate = "DailyStopped"]
    ELSE e

Update(e, equity, t) ==
    LET marked == Marked(Roll(e, equity, TradingDayIndex(t)), equity)
    IN  Advance(marked, Candidate(marked, equity))

TakeProtectiveClose(e) == [e EXCEPT !.pending = FALSE]

CanTrade(e) == e.state # "DailyStopped"

Engines == [day_open : Nat, pnl : Int, peak : Nat, state : DayStates,
            last_day : Nat \cup {Unstarted}, pending : BOOLEAN]

-----------------------------------------------------------------------------
(* The engine under any marks, takes and passing time.                     *)

DayInit ==
    /\ \E equity \in Equities : engine = NewEngine(equity)
    /\ hour = 0
    /\ taken = Unstarted - 1

UpdateEngine ==
    /\ \E equity \in Equities : engine' = Update(engine, equity, hour)
    /\ UNCHANGED <<hour, taken>>

TakeRequest ==
    /\ engine.pending
    /\ engine' = TakeProtectiveClose(engine)
    /\ taken' = engine.last_day
    /\ UNCHANGED hour

NextHour ==
    /\ hour < DayEnd
    /\ hour' = hour + 1
    /\ UNCHANGED <<engine, taken>>

DayNext == UpdateEngine \/ TakeRequest \/ NextHour

DaySpec == DayInit /\ [][DayNext]_dayVars

-----------------------------------------------------------------------------
(* What the engine shows of the daily latch.                               *)

Latch == INSTANCE DailyLatch WITH
    day <- engine.last_day,
    level <- Severity(engine.state),
    request <- IF engine.pending THEN "raised"
               ELSE IF engine.state = "DailyStopped" THEN "taken"
               ELSE "none"

\* The engine implements the latch the live loop relies on
\* (phase1.rs:1642 takes the request and flattens).
ImplementsLatch == Latch!LatchSpec

-----------------------------------------------------------------------------
(* Properties.                                                             *)

\* The engine and its environment keep their types.
DayTypeOK ==
    /\ engine \in Engines
    /\ hour \in Nat
    /\ taken \in Int

\* A request that waits belongs to the stop of the current day, and that day
\* has handed none out yet: however updates and takes interleave, a trading
\* day flattens the book at most once (daily_pnl.rs:144).
OneRequestPerDay ==
    engine.pending => engine.state = "DailyStopped" /\ taken < engine.last_day

\* A stopped day has its request waiting or already taken: the stop is never
\* entered in silence, from whichever day state it is entered.
StopRaisesRequest ==
    engine.state = "DailyStopped" => engine.pending \/ taken = engine.last_day

\* Within a trading day the engine only tightens, and the day never runs
\* backwards (daily_pnl.rs:163).
OnlyTightens ==
    [][/\ engine'.last_day >= engine.last_day
       /\ engine'.last_day = engine.last_day =>
            Severity(engine'.state) >= Severity(engine.state)]_dayVars
=============================================================================
