------------------------------ MODULE Backtest -------------------------------
(***************************************************************************)
(* The two backtest drivers on the simulated broker: the engine            *)
(* (gadarah-backtest/src/engine.rs, run_engine) and the replayer           *)
(* (replayer.rs, run_replay).  Both walk the bars: price, stop and target  *)
(* fills, bookkeeping of every closed trade, gates, heads, orders; at the  *)
(* end the open positions are closed at the last price.                    *)
(*                                                                         *)
(* MockBroker, TradeManager and Feedback supply the operators of the parts.*)
(* Gates whose inputs are not modelled (drawdown kill, phase, daily stop,  *)
(* regime warm-up, spread) block a bar or not as they please, and so do    *)
(* the rejections for confidence and compliance.  One regime and one       *)
(* session: a ledger segment is a head.                                    *)
(***************************************************************************)
EXTENDS MockBroker, TradeManager, Feedback

CONSTANTS
    Heads,
    Modes,          \* which of the two drivers: "engine", "replay"
    Moves,          \* bound: price changes from bar to bar
    Atrs,           \* bound: values of the average true range
    Distances,      \* bound: stop distances of the signals
    Ratios,         \* bound: reward-to-risk ratios of the signals
    SignalDirs,     \* bound: directions of the signals
    MinRr,          \* config.min_rr
    StepsPerLot,    \* volume steps in a lot
    BaseRisk,       \* base_risk_pct, twentieths of a basis point
    MaxPositions,   \* config.max_positions
    PipsPerUnit,    \* pips in one unit of price
    MaxDdBp,        \* the replayer's max_dd_limit_pct
    LossHalt,       \* the replayer's consecutive_loss_halt
    BarsPerDay, MaxBars,
    MaxSignals,     \* bound: open signals on a bar
    MaxOrders       \* bound: orders of a run

ASSUME BacktestConstants ==
    /\ StartBalance \in Nat \ {0} /\ {HalfSpread, Slip, Commission} \subseteq Nat
    /\ Modes \subseteq {"engine", "replay"} /\ SignalDirs \subseteq Dirs
    /\ {MaxPositions, BarsPerDay, MaxBars, PipsPerUnit, StepsPerLot} \subseteq Nat \ {0}
    /\ {MaPeriod, MaxRolling, MaxHistory, PauseAfter, MaxLot} \subseteq Nat \ {0}
    /\ Moves \subseteq Int /\ Atrs \cup Distances \cup Ratios \subseteq Nat
    /\ {BaseRisk, TrailMult, MaxOrders, MaxSignals} \subseteq Nat

VARIABLES
    mode,       \* the driver
    pc,         \* where in the bar it is
    bar,        \* index of the bar, from 1
    atr,        \* the average true range on this bar
    broker,     \* MockBroker
    meta,       \* open_meta: what the driver knows of each open position
    reports,    \* close reports of this bar's fills, not yet booked
    todo,       \* positions the current loop has still to visit
    orders,     \* to_execute
    seen,       \* account.current_equity (engine), account_equity (replayer)
    losses,     \* consecutive losses
    killed,     \* the drift halt, or the replayer's drawdown, tripped the switch
    dayOpen,    \* day_pnl_at_open
    tracker,    \* ConsistencyTracker
    curve,      \* EquityCurveFilter.equity_history
    window,     \* DriftDetector.rolling_trades
    segments,   \* PerformanceLedger.segments
    trades      \* trade_results

vars == <<mode, pc, bar, atr, broker, meta, reports, todo, orders, seen, losses, killed,
          dayOpen, tracker, curve, window, segments, trades>>

learned == <<curve, window, segments>>

IsEngine == mode = "engine"

Init ==
    /\ mode \in Modes /\ pc = "bar" /\ bar = 0 /\ atr = 0
    /\ broker = NewBroker /\ meta = <<>> /\ reports = <<>> /\ todo = {} /\ orders = <<>>
    /\ seen = StartBalance /\ dayOpen = StartBalance
    /\ losses = 0 /\ killed = FALSE
    /\ tracker = NewTracker /\ curve = <<>> /\ window = <<>>
    /\ segments = [h \in Heads |-> NewSegment] /\ trades = <<>>

-----------------------------------------------------------------------------
(* Booking a closed position: finalize_closed_position and the replayer's  *)
(* own version of it.                                                      *)

\* Mutation of NetPnl: the commission paid at the entry is forgotten.
NetPnlNoEntry(m, report) == m.exitPnl + report.pnl - m.exitCommission - report.commission

NetPnl(m, report) ==
    m.exitPnl + report.pnl - m.entryCommission - m.exitCommission - report.commission

InitialRisk(m) == Distance(m.entry, m.initialSl) * m.initialLots

\* Hundredths of R, rounded down.
RMultiple(m, report) ==
    IF InitialRisk(m) > 0 THEN (100 * NetPnl(m, report)) \div InitialRisk(m) ELSE 0

Won(m, report) == NetPnl(m, report) > 0

LossesAfter(m, report) == IF Won(m, report) THEN 0 ELSE losses + 1

LogTrade(m, report) ==
    trades' = Append(trades, [pnl |-> NetPnl(m, report), won |-> Won(m, report)])

\* finalize_closed_position; equity is the broker's after the close.
FinalizeEngine(m, report, equity) ==
    /\ LogTrade(m, report)
    /\ losses' = LossesAfter(m, report)
    /\ seen' = equity
    /\ curve' = Slide(curve, equity, MaPeriod)
    /\ window' = Slide(window, [won |-> Won(m, report), r |-> RMultiple(m, report)], MaxRolling)
    /\ segments' = [segments EXCEPT
           ![m.head] = RecordSegment(@, Won(m, report), RMultiple(m, report))]

\* The replayer keeps the streak and the log, and learns nothing.
FinalizeReplay(m, report) ==
    /\ LogTrade(m, report)
    /\ losses' = LossesAfter(m, report)
    /\ UNCHANGED <<seen, learned>>

Finalize(m, report, equity) ==
    IF IsEngine THEN FinalizeEngine(m, report, equity) ELSE FinalizeReplay(m, report)

-----------------------------------------------------------------------------
(* A new bar.                                                              *)

Day(b) == (b - 1) \div BarsPerDay

\* The consistency tracker is told the finished day's change in equity.
RollDay ==
    IF IsEngine /\ (bar = 0 \/ Day(bar') # Day(bar))
    THEN /\ tracker' = IF bar = 0 THEN tracker ELSE RecordDay(tracker, broker.equity - dayOpen)
         /\ dayOpen' = broker.equity
    ELSE UNCHANGED <<tracker, dayOpen>>

NextBar(move, range) ==
    /\ pc = "bar" /\ bar < MaxBars
    /\ bar' = bar + 1 /\ atr' = range
    /\ broker' = SetPrice(broker, move + (IF bar = 0 THEN 0 ELSE broker.bid + HalfSpread))
    /\ seen' = IF IsEngine THEN broker.equity ELSE seen
    /\ RollDay
    /\ pc' = "fills"
    /\ UNCHANGED <<mode, meta, reports, todo, orders, losses, killed, learned, trades>>

Fills ==
    /\ pc = "fills"
    /\ reports' = [id \in Due(broker) |-> DueReport(broker, id)]
    /\ broker' = CheckSlTp(broker)
    /\ pc' = "book"
    /\ UNCHANGED <<mode, bar, atr, meta, todo, orders, seen, losses, killed, dayOpen, tracker,
                   learned, trades>>

\* The reports are booked one after the other, after all closes.
Book(id) ==
    /\ pc = "book"
    /\ reports' = Without(reports, {id})
    /\ meta' = Without(meta, {id})
    /\ Finalize(meta[id], reports[id], broker.equity)
    /\ UNCHANGED <<mode, pc, bar, atr, broker, todo, orders, killed, dayOpen, tracker>>

Booked ==
    /\ pc = "book" /\ reports = <<>>
    /\ IF IsEngine THEN pc' = "manage" /\ todo' = DOMAIN meta
       ELSE pc' = "gates" /\ UNCHANGED todo
    /\ UNCHANGED <<mode, bar, atr, broker, meta, reports, orders, seen, losses, killed, dayOpen,
                   tracker, learned, trades>>

-----------------------------------------------------------------------------
(* manage_open_positions.                                                  *)

Snapshot(m) ==
    [dir |-> m.dir, entry |-> m.entry, price |-> ExitSide(broker, m), sl |-> m.sl,
     opened |-> m.opened, mfe |-> m.mfe, partial |-> m.partial,
     breakeven |-> m.breakeven, trailing |-> m.trailing]

\* sync_position_meta
Synced(m, pos) ==
    [m EXCEPT !.mfe = pos.mfe, !.partial = pos.partial,
              !.breakeven = pos.breakeven, !.trailing = pos.trailing]

\* Half of the lots, a half step going to the even neighbour.
PartialLots(lots) ==
    LET half == lots \div 2
    IN  IF lots % 2 = 1 /\ half % 2 = 1 THEN half + 1 ELSE half

\* Mutation of ApplyMove: the stop moves at the broker only.
ApplyMoveBroker(st, id, sl) == [st EXCEPT !.b = ModifyStop(st.b, id, sl)]

ApplyMove(st, id, sl) == [st EXCEPT !.b = ModifyStop(st.b, id, sl), !.m.sl = sl]

\* A partial that rounds to nothing is skipped; the position counts as having
\* taken it all the same.
ApplyPartial(st, id) ==
    LET lots   == PartialLots(st.m.lots)
        report == CloseReport(st.b, id, lots)
        after  == ClosePosition(st.b, id, lots)
    IN  IF lots <= 0 \/ lots >= st.m.lots THEN st
        ELSE [b |-> after, equity |-> after.equity,
              m |-> [st.m EXCEPT !.lots = @ - lots,
                                 !.exitPnl = @ + report.pnl,
                                 !.exitCommission = @ + report.commission]]

\* The actions of one call on one position, in their order.
Applied(st, asked, stop, id) ==
    LET evened  == IF asked.breakeven THEN ApplyMove(st, id, st.m.entry) ELSE st
        halved  == IF asked.partial THEN ApplyPartial(evened, id) ELSE evened
        secured == IF asked.also THEN ApplyMove(halved, id, st.m.entry) ELSE halved
    IN  IF asked.trail THEN ApplyMove(secured, id, stop) ELSE secured

Manage(id) ==
    LET pos    == Snapshot(meta[id])
        asked  == ManagePosition(pos, bar, atr)
        synced == Synced(meta[id], asked.pos)
        done   == Applied([b |-> broker, m |-> synced, equity |-> seen], asked,
                          TrailStop(pos, atr), id)
    IN  /\ pc = "manage" /\ id \in todo
        /\ todo' = todo \ {id}
        /\ IF asked.closeAll
           THEN /\ broker' = ClosePosition(broker, id, broker.positions[id].lots)
                /\ meta' = Without(meta, {id})
                /\ Finalize(synced, CloseReport(broker, id, broker.positions[id].lots),
                            broker'.equity)
           ELSE /\ broker' = done.b
                /\ meta' = [meta EXCEPT ![id] = done.m]
                /\ seen' = done.equity
                /\ UNCHANGED <<losses, learned, trades>>
        /\ UNCHANGED <<mode, pc, bar, atr, reports, orders, killed, dayOpen, tracker>>

Managed ==
    /\ pc = "manage" /\ todo = {}
    /\ pc' = "gates"
    /\ UNCHANGED <<mode, bar, atr, broker, meta, reports, todo, orders, seen, losses, killed,
                   dayOpen, tracker, learned, trades>>

-----------------------------------------------------------------------------
(* The gates.  A blocked bar still feeds the heads, whose signals are lost.*)

Drawdown == 10000 * (StartBalance - broker.equity)

\* The replayer's gates up to the drawdown, in its order.
LossHalted == losses >= LossHalt
AtDrawdown == Drawdown >= MaxDdBp * StartBalance

\* The switch the engine trips on drift and the replayer on drawdown; nothing
\* resets it within a run.
Trip ==
    /\ pc = "gates" /\ ~killed
    /\ IF IsEngine THEN DriftHalts(window) ELSE ~LossHalted /\ AtDrawdown
    /\ killed' = TRUE
    /\ pc' = "bar"
    /\ UNCHANGED <<mode, bar, atr, broker, meta, reports, todo, orders, seen, losses, dayOpen,
                   tracker, learned, trades>>

EngineMayEnter == ~killed /\ ~DriftHalts(window) /\ ~IsPaused(tracker)

\* The open positions are counted once per bar, before the heads.
ReplayMayEnter ==
    ~killed /\ ~LossHalted /\ ~AtDrawdown /\ Cardinality(Open(broker)) < MaxPositions

\* Blocked by a gate above, or by one whose input is not modelled.
Blocked ==
    /\ pc = "gates"
    /\ pc' = "bar"
    /\ UNCHANGED <<mode, bar, atr, broker, meta, reports, todo, orders, seen, losses, killed,
                   dayOpen, tracker, learned, trades>>

Signals == [head : Heads, dir : SignalDirs, pips : Distances, rr : Ratios]

Mid == broker.bid + HalfSpread

\* The heads of the engine may also ask to close what they opened.
EvaluateEngine(closers, signals) ==
    /\ pc = "gates" /\ IsEngine /\ EngineMayEnter
    /\ todo' = {id \in DOMAIN meta : meta[id].head \in closers}
    /\ orders' = signals
    /\ pc' = "closes"
    /\ UNCHANGED <<mode, bar, atr, broker, meta, reports, seen, losses, killed, dayOpen,
                   tracker, learned, trades>>

\* Close signals are dropped, and there is no filter but the ratio's.
EvaluateReplay(signals) ==
    /\ pc = "gates" /\ ~IsEngine /\ ReplayMayEnter
    /\ orders' = signals
    /\ seen' = broker.equity
    /\ pc' = "orders"
    /\ UNCHANGED <<mode, bar, atr, broker, meta, reports, todo, losses, killed, dayOpen,
                   tracker, learned, trades>>

HeadClose(id) ==
    /\ pc = "closes" /\ id \in todo
    /\ todo' = todo \ {id}
    /\ broker' = ClosePosition(broker, id, broker.positions[id].lots)
    /\ meta' = Without(meta, {id})
    /\ Finalize(meta[id], CloseReport(broker, id, broker.positions[id].lots), broker'.equity)
    /\ UNCHANGED <<mode, pc, bar, atr, reports, orders, killed, dayOpen, tracker>>

PassesFilter(s) == s.rr >= MinRr /\ s.pips >= 2 /\ SegmentAllowed(segments[s.head])

\* Slots left once the heads' closes are through.
Slots == LET open == Cardinality(Open(broker))
         IN  IF open < MaxPositions THEN MaxPositions - open ELSE 0

\* weak: the signals whose confidence is too low.  The others keep their order.
Filter(weak) ==
    LET passed == {i \in DOMAIN orders : PassesFilter(orders[i]) /\ orders[i] \notin weak}
        number == Cardinality(passed)
    IN  /\ pc = "closes" /\ todo = {}
        /\ \E nth \in [1..number -> passed] :
               /\ \A i, j \in 1..number : i < j => nth[i] < nth[j]
               /\ orders' = [k \in 1..(IF number < Slots THEN number ELSE Slots) |->
                                 orders[nth[k]]]
        /\ pc' = "orders"
        /\ UNCHANGED <<mode, bar, atr, broker, meta, reports, todo, seen, losses, killed, dayOpen,
                       tracker, learned, trades>>

-----------------------------------------------------------------------------
(* Sizing and execution.                                                   *)

Quarters == LET c == CurveMultiplier(curve) d == DriftMultiplier(window)
            IN  IF c < d THEN c ELSE d

\* The least of the equity-curve and drift multipliers, times the segment's.
Risk(s) ==
    Clamped(IF IsEngine THEN (BaseRisk * Quarters * SegmentMultiplier(segments[s.head])) \div 20
            ELSE BaseRisk)

CostPerStep == 2 * HalfSpread + Commission

Sized(s) == CanSize(seen, Risk(s), s.pips, CostPerStep, StepsPerLot * CostPerStep)

Lots(s) == LotSize(seen, Risk(s), s.pips, CostPerStep)

\* Net of the spread, which is in pips where the distances are in price.
NetRrOk(s) ==
    LET spread == 2 * HalfSpread * PipsPerUnit
    IN  10 * (s.rr * s.pips - spread) >= 12 * (s.pips + spread)

StopOf(s)   == IF s.dir = "Buy" THEN Mid - s.pips ELSE Mid + s.pips
TargetOf(s) == IF s.dir = "Buy" THEN Mid + s.rr * s.pips ELSE Mid - s.rr * s.pips

NewMeta(s, lots) ==
    [head |-> s.head, dir |-> s.dir, entry |-> FillPrice(broker, s.dir),
     initialSl |-> StopOf(s), sl |-> StopOf(s), lots |-> lots, initialLots |-> lots,
     entryCommission |-> Commission * lots, exitPnl |-> 0, exitCommission |-> 0,
     opened |-> bar, mfe |-> 0, partial |-> FALSE, breakeven |-> FALSE, trailing |-> FALSE]

AcceptableToEngine(s) == Sized(s) /\ NetRrOk(s)
AcceptableToReplay(s) == s.rr >= MinRr /\ Sized(s)

Acceptable(s) == IF IsEngine THEN AcceptableToEngine(s) ELSE AcceptableToReplay(s)

Order ==
    LET s == Head(orders) IN
    /\ pc = "orders" /\ orders # <<>> /\ Acceptable(s) /\ broker.nextId <= MaxOrders
    /\ orders' = Tail(orders)
    /\ broker' = SendOrder(broker, s.dir, Lots(s), StopOf(s), TargetOf(s))
    /\ meta' = [id \in DOMAIN meta \cup {broker.nextId} |->
                    IF id = broker.nextId THEN NewMeta(s, Lots(s)) ELSE meta[id]]
    /\ UNCHANGED <<mode, pc, bar, atr, reports, todo, seen, losses, killed, dayOpen, tracker,
                   learned, trades>>

\* Not acceptable, or refused by the compliance manager of the engine.
Reject ==
    /\ pc = "orders" /\ orders # <<>>
    /\ IsEngine \/ ~Acceptable(Head(orders)) \/ broker.nextId > MaxOrders
    /\ orders' = Tail(orders)
    /\ UNCHANGED <<mode, pc, bar, atr, broker, meta, reports, todo, seen, losses, killed,
                   dayOpen, tracker, learned, trades>>

BarDone ==
    /\ pc = "orders" /\ orders = <<>>
    /\ pc' = "bar"
    /\ UNCHANGED <<mode, bar, atr, broker, meta, reports, todo, orders, seen, losses, killed,
                   dayOpen, tracker, learned, trades>>

-----------------------------------------------------------------------------
(* The end of the run.                                                     *)

LastBar ==
    /\ pc = "bar" /\ bar = MaxBars
    /\ tracker' = IF IsEngine THEN RecordDay(tracker, broker.equity - dayOpen) ELSE tracker
    /\ todo' = Open(broker)
    /\ pc' = "closing"
    /\ UNCHANGED <<mode, bar, atr, broker, meta, reports, orders, seen, losses, killed, dayOpen,
                   learned, trades>>

\* The replayer logs these trades but no longer counts their losses.
FinalizeAtEnd(m, report) == LogTrade(m, report) /\ UNCHANGED <<losses, seen, learned>>

CloseRemaining(id) ==
    /\ pc = "closing" /\ id \in todo
    /\ todo' = todo \ {id}
    /\ broker' = ClosePosition(broker, id, broker.positions[id].lots)
    /\ meta' = Without(meta, {id})
    /\ LET report == CloseReport(broker, id, broker.positions[id].lots) IN
       IF IsEngine THEN Finalize(meta[id], report, broker'.equity)
       ELSE FinalizeAtEnd(meta[id], report)
    /\ UNCHANGED <<mode, pc, bar, atr, reports, orders, killed, dayOpen, tracker>>

Finish ==
    /\ pc = "closing" /\ todo = {}
    /\ pc' = "done"
    /\ UNCHANGED <<mode, bar, atr, broker, meta, reports, todo, orders, seen, losses, killed,
                   dayOpen, tracker, learned, trades>>

SignalLists == UNION {[1..n -> Signals] : n \in 0..MaxSignals}

Next ==
    \/ \E move \in Moves, range \in Atrs : NextBar(move, range)
    \/ Fills
    \/ \E id \in DOMAIN reports : Book(id)
    \/ Booked
    \/ \E id \in todo : Manage(id)
    \/ Managed \/ Trip \/ Blocked
    \/ \E closers \in SUBSET Heads, signals \in SignalLists : EvaluateEngine(closers, signals)
    \/ \E signals \in SignalLists : EvaluateReplay(signals)
    \/ \E id \in todo : HeadClose(id)
    \/ \E weak \in SUBSET ToSet(orders) : Filter(weak)
    \/ Order \/ Reject \/ BarDone
    \/ LastBar
    \/ \E id \in todo : CloseRemaining(id)
    \/ Finish

Spec == Init /\ [][Next]_vars

-----------------------------------------------------------------------------
(* Properties                                                              *)

\* What an open position has paid and realised so far.
Booking(m) == m.exitPnl - m.exitCommission - m.entryCommission

\* The broker's balance is explained to the cent: the starting balance, the
\* profit of the booked trades, and what the open positions have paid and
\* realised so far.  Partial closes, commissions on both sides and fills waiting
\* to be booked all pass through here.
LedgerAgrees ==
    broker.balance = StartBalance
        + SumFunction([i \in DOMAIN trades |-> trades[i].pnl])
        + SumFunction([id \in DOMAIN meta |-> Booking(meta[id])])
        + SumFunction([id \in DOMAIN reports |-> Net(reports[id])])

\* The driver and the broker hold the same positions, with the same volume and
\* the same stop, through partial closes, stop moves and fills.
BooksAgree ==
    /\ DOMAIN meta = Open(broker) \cup DOMAIN reports
    /\ \A id \in Open(broker) :
           /\ meta[id].lots = broker.positions[id].lots
           /\ meta[id].sl = broker.positions[id].sl

\* A stop is never wider after a bar than before it: whatever breakeven move,
\* partial and trail one call of the trade manager strings together.
StopTightens ==
    [][\A id \in Open(broker) \cap Open(broker)' :
           LET before == broker.positions[id].sl
               after  == broker'.positions[id].sl
           IN  IF meta[id].dir = "Buy" THEN after >= before ELSE after <= before]_vars

\* From some day on no day won, and enough of them lost.
RedDays(days) ==
    \E i \in DOMAIN days :
        /\ \A j \in i..Len(days) : days[j] <= 0
        /\ Cardinality({j \in i..Len(days) : days[j] < 0}) >= PauseAfter

\* The engine opens nothing once the last days that moved its equity were all
\* losing ones, as the recorded days show them, nor once the drift detector has
\* tripped the switch: a flat day in between changes nothing.
NothingOpensWhilePaused ==
    [][IsEngine /\ (killed \/ RedDays(tracker.history))
        => broker'.nextId = broker.nextId]_vars

\* Violated: "Step 0: Update account equity from broker" (engine.rs): the broker
\* does not restate its equity when the price moves, so the gates see the
\* equity of the last booking.
GatesSeeTheMarket ==
    IsEngine /\ pc = "gates" => seen = broker.balance + Unrealized(broker)

\* Violated: "never widen" (trade_manager.rs): the trail is compared with the
\* stop before the breakeven move of the same call and may undo it.
BreakevenKept ==
    \A id \in DOMAIN meta :
        meta[id].breakeven =>
            IF meta[id].dir = "Buy" THEN meta[id].sl >= meta[id].entry
            ELSE meta[id].sl <= meta[id].entry
=============================================================================
