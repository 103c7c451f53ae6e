----------------------------- MODULE EntryGate ------------------------------
(***************************************************************************)
(* From an Open signal to a tracked position (phase1.rs process_live_bar,  *)
(* gate.rs, compliance.rs, correlation.rs, execution.rs): the checks one   *)
(* live process makes, the clocks they are made against, and what the      *)
(* venue holds in the end.                                                 *)
(*                                                                         *)
(* A bar carries the time at which it STARTED and is handled by the poll   *)
(* of the first tick after its end; the checks of compliance.rs compare    *)
(* that start with fill times of the venue.  A poll that closes no bar     *)
(* only replaces spread and tick time, which the closing poll replaces     *)
(* again, so only closing polls are actions.                               *)
(*                                                                         *)
(* The process trades one symbol, so two positions correlate (with 1.0)    *)
(* exactly when their directions agree; it never feeds the rolling         *)
(* estimator or the volatility halt, and reports unrealized_pnl_pct = 0,   *)
(* so ReduceCluster and VolatilityHalt never occur.  Every order risks the *)
(* configured percentage, so the checks on a jump of the risk compare it   *)
(* with itself.  Signals are also refused for reasons that no action here  *)
(* needs (switch, day, floor, sizing, lot jump: KillSwitch, DailyPnl,      *)
(* RiskStack): such a signal changes nothing and is no step.  Whether a    *)
(* position is in profit enough for a pyramid add is left open.  Positions *)
(* are numbered in the order of their fills.                               *)
(***************************************************************************)
EXTENDS Integers, FiniteSets, Sequences, FirmProgram

CONSTANTS
    Heads,             \* the strategy heads
    Dirs,              \* Buy and Sell: no check tells which is which
    ScalpHeads,        \* ScalpM1 and ScalpM5
    NewsHeads,         \* News
    Firms,             \* firm files: fragments found in name and challenge_type
    NewsTradingAllowed,\* firm.news_trading_allowed
    MaxPositions,      \* firm.max_positions
    BaseRiskPct,       \* risk.base_risk_pct, hundredths of a percent
    MaxLayers,         \* pyramid.max_layers; 0 stands for pyramid.enabled = false
    BlackoutWindows,   \* pairs <<starts_at, ends_at>>
    Shapes,            \* the signals' distances <<tp, sl>>, tenths of a pip
    Spreads,           \* spreads the feed shows, tenths of a pip
    TypicalSpread,     \* typical_spread_pips(symbol), tenths of a pip
    PipsPerUnit,       \* pips in a price of 1.0: 1 / pip_size_for(symbol)
    BarSecs,           \* timeframe_secs
    Step, MaxTime,     \* bound: the clock's grain and its last value
    MaxFills,          \* bound: positions the venue ever opens
    MaxRestarts        \* bound: restarts of the process

ASSUME GateAssumption ==
    /\ IsFiniteSet(Heads) /\ ScalpHeads \subseteq Heads /\ NewsHeads \subseteq Heads
    /\ Firms \subseteq [name : SUBSET Fragments, type : SUBSET Fragments]
    /\ NewsTradingAllowed \in BOOLEAN
    /\ MaxPositions \in Nat /\ BaseRiskPct \in Nat /\ MaxLayers \in Nat
    /\ BlackoutWindows \subseteq Int \X Int
    /\ Shapes \subseteq Nat \X Nat /\ Spreads \subseteq Nat
    /\ TypicalSpread \in Nat /\ PipsPerUnit \in Nat
    /\ BarSecs \in Nat \ {0} /\ Step \in Nat \ {0} /\ MaxTime \in Nat
    /\ MaxFills \in Nat /\ MaxRestarts \in Nat

None == 0
NoBar == -BarSecs
NoOrder == [head |-> None, dir |-> None, add |-> FALSE]
MaxClusterExposure == 2
KeepSecs == 3600
StalePriceSecs == 2

VARIABLES
    program,   \* the rule set of the firm the process was started for
    now,       \* the venue's clock, which the ticks carry
    pc,        \* "idle", "bar" and "adds" (in process_live_bar), "sent" (in
               \* send_order)
    bar,       \* timestamp of the last bar handled: its start
    spread,    \* the spread of the tick that closed it
    tickAt,    \*   and its time
    order,     \* the order in send_order
    tracked,   \* positions_by_head
    layers,    \* layers each position's pyramid still allows; none recovered has one
    adding,    \* heads_with_pyramid: positions up for an add at this bar
    recent,    \* compliance.recent_entries
    rows,      \* positions the trade database knows
    fills,     \* everything the venue ever filled: head, direction, time, and
               \* whether it was a pyramid add
    open,      \* positions open at the venue
    lost,      \* ghost: positions that were open and not tracked
    restarts

clockVars == <<now, bar, spread, tickAt>>
pyramidVars == <<layers, adding>>
procVars  == <<pc, order, tracked, recent, pyramidVars>>
venueVars == <<rows, fills, open, lost>>
vars == <<program, clockVars, procVars, venueVars, restarts>>

Config  == ConfigFor(program)
Enabled == program # "Disabled"

Ids == 1..Len(fills)
Held == {h \in Heads : tracked[h] # None}
Book == {tracked[h] : h \in Held}
Forgotten == [h \in Heads |-> None]
NoLayers == [h \in Heads |-> 0]

Init ==
    /\ program \in {DetectProgram(f.name, f.type) : f \in Firms}
    /\ now = 0 /\ pc = "idle" /\ bar = NoBar
    /\ spread = TypicalSpread /\ tickAt = 0
    /\ order = NoOrder /\ tracked = Forgotten /\ recent = {}
    /\ layers = NoLayers /\ adding = {}
    /\ rows = {} /\ fills = <<>> /\ open = {} /\ lost = {}
    /\ restarts = 0

-----------------------------------------------------------------------------
(* The checks.                                                             *)

\* (tp - cost) / (sl + cost) >= 1.2
NetRROver(shape, cost) ==
    shape[2] + cost # 0 /\ 10 * (shape[1] - cost) >= 12 * (shape[2] + cost)

\* adjusted_rr subtracts the NUMBER of pips from a distance in price.
AdjustedRROk(shape, s) == NetRROver(shape, s * PipsPerUnit)

\* What the gate asks of the ExecutionEngine: ratio, spike, and a tick that
\* may be half a second old.
GateExecutionOk(shape) ==
    /\ AdjustedRROk(shape, spread)
    /\ spread <= 2 * TypicalSpread
    /\ now - tickAt < 1

\* A signal has passed the firm's spread limit and another check of the age
\* before: it compares the START of the bar with the tick that came after
\* its end.
ExecutionOk(shape) ==
    /\ GateExecutionOk(shape)
    /\ Config.max_spread_pips # NoLimit => spread <= Config.max_spread_pips
    /\ bar - tickAt <= StalePriceSecs

Aligned(d) == {i \in Book : fills[i].dir = d}
\* Mutation of CorrelationOk: the new position is not counted.
CorrelationOkLate(d) == Cardinality(Aligned(d)) <= MaxClusterExposure

CorrelationOk(d) == Cardinality(Aligned(d)) < MaxClusterExposure

HeadOk(h) ==
    /\ h \notin ScalpHeads
    /\ h \in NewsHeads => program \notin FundingPips /\ NewsTradingAllowed

BlackoutOk(t) == \A w \in BlackoutWindows : ~(w[1] <= t /\ t <= w[2])

\* Mutation of HedgeOk: the entries remembered stand for the exposure.
HedgeOkRecent(d) == \A i \in recent \cap Book : fills[i].dir = d

HedgeOk(d) == \A i \in Book : fills[i].dir = d

\* Mutation of PacingOk: only the entries of the last minute are counted.
PacingOkCount(t) ==
    Cardinality({i \in recent : t - fills[i].at < 60})
      < Config.max_entries_per_minute

\* The latest entry decides the first check; times grow with the number of
\* the entry, so it is the one no other is later than.
PacingOk(t) ==
    /\ \A i \in recent : t - fills[i].at >= Config.min_seconds_between_entries
    /\ Cardinality({i \in recent : t - fills[i].at < 60})
         < Config.max_entries_per_minute

\* An open position that was entered lately counts as exposure and as entry.
SameIdea(ids, d, t) ==
    {i \in ids : /\ fills[i].dir = d
                 /\ t - fills[i].at <= Config.same_trade_idea_window_secs}

\* Mutation of IdeaOk: the new entry alone is compared with the cap.
IdeaOkAlone(d, t) ==
    program = "FundingPipsZero" => BaseRiskPct <= Config.max_trade_idea_risk_pct

IdeaOk(d, t) ==
    program = "FundingPipsZero" =>
        BaseRiskPct * (Cardinality(SameIdea(Book, d, t))
                       + Cardinality(SameIdea(recent, d, t)) + 1)
          <= Config.max_trade_idea_risk_pct

\* evaluate_entry
Compliant(h, d, t) ==
    Enabled => /\ HeadOk(h) /\ BlackoutOk(t) /\ HedgeOk(d)
               /\ PacingOk(t) /\ IdeaOk(d, t)

\* prune: what is older leaves at the front, and the oldest are in front.
Pruned(t) == {i \in recent : t - fills[i].at <= KeepSecs}

-----------------------------------------------------------------------------
(* The bar.                                                                *)

\* reconcile_open_positions compares two counts and may forget the book.
BarCloses ==
    /\ pc = "idle"
    /\ pc' = "bar"
    /\ now' = now /\ tickAt' = now
    /\ spread' \in Spreads
    /\ bar' \in {b \in NoBar..now : b % BarSecs = 0 /\ b > bar /\ b + BarSecs <= now}
    /\ \/ /\ open = {} \/ Cardinality(open) < Cardinality(Held)
          /\ tracked' = Forgotten
          /\ layers' = NoLayers
          /\ lost' = lost \cup (open \cap Book)
       \/ UNCHANGED <<tracked, layers, lost>>
    /\ UNCHANGED <<program, order, adding, recent, rows, fills, open, restarts>>

\* An Open signal that reaches the compliance check prunes the entries there,
\* whether it is refused or leaves as an order.
OpenSignal(h, d, shape) ==
    /\ pc = "bar"
    /\ Cardinality(Held) < MaxPositions
    /\ tracked[h] = None
    /\ ExecutionOk(shape)
    /\ CorrelationOk(d)
    /\ recent' = Pruned(bar)
    /\ \/ /\ Compliant(h, d, bar)
          /\ pc' = "sent"
          /\ order' = [head |-> h, dir |-> d, add |-> FALSE]
       \/ /\ ~Compliant(h, d, bar)
          /\ UNCHANGED <<pc, order>>
    /\ UNCHANGED <<program, clockVars, tracked, pyramidVars, venueVars, restarts>>

Filled == Append(fills, [head |-> order.head, dir |-> order.dir,
                         at |-> now, add |-> order.add])

NewId == Len(fills) + 1

\* The write to the database may fail; the position is tracked all the same.
OrderFills ==
    /\ pc = "sent" /\ ~order.add /\ Len(fills) < MaxFills
    /\ pc' = "bar" /\ order' = NoOrder
    /\ fills' = Filled
    /\ open' = open \cup {NewId}
    /\ tracked' = [tracked EXCEPT ![order.head] = NewId]
    /\ layers' = [layers EXCEPT ![order.head] = MaxLayers]
    /\ rows' \in {rows, rows \cup {NewId}}
    /\ recent' = IF Enabled
                 THEN {i \in recent : now - fills[i].at <= KeepSecs} \cup {NewId}
                 ELSE recent
    /\ UNCHANGED <<program, clockVars, adding, lost, restarts>>

\* A call that times out or fails may have been filled.
SilentFill ==
    \/ /\ Len(fills) < MaxFills
       /\ fills' = Filled
       /\ open' = open \cup {NewId}
    \/ UNCHANGED <<fills, open>>

OrderErrs ==
    /\ pc = "sent" /\ ~order.add
    /\ pc' = "bar" /\ order' = NoOrder
    /\ SilentFill
    /\ lost' = lost \cup (open' \ open)
    /\ UNCHANGED <<program, clockVars, tracked, pyramidVars, recent, rows, restarts>>

\* A Close signal, or the flattening at the end of the bar.  A close that
\* fails puts the position back and is no step.
HeadCloses(h) ==
    /\ pc = "bar"
    /\ tracked[h] \in open
    /\ tracked' = [tracked EXCEPT ![h] = None]
    /\ layers' = [layers EXCEPT ![h] = 0]
    /\ open' = open \ {tracked[h]}
    /\ UNCHANGED <<program, clockVars, pc, order, adding, recent, rows, fills, lost,
                   restarts>>

\* After the signals: the positions whose pyramid takes another layer.
LookForAdds ==
    /\ pc = "bar"
    /\ pc' = "adds"
    /\ adding' \in (SUBSET {h \in Held : layers[h] > 0}) \ {{}}
    /\ UNCHANGED <<program, clockVars, order, tracked, layers, recent, venueVars,
                   restarts>>

\* create_pyramid_layer, then the gate: a refusal, before the compliance check
\* or in it, has used the layer up.
AddSignal(h, shape) ==
    /\ pc = "adds" /\ h \in adding /\ tracked[h] # None
    /\ adding' = adding \ {h}
    /\ layers' = [layers EXCEPT ![h] = @ - 1]
    /\ LET d == fills[tracked[h]].dir IN
       \/ /\ GateExecutionOk(shape) /\ CorrelationOk(d) /\ Compliant(h, d, bar)
          /\ pc' = "sent" /\ recent' = Pruned(bar)
          /\ order' = [head |-> h, dir |-> d, add |-> TRUE]
       \/ /\ recent' \in {recent, Pruned(bar)}
          /\ UNCHANGED <<pc, order>>
    /\ UNCHANGED <<program, clockVars, tracked, venueVars, restarts>>

\* Whatever the call answers, an add is neither recorded as an entry nor
\* tracked nor written to the database.
AddReturns ==
    /\ pc = "sent" /\ order.add
    /\ pc' = "adds" /\ order' = NoOrder
    /\ SilentFill
    /\ lost' = lost \cup (open' \ open)
    /\ UNCHANGED <<program, clockVars, tracked, pyramidVars, recent, rows, restarts>>

BarDone ==
    /\ pc \in {"bar", "adds"} /\ adding = {}
    /\ pc' = "idle"
    /\ UNCHANGED <<program, clockVars, order, tracked, pyramidVars, recent, venueVars,
                   restarts>>

-----------------------------------------------------------------------------
(* Everybody else.                                                         *)

Pass ==
    /\ now + Step <= MaxTime
    /\ now' = now + Step
    /\ UNCHANGED <<program, bar, spread, tickAt, procVars, venueVars, restarts>>

\* A stop loss, a take profit, a hand at the terminal.
VenueCloses(i) ==
    /\ i \in open
    /\ open' = open \ {i}
    /\ UNCHANGED <<program, clockVars, procVars, rows, fills, lost, restarts>>

\* recover_positions: the open positions that have a row, one per head, the
\* latest.  The compliance manager starts with no entries.
Latest(S) == CHOOSE i \in S : \A j \in S : j <= i
Known(h) == {i \in rows \cap open : fills[i].head = h}
Recovered ==
    [h \in Heads |-> IF Known(h) = {} THEN None ELSE Latest(Known(h))]

\* Reconcile or the read of the rows may fail: nothing is recovered.  A crash
\* inside send_order is OrderErrs or AddReturns followed by Restart.
Restart ==
    /\ restarts < MaxRestarts
    /\ restarts' = restarts + 1
    /\ pc # "sent"
    /\ pc' = "idle"
    /\ tracked' \in {Recovered, Forgotten}
    /\ layers' = NoLayers /\ adding' = {}
    /\ recent' = {}
    /\ lost' = lost \cup {i \in open : \A h \in Heads : tracked'[h] # i}
    /\ UNCHANGED <<program, clockVars, order, rows, fills, open>>

Next ==
    \/ BarCloses
    \/ \E h \in Heads, d \in Dirs, shape \in Shapes : OpenSignal(h, d, shape)
    \/ OrderFills \/ OrderErrs
    \/ \E h \in Heads : HeadCloses(h)
    \/ LookForAdds
    \/ \E h \in Heads, shape \in Shapes : AddSignal(h, shape)
    \/ AddReturns
    \/ BarDone \/ Pass
    \/ \E i \in Ids : VenueCloses(i)
    \/ Restart

Spec == Init /\ [][Next]_vars

-----------------------------------------------------------------------------
(* Properties.                                                             *)

Orders == [head : Heads, dir : Dirs, add : BOOLEAN]
Fills == [head : Heads, dir : Dirs, at : Nat, add : BOOLEAN]

\* The process's state is well formed: whatever it tracks, paces or finds
\* again in its database is a position the venue filled (positions_by_head,
\* recent_entries, recover_positions).
TypeOK ==
    /\ program \in Programs
    /\ now \in Nat /\ tickAt \in Nat /\ bar \in Int
    /\ pc \in {"idle", "bar", "adds", "sent"}
    /\ spread \in Spreads \cup {TypicalSpread}
    /\ order \in {NoOrder} \cup Orders
    /\ pc = "sent" => order \in Orders
    /\ fills \in Seq(Fills)
    /\ layers \in [Heads -> 0..MaxLayers]
    /\ adding \subseteq {h \in Heads : layers[h] > 0}
    /\ adding # {} => pc = "adds" \/ (pc = "sent" /\ order.add)
    /\ tracked \in [Heads -> Ids \cup {None}]
    /\ recent \subseteq Ids /\ rows \subseteq Ids
    /\ open \subseteq Ids /\ lost \subseteq Ids
    /\ restarts \in Nat

\* Gate 3 of compliance.rs looks at the tracked positions only, yet it keeps
\* the whole account unhedged as long as none was lost: whatever order of
\* fills, closes, restarts and recoveries, two open positions of opposite
\* directions include one that was open while the process did not track it
\* (a failed order that filled, a pyramid add, a forgotten book, a restart
\* without its row).
HedgeNeedsLoss ==
    Enabled => \A i, j \in open \ lost : fills[i].dir = fills[j].dir

\* The same for the correlation guard: for each direction no more than
\* max_cluster_exposure positions are open that never were lost, whatever
\* firm.max_positions allows.
ClusterKept ==
    \A d \in Dirs :
        Cardinality({i \in open \ lost : fills[i].dir = d}) <= MaxClusterExposure

\* Gate 4 compares the START of a bar with the venue's fill time: the bar is
\* over by the time it is handled, so whatever an order of this process fills
\* after an entry it recorded (an entry, a pyramid add, an order whose call
\* failed) comes a whole bar later than min_seconds_between_entries asks for.
PacingKept ==
    \A i \in recent, j \in Ids :
        i < j => fills[j].at - fills[i].at
                   >= Config.min_seconds_between_entries + BarSecs

\* Gate 6, for FundingPips Zero: whatever is filled, an entry, a pyramid add
\* or an order whose call failed, risks no more than the cap together with the
\* recorded entries of its direction in the window before it, closed or open,
\* although the check runs before the order leaves and against the start of
\* the bar.
IdeaCapped ==
    program = "FundingPipsZero" =>
        \A j \in Ids :
            BaseRiskPct * (Cardinality(
                {i \in recent : /\ i < j /\ fills[i].dir = fills[j].dir
                                /\ fills[j].at - fills[i].at
                                     <= Config.same_trade_idea_window_secs}) + 1)
              <= Config.max_trade_idea_risk_pct

\* phase1.rs:1711: adds go through the gate so that the pacing rule still
\* fires.  In one process nothing is filled sooner than the rule's pause after
\* an add: refuted, an add is not recorded, so an entry follows it at once.
AddsPaced ==
    Enabled /\ restarts = 0 =>
        \A i, j \in Ids :
            i < j /\ fills[i].add
              => fills[j].at - fills[i].at >= Config.min_seconds_between_entries

\* compliance.rs:361: a trade idea is capped at 3%.  What is open in a
\* direction within the window, entries recorded and adds, risks no more at the
\* percentage the gate was told: refuted, adds count neither as exposure nor
\* as entries.
AddsCapped ==
    program = "FundingPipsZero" /\ restarts = 0 =>
        LET known == {i \in open : i \in recent \/ fills[i].add} IN
        \A j \in known :
            BaseRiskPct * Cardinality(
                {i \in known : /\ i <= j /\ fills[i].dir = fills[j].dir
                               /\ fills[j].at - fills[i].at
                                    <= Config.same_trade_idea_window_secs})
              <= Config.max_trade_idea_risk_pct

\* compliance.rs:258: hedging on the same account is prohibited.  The account
\* is the venue's, not the book's: refuted.
NeverHedged ==
    Enabled => \A i, j \in open : fills[i].dir = fills[j].dir

\* execution.rs:419: the distances are net of the spread's cost.  A signal
\* passes the check exactly when its distances, less the spread, keep the
\* ratio: refuted, the spread is in pips and the distances are in price.
NetOfSpread ==
    \A shape \in Shapes :
        AdjustedRROk(shape, spread) <=> NetRROver(shape, spread)

\* compliance.rs:239: blackout windows block entries during the events.  No
\* order leaves while a window is running: refuted, the window is compared
\* with the start of the bar.
BlackoutKept ==
    [][pc = "bar" /\ pc' = "sent" => BlackoutOk(now)]_vars
=============================================================================
