------------------------------ MODULE Feedback -------------------------------
(***************************************************************************)
(* What closed trades and finished days do to the risk of the next entry   *)
(* (gadarah-risk): the equity-curve filter, the drift detector, the        *)
(* performance ledger, the consistency tracker and the lot size, as        *)
(* operators on their state.                                               *)
(*                                                                         *)
(* A trade is [won, r], r in hundredths of R.  Risk multipliers are in     *)
(* quarters of the full size (equity curve, drift) and in fifths (ledger). *)
(***************************************************************************)
EXTENDS Integers, Sequences, SequencesExt

CONSTANTS
    MaPeriod, DeepPct,                      \* equity-curve filter
    MaxRolling, MinTrades,                  \* drift detector: window, least evidence
    ExpectedWinPct, AlertDelta, HaltDelta,  \* win rates, in percent
    HaltR,                                  \* avg_r_halt_threshold, hundredths of R
    SlipAlert,                              \* slippage is far above the benchmark
    Unproven, LedgerMid, LedgerFull,        \* trades of a segment: 10, 15, 20
    SegmentLosses,                          \* losses in a row that close a segment
    PauseAfter,                             \* losing days that pause the engine
    MaxHistory,                             \* days the tracker remembers
    MaxLot                                  \* largest order, in volume steps

Total(s) == FoldLeft(LAMBDA x, y : x + y, 0, s)

\* Appends to a window that keeps the last n entries.
Slide(window, x, n) ==
    LET longer == Append(window, x)
    IN  IF Len(longer) > n THEN Tail(longer) ELSE longer

-----------------------------------------------------------------------------
(* EquityCurveFilter: the equity at the last MaPeriod closes.              *)

CurveMultiplier(curve) ==
    LET sum   == Total(curve)
        below == sum - MaPeriod * Last(curve)
    IN  IF Len(curve) < MaPeriod \/ below <= 0 \/ sum = 0 THEN 4
        ELSE IF 100 * below >= DeepPct * sum THEN 1 ELSE 2

-----------------------------------------------------------------------------
(* DriftDetector: the last MaxRolling trades.                              *)

WinsOf(trades) == Len(SelectSeq(trades, LAMBDA t : t.won))
TotalR(trades) == FoldLeft(LAMBDA sum, t : sum + t.r, 0, trades)

\* Percentage points the window wins less than the benchmark, times its length.
WinDeficit(trades) == ExpectedWinPct * Len(trades) - 100 * WinsOf(trades)

DriftHalts(trades) ==
    /\ Len(trades) >= MinTrades
    /\ \/ TotalR(trades) < HaltR * Len(trades)
       \/ WinDeficit(trades) > HaltDelta * Len(trades)

DriftMultiplier(trades) ==
    IF Len(trades) < MinTrades THEN 4
    ELSE IF WinDeficit(trades) > AlertDelta * Len(trades) THEN 2
    ELSE IF SlipAlert THEN 3 ELSE 4

-----------------------------------------------------------------------------
(* PerformanceLedger: one segment's statistics.                            *)

NewSegment == [n |-> 0, wins |-> 0, r |-> 0, losses |-> 0]

RecordSegment(s, won, r) ==
    [n |-> s.n + 1, wins |-> s.wins + (IF won THEN 1 ELSE 0), r |-> s.r + r,
     losses |-> IF won THEN 0 ELSE s.losses + 1]

\* A segment short of evidence is never closed, whatever it lost.
SegmentAllowed(s) ==
    \/ s.n < Unproven
    \/ /\ s.losses < SegmentLosses
       /\ ~(s.n >= LedgerMid /\ 100 * s.wins < 30 * s.n)
       /\ ~(s.n >= LedgerFull /\ s.r < 0)

SegmentMultiplier(s) ==
    IF s.n = 0 THEN 5
    ELSE IF s.n < Unproven THEN 4
    ELSE IF 100 * s.wins > 55 * s.n /\ s.r > 50 * s.n THEN 6
    ELSE IF 100 * s.wins > 45 * s.n /\ s.r > 20 * s.n THEN 5 ELSE 3

-----------------------------------------------------------------------------
(* ConsistencyTracker: the profit of the last MaxHistory days and the      *)
(* current streak of losing ones.                                          *)

NewTracker == [history |-> <<>>, streak |-> 0]

\* Mutation of RecordDay: a flat day ends the streak.
RecordDayFlat(t, pnl) ==
    [history |-> Slide(t.history, pnl, MaxHistory),
     streak  |-> IF pnl >= 0 THEN 0 ELSE t.streak + 1]

\* A flat day neither lengthens the streak nor ends it.
RecordDay(t, pnl) ==
    [history |-> Slide(t.history, pnl, MaxHistory),
     streak  |-> IF pnl = 0 THEN t.streak ELSE IF pnl > 0 THEN 0 ELSE t.streak + 1]

IsPaused(t) == t.streak >= PauseAfter

-----------------------------------------------------------------------------
(* calculate_lots, with the margin cap off as both engines call it.  risk  *)
(* is in twentieths of a basis point of the equity, the unit in which the  *)
(* multipliers above compose; 20 and 10000 are 0.01% and 5%.               *)

Clamped(risk) == IF risk < 20 THEN 20 ELSE IF risk > 10000 THEN 10000 ELSE risk

RawLots(equity, risk, pips, cost) == (equity * risk) \div (200000 * (pips + cost))

LotSize(equity, risk, pips, cost) ==
    LET raw == RawLots(equity, risk, pips, cost)
    IN  IF raw < 1 THEN 1 ELSE IF raw > MaxLot THEN MaxLot ELSE raw

\* The smallest lot may risk more than asked for, up to a twentieth.  The cost
\* of one whole lot (lotCost) is held against the budget of the trade.
CanSize(equity, risk, pips, cost, lotCost) ==
    /\ equity > 0 /\ pips >= 2
    /\ 200000 * lotCost < equity * risk
    /\ LotSize(equity, risk, pips, cost) * pips * 200000 * 20 <= equity * risk * 21
=============================================================================
