----------------------------- MODULE SetupHeads -----------------------------
(***************************************************************************)
(* The strategy heads that wait for a setup of their indicators:           *)
(* BreakoutHead (breakout.rs), TrendHead (trend.rs), NewsHead (news.rs),   *)
(* the two scalpers (scalp_m1.rs, scalp_m5.rs) and GridHead (grid.rs).     *)
(* The indicators are inputs of the bar: the bands, where their width      *)
(* stands among the last hundred, the side of the fast average, the ATR    *)
(* (a multiple of ten, so that its tenths are numbers).                    *)
(***************************************************************************)
EXTENDS SessionHeads

CONSTANTS
    Ready,           \* bars before the indicators have values
    MinSqueeze,      \* min_squeeze_bars
    FakeoutBars,     \* fakeout_bars
    NewsCool,        \* cool_bars of NewsHead
    ScalpCool,       \* cool_bars of the scalpers
    Half,            \* half the range of the scalpers' bar counters, 2^63
    ScalpSlots,      \* slots of the sessions a scalper trades
    GridLevels,      \* grid_levels
    GridGap          \* min_bars_between_signals of GridHead, in slots

ASSUME SetupAssumption ==
    /\ Ready \in Nat /\ MinSqueeze \in Nat \ {0} /\ FakeoutBars \in Nat
    /\ NewsCool \in Nat /\ ScalpCool \in Nat /\ Half \in Nat \ {0}
    /\ ScalpSlots \subseteq Nat /\ GridLevels \in Nat /\ GridGap \in Nat

\* Whether the indicators have a value on the bar after state s.
HasValues(s) == s.seen + 1 > Ready
Count(s)     == IF s.seen < Ready + Warmup THEN s.seen + 1 ELSE s.seen

-----------------------------------------------------------------------------
(* BreakoutHead.  b.width is where the band width's percentile lies:       *)
(* "squeezed" below 0.30, "mid" up to 0.50, "wide" up to 0.70, "burst".    *)

BreakoutNew == [squeeze |-> 0, armed |-> FALSE, tracked |-> "none",
                since |-> 0, seen |-> 0]

\* The squeeze counter: enough squeezed bars in a row arm the head.
Squeeze(s, b) ==
    LET run == IF b.width # "squeezed" THEN 0
               ELSE IF s.squeeze < MinSqueeze THEN s.squeeze + 1 ELSE s.squeeze
    IN  [s EXCEPT !.squeeze = run, !.armed = @ \/ run >= MinSqueeze]

Untrack(s) == [s EXCEPT !.tracked = "none", !.since = 0]

\* One more bar since the breakout.
Tracking(s) == IF s.tracked = "none" THEN s ELSE [s EXCEPT !.since = @ + 1]

\* Mutation of Fakeout: the breakout is not forgotten with its window.
FakeoutAnyTime(s, b) ==
    /\ s.tracked # "none"
    /\ b.close < b.upper /\ b.close > b.lower

\* The price is back inside the bands within fakeout_bars of a breakout.
Fakeout(s, b) ==
    /\ s.tracked # "none" /\ s.since <= FakeoutBars
    /\ b.close < b.upper /\ b.close > b.lower

CloseSignal(s, b) == [kind |-> "Close", dir |-> s.tracked, ts |-> b.ts]

\* Stop at the opposite band, target two ATRs away.
BreakoutSignals(s, b) ==
    { Open(b, d, b.close, IF d = "Buy" THEN b.lower ELSE b.upper,
           b.close + Sign(d) * 2 * b.atr) :
        d \in { x \in Dirs :
          /\ b.allowed /\ s.seen >= Warmup /\ ~Dead(b.ts) /\ b.atr # 0
          /\ s.armed /\ b.width \in {"wide", "burst"} /\ b.volume
          /\ s.tracked = "none"
          /\ IF x = "Buy" THEN b.close > b.upper ELSE b.close < b.lower
          /\ RrAtLeast(2 * b.atr,
                       Distance(b.close, IF x = "Buy" THEN b.lower ELSE b.upper),
                       18) } }

\* The disarming at the end of evaluate, reached by a bar that passed the
\* regime, warm-up, session and ATR checks and gave no signal.
Disarmed(s, b) ==
    IF /\ b.allowed /\ s.seen >= Warmup /\ ~Dead(b.ts) /\ b.atr # 0
       /\ b.width = "burst"
    THEN [s EXCEPT !.armed = FALSE] ELSE s

\* Mutation of Spent: the head stays armed after its breakout.
SpentArmed(s, sig) ==
    [s EXCEPT !.squeeze = 0, !.tracked = sig.dir, !.since = 0]

\* The state a breakout leaves: tracked for a fake-out, the squeeze used up.
Spent(s, sig) ==
    [s EXCEPT !.squeeze = 0, !.armed = FALSE,
              !.tracked = sig.dir, !.since = 0]

BreakoutStep(s0, b) ==
    LET counted == [s0 EXCEPT !.seen = Count(s0)]
        s == Tracking(Squeeze(counted, b))
        t == IF s.since > FakeoutBars THEN Untrack(s) ELSE s
        signals == BreakoutSignals(t, b)
    IN  IF ~HasValues(s0) THEN [st |-> counted, out |-> NoSignal]
        ELSE IF Fakeout(s, b)
        THEN [st  |-> [Untrack(s) EXCEPT !.armed = FALSE, !.squeeze = 0],
              out |-> CloseSignal(s, b)]
        ELSE IF signals = {} THEN [st |-> Disarmed(t, b), out |-> NoSignal]
        ELSE LET sig == CHOOSE x \in signals : TRUE
             IN  [st |-> Spent(t, sig), out |-> sig]

-----------------------------------------------------------------------------
(* TrendHead.  b.above: the fast average is above the slow one; b.strong:  *)
(* ADX at least adx_threshold; b.ema: the fast average.                    *)

TrendNew == [dir |-> "none", above |-> "unknown", armed |-> FALSE,
             issued |-> FALSE, seen |-> 0]

Crossed(s, b) == s.above # "unknown" /\ s.above # b.above

\* A cross of the averages starts a new leg; a strong ADX gives it the
\* direction of the averages.
TrendUpdate(s, b) ==
    LET fresh == IF Crossed(s, b)
                 THEN [s EXCEPT !.dir = "none", !.armed = FALSE,
                                !.issued = FALSE]
                 ELSE s
    IN  [fresh EXCEPT
           !.above = b.above, !.seen = Count(s),
           !.dir = IF b.strong THEN (IF b.above = "yes" THEN "Buy" ELSE "Sell")
                   ELSE @]

Awaits(s, b) == s.dir # "none" /\ ~s.issued /\ ~Dead(b.ts)

\* The pullback: a bar that touches the fast average from the trend's side.
TrendArm(s, b) ==
    IF /\ Awaits(s, b)
       /\ IF s.dir = "Buy" THEN b.low <= b.ema ELSE b.high >= b.ema
    THEN [s EXCEPT !.armed = TRUE] ELSE s

\* Stop 1.5 ATR behind the average, target 2.5 times the risk: the check
\* against min_rr passes by the configuration (2.5 >= 1.8).
TrendSignals(s, b) ==
    { LET sl == b.ema - Sign(d) * ((15 * b.atr) \div 10)
          risk == Distance(b.close, sl)
      IN  Open(b, d, b.close, sl, b.close + Sign(d) * ((25 * risk) \div 10)) :
        d \in { x \in Dirs :
          /\ Awaits(s, b) /\ s.armed /\ x = s.dir
          /\ IF x = "Buy" THEN b.close > b.ema ELSE b.close < b.ema } }

TrendStep(s0, b) ==
    LET s == TrendArm(TrendUpdate(s0, b), b)
    IN  IF HasValues(s0)
        THEN Step(s, TrendSignals(s, b),
                  [s EXCEPT !.issued = TRUE, !.armed = FALSE])
        ELSE [st |-> [s0 EXCEPT !.seen = Count(s0)], out |-> NoSignal]

-----------------------------------------------------------------------------
(* NewsHead: a spike is queued and fired at the market on the next bar.    *)

NewsNew == [pending |-> {}, since |-> NewsCool + 1, seen |-> 0]

\* bars_since_signal counts on, saturating; only NewsCool is compared with it.
Older(s) == IF s.since <= NewsCool THEN s.since + 1 ELSE s.since

\* A range of at least 2.5 ATR, in the direction of the half the bar closed
\* in; stop 0.3 ATR behind the spike, target twice the risk (>= min_rr).
Spike(b) ==
    LET d  == IF 2 * b.close >= b.high + b.low THEN "Buy" ELSE "Sell"
        sl == IF d = "Buy" THEN b.low - ((3 * b.atr) \div 10)
                           ELSE b.high + ((3 * b.atr) \div 10)
    IN  IF 10 * (b.high - b.low) >= 25 * b.atr /\ Sign(d) * sl < Sign(d) * b.close
        THEN { Open(b, d, 0, sl,
                    b.close + Sign(d) * 2 * Distance(b.close, sl)) }
        ELSE {}

NewsStep(s, b) ==
    IF s.pending # {}
    THEN [st  |-> [pending |-> {}, since |-> 0, seen |-> Count(s)],
          out |-> [(CHOOSE p \in s.pending : TRUE) EXCEPT !.ts = b.ts]]
    ELSE [st  |-> [pending |-> IF HasValues(s) /\ ~Dead(b.ts)
                                  /\ Older(s) >= NewsCool
                               THEN Spike(b) ELSE {},
                   since |-> Older(s), seen |-> Count(s)],
          out |-> NoSignal]

-----------------------------------------------------------------------------
(* The scalpers.  b.level is where the oscillator stands: the RSI against  *)
(* its two thresholds for ScalpM1, the averages ("low": fast below slow,   *)
(* "high") for ScalpM5.  A signal is its leaving "low" or "high".          *)

Lowest  == -Half

\* The subtraction of two counters in a release build: it wraps.
Wrap(x) == ((x - Lowest) % (2 * Half)) + Lowest

ScalpNew == [prev |-> "none", last |-> Lowest, count |-> 0, seen |-> 0]

SinceSignal(s) == Wrap(s.count - s.last)

ScalpUpdate(s, b) ==
    [s EXCEPT !.count = @ + 1, !.seen = Count(s),
              !.prev = IF HasValues(s) THEN b.level ELSE "none"]

\* "prev" is the level of the bar before; b.vwap: the close is near the VWAP.
ScalpSignals(prev, s, b) ==
    { Open(b, d, 0, b.close - Sign(d) * b.atr, b.close + Sign(d) * 2 * b.atr) :
        d \in { x \in Dirs :
          /\ SinceSignal(s) >= ScalpCool
          /\ s.prev # "none" /\ prev # "none" /\ b.vwap /\ b.atr > 0
          /\ prev # b.level
          /\ prev = (IF x = "Buy" THEN "low" ELSE "high") } }

\* Outside its sessions the head does not look at the bar at all.
ScalpStep(s, b) ==
    LET u == ScalpUpdate(s, b)
    IN  IF Slot(b.ts) \in ScalpSlots
        THEN Step(u, ScalpSignals(s.prev, u, b), [u EXCEPT !.last = u.count])
        ELSE [st |-> s, out |-> NoSignal]

-----------------------------------------------------------------------------
(* GridHead, with the spacings it is configured with: targets one spacing  *)
(* away, stops 1.2 spacings, and a minimum reward to risk of 1.5.          *)

GridNew == [prev |-> 0, last |-> -1, seen |-> 0]

Level(b, d, n) == b.ema - Sign(d) * n * b.atr

\* The bar touched the level and closed back from it.
Bounced(s, b, d, level) ==
    IF d = "Buy" THEN s.prev > level /\ b.low <= level /\ b.close > level
    ELSE s.prev < level /\ b.high >= level /\ b.close < level

\* The entries at such a level: a limit at the level.
GridEntry(b, d, level) ==
    [Open(b, d, level, level - Sign(d) * ((12 * b.atr) \div 10), level + Sign(d) * b.atr)
        EXCEPT !.ref = level]

GridSignals(s, b) ==
    { GridEntry(b, x[1], Level(b, x[1], x[2])) :
        x \in { y \in Dirs \X (1 .. GridLevels) :
          /\ ~b.strong /\ ~Dead(b.ts) /\ b.width = "squeezed"
          /\ s.last = -1 \/ b.ts - s.last >= GridGap
          /\ Bounced(s, b, y[1], Level(b, y[1], y[2]))
          /\ RrAtLeast(b.atr, (12 * b.atr) \div 10, 15) } }

GridStep(s, b) ==
    LET u == [s EXCEPT !.prev = b.close, !.seen = Count(s)]
        prev == [u EXCEPT !.prev = IF s.seen = 0 THEN b.close ELSE s.prev]
    IN  IF HasValues(s)
        THEN Step(u, GridSignals(prev, b), [u EXCEPT !.last = b.ts])
        ELSE [st |-> u, out |-> NoSignal]
=============================================================================
