----------------------------- MODULE FeedProofs -----------------------------
(***************************************************************************)
(* What is fed to the strategies and what comes of it.  LiveSession, for   *)
(* every bar duration, exit threshold and number of lost connections: bars *)
(* are whole and no polled tick is lost.  Heads, for every configuration   *)
(* and every sequence of bars: entries are one-shot, their stop lies       *)
(* behind the price, and a fake-out closes the breakout it answers.        *)
(*                                                                         *)
(* The session's inductive invariant: the bar in progress holds exactly    *)
(* the polled ticks of its period, no tick lies in the future, and no      *)
(* polled tick lies in a period after the bar's.                           *)
(*                                                                         *)
(* The heads': the latch of each head (the day taken, the leg issued, the  *)
(* squeeze spent, the bars counted since) agrees with what a reader of its *)
(* signals has seen.                                                       *)
(***************************************************************************)
EXTENDS LiveSession, Heads, FiniteSetTheorems, WellFoundedInduction, SequenceTheorems,
        TLAPS

-----------------------------------------------------------------------------
(* The live session.                                                       *)

Typed ==
    /\ clock \in Nat
    /\ tick \in Nat \cup {NoTick}
    /\ bar \in [period : Nat, ticks : SUBSET Nat] \cup {NoBar}
    /\ lastBar \in Int
    /\ polled \subseteq Nat

\* What has been received lies in the past.
NoFuture ==
    /\ tick # NoTick => tick <= clock
    /\ \A t \in polled : t <= clock /\ (tick # NoTick => t <= tick)
    /\ bar # NoBar => /\ bar.period <= PeriodOf(clock)
                      /\ tick # NoTick => bar.period <= PeriodOf(tick)

\* The bar in progress is the latest period polled, with all its ticks.
BarIsLatest ==
    /\ bar = NoBar => polled = {}
    /\ bar # NoBar => bar.ticks = {t \in polled : PeriodOf(t) = bar.period}
    /\ \A t \in polled : PeriodOf(t) <= bar.period

IInv == Typed /\ NoFuture /\ BarIsLatest /\ NoTickLost

\* Periods follow the clock (align_to_timeframe, lib.rs:132).
LEMMA PeriodMonotone ==
    ASSUME NEW s \in Nat, NEW t \in Nat
    PROVE  /\ PeriodOf(s) \in Nat
           /\ s <= t => PeriodOf(s) <= PeriodOf(t)
<1>1. Period \in Nat \ {0}
  BY ConstantsAssumption
<1>2. ASSUME NEW n \in Nat
      PROVE  /\ n \div Period \in Nat
             /\ Period * (n \div Period) <= n
             /\ n < Period * (n \div Period) + Period
  BY <1>1
<1>3. ASSUME s <= t, PeriodOf(s) > PeriodOf(t)
      PROVE  FALSE
  <2> DEFINE a == s \div Period
             b == t \div Period
  <2>1. a \in Nat /\ b \in Nat /\ a >= b + 1
    BY <1>2, <1>3 DEF PeriodOf
  <2> HIDE DEF a, b
  <2>2. Period * a >= Period * (b + 1)
    BY <1>1, <2>1
  <2>3. Period * (b + 1) = Period * b + Period
    BY <1>1, <2>1
  <2>4. Period * a <= s /\ t < Period * b + Period
    BY <1>2 DEF a, b
  <2>5. Period * a \in Nat /\ Period * b \in Nat
    BY <1>1, <2>1
  <2>6. QED BY <1>1, <1>3, <2>2, <2>3, <2>4, <2>5
<1>4. PeriodOf(s) \in Nat /\ PeriodOf(t) \in Nat
  BY <1>2 DEF PeriodOf
<1>5. QED BY <1>3, <1>4

LEMMA InitIInv == Init => IInv
BY DEF Init, IInv, Typed, NoFuture, BarIsLatest, NoTickLost, NoBar, NoTick

\* What the poll of a cached tick knows.
LEMMA PollFacts ==
    ASSUME IInv, tick # NoTick
    PROVE  /\ tick \in Nat /\ clock \in Nat /\ polled \subseteq Nat
           /\ PeriodOf(tick) \in Nat /\ PeriodOf(clock) \in Nat
           /\ PeriodOf(tick) <= PeriodOf(clock)
           /\ \A t \in polled : PeriodOf(t) \in Nat /\ PeriodOf(t) <= PeriodOf(tick)
           /\ bar # NoBar => bar.period \in Nat /\ bar.period <= PeriodOf(tick)
           /\ bar.period = PeriodOf(tick) => bar # NoBar
<1>1. tick \in Nat /\ clock \in Nat /\ polled \subseteq Nat /\ tick <= clock
  BY DEF IInv, Typed, NoFuture
<1>2. /\ PeriodOf(tick) \in Nat /\ PeriodOf(clock) \in Nat
      /\ PeriodOf(tick) <= PeriodOf(clock)
  BY <1>1, PeriodMonotone
<1>3. \A t \in polled : PeriodOf(t) \in Nat /\ PeriodOf(t) <= PeriodOf(tick)
  BY <1>1, PeriodMonotone DEF IInv, NoFuture
<1>4. bar # NoBar => bar.period \in Nat /\ bar.period <= PeriodOf(tick)
  BY DEF IInv, Typed, NoFuture
<1>5. bar.period = PeriodOf(tick) => bar # NoBar
  BY <1>2 DEF NoBar
<1>6. QED BY <1>1, <1>2, <1>3, <1>4, <1>5

\* The streamer (lib.rs:80) keeps the latest period with all its ticks.
LEMMA PollTickStep ==
    ASSUME IInv, PollTick
    PROVE  IInv'
<1>1. tick # NoTick
  BY DEF PollTick
<1>2. /\ clock' = clock /\ tick' = tick
      /\ polled' = polled \cup {tick}
      /\ bar' = Streamed
      /\ IF Closes /\ bar.period > lastBar THEN lastBar' = bar.period ELSE lastBar' = lastBar
  BY DEF PollTick, feedVars
<1>3. bar'.period = PeriodOf(tick) /\ tick \in bar'.ticks /\ bar' # NoBar
  <2>1. CASE bar.period = PeriodOf(tick)
    <3>1. bar \in [period : Nat, ticks : SUBSET Nat]
      BY <1>1, <2>1, PollFacts DEF IInv, Typed
    <3>2. QED BY <1>1, <1>2, <2>1, <3>1, PollFacts DEF Streamed, NoBar
  <2>2. CASE bar.period # PeriodOf(tick)
    BY <1>1, <1>2, <2>2, PollFacts DEF Streamed, NoBar
  <2>3. QED BY <2>1, <2>2
<1>4. bar'.ticks = {t \in polled' : PeriodOf(t) = PeriodOf(tick)}
  <2>1. CASE bar.period = PeriodOf(tick)
    <3>1. /\ bar \in [period : Nat, ticks : SUBSET Nat]
          /\ bar.ticks = {t \in polled : PeriodOf(t) = PeriodOf(tick)}
      BY <1>1, <2>1, PollFacts DEF IInv, Typed, BarIsLatest
    <3>2. bar'.ticks = bar.ticks \cup {tick}
      BY <1>2, <2>1, <3>1 DEF Streamed
    <3>3. QED BY <1>2, <3>1, <3>2
  <2>2. CASE bar.period # PeriodOf(tick)
    <3>1. bar'.ticks = {tick}
      BY <1>2, <2>2 DEF Streamed
    <3>2. ASSUME NEW t \in polled
          PROVE  PeriodOf(t) # PeriodOf(tick)
      <4>1. bar # NoBar
        BY DEF IInv, BarIsLatest
      <4>2. PeriodOf(t) <= bar.period
        BY DEF IInv, BarIsLatest
      <4>3. QED BY <1>1, <2>2, <4>1, <4>2, PollFacts
    <3>3. QED BY <1>2, <3>1, <3>2
  <2>3. QED BY <2>1, <2>2
<1>5. lastBar \in Int /\ lastBar' \in Int /\ lastBar' >= lastBar
      /\ (Closes => lastBar' >= bar.period)
  BY <1>1, <1>2, PollFacts DEF IInv, Typed, Closes
<1>6. NoTickLost'
  <2>1. ASSUME NEW t \in polled'
        PROVE  t \in bar'.ticks \/ PeriodOf(t) <= lastBar'
    <3>1. CASE t = tick
      BY <1>3, <3>1
    <3>2. CASE t \in polled /\ bar.period = PeriodOf(tick)
      <4>1. t \in bar.ticks \/ PeriodOf(t) <= lastBar
        BY <3>2 DEF IInv, NoTickLost
      <4>2. CASE t \in bar.ticks
        <5>1. PeriodOf(t) = PeriodOf(tick)
          BY <1>1, <3>2, <4>2, PollFacts DEF IInv, BarIsLatest
        <5>2. QED BY <1>2, <1>4, <3>2, <5>1
      <4>3. CASE PeriodOf(t) <= lastBar
        BY <1>1, <1>5, <3>2, <4>3, PollFacts
      <4>4. QED BY <4>1, <4>2, <4>3
    <3>3. CASE t \in polled /\ bar.period # PeriodOf(tick)
      <4>1. bar # NoBar /\ PeriodOf(t) <= bar.period
        BY <3>3 DEF IInv, BarIsLatest
      <4>2. Closes
        BY <3>3, <4>1 DEF Closes
      <4>3. QED BY <1>1, <1>5, <3>3, <4>1, <4>2, PollFacts
    <3>4. QED BY <1>2, <3>1, <3>2, <3>3
  <2>2. QED BY <2>1 DEF NoTickLost
<1>7. Typed'
  <2>1. bar' \in [period : Nat, ticks : SUBSET Nat]
    <3>1. CASE bar.period = PeriodOf(tick)
      <4>1. bar \in [period : Nat, ticks : SUBSET Nat]
        BY <1>1, <3>1, PollFacts DEF IInv, Typed
      <4>2. QED BY <1>1, <1>2, <3>1, <4>1, PollFacts DEF Streamed
    <3>2. CASE bar.period # PeriodOf(tick)
      BY <1>1, <1>2, <3>2, PollFacts DEF Streamed
    <3>3. QED BY <3>1, <3>2
  <2>2. QED BY <1>1, <1>2, <1>5, <2>1, PollFacts DEF Typed
<1>8. BarIsLatest'
  <2>1. \A t \in polled' : PeriodOf(t) <= PeriodOf(tick)
    BY <1>1, <1>2, PollFacts
  <2>2. QED BY <1>3, <1>4, <2>1 DEF BarIsLatest
<1>9. NoFuture'
  BY <1>1, <1>2, <1>3, PollFacts DEF IInv, NoFuture
<1>10. QED BY <1>6, <1>7, <1>8, <1>9 DEF IInv

LEMMA NextIInv == IInv /\ [Next]_vars => IInv'
<1> SUFFICES ASSUME IInv, [Next]_vars
             PROVE  IInv'
  OBVIOUS
<1> USE DEF NoTick
<1>1. CASE Elapse
  <2>1. clock' = clock + 1 /\ clock \in Nat
    BY <1>1 DEF Elapse, IInv, Typed
  <2>2. PeriodOf(clock) \in Nat /\ PeriodOf(clock') \in Nat
        /\ PeriodOf(clock) <= PeriodOf(clock')
    BY <2>1, PeriodMonotone
  <2>3. tick' = tick /\ bar' = bar /\ lastBar' = lastBar /\ polled' = polled
    BY <1>1 DEF Elapse, feedVars, barVars
  <2>4. Typed' /\ BarIsLatest' /\ NoTickLost'
    BY <2>1, <2>3 DEF IInv, Typed, BarIsLatest, NoTickLost
  <2>5. NoFuture'
    BY <2>1, <2>2, <2>3 DEF IInv, Typed, NoFuture
  <2>6. QED BY <2>4, <2>5 DEF IInv
<1>2. CASE SpotEvent
  <2>1. tick' = clock /\ clock' = clock /\ clock \in Nat
        /\ bar' = bar /\ lastBar' = lastBar /\ polled' = polled
    BY <1>2 DEF SpotEvent, barVars, IInv, Typed
  <2>2. QED BY <2>1 DEF IInv, Typed, NoFuture, BarIsLatest, NoTickLost
<1>3. CASE Silence
  BY <1>3 DEF Silence, barVars, IInv, Typed, NoFuture, BarIsLatest, NoTickLost
<1>4. CASE DropLink
  BY <1>4 DEF DropLink, barVars, IInv, Typed, NoFuture, BarIsLatest, NoTickLost
<1>5. CASE Signal
  BY <1>5 DEF Signal, feedVars, barVars, IInv, Typed, NoFuture, BarIsLatest, NoTickLost
<1>6. CASE StopOnSignal
  BY <1>6 DEF StopOnSignal, feedVars, barVars, IInv, Typed, NoFuture, BarIsLatest, NoTickLost
<1>7. CASE LinkFine
  BY <1>7 DEF LinkFine, feedVars, barVars, IInv, Typed, NoFuture, BarIsLatest, NoTickLost
<1>8. CASE Reconnect
  BY <1>8 DEF Reconnect, barVars, IInv, Typed, NoFuture, BarIsLatest, NoTickLost
<1>9. CASE ReconnectFails
  BY <1>9 DEF ReconnectFails, feedVars, barVars, IInv, Typed, NoFuture, BarIsLatest, NoTickLost
<1>16. CASE Dial
  BY <1>16 DEF Dial, feedVars, barVars, IInv, Typed, NoFuture, BarIsLatest, NoTickLost
<1>17. CASE Leave
  BY <1>17 DEF Leave, feedVars, barVars, IInv, Typed, NoFuture, BarIsLatest, NoTickLost
<1>10. CASE PollFails
  BY <1>10 DEF PollFails, feedVars, barVars, IInv, Typed, NoFuture, BarIsLatest, NoTickLost
<1>11. CASE PollTick
  BY <1>11, PollTickStep
<1>12. CASE ProcessEnters
  BY <1>12 DEF ProcessEnters, feedVars, barVars, IInv, Typed, NoFuture, BarIsLatest, NoTickLost
<1>13. CASE ProcessReturns
  BY <1>13 DEF ProcessReturns, feedVars, barVars, IInv, Typed, NoFuture, BarIsLatest, NoTickLost
<1>14. CASE UNCHANGED vars
  BY <1>14 DEF vars, IInv, Typed, NoFuture, BarIsLatest, NoTickLost
<1>15. QED BY <1>1, <1>2, <1>3, <1>4, <1>5, <1>6, <1>7, <1>8, <1>9, <1>10, <1>11,
              <1>12, <1>13, <1>14, <1>16, <1>17 DEF Next, World, Turn, Return

LEMMA Invariance == Spec => []IInv
BY InitIInv, NextIInv, PTL DEF Spec

\* No tick the loop polled is lost to the streamer (lib.rs:80).
THEOREM TicksKept == Spec => []NoTickLost
<1>1. IInv => NoTickLost
  BY DEF IInv
<1>2. QED BY <1>1, Invariance, PTL

\* A bar handed to process_live_bar (phase1.rs:1064) is over and whole.
THEOREM BarsAreWhole == Spec => WholeBars
<1>1. ASSUME IInv, [Next]_vars, lastBar' # lastBar
      PROVE  /\ lastBar' = bar.period
             /\ bar.period < PeriodOf(clock)
             /\ bar.ticks = {t \in polled : PeriodOf(t) = bar.period}
  <2>1. PollTick
    BY <1>1 DEF Next, World, Turn, Return, vars, barVars, Elapse, SpotEvent, Silence,
                DropLink, Signal, StopOnSignal, LinkFine, Dial, Leave, Reconnect, ReconnectFails, PollFails,
                ProcessEnters, ProcessReturns
  <2>2. tick # NoTick /\ Closes /\ lastBar' = bar.period
    BY <1>1, <2>1 DEF PollTick
  <2>3. bar # NoBar /\ bar.period # PeriodOf(tick)
    BY <2>2 DEF Closes
  <2>4. bar.period < PeriodOf(clock)
    BY <1>1, <2>2, <2>3, PollFacts
  <2>5. QED BY <1>1, <2>2, <2>3, <2>4 DEF IInv, BarIsLatest
<1>2. QED BY <1>1, Invariance, PTL DEF Spec, WholeBars

-----------------------------------------------------------------------------
(* Entries.                                                                *)

\* Stop and target on their two sides of the price they were computed from.
Ahead(e) ==
    /\ Sign(e.dir) * e.sl < Sign(e.dir) * e.ref
    /\ Sign(e.dir) * e.ref < Sign(e.dir) * e.tp

IsEntry(e, b) == e.kind = "Open" /\ e.ts = b.ts /\ Ahead(e)

LEMMA SignFacts == Sign("Buy") = 1 /\ Sign("Sell") = -1
BY DEF Sign

\* A handler gives no signal, or one of those it found.
LEMMA StepFacts ==
    ASSUME NEW s, NEW signals, NEW after
    PROVE  \/ signals = {} /\ Step(s, signals, after).st = s
              /\ Step(s, signals, after).out = NoSignal
           \/ /\ Step(s, signals, after).out \in signals
              /\ Step(s, signals, after).st = after
BY DEF Step

LEMMA OpenFacts ==
    ASSUME NEW b, NEW d, NEW entry, NEW sl, NEW tp
    PROVE  LET e == Open(b, d, entry, sl, tp)
           IN  /\ e.kind = "Open" /\ e.dir = d /\ e.ref = b.close /\ e.ts = b.ts
               /\ e.sl = sl /\ e.tp = tp
BY DEF Open

LEMMA DistanceFacts ==
    ASSUME NEW x \in Int, NEW y \in Int
    PROVE  /\ Distance(x, y) \in Nat
           /\ x >= y => Distance(x, y) = x - y
           /\ x <= y => Distance(x, y) = y - x
BY DEF Distance

\* A reward of at least its risk.
LEMMA AtLeastFacts ==
    ASSUME NEW reward \in Int, NEW risk \in Int, NEW tenths \in {12, 15, 18},
           RrAtLeast(reward, risk, tenths)
    PROVE  risk > 0 /\ reward > risk
BY DEF RrAtLeast

-----------------------------------------------------------------------------
(* The session heads.                                                      *)

Ranges == [from : SUBSET Int, high : Int, low : Int]

\* The reward to risk filter keeps out a close beyond the target
\* (asian_range.rs:250).
LEMMA BreakoutsAhead ==
    ASSUME NEW r \in Ranges, r.high >= r.low, NEW b, b.close \in Int,
           NEW buffer \in Nat, NEW tenths \in {12, 15},
           NEW e \in RangeBreakouts(r, b, buffer, tenths)
    PROVE  IsEntry(e, b)
<1> DEFINE h == r.high
           l == r.low
           c == b.close
           mid == (h + l) \div 2
           tp(d) == IF d = "Buy" THEN 2 * h - l ELSE 2 * l - h
<1>1. h \in Int /\ l \in Int /\ c \in Int /\ h >= l
  BY DEF Ranges
<1>2. PICK d \in Dirs :
        /\ e = Open(b, d, c, mid, tp(d))
        /\ IF d = "Buy" THEN c > h + buffer ELSE c < l - buffer
        /\ RrAtLeast(Distance(tp(d), c), Distance(c, mid), tenths)
  BY DEF RangeBreakouts
<1>3. mid \in Int /\ l <= mid /\ mid <= h /\ 2 * mid <= h + l /\ 2 * mid >= h + l - 1
  BY <1>1
<1> HIDE DEF h, l, c, mid
<1>4. tp(d) \in Int
  BY <1>1
<1>5. Distance(c, mid) > 0 /\ Distance(tp(d), c) > Distance(c, mid)
  <2> DEFINE target == tp(d)
             reward == Distance(target, c)
             risk == Distance(c, mid)
  <2>1. RrAtLeast(reward, risk, tenths) /\ target \in Int
    BY <1>2, <1>4
  <2> HIDE DEF tp, target
  <2>2. reward \in Nat /\ risk \in Nat
    BY <1>1, <1>3, <2>1, DistanceFacts
  <2> HIDE DEF reward, risk
  <2>3. risk > 0 /\ reward > risk
    BY <2>1, <2>2, AtLeastFacts
  <2>4. QED BY <2>3 DEF reward, risk, target
<1>6. CASE d = "Buy"
  <2>1. c > h /\ tp(d) = 2 * h - l
    BY <1>1, <1>2, <1>6
  <2>2. Distance(c, mid) = c - mid
    BY <1>1, <1>3, <2>1, DistanceFacts
  <2>3. c < tp(d)
    <3>1. CASE tp(d) <= c
      <4>1. Distance(tp(d), c) = c - tp(d)
        BY <1>1, <1>4, <3>1, DistanceFacts
      <4>2. QED BY <1>1, <1>3, <1>5, <2>1, <2>2, <4>1
    <3>2. QED BY <1>1, <1>4, <3>1
  <2>4. mid < c
    BY <1>1, <1>3, <2>1
  <2>5. e.kind = "Open" /\ e.dir = d /\ e.ref = c /\ e.ts = b.ts /\ e.sl = mid /\ e.tp = tp(d)
    BY <1>2, OpenFacts DEF c
  <2> HIDE DEF tp
  <2>6. QED BY <1>1, <1>3, <1>4, <1>6, <2>3, <2>4, <2>5, SignFacts DEF IsEntry, Ahead
<1>7. CASE d = "Sell"
  <2>1. c < l /\ tp(d) = 2 * l - h
    BY <1>1, <1>2, <1>7
  <2>2. Distance(c, mid) = mid - c
    BY <1>1, <1>3, <2>1, DistanceFacts
  <2>3. tp(d) < c
    <3>1. CASE tp(d) >= c
      <4>1. Distance(tp(d), c) = tp(d) - c
        BY <1>1, <1>4, <3>1, DistanceFacts
      <4>2. QED BY <1>1, <1>3, <1>5, <2>1, <2>2, <4>1
    <3>2. QED BY <1>1, <1>4, <3>1
  <2>4. c < mid
    BY <1>1, <1>3, <2>1
  <2>5. e.kind = "Open" /\ e.dir = d /\ e.ref = c /\ e.ts = b.ts /\ e.sl = mid /\ e.tp = tp(d)
    BY <1>2, OpenFacts DEF c
  <2> HIDE DEF tp
  <2>6. QED BY <1>1, <1>3, <1>4, <1>7, <2>3, <2>4, <2>5, SignFacts DEF IsEntry, Ahead
<1>8. QED BY <1>6, <1>7 DEF Dirs

LEMMA WidenFacts ==
    ASSUME NEW r \in Ranges, NEW b, b.ts \in Int, b.low \in Int, b.high \in Int
    PROVE  Widen(r, b) \in Ranges
BY DEF Widen, Ranges

AsianStates == [day : Int, range : Ranges, taken : BOOLEAN, seen : Nat]

\* A day is traded once: an entry takes the day, and only the next one gives it
\* back (asian_range.rs:105).
LEMMA AsianFacts ==
    ASSUME NEW s \in AsianStates, NEW b, b.ts \in Nat, Readable("AsianRange", b),
           NEW r, r = AsianStep(s, b)
    PROVE  /\ r.st \in AsianStates /\ r.st.day = Day(b.ts)
           /\ \/ /\ r.out = NoSignal
                 /\ (r.st.taken <=> (s.taken /\ s.day = Day(b.ts)))
              \/ IsEntry(r.out, b) /\ r.st.taken /\ ~(s.taken /\ s.day = Day(b.ts))
<1> DEFINE u == AsianUpdate(s, b)
           taken == [u EXCEPT !.taken = TRUE]
<1>1. b.low \in Int /\ b.high \in Int /\ b.close \in Int /\ Day(b.ts) \in Int
  BY SlotsAssumption DEF Readable, Day
<1>2. /\ u \in AsianStates /\ u.day = Day(b.ts)
      /\ (u.taken <=> (s.taken /\ s.day = Day(b.ts)))
  <2> DEFINE today == IF s.day = Day(b.ts) THEN s
                      ELSE [s EXCEPT !.day = Day(b.ts), !.range = NoRange, !.taken = FALSE]
  <2>1. NoRange \in Ranges
    BY DEF NoRange, Ranges
  <2>2. /\ today \in AsianStates /\ today.day = Day(b.ts)
        /\ (today.taken <=> (s.taken /\ s.day = Day(b.ts)))
    BY <1>1, <2>1 DEF AsianStates
  <2>3. Seen(s) \in Nat
    BY DEF Seen, AsianStates
  <2>4. u = [today EXCEPT !.range = IF Slot(b.ts) < AsianEnd THEN Widen(today.range, b)
                                    ELSE today.range,
                          !.seen = Seen(s)]
    BY DEF AsianUpdate
  <2> HIDE DEF today, u
  <2>5. Widen(today.range, b) \in Ranges
    BY <1>1, <2>2, WidenFacts DEF AsianStates
  <2>6. QED BY <2>2, <2>3, <2>4, <2>5 DEF AsianStates
<1>3. r = Step(u, AsianSignals(u, b), taken)
  BY DEF AsianStep
<1> HIDE DEF u
<1>4. taken \in AsianStates /\ taken.taken /\ taken.day = u.day
  BY <1>2 DEF AsianStates
<1>5. ASSUME NEW e \in AsianSignals(u, b)
      PROVE  IsEntry(e, b) /\ ~u.taken
  <2>1. /\ e \in RangeBreakouts(u.range, b, Buffer, 12) /\ ~u.taken
        /\ u.range.high - u.range.low >= MinRange
    BY DEF AsianSignals
  <2>2. u.range \in Ranges /\ u.range.high >= u.range.low
    BY <1>2, <2>1, SlotsAssumption DEF AsianStates, Ranges
  <2>3. QED BY <1>1, <2>1, <2>2, BreakoutsAhead, SlotsAssumption
<1> HIDE DEF taken
<1>6. QED BY <1>2, <1>3, <1>4, <1>5, StepFacts

MomentumStates ==
    [window : {"none", "London", "NewYork"}, range : Ranges, bars : Nat, taken : BOOLEAN,
     seen : Nat]

\* A window is traded once (momentum.rs:98).
LEMMA MomentumFacts ==
    ASSUME NEW s \in MomentumStates, NEW b, b.ts \in Nat, Readable("Momentum", b),
           NEW r, r = MomentumStep(s, b)
    PROVE  /\ r.st \in MomentumStates /\ r.st.window = Window(b.ts)
           /\ \/ /\ r.out = NoSignal
                 /\ (r.st.taken <=> (s.taken /\ s.window = Window(b.ts)))
              \/ IsEntry(r.out, b) /\ r.st.taken /\ ~(s.taken /\ s.window = Window(b.ts))
<1> DEFINE u == MomentumUpdate(s, b)
           taken == [u EXCEPT !.taken = TRUE]
<1>1. b.low \in Int /\ b.high \in Int /\ b.close \in Int
  BY DEF Readable
<1>2. /\ u \in MomentumStates /\ u.window = Window(b.ts)
      /\ (u.taken <=> (s.taken /\ s.window = Window(b.ts)))
  <2> DEFINE w == Window(b.ts)
             here == IF s.window = w THEN s ELSE [MomentumNew EXCEPT !.window = w]
             bars == IF w # "none" /\ here.bars <= FirstBars THEN here.bars + 1 ELSE here.bars
  <2>1. MomentumNew \in MomentumStates /\ ~MomentumNew.taken
    BY DEF MomentumNew, MomentumStates, NoRange, Ranges
  <2>2. w \in {"none", "London", "NewYork"}
    BY DEF Window
  <2>3. /\ here \in MomentumStates /\ here.window = w
        /\ (here.taken <=> (s.taken /\ s.window = w))
    <3> DEFINE new == MomentumNew
    <3>1. new \in MomentumStates /\ ~new.taken
      BY <2>1
    <3> HIDE DEF new, w
    <3>2. /\ [new EXCEPT !.window = w] \in MomentumStates
          /\ [new EXCEPT !.window = w].window = w
          /\ ~[new EXCEPT !.window = w].taken
      BY <2>2, <3>1 DEF MomentumStates
    <3>3. QED BY <3>2 DEF MomentumStates, new
  <2>4. Seen(s) \in Nat
    BY DEF Seen, MomentumStates
  <2>5. u = [here EXCEPT !.bars = bars,
                         !.range = IF w # "none" /\ bars <= FirstBars THEN Widen(here.range, b)
                                   ELSE here.range,
                         !.seen = Seen(s)]
    BY DEF MomentumUpdate
  <2> HIDE DEF here, u
  <2>6. Widen(here.range, b) \in Ranges /\ bars \in Nat
    BY <1>1, <2>3, WidenFacts DEF MomentumStates
  <2> HIDE DEF w, bars
  <2>7. /\ u \in MomentumStates /\ u.window = w /\ (u.taken <=> here.taken)
    BY <2>3, <2>4, <2>5, <2>6 DEF MomentumStates
  <2>8. QED BY <2>3, <2>7 DEF w
<1>3. r = Step(u, MomentumSignals(u, b), taken)
  BY DEF MomentumStep
<1> HIDE DEF u
<1>4. taken \in MomentumStates /\ taken.taken /\ taken.window = u.window
  BY <1>2 DEF MomentumStates
<1>5. ASSUME NEW e \in MomentumSignals(u, b)
      PROVE  IsEntry(e, b) /\ ~u.taken
  <2>1. /\ e \in RangeBreakouts(u.range, b, 0, 15) /\ ~u.taken
        /\ u.range.high - u.range.low >= MinRange
    BY DEF MomentumSignals
  <2>2. u.range \in Ranges /\ u.range.high >= u.range.low
    BY <1>2, <2>1, SlotsAssumption DEF MomentumStates, Ranges
  <2>3. QED BY <1>1, <2>1, <2>2, BreakoutsAhead
<1> HIDE DEF taken
<1>6. QED BY <1>2, <1>3, <1>4, <1>5, StepFacts

-----------------------------------------------------------------------------
(* BreakoutHead.                                                           *)

BreakoutStates ==
    [squeeze : Nat, armed : BOOLEAN, tracked : Dirs \cup {"none"}, since : Nat, seen : Nat]

\* Without its indicators the head has seen nothing.
BreakoutState(s) ==
    /\ s \in BreakoutStates
    /\ ~HasValues(s) => s.squeeze = 0 /\ ~s.armed /\ s.tracked = "none"
    /\ s.squeeze <= MinSqueeze
    /\ s.tracked # "none" => s.since <= FakeoutBars

\* The squeezed bars in a row with bar b.
Squeezed(n, b) == IF b.width # "squeezed" THEN 0 ELSE IF n < MinSqueeze THEN n + 1 ELSE n

LEMMA CountFacts ==
    ASSUME NEW s, s.seen \in Nat
    PROVE  /\ Count(s) \in Nat
           /\ Count(s) >= s.seen
           /\ HasValues(s) => Count(s) >= Ready
BY SetupAssumption, SlotsAssumption DEF Count, HasValues

\* The resets of the head, whatever the rest of its state.
LEMMA Unarmed ==
    ASSUME NEW s \in BreakoutStates, NEW v, v = [s EXCEPT !.armed = FALSE, !.squeeze = 0]
    PROVE  /\ v \in BreakoutStates /\ v.squeeze = 0 /\ ~v.armed /\ v.tracked = s.tracked
           /\ v.seen = s.seen
BY DEF BreakoutStates

LEMMA Tracked ==
    ASSUME NEW s \in BreakoutStates, NEW d \in Dirs, NEW v,
           v = [s EXCEPT !.squeeze = 0, !.armed = FALSE, !.tracked = d, !.since = 0]
    PROVE  /\ v \in BreakoutStates /\ v.squeeze = 0 /\ ~v.armed /\ v.tracked = d
           /\ v.since = 0 /\ v.seen = s.seen
BY DEF BreakoutStates

LEMMA Untracked ==
    ASSUME NEW s \in BreakoutStates
    PROVE  /\ Untrack(s) \in BreakoutStates /\ Untrack(s).squeeze = s.squeeze
           /\ (Untrack(s).armed <=> s.armed) /\ Untrack(s).seen = s.seen
           /\ Untrack(s).tracked = "none"
BY DEF BreakoutStates, Untrack

LEMMA BreakoutSignalFacts ==
    ASSUME NEW s, NEW b, Readable("Breakout", b), NEW e \in BreakoutSignals(s, b)
    PROVE  IsEntry(e, b) /\ s.armed /\ s.tracked = "none" /\ e.dir \in Dirs
<1> DEFINE sl(d) == IF d = "Buy" THEN b.lower ELSE b.upper
<1>1. PICK d \in Dirs :
        /\ e = Open(b, d, b.close, sl(d), b.close + Sign(d) * 2 * b.atr)
        /\ s.armed /\ s.tracked = "none"
        /\ IF d = "Buy" THEN b.close > b.upper ELSE b.close < b.lower
        /\ RrAtLeast(2 * b.atr, Distance(b.close, sl(d)), 18)
  BY DEF BreakoutSignals
<1> DEFINE c == b.close
           a == b.atr
           lo == b.lower
           up == b.upper
<1>2. c \in Int /\ a \in Nat /\ lo \in Int /\ up \in Int /\ lo <= up
  BY DEF Readable
<1>3. sl(d) \in Int /\ Distance(c, sl(d)) \in Nat
  BY <1>2, DistanceFacts
<1>4. 2 * a > 0
  BY <1>1, <1>2, <1>3, AtLeastFacts
<1>5. /\ e.kind = "Open" /\ e.dir = d /\ e.ref = c /\ e.ts = b.ts
      /\ e.sl = sl(d) /\ e.tp = c + Sign(d) * 2 * a
  BY <1>1, OpenFacts
<1>6. CASE d = "Buy"
  <2>1. c > up /\ e.sl = lo
    BY <1>1, <1>5, <1>6
  <2> HIDE DEF c, a, lo, up, sl
  <2>2. e.tp = c + 2 * a
    BY <1>2, <1>5, <1>6, SignFacts
  <2>3. QED BY <1>1, <1>2, <1>4, <1>5, <1>6, <2>1, <2>2, SignFacts DEF IsEntry, Ahead
<1>7. CASE d = "Sell"
  <2>1. c < lo /\ e.sl = up
    BY <1>1, <1>5, <1>7
  <2> HIDE DEF c, a, lo, up, sl
  <2>2. e.tp = c - 2 * a
    BY <1>2, <1>5, <1>7, SignFacts
  <2>3. QED BY <1>1, <1>2, <1>4, <1>5, <1>7, <2>1, <2>2, SignFacts DEF IsEntry, Ahead
<1>8. QED BY <1>6, <1>7 DEF Dirs

\* The three ways a bar ends: nothing, an entry that uses the squeeze up, and a
\* close of the entry that is tracked (breakout.rs:165, :284).
Waits(s, b, r) ==
    /\ r.out = NoSignal
    /\ r.st.squeeze <= Squeezed(s.squeeze, b)
    /\ r.st.armed => s.armed \/ Squeezed(s.squeeze, b) >= MinSqueeze
    /\ r.st.tracked # "none" => r.st.tracked = s.tracked /\ r.st.since = s.since + 1

Enters(s, b, r) ==
    /\ IsEntry(r.out, b) /\ r.out.dir \in Dirs
    /\ s.armed \/ Squeezed(s.squeeze, b) >= MinSqueeze
    /\ r.st.squeeze = 0 /\ ~r.st.armed /\ r.st.tracked = r.out.dir /\ r.st.since = 0

Answers(s, b, r) ==
    /\ r.out = [kind |-> "Close", dir |-> s.tracked, ts |-> b.ts]
    /\ s.tracked # "none" /\ s.since + 1 <= FakeoutBars
    /\ r.st.squeeze = 0 /\ ~r.st.armed /\ r.st.tracked = "none"

LEMMA BreakoutFacts ==
    ASSUME NEW s0, BreakoutState(s0), NEW b, Readable("Breakout", b), NEW r, r = BreakoutStep(s0, b)
    PROVE  /\ BreakoutState(r.st)
           /\ Waits(s0, b, r) \/ Enters(s0, b, r) \/ Answers(s0, b, r)
<1> DEFINE counted == [s0 EXCEPT !.seen = Count(s0)]
           n == Squeezed(s0.squeeze, b)
           s == Tracking(Squeeze(counted, b))
           t == IF s.since > FakeoutBars THEN Untrack(s) ELSE s
           signals == BreakoutSignals(t, b)
<1>1. /\ s0 \in BreakoutStates /\ FakeoutBars \in Nat /\ MinSqueeze \in Nat \ {0}
      /\ Ready \in Nat /\ Count(s0) \in Nat /\ (HasValues(s0) => Count(s0) >= Ready)
      /\ s0.squeeze <= MinSqueeze
  <2>1. s0.seen \in Nat /\ s0.squeeze <= MinSqueeze /\ s0 \in BreakoutStates
    BY DEF BreakoutState, BreakoutStates
  <2>2. QED BY <2>1, CountFacts, SetupAssumption
<1>2. /\ counted \in BreakoutStates /\ counted.squeeze = s0.squeeze /\ counted.armed = s0.armed
      /\ counted.tracked = s0.tracked /\ counted.since = s0.since /\ counted.seen = Count(s0)
  BY <1>1 DEF BreakoutStates
<1>3. n \in Nat /\ n <= MinSqueeze
  BY <1>1 DEF Squeezed, BreakoutStates
<1>4. CASE ~HasValues(s0)
  <2>1. r.out = NoSignal /\ r.st = counted
    BY <1>4 DEF BreakoutStep
  <2>2. s0.squeeze = 0 /\ ~s0.armed /\ s0.tracked = "none"
    BY <1>4 DEF BreakoutState
  <2> HIDE DEF counted
  <2>3. BreakoutState(r.st)
    BY <1>1, <1>2, <2>1, <2>2 DEF BreakoutState
  <2>4. Waits(s0, b, r)
    BY <1>2, <1>3, <2>1, <2>2 DEF Waits
  <2>5. QED BY <2>3, <2>4
<1>5. CASE HasValues(s0)
  <2>1. /\ s \in BreakoutStates /\ s.squeeze = n /\ s.tracked = s0.tracked /\ s.seen = Count(s0)
        /\ (s.armed <=> s0.armed \/ n >= MinSqueeze)
        /\ s.tracked # "none" => s.since = s0.since + 1
    <3> DEFINE q == Squeeze(counted, b)
    <3>1. q = [counted EXCEPT !.squeeze = n, !.armed = counted.armed \/ n >= MinSqueeze]
      BY <1>2 DEF Squeeze, Squeezed
    <3> HIDE DEF counted, n, q
    <3>2. /\ q \in BreakoutStates /\ q.squeeze = n /\ q.tracked = s0.tracked
          /\ (q.armed <=> s0.armed \/ n >= MinSqueeze) /\ q.since = s0.since /\ q.seen = Count(s0)
      BY <1>1, <1>2, <1>3, <3>1 DEF BreakoutStates
    <3>3. s = IF q.tracked = "none" THEN q ELSE [q EXCEPT !.since = q.since + 1]
      BY DEF Tracking, q
    <3> HIDE DEF s
    <3>4. QED BY <3>2, <3>3 DEF BreakoutStates
  <2>2. /\ t \in BreakoutStates /\ t.squeeze = n /\ (t.armed <=> s.armed) /\ t.seen = Count(s0)
        /\ t.tracked # "none" =>
              t.tracked = s0.tracked /\ t.since = s0.since + 1 /\ t.since <= FakeoutBars
    <3> HIDE DEF s, n
    <3>1. /\ Untrack(s) \in BreakoutStates /\ Untrack(s).squeeze = s.squeeze
          /\ (Untrack(s).armed <=> s.armed) /\ Untrack(s).seen = s.seen
          /\ Untrack(s).tracked = "none"
      BY <2>1, Untracked
    <3>2. CASE s.since > FakeoutBars
      BY <2>1, <3>1, <3>2
    <3>3. CASE ~(s.since > FakeoutBars)
      <4>1. t = s /\ s.since <= FakeoutBars
        BY <1>1, <2>1, <3>3 DEF BreakoutStates
      <4>2. QED BY <2>1, <4>1
    <3>4. QED BY <3>2, <3>3
  <2>3. CASE Fakeout(s, b)
    <3>1. /\ r.st = [Untrack(s) EXCEPT !.armed = FALSE, !.squeeze = 0]
          /\ r.out = CloseSignal(s, b)
      BY <1>5, <2>3 DEF BreakoutStep
    <3>2. s.tracked # "none" /\ s.since <= FakeoutBars
      BY <2>3 DEF Fakeout
    <3> HIDE DEF s, n
    <3>3. /\ r.st \in BreakoutStates /\ r.st.squeeze = 0 /\ ~r.st.armed /\ r.st.tracked = "none"
          /\ r.st.seen = Count(s0)
      <4> DEFINE z == Untrack(s)
      <4>1. z \in BreakoutStates /\ z.tracked = "none" /\ z.seen = Count(s0)
        BY <2>1, Untracked
      <4>2. r.st = [z EXCEPT !.armed = FALSE, !.squeeze = 0]
        BY <3>1
      <4> HIDE DEF z
      <4>3. QED BY <4>1, <4>2, Unarmed
    <3>4. BreakoutState(r.st)
      BY <1>1, <3>3 DEF BreakoutState
    <3>5. Answers(s0, b, r)
      BY <2>1, <3>1, <3>2, <3>3 DEF Answers, CloseSignal
    <3>6. QED BY <3>4, <3>5
  <2>4. CASE ~Fakeout(s, b) /\ signals = {}
    <3>1. r.st = Disarmed(t, b) /\ r.out = NoSignal
      BY <1>5, <2>4 DEF BreakoutStep
    <3> HIDE DEF s, t, n
    <3>2. /\ r.st \in BreakoutStates /\ r.st.squeeze = n /\ r.st.seen = Count(s0)
          /\ (r.st.armed => t.armed) /\ r.st.tracked = t.tracked /\ r.st.since = t.since
      BY <2>2, <3>1 DEF Disarmed, BreakoutStates
    <3>3. BreakoutState(r.st)
      BY <1>1, <1>3, <1>5, <2>2, <3>2 DEF BreakoutState, HasValues
    <3>4. Waits(s0, b, r)
      <4>1. n = Squeezed(s0.squeeze, b)
        BY DEF n
      <4>2. r.st.squeeze <= n
        BY <1>3, <3>2
      <4>3. r.st.armed => s0.armed \/ n >= MinSqueeze
        BY <2>1, <2>2, <3>2
      <4>4. r.st.tracked # "none" => r.st.tracked = s0.tracked /\ r.st.since = s0.since + 1
        BY <2>2, <3>2
      <4>5. QED BY <3>1, <4>1, <4>2, <4>3, <4>4 DEF Waits
    <3>5. QED BY <3>3, <3>4
  <2>5. CASE ~Fakeout(s, b) /\ signals # {}
    <3> DEFINE e == CHOOSE x \in signals : TRUE
    <3>1. r.st = Spent(t, e) /\ r.out = e /\ e \in signals
      BY <1>5, <2>5 DEF BreakoutStep
    <3> HIDE DEF e
    <3>2. IsEntry(e, b) /\ t.armed /\ e.dir \in Dirs
      BY <3>1, BreakoutSignalFacts
    <3> HIDE DEF s, t, n
    <3>3. /\ r.st \in BreakoutStates /\ r.st.squeeze = 0 /\ ~r.st.armed /\ r.st.tracked = e.dir
          /\ r.st.since = 0 /\ r.st.seen = Count(s0)
      <4>1. r.st = [t EXCEPT !.squeeze = 0, !.armed = FALSE, !.tracked = e.dir, !.since = 0]
        BY <3>1 DEF Spent
      <4> DEFINE d == e.dir
      <4>2. d \in Dirs /\ r.st = [t EXCEPT !.squeeze = 0, !.armed = FALSE, !.tracked = d, !.since = 0]
        BY <3>2, <4>1
      <4> HIDE DEF d
      <4>3. /\ r.st \in BreakoutStates /\ r.st.squeeze = 0 /\ ~r.st.armed /\ r.st.tracked = d
            /\ r.st.since = 0 /\ r.st.seen = t.seen
        BY <2>2, <4>2, Tracked
      <4>4. QED BY <2>2, <4>3 DEF d
    <3>4. BreakoutState(r.st)
      BY <1>1, <1>5, <3>3 DEF BreakoutState, HasValues
    <3>5. Enters(s0, b, r)
      BY <2>1, <2>2, <3>1, <3>2, <3>3 DEF Enters, n
    <3>6. QED BY <3>4, <3>5
  <2>6. QED BY <2>3, <2>4, <2>5
<1>6. QED BY <1>4, <1>5

-----------------------------------------------------------------------------
(* TrendHead.                                                              *)

TrendStates ==
    [dir : Dirs \cup {"none"}, above : {"yes", "no", "unknown"}, armed : BOOLEAN,
     issued : BOOLEAN, seen : Nat]

TrendState(s) ==
    /\ s \in TrendStates
    /\ ~HasValues(s) => s.above = "unknown" /\ ~s.issued

LEMMA TrendSignalFacts ==
    ASSUME NEW s, NEW b, Readable("Trend", b), NEW e \in TrendSignals(s, b)
    PROVE  IsEntry(e, b) /\ ~s.issued
<1> DEFINE c == b.close
           m == b.ema
           a == (15 * b.atr) \div 10
           sl(d) == m - Sign(d) * a
           risk(d) == Distance(c, sl(d))
<1>1. PICK d \in Dirs :
        /\ e = Open(b, d, c, sl(d), c + Sign(d) * ((25 * risk(d)) \div 10))
        /\ ~s.issued
        /\ IF d = "Buy" THEN c > m ELSE c < m
  BY DEF TrendSignals, Awaits
<1> DEFINE gain == (25 * risk(d)) \div 10
<1>2. c \in Int /\ m \in Int /\ b.atr \in Nat
  BY DEF Readable
<1>3. a \in Nat
  BY <1>2
<1>4. /\ e.kind = "Open" /\ e.dir = d /\ e.ref = c /\ e.ts = b.ts
      /\ e.sl = sl(d) /\ e.tp = c + Sign(d) * gain
  BY <1>1, OpenFacts
<1> HIDE DEF c, m, a
<1>5. CASE d = "Buy"
  <2>1. c > m /\ sl(d) = m - a
    BY <1>1, <1>2, <1>3, <1>5, SignFacts
  <2>2. risk(d) = c - (m - a) /\ risk(d) \in Nat
    <3> DEFINE stop == sl(d)
    <3>1. stop = m - a /\ stop \in Int /\ stop < c
      BY <1>2, <1>3, <2>1
    <3>2. risk(d) = Distance(c, stop)
      OBVIOUS
    <3> HIDE DEF risk, stop, sl
    <3>3. Distance(c, stop) = c - stop
      BY <1>2, <3>1, DistanceFacts
    <3>4. QED BY <1>2, <1>3, <3>1, <3>2, <3>3
  <2>3. gain > 0 /\ gain \in Int
    <3> HIDE DEF risk
    <3>1. risk(d) > 0
      BY <1>2, <1>3, <2>1, <2>2
    <3>2. QED BY <2>2, <3>1
  <2> HIDE DEF sl, risk, gain
  <2>4. QED BY <1>1, <1>2, <1>3, <1>4, <1>5, <2>1, <2>3, SignFacts DEF IsEntry, Ahead
<1>6. CASE d = "Sell"
  <2>1. c < m /\ sl(d) = m + a
    BY <1>1, <1>2, <1>3, <1>6, SignFacts
  <2>2. risk(d) = (m + a) - c /\ risk(d) \in Nat
    <3> DEFINE stop == sl(d)
    <3>1. stop = m + a /\ stop \in Int /\ c < stop
      BY <1>2, <1>3, <2>1
    <3>2. risk(d) = Distance(c, stop)
      OBVIOUS
    <3> HIDE DEF risk, stop, sl
    <3>3. Distance(c, stop) = stop - c
      BY <1>2, <3>1, DistanceFacts
    <3>4. QED BY <1>2, <1>3, <3>1, <3>2, <3>3
  <2>3. gain > 0 /\ gain \in Int
    <3> HIDE DEF risk
    <3>1. risk(d) > 0
      BY <1>2, <1>3, <2>1, <2>2
    <3>2. QED BY <2>2, <3>1
  <2> HIDE DEF sl, risk, gain
  <2>4. QED BY <1>1, <1>2, <1>3, <1>4, <1>6, <2>1, <2>3, SignFacts DEF IsEntry, Ahead
<1>7. QED BY <1>5, <1>6 DEF Dirs

\* A leg of the trend gives one entry: the next needs a cross of the averages
\* (trend.rs:117).
LEMMA TrendFacts ==
    ASSUME NEW s0, TrendState(s0), NEW b, Readable("Trend", b), NEW r, r = TrendStep(s0, b)
    PROVE  /\ TrendState(r.st) /\ r.st.above \in {"unknown", b.above}
           /\ \/ /\ r.out = NoSignal
                 /\ (r.st.issued <=> (s0.issued /\ ~Crossed(s0, b)))
              \/ IsEntry(r.out, b) /\ r.st.issued /\ ~(s0.issued /\ ~Crossed(s0, b))
<1> DEFINE u == TrendUpdate(s0, b)
           s == TrendArm(u, b)
           after == [s EXCEPT !.issued = TRUE, !.armed = FALSE]
           counted == [s0 EXCEPT !.seen = Count(s0)]
<1>1. /\ s0 \in TrendStates /\ Count(s0) \in Nat /\ (HasValues(s0) => Count(s0) >= Ready)
      /\ Ready \in Nat /\ b.above \in {"yes", "no"}
  <2>1. s0.seen \in Nat /\ s0 \in TrendStates
    BY DEF TrendState, TrendStates
  <2>2. QED BY <2>1, CountFacts, SetupAssumption DEF Readable
<1>2. CASE ~HasValues(s0)
  <2>1. r.out = NoSignal /\ r.st = counted
    BY <1>2 DEF TrendStep
  <2>2. s0.above = "unknown" /\ ~s0.issued
    BY <1>2 DEF TrendState
  <2>3. counted \in TrendStates /\ counted.above = "unknown" /\ ~counted.issued
    BY <1>1, <2>2 DEF TrendStates
  <2> HIDE DEF counted
  <2>4. QED BY <2>1, <2>2, <2>3 DEF TrendState
<1>3. CASE HasValues(s0)
  <2>1. /\ u \in TrendStates /\ u.above = b.above /\ u.seen = Count(s0)
        /\ (u.issued <=> (s0.issued /\ ~Crossed(s0, b)))
    <3> DEFINE fresh == IF Crossed(s0, b)
                        THEN [s0 EXCEPT !.dir = "none", !.armed = FALSE, !.issued = FALSE]
                        ELSE s0
               dir == IF b.strong THEN (IF b.above = "yes" THEN "Buy" ELSE "Sell") ELSE fresh.dir
    <3>1. fresh \in TrendStates /\ (fresh.issued <=> (s0.issued /\ ~Crossed(s0, b)))
      BY <1>1 DEF TrendStates
    <3>2. u = [fresh EXCEPT !.above = b.above, !.seen = Count(s0), !.dir = dir]
      BY DEF TrendUpdate
    <3> HIDE DEF fresh, u
    <3>3. dir \in Dirs \cup {"none"}
      BY <3>1 DEF TrendStates, Dirs
    <3> HIDE DEF dir
    <3>4. QED BY <1>1, <3>1, <3>2, <3>3 DEF TrendStates
  <2>2. /\ s \in TrendStates /\ s.above = b.above /\ s.seen = Count(s0)
        /\ (s.issued <=> u.issued)
    <3> HIDE DEF u
    <3>1. QED BY <2>1 DEF TrendArm, TrendStates
  <2>3. r = Step(s, TrendSignals(s, b), after)
    BY <1>3 DEF TrendStep
  <2> HIDE DEF s
  <2>4. after \in TrendStates /\ after.above = s.above /\ after.issued /\ after.seen = s.seen
    BY <2>2 DEF TrendStates
  <2> HIDE DEF after, u
  <2>5. TrendState(s) /\ TrendState(after)
    BY <1>1, <1>3, <2>2, <2>4 DEF TrendState, HasValues
  <2>6. \A e \in TrendSignals(s, b) : IsEntry(e, b) /\ ~s.issued
    BY TrendSignalFacts
  <2>7. QED BY <2>1, <2>2, <2>3, <2>4, <2>5, <2>6, StepFacts
<1>4. QED BY <1>2, <1>3

-----------------------------------------------------------------------------
(* NewsHead.                                                               *)

Entries ==
    [kind : {"Open"}, dir : Dirs, entry : Int, ref : Int, sl : Int, tp : Int, ts : Int, at : Int]

NewsStates == [pending : SUBSET Entries, since : Nat, seen : Nat]

NewsState(s) ==
    /\ s \in NewsStates
    /\ \A p \in s.pending : Ahead(p)
    /\ s.since <= NewsCool + 1
    /\ s.pending # {} => s.since >= NewsCool

\* A spike without risk is thrown away (news.rs:165).
LEMMA SpikeFacts ==
    ASSUME NEW b, Readable("News", b), b.ts \in Int, NEW e \in Spike(b)
    PROVE  e \in Entries /\ Ahead(e)
<1> DEFINE d == IF 2 * b.close >= b.high + b.low THEN "Buy" ELSE "Sell"
           a == (3 * b.atr) \div 10
           sl == IF d = "Buy" THEN b.low - a ELSE b.high + a
           c == b.close
           risk == Distance(c, sl)
           tp == c + Sign(d) * 2 * risk
<1>1. e = Open(b, d, 0, sl, tp) /\ Sign(d) * sl < Sign(d) * c
  BY DEF Spike
<1>2. d \in Dirs /\ c \in Int /\ a \in Int /\ sl \in Int
  <2>1. b.close \in Int /\ b.low \in Int /\ b.high \in Int /\ b.atr \in Nat
    BY DEF Readable
  <2>2. a \in Int
    BY <2>1
  <2>3. QED BY <2>1, <2>2 DEF Dirs
<1> HIDE DEF d, a, sl, c
<1>3. risk \in Nat /\ risk > 0
  <2>1. CASE d = "Buy"
    <3>1. sl < c
      BY <1>1, <1>2, <2>1, SignFacts
    <3>2. Distance(c, sl) = c - sl
      BY <1>2, <3>1, DistanceFacts
    <3>3. QED BY <1>2, <3>1, <3>2
  <2>2. CASE d = "Sell"
    <3>1. sl > c
      BY <1>1, <1>2, <2>2, SignFacts
    <3>2. Distance(c, sl) = sl - c
      BY <1>2, <3>1, DistanceFacts
    <3>3. QED BY <1>2, <3>1, <3>2
  <2>3. QED BY <1>2, <2>1, <2>2 DEF Dirs
<1> HIDE DEF risk
<1>4. tp \in Int /\ Sign(d) * c < Sign(d) * tp
  BY <1>2, <1>3, SignFacts DEF Dirs
<1> HIDE DEF tp
<1>5. e = [kind |-> "Open", dir |-> d, entry |-> 0, ref |-> c, sl |-> sl, tp |-> tp,
           ts |-> b.ts, at |-> b.ts]
  BY <1>1 DEF Open, c
<1>6. QED BY <1>1, <1>2, <1>4, <1>5 DEF Entries, Ahead

\* An entry is queued no sooner than the cool-down and fires on the bar behind
\* (news.rs:107).
LEMMA NewsFacts ==
    ASSUME NEW s, NewsState(s), NEW b, Readable("News", b), b.ts \in Int,
           NEW r, r = NewsStep(s, b)
    PROVE  /\ NewsState(r.st)
           /\ \/ /\ r.out = NoSignal
                 /\ r.st.since \in {s.since + 1, NewsCool + 1} /\ r.st.since <= s.since + 1
              \/ IsEntry(r.out, b) /\ s.since >= NewsCool /\ r.st.since = 0
<1>1. /\ s \in NewsStates /\ s.since \in Nat /\ NewsCool \in Nat /\ Count(s) \in Nat
      /\ s.since <= NewsCool + 1
  BY CountFacts, SetupAssumption DEF NewsState, NewsStates
<1>2. CASE s.pending # {}
  <2> DEFINE p == CHOOSE q \in s.pending : TRUE
  <2>1. /\ r.st = [pending |-> {}, since |-> 0, seen |-> Count(s)]
        /\ r.out = [p EXCEPT !.ts = b.ts]
    BY <1>2 DEF NewsStep
  <2>2. p \in Entries /\ Ahead(p)
    BY <1>1, <1>2 DEF NewsState, NewsStates
  <2> HIDE DEF p
  <2>3. IsEntry(r.out, b)
    <3>1. /\ r.out.kind = "Open" /\ r.out.ts = b.ts /\ r.out.dir = p.dir /\ r.out.sl = p.sl
          /\ r.out.tp = p.tp /\ r.out.ref = p.ref
      BY <2>1, <2>2 DEF Entries
    <3>2. QED BY <2>2, <3>1 DEF IsEntry, Ahead
  <2>4. NewsState(r.st) /\ r.st.since = 0
    BY <1>1, <2>1 DEF NewsState, NewsStates
  <2>5. s.since >= NewsCool
    BY <1>2 DEF NewsState
  <2>6. QED BY <2>3, <2>4, <2>5
<1>3. CASE s.pending = {}
  <2> DEFINE new == IF HasValues(s) /\ ~Dead(b.ts) /\ Older(s) >= NewsCool THEN Spike(b) ELSE {}
  <2>1. r.st = [pending |-> new, since |-> Older(s), seen |-> Count(s)] /\ r.out = NoSignal
    BY <1>3 DEF NewsStep
  <2>2. /\ Older(s) \in {s.since + 1, NewsCool + 1} /\ Older(s) <= s.since + 1
        /\ Older(s) \in Nat /\ Older(s) <= NewsCool + 1
    BY <1>1 DEF Older
  <2>3. /\ new \subseteq Entries /\ (\A q \in new : Ahead(q))
        /\ new # {} => Older(s) >= NewsCool
    BY SpikeFacts
  <2> HIDE DEF new
  <2>4. /\ r.st \in NewsStates /\ r.st.pending = new /\ r.st.since = Older(s)
    BY <1>1, <2>1, <2>2, <2>3 DEF NewsStates
  <2>5. NewsState(r.st)
    BY <2>2, <2>3, <2>4 DEF NewsState
  <2>6. QED BY <2>1, <2>2, <2>4, <2>5
<1>4. QED BY <1>2, <1>3

-----------------------------------------------------------------------------
(* The scalpers and the grid never signal.                                 *)

LEMMA WrapFacts ==
    ASSUME NEW n \in Nat, NEW h \in Nat, n < h
    PROVE  (n + 2 * h) % (2 * h) = n
<1> DEFINE k == 2 * h
           t == n + k
           q == t \div k
           r == t % k
<1>1. k \in Nat /\ k > 0 /\ t \in Nat /\ n < k
  OBVIOUS
<1>2. q \in Int /\ r \in 0..(k - 1) /\ t = k * q + r
  <2> HIDE DEF k, t
  <2>1. QED BY <1>1
<1> HIDE DEF q, r
<1>3. t = n + k
  OBVIOUS
<1> HIDE DEF k, t
<1>4. q = 1
  <2>1. CASE q < 1
    <3>1. PICK d \in Nat : q = -d
      <4>1. -q \in Nat /\ q = -(-q)
        BY <1>2, <2>1
      <4>2. QED BY <4>1
    <3>2. k * d \in Nat /\ k * q = -(k * d)
      BY <1>1, <3>1
    <3>3. QED BY <1>1, <1>2, <1>3, <3>2
  <2>2. CASE q > 1
    <3>1. PICK d \in Nat : q = 2 + d
      <4>1. q - 2 \in Nat /\ q = 2 + (q - 2)
        BY <1>2, <2>2
      <4>2. QED BY <4>1
    <3>2. k * d \in Nat /\ k * q = 2 * k + k * d
      BY <1>1, <3>1
    <3>3. QED BY <1>1, <1>2, <1>3, <3>2
  <2>3. QED BY <1>2, <2>1, <2>2
<1>5. r = n
  BY <1>1, <1>2, <1>3, <1>4
<1>6. QED BY <1>5 DEF r, k, t

ScalpState(s) ==
    /\ DOMAIN s = {"prev", "last", "count", "seen"}
    /\ s.last = -Half /\ s.count \in Nat

\* Nothing is as far away as the signal that was never given
\* (scalp_m1.rs:135).
LEMMA ScalpFacts ==
    ASSUME NEW s, ScalpState(s), s.count + 1 < Half, NEW b, NEW r, r = ScalpStep(s, b)
    PROVE  r.out = NoSignal /\ ScalpState(r.st) /\ r.st.count <= s.count + 1
<1> DEFINE u == ScalpUpdate(s, b)
<1>1. ScalpState(u) /\ u.count = s.count + 1
  BY DEF ScalpUpdate, ScalpState
<1> HIDE DEF u
<1>2. SinceSignal(u) < 0
  <2>1. u.count \in Nat /\ u.count < Half /\ Half \in Nat /\ u.last = -Half
    BY <1>1, SetupAssumption DEF ScalpState
  <2>2. (u.count - u.last) - Lowest = u.count + 2 * Half
    BY <2>1 DEF Lowest
  <2>3. SinceSignal(u) = u.count - Half
    BY <2>1, <2>2, WrapFacts DEF SinceSignal, Wrap, Lowest
  <2>4. QED BY <2>1, <2>3
<1>3. SinceSignal(u) \in Int
  BY <1>1, SetupAssumption DEF SinceSignal, Wrap, Lowest, ScalpState
<1>4. ScalpSignals(s.prev, u, b) = {}
  BY <1>2, <1>3, SetupAssumption DEF ScalpSignals
<1>5. r = [st |-> u, out |-> NoSignal] \/ r = [st |-> s, out |-> NoSignal]
  BY <1>4 DEF ScalpStep, Step, u
<1>6. QED BY <1>1, <1>5 DEF ScalpState

\* No level pays 1.5 times its stop (grid.rs:165).
LEMMA GridFacts ==
    ASSUME NEW s, NEW b, Readable("Grid", b)
    PROVE  GridStep(s, b).out = NoSignal
<1>1. ~RrAtLeast(b.atr, (12 * b.atr) \div 10, 15)
  <2> DEFINE a == b.atr
             risk == (12 * a) \div 10
  <2>1. a \in Nat
    BY DEF Readable
  <2> HIDE DEF a
  <2>2. risk \in Nat /\ risk >= a
    BY <2>1
  <2> HIDE DEF risk
  <2>3. ~RrAtLeast(a, risk, 15)
    BY <2>1, <2>2 DEF RrAtLeast
  <2>4. QED BY <2>3 DEF a, risk
<1>2. \A v : GridSignals(v, b) = {}
  BY <1>1 DEF GridSignals
<1>3. QED BY <1>2 DEF GridStep, Step

-----------------------------------------------------------------------------
(* VolProfileHead.                                                         *)

ProfileState(s) == s.count \in Nat /\ s.last \in Int /\ s.last <= s.count /\ s.seen \in Nat

LEMMA EdgeFacts ==
    ASSUME NEW b, NEW d \in Dirs, NEW levels, NEW e \in EdgeSignal(b, d, levels)
    PROVE  IsEntry(e, b)
<1> DEFINE edge == IF d = "Buy" THEN levels.val ELSE levels.vah
           scaled == Scale * b.close
           sl == edge - Sign(d) * Scale * ((8 * b.atr) \div 10)
<1>1. /\ e = [Open(b, d, 0, sl, levels.poc) EXCEPT !.ref = scaled]
      /\ Sign(d) * sl < Sign(d) * scaled /\ Sign(d) * scaled < Sign(d) * levels.poc
  BY DEF EdgeSignal
<1> HIDE DEF scaled, sl
<1>2. /\ e.kind = "Open" /\ e.dir = d /\ e.ref = scaled /\ e.ts = b.ts /\ e.sl = sl
      /\ e.tp = levels.poc
  BY <1>1 DEF Open
<1>3. QED BY <1>1, <1>2 DEF IsEntry, Ahead

\* The cool-down is counted in bars (vol_profile.rs:244).
LEMMA ProfileFacts ==
    ASSUME NEW s0, ProfileState(s0), NEW b, NEW r, r = ProfileStep(s0, b)
    PROVE  /\ ProfileState(r.st) /\ r.st.count = s0.count + 1
           /\ \/ r.out = NoSignal /\ r.st.last = s0.last
              \/ /\ IsEntry(r.out, b) /\ r.st.last = r.st.count
                 /\ s0.last = -1 \/ r.st.count - s0.last >= ProfileCool
<1> DEFINE sample == [low |-> b.low, high |-> b.high, volume |-> b.volume]
           bars == LastOf(Append(s0.bars, sample), Lookback)
           s == [bars |-> bars, last |-> s0.last, count |-> s0.count + 1, seen |-> Count(s0)]
           after == [s EXCEPT !.last = s.count]
<1>1. r = Step(s, ProfileSignals(s, b), after)
  BY DEF ProfileStep
<1>2. Count(s0) \in Nat
  BY CountFacts DEF ProfileState
<1> HIDE DEF bars
<1>3. /\ ProfileState(s) /\ s.count = s0.count + 1 /\ s.last = s0.last
      /\ ProfileState(after) /\ after.count = s0.count + 1 /\ after.last = after.count
  BY <1>2 DEF ProfileState
<1> HIDE DEF s
<1>4. ASSUME NEW e \in ProfileSignals(s, b)
      PROVE  IsEntry(e, b) /\ (s.last = -1 \/ s.count - s.last >= ProfileCool)
  <2>1. s.last = -1 \/ s.count - s.last >= ProfileCool
    BY DEF ProfileSignals
  <2>2. e \in EdgeSignal(b, "Buy", Levels(s.bars)) \/ e \in EdgeSignal(b, "Sell", Levels(s.bars))
    BY DEF ProfileSignals
  <2>3. QED BY <2>1, <2>2, EdgeFacts DEF Dirs
<1> HIDE DEF after
<1>5. CASE r.st = s /\ r.out = NoSignal
  BY <1>3, <1>5
<1>6. CASE r.out \in ProfileSignals(s, b) /\ r.st = after
  BY <1>3, <1>4, <1>6
<1>7. QED BY <1>1, <1>5, <1>6, StepFacts

-----------------------------------------------------------------------------
(* SmcHead.                                                                *)

\* Of finitely many numbers, one is the largest.
LEMMA Largest ==
    ASSUME NEW n \in Nat \ {0}, NEW f, \A i \in 1 .. n : f[i] \in Int
    PROVE  \E k \in 1 .. n : \A i \in 1 .. n : f[i] <= f[k]
<1> DEFINE Top(m, k) == \A i \in 1 .. m : f[i] <= f[k]
           bad == { m \in Nat : m \in 1 .. n /\ ~\E k \in 1 .. m : Top(m, k) }
<1>1. CASE bad = {}
  <2>1. n \in 1 .. n /\ n \in Nat
    OBVIOUS
  <2>2. QED BY <1>1, <2>1
<1>2. CASE bad # {}
  <2>1. PICK m \in bad : \A y \in bad : ~(<<y, m>> \in OpToRel(<, Nat))
    BY <1>2, WFMin, NatLessThanWellFounded
  <2>2. m \in 1 .. n /\ ~\E k \in 1 .. m : Top(m, k)
    OBVIOUS
  <2>3. m # 1
    <3>1. SUFFICES ASSUME m = 1 PROVE FALSE
      OBVIOUS
    <3>2. Top(1, 1)
      OBVIOUS
    <3>3. QED BY <2>2, <3>1, <3>2
  <2>4. m - 1 \in 1 .. n /\ m - 1 \in Nat /\ m - 1 < m
    BY <2>2, <2>3
  <2>5. m - 1 \notin bad
    BY <2>1, <2>4 DEF OpToRel
  <2>6. PICK k \in 1 .. m - 1 : Top(m - 1, k)
    BY <2>4, <2>5
  <2>7. f[k] \in Int /\ f[m] \in Int
    BY <2>2, <2>4, <2>6
  <2>8. CASE f[m] <= f[k]
    <3>1. Top(m, k) /\ k \in 1 .. m
      BY <2>2, <2>4, <2>6, <2>8
    <3>2. QED BY <2>2, <3>1
  <2>9. CASE f[m] > f[k]
    <3>1. Top(m, m) /\ m \in 1 .. m
      BY <2>2, <2>4, <2>6, <2>7, <2>9
    <3>2. QED BY <2>2, <3>1
  <2>10. QED BY <2>7, <2>8, <2>9
<1>3. QED BY <1>1, <1>2

LEMMA Smallest ==
    ASSUME NEW H \in SUBSET Nat, H # {}
    PROVE  \E i \in H : \A j \in H : i <= j
<1>1. PICK i \in H : \A y \in H : ~(<<y, i>> \in OpToRel(<, Nat))
  BY WFMin, NatLessThanWellFounded
<1>2. ASSUME NEW j \in H PROVE i <= j
  <2>1. i \in Nat /\ j \in Nat
    OBVIOUS
  <2>2. <<j, i>> \notin OpToRel(<, Nat)
    BY <1>1
  <2>3. ~(j < i)
    BY <2>1, <2>2 DEF OpToRel
  <2>4. QED BY <2>1, <2>3
<1>3. QED BY <1>2

LEMMA LastOfFacts ==
    ASSUME NEW S, NEW q \in Seq(S), NEW n \in Nat
    PROVE  /\ LastOf(q, n) \in Seq(S)
           /\ Len(LastOf(q, n)) = IF Len(q) <= n THEN Len(q) ELSE n
<1>1. CASE Len(q) <= n
  BY <1>1 DEF LastOf
<1>2. CASE ~(Len(q) <= n)
  <2> DEFINE a == Len(q) - n + 1
             z == Len(q)
  <2>1. a \in Int /\ z \in Int /\ \A i \in a .. z : q[i] \in S
    BY <1>2
  <2>2. LastOf(q, n) = SubSeq(q, a, z)
    BY <1>2 DEF LastOf
  <2>3. z - a + 1 = n /\ (a <= z \/ n = 0)
    BY <1>2
  <2> HIDE DEF a, z
  <2>4. SubSeq(q, a, z) \in Seq(S) /\ Len(SubSeq(q, a, z)) = IF a <= z THEN z - a + 1 ELSE 0
    BY <2>1, SubSeqProperties
  <2>5. QED BY <1>2, <2>1, <2>2, <2>3, <2>4
<1>3. QED BY <1>1, <1>2

Candles == [open : Int, close : Int, high : Int, low : Int, ts : Int]

BlockZones == [dir : Dirs, low : Int, high : Int, at : Int, target : Int]
GapZones   == [dir : Dirs, low : Int, high : Int, at : Int]

\* The head remembers as many bars as it reads, or all it has seen.
SmcState(s) ==
    /\ s \in [bars : Seq(Candles), blocks : Seq(BlockZones), gaps : Seq(GapZones),
              last : Int, seen : Nat]
    /\ \A i \in 1 .. Len(s.gaps) : s.gaps[i].low <= s.gaps[i].high
    /\ Len(s.bars) = Impulse + 1 \/ Len(s.bars) \in s.seen .. Impulse

\* The target of a block is a price of its impulse.
LEMMA BlocksFacts ==
    ASSUME NEW bars \in Seq(Candles), Len(bars) = Impulse + 1, NEW atr
    PROVE  Blocks(bars, atr) \subseteq BlockZones
<1> SUFFICES ASSUME NEW z \in Blocks(bars, atr) PROVE z \in BlockZones
  OBVIOUS
<1> DEFINE impulse == LastOf(bars, Impulse)
           base == bars[Len(bars) - Impulse]
           end(d) == [i \in 1 .. Impulse |-> IF d = "Buy" THEN impulse[i].high ELSE impulse[i].low]
           ends(d) == { IF d = "Buy" THEN impulse[i].high ELSE impulse[i].low : i \in 1 .. Impulse }
           target(d) == CHOOSE x \in ends(d) : \A y \in ends(d) : Sign(d) * x >= Sign(d) * y
<1>1. PICK d \in Dirs : z = [dir |-> d, low |-> base.low, high |-> base.high,
                             at |-> bars[Len(bars)].ts, target |-> target(d)]
  BY DEF Blocks
<1>2. Impulse \in Nat \ {0, 1}
  BY ZonesAssumption
<1>3. impulse \in Seq(Candles) /\ Len(impulse) = Impulse
  BY <1>2, LastOfFacts
<1>4. base \in Candles /\ bars[Len(bars)] \in Candles
  <2>1. Len(bars) - Impulse = 1 /\ 1 \in 1 .. Len(bars) /\ Len(bars) \in 1 .. Len(bars)
    BY <1>2
  <2>2. QED BY <2>1
<1> HIDE DEF impulse
<1>5. \A i \in 1 .. Impulse : impulse[i].high \in Int /\ impulse[i].low \in Int
  <2>1. \A i \in 1 .. Impulse : impulse[i] \in Candles
    BY <1>2, <1>3
  <2>2. QED BY <2>1 DEF Candles
<1>6. target(d) \in Int
  <2> DEFINE f == [i \in 1 .. Impulse |-> IF d = "Buy" THEN impulse[i].high ELSE -impulse[i].low]
  <2>1. \A i \in 1 .. Impulse : f[i] \in Int
    BY <1>5
  <2>2. PICK k \in 1 .. Impulse : \A i \in 1 .. Impulse : f[i] <= f[k]
    <3> HIDE DEF f
    <3>1. QED BY <1>2, <2>1, Largest
  <2> DEFINE x == IF d = "Buy" THEN impulse[k].high ELSE impulse[k].low
  <2>3. x \in ends(d) /\ \A y \in ends(d) : Sign(d) * x >= Sign(d) * y
    <3>1. x \in ends(d)
      BY <2>2
    <3>2. ASSUME NEW y \in ends(d) PROVE Sign(d) * x >= Sign(d) * y
      <4>1. PICK i \in 1 .. Impulse : y = IF d = "Buy" THEN impulse[i].high ELSE impulse[i].low
        BY <3>2
      <4>2. f[i] <= f[k]
        BY <2>2, <4>1
      <4>3. CASE d = "Buy"
        <5>1. y <= x /\ x \in Int /\ y \in Int
          BY <1>5, <2>2, <4>1, <4>2, <4>3
        <5> HIDE DEF x
        <5>2. QED BY <4>3, <5>1, SignFacts
      <4>4. CASE d = "Sell"
        <5>1. x <= y /\ x \in Int /\ y \in Int
          BY <1>5, <2>2, <4>1, <4>2, <4>4
        <5> HIDE DEF x
        <5>2. QED BY <4>4, <5>1, SignFacts
      <4>5. QED BY <4>3, <4>4 DEF Dirs
    <3>3. QED BY <3>1, <3>2
  <2>4. ends(d) \subseteq Int
    BY <1>5
  <2> HIDE DEF ends, x
  <2>5. QED BY <2>3, <2>4
<1> HIDE DEF target, base
<1>7. QED BY <1>1, <1>4, <1>6 DEF BlockZones, Candles

LEMMA GapsFacts ==
    ASSUME NEW bars \in Seq(Candles), Len(bars) = Impulse + 1
    PROVE  Gaps(bars) \subseteq GapZones /\ \A z \in Gaps(bars) : z.low <= z.high
<1>1. Impulse \in Nat \ {0, 1}
  BY ZonesAssumption
<1> DEFINE b0 == bars[Len(bars) - 2]
           b2 == bars[Len(bars)]
<1>2. b0 \in Candles /\ b2 \in Candles
  BY <1>1
<1> HIDE DEF b0, b2
<1>3. /\ b0.high \in Int /\ b0.low \in Int /\ b2.high \in Int /\ b2.low \in Int /\ b2.ts \in Int
  BY <1>2 DEF Candles
<1>4. Gaps(bars) =
        (IF b0.high < b2.low
         THEN {[dir |-> "Buy", low |-> b0.high, high |-> b2.low, at |-> b2.ts]} ELSE {})
        \cup
        (IF b2.high < b0.low
         THEN {[dir |-> "Sell", low |-> b2.high, high |-> b0.low, at |-> b2.ts]} ELSE {})
  BY DEF Gaps, b0, b2
<1>5. QED BY <1>3, <1>4 DEF GapZones, Dirs

\* One more zone, of those found, the oldest ones forgotten.
LEMMA KeepFacts ==
    ASSUME NEW S, NEW zones \in Seq(S), NEW new, new \subseteq S
    PROVE  Keep(zones, new) \in Seq(S)
<1> DEFINE more == IF new = {} THEN <<>> ELSE <<CHOOSE z \in new : TRUE>>
<1>1. more \in Seq(S)
  BY DEF more
<1>2. zones \o more \in Seq(S)
  BY <1>1
<1>3. MaxZones \in Nat
  BY ZonesAssumption
<1>4. QED BY <1>2, <1>3, LastOfFacts DEF Keep

\* A zone the bar came back to lies behind its close, and the stop behind that.
LEMMA ZoneFacts ==
    ASSUME NEW z, z.dir \in Dirs, z.low \in Int, z.high \in Int, NEW b, Readable("Smc", b),
           Sign(z.dir) * b.close > Sign(z.dir) * Far(z)
    PROVE  /\ ZoneStop(z, b) \in Int /\ ZoneTarget(z, b) \in Int
           /\ Sign(z.dir) * ZoneStop(z, b) < Sign(z.dir) * b.close
           /\ Sign(z.dir) * b.close < Sign(z.dir) * ZoneTarget(z, b)
<1> DEFINE d == z.dir
           c == b.close
           far == Far(z)
           a == (5 * b.atr) \div 10
           stop == ZoneStop(z, b)
           target == ZoneTarget(z, b)
           risk == Distance(c, stop)
<1>1. c \in Int /\ far \in Int /\ b.atr \in Nat
  BY DEF Readable, Far
<1>2. a \in Nat
  BY <1>1
<1>3. stop = far - Sign(d) * a /\ target = c + Sign(d) * 2 * risk
  BY DEF ZoneStop, ZoneTarget
<1>4. Sign(d) * c > Sign(d) * far /\ d \in Dirs
  OBVIOUS
<1> HIDE DEF d, c, far, a, stop, target, risk
<1>5. CASE d = "Buy"
  <2>1. stop \in Int /\ stop < c
    BY <1>1, <1>2, <1>3, <1>4, <1>5, SignFacts
  <2>2. Distance(c, stop) = c - stop
    BY <1>1, <2>1, DistanceFacts
  <2>3. risk \in Int /\ risk > 0
    BY <1>1, <2>1, <2>2 DEF risk
  <2>4. /\ stop \in Int /\ target \in Int /\ Sign(d) * stop < Sign(d) * c
        /\ Sign(d) * c < Sign(d) * target
    BY <1>1, <1>3, <1>5, <2>1, <2>3, SignFacts
  <2>5. QED BY <2>4 DEF stop, target, c, d
<1>6. CASE d = "Sell"
  <2>1. stop \in Int /\ stop > c
    BY <1>1, <1>2, <1>3, <1>4, <1>6, SignFacts
  <2>2. Distance(c, stop) = stop - c
    BY <1>1, <2>1, DistanceFacts
  <2>3. risk \in Int /\ risk > 0
    BY <1>1, <2>1, <2>2 DEF risk
  <2>4. /\ stop \in Int /\ target \in Int /\ Sign(d) * stop < Sign(d) * c
        /\ Sign(d) * c < Sign(d) * target
    BY <1>1, <1>3, <1>6, <2>1, <2>3, SignFacts
  <2>5. QED BY <2>4 DEF stop, target, c, d
<1>7. QED BY <1>4, <1>5, <1>6 DEF Dirs

LEMMA BlockSignalFacts ==
    ASSUME NEW s, s.blocks \in Seq(BlockZones), NEW b, Readable("Smc", b),
           NEW e \in BlockSignals(s, b)
    PROVE  IsEntry(e, b)
<1> DEFINE zones == s.blocks
           hits == { i \in 1 .. Len(zones) : InBlock(zones[i], b) }
           first == CHOOSE i \in hits : \A j \in hits : i <= j
<1>1. hits # {} /\ e = [Open(b, zones[first].dir, 0, ZoneStop(zones[first], b),
                             BlockTarget(zones[first], b)) EXCEPT !.at = zones[first].at]
  BY DEF BlockSignals, FirstOf
<1>2. first \in hits
  <2>1. hits \in SUBSET Nat
    OBVIOUS
  <2> HIDE DEF hits
  <2>2. QED BY <1>1, <2>1, Smallest
<1> HIDE DEF first
<1> DEFINE z == zones[first]
<1>3. z \in BlockZones /\ InBlock(z, b)
  <2>1. first \in 1 .. Len(zones) /\ InBlock(zones[first], b)
    BY <1>2
  <2>2. QED BY <2>1
<1>4. e = [Open(b, z.dir, 0, ZoneStop(z, b), BlockTarget(z, b)) EXCEPT !.at = z.at]
  BY <1>1
<1> HIDE DEF z
<1>5. /\ z.dir \in Dirs /\ z.low \in Int /\ z.high \in Int /\ z.target \in Int
      /\ Sign(z.dir) * b.close > Sign(z.dir) * Far(z)
  BY <1>3 DEF BlockZones, InBlock
<1>6. /\ ZoneStop(z, b) \in Int /\ ZoneTarget(z, b) \in Int
      /\ Sign(z.dir) * ZoneStop(z, b) < Sign(z.dir) * b.close
      /\ Sign(z.dir) * b.close < Sign(z.dir) * ZoneTarget(z, b)
  BY <1>5, ZoneFacts
<1>7. Sign(z.dir) * b.close < Sign(z.dir) * BlockTarget(z, b)
  <2> DEFINE t == ZoneTarget(z, b)
             u == BlockTarget(z, b)
             c == b.close
             k == Sign(z.dir)
  <2>1. u = IF k * z.target > k * t THEN z.target ELSE t
    BY DEF BlockTarget
  <2>2. c \in Int /\ k \in {1, -1} /\ t \in Int /\ k * c < k * t
    BY <1>6 DEF Readable, Sign
  <2> HIDE DEF t, u, c, k
  <2>3. k * c < k * u
    BY <1>5, <2>1, <2>2
  <2>4. QED BY <2>3 DEF t, u, c, k
<1>8. /\ e.kind = "Open" /\ e.dir = z.dir /\ e.ref = b.close /\ e.ts = b.ts
      /\ e.sl = ZoneStop(z, b) /\ e.tp = BlockTarget(z, b)
  BY <1>4 DEF Open
<1>9. QED BY <1>6, <1>7, <1>8 DEF IsEntry, Ahead

LEMMA GapSignalFacts ==
    ASSUME NEW s, s.gaps \in Seq(GapZones), \A i \in 1 .. Len(s.gaps) : s.gaps[i].low <= s.gaps[i].high,
           NEW b, Readable("Smc", b), NEW e \in GapSignals(s, b)
    PROVE  IsEntry(e, b)
<1> DEFINE zones == s.gaps
           hits == { i \in 1 .. Len(zones) : InGap(zones[i], b) }
           first == CHOOSE i \in hits : \A j \in hits : i <= j
<1>1. hits # {} /\ e = [Open(b, zones[first].dir, 0, ZoneStop(zones[first], b),
                             ZoneTarget(zones[first], b)) EXCEPT !.at = zones[first].at]
  BY DEF GapSignals, FirstOf
<1>2. first \in hits
  <2>1. hits \in SUBSET Nat
    OBVIOUS
  <2> HIDE DEF hits
  <2>2. QED BY <1>1, <2>1, Smallest
<1> HIDE DEF first
<1> DEFINE z == zones[first]
<1>3. z \in GapZones /\ InGap(z, b) /\ z.low <= z.high
  <2>1. first \in 1 .. Len(zones) /\ InGap(zones[first], b)
    BY <1>2
  <2>2. QED BY <2>1
<1>4. e = [Open(b, z.dir, 0, ZoneStop(z, b), ZoneTarget(z, b)) EXCEPT !.at = z.at]
  BY <1>1
<1> HIDE DEF z
<1>5. /\ z.dir \in Dirs /\ z.low \in Int /\ z.high \in Int
      /\ Sign(z.dir) * b.close > Sign(z.dir) * Near(z)
  BY <1>3 DEF GapZones, InGap
<1>6. Sign(z.dir) * b.close > Sign(z.dir) * Far(z)
  <2> DEFINE c == b.close
  <2>1. c \in Int /\ Sign(z.dir) * c > Sign(z.dir) * Near(z)
    BY <1>5 DEF Readable
  <2> HIDE DEF c
  <2>2. Sign(z.dir) * c > Sign(z.dir) * Far(z)
    <3>1. CASE z.dir = "Buy"
      BY <1>3, <1>5, <2>1, <3>1, SignFacts DEF Near, Far
    <3>2. CASE z.dir = "Sell"
      BY <1>3, <1>5, <2>1, <3>2, SignFacts DEF Near, Far
    <3>3. QED BY <1>5, <3>1, <3>2 DEF Dirs
  <2>3. QED BY <2>2 DEF c
<1>7. /\ Sign(z.dir) * ZoneStop(z, b) < Sign(z.dir) * b.close
      /\ Sign(z.dir) * b.close < Sign(z.dir) * ZoneTarget(z, b)
  BY <1>5, <1>6, ZoneFacts
<1>8. /\ e.kind = "Open" /\ e.dir = z.dir /\ e.ref = b.close /\ e.ts = b.ts
      /\ e.sl = ZoneStop(z, b) /\ e.tp = ZoneTarget(z, b)
  BY <1>4 DEF Open
<1>9. QED BY <1>7, <1>8 DEF IsEntry, Ahead

\* An entry comes of a zone, SmcGap slots after the last one (smc.rs:228).
LEMMA SmcFacts ==
    ASSUME NEW s0, SmcState(s0), NEW b, Readable("Smc", b), b.ts \in Int,
           NEW r, r = SmcStep(s0, b)
    PROVE  /\ SmcState(r.st)
           /\ \/ r.out = NoSignal /\ r.st.last = s0.last
              \/ /\ IsEntry(r.out, b) /\ r.st.last = b.ts
                 /\ s0.last = -1 \/ b.ts - s0.last >= SmcGap
<1> DEFINE bars == LastOf(Append(s0.bars, Candle(b)), Impulse + 1)
           s == [s0 EXCEPT !.bars = bars, !.seen = Count(s0)]
           t == Scan(s, b.atr)
           blocked == [t EXCEPT !.blocks = <<>>, !.last = b.ts]
           gapped  == [t EXCEPT !.gaps = <<>>, !.last = b.ts]
<1>1. /\ Impulse \in Nat \ {0, 1} /\ SmcBars >= Impulse + 2
      /\ Count(s0) \in Nat /\ Count(s0) <= s0.seen + 1
  <2>1. s0.seen \in Nat
    BY DEF SmcState
  <2>2. Count(s0) \in Nat /\ Count(s0) <= s0.seen + 1
    BY <2>1, CountFacts DEF Count
  <2>3. QED BY <2>2, ZonesAssumption
<1>2. bars \in Seq(Candles) /\ (Len(bars) = Impulse + 1 \/ Len(bars) \in Count(s0) .. Impulse)
  <2> DEFINE q == Append(s0.bars, Candle(b))
  <2>1. Candle(b) \in Candles
    BY DEF Candle, Candles, Readable
  <2>2. s0.bars \in Seq(Candles) /\ (Len(s0.bars) = Impulse + 1 \/ Len(s0.bars) \in s0.seen .. Impulse)
        /\ s0.seen \in Nat
    BY DEF SmcState
  <2>3. q \in Seq(Candles) /\ Len(q) = Len(s0.bars) + 1
    BY <2>1, <2>2
  <2> HIDE DEF q
  <2>4. bars \in Seq(Candles) /\ Len(bars) = IF Len(q) <= Impulse + 1 THEN Len(q) ELSE Impulse + 1
    <3>1. bars = LastOf(q, Impulse + 1) /\ Impulse + 1 \in Nat
      BY <1>1 DEF q
    <3>2. QED BY <2>3, <3>1, LastOfFacts
  <2> HIDE DEF bars
  <2>5. QED BY <1>1, <2>2, <2>3, <2>4
<1> HIDE DEF bars
<1>3. SmcState(s) /\ s.last = s0.last /\ s.bars = bars /\ s.seen = Count(s0)
  <2>1. /\ s.bars = bars /\ s.seen = Count(s0) /\ s.last = s0.last /\ s.gaps = s0.gaps
        /\ s \in [bars : Seq(Candles), blocks : Seq(BlockZones), gaps : Seq(GapZones),
                  last : Int, seen : Nat]
    BY <1>1, <1>2 DEF SmcState
  <2>2. \A i \in 1 .. Len(s0.gaps) : s0.gaps[i].low <= s0.gaps[i].high
    BY DEF SmcState
  <2> HIDE DEF s
  <2>3. QED BY <1>2, <2>1, <2>2 DEF SmcState
<1>4. CASE ~SmcLooks(s, b)
  <2>1. r = [st |-> s, out |-> NoSignal]
    BY <1>4 DEF SmcStep, bars
  <2> HIDE DEF s
  <2>2. QED BY <1>3, <2>1
<1>5. CASE SmcLooks(s, b)
  <2>1. s0.last = -1 \/ b.ts - s0.last >= SmcGap
    BY <1>3, <1>5 DEF SmcLooks
  <2>2. Len(bars) = Impulse + 1
    <3>1. s.seen >= SmcBars
      BY <1>5 DEF SmcLooks
    <3> HIDE DEF s
    <3>2. QED BY <1>1, <1>2, <1>3, <3>1, ZonesAssumption
  <2>3. r = IF BlockSignals(t, b) # {} THEN Step(t, BlockSignals(t, b), blocked)
            ELSE Step(t, GapSignals(t, b), gapped)
    BY <1>5 DEF SmcStep, bars
  <2> DEFINE new == Gaps(s.bars)
  <2>4. /\ Keep(s.blocks, Blocks(s.bars, b.atr)) \in Seq(BlockZones)
        /\ Keep(s.gaps, new) \in Seq({ z \in GapZones : z.low <= z.high })
    <3>1. s.blocks \in Seq(BlockZones) /\ s.gaps \in Seq(GapZones) /\ s.bars \in Seq(Candles)
      BY <1>3 DEF SmcState
    <3>2. Blocks(s.bars, b.atr) \subseteq BlockZones
      BY <1>3, <2>2, <3>1, BlocksFacts
    <3>3. new \subseteq { z \in GapZones : z.low <= z.high }
      BY <1>3, <2>2, <3>1, GapsFacts
    <3>4. s.gaps \in Seq({ z \in GapZones : z.low <= z.high })
      <4>1. \A i \in 1 .. Len(s.gaps) : s.gaps[i].low <= s.gaps[i].high
        BY <1>3 DEF SmcState
      <4>2. QED BY <3>1, <4>1
    <3> HIDE DEF s, new
    <3>5. QED BY <3>1, <3>2, <3>3, <3>4, KeepFacts
  <2>5. /\ SmcState(t) /\ t.last = s.last
    <3> DEFINE blocks == Keep(s.blocks, Blocks(s.bars, b.atr))
               gaps   == Keep(s.gaps, new)
    <3>1. t = [s EXCEPT !.blocks = blocks, !.gaps = gaps]
      BY DEF Scan
    <3>2. /\ blocks \in Seq(BlockZones) /\ gaps \in Seq(GapZones)
          /\ \A i \in 1 .. Len(gaps) : gaps[i].low <= gaps[i].high
      <4>1. gaps \in Seq({ z \in GapZones : z.low <= z.high })
        BY <2>4
      <4> HIDE DEF gaps
      <4>2. QED BY <2>4, <4>1
    <3> HIDE DEF s, t, blocks, gaps
    <3>3. /\ t.bars = s.bars /\ t.seen = s.seen /\ t.last = s.last /\ t.gaps = gaps
          /\ t \in [bars : Seq(Candles), blocks : Seq(BlockZones), gaps : Seq(GapZones),
                    last : Int, seen : Nat]
      BY <1>3, <3>1, <3>2 DEF SmcState
    <3>4. QED BY <1>3, <3>2, <3>3 DEF SmcState
  <2> HIDE DEF t, s
  <2>6. /\ SmcState(blocked) /\ blocked.last = b.ts
        /\ SmcState(gapped) /\ gapped.last = b.ts
    <3> DEFINE none == <<>>
               now == b.ts
    <3>0. none \in Seq(BlockZones) /\ none \in Seq(GapZones) /\ Len(none) = 0 /\ now \in Int
      OBVIOUS
    <3> HIDE DEF none, now
    <3>1. /\ blocked = [t EXCEPT !.blocks = none, !.last = now]
          /\ gapped = [t EXCEPT !.gaps = none, !.last = now]
      BY DEF none, now
    <3> HIDE DEF blocked, gapped
    <3>2. /\ blocked \in [bars : Seq(Candles), blocks : Seq(BlockZones), gaps : Seq(GapZones),
                          last : Int, seen : Nat]
          /\ blocked.bars = t.bars /\ blocked.seen = t.seen /\ blocked.last = now
          /\ blocked.gaps = t.gaps
      BY <2>5, <3>0, <3>1 DEF SmcState
    <3>3. /\ gapped \in [bars : Seq(Candles), blocks : Seq(BlockZones), gaps : Seq(GapZones),
                         last : Int, seen : Nat]
          /\ gapped.bars = t.bars /\ gapped.seen = t.seen /\ gapped.last = now
          /\ gapped.gaps = none
      BY <2>5, <3>0, <3>1 DEF SmcState
    <3>4. SmcState(blocked)
      BY <2>5, <3>2 DEF SmcState
    <3>5. SmcState(gapped)
      BY <2>5, <3>0, <3>3 DEF SmcState
    <3>6. QED BY <3>2, <3>3, <3>4, <3>5 DEF now
  <2> HIDE DEF blocked, gapped
  <2>7. CASE BlockSignals(t, b) # {}
    <3>1. \A e \in BlockSignals(t, b) : IsEntry(e, b)
      BY <2>5, BlockSignalFacts DEF SmcState
    <3>2. r.out \in BlockSignals(t, b) /\ r.st = blocked
      BY <2>3, <2>7, StepFacts
    <3>3. QED BY <2>1, <2>6, <3>1, <3>2
  <2>8. CASE BlockSignals(t, b) = {}
    <3>1. \A e \in GapSignals(t, b) : IsEntry(e, b)
      BY <2>5, GapSignalFacts DEF SmcState
    <3>2. \/ r.st = t /\ r.out = NoSignal
          \/ r.out \in GapSignals(t, b) /\ r.st = gapped
      BY <2>3, <2>8, StepFacts
    <3>3. QED BY <1>3, <2>1, <2>5, <2>6, <3>1, <3>2
  <2>9. QED BY <2>7, <2>8
<1>6. QED BY <1>4, <1>5

-----------------------------------------------------------------------------
(* The invariant.                                                          *)

\* What the tape shows with the last bar: the latest entry, whether the head
\* may enter again, the bars and the squeezed bars since, whether a close has
\* answered the entry.
Latest == IF out.kind = "Open" THEN out ELSE last
Free   == rearmed /\ out.kind # "Open"
Since  == IF out.kind = "Open" THEN 0 ELSE quiet
Row    == IF out.kind = "none" THEN run ELSE 0
Closed == (answered /\ out.kind # "Open") \/ out.kind = "Close"

Tape ==
    /\ head \in Heads /\ ts \in Int /\ ts >= -1
    /\ rearmed \in BOOLEAN /\ answered \in BOOLEAN
    /\ quiet \in 0 .. LongQuiet /\ run \in 0 .. MinSqueeze
    /\ out = NoSignal \/ out.kind \in {"Open", "Close"}
    /\ head # "Breakout" => out.kind # "Close"

\* While a head may not enter again, its own state keeps it from it.
Held ==
    /\ head = "AsianRange" =>
        /\ st \in AsianStates
        /\ Free \/ (st.taken /\ Latest.kind = "Open" /\ st.day = Day(Latest.ts))
    /\ head = "Momentum" =>
        /\ st \in MomentumStates
        /\ Free \/ (st.taken /\ Latest.kind = "Open" /\ st.window = Window(Latest.ts))
    /\ head = "Breakout" =>
        /\ BreakoutState(st)
        /\ st.squeeze <= Row
        /\ st.armed => Free
        /\ st.tracked # "none" =>
            /\ Latest.kind = "Open" /\ Latest.dir = st.tracked
            /\ ~Closed /\ st.since = Since
    /\ head = "Trend" =>
        /\ TrendState(st) /\ st.above \in {"unknown", above}
        /\ Free \/ st.issued
    /\ head = "News" => NewsState(st) /\ (Free \/ st.since <= Since)
    /\ head = "Smc" =>
        /\ SmcState(st)
        /\ Free \/ (Latest.kind = "Open" /\ st.last = Latest.ts /\ st.last >= 0)
    /\ head = "VolProfile" =>
        /\ ProfileState(st)
        /\ Free \/ (st.last >= 0 /\ (st.count - st.last <= Since \/ Since = LongQuiet))
    /\ head = "Scalp" => ScalpState(st) /\ st.count <= ts + 1 /\ out = NoSignal
    /\ head = "Grid" => out = NoSignal

HeadsInv == Tape /\ Held /\ OneShot /\ AheadOfPrice /\ FakeoutAnswers

\* A closed bar, as the head and the reader of the tape take it.
Takes(b) ==
    /\ Readable(head, b) /\ b.ts = ts + 1
    /\ st' = Evaluate(head, st, b).st /\ out' = Evaluate(head, st, b).out
    /\ Observe(b)
    /\ head' = head /\ ts' = ts + 1 /\ ts < MaxSlot(head)

LEMMA FedFacts ==
    ASSUME HeadsInv, NEW x \in Inputs(head), NEW blocked \in BOOLEAN, Bar(x, blocked)
    PROVE  \E b : Takes(b)
<1> DEFINE b == Fed(x)
<1>1. Readable(head, x) /\ "ts" \in DOMAIN x
  BY InputsAssumption DEF HeadsInv, Tape, Readable
<1>2. /\ b.ts = ts' /\ DOMAIN b = DOMAIN x
      /\ \A f \in DOMAIN x : f \notin {"ts", "volume"} => b[f] = x[f]
  <2>1. CASE b = [x EXCEPT !.ts = ts', !.volume = 0]
    <3> HIDE DEF b
    <3>1. QED BY <1>1, <2>1
  <2>2. CASE b = [x EXCEPT !.ts = ts']
    <3> HIDE DEF b
    <3>1. QED BY <1>1, <2>2
  <2>3. QED BY <2>1, <2>2 DEF Fed
<1>3. /\ ts < MaxSlot(head) /\ ts' = ts + 1
      /\ st' = Evaluate(head, st, b).st /\ out' = Evaluate(head, st, b).out
      /\ Observe(b) /\ head' = head
  BY DEF Bar
<1> HIDE DEF b
<1>4. Readable(head, b)
  BY <1>1, <1>2 DEF Readable
<1>5. QED BY <1>2, <1>3, <1>4 DEF Takes

\* What the reader of the tape keeps, with the bar before.
LEMMA TapeFacts ==
    ASSUME HeadsInv, NEW b, Takes(b)
    PROVE  /\ last' = Latest /\ (answered' <=> Closed)
           /\ (rearmed' <=> Free \/ Rearms(b))
           /\ rearmed' \in BOOLEAN /\ answered' \in BOOLEAN
           /\ LongQuiet \in Nat /\ Since \in 0 .. LongQuiet
           /\ quiet' = IF Since < LongQuiet THEN Since + 1 ELSE LongQuiet
           /\ head = "Breakout" => run' = Squeezed(Row, b)
           /\ head # "Breakout" => run' = 0
           /\ head = "Trend" => above' = b.above
           /\ head \in Heads /\ ts \in Int /\ b.ts = ts + 1 /\ b.ts \in Nat
           /\ MinSqueeze \in Nat /\ Row \in 0 .. MinSqueeze
<1>1. /\ LongQuiet \in Nat /\ LongQuiet >= 1 /\ MinSqueeze \in Nat
  BY SetupAssumption, ZonesAssumption DEF LongQuiet
<1>2. /\ quiet \in 0 .. LongQuiet /\ run \in 0 .. MinSqueeze /\ head \in Heads
      /\ ts \in Int /\ ts >= -1 /\ b.ts = ts + 1
  BY DEF HeadsInv, Tape, Takes
<1>3. Observe(b)
  BY DEF Takes
<1>4. last' = Latest /\ (answered' <=> Closed) /\ answered' \in BOOLEAN
  BY <1>3 DEF Observe, Latest, Closed
<1>5. (rearmed' <=> Free \/ Rearms(b)) /\ rearmed' \in BOOLEAN
  BY <1>3 DEF Observe, Free
<1>6. /\ Since \in 0 .. LongQuiet
      /\ quiet' = IF Since < LongQuiet THEN Since + 1 ELSE LongQuiet
  BY <1>1, <1>2, <1>3 DEF Observe, Since
<1>7. /\ Row \in 0 .. MinSqueeze
      /\ head = "Breakout" => run' = Squeezed(Row, b)
      /\ head # "Breakout" => run' = 0
      /\ head = "Trend" => above' = b.above
  BY <1>1, <1>2, <1>3 DEF Observe, Row, Squeezed
<1>8. b.ts \in Nat
  BY <1>2
<1>9. QED BY <1>1, <1>2, <1>4, <1>5, <1>6, <1>7, <1>8

\* Where a bar without a signal leaves it, and an entry.
LEMMA NothingFacts ==
    ASSUME out' = NoSignal
    PROVE  /\ Latest' = last' /\ (Free' <=> rearmed') /\ Since' = quiet' /\ Row' = run'
           /\ (Closed' <=> answered')
BY DEF NoSignal, Latest, Free, Since, Row, Closed

LEMMA EntryFacts ==
    ASSUME out'.kind = "Open"
    PROVE  Latest' = out' /\ ~Free' /\ Since' = 0 /\ Row' = 0 /\ ~Closed'
BY DEF Latest, Free, Since, Row, Closed

\* A bar without a signal, or with an entry the head was free to give.
LEMMA QuietOrFree ==
    ASSUME HeadsInv, NEW b, Takes(b), Held',
           out' = NoSignal \/ (IsEntry(out', b) /\ rearmed')
    PROVE  HeadsInv'
<1>1. /\ rearmed' \in BOOLEAN /\ answered' \in BOOLEAN /\ head' = head /\ head \in Heads
      /\ quiet' \in 0 .. LongQuiet /\ ts' \in Int /\ ts' >= -1
  BY TapeFacts DEF Takes
<1>2. run' \in 0 .. MinSqueeze
  BY TapeFacts DEF Squeezed
<1>3. Tape'
  <2>1. /\ out' = NoSignal \/ out'.kind \in {"Open", "Close"}
        /\ out'.kind # "Close"
    BY DEF NoSignal, IsEntry
  <2>2. QED BY <1>1, <1>2, <2>1 DEF Tape
<1>4. out' # NoSignal => out'.kind = "Open" /\ rearmed' /\ Ahead(out')
  BY DEF IsEntry
<1>5. out' = NoSignal => out'.kind = "none"
  BY DEF NoSignal
<1>6. OneShot' /\ FakeoutAnswers'
  BY <1>4, <1>5 DEF OneShot, FakeoutAnswers
<1>7. AheadOfPrice'
  BY <1>4, <1>5 DEF AheadOfPrice, Ahead
<1>8. QED BY <1>3, <1>6, <1>7 DEF HeadsInv

LEMMA AsianKept ==
    ASSUME HeadsInv, NEW b, Takes(b), head = "AsianRange"
    PROVE  HeadsInv'
<1>1. st \in AsianStates /\ (Free \/ (st.taken /\ Latest.kind = "Open" /\ st.day = Day(Latest.ts)))
  BY DEF HeadsInv, Held
<1>2. /\ b.ts \in Nat /\ Readable("AsianRange", b) /\ head' = "AsianRange"
      /\ last' = Latest /\ (rearmed' <=> Free \/ Rearms(b))
  BY TapeFacts DEF Takes
<1> DEFINE r == AsianStep(st, b)
<1>3. st' = r.st /\ out' = r.out
  BY DEF Takes, Evaluate
<1>4. /\ r.st \in AsianStates /\ r.st.day = Day(b.ts)
      /\ \/ r.out = NoSignal /\ (r.st.taken <=> (st.taken /\ st.day = Day(b.ts)))
         \/ IsEntry(r.out, b) /\ r.st.taken /\ ~(st.taken /\ st.day = Day(b.ts))
  BY <1>1, <1>2, AsianFacts
<1> HIDE DEF r
<1>5. ~Free /\ ~Rearms(b) => st.day = Day(b.ts) /\ last'.kind = "Open" /\ Day(last'.ts) = Day(b.ts)
  BY <1>1, <1>2 DEF Rearms, NoSignal
<1>6. CASE r.out = NoSignal
  <2>1. Held'
    BY <1>1, <1>2, <1>3, <1>4, <1>5, <1>6, NothingFacts DEF Held, IsEntry, NoSignal
  <2>2. QED BY <1>3, <1>6, <2>1, QuietOrFree
<1>7. CASE IsEntry(r.out, b) /\ r.st.taken /\ ~(st.taken /\ st.day = Day(b.ts))
  <2>1. Held'
    BY <1>2, <1>3, <1>4, <1>7, EntryFacts DEF Held, IsEntry
  <2>2. rearmed'
    BY <1>1, <1>2, <1>5, <1>7
  <2>3. QED BY <1>3, <1>7, <2>1, <2>2, QuietOrFree
<1>8. QED BY <1>4, <1>6, <1>7

LEMMA MomentumKept ==
    ASSUME HeadsInv, NEW b, Takes(b), head = "Momentum"
    PROVE  HeadsInv'
<1>1. /\ st \in MomentumStates
      /\ Free \/ (st.taken /\ Latest.kind = "Open" /\ st.window = Window(Latest.ts))
  BY DEF HeadsInv, Held
<1>2. /\ b.ts \in Nat /\ Readable("Momentum", b) /\ head' = "Momentum"
      /\ last' = Latest /\ (rearmed' <=> Free \/ Rearms(b))
  BY TapeFacts DEF Takes
<1> DEFINE r == MomentumStep(st, b)
<1>3. st' = r.st /\ out' = r.out
  BY DEF Takes, Evaluate
<1>4. /\ r.st \in MomentumStates /\ r.st.window = Window(b.ts)
      /\ \/ r.out = NoSignal /\ (r.st.taken <=> (st.taken /\ st.window = Window(b.ts)))
         \/ IsEntry(r.out, b) /\ r.st.taken /\ ~(st.taken /\ st.window = Window(b.ts))
  BY <1>1, <1>2, MomentumFacts
<1> HIDE DEF r
<1>5. ~Free /\ ~Rearms(b) =>
        st.window = Window(b.ts) /\ last'.kind = "Open" /\ Window(last'.ts) = Window(b.ts)
  BY <1>1, <1>2 DEF Rearms, NoSignal
<1>6. CASE r.out = NoSignal
  <2>1. Held'
    BY <1>1, <1>2, <1>3, <1>4, <1>5, <1>6, NothingFacts DEF Held, IsEntry, NoSignal
  <2>2. QED BY <1>3, <1>6, <2>1, QuietOrFree
<1>7. CASE IsEntry(r.out, b) /\ r.st.taken /\ ~(st.taken /\ st.window = Window(b.ts))
  <2>1. Held'
    BY <1>2, <1>3, <1>4, <1>7, EntryFacts DEF Held, IsEntry
  <2>2. rearmed'
    BY <1>1, <1>2, <1>5, <1>7
  <2>3. QED BY <1>3, <1>7, <2>1, <2>2, QuietOrFree
<1>8. QED BY <1>4, <1>6, <1>7

LEMMA SmcKept ==
    ASSUME HeadsInv, NEW b, Takes(b), head = "Smc"
    PROVE  HeadsInv'
<1>1. /\ SmcState(st)
      /\ Free \/ (Latest.kind = "Open" /\ st.last = Latest.ts /\ st.last >= 0)
  BY DEF HeadsInv, Held
<1>2. /\ b.ts \in Nat /\ Readable("Smc", b) /\ head' = "Smc"
      /\ last' = Latest /\ (rearmed' <=> Free \/ Rearms(b))
  BY TapeFacts DEF Takes
<1> DEFINE r == SmcStep(st, b)
<1>3. st' = r.st /\ out' = r.out
  BY DEF Takes, Evaluate
<1>4. /\ SmcState(r.st)
      /\ \/ r.out = NoSignal /\ r.st.last = st.last
         \/ /\ IsEntry(r.out, b) /\ r.st.last = b.ts
            /\ st.last = -1 \/ b.ts - st.last >= SmcGap
  BY <1>1, <1>2, SmcFacts
<1> HIDE DEF r
<1>5. ~Free => Rearms(b) \/ ~(b.ts - st.last >= SmcGap)
  BY <1>1, <1>2 DEF Rearms, NoSignal
<1>6. st.last = -1 => Free
  BY <1>1
<1>7. CASE r.out = NoSignal /\ r.st.last = st.last
  <2>1. Held'
    BY <1>1, <1>2, <1>3, <1>4, <1>7, NothingFacts DEF Held, IsEntry, NoSignal
  <2>2. QED BY <1>3, <1>7, <2>1, QuietOrFree
<1>8. CASE /\ IsEntry(r.out, b) /\ r.st.last = b.ts
           /\ st.last = -1 \/ b.ts - st.last >= SmcGap
  <2>1. Held'
    BY <1>2, <1>3, <1>4, <1>8, EntryFacts DEF Held, IsEntry
  <2>2. rearmed'
    BY <1>2, <1>5, <1>6, <1>8
  <2>3. QED BY <1>3, <1>8, <2>1, <2>2, QuietOrFree
<1>9. QED BY <1>4, <1>7, <1>8

LEMMA TrendKept ==
    ASSUME HeadsInv, NEW b, Takes(b), head = "Trend"
    PROVE  HeadsInv'
<1>1. TrendState(st) /\ st.above \in {"unknown", above} /\ (Free \/ st.issued)
  BY DEF HeadsInv, Held
<1>2. /\ Readable("Trend", b) /\ head' = "Trend" /\ above' = b.above
      /\ (rearmed' <=> Free \/ Rearms(b))
  BY TapeFacts DEF Takes
<1> DEFINE r == TrendStep(st, b)
<1>3. st' = r.st /\ out' = r.out
  BY DEF Takes, Evaluate
<1>4. /\ TrendState(r.st) /\ r.st.above \in {"unknown", b.above}
      /\ \/ r.out = NoSignal /\ (r.st.issued <=> (st.issued /\ ~Crossed(st, b)))
         \/ IsEntry(r.out, b) /\ r.st.issued /\ ~(st.issued /\ ~Crossed(st, b))
  BY <1>1, <1>2, TrendFacts
<1> HIDE DEF r
<1>5. ~Free /\ ~Rearms(b) => st.issued /\ ~Crossed(st, b)
  BY <1>1 DEF Rearms, Crossed
<1>6. CASE r.out = NoSignal /\ (r.st.issued <=> (st.issued /\ ~Crossed(st, b)))
  <2>1. Free' \/ r.st.issued
    BY <1>2, <1>3, <1>5, <1>6, NothingFacts
  <2>2. Held'
    BY <1>2, <1>3, <1>4, <2>1 DEF Held
  <2>3. QED BY <1>3, <1>6, <2>2, QuietOrFree
<1>7. CASE IsEntry(r.out, b) /\ r.st.issued /\ ~(st.issued /\ ~Crossed(st, b))
  <2>1. Held'
    BY <1>2, <1>3, <1>4, <1>7 DEF Held
  <2>2. rearmed'
    BY <1>2, <1>5, <1>7
  <2>3. QED BY <1>3, <1>7, <2>1, <2>2, QuietOrFree
<1>8. QED BY <1>4, <1>6, <1>7

LEMMA NewsKept ==
    ASSUME HeadsInv, NEW b, Takes(b), head = "News"
    PROVE  HeadsInv'
<1>1. NewsState(st) /\ (Free \/ st.since <= Since)
  BY DEF HeadsInv, Held
<1>2. /\ Readable("News", b) /\ b.ts \in Int /\ head' = "News"
      /\ (rearmed' <=> Free \/ Rearms(b)) /\ Since \in 0 .. LongQuiet
      /\ quiet' = IF Since < LongQuiet THEN Since + 1 ELSE LongQuiet
  BY TapeFacts DEF Takes
<1> DEFINE r == NewsStep(st, b)
<1>3. st' = r.st /\ out' = r.out
  BY DEF Takes, Evaluate
<1>4. /\ NewsState(r.st)
      /\ \/ /\ r.out = NoSignal
            /\ r.st.since \in {st.since + 1, NewsCool + 1} /\ r.st.since <= st.since + 1
         \/ IsEntry(r.out, b) /\ st.since >= NewsCool /\ r.st.since = 0
  BY <1>1, <1>2, NewsFacts
<1> HIDE DEF r
<1>5. /\ LongQuiet \in Nat /\ NewsCool \in Nat /\ LongQuiet >= NewsCool + 1 /\ st.since \in Nat
      /\ r.st.since \in Nat /\ r.st.since <= NewsCool + 1
  BY <1>1, <1>4, SetupAssumption, ZonesAssumption DEF LongQuiet, NewsState, NewsStates
<1>6. CASE /\ r.out = NoSignal
           /\ r.st.since \in {st.since + 1, NewsCool + 1} /\ r.st.since <= st.since + 1
  <2>1. Free' \/ r.st.since <= Since'
    BY <1>1, <1>2, <1>3, <1>5, <1>6, NothingFacts
  <2>2. Held'
    BY <1>2, <1>3, <1>4, <2>1 DEF Held
  <2>3. QED BY <1>3, <1>6, <2>2, QuietOrFree
<1>7. CASE IsEntry(r.out, b) /\ st.since >= NewsCool /\ r.st.since = 0
  <2>1. r.st.since <= Since'
    BY <1>3, <1>7, EntryFacts DEF IsEntry
  <2>2. Held'
    BY <1>2, <1>3, <1>4, <2>1 DEF Held
  <2>3. rearmed'
    <3>1. CASE Free
      BY <1>2, <3>1
    <3>2. CASE ~Free
      <4>1. quiet' > NewsCool
        BY <1>1, <1>2, <1>5, <1>7, <3>2
      <4>2. QED BY <1>2, <4>1 DEF Rearms
    <3>3. QED BY <3>1, <3>2
  <2>4. QED BY <1>3, <1>7, <2>2, <2>3, QuietOrFree
<1>8. QED BY <1>4, <1>6, <1>7

LEMMA ProfileKept ==
    ASSUME HeadsInv, NEW b, Takes(b), head = "VolProfile"
    PROVE  HeadsInv'
<1>1. /\ ProfileState(st)
      /\ Free \/ (st.last >= 0 /\ (st.count - st.last <= Since \/ Since = LongQuiet))
  BY DEF HeadsInv, Held
<1>2. /\ head' = "VolProfile"
      /\ (rearmed' <=> Free \/ Rearms(b)) /\ Since \in 0 .. LongQuiet
      /\ quiet' = IF Since < LongQuiet THEN Since + 1 ELSE LongQuiet
  BY TapeFacts DEF Takes
<1> DEFINE r == ProfileStep(st, b)
<1>3. st' = r.st /\ out' = r.out
  BY DEF Takes, Evaluate
<1>4. /\ ProfileState(r.st) /\ r.st.count = st.count + 1
      /\ \/ r.out = NoSignal /\ r.st.last = st.last
         \/ /\ IsEntry(r.out, b) /\ r.st.last = r.st.count
            /\ st.last = -1 \/ r.st.count - st.last >= ProfileCool
  BY <1>1, ProfileFacts
<1> HIDE DEF r
<1>5. /\ LongQuiet \in Nat /\ ProfileCool \in Nat /\ LongQuiet >= ProfileCool
      /\ st.count \in Nat /\ st.last \in Int
  BY <1>1, SetupAssumption, ZonesAssumption DEF LongQuiet, ProfileState
<1>6. CASE r.out = NoSignal /\ r.st.last = st.last
  <2>1. Free' \/ (r.st.last >= 0 /\ (r.st.count - r.st.last <= Since' \/ Since' = LongQuiet))
    BY <1>1, <1>2, <1>3, <1>4, <1>5, <1>6, NothingFacts
  <2>2. Held'
    BY <1>2, <1>3, <1>4, <2>1 DEF Held, LongQuiet
  <2>3. QED BY <1>3, <1>6, <2>2, QuietOrFree
<1>7. CASE /\ IsEntry(r.out, b) /\ r.st.last = r.st.count
           /\ st.last = -1 \/ r.st.count - st.last >= ProfileCool
  <2>1. r.st.last >= 0 /\ r.st.count - r.st.last <= Since'
    BY <1>3, <1>4, <1>5, <1>7, EntryFacts DEF IsEntry
  <2>2. Held'
    BY <1>2, <1>3, <1>4, <2>1 DEF Held, LongQuiet
  <2>3. rearmed'
    <3>1. CASE Free
      BY <1>2, <3>1
    <3>2. CASE ~Free
      <4>1. quiet' >= ProfileCool
        BY <1>1, <1>2, <1>4, <1>5, <1>7, <3>2
      <4>2. QED BY <1>2, <4>1 DEF Rearms
    <3>3. QED BY <3>1, <3>2
  <2>4. QED BY <1>3, <1>7, <2>2, <2>3, QuietOrFree
<1>8. QED BY <1>4, <1>6, <1>7

LEMMA ScalpKept ==
    ASSUME HeadsInv, NEW b, Takes(b), head = "Scalp"
    PROVE  HeadsInv'
<1>1. ScalpState(st) /\ st.count <= ts + 1
  BY DEF HeadsInv, Held
<1>2. /\ head' = "Scalp" /\ ts' = ts + 1 /\ ts < MaxSlot(head) /\ ts \in Int /\ head \in Heads
  BY TapeFacts DEF Takes
<1> DEFINE r == ScalpStep(st, b)
           bound == MaxSlot(head)
<1>3. st' = r.st /\ out' = r.out
  BY DEF Takes, Evaluate
<1>4. st.count \in Nat /\ Half \in Nat /\ bound \in Int /\ bound + 1 < Half
  BY <1>1, <1>2, SetupAssumption, InputsAssumption DEF ScalpState
<1>5. st.count + 1 < Half
  <2>1. ts < bound
    BY <1>2
  <2> HIDE DEF bound
  <2>2. QED BY <1>1, <1>2, <1>4, <2>1
<1>6. r.out = NoSignal /\ ScalpState(r.st) /\ r.st.count <= st.count + 1
  BY <1>1, <1>5, ScalpFacts
<1> HIDE DEF r
<1>7. r.st.count <= ts' + 1
  BY <1>1, <1>2, <1>4, <1>6 DEF ScalpState
<1>8. Held'
  BY <1>2, <1>3, <1>6, <1>7 DEF Held
<1>9. QED BY <1>3, <1>6, <1>8, QuietOrFree

LEMMA GridKept ==
    ASSUME HeadsInv, NEW b, Takes(b), head = "Grid"
    PROVE  HeadsInv'
<1>1. out' = NoSignal /\ head' = "Grid"
  BY GridFacts DEF Takes, Evaluate
<1>2. QED BY <1>1, QuietOrFree DEF Held

LEMMA BreakoutKept ==
    ASSUME HeadsInv, NEW b, Takes(b), head = "Breakout"
    PROVE  HeadsInv'
<1>1. /\ BreakoutState(st) /\ st.squeeze <= Row /\ (st.armed => Free)
      /\ st.tracked # "none" =>
            /\ Latest.kind = "Open" /\ Latest.dir = st.tracked
            /\ ~Closed /\ st.since = Since
  BY DEF HeadsInv, Held
<1>2. /\ Readable("Breakout", b) /\ head' = "Breakout" /\ head' = head
      /\ last' = Latest /\ (answered' <=> Closed) /\ (rearmed' <=> Free \/ Rearms(b))
      /\ Since \in 0 .. LongQuiet
      /\ quiet' = IF Since < LongQuiet THEN Since + 1 ELSE LongQuiet
      /\ run' = Squeezed(Row, b) /\ MinSqueeze \in Nat /\ Row \in 0 .. MinSqueeze
  BY TapeFacts DEF Takes
<1>3. /\ rearmed' \in BOOLEAN /\ answered' \in BOOLEAN /\ head \in Heads
      /\ quiet' \in 0 .. LongQuiet /\ ts' \in Int /\ ts' >= -1
  BY TapeFacts DEF Takes
<1> DEFINE r == BreakoutStep(st, b)
           n == Squeezed(st.squeeze, b)
<1>4. st' = r.st /\ out' = r.out
  BY DEF Takes, Evaluate
<1>5. /\ BreakoutState(r.st)
      /\ Waits(st, b, r) \/ Enters(st, b, r) \/ Answers(st, b, r)
  BY <1>1, <1>2, BreakoutFacts
<1> HIDE DEF r
<1>6. /\ st.squeeze \in Nat /\ st.since \in Nat /\ st.tracked \in Dirs \cup {"none"}
      /\ r.st.squeeze \in Nat /\ FakeoutBars \in Nat /\ LongQuiet \in Nat
      /\ LongQuiet > FakeoutBars /\ (st.tracked # "none" => st.since <= FakeoutBars)
  BY <1>1, <1>5, SetupAssumption, ZonesAssumption DEF BreakoutState, BreakoutStates, LongQuiet
<1>7. n \in Nat /\ n <= run' /\ run' \in 0 .. MinSqueeze
  BY <1>1, <1>2, <1>6 DEF Squeezed
<1> HIDE DEF n
<1>8. n >= MinSqueeze => rearmed'
  BY <1>2, <1>7 DEF Rearms
<1>9. st.armed \/ n >= MinSqueeze => rearmed'
  BY <1>1, <1>2, <1>8
<1>10. st.tracked # "none" => /\ quiet' = st.since + 1 /\ last'.kind = "Open"
                              /\ last'.dir = st.tracked /\ ~answered'
  BY <1>1, <1>2, <1>6
<1>11. CASE Waits(st, b, r)
  <2>1. /\ r.out = NoSignal /\ r.st.squeeze <= n
        /\ r.st.armed => st.armed \/ n >= MinSqueeze
        /\ r.st.tracked # "none" => r.st.tracked = st.tracked /\ r.st.since = st.since + 1
    BY <1>11 DEF Waits, n
  <2>2. /\ Latest' = last' /\ (Free' <=> rearmed') /\ Since' = quiet' /\ Row' = run'
        /\ (Closed' <=> answered')
    BY <1>4, <2>1, NothingFacts
  <2>3. r.st.squeeze <= Row' /\ (r.st.armed => Free')
    BY <1>6, <1>7, <1>9, <2>1, <2>2
  <2>4. r.st.tracked # "none" =>
            /\ Latest'.kind = "Open" /\ Latest'.dir = r.st.tracked
            /\ ~Closed' /\ r.st.since = Since'
    BY <1>10, <2>1, <2>2
  <2>5. Held'
    BY <1>2, <1>4, <1>5, <2>3, <2>4 DEF Held
  <2>6. QED BY <1>4, <2>1, <2>5, QuietOrFree
<1>12. CASE Enters(st, b, r)
  <2>1. /\ IsEntry(r.out, b) /\ r.out.kind = "Open" /\ (st.armed \/ n >= MinSqueeze)
        /\ r.st.squeeze = 0 /\ ~r.st.armed /\ r.st.tracked = r.out.dir /\ r.st.since = 0
    BY <1>12 DEF Enters, IsEntry, n
  <2>2. Latest' = out' /\ ~Free' /\ Since' = 0 /\ Row' = 0 /\ ~Closed'
    BY <1>4, <2>1, EntryFacts
  <2>3. Held'
    BY <1>2, <1>4, <1>5, <2>1, <2>2 DEF Held
  <2>4. rearmed'
    BY <1>9, <2>1
  <2>5. QED BY <1>4, <2>1, <2>3, <2>4, QuietOrFree
<1>13. CASE Answers(st, b, r)
  <2>1. /\ out'.kind = "Close" /\ out'.dir = st.tracked /\ st.tracked # "none"
        /\ st.since + 1 <= FakeoutBars
        /\ r.st.squeeze = 0 /\ ~r.st.armed /\ r.st.tracked = "none"
    BY <1>4, <1>13 DEF Answers
  <2>2. Row' = 0
    BY <2>1 DEF Row
  <2>3. Held'
    BY <1>2, <1>4, <1>5, <2>1, <2>2 DEF Held
  <2>4. FakeoutAnswers'
    BY <1>10, <2>1 DEF FakeoutAnswers
  <2>5. OneShot' /\ AheadOfPrice'
    BY <2>1 DEF OneShot, AheadOfPrice
  <2>6. Tape'
    BY <1>2, <1>3, <1>7, <2>1 DEF Tape
  <2>7. QED BY <2>3, <2>4, <2>5, <2>6 DEF HeadsInv
<1>14. QED BY <1>5, <1>11, <1>12, <1>13

LEMMA BarKeeps ==
    ASSUME HeadsInv, NEW x \in Inputs(head), NEW blocked \in BOOLEAN, Bar(x, blocked)
    PROVE  HeadsInv'
<1>1. PICK b : Takes(b)
  BY FedFacts
<1>2. head \in AllHeads
  BY InputsAssumption DEF HeadsInv, Tape
<1>3. QED
  BY <1>1, <1>2, AsianKept, MomentumKept, BreakoutKept, TrendKept, NewsKept, ScalpKept,
     GridKept, SmcKept, ProfileKept DEF AllHeads

\* The end of the warm-up only moves the clock.
LEMMA GoLiveKeeps ==
    ASSUME HeadsInv, NEW t \in ts + 1 .. MaxSlot(head), GoLive(t)
    PROVE  HeadsInv'
<1>1. UNCHANGED <<head, st, out, price, above, last, quiet, answered, rearmed, run>> /\ ts' = t - 1
  BY DEF GoLive
<1>2. ts' \in Int /\ ts' >= ts /\ ts \in Int /\ ts >= -1
  <2>1. MaxSlot(head) \in Int /\ ts \in Int /\ ts >= -1
    BY InputsAssumption DEF HeadsInv, Tape
  <2>2. QED BY <1>1, <2>1
<1>3. Tape'
  BY <1>1, <1>2 DEF HeadsInv, Tape
<1>4. /\ Latest' = Latest /\ Free' = Free /\ Since' = Since /\ Row' = Row /\ Closed' = Closed
  BY <1>1 DEF Latest, Free, Since, Row, Closed
<1>5. head = "Scalp" => st.count <= ts' + 1
  BY <1>2 DEF HeadsInv, Held, ScalpState
<1>6. Held'
  BY <1>1, <1>4, <1>5 DEF HeadsInv, Held
<1>7. OneShot' /\ AheadOfPrice' /\ FakeoutAnswers'
  BY <1>1 DEF HeadsInv, OneShot, AheadOfPrice, FakeoutAnswers
<1>8. QED BY <1>3, <1>6, <1>7 DEF HeadsInv

LEMMA HeadsStart == HeadsInit => HeadsInv
<1> SUFFICES ASSUME HeadsInit PROVE HeadsInv
  OBVIOUS
<1>1. /\ head \in Heads /\ st = New(head) /\ out = NoSignal /\ quiet = 0 /\ answered = FALSE
      /\ rearmed = (head # "Breakout") /\ run = 0 /\ above = "unknown"
  BY DEF HeadsInit
<1>2. out.kind = "none"
  BY <1>1 DEF NoSignal
<1>3. ts \in Int /\ ts >= -1
  BY <1>1, InputsAssumption DEF HeadsInit
<1>4. /\ LongQuiet \in Nat /\ MinSqueeze \in Nat /\ NewsCool \in Nat /\ Ready \in Nat
      /\ Impulse \in Nat /\ Half \in Nat
  BY SetupAssumption, ZonesAssumption DEF LongQuiet
<1>5. Tape
  <2>1. rearmed \in BOOLEAN /\ answered \in BOOLEAN
    BY <1>1
  <2>2. quiet \in 0 .. LongQuiet /\ run \in 0 .. MinSqueeze
    BY <1>1, <1>4
  <2>3. QED BY <1>1, <1>2, <1>3, <2>1, <2>2 DEF Tape
<1>6. OneShot /\ AheadOfPrice /\ FakeoutAnswers
  BY <1>2 DEF OneShot, AheadOfPrice, FakeoutAnswers
<1>7. head # "Breakout" => Free
  BY <1>1, <1>2 DEF Free
<1>8. Row = 0
  BY <1>1, <1>2 DEF Row
<1>9. NoRange \in Ranges
  BY DEF NoRange, Ranges
<1>10. AsianNew \in AsianStates /\ MomentumNew \in MomentumStates
  BY <1>9 DEF AsianNew, AsianStates, MomentumNew, MomentumStates
<1>11. BreakoutState(BreakoutNew) /\ BreakoutNew.squeeze = 0 /\ ~BreakoutNew.armed
       /\ BreakoutNew.tracked = "none"
  BY <1>4 DEF BreakoutState, BreakoutNew, BreakoutStates
<1>12. TrendState(TrendNew) /\ TrendNew.above = "unknown"
  BY DEF TrendState, TrendNew, TrendStates
<1>13. NewsState(NewsNew)
  BY <1>4 DEF NewsState, NewsNew, NewsStates
<1>14. ScalpState(ScalpNew) /\ ScalpNew.count = 0
  BY DEF ScalpState, ScalpNew, Lowest
<1>15. SmcState(SmcNew)
  BY <1>4 DEF SmcState, SmcNew
<1>16. ProfileState(ProfileNew)
  BY DEF ProfileState, ProfileNew
<1>17. Held
  <2>1. CASE head = "AsianRange"
    BY <1>1, <1>7, <1>10, <2>1 DEF Held, New
  <2>2. CASE head = "Momentum"
    BY <1>1, <1>7, <1>10, <2>2 DEF Held, New
  <2>3. CASE head = "Breakout"
    BY <1>1, <1>8, <1>11, <2>3 DEF Held, New
  <2>4. CASE head = "Trend"
    BY <1>1, <1>7, <1>12, <2>4 DEF Held, New
  <2>5. CASE head = "News"
    BY <1>1, <1>7, <1>13, <2>5 DEF Held, New
  <2>6. CASE head = "Scalp"
    BY <1>1, <1>3, <1>14, <2>6 DEF Held, New
  <2>7. CASE head = "Grid"
    BY <1>1, <2>7 DEF Held
  <2>8. CASE head = "Smc"
    BY <1>1, <1>7, <1>15, <2>8 DEF Held, New
  <2>9. CASE head = "VolProfile"
    BY <1>1, <1>7, <1>16, <2>9 DEF Held, New
  <2>10. head \in AllHeads
    BY <1>1, InputsAssumption
  <2>11. QED BY <2>1, <2>2, <2>3, <2>4, <2>5, <2>6, <2>7, <2>8, <2>9, <2>10 DEF AllHeads
<1>18. QED BY <1>5, <1>6, <1>17 DEF HeadsInv

LEMMA HeadsKept == HeadsInv /\ [HeadsNext]_headsVars => HeadsInv'
<1> SUFFICES ASSUME HeadsInv, [HeadsNext]_headsVars PROVE HeadsInv'
  OBVIOUS
<1>1. ASSUME NEW x \in Inputs(head), NEW blocked \in BOOLEAN, Bar(x, blocked)
      PROVE  HeadsInv'
  BY <1>1, BarKeeps
<1>2. ASSUME NEW t \in ts + 1 .. MaxSlot(head), GoLive(t)
      PROVE  HeadsInv'
  BY <1>2, GoLiveKeeps
<1>3. CASE UNCHANGED headsVars
  <2>1. UNCHANGED <<head, st, ts, out, above, last, quiet, answered, rearmed, run>>
    BY <1>3 DEF headsVars
  <2>2. Tape'
    BY <2>1 DEF HeadsInv, Tape
  <2>3. /\ Latest' = Latest /\ Free' = Free /\ Since' = Since /\ Row' = Row /\ Closed' = Closed
    BY <2>1 DEF Latest, Free, Since, Row, Closed
  <2>4. Held'
    BY <2>1, <2>3 DEF HeadsInv, Held
  <2>5. OneShot' /\ AheadOfPrice' /\ FakeoutAnswers'
    BY <2>1 DEF HeadsInv, OneShot, AheadOfPrice, FakeoutAnswers
  <2>6. QED BY <2>2, <2>4, <2>5 DEF HeadsInv
<1>4. QED BY <1>1, <1>2, <1>3 DEF HeadsNext

\* Each head's own latch keeps it from a second entry for the same setup, as a
\* reader of the tape counts setups: per day, window, leg, squeeze or cool-down.
THEOREM EntriesAreOneShot == HeadsSpec => []OneShot
<1>1. HeadsInit => HeadsInv
  BY HeadsStart
<1>2. HeadsInv /\ [HeadsNext]_headsVars => HeadsInv'
  BY HeadsKept
<1>3. HeadsInv => OneShot
  BY DEF HeadsInv
<1>4. QED BY <1>1, <1>2, <1>3, PTL DEF HeadsSpec

\* Whatever the bars, every entry of every head has its stop behind the price it
\* was computed from and its target ahead of it.
THEOREM StopsAreBehind == HeadsSpec => []AheadOfPrice
<1>1. HeadsInit => HeadsInv
  BY HeadsStart
<1>2. HeadsInv /\ [HeadsNext]_headsVars => HeadsInv'
  BY HeadsKept
<1>3. HeadsInv => AheadOfPrice
  BY DEF HeadsInv
<1>4. QED BY <1>1, <1>2, <1>3, PTL DEF HeadsSpec

\* A close of BreakoutHead answers its latest entry, in time and only once.
THEOREM ClosesAreAnswers == HeadsSpec => []FakeoutAnswers
<1>1. HeadsInit => HeadsInv
  BY HeadsStart
<1>2. HeadsInv /\ [HeadsNext]_headsVars => HeadsInv'
  BY HeadsKept
<1>3. HeadsInv => FakeoutAnswers
  BY DEF HeadsInv
<1>4. QED BY <1>1, <1>2, <1>3, PTL DEF HeadsSpec

\* The scalpers and the grid never signal, for any configuration whose run ends
\* before the bar counter wraps.
THEOREM SomeHeadsNeverTrade == HeadsSpec => []Dormant
<1>1. HeadsInit => HeadsInv
  BY HeadsStart
<1>2. HeadsInv /\ [HeadsNext]_headsVars => HeadsInv'
  BY HeadsKept
<1>3. HeadsInv => Dormant
  BY DEF HeadsInv, Held, Dormant
<1>4. QED BY <1>1, <1>2, <1>3, PTL DEF HeadsSpec
=============================================================================
