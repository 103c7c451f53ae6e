---------------------------- MODULE SessionHeads ----------------------------
(***************************************************************************)
(* The two strategy heads that trade the breakout of a range built earlier *)
(* in the day: AsianRangeHead (asian_range.rs) and MomentumHead            *)
(* (momentum.rs).  A head is a state and a step: the bar that just closed  *)
(* updates the state, and at most one signal comes of it.                  *)
(*                                                                         *)
(* Time counts M15 slots, prices half pips (so that the middle of a range  *)
(* is a number).  The VWAP of MomentumHead is an input of the bar.  With   *)
(* a range goes the set of the slots it was built from ("from"), empty     *)
(* exactly when the code's high and low are None.                          *)
(***************************************************************************)
EXTENDS Integers, FiniteSets

CONSTANTS
    SlotsPerDay, SlotsPerHour,
    DeadSlots,      \* slots of a day in the Dead session
    AsianEnd,       \* asian_end_utc: the range is built before this slot
    EntryEnd,       \* entry_window_end
    London, NewYork,\* slots of the two momentum windows
    FirstBars,      \* first_hour_bars
    Warmup,         \* warmup_bars() of every head
    MinRange, MaxRange,
    Buffer          \* sl_buffer_pips of AsianRangeHead

ASSUME SlotsAssumption ==
    /\ SlotsPerDay \in Nat \ {0} /\ SlotsPerHour \in Nat \ {0}
    /\ AsianEnd \in Nat /\ EntryEnd \in Nat /\ AsianEnd <= EntryEnd
    /\ London \subseteq Nat /\ NewYork \subseteq Nat
    /\ London \cap NewYork = {}
    /\ FirstBars \in Nat \ {0} /\ Warmup \in Nat
    /\ MinRange \in Nat /\ MaxRange \in Nat /\ Buffer \in Nat

Day(t)    == t \div SlotsPerDay
Slot(t)   == t % SlotsPerDay
Dead(t)   == Slot(t) \in DeadSlots
Dirs      == {"Buy", "Sell"}
Sign(d)   == IF d = "Buy" THEN 1 ELSE -1
NoSignal  == [kind |-> "none"]

\* An entry at the price "entry" (0: at the market); "ref" is the price the
\* head computed stop and target from; "at" the slot its setup was found.
Open(b, d, entry, sl, tp) ==
    [kind |-> "Open", dir |-> d, entry |-> entry, ref |-> b.close,
     sl |-> sl, tp |-> tp, ts |-> b.ts, at |-> b.ts]

\* Mutation of RrAtLeast: the filter only asks for a stop.
RrAny(reward, risk, tenths) == risk > 0

\* reward / risk >= tenths / 10
RrAtLeast(reward, risk, tenths) == risk > 0 /\ 10 * reward >= tenths * risk
Distance(a, b) == IF a > b THEN a - b ELSE b - a

\* A handler that ends without a signal, or with one and the state after it.
Step(s, signals, after) ==
    IF signals = {} THEN [st |-> s, out |-> NoSignal]
    ELSE [st |-> after, out |-> CHOOSE sig \in signals : TRUE]

-----------------------------------------------------------------------------
NoRange == [from |-> {}, high |-> 0, low |-> 0]

Widen(r, b) ==
    [from |-> r.from \cup {b.ts},
     high |-> IF r.from = {} \/ b.high > r.high THEN b.high ELSE r.high,
     low  |-> IF r.from = {} \/ b.low  < r.low  THEN b.low  ELSE r.low]

\* The entries on the breakout of a range by more than the buffer: stop in
\* the middle of it, target its height beyond it.
RangeBreakouts(r, b, buffer, tenths) ==
    { Open(b, d, b.close, (r.high + r.low) \div 2,
           IF d = "Buy" THEN 2 * r.high - r.low ELSE 2 * r.low - r.high) :
        d \in { x \in Dirs :
          /\ IF x = "Buy" THEN b.close > r.high + buffer
                          ELSE b.close < r.low - buffer
          /\ RrAtLeast(
               Distance(IF x = "Buy" THEN 2 * r.high - r.low
                                     ELSE 2 * r.low - r.high, b.close),
               Distance(b.close, (r.high + r.low) \div 2), tenths) } }

-----------------------------------------------------------------------------
(* AsianRangeHead                                                          *)

AsianNew == [day |-> -1, range |-> NoRange, taken |-> FALSE, seen |-> 0]

\* bars_processed only has to tell a warm head from a cold one.
Seen(s) == IF s.seen < Warmup THEN s.seen + 1 ELSE s.seen

\* Mutation of AsianUpdate: a new day widens the range of the last one.
AsianUpdateKept(s, b) ==
    LET today == IF s.day = Day(b.ts) THEN s
                 ELSE [s EXCEPT !.day = Day(b.ts), !.taken = FALSE]
    IN  [today EXCEPT
           !.range = IF Slot(b.ts) < AsianEnd THEN Widen(@, b) ELSE @,
           !.seen  = Seen(s)]

\* update_asian_range, run on every bar.
AsianUpdate(s, b) ==
    LET today == IF s.day = Day(b.ts) THEN s
                 ELSE [s EXCEPT !.day = Day(b.ts), !.range = NoRange,
                                !.taken = FALSE]
    IN  [today EXCEPT
           !.range = IF Slot(b.ts) < AsianEnd THEN Widen(@, b) ELSE @,
           !.seen  = Seen(s)]

\* Only the M15 bar that closes an hour stands for the H1 close.
EntryBar(b) ==
    /\ Slot(b.ts) >= AsianEnd /\ Slot(b.ts) < EntryEnd
    /\ Slot(b.ts) % SlotsPerHour = SlotsPerHour - 1

AsianSignals(s, b) ==
    { sig \in RangeBreakouts(s.range, b, Buffer, 12) :
        /\ b.allowed /\ s.seen >= Warmup /\ ~Dead(b.ts)
        /\ ~s.taken /\ EntryBar(b)
        /\ s.range.from # {}
        /\ s.range.high - s.range.low >= MinRange
        /\ s.range.high - s.range.low <= MaxRange }

AsianStep(s, b) ==
    LET u == AsianUpdate(s, b)
    IN  Step(u, AsianSignals(u, b), [u EXCEPT !.taken = TRUE])

-----------------------------------------------------------------------------
(* MomentumHead                                                            *)

Window(t) == IF Slot(t) \in London THEN "London"
             ELSE IF Slot(t) \in NewYork THEN "NewYork" ELSE "none"

MomentumNew == [window |-> "none", range |-> NoRange, bars |-> 0,
                taken |-> FALSE, seen |-> 0]

\* update_session_range, run on every bar: the range starts over when the
\* window is not the one of the bar before, and is complete (range_formed)
\* with its FirstBars-th bar.
MomentumUpdate(s, b) ==
    LET w    == Window(b.ts)
        here == IF s.window = w THEN s
                ELSE [MomentumNew EXCEPT !.window = w]
        bars == IF w # "none" /\ here.bars <= FirstBars THEN here.bars + 1
                ELSE here.bars
    IN  [here EXCEPT
           !.bars  = bars,
           !.range = IF w # "none" /\ bars <= FirstBars THEN Widen(@, b) ELSE @,
           !.seen  = Seen(s)]

\* b.vwap: the close is on the breakout's side of the VWAP, or the bar has
\* no volume and the filter is skipped.
MomentumSignals(s, b) ==
    { sig \in RangeBreakouts(s.range, b, 0, 15) :
        /\ b.allowed /\ s.window # "none"
        /\ s.seen >= Warmup /\ ~Dead(b.ts)
        /\ ~s.taken /\ s.bars >= FirstBars
        /\ s.range.high - s.range.low >= MinRange
        /\ b.vwap }

MomentumStep(s, b) ==
    LET u == MomentumUpdate(s, b)
    IN  Step(u, MomentumSignals(u, b), [u EXCEPT !.taken = TRUE])
=============================================================================
