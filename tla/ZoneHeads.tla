----------------------------- MODULE ZoneHeads ------------------------------
(***************************************************************************)
(* The strategy heads that trade the return of the price to a zone:        *)
(* SmcHead (smc.rs), with order blocks and fair value gaps found in the    *)
(* last bars, and VolProfileHead (vol_profile.rs), with the value area of  *)
(* a volume profile.  Both enter at the market.                            *)
(***************************************************************************)
EXTENDS SetupHeads, Sequences, SequencesExt

CONSTANTS
    Impulse,      \* IMPULSE_BARS
    SmcBars,      \* bars of history SmcHead wants
    SmcGap,       \* min_bars_between_signals of SmcHead, in slots
    MaxZones,     \* zones of a kind it keeps
    Lookback,     \* lookback of VolProfileHead
    MinProfile,   \* bars a profile is computed from at least
    Buckets,      \* BUCKETS
    ProfileCool   \* cool_bars of VolProfileHead

ASSUME ZonesAssumption ==
    /\ Impulse \in Nat \ {0, 1} /\ SmcBars \in Nat /\ SmcBars >= Impulse + 2
    /\ SmcGap \in Nat /\ MaxZones \in Nat \ {0}
    /\ Lookback \in Nat \ {0} /\ MinProfile \in Nat \ {0}
    /\ Buckets \in Nat \ {0} /\ ProfileCool \in Nat

LastOf(seq, n) == IF Len(seq) <= n THEN seq
                  ELSE SubSeq(seq, Len(seq) - n + 1, Len(seq))

-----------------------------------------------------------------------------
(* SmcHead.  Of the fifty bars it keeps, the Impulse + 1 last are read.    *)

SmcNew == [bars |-> <<>>, blocks |-> <<>>, gaps |-> <<>>, last |-> -1,
           seen |-> 0]

Candle(b) == [open |-> b.open, close |-> b.close, high |-> b.high,
              low |-> b.low, ts |-> b.ts]

Strong(c, d, atr) ==
    /\ Sign(d) * (c.close - c.open) > 0
    /\ 10 * Distance(c.close, c.open) >= 3 * atr

\* A zone waits for the price to come back from the side it will leave to:
\* Near is its edge on that side, Far the other one.
Near(z) == IF z.dir = "Buy" THEN z.high ELSE z.low
Far(z)  == IF z.dir = "Buy" THEN z.low ELSE z.high

\* The block: the last candle against the impulse the last bars make; its
\* target is the end of the impulse.
Blocks(bars, atr) ==
    LET impulse == LastOf(bars, Impulse)
        base    == bars[Len(bars) - Impulse]
        ends(d) == { IF d = "Buy" THEN impulse[i].high ELSE impulse[i].low :
                        i \in 1 .. Impulse }
    IN  { [dir |-> d, low |-> base.low, high |-> base.high,
           at |-> bars[Len(bars)].ts,
           target |-> CHOOSE x \in ends(d) :
                        \A y \in ends(d) : Sign(d) * x >= Sign(d) * y] :
            d \in { x \in Dirs :
              /\ \A i \in 1 .. Impulse : Strong(impulse[i], x, atr)
              /\ Sign(x) * (base.close - base.open) < 0 } }

\* The gap the middle one of the last three bars left.
Gaps(bars) ==
    LET b0 == bars[Len(bars) - 2]
        b2 == bars[Len(bars)]
    IN  (IF b0.high < b2.low
         THEN {[dir |-> "Buy", low |-> b0.high, high |-> b2.low, at |-> b2.ts]}
         ELSE {})
        \cup
        (IF b2.high < b0.low
         THEN {[dir |-> "Sell", low |-> b2.high, high |-> b0.low, at |-> b2.ts]}
         ELSE {})

\* At most one zone of a kind comes of a bar.
Keep(zones, new) ==
    LastOf(zones \o (IF new = {} THEN <<>> ELSE <<CHOOSE z \in new : TRUE>>),
           MaxZones)

Scan(s, atr) ==
    [s EXCEPT !.blocks = Keep(@, Blocks(s.bars, atr)),
              !.gaps   = Keep(@, Gaps(s.bars))]

\* The extreme of the bar on the side it comes back to the zone.
Reach(z, b) == IF z.dir = "Buy" THEN b.low ELSE b.high

InBlock(z, b) ==
    /\ Sign(z.dir) * Reach(z, b) <= Sign(z.dir) * Near(z)
    /\ Sign(z.dir) * b.close > Sign(z.dir) * Far(z)
    /\ Sign(z.dir) * (b.close - b.open) > 0

InGap(z, b) ==
    /\ z.low <= Reach(z, b) /\ Reach(z, b) <= z.high
    /\ Sign(z.dir) * b.close > Sign(z.dir) * Near(z)

\* Stop half an ATR beyond the zone, target twice the risk (>= min_rr by
\* the configuration).
ZoneStop(z, b)   == Far(z) - Sign(z.dir) * ((5 * b.atr) \div 10)
ZoneTarget(z, b) == b.close + Sign(z.dir) * 2 * Distance(b.close, ZoneStop(z, b))

\* A block's target is the end of its impulse when that is further away.
BlockTarget(z, b) ==
    IF Sign(z.dir) * z.target > Sign(z.dir) * ZoneTarget(z, b)
    THEN z.target ELSE ZoneTarget(z, b)

\* The first zone of the list the bar is an entry of.
FirstOf(zones, Is(_)) ==
    LET hits == { i \in 1 .. Len(zones) : Is(zones[i]) }
    IN  IF hits = {} THEN {}
        ELSE { zones[CHOOSE i \in hits : \A j \in hits : i <= j] }

BlockSignals(s, b) ==
    { [Open(b, z.dir, 0, ZoneStop(z, b), BlockTarget(z, b)) EXCEPT !.at = z.at] :
        z \in FirstOf(s.blocks, LAMBDA x : InBlock(x, b)) }

GapSignals(s, b) ==
    { [Open(b, z.dir, 0, ZoneStop(z, b), ZoneTarget(z, b)) EXCEPT !.at = z.at] :
        z \in FirstOf(s.gaps, LAMBDA x : InGap(x, b)) }

\* Patterns are looked for on the bars that may signal only.
SmcLooks(s, b) ==
    /\ s.seen >= SmcBars /\ s.seen > Ready /\ ~Dead(b.ts)
    /\ s.last = -1 \/ b.ts - s.last >= SmcGap

SmcStep(s0, b) ==
    LET s == [s0 EXCEPT !.bars = LastOf(Append(@, Candle(b)), Impulse + 1),
                        !.seen = Count(s0)]
        t == Scan(s, b.atr)
    IN  IF ~SmcLooks(s, b) THEN [st |-> s, out |-> NoSignal]
        ELSE IF BlockSignals(t, b) # {}
        THEN Step(t, BlockSignals(t, b),
                  [t EXCEPT !.blocks = <<>>, !.last = b.ts])
        ELSE Step(t, GapSignals(t, b), [t EXCEPT !.gaps = <<>>, !.last = b.ts])

-----------------------------------------------------------------------------
(* VolProfileHead.  The levels of a profile are multiples of half a bucket *)
(* (compute_profile): prices times Scale, so that they are numbers.        *)

ProfileNew == [bars |-> <<>>, last |-> -1, count |-> 0, seen |-> 0]

Least(S) == CHOOSE x \in S : \A y \in S : x <= y
Most(S)  == CHOOSE x \in S : \A y \in S : x >= y

Floor(bars)  == Least({ bars[i].low : i \in DOMAIN bars })
Height(bars) == Most({ bars[i].high : i \in DOMAIN bars }) - Floor(bars)
Total(bars)  == FoldSet(LAMBDA i, sum : sum + bars[i].volume, 0, DOMAIN bars)

\* The buckets each bar spans.
Spans(bars) ==
    LET floor  == Floor(bars)
        height == Height(bars)
        Bucket(price) == LET i == ((price - floor) * Buckets) \div height
                         IN  IF i < Buckets THEN i ELSE Buckets - 1
    IN  [i \in DOMAIN bars |-> Bucket(bars[i].low) .. Bucket(bars[i].high)]

\* The volume a bucket gets of each bar that spans it: an even share,
\* rounded down.
Histogram(bars) ==
    LET spans == Spans(bars)
        share == [i \in DOMAIN bars |->
                    bars[i].volume \div Cardinality(spans[i])]
    IN  [k \in 0 .. Buckets - 1 |->
            FoldSet(LAMBDA i, sum : sum + share[i], 0,
                    { i \in DOMAIN bars : k \in spans[i] })]

InArea(h, area) ==
    FoldSet(LAMBDA k, sum : sum + h[k], 0, area[1] .. area[2])

\* The last one of the buckets with the most volume (max_by_key).
Poc(h) == Most({ k \in DOMAIN h : \A j \in DOMAIN h : h[j] <= h[k] })

\* One step of the expansion: to the side with more volume, upwards first.
Grow(h, area) ==
    LET down == IF area[1] > 0 THEN h[area[1] - 1] ELSE 0
        up   == IF area[2] < Buckets - 1 THEN h[area[2] + 1] ELSE 0
    IN  IF area[2] < Buckets - 1 /\ (up >= down \/ area[1] = 0)
        THEN <<area[1], area[2] + 1>> ELSE <<area[1] - 1, area[2]>>

\* The buckets around the point of control that hold the target volume.
ValueArea(h, target) ==
    LET area[n \in 0 .. Buckets] ==
            IF n = 0 THEN <<Poc(h), Poc(h)>>
            ELSE LET a == area[n - 1]
                 IN  IF InArea(h, a) >= target \/ a = <<0, Buckets - 1>>
                     THEN a ELSE Grow(h, a)
    IN  area[Buckets]

Scale == 2 * Buckets

\* The point of control (the middle of its bucket) and the edges of the area
\* that holds 70% of the volume.
Levels(bars) ==
    LET h     == Histogram(bars)
        area  == ValueArea(h, (7 * Total(bars)) \div 10)
        At(n) == Scale * Floor(bars) + Height(bars) * n
    IN  [poc |-> At(2 * Poc(h) + 1), val |-> At(2 * area[1]),
         vah |-> At(2 * area[2] + 2)]

HasProfile(bars) ==
    Len(bars) >= MinProfile /\ Height(bars) > 0 /\ Total(bars) > 0

\* The bar tests the edge of the value area and closes back inside; the
\* target is the point of control.
EdgeSignal(b, d, levels) ==
    LET edge  == IF d = "Buy" THEN levels.val ELSE levels.vah
        price == Scale * b.close
        sl    == edge - Sign(d) * Scale * ((8 * b.atr) \div 10)
        risk  == Distance(price, sl)
    IN  IF /\ Sign(d) * Scale * (IF d = "Buy" THEN b.low ELSE b.high)
                  <= Sign(d) * edge
           /\ Sign(d) * price >= Sign(d) * edge
           /\ Sign(d) * sl < Sign(d) * price /\ Sign(d) * price < Sign(d) * levels.poc
           /\ RrAtLeast(Distance(levels.poc, price), risk, 15)
        THEN { [Open(b, d, 0, sl, levels.poc) EXCEPT !.ref = price] }
        ELSE {}

\* The rejection at the lower edge is tried first.
ProfileSignals(s, b) ==
    IF /\ s.seen > Ready /\ ~Dead(b.ts)
       /\ s.last = -1 \/ s.count - s.last >= ProfileCool
       /\ HasProfile(s.bars)
    THEN LET levels == Levels(s.bars)
             buys   == EdgeSignal(b, "Buy", levels)
         IN  IF buys # {} THEN buys ELSE EdgeSignal(b, "Sell", levels)
    ELSE {}

ProfileStep(s0, b) ==
    LET bar == [low |-> b.low, high |-> b.high, volume |-> b.volume]
        s == [bars  |-> LastOf(Append(s0.bars, bar), Lookback),
              last  |-> s0.last, count |-> s0.count + 1, seen |-> Count(s0)]
    IN  Step(s, ProfileSignals(s, b), [s EXCEPT !.last = s.count])
=============================================================================
