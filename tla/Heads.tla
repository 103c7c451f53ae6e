------------------------------- MODULE Heads --------------------------------
(***************************************************************************)
(* A strategy head and the program that feeds it: the live loop            *)
(* (phase1.rs:868 warm-up, :1155 process_live_bar) or the backtest engine  *)
(* (engine.rs:574, :1126 advance_heads).  Heads share no state, so each    *)
(* behaviour follows one of them.  The head is warmed up with stored bars  *)
(* and then, any time later, fed the bars of the run: the store may be     *)
(* days old when a session starts.  The indicators, the regime and the     *)
(* shape of the bar are inputs, taken from Inputs.                         *)
(***************************************************************************)
EXTENDS ZoneHeads

CONSTANTS
    Heads,        \* the heads to look at
    Inputs(_),    \* what a bar may look like to a head
    Starts(_),    \* slots of the first stored bar, by head
    MaxSlot(_)    \* bound: the last slot of the history and of the run

AllHeads == {"AsianRange", "Momentum", "Breakout", "Trend", "News", "Scalp",
             "Grid", "Smc", "VolProfile"}

\* What a head reads of a bar: a low below its high, a lower band below its
\* upper, an average true range that is not negative.
Readable(h, x) ==
    /\ {"ts", "close"} \subseteq DOMAIN x /\ x.close \in Int
    /\ h \in {"AsianRange", "Momentum", "Trend", "News", "Smc"} =>
        {"low", "high"} \subseteq DOMAIN x /\ {x.low, x.high} \subseteq Int /\ x.low <= x.high
    /\ h \in {"Breakout", "Trend", "News", "Grid", "Smc"} =>
        "atr" \in DOMAIN x /\ x.atr \in Nat
    /\ h = "Breakout" =>
        {"lower", "upper"} \subseteq DOMAIN x /\ {x.lower, x.upper} \subseteq Int /\ x.lower <= x.upper
    /\ h = "Trend" =>
        {"ema", "above"} \subseteq DOMAIN x /\ x.ema \in Int /\ x.above \in {"yes", "no"}
    /\ h = "Smc" => "open" \in DOMAIN x /\ x.open \in Int

\* No head lives long enough for its bar counter to wrap.
ASSUME InputsAssumption ==
    /\ Heads \subseteq AllHeads
    /\ \A h \in Heads :
        /\ Starts(h) \subseteq Nat
        /\ MaxSlot(h) \in Int /\ MaxSlot(h) + 1 < Half
        /\ \A x \in Inputs(h) : Readable(h, x)

VARIABLES
    head, caller, \* chosen once
    st,           \* the state of the head
    ts,           \* the slot of the last bar
    live,         \* the warm-up is over
    out,          \* what evaluate returned for the last bar
    kept,         \* what of it the caller acts on
    price, above, \* the close of the last bar, the side of its averages
    \* What a reader of the tape has seen:
    last,         \* the last entry the head signalled
    quiet,        \* bars since
    answered,     \* a close has been signalled since
    rearmed,      \* what the head has to wait for has happened since
    run,          \* squeezed bars in a row since
    joint         \* <<last stored slot, first slot of the run>>

headsVars == <<head, caller, st, ts, live, out, kept, price, above, last, quiet,
               answered, rearmed, run, joint>>

New(h) ==
    CASE h = "AsianRange" -> AsianNew    [] h = "Momentum"   -> MomentumNew
      [] h = "Breakout"   -> BreakoutNew [] h = "Trend"      -> TrendNew
      [] h = "News"       -> NewsNew     [] h = "Scalp"      -> ScalpNew
      [] h = "Grid"       -> GridNew     [] h = "Smc"        -> SmcNew
      [] h = "VolProfile" -> ProfileNew

Evaluate(h, s, b) ==
    CASE h = "AsianRange" -> AsianStep(s, b)
      [] h = "Momentum"   -> MomentumStep(s, b)
      [] h = "Breakout"   -> BreakoutStep(s, b)
      [] h = "Trend"      -> TrendStep(s, b)
      [] h = "News"       -> NewsStep(s, b)
      [] h = "Scalp"      -> ScalpStep(s, b)
      [] h = "Grid"       -> GridStep(s, b)
      [] h = "Smc"        -> SmcStep(s, b)
      [] h = "VolProfile" -> ProfileStep(s, b)

\* A head is created when the program starts; the history begins anywhere
\* in a day.
HeadsInit ==
    /\ head \in Heads /\ caller \in {"live", "engine"}
    /\ st = New(head)
    /\ ts \in { t - 1 : t \in Starts(head) }
    /\ live = FALSE
    /\ out = NoSignal /\ kept = NoSignal
    /\ price = 0 /\ above = "unknown"
    /\ last = NoSignal /\ quiet = 0 /\ answered = FALSE
    /\ rearmed = (head # "Breakout") /\ run = 0
    /\ joint = <<-1, -1>>

\* What of the signals the caller acts on: nothing during the warm-up and
\* on bars whose entries are blocked (advance_heads); the engine executes
\* closes of any head, the live loop drops whatever comes of a head the
\* regime does not allow.
Acted(sig, b, blocked) ==
    IF ~live \/ blocked \/ sig = NoSignal THEN NoSignal
    ELSE IF b.allowed \/ (caller = "engine" /\ sig.kind = "Close") THEN sig
    ELSE NoSignal

\* The event, on bar b, after which a head may signal an entry again.
Rearms(b) ==
    CASE head = "AsianRange" ->
           last' # NoSignal /\ Day(b.ts) # Day(last'.ts)
      [] head = "Momentum" ->
           last' # NoSignal /\ Window(b.ts) # Window(last'.ts)
      [] head = "Smc" ->
           last' # NoSignal /\ b.ts - last'.ts >= SmcGap
      [] head = "Breakout"   -> run' = MinSqueeze
      [] head = "Trend"      -> above # "unknown" /\ above # b.above
      [] head = "News"       -> quiet' > NewsCool
      [] head = "VolProfile" -> quiet' >= ProfileCool
      [] OTHER               -> FALSE

\* As many quiet bars as anything is compared with.
LongQuiet == NewsCool + ProfileCool + FakeoutBars + 1

\* What a reader of the tape sees on bar b.
Observe(b) ==
    /\ price' = b.close
    /\ above' = IF head = "Trend" THEN b.above ELSE "unknown"
    /\ last' = IF out.kind = "Open" THEN out ELSE last
    /\ quiet' = IF out.kind = "Open" THEN 1
                ELSE IF quiet < LongQuiet THEN quiet + 1 ELSE quiet
    /\ answered' = ((answered /\ out.kind # "Open") \/ out.kind = "Close")
    /\ run' = IF head # "Breakout" \/ b.width # "squeezed" THEN 0
              ELSE LET n == IF out.kind = "none" THEN run ELSE 0
                   IN  IF n < MinSqueeze THEN n + 1 ELSE n
    /\ rearmed' = ((rearmed /\ out.kind # "Open") \/ Rearms(b))

\* The bars of a live session are built from ticks without a volume
\* (phase1.rs:1052).
Fed(x) ==
    IF head = "VolProfile" /\ live /\ caller = "live"
    THEN [x EXCEPT !.ts = ts', !.volume = 0] ELSE [x EXCEPT !.ts = ts']

\* One closed bar, of the store or of the run.
Bar(x, blocked) ==
    LET b == Fed(x)
        r == Evaluate(head, st, b)
    IN  /\ ts < MaxSlot(head) /\ ts' = ts + 1
        /\ st' = r.st /\ out' = r.out
        /\ kept' = Acted(r.out, b, blocked)
        /\ Observe(b)
        /\ UNCHANGED <<head, caller, live, joint>>

\* The warm-up ends: the next bar is the one in progress when the session
\* starts, however old the store is.  A backtest has no such joint.
GoLive(t) ==
    /\ ~live /\ ts >= 0
    /\ caller = "engine" => t = ts + 1
    /\ live' = TRUE
    /\ ts' = t - 1
    /\ joint' = <<ts, t>>
    /\ UNCHANGED <<head, caller, st, out, kept, price, above, last, quiet,
                   answered, rearmed, run>>

HeadsNext ==
    \/ \E x \in Inputs(head), blocked \in BOOLEAN :
          /\ blocked => caller = "engine" /\ live
          /\ Bar(x, blocked)
    \/ \E t \in ts + 1 .. MaxSlot(head) : GoLive(t)

HeadsSpec == HeadsInit /\ [][HeadsNext]_headsVars

-----------------------------------------------------------------------------
\* A head signals an entry once for what set it up: AsianRange once a day,
\* Momentum once a window, Trend once between two crosses of its averages,
\* Breakout once a squeeze, the others once a cool-down, across restarts of
\* the feed, bars the caller throws away and fake-outs in between.
OneShot == out.kind = "Open" => rearmed

\* The stop and the target of an entry lie on their two sides of the price
\* the head computed them from.  No head checks it: a close far beyond the
\* range, or a target of an older impulse, is kept out by the reward to risk
\* filter, which takes absolute values.
AheadOfPrice ==
    out.kind = "Open" =>
        /\ Sign(out.dir) * out.sl < Sign(out.dir) * out.ref
        /\ Sign(out.dir) * out.ref < Sign(out.dir) * out.tp

\* An AsianRange entry breaks a range of this morning; a Momentum entry one
\* of this window, unless the run began in the window the store ended in; a
\* Trend entry goes the way the averages stand when it is signalled.
OwnSetup ==
    out.kind = "Open" =>
        /\ head = "AsianRange" =>
             \A t \in st.range.from :
                 Day(t) = Day(out.ts) /\ Slot(t) < AsianEnd
        /\ head = "Momentum" =>
             \A t \in st.range.from :
                 /\ Window(t) = Window(out.ts) /\ t < out.ts
                 /\ \/ Day(t) = Day(out.ts)
                    \/ t <= joint[1] /\ Window(joint[1]) = Window(joint[2])
        /\ head = "Trend" => (out.dir = "Buy") = (above = "yes")

\* A close of BreakoutHead answers an entry it signalled at most FakeoutBars
\* bars ago, in its direction, and no entry is answered twice.
FakeoutAnswers ==
    out.kind = "Close" =>
        /\ last.kind = "Open" /\ out.dir = last.dir
        /\ quiet <= FakeoutBars
        /\ ~answered

\* The scalpers' cool-down is never over, because the distance to a signal
\* that was never given wraps around, and no level of the grid pays 1.5
\* times its stop: these heads never trade.
Dormant == head \in {"Scalp", "Grid"} => out = NoSignal

-----------------------------------------------------------------------------
(* What the program does not keep (see the README).                        *)

\* The range a Momentum entry breaks is always one of the same day.
RangeOfToday ==
    out.kind = "Open" /\ head = "Momentum" =>
        \A t \in st.range.from : Day(t) = Day(out.ts)

\* A fake-out reaches the position: the caller acts on every close of a head.
FakeoutDelivered == out.kind = "Close" /\ live => kept = out

\* The stop of an entry at the market protects it at the price it is taken.
StopProtects ==
    out.kind = "Open" /\ head = "News" =>
        Sign(out.dir) * out.sl < Sign(out.dir) * price

\* An entry the caller acts on passes its reward to risk gate of 1.2, which
\* measures from the signal's entry price (adjusted_rr).
GateCanPass ==
    kept.kind = "Open" =>
        RrAtLeast(Distance(kept.tp, kept.entry), Distance(kept.entry, kept.sl), 12)

\* A zone is traded when the price returns to it, not by the bar that made
\* it.
ZoneIsOlder ==
    out.kind = "Open" /\ head = "Smc" => out.at < out.ts
=============================================================================
