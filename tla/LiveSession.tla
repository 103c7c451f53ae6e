---------------------------- MODULE LiveSession -----------------------------
(***************************************************************************)
(* The outer loop of a live session (run_live, phase1.rs:1008) and the bar *)
(* streamer it feeds (gadarah-feed/src/lib.rs:65): shutdown check, link    *)
(* check with reconnect, one poll of the cached tick, at most one closed   *)
(* bar handed to process_live_bar.  What process_live_bar does is LiveLoop;*)
(* here it takes time, and may enter a trade if the staleness checks pass. *)
(* A reconnect, and a notice to the webhook if one is set, are calls that  *)
(* nothing limits in time: the loop is outside while it makes them.        *)
(*                                                                         *)
(* A tick is the time it was received at; a bar is its period and the set  *)
(* of ticks it was built from, so high, low and close are those of the     *)
(* set.  Prices are left out.                                              *)
(***************************************************************************)
EXTENDS Integers

CONSTANTS
    Period,        \* duration of a bar
    ExitAfter,     \* TICK_FAIL_EXIT_THRESHOLD
    StaleAfter,    \* both stale price thresholds of the execution engine
    MaxDrops,      \* bound: times the connection is lost
    MaxTime        \* bound: last value of the clock

ASSUME ConstantsAssumption ==
    /\ Period \in Nat \ {0} /\ ExitAfter \in Nat \ {0}
    /\ StaleAfter \in Nat
    /\ MaxDrops \in Nat /\ MaxTime \in Nat

NoTick == -1
NoBar  == [period |-> -1, ticks |-> {}]

VARIABLES
    clock,       \* wall clock
    link,        \* client.is_connected()
    feed,        \* the venue streams spot events on this link
    drops,       \* connections lost so far
    tick,        \* the tick cached by the client, by its time
    bar,         \* the streamer's bar in progress
    lastBar,     \* last_bar_ts, as a period
    failures,    \* consecutive_tick_failures
    seenAt,      \* execution.last_tick_ms, set at the poll
    seenTick,    \* execution.last_tick_time, the time of the tick
    polled,      \* every tick the loop has polled
    shutdown,    \* the flag the signal handler sets
    pc           \* "top", "dial", "poll", "process", "leave" or "stopped"

vars == <<clock, link, feed, drops, tick, bar, lastBar, failures, seenAt,
          seenTick, polled, shutdown, pc>>

feedVars == <<link, feed, drops, tick>>
barVars  == <<bar, lastBar, seenAt, seenTick, polled>>

\* The session is connected, and warmed up with history up to some period.
Init ==
    /\ clock = 0
    /\ link = TRUE /\ feed = TRUE /\ drops = 0
    /\ tick = NoTick
    /\ bar = NoBar
    /\ lastBar \in {-1, 0}
    /\ failures = 0
    /\ seenAt = NoTick /\ seenTick = NoTick
    /\ polled = {}
    /\ shutdown = FALSE
    /\ pc = "top"

-----------------------------------------------------------------------------
(* The world.                                                              *)

Elapse ==
    /\ clock < MaxTime
    /\ clock' = clock + 1
    /\ UNCHANGED <<feedVars, barVars, failures, shutdown, pc>>

\* handle_incoming stores a spot event under the time of its arrival.
SpotEvent ==
    /\ link /\ feed
    /\ tick' = clock
    /\ UNCHANGED <<clock, link, feed, drops, barVars, failures, shutdown, pc>>

\* The venue stops streaming on a connection that stays up.
Silence ==
    /\ feed
    /\ feed' = FALSE
    /\ UNCHANGED <<clock, link, drops, tick, barVars, failures, shutdown, pc>>

DropLink ==
    /\ link /\ drops < MaxDrops
    /\ link' = FALSE
    /\ drops' = drops + 1
    /\ UNCHANGED <<clock, feed, tick, barVars, failures, shutdown, pc>>

Signal ==
    /\ ~shutdown
    /\ shutdown' = TRUE
    /\ UNCHANGED <<clock, feedVars, barVars, failures, pc>>

World == Elapse \/ SpotEvent \/ Silence \/ DropLink \/ Signal

-----------------------------------------------------------------------------
(* The loop.                                                               *)

\* Mutation of StopOnSignal: the flag is looked at on a working link only.
StopOnSignalLinked ==
    /\ pc = "top" /\ shutdown /\ link
    /\ pc' = "leave"
    /\ UNCHANGED <<clock, feedVars, barVars, failures, shutdown>>

StopOnSignal ==
    /\ pc = "top" /\ shutdown
    /\ pc' = "leave"
    /\ UNCHANGED <<clock, feedVars, barVars, failures, shutdown>>

LinkFine ==
    /\ pc = "top" /\ ~shutdown /\ link
    /\ pc' = "poll"
    /\ UNCHANGED <<clock, feedVars, barVars, failures, shutdown>>

\* The loss is announced and reconnect_blocking entered.
Dial ==
    /\ pc = "top" /\ ~shutdown /\ ~link
    /\ pc' = "dial"
    /\ UNCHANGED <<clock, feedVars, barVars, failures, shutdown>>

\* The reconnect works within its ten attempts: the client's caches are new.
Reconnect ==
    /\ pc = "dial"
    /\ link' = TRUE /\ feed' = TRUE
    /\ tick' = NoTick
    /\ failures' = 0
    /\ pc' = "poll"
    /\ UNCHANGED <<clock, drops, barVars, shutdown>>

ReconnectFails ==
    /\ pc = "dial"
    /\ pc' = "leave"
    /\ UNCHANGED <<clock, feedVars, barVars, failures, shutdown>>

\* The last notice, before the break.
Leave ==
    /\ pc = "leave"
    /\ pc' = "stopped"
    /\ UNCHANGED <<clock, feedVars, barVars, failures, shutdown>>

\* The client has no tick: the circuit breaker counts.
PollFails ==
    /\ pc = "poll" /\ tick = NoTick
    /\ failures' = failures + 1
    /\ pc' = IF failures' >= ExitAfter THEN "leave" ELSE "top"
    /\ UNCHANGED <<clock, feedVars, barVars, shutdown>>

PeriodOf(t) == t \div Period

\* Mutation of Streamed: the tick that closes a bar is not in the next one.
StreamedLate ==
    IF bar.period = PeriodOf(tick)
    THEN [bar EXCEPT !.ticks = @ \cup {tick}]
    ELSE [period |-> PeriodOf(tick), ticks |-> IF bar = NoBar THEN {tick} ELSE {}]

\* The bar in progress after process_tick.
Streamed ==
    IF bar.period = PeriodOf(tick)
    THEN [bar EXCEPT !.ticks = @ \cup {tick}]
    ELSE [period |-> PeriodOf(tick), ticks |-> {tick}]

\* The tick opened a new period: the bar before it is complete.
Closes == bar # NoBar /\ bar.period # PeriodOf(tick)

\* Mutation of PollTick: the streamer is restarted when a bar is handed on.
PollTickRestarts ==
    /\ pc = "poll" /\ tick # NoTick
    /\ failures' = 0
    /\ seenAt' = clock /\ seenTick' = tick
    /\ polled' = polled \cup {tick}
    /\ bar' = IF Closes THEN NoBar ELSE Streamed
    /\ IF Closes /\ bar.period > lastBar
       THEN lastBar' = bar.period /\ pc' = "process"
       ELSE UNCHANGED lastBar /\ pc' = "top"
    /\ UNCHANGED <<clock, feedVars, shutdown>>

\* The client has a tick, new or not: it is stamped and streamed, and a bar
\* newer than the last one goes to process_live_bar.
PollTick ==
    /\ pc = "poll" /\ tick # NoTick
    /\ failures' = 0
    /\ seenAt' = clock /\ seenTick' = tick
    /\ polled' = polled \cup {tick}
    /\ bar' = Streamed
    /\ IF Closes /\ bar.period > lastBar
       THEN lastBar' = bar.period /\ pc' = "process"
       ELSE UNCHANGED lastBar /\ pc' = "top"
    /\ UNCHANGED <<clock, feedVars, shutdown>>

\* Neither is_stale(bar.timestamp) nor is_stale_ms() refuses the signal.
Fresh ==
    /\ lastBar * Period - seenTick <= StaleAfter
    /\ clock - seenAt <= StaleAfter

ProcessEnters ==
    /\ pc = "process" /\ Fresh
    /\ pc' = "top"
    /\ UNCHANGED <<clock, feedVars, barVars, failures, shutdown>>

ProcessReturns ==
    /\ pc = "process"
    /\ pc' = "top"
    /\ UNCHANGED <<clock, feedVars, barVars, failures, shutdown>>

\* The loop's own steps, and the ends of the calls that may take for ever.
Turn   == StopOnSignal \/ LinkFine \/ Dial \/ PollFails \/ PollTick
Return == Reconnect \/ ReconnectFails \/ Leave \/ ProcessEnters \/ ProcessReturns

Next == World \/ Turn \/ Return

Spec == Init /\ [][Next]_vars

\* The thread of the loop runs.  No call of Return is sure to end: a reconnect
\* opens a socket without a timeout (client.rs:473-484), and a bar, as the end
\* of the loop, may wait for the webhook (main.rs:119).
FairSpec == Spec /\ WF_vars(Turn)

-----------------------------------------------------------------------------
(* Properties.                                                             *)

\* Every variable keeps its type; a running loop is below the exit threshold.
TypeOK ==
    /\ clock \in 0..MaxTime
    /\ link \in BOOLEAN /\ feed \in BOOLEAN /\ shutdown \in BOOLEAN
    /\ drops \in 0..MaxDrops
    /\ tick \in {NoTick} \cup 0..MaxTime
    /\ bar.period \in -1..MaxTime /\ bar.ticks \subseteq 0..MaxTime
    /\ lastBar \in -1..MaxTime
    /\ failures \in 0..ExitAfter
    /\ seenAt \in {NoTick} \cup 0..MaxTime
    /\ seenTick \in {NoTick} \cup 0..MaxTime
    /\ polled \subseteq 0..MaxTime
    /\ pc \in {"top", "dial", "poll", "process", "leave", "stopped"}
    /\ pc \notin {"leave", "stopped"} => failures < ExitAfter

\* A bar handed to process_live_bar is over, and built from every tick of its
\* period that the loop polled, across reconnects and however late it closes.
WholeBars ==
    [][lastBar' # lastBar =>
          /\ lastBar' = bar.period
          /\ bar.period < PeriodOf(clock)
          /\ bar.ticks = {t \in polled : PeriodOf(t) = bar.period}]_vars

\* No polled tick is lost to the streamer: it is in the bar in progress, or in
\* a period that was handed on or lay in the history.
NoTickLost ==
    \A t \in polled : t \in bar.ticks \/ PeriodOf(t) <= lastBar

\* The loop is inside a call that nothing limits in time.
Outside == pc \in {"dial", "process", "leave"}

\* A shutdown signal ends the loop, whenever it comes and also while the link
\* is down, if every reconnect and every notice returns; and once the loop has
\* looked at the flag it neither dials nor polls again (phase1.rs:1010).
ShutdownEnds ==
    /\ []<>~Outside => (shutdown ~> pc = "stopped")
    /\ [][shutdown /\ pc = "top" => pc' \in {"top", "leave"}]_vars

\* phase1.rs:980, "graceful shutdown via SIGTERM/SIGINT": the signal ends the
\* loop.  While a reconnect hangs, nothing looks at the flag.
SignalEnds == shutdown ~> pc = "stopped"

\* phase1.rs:1121: "no tick data" for the threshold triggers the circuit
\* breaker, so a feed that falls silent for good ends the session.
SilenceExits == <>[]~feed /\ []<>~Outside => <>(pc = "stopped")

\* phase1.rs:1306, the stale tick gate: no entry on a price that is too old.
StaleRefused == [][ProcessEnters => clock - seenTick <= StaleAfter]_vars
=============================================================================
