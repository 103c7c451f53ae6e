# GADARAH: a verification development

GADARAH trades currency pairs for accounts of proprietary trading firms.  A
firm closes the account of a trader who loses more than a daily or a total
limit, so the program's risk logic has to be right in the states no test
visits: a connection that breaks in the middle of a flatten, a restart on a
stopped day, a late fill, a day boundary.  Around it stand the programs that
decide whether a strategy may trade at all (bar store, backtest, challenge
simulator, validation) and the desktop programs that install and start it.
This directory holds TLA+ specifications of these parts, TLC configurations,
and proofs checked by TLAPS.

Source paths below are relative to `src/crates/`.

## 1. Inventory

### The live path

| Component | Source | State | Operations | What makes it hard | What makes it correct |
|---|---|---|---|---|---|
| Frame codec and reader task | `gadarah-broker/src/codec.rs`, `client.rs:285` | read buffer | read, decode, end of stream | the network cuts the stream anywhere, also in a length prefix; bad and oversized frames | framing never slips; frames are handled once and in order |
| Session client | `gadarah-broker/src/client.rs` | flags of the session, writer channel, pending map, message ids, tick and account caches | connect and authenticate, reconcile, send, modify, close, reset, reconnect | reader and writer tasks against one blocking caller; timeouts; late answers; accepted before filled; cuts | no order before reconcile; no answer given to the wrong call; no invented fill; no request blocks for good (connecting has no timeout) |
| Outer loop and bar streamer | `gadarah-cli/src/phase1.rs:1008`, `gadarah-feed/src/lib.rs` | cached tick, bar in progress, last bar, failure counter, shutdown flag | check signal, check link, poll, hand on a bar | a silent feed, reconnects, signals between calls, calls that take minutes or never return | bars are whole, ticks are not lost, shutdown ends the loop once its call returns |
| Bar processing | `phase1.rs:1143` (`process_live_bar`) | tracked positions, pyramid layers, flags, trade rows | recover, reconcile, close, open, risk update, flatten, pyramid | every call may fail; the venue acts in between; orders that fill after their call failed; restarts | no exposure is added under a stop; the flatten reaches every tracked position; orphans are reported |
| Pre-trade gate | `gadarah-risk/src/gate.rs` | none of its own | evaluate | reads five components at once | an order leaves only when all agree |
| Compliance, correlation, execution checks | `compliance.rs`, `correlation.rs`, `execution.rs`, `config/firms/` | rule set, recent entries, spread and tick time | detect program, evaluate, record, prune | checked before the order leaves, against the start of the bar and the tracked book; fills carry the venue's time; pyramid adds pass the gate and leave no trace in it | the account is not hedged; caps and pacing hold for every order of fills, closes and restarts |
| Kill switch | `gadarah-risk/src/kill_switch.rs` | active, reason, times, cooled streak | tick, check, activate | temporary and permanent stops share one struct | only an expired loss cooldown reopens trading |
| Daily P&L engine | `gadarah-risk/src/daily_pnl.rs` | day, opening and peak equity, day state, pending request | update, take_protective_close | edge-triggered request, day roll at 17:00 New York | only tightens within a day; one flatten request per stop |
| Account | `gadarah-risk/src/account.rs` | equity, high-water mark, drawdown, headroom | update_equity | four drawdown modes, three formulas | headroom and drawdown agree; the floor ratchets |
| Trade records | `gadarah-data/src/trades.rs` | rows of open and closed trades | insert, close, load unclosed | written by one process, read by the next | recovery tracks what the venue holds |

The calls go one way: the outer loop polls the client's tick cache, the streamer
turns ticks into bars, a bar drives reconcile, heads, gate, orders, risk update,
flatten and pyramid adds, each of them blocking calls of the client; the reader
task answers those calls through the pending map.  Kill switch, daily engine and
account are plain values owned by the loop.  Only the trade rows and the venue's
book outlive the process.

### Heads, simulations and data

| Component | Source | State | Operations | What makes it hard | What makes it correct |
|---|---|---|---|---|---|
| Strategy heads | `gadarah-core/src/heads/` | ranges, setups, zones, cool-downs | evaluate a bar, reset | fed by a warm-up whose bars may be days old; bars the caller leaves out; resets at session borders | a setup is traded once; stop and target lie on their sides of the entry; a fakeout answers the entry it belongs to |
| Backtest engine, replayer | `gadarah-backtest/src/engine.rs`, `replayer.rs` | cursor, open positions, ledger, pauses | price, fill, book, gate, enter, finish | two drivers with books of their own beside the broker's | the balance is explained trade by trade; driver and broker agree |
| Mock broker | `gadarah-broker/src/mock.rs` | balance, positions | price, order, amend, close, partial, stop and target fills | stop, target and partial on one bar | no money appears or vanishes |
| Trade manager | `gadarah-risk/src/trade_manager.rs` | flags and best price of a position | breakeven, partial, giveback, trail, time exit | several requests on one bar | a stop only moves in the trade's favour |
| Feedback | `equity_curve.rs`, `drift.rs`, `performance_ledger.rs`, `consistency.rs`, `sizing.rs` | windows of closed trades | record, ask | resets and windows with different borders | a pause holds until its end |
| Challenge simulator | `gadarah-backtest/src/challenge_sim.rs` | stage, running figures | one trade, next stage | target, days and best-day rule are met on different trades; callers hand over lists in any order | the verdict is the one the rules give; adjoining stages share no day |
| Validation | `walk_forward.rs`, `monte_carlo.rs`, `phase1.rs` (`run_validate`) | gates passed, windows, paths | gate, fold, path | integer and float cuts; fewer bars than folds | folds share no bar; ruin shows in the result |
| Bar store, import, cleaning | `gadarah-data/src/`, data commands of `gadarah-cli` | rows of bars in SQLite | fetch, import, derive, aggregate, fill gaps, smooth, audit | two processes on one file; what was read before a transaction is stale; kills; no command looks at the grid | a row in its place holds no price from its future; cleaning keeps prices |

### The desktop

| Component | Source | State | Operations | What makes it hard | What makes it correct |
|---|---|---|---|---|---|
| Install wizard | `gadarah-wizard/src/` | the install directory, shortcuts, registry entry | install, update, repair, uninstall | running programs lock their files; the window may be closed any time; three modes treat the user's files differently; a detached `cmd.exe` deletes the directory seconds after an uninstall | success means a whole directory, unless that deletion comes; the user's data stay |
| Cockpit | `gadarah-gui/src/ui/trading.rs`, `config_tab.rs`, `main.rs` | panel, shared state, confirmation, child process | start, stop, confirm, bind an account, edit limits | the confirmation is not modal; daemons end unseen while another tab is shown; a snapshot thread | real money only after a dry run, consent and credentials |
| Oracle assistant | `gadarah-gui/src/oracle/`, `ui/oracle.rs` | settings in three copies, two channels | ask, ping, save, edit endpoints | tab, file and worker differ; indices into a list that shrinks; a write cut short may still parse | each question is answered; the selected model resolves, but for such a write |

The wizard and the GUI meet on disk (programs, settings, `.env`) and through the
update notice, which starts a wizard; the GUI meets the live loop as the child
process it starts and as the snapshot file it reads.

### The rest

| Component | Source | Status |
|---|---|---|
| Pyramiding | `gadarah-risk/src/pyramid.rs` | the use of layers in `LiveLoop` and `EntryGate`; the risk arithmetic is left out |
| Trailing calculators, swap, temporal profile | `gadarah-core/src/exit/`, `swap.rs`, `temporal.rs` | not modelled: stateless, or not built by any caller, or they only scale a lot |
| Indicators, regime, meta layer | `gadarah-core/src/` | not modelled: numeric recurrences; inputs of the heads |
| Token refresh, crypto feed | `auth.rs`, `binance.rs` | not modelled: straight-line HTTP |
| Stress tests | `gadarah-backtest/src/stress/` | not modelled: printed, nothing is decided by them |
| Tuner, printing, scripts, packaging, protocol files | `gadarah-cli/src/`, `ci`, `wix`, `proto` | not modelled: output, build files, generated code |

## 2. Modules

```
DailyLatch <-- refined by -- DailyPnl
                             DailyPnl -----+--> Stops
                             KillSwitch ---+
                             KillSwitch, DailyPnl, (account) --> RiskStack
FrameReader      CtraderClient      LiveSession      LiveLoop --> MCLiveLoop
FirmProgram --> EntryGate --> MCEntryGate
SessionHeads --> SetupHeads --> ZoneHeads --> Heads --> MCHeads
MockBroker, TradeManager, Feedback --> Backtest --> MCBacktest
Challenge, Validation --> MCChallenge
BarStore --> MCBarStore
Installer, Cockpit, Oracle --> MCDesktop
```

A proof module extends the modules it is about and TLAPS: `LiveProofs` the two
stops and `LiveLoop`, `ClientProofs` `CtraderClient` and `FrameReader`, `FeedProofs`
`LiveSession` and `Heads`, `ResearchProofs` `Challenge`, `Validation` and `BarStore`,
`DesktopProofs` `MCDesktop`, `GateProofs` `EntryGate` and `RiskStack`, and
`BacktestProofs` the module in its name.  `Sums` holds what those of the backtest
and of the research share: sums of a function over a finite set.

**KillSwitch** (`kill_switch.rs`).  A switch is a record; `Tick`, `Arm`,
`Trigger`, `Check` and `Activate` are the methods, as operators from a switch to
a switch.  The state machine around it lets drawdown, wins, losses and the clock
move freely between calls.  Percentages are whole numbers, an absent option is
`NoTime`, `NoStreak` or `NoReason`.

**DailyLatch, DailyPnl** (`daily_pnl.rs`).  The engine is a value, with `Update` as
`Roll`, `Marked`, `Candidate` and `Advance` in the code's order, and `DailyPnl` drives
it.  Equity is a whole number and percentages
are compared without the division.  `TradingDayIndex` counts the day boundaries
passed; the boundaries are any set of clock values, so days of 23 and 25 hours are
covered and the New York calendar is not.  `DailyLatch` is what the loop relies on:
within a day a level that only grows, and a request raised with the stop and taken
at most once.

**Stops** puts switch and engine under one run; they share no state, so a
behaviour follows one of them.

**CtraderClient** (`client.rs`).  The shared inner state, the reader, the pending
map and message ids, a caller with at most one blocking call, and the venue and
the network as external actions.  `sess` names the current inner state because
`reset_inner` replaces it and tasks of an old one keep running.  Payloads are a
request's name; the symbol map and heartbeats are left out.  Opening the socket, the
TCP connect and the TLS handshake, has no timeout (`client.rs:473`): `Connect`
starts it and nothing says it ends.  The venue may answer a request with an
order-error event, which the client hands to an amend as success (`client.rs:412`,
`:984`).

**FrameReader** (`codec.rs`, `reader_task`).  Bytes are counted: a read takes any
part of what is on the wire, `Decode` is one turn of the inner loop.  A frame is
decodable, undecodable or oversized, and carries the offset its writer put it at.

**LiveLoop** (`phase1.rs`).  `pc` names the blocking points of a bar: recover, top,
evaluate, signals, risk, flatten, pyramid.  Between two of them the venue closes
positions, late orders fill, the link is cut or the process restarts.
`tracked` and `layers` are `positions_by_head`; `rows` is the trade table; `open`
is the venue's book; `limbo` counts orders whose call failed and that may still
fill.  The parts of the loop with modules of their own appear by what those show:
a call ends well or badly, the daily stop is entered once a day, the kill switch
arms or cools down.  `breach` and `failed` are ghosts.  The checks of the gate
that read none of this state (spread, correlation, compliance) are one
nondeterministic refusal.

**RiskStack** (`account.rs`, `phase1.rs:885`, `:1196`, `:1557`).  It instantiates
`KillSwitch` and `DailyPnl` and adds the account in all four drawdown modes, the
client's cached balance, the loss streak, the trading-day count and the profit
target.  One action is one bar.  Money is in basis points of the starting
balance.  The only quotient, drawdown in percent of the high-water mark, is
rounded down; `WholeThresholds` makes every threshold it is compared with a
whole number, so no comparison changes.

**LiveSession** (`phase1.rs:1008`, `feed/lib.rs`).  The outer loop and the streamer.
A tick is the time it carries, a bar is its period and the set of ticks it was
built from; a bar's high, low and close are those of the set, so prices are left
out.  The calls that leave the loop, the reconnect, a bar and the notice at the end,
are a state of their own, and the step that returns from them may never come.  The
model's clock only advances (see section 5).

**FirmProgram** (`compliance.rs:88`, `:438`, `:489`).  Which rule set a firm's name and
challenge type select, and its numbers.  Both strings are the sets of the
fragments the code looks for in them.

**EntryGate** (`phase1.rs:1273`, `:1678`, `gate.rs`, `compliance.rs`, `correlation.rs`,
`execution.rs`).  One step is a signal, an order's return, a pyramid add, its return, a
close or the end of a bar.  An add passes the same gate as an entry; its fill makes a
layer of the position and is neither recorded with the compliance manager, nor
tracked, nor written to the trade table (`phase1.rs:1772`), so it counts as `lost`
from the start.  Two clocks matter: a bar carries the time it started, a fill the venue's
time.  `tracked` is `positions_by_head`, `recent` the manager's `recent_entries`,
`rows` the trade table, `fills` and `open` the venue; positions are numbered in
the order of their fills.  `lost` is a ghost: positions that were open while the
process did not track them: adds, and those of a failed order that was filled, a
forgotten book, or a restart without a row.  Checks that read state of another module
(kill switch, day, floor, sizing) refuse a signal without changing anything here,
so they are no step.

**SessionHeads, SetupHeads, ZoneHeads, Heads** (`gadarah-core/src/heads/`).  A head is
a state and a step, from the bar that just closed to a new state and at most one
signal.  Time counts quarter hours, prices half pips; with a range goes the set
of the slots it was built from.  Indicators, regime and the shape of a bar are
inputs.  The two scalpers differ only in their indicator and are one head here, so
ten files are nine heads.  `Heads` feeds one of them as the live loop does (a
warm-up from the store, of any age) or as the backtest engine does.  `Readable` says
what a head may be shown (a low below its high, a range of at least zero);
`InputsAssumption` holds the configuration to it, and to runs that end before the
scalpers' bar counter, of 64 bits in the program and `2 * Half` here, wraps.

**MockBroker, TradeManager, Feedback, Backtest** (`mock.rs`, `trade_manager.rs`, the
feedback files, `engine.rs`, `replayer.rs`).  Three modules of operators and the
state machine of the two drivers, the engine and the replayer, in the order of
their loops: price, stop and target fills, bookkeeping of each closed trade,
manager, gates, heads, orders, and the closing of everything at the end.  Prices
are whole pips and lots whole volume steps, so money is pips times steps; R is a
pair compared without division.  The manager's actions on a position are a record
of what is asked, done in the order of the code.  Gates whose inputs are not
modelled block a bar or not as they please.  There is one regime and one session.

**Challenge** (`challenge_sim.rs`).  One action is one turn of `simulate_stage`.
Money is in quarters of a percent of a balance of 400, so every limit of the nine
rule sets is whole.  A trade is the days it was opened and closed on, whether it
was held too briefly, and its profit.  A list stands in any order: only `run_validate`
sorts its single run, while the GUI puts the trades of one symbol behind those of
another (`ui/backtest.rs:543`, `:590`) and gate 4 decides on shuffled lists
(`challenge_sim.rs:886`).  A day that comes back is a new day to the simulator, so the
rules can be read off a list in two ways (`Readings`): by its rows, as the code does,
and by the calendar.

**Validation** (`run_validate`, `walk_forward.rs`, `monte_carlo.rs`, `ui/backtest.rs`).  The
gates of the command one after the other, and the walk-forward test as the
command (12 folds) and the GUI (5 folds) call it.  What the backtest of a window
yields and the verdicts of the other modules' gates are inputs.  The length of an
in-sample window is a double cut to a whole number; where the double may lie just
below one, both outcomes are steps.  Fold results and bootstrap paths are bags, the
verdicts their conjunction.

**BarStore** (`gadarah-data`, `gadarah-cli`).  The table of bars of one symbol, a download
and one other command beside it, either killed anywhere; a transaction is one
step.  A row keeps the set of market minutes its prices are taken over and the
minute it closes on, so a price from the future is a member of a set.  A
file may hold rows off the grid of its timeframe, and an aggregation may go from any
timeframe to any other, also to a finer one, because neither command looks
(`csv_import.rs:32`, `main.rs:440`).  Whether a row goes back to such a file or such an
aggregation is its history field `odd`; no step reads it.  That timeframes divide
each other is the only thing assumed of them.

**Installer** (`gadarah-wizard`).  A file is the release it came from, or absent, torn
or the user's own.  The wizard's window and its worker are separate; GUI, daemon
and user act between any two files.  One wizard runs at a time.  The worker looks
whether a file is there, creates it empty and writes it in three steps
(`install.rs:303`), so what is saved in between is seen.  `shim` counts the detached
`cmd.exe`s of earlier uninstalls (`uninstall.rs:341`): each fires at any time after its
wizard, also into a wizard started since, and removes the directory in one step;
`shim.swept` remembers what was removed since the worker created it.  `wiz.unseen` is a
history field as well: settings were saved after the update had found none.  The
ticks of the components page are chosen where the worker first reads them.

**Cockpit** (`trading.rs`, `config_tab.rs`, `main.rs`).  Panels are drawn by one
thread, so a click is one step; the daemon, the OAuth worker, the snapshot thread
and a command line run beside it.  A panel's pump runs only while its tab is shown.
The limits of the form are set or not, a run is young or older than
`DRY_RUN_UNLOCK_SECS`.

**Oracle** (`oracle/`, `ui/oracle.rs`).  Tab, file and worker hold a copy of the
settings each; requests and replies are two queues.  Of the settings it keeps the
switch, the models, the endpoints and the selected model.  A write that is cut
leaves a file that does not parse, which reads as the default, or one that does: the
endpoints come last in the file, so it has fewer of them, or, with no endpoints,
whose `remotes = []` stands above the models, fewer models (`Cut`).  `short` names
the copies that descend from such a file.

**MCChallenge** and **MCDesktop** put modules that share no state a property could see
under one run, by EXTENDS: their initial predicate picks the scene, and the others
stay as they begin.

`PROJECT.json` maps every definition to the lines it stands for.

## 3. What the runs show

All runs pass.  Deadlock checking is off where the bounds, or the program's own
exit, let the model stop; it is on for `stops`.

| Run | Bounds | Shows |
|---|---|---|
| `stops` | cooldown 2, streak limit 3, streaks to 5, four drawdown levels around both thresholds; five equities that reach every day state from either side, two day boundaries (three days); clocks to 5 and 4 | a resume time is pending exactly during a loss cooldown, and a cooldown ends; the engine implements `DailyLatch`: within a day only tightening and at most one request taken |
| `ctrader_client` | two sessions, two orders, two other calls | no order before the session's reconcile, no crossed answer, no fill the venue did not make; over an open socket no call blocks for good, and while opening returns, a failed connect is tried again until a session stands or the attempts end |
| `live_loop` | two heads, two positions the firm allows, three position ids, one layer, one cut | a stopped book holds only positions whose close failed; under a stop the venue's book grows by earlier orders only; orphans are reported |
| `risk_stack` | all four modes, five balances (at the floor, in the buffer, start, target, above), a New York and a UTC boundary, four bars | the floor always arms the switch; an open gate is inside the firm's rules |
| `frame_reader` | prefix of 2 bytes, bodies of 1 and 3, three frames | frames are handled once and in order over every cut of the stream; decodable frames arrive unless a bad one is before them |
| `live_session` | bars of 2 ticks, exit threshold 2, two lost links, clock to 6 | every bar is over and whole; no polled tick is lost; a signal ends the loop if every call that leaves it returns, and no call is begun once the loop has seen the flag |
| `entry_gate` | EURUSD on one-minute bars at FundingPips Zero and a two-step FTMO challenge, four heads of which one scalps, three fills, one restart, clock to 240 s by the minute, 2% risk per order, one pyramid layer, a blackout of [20, 70] | two opposite open positions, or more than two of one direction, include one the process had lost or an add; whatever one process fills after a recorded entry, adds included, comes a bar later than the rule asks; and with the recorded entries before it stays within the trade-idea cap |
| `backtest` | both drivers, four bars of one day each, moves of -6, 3 and 12 pips, ATR 4 or 16, two signals a bar, three orders, two positions | balance, ledger and trades agree; driver and broker hold the same positions; no sequence of requests loosens a stop; nothing opens while a pause or the drift stop lasts |
| `challenge` | nine rule sets, six prefixes that earn the days an evaluation asks for, each followed by three free trades; lists of two symbols, the second's trades behind the first's, and a day split by another; for the validation, stores of 2,399 to 81,011 bars around the sizes at which folds appear, three fold outcomes, five trade lists, blocks of 3, 20 paths | the simulator's running verdict is the one the rules give read off the rows of the list, in the order of closing also by the calendar; adjoining stages share neither a trade nor a day, in that order each starts later than all before it ended; folds share no bar and keep the embargo; ruined paths show in the percentiles |
| `bar_store` | a Friday, a Saturday and a Sunday of six minutes in three hours, three commands, aggregations up and down, a file of hours with one off the grid, a download beside them, kills anywhere | a price from after a row's span is only in rows that go back to a file off its grid or to an aggregation into a finer timeframe; cleaning never changes a price |
| `heads` | nine heads, days of twelve slots, a store of any age, up to slot 17, bars from within a range to far past its target | a setup is traded once; stop and target lie on their sides of the price; a fakeout close answers one recent entry |
| `desktop` | two releases, two wizards, begun on a clean machine or just after an uninstall whose shim waits; one daemon without a handle, two endpoint names, two endpoints, three edits, two requests, writes cut anywhere | a wizard that reports success left its programs whole, but for what a shim deleted since, and the user's data stay unless the user agrees; real money needs a dry run, consent and credentials, and only a dry run unlocks it; the selected model resolves unless the settings descend from a cut write, and every question is answered |

Why the bounds are enough.  A second session, call or order is what it takes for
a late answer to meet a new call.  Two heads and three ids allow a forgotten
position, a late fill and a newly opened one at once, which is what recovery and
the count-only reconcile can confuse.  Two day boundaries give a day that starts
after an ordinary one.  A prefix of two bytes can be cut in the middle; a third
frame lies behind a bad one and before the end.  Three fills are one more than the
cluster cap, and a third position can then meet one that was lost and one that was
not.  Both firms' pacing rules are at most a bar long, so a grain of a minute has
the entries at their closest; two orders of 2% exceed the cap of 3% and one does
not.  One layer is enough for an add before and after an entry.  In the backtest the
moves reach breakeven, partial close, giveback, stop and target within three bars,
and a fourth can find the driver paused.  The prefixes of the challenge stand one
trade before each of the day and best-day rules; three trades pass a stage, carry
its day into the next and break a rule there.  Two hours in a day give the bar store
a derived row with a neighbour on either side of a gap, and the third command
overwrites what the second read.  Seventeen slots are a day, its dead time and the
windows of the next.  Two releases are an update and its repair; one lost daemon is
what a second start takes.  Symmetry is used on heads and directions and only for
safety properties.

### Fairness

* `Stops`: the clock advances and `check` is called, as the loop does on every bar
  it evaluates.
* `CtraderClient`: the caller's thread, the reader task and the ten-second timer
  run; the venue and the network owe nothing, not even that opening a socket ends.
  The first half of `CallsReturn` therefore rests on the timer and the reader's exit
  alone; the second names what it asks of the network in its own premise.
* `FrameReader`: bytes written arrive and the reader task is polled.
* `LiveSession`: the loop's thread runs.  No fairness is assumed of the feed, the
  link, the signal, or of the return of a reconnect (`client.rs:473`), a bar or a notice
  (`main.rs:119`, a request without an overall timeout); `ShutdownEnds` has their
  return as its premise.
* `MCDesktop`: the Oracle worker's loop runs and its HTTP calls end (timeouts of 3,
  60 and 90 seconds), and the window draws a frame at least every 500 ms
  (`main.rs:382`); one hidden in the tray may draw none and reads the answer when it is
  shown.  Nothing is assumed of user, wizard or daemons.
* `LiveLoop` (`FairSpec`, not used by a run above): each step of the loop is taken
  while it stays enabled, its calls among them.  Bars with a signal are strongly
  fair: a counterexample to the retry of a failed close must not rest on a market
  that gives no signal.

### Disagreements between the code and what it says

The modules also state what a comment, a text or a test of the program says and
the program does not keep.  TLC violates each property below.  To see it, put the
property in place of those of the run's configuration, without `SYMMETRY`; for
`Installer`, `Cockpit` and `Oracle` use the module itself with the constants of
`MCDesktop.cfg` it declares, or `MCDesktop.cfg`; for `Validation` use
`MCChallenge.cfg`, for `KillSwitch` `Stops.cfg`.  Those of several steps or of
fairness (`[]`, `~>`, `[A]_v`) stand under `PROPERTIES`.
Three configurations are kept for those that need other constants or fairness:
`LiveLoopRetry.cfg` (module `LiveLoop`), `KillSwitchNoDaily.cfg` (`KillSwitch`) and
`MCBarStoreOutage.cfg` (`MCBarStore`).

The live path:

| Module | Property | What happens |
|---|---|---|
| LiveLoop | `FlattenRetried` | a protective close that fails is announced with "Will retry next tick", but the request was handed out once and no later bar tries again |
| MCLiveLoop | `FlattenClosesAll` | late fills, pyramid adds and forgotten positions are not flattened |
| MCLiveLoop | `KillFlattens` | arming the kill switch flattens nothing |
| MCLiveLoop | `SyncedOnceReconciled` | one failed reconcile at start keeps every order refused |
| MCLiveLoop | `NoEntryPastBreach` | a bar's entries are handled before the risk stack sees the equity |
| KillSwitch | `NoDailyRuleNoDailyStop` | with a daily limit of 0, as the FTMO 1-Step profile has it to disable the daily gate, the first `check` arms a permanent stop |
| KillSwitch | `ThirdLossHalts` | a second streak of the cooled length starts no cooldown |
| CtraderClient | `SyncClearsOnDisconnect`, `WriterNoneWhenDisconnected` | both fields outlive the connection |
| CtraderClient | `ConnectReturns` | connecting may never end: neither the TCP connect nor the TLS handshake has a timeout (`client.rs:473`) |
| CtraderClient | `AmendsAreReal` | an amend the venue refuses with an order-error event is reported as done (`client.rs:412`, `:984`) |
| FrameReader | `Drained` | a bad frame leaves complete frames in the buffer |
| RiskStack | `FloorFollowsPeak` | a restart forgets the high-water mark |
| RiskStack | `DailyStopIsDaily` | a drawdown over several days is reported as a daily stop |
| RiskStack | `TrackerAgrees` | UTC and New York days count one trading day twice |
| RiskStack | `RefreshRefreshes` | the refresh of every tenth bar copies a cache only a connection fills |
| RiskStack | `WinResets` | a close reports zero profit, so after commission every close is a loss and three winners start a cooldown |
| LiveSession | `SignalEnds` | "graceful shutdown via SIGTERM/SIGINT" (`phase1.rs:980`): a signal during a reconnect that hangs ends nothing |
| LiveSession | `SilenceExits` | the poll repeats the last cached tick, so the breaker for a silent feed trips only before the first one |
| LiveSession | `StaleRefused` | neither staleness check sees the age of the tick |
| MCEntryGate | `NeverHedged` | "hedging on same account is prohibited", but the rule is checked against the tracked book; once a position is forgotten, or was filled after its call failed, an order the other way passes |
| MCEntryGate | `AddsPaced` | adds go through the gate so that "correlation/segment/compliance still fire" (`phase1.rs:1711`), but an add is not recorded, so an entry follows it at once |
| MCEntryGate | `AddsCapped` | the trade idea is capped at 3%, but adds count neither as exposure nor as entries: a base, two adds and an entry of 1% each risk 4% (`compliance.rs:361`; with `BaseRiskPct = 100`, `MaxLayers = 2`, `MaxFills = 4`, `MaxTime = 300`, no restart) |
| MCEntryGate | `BlackoutKept` | a blackout that begins while a bar forms does not stop the order at its end |
| MCEntryGate | `NetOfSpread` | the spread is kept in pips and subtracted from distances in price: on a pair quoted to 0.0001 a fifth of a pip refuses a signal of 40 pips against 20 |

Heads, simulations and data:

| Module | Property | What happens |
|---|---|---|
| MCHeads | `RangeOfToday` | a store that ends in the window a session starts in hands over the range of another day (`momentum.rs:99`, `phase1.rs:868`) |
| MCHeads | `FakeoutDelivered` | signals of a head the regime no longer allows are dropped, the close of a fakeout with them (`phase1.rs:1181`) |
| MCHeads | `StopProtects` | a news entry is taken at the market a bar after its stop was computed, when the price may be past the stop (`news.rs:107`) |
| MCHeads | `GateCanPass` | entries at the market carry the entry price 0, and the gate measures reward and risk from it (`phase1.rs:2481`) |
| MCHeads | `ZoneIsOlder` | a zone can be entered on the bar that made it (`smc.rs:268`) |
| MCBacktest | `GatesSeeTheMarket` | the simulated broker does not restate its equity when the price moves, so the gates see the equity of the last booking (`engine.rs:402`) |
| MCBacktest | `BreakevenKept` | the trail is compared with the stop before the breakeven move of the same call and may undo it (`trade_manager.rs:192`) |
| MCChallenge | `VerdictByCalendar` | in the unordered lists of the GUI and of gate 4 a date comes back with a fresh daily reference, and a daily limit broken over the whole date goes unseen (`challenge_sim.rs:886`, `ui/backtest.rs:590`) |
| MCChallenge | `NextTradingDay` | "A later stage begins on the next trading day" (`challenge_sim.rs:424`): on those lists it may begin on an earlier one |
| MCChallenge | `PauseEndsWithDay` | the daily limit "only pauses the day", but its flag is never cleared: every later day of the stage ends after its first trade (`challenge_sim.rs:640`) |
| Validation | `FoldsExist` | an embargo too large should be an error, but it is compared with the in-sample window only: two years of M15 bars, about 50,000, give no fold, and gate 2 cannot pass (`walk_forward.rs:116`) |
| Validation | `FiveFolds` | the command announces five folds and runs twelve (`phase1.rs:432`) |
| Validation | `ReadyForAll` | a symbol whose backtest fails is skipped, and READY can follow without it (`phase1.rs:399`) |
| Validation | `PositionsShared` | rounding up lets the symbols' shares exceed the firm's positions (`phase1.rs:331`) |
| MCBarStore | `NeverAhead` | the aggregator goes "from a lower timeframe into a higher timeframe" (`aggregator.rs:9`), but the command takes any two (`main.rs:440`), and an import takes rows off the grid (`csv_import.rs:32`): rows with prices from their future |
| MCBarStore | `PassedHasNoHole` | the audit passes a series with a hole longer than a weekend |
| MCBarStore | `DownloadKeepsMinutes` | a second download that misses an hour replaces rows an earlier one made with it (`dukascopy.rs:190`) |
| MCBarStore | `RealStaysReal`, `CountedVolumeKept`, `SyntheticHasNoVolume` | a filled row may replace a downloaded one, smoothing changes volumes counted from ticks, and gives filled rows, which are told by their zero volume, a volume (`volume_processor.rs:144`, `gap_filler.rs:10`) |

The desktop:

| Module | Property | What happens |
|---|---|---|
| Installer | `FinishTellsTruth` | the last page announces success after a failure (`finish.rs:7`, `main.rs:374`) |
| Installer | `CompletedIsThere` | the self-delete shim of an uninstall fires into an install begun within its three seconds, which reports its deleted programs complete (`uninstall.rs:341`, `install.rs:127`) |
| Installer | `ProfilesPreserved`, `SettingsSurviveReinstall` | an update replaces edited firm profiles, and a second install edited settings (`finish.rs:22`, `install.rs:288`, `main.rs:33`) |
| Installer | `KeptDataStays` | an uninstall that keeps the user's data removes some (`uninstall.rs:337`) |
| Installer | `UninstallerExists` | the registry names an uninstaller that may not be there (`install.rs:449`) |
| Installer | `UpdateBringsRelease`, `SameRelease` | Update Now starts the wizard that was installed, with the release it carries, not the one announced; an interrupted update leaves GUI and daemon of two (`update_check.rs:202`) |
| Installer | `UpdaterSurvives` | `taskkill /T` on the GUI ends the wizard it started (`install.rs:326`) |
| Installer | `ShortcutOnlyRefreshed` | an update creates shortcuts the user had not (`components.rs:138`) |
| Cockpit | `UnlockTimesTheRun` | the dry-run clock runs until the panel is drawn, not until the run ends (`trading.rs:71`) |
| Cockpit | `ModeMatchesRun`, `StoppedMeansStopped`, `NoDaemonLost` | a confirmation answered late starts a daemon over a running one, and the mode shown is another's (`trading.rs:147`) |
| Cockpit | `LaunchIsGated` | the gates are asked before the confirmation, not after (`trading.rs:101`) |
| Cockpit | `ReviewStands` | limits reloaded, or not written, keep the review of those before (`state.rs:345`) |
| Cockpit | `BoundIsUsed` | a daemon reads `.env.demo` and `.env.live` in its own order, whatever account was bound last (`config_tab.rs:881`) |
| Oracle | `AcceptedIsEnabled`, `ShownAnswers` | the tab judges by its unsaved settings, the worker by those it holds: an accepted question may meet a disabled Oracle or another model (`ui/oracle.rs:575`) |
| Oracle | `SelectionResolves` | a write cut between two entries leaves a file that parses, and its selected model may have no entry or no endpoint (`config.rs:34`, `:81`) |
| Oracle | `RemovalKeepsChoice` | removing an endpoint changes the selected model (`ui/oracle.rs:522`; three names, three endpoints, five edits) |

## 4. What is proved

The theorems hold for every value of the constants that satisfies the named
assumptions of the module; `WholeThresholds` of `RiskStack` is not needed for them.
TLC evaluates the assumptions in the runs.  Each proof has the same frame: an
inductive invariant, one lemma or step per action, and a temporal step for the
conclusion.

* **LiveProofs**.  The switch: type correctness; a resume time belongs to a loss
  cooldown (`ResumeBelongsToCooldown`); the first trip is kept; permanent stops; no
  breach passes.  The invariant is the type together with `CooldownOwnsResume`.  The
  action properties need it: `Tick` looks at the resume time only, so without
  the invariant an old resume time could lift a drawdown stop.
  The day: one request per day, no silent stop, tightening, and `Implementation`, that
  `DailyPnl` implements `DailyLatch`.  The invariant is the first two properties with
  `DayNotAhead`: the engine's day is not ahead of the clock, and the day whose
  request was taken is stopped or over.
  The book: type correctness, one head per position, a stopped book is
  flat, refused means silent, exposure shrinks under a stop, orphans are reported.
  To the properties the invariant adds that the work list is empty outside the
  flatten and the pyramid adds, and during adds no stop holds (`Worklist`), that
  ids in use were issued (`FreshIds`), that a position's rows name one head
  (`RowsOwned`), and that a stopped book holds what the flatten has still to visit
  or failed to close (`StoppedBook`).
* **ClientProofs**.  The session client: `AnswersMatch`, `FillsReported`,
  `OrdersAreSynced`, for any number of sessions, orders and calls.  Message ids start
  again with every session, so they are not unique; what holds is that every frame
  and answer of the current session carries an id below the next one (`WireInv`), and
  that those under the id the caller waits on belong to its call (`CallInv`).
  The reader: `FramingNeverSlips`, `HandledOnceInOrder` and `DrainedButForErrors`, for
  every length of prefix and bodies.  The frames are a chain in which each begins
  where the one before ends, and buffer and wire together always hold the chain
  from the frame to be split next (`FramingKept`).
* **GateProofs**.  The risk stack: `FloorStops`, `FloorRises` and `GateKeepsRules`.
  The argument for the first is in two lemmas: no headroom means a drawdown of at
  least the limit, in each of the four modes (`NoHeadroomMeansBreach`, the agreement
  of the formulas of `update_equity`), and a breach arms the switch whatever state
  the check finds it in (`BreachArms`).  For the gate, `RulesInv` ties what the gate
  reads to the rules: headroom left means equity above the floor (`AboveFloor`), and
  a day that may trade was last marked, with this very equity, above its stops
  (`DayHolds`). The entry gate, pyramid adds included: type correctness,
  `PacingKept` and `HedgeNeedsLoss`, for any firm, heads, bar length, layers and
  clock.  What is paced and capped is every fill, of an entry, an add or a call that
  failed, against the entries recorded before it; what comes after an add is not
  (`AddsPaced`, `AddsCapped`).  Pacing needs that a bar being handled is over
  (`BarOver`), that no fill is in the future (`FillsPast`) and that the order on its
  way keeps the distance the gate measured (`SentPaced`).  The hedge needs that
  every open position never lost is tracked (`BookComplete`), and that the order on
  its way goes to a free head and agrees with all of them (`SentAgrees`).  The two
  caps (`ClusterIsCapped`, `IdeaIsCapped`) rest on the room an order on its way was
  granted (`SentRoom`, `SentIdea`): a fill adds one member to a set whose size or
  risk was compared with the cap before, and time only takes members away.
* **FeedProofs**.  The session: `TicksKept` and `BarsAreWhole`.  The invariant adds that
  no tick lies in the future, that the bar in progress is the latest period polled,
  and that it holds all ticks of that period; without them a tick of a new period
  could close a bar that is not over.
  The heads: `EntriesAreOneShot`, `StopsAreBehind`, `ClosesAreAnswers` and
  `SomeHeadsNeverTrade`, for every configuration and every readable bar.  One lemma
  per head says what a bar does to its state and when it enters (`AsianFacts` ...
  `ProfileFacts`), with the arithmetic of stop and target in it; a target found in a
  list of bars needs that finitely many prices have a largest (`Largest`).  The
  invariant (`Held`) ties the latch of each head to what a reader of its signals has
  seen: the day taken is the day of its last entry, the bars counted since are as
  many as the reader's, an armed breakout may enter, a tracked one is the latest
  entry and unanswered.
* **ResearchProofs**: `StagesAreApart`, for every rule set and every list of trades in
  any order; that a stage starts later than all before it ended, for those in the
  order of closing.  The invariant says where the running stage stands in the
  list: it begins where the last one ended, its trades follow one another, and in an
  ordered list all lie behind the days the stages before were completed on.  Lemmas
  about prefixes of a list carry it over one trade and over a change of stage.
  `VerdictIsTheRules`, for any list by its rows, and for an ordered one by the calendar,
  as the two readings then agree: the running account of a stage is, after every
  trade, what the trades so far come to when they are read off the list (`Account`):
  balance, peaks, the reference of the day, the days that count, the result of each.
  One lemma per reading says how it changes by one trade (`BalanceNext`, `PeakIsHighest`,
  `DayPnlNext` ...), and two say that limits and passing, tested on such an account,
  are those of the rules (`BreachIsRead`, `PassIsRead`).  A stage that has not ended
  has met no limit and not passed at any earlier trade (`Strict`).
  `RuinIsShown`, for every list of trades, block length and draw: a path in order has
  a peak at or above the start, and once ruined lies deep below it (`Sane`), so
  as many paths are deep, and as many end below the start, as are ruined.
  `FoldsAreApart`, for every number of bars and of folds: the windows still to be run
  are windows of the test (`FoldsInv`), and those are apart by their arithmetic.
  `StoreSeesNoFuture` and `CleaningTouchesNoPrice`, for every set of timeframes, every
  list of files, every pair of timeframes an aggregation is asked for and every
  interleaving and kill: a row that does not go back to a file off its grid or an
  aggregation into a finer timeframe ends in time for its own timeframe and for the
  coarser ones it may be merged into (`SoundStore`); and what a
  command has read and not written yet, while a download goes on beside it, must
  stay mergeable into the timeframes it has still to write (`JobInv`, `Downloads`).
* **BacktestProofs**: `BalanceIsExplained`, `TwoBooksAgree`, `StopsOnlyTighten` and
  `PausedMeansShut`, for the engine and the replayer, every spread, slippage,
  commission and sizing and any number of bars and orders.  The ledger is a sum over
  three books, and rests on the sums of functions in `Sums`: any element may be taken
  out first (`SumSplits`).  There is no induction theorem to cite for that (see
  below); the lemmas take the least size at which they could fail and refute it
  (`LeastNumber`).  Then each action moves money from one term to another, and a
  call of the manager on a position is carried through its actions as a pair of
  copies, the broker's and the driver's, whose difference is constant (`FitsAt`).
  The stops need that a stop not yet moved to the entry is behind it and that no
  trail comes before that move (`StopsStartBehind`): the manager moves to the entry
  without looking.  The pause needs that the streak counts at least the losing days
  since the last winning one, although the record of days forgets (`StreakIsLong`),
  and that the gate still stands when, steps later, the order leaves (`GatePassed`).
* **DesktopProofs**.  The cockpit: type correctness, `RealMoneyIsEarned` and
  `OnlyADryRunUnlocks`, for any number of daemons without a handle.  Neither is
  inductive: a start queued before a change of mode runs later, so the invariant
  adds what a queued start has earned (`QueuedIsEarned`), that a live status has
  credentials behind it (`StatusIsBound`), and that while LIVE is locked the clock
  runs only over the daemon of the mode selected (`ClockIsTheRun`), which is what
  makes judging a run's end by the mode selected then harmless. The installer: type
  correctness, `SuccessIsWhole` and `UserDataKept`, for any number of releases,
  wizards and waiting shims.  The invariant says for each step of the worker which
  programs are whole already or were deleted by a shim since they were created
  (`WritingOrSwept`).  For the settings it ties the step between looking and
  creating to what the update saw (`SawNone`): they are overwritten only if they
  came after it. The Oracle tab: `ModelResolves`, for any number of endpoints,
  labels and requests on the way.  Settings are sound in the tab, the file, the
  worker and the channel (`SoundSettings`), unless they descend from a cut write:
  the selected entry exists, and the label of a remote entry has an endpoint.  It
  needs that the entry of an endpoint is of a kind of its own (`RemoteLabels`,
  `model.rs:13`), and that a removal keeps the entries of the other labels, which is
  shown at the shortest list it could fail on. `ScenesAreThePrograms` carries the
  three to the composition that the run explores.

Proved but in no run's list, because another property of the run implies or
dominates it: the type invariants, the first trip, `BreachStops`, one head per
position, refused means silent, `FloorRises`, `AtMostOneRequest`, `NoSilentStop` and
`Tightening`.

Only model-checked: the liveness properties `CooldownEnds`, `CallsReturn`,
`FramesArrive`, `ShutdownEnds` and `AskedIsAnswered`; proofs of leads-to under
fairness are out of the prover's reach.  Every other property of the runs is a
theorem.  The library's induction theorems take an operator as a parameter and
cannot be instantiated; where a definition recurs over a list or a set, the proofs
take the least place at which they could fail and refute it.

Proof attempts corrected the models in these places.  Each is now as the code has
it.

* `OwnDataKept` forgot that settings saved while an update, having found none, is about
  to write those of its release are lost.
* `Floor` of `RiskStack` rounded the floor of a trailing drawdown to the wrong side.
* `NewsHead` throws away a spike that leaves no risk (`news.rs:165`): a bar without a
  range, while the ATR is zero, is spike enough, and its stop would lie on its close.

## 5. What is left out

* Prices, spreads and lot arithmetic, the selection of heads, the GUI snapshot
  and notifications of the live loop: they change no state the properties speak of.
* The New York calendar: boundaries are arbitrary clock values.
* In `EntryGate`: the arithmetic of the lot-size jump, whose refusal is one of the
  signals that change nothing; several symbols, and with them the rolling
  correlation and `ReduceCluster`; the volatility halt and the performance ledger,
  which the live loop never feeds.  Pacing and the trade-idea cap are claimed for
  one process: entries live in memory and a restart starts from none.
* In `Installer`: `rd /s /q` walks the directory, here in one step; a payload that is
  empty (`install.rs:278`) and an entry whose name leaves the directory (`install.rs:290`),
  which a build does not produce.
* A clock that steps back.  Ticks carry the local time, so a step back closes a
  bar early; nothing in the repository promises otherwise.
* Overflow of the eight-bit streak counter: a cooldown answers every streak from
  the third loss on, so 256 losses in a row take many halts; streaks are bounded.

Not modelled, and why:

* Indicators, regime detection and the meta layer: recurrences over decimals; what
  could be wrong is in the numbers, and the heads take every outcome as input.
* Exit calculators, `StreamAggregator`, `MultiTfAggregator`, `DataDownloader`, the
  automatic questions of the Oracle: nothing outside tests calls them.
* The refresh of tokens and the crypto feed: a request, an answer and a file, with
  no state in between.
* The temporal profile, swap days and lot rounding: they scale a number.
* The stress tests, reports and statistics: printed, and nothing is decided by them.
* The tuner, synthetic data, scripts, packaging and protocol files: output, build
  files and generated code.
* Drawing, layout, themes and the mascots of GUI and wizard.

Seen while modelling, and not a property of any module: the scalpers' cool-down
compares with `i64::MIN` and wraps, so they never signal (`scalp_m1.rs:136`), and the
grid's reward to risk of 1.0 and 1.2 never meets the 1.5 asked for (`Heads` states
both as `Dormant`, which holds); bars of a live session have volume 0
(`phase1.rs:1060`), so the volume profile is empty; the engine's verdict ignores the
degradation the walk-forward test reports and asks for four good folds whatever
their number; an empty list of trades passes gate 3; the limits of the GUI's
auto-stop are not read by the daemon; `auth --refresh` is advertised (`main.rs:261`)
and not implemented; the wait for the OAuth callback has no timeout; with a tray
icon the close handler cancels the tray's own Quit (`gadarah-gui/src/main.rs:398`).

## 6. Where to go on

What the modules prepare and do not contain yet, in the order of what it would add:

1. The layers' risk against the original risk in `pyramid.rs`, and what the venue is
   left with when the stop is not moved.
2. Several symbols in `EntryGate`, with the rolling correlation and `ReduceCluster`.
3. `OwnSetup` of `Heads`: which bars the range of an entry was built from.
