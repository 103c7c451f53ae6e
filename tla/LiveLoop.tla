------------------------------ MODULE LiveLoop ------------------------------
(***************************************************************************)
(* The live trading loop (gadarah-cli/src/phase1.rs, run_live with         *)
(* --execute): what it believes is open against what the venue holds.  One *)
(* thread reconciles at the top of a bar, handles the bar's signals, feeds *)
(* the risk stack, flattens the book when the daily stop is entered, and   *)
(* adds pyramid layers.  Between any two of its blocking calls the venue   *)
(* closes positions, late orders fill, the connection is cut, or the       *)
(* process dies; the trade database and the venue survive the process.     *)
(*                                                                         *)
(* The components the loop calls stand here for what their own modules     *)
(* show: a client call ends well or badly, an order whose call failed may  *)
(* still fill (CtraderClient); within a day the daily stop is entered once *)
(* and stays (DailyPnl); the kill switch arms or cools down inside check() *)
(* (KillSwitch).  Position ids grow in the order of the fills, as          *)
(* opened_at does.                                                         *)
(***************************************************************************)
EXTENDS Integers, FiniteSets

CONSTANTS
    Heads,          \* the strategy heads: one tracked position each
    MaxPositions,   \* firm.max_positions
    MaxLayers,      \* pyramid.max_layers
    MaxIds,         \* bound: positions the venue ever opens
    MaxCuts         \* bound: connections cut

ASSUME ConstantsAssumption ==
    /\ IsFiniteSet(Heads)
    /\ MaxPositions \in Nat /\ MaxLayers \in Nat
    /\ MaxIds \in Nat /\ MaxCuts \in Nat

VARIABLES
    pc,            \* where the loop is
    tracked,       \* positions_by_head: the position id of each head
    layers,        \* pyramid.layers.len() of each tracked position
    todo,          \* heads the current pass has still to visit
    stopped,       \* daily_pnl.state() = DailyStopped
    kill,          \* kill_switch.is_active()
    halted,        \* profit_target_halted
    broker_synced, \* LiveRuntime.broker_synced
    rows,          \* unclosed trades in the database, by head and position
    open,          \* positions open at the venue
    nextId,        \* the next position id
    limbo,         \* orders whose call failed and that may still fill
    link,          \* the connection and the client's account_synced flag
    breach,        \* the cached account equity is past the daily stop
    failed         \* ghost: heads whose protective close failed

loopVars  == <<tracked, layers, todo>>
riskVars  == <<stopped, kill, halted>>
venueVars == <<open, nextId, limbo>>
vars == <<pc, loopVars, riskVars, broker_synced, rows, venueVars, link, breach,
          failed>>

None == 0
Ids  == 1..MaxIds
NoPyramid == -1

Held == {h \in Heads : tracked[h] # None}
Forgotten == [h \in Heads |-> None]
NoLayers  == [h \in Heads |-> NoPyramid]

Init ==
    /\ pc = "start"
    /\ tracked = Forgotten
    /\ layers = NoLayers
    /\ todo = {}
    /\ stopped = FALSE /\ kill = FALSE /\ halted = FALSE
    /\ broker_synced = FALSE
    /\ rows = {}
    /\ open = {}
    /\ nextId = 1
    /\ limbo = 0
    /\ link = [up |-> FALSE, synced |-> FALSE, cuts |-> 0]
    /\ breach = FALSE
    /\ failed = {}

-----------------------------------------------------------------------------
(* Starting.                                                               *)

\* connect_blocking reconciles and fetches the account; a failure ends the
\* process.  The reconcile that follows may fail with a warning.
Connect ==
    /\ pc = "start"
    /\ pc' = "recover"
    /\ \E synced, equity \in BOOLEAN :
        /\ link' = [link EXCEPT !.up = TRUE, !.synced = synced]
        /\ breach' = equity
    /\ UNCHANGED <<loopVars, riskVars, broker_synced, rows, venueVars, failed>>

\* The open positions of a head that the database knows.
Known(h) == {id \in open : <<h, id>> \in rows}

Latest(S) == CHOOSE id \in S : \A other \in S : other <= id

\* recover_positions: rows are inserted by head in the order of opening, so
\* the latest open one of each head remains.
Recovered ==
    [h \in Heads |-> IF Known(h) = {} THEN None ELSE Latest(Known(h))]

Count(book) == Cardinality({h \in Heads : book[h] # None})

\* Mutation of OrphanWarning: the rows that match are counted, not the heads
\* that were restored.
OrphanWarningByRow(book) ==
    Cardinality(open) > Cardinality({r \in rows : r[2] \in open})

\* The warning: positions at the venue, or rows, beyond the recovered ones.
OrphanWarning(book) ==
    Cardinality(open) > Count(book) \/ Cardinality(rows) > Count(book)

\* The reconcile that restores the book is the one that sets broker_synced.
Recover ==
    /\ pc = "recover"
    /\ pc' = "top"
    /\ \/ /\ link.up
          /\ broker_synced' = TRUE
          /\ link' = [link EXCEPT !.synced = TRUE]
          /\ tracked' = Recovered
       \/ /\ link' = [link EXCEPT !.synced = FALSE]
          /\ UNCHANGED <<broker_synced, tracked>>
    /\ UNCHANGED <<layers, todo, riskVars, rows, venueVars, breach, failed>>

-----------------------------------------------------------------------------
(* The top of the loop.                                                    *)

\* reconnect_blocking refreshes the cached account and the client's flag;
\* the reconcile after it may fail with a warning.  Ten failed attempts end
\* the process, as a shutdown signal does.
Reconnect ==
    /\ pc = "top"
    /\ ~link.up
    /\ \/ /\ \E synced, equity \in BOOLEAN :
               /\ link' = [link EXCEPT !.up = TRUE, !.synced = synced]
               /\ breach' = equity
          /\ UNCHANGED pc
       \/ /\ pc' = "exited"
          /\ UNCHANGED <<link, breach>>
    /\ UNCHANGED <<loopVars, riskVars, broker_synced, rows, venueVars, failed>>

Shutdown ==
    /\ pc = "top"
    /\ pc' = "exited"
    /\ UNCHANGED <<loopVars, riskVars, broker_synced, rows, venueVars, link,
                   breach, failed>>

ForgetBook ==
    /\ tracked' = Forgotten
    /\ layers' = NoLayers

\* reconcile_open_positions compares counts; it never learns which position
\* is gone.
ReconcileOpenPositions ==
    \/ /\ link' = [link EXCEPT !.synced = TRUE]
       /\ IF Cardinality(open) = 0 \/ Cardinality(open) < Cardinality(Held)
          THEN ForgetBook
          ELSE UNCHANGED <<tracked, layers>>
    \/ /\ link' = [link EXCEPT !.synced = FALSE]
       /\ UNCHANGED <<tracked, layers>>

\* A tick ends a bar, and the bar starts with a reconcile.
BarCloses ==
    /\ pc = "top"
    /\ link.up
    /\ ReconcileOpenPositions
    /\ pc' = "evaluate"
    /\ UNCHANGED <<todo, riskVars, broker_synced, rows, venueVars, breach, failed>>

-----------------------------------------------------------------------------
(* Signals.                                                                *)

\* Regime warm-up, a stale regime or no eligible signal: the bar ends here,
\* before the risk stack has seen it.
NoSignals ==
    /\ pc = "evaluate"
    /\ pc' = "top"
    /\ UNCHANGED <<loopVars, riskVars, broker_synced, rows, venueVars, link,
                   breach, failed>>

SomeSignals ==
    /\ pc = "evaluate"
    /\ pc' = "signals"
    /\ UNCHANGED <<loopVars, riskVars, broker_synced, rows, venueVars, link,
                   breach, failed>>

SignalsDone ==
    /\ pc = "signals"
    /\ pc' = "risk"
    /\ UNCHANGED <<loopVars, riskVars, broker_synced, rows, venueVars, link,
                   breach, failed>>

Drop(h) ==
    /\ tracked' = [tracked EXCEPT ![h] = None]
    /\ layers' = [layers EXCEPT ![h] = NoPyramid]

\* The venue closes the position and the loop records it; the row stays when
\* the database write fails.
CloseSucceeds(h) ==
    /\ link.up
    /\ tracked[h] \in open
    /\ open' = open \ {tracked[h]}
    /\ Drop(h)
    /\ rows' \in {rows, rows \ {<<h, tracked[h]>>}}

\* A Close signal; a failed close puts the position back.
CloseSignal ==
    /\ pc = "signals"
    /\ \E h \in Held : CloseSucceeds(h)
    /\ UNCHANGED <<pc, todo, riskVars, broker_synced, nextId, limbo, link,
                   breach, failed>>

\* Mutation of GateAdmits: the daily stop is not asked.
GateAdmitsStopped == ~kill /\ broker_synced

\* PreTradeGate::evaluate, as far as this model tells: the remaining checks
\* may refuse any order.
GateAdmits == ~kill /\ broker_synced /\ ~stopped

\* An order that fills: the venue opens a position.
OrderFills ==
    /\ link.up /\ link.synced
    /\ nextId \in Ids
    /\ open' = open \cup {nextId}
    /\ nextId' = nextId + 1
    /\ UNCHANGED limbo

\* An order whose call fails by timeout, acceptance or a cut may still fill.
OrderLost ==
    /\ link.synced
    /\ nextId + limbo \in Ids
    /\ limbo' = limbo + 1
    /\ UNCHANGED <<open, nextId>>

\* An Open signal that no guard refuses.
OpenSignal ==
    /\ pc = "signals"
    /\ Cardinality(Held) < MaxPositions
    /\ ~halted
    /\ GateAdmits
    /\ \E h \in Heads \ Held :
        \/ /\ OrderFills
           /\ tracked' = [tracked EXCEPT ![h] = nextId]
           /\ layers' = [layers EXCEPT ![h] = 0]
           /\ rows' \in {rows, rows \cup {<<h, nextId>>}}
        \/ /\ OrderLost
           /\ UNCHANGED <<tracked, layers, rows>>
    /\ UNCHANGED <<pc, todo, riskVars, broker_synced, link, breach, failed>>

-----------------------------------------------------------------------------
(* The risk stack and the flatten.                                         *)

FlattenStart ==
    /\ todo' = Held
    /\ failed' = {}
    /\ pc' = "flatten"

\* A bar of the same day keeps the stop; a breach of the cached equity enters
\* it, and the request to flatten is taken in the same call.  The first bar
\* of a later day measures from its own equity.
DailyUpdate ==
    \/ /\ stopped' = (stopped \/ breach)
       /\ UNCHANGED breach
    \/ /\ stopped' = FALSE
       /\ breach' = FALSE

\* Mutation of AfterRisk: an armed kill switch returns before the request.
AfterRiskKillFirst ==
    IF kill' THEN pc' = "top" /\ UNCHANGED <<todo, failed>>
    ELSE IF stopped' /\ ~stopped THEN FlattenStart
    ELSE pc' = "pyramid" /\ UNCHANGED <<todo, failed>>

AfterRisk ==
    IF stopped' /\ ~stopped THEN FlattenStart
    ELSE /\ pc' = IF kill' THEN "top" ELSE "pyramid"
         /\ UNCHANGED <<todo, failed>>

RiskUpdate ==
    /\ pc = "risk"
    /\ DailyUpdate
    /\ kill' \in BOOLEAN
    /\ halted' \in {halted, TRUE}
    /\ AfterRisk
    /\ UNCHANGED <<tracked, layers, broker_synced, rows, venueVars, link>>

\* flatten_all_positions tries each position once; one whose close fails is
\* put back.
FlattenNext ==
    /\ pc = "flatten"
    /\ \E h \in todo :
        /\ todo' = todo \ {h}
        /\ \/ CloseSucceeds(h) /\ UNCHANGED failed
           \/ failed' = failed \cup {h} /\ UNCHANGED <<tracked, layers, rows, open>>
    /\ UNCHANGED <<pc, riskVars, broker_synced, nextId, limbo, link, breach>>

FlattenDone ==
    /\ pc = "flatten"
    /\ todo = {}
    /\ pc' = IF kill THEN "top" ELSE "pyramid"
    /\ UNCHANGED <<loopVars, riskVars, broker_synced, rows, venueVars, link,
                   breach, failed>>

-----------------------------------------------------------------------------
(* Pyramid adds.                                                           *)

\* can_add_pyramid, as far as this model tells: profit, regime and reward
\* choose among the heads with room.
MayAdd == {h \in Held : 0 <= layers[h] /\ layers[h] < MaxLayers}

\* The eligible heads are collected once, before the first add.
PyramidScan ==
    /\ pc = "pyramid"
    /\ ~halted /\ ~kill /\ ~stopped
    /\ todo' \in SUBSET MayAdd
    /\ pc' = "adding"
    /\ UNCHANGED <<tracked, layers, riskVars, broker_synced, rows, venueVars,
                   link, breach, failed>>

PyramidSkip ==
    /\ pc = "pyramid"
    /\ pc' = "top"
    /\ UNCHANGED <<loopVars, riskVars, broker_synced, rows, venueVars, link,
                   breach, failed>>

\* The layer is recorded before the gate and the order; the filled position
\* is not tracked and has no row.
PyramidAdd ==
    /\ pc = "adding"
    /\ \E h \in todo :
        /\ todo' = todo \ {h}
        /\ layers' = [layers EXCEPT ![h] = @ + 1]
    /\ \/ GateAdmits /\ (OrderFills \/ OrderLost)
       \/ UNCHANGED venueVars
    /\ UNCHANGED <<pc, tracked, riskVars, broker_synced, rows, link, breach,
                   failed>>

PyramidDone ==
    /\ pc = "adding"
    /\ todo = {}
    /\ pc' = "top"
    /\ UNCHANGED <<loopVars, riskVars, broker_synced, rows, venueVars, link,
                   breach, failed>>

-----------------------------------------------------------------------------
(* The world (external) and the end of the process.                        *)

\* Stop loss, take profit, a close by hand, or the late effect of a close
\* whose call failed.
VenueCloses ==
    /\ \E id \in open : open' = open \ {id}
    /\ UNCHANGED <<pc, loopVars, riskVars, broker_synced, rows, nextId, limbo,
                   link, breach, failed>>

\* An order in limbo fills or is cancelled.
LateFill ==
    /\ limbo > 0
    /\ limbo' = limbo - 1
    /\ \/ /\ nextId \in Ids
          /\ open' = open \cup {nextId}
          /\ nextId' = nextId + 1
       \/ UNCHANGED <<open, nextId>>
    /\ UNCHANGED <<pc, loopVars, riskVars, broker_synced, rows, link, breach,
                   failed>>

Cut ==
    /\ link.up
    /\ link.cuts < MaxCuts
    /\ link' = [link EXCEPT !.up = FALSE, !.cuts = @ + 1]
    /\ UNCHANGED <<pc, loopVars, riskVars, broker_synced, rows, venueVars,
                   breach, failed>>

\* The process dies or has exited, and is started again: nothing of
\* LiveRuntime survives.
Restart ==
    /\ pc # "start"
    /\ link.cuts < MaxCuts
    /\ pc' = "start"
    /\ ForgetBook
    /\ todo' = {}
    /\ stopped' = FALSE /\ kill' = FALSE /\ halted' = FALSE
    /\ broker_synced' = FALSE
    /\ link' = [up |-> FALSE, synced |-> FALSE, cuts |-> link.cuts + 1]
    /\ breach' = FALSE
    /\ failed' = {}
    /\ UNCHANGED <<rows, venueVars>>

-----------------------------------------------------------------------------
Next ==
    \/ Connect \/ Recover \/ Reconnect \/ Shutdown \/ BarCloses
    \/ NoSignals \/ SomeSignals \/ SignalsDone
    \/ CloseSignal \/ OpenSignal
    \/ RiskUpdate \/ FlattenNext \/ FlattenDone
    \/ PyramidScan \/ PyramidSkip \/ PyramidAdd \/ PyramidDone
    \/ VenueCloses \/ LateFill \/ Cut \/ Restart

Spec == Init /\ [][Next]_vars

\* The loop's thread runs: every call of the client returns (CallsReturn of
\* CtraderClient says so of requests; that connecting returns too is granted
\* here, where a property fails even so), bars keep closing while the
\* connection stands, and now and then a bar has signals.
Fairness ==
    /\ WF_vars(Connect) /\ WF_vars(Recover) /\ WF_vars(Reconnect)
    /\ WF_vars(BarCloses) /\ WF_vars(NoSignals \/ SomeSignals)
    /\ SF_vars(SomeSignals) /\ WF_vars(SignalsDone) /\ WF_vars(RiskUpdate)
    /\ WF_vars(FlattenNext) /\ WF_vars(FlattenDone)
    /\ WF_vars(PyramidScan \/ PyramidSkip) /\ WF_vars(PyramidAdd)
    /\ WF_vars(PyramidDone)

FairSpec == Spec /\ Fairness

-----------------------------------------------------------------------------
(* Properties.                                                             *)

Steps == {"start", "recover", "top", "evaluate", "signals", "risk", "flatten",
          "pyramid", "adding", "exited"}

TypeOK ==
    /\ pc \in Steps
    /\ tracked \in [Heads -> Ids \cup {None}]
    /\ layers \in [Heads -> NoPyramid..MaxLayers]
    /\ todo \subseteq Held
    /\ stopped \in BOOLEAN /\ kill \in BOOLEAN /\ halted \in BOOLEAN
    /\ broker_synced \in BOOLEAN
    /\ rows \subseteq Heads \X Ids
    /\ open \subseteq Ids
    /\ nextId \in 1..MaxIds + 1
    /\ limbo \in 0..MaxIds
    /\ link \in [up : BOOLEAN, synced : BOOLEAN, cuts : 0..MaxCuts]
    /\ breach \in BOOLEAN
    /\ failed \subseteq Heads

\* Two heads never manage the same position, whatever was forgotten, filled
\* late and recovered in between.
OneHeadPerPosition ==
    \A g, h \in Held : tracked[g] = tracked[h] => g = h

\* While the day is stopped the book holds nothing but positions whose
\* protective close failed: the flatten reaches every position, also those
\* opened in the bar that entered the stop, and nothing comes back in.
StoppedBookIsFlat ==
    stopped /\ pc # "flatten" => Held \subseteq failed

\* Once the day is stopped, the kill switch armed, or the target reached, the
\* venue's book grows only by orders sent before (phase1.rs:1415, gate.rs:102).
NoNewExposure ==
    [][stopped \/ kill \/ halted => open' \subseteq open \/ limbo' < limbo]_vars

\* The same for the orders themselves, and for a process that never saw the
\* venue's positions: none is sent.
Sent == limbo' > limbo \/ (nextId' > nextId /\ limbo' = limbo)

NoOrderWhenRefused ==
    [][Sent => broker_synced /\ ~stopped /\ ~kill /\ ~halted]_vars

\* A position at the venue that recovery did not restore is reported: however
\* rows, heads and positions overlap, no orphan goes unnoticed (phase1.rs:964).
OrphansReported ==
    [][pc = "recover" /\ broker_synced'
          /\ (\E id \in open : \A h \in Heads : tracked'[h] # id)
         => OrphanWarning(tracked')]_vars

-----------------------------------------------------------------------------
(* What the source says and the code does not do.                          *)

\* phase1.rs:1872 of a failed protective close: "Will retry next tick."
FlattenRetried ==
    \A h \in Heads :
        (h \in failed) ~> \/ tracked[h] \notin open
                         \/ ~stopped
                         \/ pc \in {"flatten", "exited"}

\* phase1.rs:1560: "new entries cannot slip through a breached limit."
NoEntryPastBreach == [][Sent => ~breach]_vars

\* phase1.rs:1822 of flatten_all_positions: "Called when the daily stop is
\* reached or the kill switch arms while positions are still live."
KillFlattens == [][kill' /\ ~kill /\ Held # {} => pc' = "flatten"]_vars

\* phase1.rs:1822: "Close every open position."  All of them are the loop's
\* own: pyramid adds, late fills and positions a reconcile forgot.
FlattenClosesAll ==
    [][pc = "risk" /\ pc' = "flatten" => open \subseteq {tracked[h] : h \in todo'}]_vars

\* phase1.rs:101 of broker_synced: "Set once `reconcile_blocking` has
\* succeeded at least once post-connect."
SyncedOnceReconciled == pc = "top" /\ link.up /\ link.synced => broker_synced
=============================================================================
