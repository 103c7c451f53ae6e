----------------------------- MODULE MockBroker ------------------------------
(***************************************************************************)
(* The simulated broker of the backtests (gadarah-broker/src/mock.rs) as   *)
(* operators on its state, for one symbol.                                 *)
(*                                                                         *)
(* Prices are whole pips, lots whole volume steps, and money is what one   *)
(* pip earns on one step, so profit is the price difference times the lots.*)
(***************************************************************************)
EXTENDS Integers, FiniteSets, Functions

CONSTANTS
    HalfSpread,     \* half of the simulated spread
    Slip,           \* slippage of every fill
    Commission,     \* per lot step and side
    StartBalance

Dirs == {"Buy", "Sell"}

NewBroker ==
    [positions |-> <<>>, nextId |-> 1, bid |-> 0, ask |-> 0,
     balance |-> StartBalance, equity |-> StartBalance]

Open(b) == DOMAIN b.positions

Without(f, S) == [x \in DOMAIN f \ S |-> f[x]]

-----------------------------------------------------------------------------
\* The profit of lots of a position closed at price.
Pnl(pos, price, lots) ==
    lots * (IF pos.dir = "Buy" THEN price - pos.entry ELSE pos.entry - price)

\* The side of the market a position is closed on, before slippage.
ExitSide(b, pos) == IF pos.dir = "Buy" THEN b.bid ELSE b.ask

Slipped(pos, price) == IF pos.dir = "Buy" THEN price - Slip ELSE price + Slip

Unrealized(b) ==
    SumFunction([id \in Open(b) |->
        Pnl(b.positions[id], ExitSide(b, b.positions[id]), b.positions[id].lots)])

\* Every booking ends by restating the equity.
Restated(b) == [b EXCEPT !.equity = b.balance + Unrealized(b)]

\* A new price; the equity is left at what the last booking made it.
SetPrice(b, mid) == [b EXCEPT !.bid = mid - HalfSpread, !.ask = mid + HalfSpread]

-----------------------------------------------------------------------------
(* Stops and targets are looked at once per bar, at the bar's close, the   *)
(* stop first.                                                             *)

StopHit(b, pos) ==
    IF pos.dir = "Buy" THEN b.bid <= pos.sl ELSE b.ask >= pos.sl

TargetHit(b, pos) ==
    IF pos.dir = "Buy" THEN b.bid >= pos.tp ELSE b.ask <= pos.tp

Due(b) == {id \in Open(b) : StopHit(b, b.positions[id]) \/ TargetHit(b, b.positions[id])}

\* The report of a close of some lots of a position.
Report(pos, price, lots) ==
    [lots |-> lots, pnl |-> Pnl(pos, price, lots), commission |-> Commission * lots]

DueReport(b, id) ==
    LET pos == b.positions[id]
    IN  Report(pos, Slipped(pos, IF StopHit(b, pos) THEN pos.sl ELSE pos.tp), pos.lots)

Net(report) == report.pnl - report.commission

\* All positions that are due, closed in one call.
CheckSlTp(b) ==
    LET closed == SumFunction([id \in Due(b) |-> Net(DueReport(b, id))])
    IN  IF Due(b) = {} THEN b
        ELSE Restated([b EXCEPT !.positions = Without(@, Due(b)), !.balance = @ + closed])

-----------------------------------------------------------------------------
(* The Broker trait.                                                       *)

FillPrice(b, dir) == IF dir = "Buy" THEN b.ask + Slip ELSE b.bid - Slip

SendOrder(b, dir, lots, sl, tp) ==
    Restated([b EXCEPT
        !.balance   = @ - Commission * lots,
        !.nextId    = @ + 1,
        !.positions = [id \in Open(b) \cup {b.nextId} |->
            IF id = b.nextId
            THEN [dir |-> dir, lots |-> lots, entry |-> FillPrice(b, dir), sl |-> sl, tp |-> tp]
            ELSE b.positions[id]]])

ModifyStop(b, id, sl) == [b EXCEPT !.positions[id].sl = sl]

CloseReport(b, id, lots) ==
    Report(b.positions[id], Slipped(b.positions[id], ExitSide(b, b.positions[id])), lots)

\* A partial close leaves the rest of the position in place.
ClosePosition(b, id, lots) ==
    LET left == b.positions[id].lots - lots
    IN  Restated([b EXCEPT
            !.balance   = @ + Net(CloseReport(b, id, lots)),
            !.positions = IF left = 0 THEN Without(@, {id}) ELSE [@ EXCEPT ![id].lots = left]])
=============================================================================
