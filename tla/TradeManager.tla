---------------------------- MODULE TradeManager -----------------------------
(***************************************************************************)
(* What the trade manager asks for an open position on a bar               *)
(* (gadarah-risk/src/trade_manager.rs, manage_position): a pure function of*)
(* the position's record, the time and the average true range.             *)
(*                                                                         *)
(* A multiple of R is a pair <<n, d>>; the profit is compared with it by   *)
(* cross-multiplication.                                                   *)
(***************************************************************************)
EXTENDS Integers

CONSTANTS
    BreakevenAtR,   \* breakeven_at_r
    PartialAtR,     \* partial1_at_r
    TimeExitMinR,   \* time_exit_min_r
    TimeExit,       \* age after which a position must have earned that much
    TrailMult,      \* trail_atr_mult
    Retrace         \* adverse_retrace_pct

Distance(x, y) == IF x < y THEN y - x ELSE x - y

Profit(pos) == IF pos.dir = "Buy" THEN pos.price - pos.entry ELSE pos.entry - pos.price

\* The multiple of R is measured against the stop as it stands; with the stop
\* at the entry it is zero.
ReachesR(pos, r) ==
    LET risk == Distance(pos.entry, pos.sl)
    IN  IF risk = 0 THEN r[1] <= 0 ELSE Profit(pos) * r[2] >= r[1] * risk

WithMfe(pos) == IF Profit(pos) > pos.mfe THEN [pos EXCEPT !.mfe = Profit(pos)] ELSE pos

TimedOut(pos, now) == now - pos.opened > TimeExit /\ ~ReachesR(pos, TimeExitMinR)

GaveBack(pos) ==
    pos.mfe > 0 /\ (pos.mfe - Profit(pos)) * Retrace[2] > Retrace[1] * pos.mfe

WantsBreakeven(pos) == ReachesR(pos, BreakevenAtR) /\ ~pos.breakeven
WantsPartial(pos)   == ReachesR(pos, PartialAtR) /\ ~pos.partial

TrailStop(pos, atr) ==
    IF pos.dir = "Buy" THEN pos.price - TrailMult * atr ELSE pos.price + TrailMult * atr

Tighter(pos, sl) == IF pos.dir = "Buy" THEN sl > pos.sl ELSE sl < pos.sl

\* Mutation of WantsTrail: the trail follows the price in both directions.
WantsTrailLoose(pos, partial, atr) == partial /\ atr > 0 /\ TrailStop(pos, atr) # pos.sl

\* The trail is compared with the stop the position came in with, not with a
\* breakeven move decided a moment earlier.
WantsTrail(pos, partial, atr) == partial /\ atr > 0 /\ Tighter(pos, TrailStop(pos, atr))

\* The record after the call, and which actions are asked for: a close, which
\* is then the only one, or, in this order, a move to the entry, a partial close,
\* a move to the entry on its account, and the trail.
ManagePosition(pos0, now, atr) ==
    LET pos       == WithMfe(pos0)
        closeAll  == TimedOut(pos, now) \/ GaveBack(pos)
        breakeven == ~closeAll /\ WantsBreakeven(pos)
        partial   == ~closeAll /\ WantsPartial(pos)
        also      == partial /\ ~pos.breakeven /\ ~breakeven
        trail     == ~closeAll /\ WantsTrail(pos, pos.partial \/ partial, atr)
    IN  [pos |-> [pos EXCEPT !.breakeven = @ \/ breakeven \/ also,
                             !.partial   = @ \/ partial,
                             !.trailing  = @ \/ trail],
         closeAll |-> closeAll, breakeven |-> breakeven, partial |-> partial,
         also |-> also, trail |-> trail]
=============================================================================
