----------------------------- MODULE MCBacktest ------------------------------
(* Backtest on a handful of bars.                                          *)
EXTENDS Backtest

MCMoves        == {-6, 3, 12}
MCBreakevenAtR == <<1, 1>>
MCPartialAtR   == <<3, 2>>
MCTimeExitMinR == <<1, 2>>
MCRetrace      == <<1, 2>>
MCHaltR        == -10
=============================================================================
