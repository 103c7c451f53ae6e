---------------------------- MODULE MCEntryGate -----------------------------
(* The entry gate for TLC: EURUSD on one-minute bars, at FundingPips Zero  *)
(* and at a two-step FTMO challenge.  The signal is a fair one (40 pips    *)
(* against 20), the feed shows no spread, and a news window begins while   *)
(* the first bar is forming.                                               *)
EXTENDS EntryGate, TLC

CONSTANTS h1, h2, h3, scalp, buy, sell

MCFirms == {[name |-> {"fundingpips", "zero"}, type |-> {"fundingpips", "zero"}],
            [name |-> {"ftmo", "2-step"}, type |-> {"ftmo", "2step"}]}

MCHeads == {h1, h2, h3, scalp}
MCScalpHeads == {scalp}
MCShapes == {<<400, 200>>}
MCBlackoutWindows == {<<20, 70>>}
Symmetry == Permutations({h1, h2, h3}) \cup Permutations({buy, sell})
=============================================================================
