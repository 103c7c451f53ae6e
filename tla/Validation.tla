----------------------------- MODULE Validation -----------------------------
(***************************************************************************)
(* Is a strategy fit for a demo account?  The validate command judges five *)
(* gates one after the other (run_validate, phase1.rs); the GUI runs the   *)
(* walk-forward test alone (ui/backtest.rs).  Both cut the bars of a       *)
(* symbol into windows (walk_forward.rs), and the command also resamples   *)
(* the trades of the backtest (monte_carlo.rs).                            *)
(*                                                                         *)
(* What a backtest of a window yields is an input, as are the verdicts of  *)
(* gates 0, 1 and 4: BarStore, Backtest and Challenge are about those.     *)
(* Money is in half dollars of an account of 10,000 dollars.               *)
(***************************************************************************)
EXTENDS Integers, Sequences, SequencesExt, FiniteSets, FiniteSetsExt, Functions, Bags

CONSTANTS
    Symbols,        \* the configured symbols, in order; the first is the primary
    MaxPositions,   \* the firm's
    BarCounts,      \* bound: how many bars of a symbol the store may hold
    Outcomes,       \* bound: what the two backtests of a window may yield
    TradeLists,     \* bound: results of the backtest's trades, in closing order
    BlockLength,    \* of the bootstrap: auto_block_length picks it in 3..30
    NumPaths        \* resampled paths, a multiple of 20; the command runs 10,000

\* The store counts its bars.
ASSUME BarsAssumption == BarCounts \subseteq Nat

\* The bootstrap draws whole blocks, of whole half dollars.
ASSUME PathsAssumption ==
    NumPaths \in Nat /\ BlockLength \in Nat \ {0} /\ TradeLists \subseteq Seq(Int)

StartBalance == 20000

\* WalkForwardConfig: the defaults of the command, the five folds of the GUI.
Config(caller) == [folds |-> IF caller = "gui" THEN 5 ELSE 12, embargo |-> 7 * 24 * 12]

VARIABLES
    caller,     \* "validate" or "gui"
    gate,       \* what comes next
    left,       \* symbols the loop has still to run
    ran,        \* symbols whose backtest made it into the result
    total,      \* bars of the symbol the walk-forward test runs on, 0: none
    windows,    \* the folds still to be run
    folds,      \* bag of outcomes of the folds that were run
    trades,     \* all_trades
    paths,      \* bag of resampled paths
    ready       \* no gate so far has failed

validation == <<caller, gate, left, ran, total, windows, folds, trades, paths, ready>>

Primary == Symbols[1]

\* Each symbol's share of the firm's positions, rounded up.
PositionsPerSymbol == (MaxPositions + Len(Symbols) - 1) \div Len(Symbols)

-----------------------------------------------------------------------------
(* Windows.                                                                *)

\* A fold's share for the in-sample test: seven tenths, truncated from a double
\* that may lie just below a whole number.
InSampleSizes(size) ==
    {(7 * size) \div 10} \cup (IF size % 10 = 0 THEN {(7 * size) \div 10 - 1} ELSE {})

\* compute_fold_ranges ends in an error; whole is the size of the in-sample part.
Refused(bars, config, whole) == bars \div config.folds < 200 \/ whole <= config.embargo

\* Mutation of Window: the out-of-sample part begins where the other one ends.
WindowAtOnce(n, bars, config, whole) ==
    LET size  == bars \div config.folds
        start == n * size
    IN  [from |-> start, to |-> start + whole, test |-> start + whole,
         end |-> Min({start + size, bars})]

\* Bars from..to-1 are in sample, test..end-1 out of sample.
Window(n, bars, config, whole) ==
    LET size  == bars \div config.folds
        start == n * size
    IN  [from |-> start, to |-> start + whole, test |-> start + whole + config.embargo,
         end |-> Min({start + size, bars})]

Fits(w, bars) == w.to < bars /\ w.test < bars /\ w.end <= bars /\ w.test < w.end

\* The loop ends at the first window that does not fit.
FoldRanges(bars, config, whole) ==
    LET Cut(n) == Window(n, bars, config, whole)
        kept   == Max({n \in 0..config.folds : \A i \in 0..(n - 1) : Fits(Cut(i), bars)})
    IN  [n \in 1..kept |-> Cut(n - 1)]

-----------------------------------------------------------------------------
(* The bootstrap.                                                          *)

\* The indices one path can draw from n trades: blocks of neighbours.
Draws(n) ==
    {[i \in 1..n |-> 1 + ((block[(i - 1) \div BlockLength] + ((i - 1) % BlockLength)) % n)] :
        block \in [0..((n - 1) \div BlockLength) -> 0..(n - 1)]}

\* The account after another trade; at a loss of six percent the path ends.
\* deep: it once stood 5.5 percent or more below its peak.
Step(path, pnl) ==
    LET equity == path.equity + pnl
        peak   == Max({path.peak, equity})
    IN  IF path.ruined THEN path
        ELSE [equity |-> equity, peak |-> peak,
              deep |-> path.deep \/ 1000 * (peak - equity) >= 55 * peak,
              ruined |-> 100 * equity <= 94 * StartBalance]

Fresh == [equity |-> StartBalance, peak |-> StartBalance, deep |-> FALSE, ruined |-> FALSE]

\* Mutation of Path: a ruined path goes on and may recover.
PathRunsOn(list, draw) ==
    LET path[n \in 0..Len(draw)] ==
            IF n = 0 THEN Fresh
            ELSE [Step([path[n - 1] EXCEPT !.ruined = FALSE], list[draw[n]])
                     EXCEPT !.ruined = @ \/ path[n - 1].ruined]
        end == path[Len(draw)]
    IN  [final |-> end.equity, deep |-> end.deep, ruined |-> end.ruined]

Path(list, draw) ==
    LET path[n \in 0..Len(draw)] ==
            IF n = 0 THEN Fresh ELSE Step(path[n - 1], list[draw[n]])
        end == path[Len(draw)]
    IN  [final |-> end.equity, deep |-> end.deep, ruined |-> end.ruined]

Sum(bag, F(_)) == SumFunction([o \in DOMAIN bag |-> bag[o] * F(o)])

Many(bag, P(_)) == SumFunctionOnSet(bag, {o \in DOMAIN bag : P(o)})

PathsRun == SumFunction(paths)

Ruins == Many(paths, LAMBDA o : o.ruined)

\* The entry floor(NumPaths / 20) of the sorted balances is the start or more.
P5Whole == Many(paths, LAMBDA o : o.final < StartBalance) <= NumPaths \div 20

\* The entry floor(NumPaths * 19 / 20) of the sorted drawdowns is below 5.5.
P95Shallow == Many(paths, LAMBDA o : ~o.deep) > (NumPaths * 19) \div 20

\* Without a trade there is no path, and nothing to object to.
PathsPass == trades = <<>> \/ (P5Whole /\ P95Shallow /\ 20 * Ruins < NumPaths)

-----------------------------------------------------------------------------
(* The verdict on the folds.                                               *)

Gain == Sum(folds, LAMBDA o : o.gain)
Loss == Sum(folds, LAMBDA o : o.loss)

\* A profit factor of num/den or more; without a loss any gain will do.
Earns(gain, loss, num, den) == IF loss > 0 THEN den * gain >= num * loss ELSE gain > 0

\* The command: four good windows, whatever the others are, and the total.
EngineFoldsPass ==
    /\ Many(folds, LAMBDA o : Earns(o.gain, o.loss, 6, 5) /\ ~o.deep) >= 4
    /\ Earns(Gain, Loss, 6, 5)

\* The GUI: a profit in total that keeps six tenths of the mean in-sample
\* profit factor (pf, in tenths), no blunt and no flipped window, and a Sharpe
\* ratio that faded in at most half of them.
ReplayFoldsPass ==
    LET n    == BagCardinality(folds)
        mean == Sum(folds, LAMBDA o : o.pf)
    IN  /\ n > 0 /\ Gain > Loss /\ mean > 0
        /\ Loss > 0 => 100 * n * Gain > 6 * mean * Loss
        /\ Many(folds, LAMBDA o : o.blunt \/ o.flipped) = 0
        /\ 2 * Many(folds, LAMBDA o : o.faded) <= n

-----------------------------------------------------------------------------
ValidationInit ==
    /\ caller \in {"validate", "gui"}
    /\ gate = IF caller = "gui" THEN "run" ELSE "audit"
    /\ left = Symbols /\ ran = {} /\ total = 0
    /\ windows = <<>> /\ folds = EmptyBag /\ trades = <<>> /\ paths = EmptyBag
    /\ ready = TRUE

\* Gate 0, on the primary symbol alone; without its bars the command returns.
Audit ==
    /\ gate = "audit"
    /\ \/ gate' = "end" /\ UNCHANGED ready
       \/ gate' = "run" /\ ready' \in BOOLEAN
    /\ UNCHANGED <<caller, left, ran, total, windows, folds, trades, paths>>

\* A symbol without bars, or whose bars do not load, is passed over.
SkipSymbol ==
    /\ gate = "run" /\ left # <<>>
    /\ left' = Tail(left)
    /\ UNCHANGED <<caller, gate, ran, total, windows, folds, trades, paths, ready>>

RunSymbol ==
    /\ gate = "run" /\ caller = "validate" /\ left # <<>>
    /\ \E bars \in BarCounts :
           total' = IF Head(left) = Primary THEN bars ELSE total
    /\ ran' = ran \cup {Head(left)}
    /\ left' = Tail(left)
    /\ UNCHANGED <<caller, gate, windows, folds, trades, paths, ready>>

\* Gate 1, on the merged trades; the walk-forward test needs the primary symbol.
Combine ==
    /\ gate = "run" /\ caller = "validate" /\ left = <<>>
    /\ trades' \in IF ran = {} THEN {<<>>} ELSE TradeLists
    /\ ready' \in {FALSE, ready /\ trades' # <<>>}
    /\ gate' = IF total = 0 THEN "end" ELSE "cut"
    /\ UNCHANGED <<caller, left, ran, total, windows, folds, paths>>

\* The GUI tests one selected symbol after the other.
TestSymbol ==
    /\ gate = "run" /\ caller = "gui" /\ left # <<>>
    /\ total' \in BarCounts
    /\ left' = Tail(left)
    /\ gate' = "cut"
    /\ UNCHANGED <<caller, ran, windows, folds, trades, paths, ready>>

\* The database does not open, or no symbol is left.
EndTest ==
    /\ gate = "run" /\ caller = "gui" /\ left \in {<<>>, Symbols}
    /\ gate' = "end"
    /\ UNCHANGED <<caller, left, ran, total, windows, folds, trades, paths, ready>>

\* compute_fold_ranges; an error ends the command, the GUI takes the next symbol.
Cut ==
    /\ gate = "cut"
    /\ \E whole \in InSampleSizes(total \div Config(caller).folds) :
           IF Refused(total, Config(caller), whole)
           THEN /\ gate' = IF caller = "gui" THEN "run" ELSE "end"
                /\ total' = 0
                /\ UNCHANGED windows
           ELSE /\ gate' = "fold"
                /\ windows' = FoldRanges(total, Config(caller), whole)
                /\ UNCHANGED total
    /\ UNCHANGED <<caller, left, ran, folds, trades, paths, ready>>

\* Two backtests with fresh heads: the bars in sample, the bars out of sample.
RunFold ==
    /\ gate = "fold" /\ windows # <<>>
    /\ \E o \in Outcomes : folds' = folds (+) SetToBag({o})
    /\ windows' = Tail(windows)
    /\ UNCHANGED <<caller, gate, left, ran, total, trades, paths, ready>>

\* Gate 2.  Only the verdict outlives the folds.
JudgeFolds ==
    /\ gate = "fold" /\ windows = <<>>
    /\ IF caller = "gui"
       THEN gate' = "run" /\ ready' = ReplayFoldsPass
       ELSE gate' = "paths" /\ ready' = (ready /\ EngineFoldsPass)
    /\ total' = 0 /\ folds' = EmptyBag
    /\ UNCHANGED <<caller, left, ran, windows, trades, paths>>

RunPath ==
    /\ gate = "paths" /\ trades # <<>> /\ PathsRun < NumPaths
    /\ \E draw \in Draws(Len(trades)) : paths' = paths (+) SetToBag({Path(trades, draw)})
    /\ UNCHANGED <<caller, gate, left, ran, total, windows, folds, trades, ready>>

\* Gate 3.
JudgePaths ==
    /\ gate = "paths" /\ (trades = <<>> \/ PathsRun = NumPaths)
    /\ ready' = (ready /\ PathsPass)
    /\ gate' = "challenge"
    /\ UNCHANGED <<caller, left, ran, total, windows, folds, trades, paths>>

\* Gate 4, which no empty list of trades passes; then the overall verdict.
JudgeChallenge ==
    /\ gate = "challenge"
    /\ ready' \in {FALSE, ready /\ trades # <<>>}
    /\ gate' = "judged"
    /\ UNCHANGED <<caller, left, ran, total, windows, folds, trades, paths>>

ValidationNext ==
    \/ Audit \/ SkipSymbol \/ RunSymbol \/ Combine \/ TestSymbol \/ EndTest \/ Cut
    \/ RunFold \/ JudgeFolds \/ RunPath \/ JudgePaths \/ JudgeChallenge

ValidationSpec == ValidationInit /\ [][ValidationNext]_validation

-----------------------------------------------------------------------------
(* Properties                                                              *)

\* Each variable stays in its domain.
ValidationTypeOK ==
    /\ caller \in {"validate", "gui"}
    /\ gate \in {"audit", "run", "cut", "fold", "paths", "challenge", "judged", "end"}
    /\ ran \subseteq Range(Symbols) /\ total \in BarCounts \cup {0}
    /\ IsABag(folds) /\ DOMAIN folds \subseteq Outcomes
    /\ trades \in TradeLists \cup {<<>>} /\ IsABag(paths) /\ PathsRun <= NumPaths
    /\ ready \in BOOLEAN

\* However the bars divide into folds and the in-sample share is truncated, no
\* bar is used twice, and a bar traded out of sample lies a whole embargo behind
\* the bars of its fold's in-sample test (walk_forward.rs:27).
FoldsApart ==
    /\ \A i \in DOMAIN windows :
           /\ 0 <= windows[i].from /\ windows[i].from < windows[i].to
           /\ windows[i].test - windows[i].to >= Config(caller).embargo
           /\ windows[i].test < windows[i].end /\ windows[i].end <= total
    /\ \A i, j \in DOMAIN windows : i < j => windows[i].end <= windows[j].from

\* A ruined path shows in both percentiles: an account whose worst twentieth
\* keeps the start, or stays above a drawdown of 5.5 percent, is ruined in at
\* most one path of twenty (monte_carlo.rs:153: the path ends with its loss).
RuinShows ==
    PathsRun = NumPaths /\ (P5Whole \/ P95Shallow) => 20 * Ruins <= NumPaths

(* What a text of the program says, and the program does not keep.         *)

\* walk_forward.rs:116: an embargo too large for the folds is an error.  It is
\* compared with the in-sample part; the out-of-sample part it may swallow whole.
FoldsExist == [][gate = "cut" /\ gate' = "fold" => windows' # <<>>]_validation

\* phase1.rs:432: "WALK-FORWARD (5 FOLDS".
FiveFolds ==
    [][caller = "validate" /\ gate = "cut" /\ gate' = "fold" /\ windows' # <<>>
        => Len(windows') = 5]_validation

\* phase1.rs:399-402: the combined backtest is one of all configured symbols.
ReadyForAll == gate = "judged" /\ ready => ran = Range(Symbols)

\* phase1.rs:331: the symbols share the positions the firm allows.
PositionsShared == Cardinality(ran) * PositionsPerSymbol <= MaxPositions
=============================================================================
