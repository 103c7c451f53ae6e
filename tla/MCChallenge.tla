---------------------------- MODULE MCChallenge -----------------------------
(***************************************************************************)
(* The simulations on top of a backtest for TLC: the challenge simulator   *)
(* and the validation that calls it.  Validation takes the verdict of the  *)
(* simulator as an input, so a behaviour follows one of the two, its       *)
(* scene, and leaves the other as it begins.                               *)
(*                                                                         *)
(* The challenge runs on short lists of trades, after a prefix that earns  *)
(* the days the longer evaluations ask for; the validation on stores       *)
(* around the sizes at which folds appear, and on lists of trades whose    *)
(* order decides about ruin.                                               *)
(***************************************************************************)
EXTENDS Challenge, Validation

VARIABLE scene

MCRuleSets == {Ftmo1Step, Ftmo2Step, The5ersHyperGrowth, FundingPips1Step, FundingPipsZero,
               AlphaOne, BrightFunded, TwoStepPro, BlueGuardianInstant}

Trade(open, close, brief, pnl) == [open |-> open, close |-> close, brief |-> brief, pnl |-> pnl]

\* Quiet days: one trade a day.
Quiet(days, pnl) == [i \in 1..days |-> Trade(i, i, FALSE, pnl)]

EarnedDays == {<<>>, Quiet(2, 12), Quiet(3, 12), Quiet(5, 10), Quiet(6, 1),
             Quiet(4, 11) \o [i \in 1..3 |-> Trade(4 + i, 4 + i, FALSE, 7)]}

\* Three more trades: same day or the next, held overnight or not.
Tails(day) ==
    {<<Trade(a[1], a[1] + a[2], b1, p1), Trade(a[3], a[1] + a[2] + a[4], FALSE, p2),
       Trade(a[5], a[5], FALSE, p3)>> :
        a \in {<<day, 0, day, 0, day>>, <<day, 0, day, 0, day + 1>>, <<day, 0, day, 1, day + 1>>,
               <<day, 0, day + 1, 0, day + 1>>, <<day, 1, day, 1, day + 2>>,
               <<day, 0, day, 2, day + 3>>},
        b1 \in BOOLEAN,
        p1 \in {-17, -4, 13, 41}, p2 \in {-13, -8, 9, 25}, p3 \in {-26, -12, 8, 41}}

Sorted(s) == \A i \in 1..(Len(s) - 1) : s[i].close <= s[i + 1].close /\ s[i].open <= s[i].close

\* One symbol's trades; the trades of a second symbol over the same days behind
\* them; and the trades of a day on both sides of another's.
MCLists ==
    {s \in UNION {{p \o t : t \in Tails(Len(p) + 1)} : p \in EarnedDays} : Sorted(s)}
    \cup UNION {{p \o t : t \in {s \in Tails(Len(p) - 1) : Sorted(s)}} :
                    p \in EarnedDays \ {<<>>}}
    \cup {<<t[1], Trade(9, 9, FALSE, 2), t[2], t[3]>> : t \in {s \in Tails(1) : Sorted(s)}}

-----------------------------------------------------------------------------
Outcome(gain, loss, deep, pf, blunt, flipped, faded) ==
    [gain |-> gain, loss |-> loss, deep |-> deep, pf |-> pf, blunt |-> blunt,
     flipped |-> flipped, faded |-> faded]

MCOutcomes == {Outcome(14, 10, FALSE, 18, FALSE, FALSE, FALSE),
               Outcome(12, 0, FALSE, 9999, FALSE, FALSE, TRUE),
               Outcome(13, 10, TRUE, 15, TRUE, TRUE, FALSE)}

\* Folds of less than 200 bars; in-sample parts below the embargo; a fold of
\* 6720 bars, with one bar out of sample or none, as the double truncates; two
\* years of M15 bars (about 50,000); more than three years.
MCBarCounts == {2399, 12000, 14405, 33600, 50000, 81000, 81011}

MCTradeLists == {<<>>, <<-1300, 800, 900>>, <<-1250, 600, 600, 600>>, <<-600, -700, 1500>>,
                 <<300, 300, -200>>}

MCSymbols == <<"EURUSD", "GBPUSD">>

MCInit ==
    /\ Init /\ ValidationInit
    /\ \/ scene = "challenge" /\ caller = "gui"
       \/ scene = "validation" /\ rules = Ftmo1Step /\ list = CHOOSE l \in MCLists : TRUE

MCNext ==
    \/ scene = "challenge" /\ Next /\ UNCHANGED <<scene, validation>>
    \/ scene = "validation" /\ ValidationNext /\ UNCHANGED <<scene, vars>>

MCSpec == MCInit /\ [][MCNext]_<<scene, vars, validation>>
=============================================================================
