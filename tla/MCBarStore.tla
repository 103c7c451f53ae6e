----------------------------- MODULE MCBarStore ------------------------------
(* BarStore on a Friday, a Saturday and a Sunday of six minutes in three    *)
(* hours: Friday's last hour has no tick, Sunday's market opens late.       *)
EXTENDS BarStore

MCTimeframes == {"M1", "H1", "D1"}
MCSeconds == [tf \in MCTimeframes |-> CASE tf = "M1" -> 1 [] tf = "H1" -> 2 [] tf = "D1" -> 6]

\* Minute 3 has ticks without volume.
MCMarket == (0 :> 3) @@ (1 :> 1) @@ (2 :> 2) @@ (3 :> 0) @@ (17 :> 2)

MCWeekday == (0 :> "Fri") @@ (1 :> "Sat") @@ (2 :> "Sun")

MCFetchLists == {<<"H1">>, <<"D1", "M1">>}

\* Exports of a broker: minutes with an hour missing, hour bars of which one is
\* out of step, a file with a bad line, a file whose name is no timeframe.
Minute(m) == Row({m}, m, 1, FALSE, FALSE)
Hour(t) == Row({t, t + 1}, t + 1, 4, FALSE, FALSE)
Files == [holes |-> [tf |-> "M1", rows |-> (1 :> Minute(1)) @@ (4 :> Minute(4)), bad |-> FALSE],
          hours |-> [tf |-> "H1", rows |-> (2 :> Hour(2)) @@ (11 :> Hour(11)) @@ (16 :> Hour(16)),
                     bad |-> FALSE],
          broken |-> [tf |-> "D1", rows |-> (0 :> Row({0, 3}, 3, 5, FALSE, FALSE)), bad |-> TRUE],
          stray |-> [tf |-> Unknown, rows |-> <<>>, bad |-> FALSE],
          outage |-> [tf |-> "M1", rows |-> (0 :> Minute(0)) @@ (10 :> Minute(10)), bad |-> FALSE]]

MCDirectories == {<<Files.hours, Files.broken>>, <<Files.holes, Files.hours>>,
                  <<Files.holes, Files.stray>>}

\* Daily bars with a hole from a Friday to the Monday ten days later.
OutageWeekday == (0 :> "Fri") @@ (10 :> "Mon") @@ [d \in 1..9 |-> "other"]
OutageTimeframes == {"M1"}
OutageSeconds == [tf \in OutageTimeframes |-> 1]
OutageMarket == <<>>
OutageDirectories == {<<Files.outage>>}
OutageDerivations == {[from |-> "M1", to |-> <<>>]}
Nothing == {}

MCDerivations == {NoPlan, [from |-> "M1", to |-> <<"H1", "M1", "D1">>]}

\* The last one goes the wrong way.
MCAggregations == {<<"M1", "H1">>, <<"H1", "D1">>, <<"H1", "M1">>}

MCCleaningLists == {<<"D1", "H1", "M1">>}
=============================================================================
