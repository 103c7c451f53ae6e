------------------------------ MODULE Challenge ------------------------------
(***************************************************************************)
(* The challenge simulator (gadarah-backtest/src/challenge_sim.rs): a list *)
(* of closed trades is replayed against the stages of a prop-firm          *)
(* evaluation.  One action is one turn of simulate_stage's loop.           *)
(*                                                                         *)
(* Money is in quarters of a percent of the starting balance, which is     *)
(* therefore 400: every limit of every rule set is whole.  A trade is      *)
(* [open, close, brief, pnl]: the days it was opened and closed on, and    *)
(* whether it was held shorter than a stage asks for.                      *)
(***************************************************************************)
EXTENDS Integers, Sequences, FiniteSets, FiniteSetsExt, Functions

CONSTANTS
    RuleSets,       \* the evaluations at hand, each a sequence of stages
    Lists           \* bound: the trade lists

\* Trades come in any order: run_validate sorts them by their closing
\* (phase1.rs:387), the desktop appends one symbol's trades to another's
\* (ui/backtest.rs:543, :590), and the batch of gate 4 shuffles them
\* (challenge_sim.rs:886).
ASSUME ListsAssumption ==
    Lists \subseteq Seq([open : Int, close : Int, brief : BOOLEAN, pnl : Int])

\* A stage's rules; an evaluation has at least one stage.
ASSUME RulesAssumption ==
    RuleSets \subseteq
        Seq([target : Int, daily : Int, max : Int, minDays : Nat, cap : Nat,
             minDayProfit : Int, minHold : BOOLEAN, overnight : BOOLEAN,
             dailyMode : {"EndOfDayHighWatermark", "DayStartBalance"},
             totalMode : {"StaticFromStart", "PercentOfPeak", "FixedAmountFromEndOfDayPeak",
                          "FixedAmountFromPeakLockedAtStart"},
             action : {"FailAccount", "PauseDay"}]) \ {<<>>}

Start == 400

Pct(p) == 4 * p

-----------------------------------------------------------------------------
(* The rule sets.                                                          *)

\* A stage with the daily limit taken from the higher of balance and equity at
\* the end of the day, and a floor fixed below the start.
Static(target, daily, max, days) ==
    [target |-> Pct(target), daily |-> Pct(daily), max |-> Pct(max), minDays |-> days,
     cap |-> 0, dailyMode |-> "EndOfDayHighWatermark", overnight |-> TRUE,
     totalMode |-> "StaticFromStart", action |-> "FailAccount",
     minDayProfit |-> 0, minHold |-> FALSE]

\* The daily limit taken from the balance at the start of the day.
ByBalance(stage) ==
    [stage EXCEPT !.dailyMode = "DayStartBalance", !.overnight = FALSE]

Ftmo1Step == <<[ByBalance(Static(10, 3, 10, 0)) EXCEPT
                    !.cap = 50, !.totalMode = "FixedAmountFromEndOfDayPeak"]>>

Ftmo2Step == <<Static(10, 5, 10, 4), Static(5, 5, 10, 4)>>

The5ersHyperGrowth == <<[Static(10, 3, 6, 0) EXCEPT !.action = "PauseDay"]>>

FundingPips1Step == <<Static(10, 3, 6, 3)>>

FundingPipsZero == <<[Static(0, 3, 5, 7) EXCEPT
    !.totalMode = "FixedAmountFromPeakLockedAtStart", !.minDayProfit = 1]>>

AlphaOne == <<[Static(10, 4, 6, 1) EXCEPT !.totalMode = "FixedAmountFromPeakLockedAtStart"]>>

BrightFunded == <<[Static(8, 5, 10, 5) EXCEPT !.minHold = TRUE],
                  [Static(5, 5, 10, 5) EXCEPT !.minHold = TRUE]>>

TwoStepPro == <<[ByBalance(Static(6, 3, 6, 3)) EXCEPT !.cap = 45]>>

BlueGuardianInstant ==
    <<[ByBalance(Static(0, 4, 6, 0)) EXCEPT !.totalMode = "PercentOfPeak"]>>

-----------------------------------------------------------------------------
VARIABLES
    rules,      \* the evaluation
    list,       \* the trades
    pc,         \* "stage", "loop", "done"
    offset,     \* trade_offset: trades no later stage will see
    st,         \* the running stage: the locals of simulate_stage
    results     \* stage_results

vars == <<rules, list, pc, offset, st, results>>

Stage == rules[Len(results) + 1]

Bigger(x, y)  == IF x < y THEN y ELSE x
Smaller(x, y) == IF x < y THEN x ELSE y

-----------------------------------------------------------------------------
(* Anchors.                                                                *)

\* The trades of the stage that are open when day begins.
Overnight(from, day) ==
    {i \in from..Len(list) : list[i].open < day /\ list[i].close >= day}

PnlOf(indices) == SumFunctionOnSet([i \in DOMAIN list |-> list[i].pnl], indices)

\* end_of_day_high_watermark
DailyReference(rule, from, day, balance) ==
    IF rule.dailyMode = "DayStartBalance" \/ ~rule.overnight THEN balance
    ELSE Bigger(balance, balance + PnlOf(Overnight(from, day)))

\* total_dd_breach_floor, in hundredths so that a share of the peak is whole.
Floor100(rule, peak) ==
    CASE rule.totalMode = "StaticFromStart" -> 100 * (Start - rule.max)
      [] rule.totalMode = "PercentOfPeak" -> 100 * peak - peak * (rule.max \div 4)
      [] rule.totalMode = "FixedAmountFromPeakLockedAtStart" ->
             100 * Smaller(peak - rule.max, Start)
      [] OTHER -> 100 * (peak - rule.max)

Peak(rule, s) == IF rule.totalMode = "FixedAmountFromEndOfDayPeak" THEN s.eodPeak ELSE s.hwm

-----------------------------------------------------------------------------
(* Day counts and the best-day rule.                                       *)

DayPnl(s, day) == IF day \in DOMAIN s.pnl THEN s.pnl[day] ELSE 0

\* qualifying_trading_days
QualifyingDays(rule, s) ==
    Cardinality({day \in s.eligible : DayPnl(s, day) >= rule.minDayProfit})

\* consistency_check
ConsistencyMet(rule, s) ==
    LET gains == {day \in DOMAIN s.pnl : s.pnl[day] > 0}
        total == SumFunctionOnSet(s.pnl, gains)
    IN  rule.cap <= 0 \/ \A day \in gains : 100 * s.pnl[day] <= rule.cap * total

-----------------------------------------------------------------------------
(* One turn of the loop.                                                   *)

\* The day rolls over when a trade closes on another day than the last one.
Rolled(rule, s, day) ==
    IF day = s.day THEN s
    ELSE [s EXCEPT !.eodPeak = IF rule.totalMode = "FixedAmountFromEndOfDayPeak"
                               THEN Bigger(@, s.balance) ELSE @,
                   !.day = day,
                   !.reference = DailyReference(rule, s.from, day, s.balance)]

\* Mutation of Booked: an overnight trade's day counts only if opened then.
BookedByOpen(rule, s, t) ==
    [s EXCEPT !.eligible = IF rule.minHold /\ t.brief THEN @ ELSE @ \cup {t.open},
              !.pnl = [day \in DOMAIN @ \cup {t.close} |->
                          IF day = t.close THEN DayPnl(s, day) + t.pnl ELSE @[day]],
              !.balance = @ + t.pnl,
              !.hwm = Bigger(@, s.balance + t.pnl)]

Booked(rule, s, t) ==
    [s EXCEPT !.eligible = IF rule.minHold /\ t.brief THEN @ ELSE @ \cup {t.close},
              !.pnl = [day \in DOMAIN @ \cup {t.close} |->
                          IF day = t.close THEN DayPnl(s, day) + t.pnl ELSE @[day]],
              !.balance = @ + t.pnl,
              !.hwm = Bigger(@, s.balance + t.pnl)]

HitsDailyLimit(rule, s) == s.reference - s.balance >= rule.daily

AtFloor(rule, s) == 100 * s.balance <= Floor100(rule, Peak(rule, s))

Judged(rule, s) ==
    [s EXCEPT !.hit = @ \/ HitsDailyLimit(rule, s),
              !.dailyBreach = HitsDailyLimit(rule, s) /\ rule.action = "FailAccount",
              !.maxBreach = AtFloor(rule, s)]

Breached(s) == s.dailyBreach \/ s.maxBreach

\* The trades after i that close on the same day, in a row.
RestOfDay(i) ==
    {j \in (i + 1)..Len(list) : \A k \in (i + 1)..j : list[k].close = list[i].close}

\* The flag that a limit was hit is never taken back within a stage.
Paused(rule, s) == rule.action = "PauseDay" /\ s.hit

ReachesTarget(rule, s) == s.balance - Start >= rule.target

\* A target once reached counts, though the balance fell back.
Passes(rule, s) ==
    s.target /\ QualifyingDays(rule, s) >= rule.minDays /\ ConsistencyMet(rule, s)

NewStage(rule, from) ==
    LET day == IF from <= Len(list) THEN list[from].close ELSE 0
    IN  [from |-> from, next |-> from, balance |-> Start, hwm |-> Start, eodPeak |-> Start,
         day |-> day, reference |-> DailyReference(rule, from, day, Start),
         hit |-> FALSE, dailyBreach |-> FALSE, maxBreach |-> FALSE, target |-> FALSE,
         passed |-> FALSE, eligible |-> {}, pnl |-> <<>>, skipped |-> {}, completion |-> 0]

Init ==
    /\ rules \in RuleSets /\ list \in Lists
    /\ pc = "stage" /\ offset = 0
    /\ st = NewStage(rules[1], 1)
    /\ results = <<>>

Running == pc = "loop" /\ st.next <= Len(list) /\ ~st.passed /\ ~Breached(st)

BeginStage ==
    /\ pc = "stage"
    /\ st' = NewStage(Stage, offset + 1)
    /\ pc' = "loop"
    /\ UNCHANGED <<rules, list, offset, results>>

Turn ==
    LET i      == st.next
        t      == list[i]
        judged == Judged(Stage, Booked(Stage, Rolled(Stage, st, t.close), t))
        rest   == IF Paused(Stage, judged) THEN RestOfDay(i) ELSE {}
        after  == [judged EXCEPT !.next = i + 1 + Cardinality(rest),
                                 !.skipped = @ \cup rest,
                                 !.target = @ \/ ReachesTarget(Stage, judged)]
    IN  /\ Running
        /\ st' = IF Breached(judged)
                 THEN [judged EXCEPT !.next = i + 1, !.completion = t.close]
                 ELSE IF Passes(Stage, after)
                 THEN [after EXCEPT !.passed = TRUE, !.completion = t.close]
                 ELSE after
        /\ UNCHANGED <<rules, list, pc, offset, results>>

\* The trades behind i that close on day, in a row: they belong to no stage.
TailOfDay(i, day) ==
    {j \in (i + 1)..Len(list) : \A k \in (i + 1)..j : list[k].close = day}

\* Mutation of Handover: the next stage starts with the next trade.
HandoverAtOnce == st.next - 1

\* A stage passed hands over at the next trading day.
Handover ==
    IF st.passed THEN st.next - 1 + Cardinality(TailOfDay(st.next - 1, st.completion))
    ELSE st.next - 1

EndStage ==
    /\ pc = "loop" /\ ~Running
    /\ results' = Append(results,
           [passed |-> st.passed, target |-> st.target, hit |-> st.hit,
            breached |-> Breached(st), action |-> Stage.action,
            daysMet |-> QualifyingDays(Stage, st) >= Stage.minDays,
            consistent |-> ConsistencyMet(Stage, st),
            from |-> st.from, to |-> st.next - 1, completion |-> st.completion,
            skipped |-> st.skipped])
    /\ offset' = Handover
    /\ pc' = IF st.passed /\ Len(results) + 1 < Len(rules) THEN "stage" ELSE "done"
    /\ UNCHANGED <<rules, list, st>>

Next == BeginStage \/ Turn \/ EndStage

Spec == Init /\ [][Next]_vars

-----------------------------------------------------------------------------
(* The verdict.                                                            *)

ChallengePassed == Len(results) = Len(rules) /\ results[Len(results)].passed

\* first_failure_reason: the first stage not passed names its own reason.
Reason(r) ==
    IF r.breached THEN "breach"
    ELSE IF r.action = "PauseDay" /\ r.hit THEN "none"
    ELSE IF ~r.target THEN "target"
    ELSE IF ~r.daysMet THEN "days"
    ELSE IF ~r.consistent THEN "consistency" ELSE "none"

-----------------------------------------------------------------------------
(* Properties                                                              *)

\* What a stage that starts at trade from would show after trade k, read off
\* the list of trades instead of the running account.
Balance(from, k) == Start + PnlOf(from..k)

\* The list is in the order of closing.
InOrder == \A i, j \in DOMAIN list : i <= j => list[i].close <= list[j].close

\* The rules speak of days.  By the rows of the list a day lasts as long as
\* the trades close on it one after the other; by the calendar every trade of
\* its date belongs to it.
Readings == {"rows"} \cup (IF InOrder THEN {"calendar"} ELSE {})

\* The first trade of the day of trade k,
DayStart(reading, from, k) ==
    Min({i \in from..k :
            IF reading = "calendar" THEN list[i].close = list[k].close
            ELSE \A j \in i..k : list[j].close = list[k].close})

\* and the last trades of the days before it.
LastTrades(reading, from, k) ==
    IF reading = "calendar"
    THEN {i \in from..k : \A j \in (i + 1)..k : list[j].close # list[i].close}
             \ {i \in from..k : list[i].close = list[k].close}
    ELSE {i \in from..(k - 1) : list[i + 1].close # list[i].close}

RulePeak(reading, rule, from, k) ==
    IF rule.totalMode = "FixedAmountFromEndOfDayPeak"
    THEN Max({Start} \cup {Balance(from, j) : j \in LastTrades(reading, from, k)})
    ELSE Max({Start} \cup {Balance(from, j) : j \in from..k})

RuleBreach(reading, rule, from, k) ==
    LET first == DayStart(reading, from, k)
        anchor == DailyReference(rule, from, list[k].close, Balance(from, first - 1))
    IN  \/ anchor - Balance(from, k) >= rule.daily
        \/ 100 * Balance(from, k) <= Floor100(rule, RulePeak(reading, rule, from, k))

RuleDays(rule, from, k) ==
    {list[i].close : i \in {j \in from..k : ~(rule.minHold /\ list[j].brief)}}

RuleDayPnl(from, k, day) == PnlOf({i \in from..k : list[i].close = day})

RulePass(rule, from, k) ==
    LET days  == {list[i].close : i \in from..k}
        gain  == [day \in days |-> Bigger(RuleDayPnl(from, k, day), 0)]
        total == SumFunction(gain)
    IN  /\ \E j \in from..k : Balance(from, j) - Start >= rule.target
        /\ Cardinality({day \in RuleDays(rule, from, k) :
                            RuleDayPnl(from, k, day) >= rule.minDayProfit}) >= rule.minDays
        /\ rule.cap > 0 => \A day \in days : 100 * gain[day] <= rule.cap * total

\* A stage that ended as r passed at the first trade that meets target, day
\* count and best-day rule together with no limit broken on the way, and was
\* breached at the first broken limit.
EndsByRules(reading, rule, r) ==
    LET span == r.from..Len(list)
    IN  /\ r.passed <=> \E k \in span :
               /\ RulePass(rule, r.from, k)
               /\ \A j \in r.from..k : ~RuleBreach(reading, rule, r.from, j)
        /\ r.breached <=> \E k \in span :
               /\ RuleBreach(reading, rule, r.from, k)
               /\ \A j \in r.from..(k - 1) : ~RulePass(rule, r.from, j)

FailsAtLimits(n) == results[n].action = "FailAccount"

\* Every finished stage that does not pause days ends as the rules say, by the
\* rows of the list whatever their order, and by the calendar when they are in
\* the order of closing.  A challenge that failed otherwise says why: the loop
\* cannot run out of trades with target, days and best-day rule all met.
VerdictMatchesRules ==
  /\ pc = "done" /\ ~ChallengePassed =>
        LET r == results[Len(results)]
        IN  r.action = "PauseDay" \/ Reason(r) # "none"
  /\ \A n \in 1..Len(results) : FailsAtLimits(n) =>
        \A reading \in Readings : EndsByRules(reading, rules[n], results[n])

\* No trade counts in two stages, and a stage does not start on the day the
\* stage before it was passed on; in the order of closing it starts on a later
\* day than every stage before it was passed on.
StagesApart ==
    \A m, n \in 1..Len(results) :
        m < n => /\ results[m].to < results[n].from
                 /\ results[n].from <= Len(list) =>
                        /\ n = m + 1 =>
                               list[results[n].from].close # results[m].completion
                        /\ InOrder =>
                               list[results[n].from].close > results[m].completion

\* Violated: the verdict is the one the calendar gives also for the lists of
\* the desktop and of gate 4.  Where a date comes back, the day's reference is
\* taken anew, and a daily limit broken over the whole date goes unseen.
VerdictByCalendar ==
    \A n \in 1..Len(results) :
        FailsAtLimits(n) => EndsByRules("calendar", rules[n], results[n])

\* Violated: "A later stage begins on the next trading day after the prior
\* stage passes" (challenge_sim.rs:424), on those lists: it may begin on an
\* earlier one.
NextTradingDay ==
    \A n \in 2..Len(results) :
        results[n].from <= Len(list) =>
            list[results[n].from].close > results[n - 1].completion

\* Violated: the daily limit "only pauses the day" (challenge_sim.rs): trades are
\* skipped only right after the day's loss limit was hit.
PauseEndsWithDay ==
    [][st'.skipped # st.skipped /\ st'.from = st.from
        => HitsDailyLimit(Stage, st')]_vars
=============================================================================
