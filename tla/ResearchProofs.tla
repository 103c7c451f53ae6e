--------------------------- MODULE ResearchProofs ---------------------------
(***************************************************************************)
(* What a backtest rests on: the bar store it reads, the folds it is       *)
(* validated on, and the challenge that its trades are played through.     *)
(*                                                                         *)
(* The stages of a simulated challenge are kept apart, for every set of    *)
(* rules and every list of trades, in whatever order.  The invariant       *)
(* follows the place in the list: no finished stage reaches it, and the    *)
(* trade found there, if any, closes on another day than the last of them  *)
(* was completed on; in the order of closing, on a later day than each.    *)
(*                                                                         *)
(* A stage that fails at its limits is judged as the rules say, for every  *)
(* set and list too.  The invariant says that the running account is what  *)
(* the trades so far come to when they are read off the rows of the list:  *)
(* balance, peaks, the reference of the day, the days that count and the   *)
(* result of each.  The lemmas say how each of these readings changes by   *)
(* one trade, and that the rows and the calendar agree on the days of a    *)
(* list in the order of closing.                                           *)
(*                                                                         *)
(* The folds of the walk-forward test share no bar and keep the embargo,   *)
(* for every number of bars, every number of folds and every way the       *)
(* in-sample share is truncated: the invariant is about the windows that   *)
(* are still to be run, and says that there are none outside the test.     *)
(*                                                                         *)
(* Every ruined path of the Monte Carlo test is seen in the drawdown and   *)
(* in the loss, for every list of trades, block length and draw.           *)
(*                                                                         *)
(* A row of the store knows the future only if it goes back to a file that *)
(* does not fit its timeframe or to an aggregation into a finer one, for   *)
(* every set of timeframes that divide each other, all files, all pairs of *)
(* timeframes and every order of the writes.  The invariant adds that any  *)
(* other row starts where a bar of its timeframe does, which is what an    *)
(* aggregation needs of it, and says both of what a command has read and   *)
(* not yet written, beside a download that goes on.                        *)
(***************************************************************************)
EXTENDS Challenge, Validation, BarStore, Sums, FiniteSetTheorems, WellFoundedInduction,
        SequenceTheorems, TLAPS

\* The indices behind i, up to n, before the first one in Stops.
Stretch(i, n, Stops) == {j \in (i + 1)..n : \A k \in (i + 1)..j : k \notin Stops}

\* They form an interval, so their number says how far they reach.
LEMMA Prefix ==
  ASSUME NEW i \in Nat, NEW n \in Nat, i <= n, NEW Stops
  PROVE  /\ Cardinality(Stretch(i, n, Stops)) \in Nat
         /\ i + Cardinality(Stretch(i, n, Stops)) <= n
         /\ \A k \in (i + 1)..(i + Cardinality(Stretch(i, n, Stops))) : k \notin Stops
         /\ i + Cardinality(Stretch(i, n, Stops)) + 1 <= n =>
                i + Cardinality(Stretch(i, n, Stops)) + 1 \in Stops
<1> DEFINE S == {j \in (i + 1)..n : \A k \in (i + 1)..j : k \notin Stops}
<1>3. Stretch(i, n, Stops) = S
  BY DEF Stretch
<1> SUFFICES /\ Cardinality(S) \in Nat
             /\ i + Cardinality(S) <= n
             /\ \A k \in (i + 1)..(i + Cardinality(S)) : k \notin Stops
             /\ i + Cardinality(S) + 1 <= n => i + Cardinality(S) + 1 \in Stops
  <2> HIDE DEF S
  <2> QED
    BY <1>3
<1> DEFINE T == {j \in (i + 1)..n : j \in Stops}
<1>1. CASE T = {}
  <2>1. S = (i + 1)..n
    BY <1>1
  <2>2. Cardinality((i + 1)..n) = IF i + 1 > n THEN 0 ELSE n - (i + 1) + 1
    BY FS_Interval
  <2>5. Cardinality(S) = Cardinality((i + 1)..n)
    BY <2>1, Zenon
  <2>3. Cardinality(S) = n - i
    BY <2>2, <2>5
  <2>4. \A k \in (i + 1)..n : k \notin Stops
    BY <1>1
  <2> QED
    BY <2>3, <2>4
<1>2. CASE T # {}
  <2> DEFINE R == OpToRel(<, Nat)
  <2>1. T \subseteq Nat
    OBVIOUS
  <2>2. IsWellFoundedOn(R, Nat)
    BY NatLessThanWellFounded
  <2>3. PICK f \in T : \A y \in T : ~(<<y, f>> \in R)
    <3> HIDE DEF T, R
    <3> QED
      BY <1>2, <2>1, <2>2, WFMin
  <2>4. R = {p \in Nat \X Nat : p[1] < p[2]}
    BY DEF OpToRel
  <2>5. \A y \in T : f <= y
    <3> SUFFICES ASSUME NEW y \in T, y < f PROVE FALSE
      BY <2>1
    <3>1. <<y, f>> \in {p \in Nat \X Nat : p[1] < p[2]}
      BY <2>1
    <3> QED
      BY <2>3, <2>4, <3>1
  <2>6. S = (i + 1)..(f - 1)
    BY <2>5
  <2>7. Cardinality((i + 1)..(f - 1)) =
            IF i + 1 > f - 1 THEN 0 ELSE f - 1 - (i + 1) + 1
    BY FS_Interval
  <2>10. Cardinality(S) = Cardinality((i + 1)..(f - 1))
    BY <2>6, Zenon
  <2>8. Cardinality(S) = f - 1 - i
    <3>1. f \in Int /\ i + 1 <= f
      OBVIOUS
    <3> QED
      BY <2>7, <2>10, <3>1
  <2>9. \A k \in (i + 1)..(f - 1) : k \notin Stops
    BY <2>5
  <2> QED
    <3>1. f \in T /\ i + Cardinality(S) = f - 1
      BY <2>8
    <3>2. f \in Int /\ f <= n /\ f \in Stops /\ i + 1 <= f
      OBVIOUS
    <3> HIDE DEF T
    <3>3. Cardinality(S) \in Nat
      BY <2>8, <3>2
    <3> QED
      BY <2>9, <3>1, <3>2, <3>3
<1> QED
  BY <1>1, <1>2

-----------------------------------------------------------------------------
Fields == {"from", "next", "balance", "hwm", "eodPeak", "day", "reference", "hit",
           "dailyBreach", "maxBreach", "target", "passed", "eligible", "pnl",
           "skipped", "completion"}

AfterTrade(rule, s, t) == Judged(rule, Booked(rule, Rolled(rule, s, t.close), t))

\* Booking a trade and judging it leaves alone where the stage is.
LEMMA Kept ==
  ASSUME NEW rule, NEW t, NEW s, DOMAIN s = Fields
  PROVE  /\ DOMAIN AfterTrade(rule, s, t) = Fields
         /\ AfterTrade(rule, s, t).from = s.from
         /\ AfterTrade(rule, s, t).passed = s.passed
         /\ AfterTrade(rule, s, t).completion = s.completion
<1> DEFINE r == Rolled(rule, s, t.close)
           b == Booked(rule, r, t)
           u == Judged(rule, b)
<1>1. /\ DOMAIN r = Fields
      /\ r.from = s.from /\ r.next = s.next /\ r.passed = s.passed
      /\ r.completion = s.completion
  BY DEF Rolled, Fields
<1>2. /\ DOMAIN b = Fields
      /\ b.from = r.from /\ b.next = r.next /\ b.passed = r.passed
      /\ b.completion = r.completion
  <2> HIDE DEF r
  <2> QED
    BY <1>1 DEF Booked, Fields
<1>3. /\ DOMAIN u = Fields
      /\ u.from = b.from /\ u.next = b.next /\ u.passed = b.passed
      /\ u.completion = b.completion
  <2> HIDE DEF b
  <2> QED
    BY <1>2 DEF Judged, Fields
<1>4. AfterTrade(rule, s, t) = u
  BY DEF AfterTrade
<1> QED
  <2> HIDE DEF u, b, r
  <2> QED
    BY <1>1, <1>2, <1>3, <1>4

\* A sequence of anything stays one when something is appended.
LEMMA AppendAny ==
  ASSUME NEW S, NEW s \in Seq(S), NEW e
  PROVE  /\ Append(s, e) \in Seq(S \cup {e})
         /\ Len(s) \in Nat /\ Len(Append(s, e)) = Len(s) + 1
         /\ \A n \in 1..Len(s) : Append(s, e)[n] = s[n]
         /\ Append(s, e)[Len(s) + 1] = e
<1>1. s \in Seq(S \cup {e})
  <2>1. s \in [1..Len(s) -> S \cup {e}] /\ Len(s) \in Nat
    OBVIOUS
  <2> QED
    BY <2>1
<1> QED
  BY <1>1

\* A list is a sequence of trades, and its order is what InOrder says.
LEMMA ListFacts ==
  ASSUME NEW l \in Lists
  PROVE  /\ Len(l) \in Nat
         /\ \A i \in 1..Len(l) : l[i].close \in Int
         /\ l = list /\ InOrder =>
                \A i, j \in 1..Len(l) : i <= j => l[i].close <= l[j].close
<1> DEFINE Trades == [open : Int, close : Int, brief : BOOLEAN, pnl : Int]
<1>1. l \in Seq(Trades)
  BY ListsAssumption
<1>2. \A t \in Trades : t.close \in Int
  OBVIOUS
<1>3. Len(l) \in Nat /\ DOMAIN l = 1..Len(l) /\ \A i \in 1..Len(l) : l[i] \in Trades
  <2> HIDE DEF Trades
  <2> QED
    BY <1>1
<1> QED
  <2> HIDE DEF Trades
  <2> QED
    BY <1>2, <1>3 DEF InOrder

-----------------------------------------------------------------------------
\* Where the running stage is in the list.
InStage ==
    /\ st.from = offset + 1 /\ st.next \in st.from..(Len(list) + 1)
    /\ st.passed \in BOOLEAN /\ st.completion \in Int
    /\ st.passed => st.from < st.next /\ st.completion = list[st.next - 1].close

\* The finished stages lie before the place in the list, the last of them on
\* another day, and all on earlier days in the order of closing.
Behind ==
    \A n \in 1..Len(results) :
        /\ results[n].to \in Int /\ results[n].completion \in Int
        /\ results[n].to <= offset
        /\ offset < Len(list) =>
               /\ n = Len(results) => list[offset + 1].close # results[n].completion
               /\ InOrder => list[offset + 1].close > results[n].completion

Placed ==
    /\ list \in Lists
    /\ \E S : results \in Seq(S)
    /\ offset \in 0..Len(list)
    /\ DOMAIN st = Fields
    /\ pc = "loop" => InStage
    /\ pc # "done" => Behind
    /\ StagesApart

LEMMA NewPlace ==
  ASSUME NEW rule, NEW from
  PROVE  LET s == NewStage(rule, from)
         IN  /\ DOMAIN s = Fields
             /\ s.from = from /\ s.next = from /\ s.passed = FALSE /\ s.completion = 0
BY DEF NewStage, Fields

LEMMA InitPlaced == Init => Placed
<1> SUFFICES ASSUME Init PROVE Placed
  OBVIOUS
<1>1. list \in Lists /\ offset = 0 /\ pc = "stage" /\ results = <<>>
  BY DEF Init
<1>2. Len(list) \in Nat
  BY <1>1, ListFacts
<1>3. DOMAIN st = Fields
  BY NewPlace DEF Init
<1>4. <<>> \in Seq({}) /\ Len(<<>>) = 0
  OBVIOUS
<1>5. \E S : results \in Seq(S)
  BY <1>1, <1>4
<1>6. Behind /\ StagesApart
  BY <1>1, <1>4 DEF Behind, StagesApart
<1> QED
  BY <1>1, <1>2, <1>3, <1>5, <1>6 DEF Placed

LEMMA BeginPlaced == Placed /\ BeginStage => Placed'
<1> SUFFICES ASSUME Placed, BeginStage PROVE Placed'
  OBVIOUS
<1>1. /\ st' = NewStage(Stage, offset + 1) /\ pc = "stage" /\ pc' = "loop"
      /\ UNCHANGED <<list, offset, results>>
  BY DEF BeginStage
<1>2. /\ DOMAIN st' = Fields
      /\ st'.from = offset + 1 /\ st'.next = offset + 1
      /\ st'.passed = FALSE /\ st'.completion = 0
  BY <1>1, NewPlace
<1>3. list \in Lists /\ offset \in 0..Len(list) /\ Behind /\ StagesApart
  BY <1>1 DEF Placed
<1>4. Len(list) \in Nat
  BY <1>3, ListFacts
<1>5. InStage'
  <2>1. offset \in Int /\ offset + 1 <= Len(list) + 1
    BY <1>3, <1>4
  <2>2. offset + 1 \in (offset + 1)..(Len(list) + 1)
    BY <1>4, <2>1
  <2>3. list' = list /\ offset' = offset
    BY <1>1
  <2>4. /\ st'.from = offset' + 1 /\ st'.next \in st'.from..(Len(list') + 1)
        /\ st'.completion \in Int
    BY <1>2, <2>2, <2>3
  <2>5. ~ st'.passed /\ st'.passed \in BOOLEAN
    BY <1>2
  <2> QED
    BY <2>4, <2>5 DEF InStage
<1>6. Behind' /\ StagesApart'
  BY <1>1, <1>3 DEF Behind, StagesApart, InOrder
<1> QED
  BY <1>1, <1>2, <1>3, <1>5, <1>6 DEF Placed

\* What stays as it is carries its part of the invariant along.
LEMMA FinishedKept ==
  Placed /\ pc # "done" /\ UNCHANGED <<list, offset, results>> => Behind' /\ StagesApart'
BY DEF Placed, Behind, StagesApart, InOrder

LEMMA TurnPlaced == Placed /\ Turn => Placed'
<1> SUFFICES ASSUME Placed, Turn PROVE Placed'
  OBVIOUS
<1> DEFINE i == st.next
           t == list[i]
           judged == Judged(Stage, Booked(Stage, Rolled(Stage, st, t.close), t))
           rest == IF Paused(Stage, judged) THEN RestOfDay(i) ELSE {}
           after == [judged EXCEPT !.next = i + 1 + Cardinality(rest),
                                   !.skipped = @ \cup rest,
                                   !.target = @ \/ ReachesTarget(Stage, judged)]
           broken == [judged EXCEPT !.next = i + 1, !.completion = t.close]
           over == [after EXCEPT !.passed = TRUE, !.completion = t.close]
<1>1. /\ pc = "loop" /\ i <= Len(list) /\ ~ st.passed
      /\ st' \in {broken, over, after}
      /\ UNCHANGED <<list, pc, offset, results>>
  BY DEF Turn, Running
<1>2. /\ list \in Lists /\ offset \in 0..Len(list) /\ DOMAIN st = Fields /\ InStage
      /\ \E S : results \in Seq(S)
  BY <1>1 DEF Placed
<1>3. /\ Len(list) \in Nat /\ \A k \in 1..Len(list) : list[k].close \in Int
  BY <1>2, ListFacts
<1>4. /\ i \in 1..Len(list) /\ st.from = offset + 1 /\ st.from <= i /\ offset \in Nat
      /\ st.passed = FALSE /\ st.completion \in Int
  BY <1>1, <1>2, <1>3 DEF InStage
<1>5. /\ DOMAIN judged = Fields
      /\ judged.from = st.from /\ judged.passed = FALSE
      /\ judged.completion = st.completion
  <2>1. DOMAIN st = Fields
    BY <1>2
  <2>2. judged = AfterTrade(Stage, st, t)
    BY DEF AfterTrade
  <2> HIDE DEF judged, t
  <2> QED
    BY <1>4, <2>1, <2>2, Kept
<1>6. /\ Cardinality(rest) \in Nat /\ i + Cardinality(rest) <= Len(list)
      /\ \A k \in (i + 1)..(i + Cardinality(rest)) : list[k].close = t.close
  <2> HIDE DEF judged
  <2>1. CASE Paused(Stage, judged)
    <3> DEFINE Stops == {k \in 1..Len(list) : list[k].close # t.close}
    <3>1. rest = Stretch(i, Len(list), Stops)
      <4>1. \A j \in (i + 1)..Len(list) : \A k \in (i + 1)..j : k \in 1..Len(list)
        BY <1>3, <1>4
      <4> QED
        BY <2>1, <4>1 DEF RestOfDay, Stretch
    <3>2. i \in Nat /\ Len(list) \in Nat /\ i <= Len(list)
      BY <1>3, <1>4
    <3>3. /\ Cardinality(rest) \in Nat /\ i + Cardinality(rest) <= Len(list)
          /\ \A k \in (i + 1)..(i + Cardinality(rest)) : k \notin Stops
      <4> HIDE DEF i, rest, Stops
      <4> QED
        BY <3>1, <3>2, Prefix
    <3>4. \A k \in (i + 1)..(i + Cardinality(rest)) : k \in 1..Len(list)
      <4> HIDE DEF rest
      <4> QED
        BY <1>3, <1>4, <3>3
    <3> QED
      BY <3>3, <3>4
  <2>2. CASE ~ Paused(Stage, judged)
    <3>1. rest = {}
      BY <2>2
    <3>2. Cardinality(rest) = 0
      BY <3>1, FS_EmptySet
    <3>3. \A k \in (i + 1)..(i + 0) : FALSE
      BY <1>4
    <3> QED
      BY <1>3, <1>4, <3>2, <3>3
  <2> QED
    BY <2>1, <2>2
<1>7. DOMAIN st' = Fields /\ InStage'
  <2> DEFINE c == Cardinality(rest)
  <2>1. /\ DOMAIN broken = Fields /\ broken.from = st.from /\ broken.next = i + 1
        /\ broken.passed = FALSE /\ broken.completion = t.close
    <3> HIDE DEF judged
    <3> QED
      BY <1>5 DEF Fields
  <2>2. /\ DOMAIN after = Fields /\ after.from = st.from /\ after.next = i + 1 + c
        /\ after.passed = FALSE /\ after.completion = st.completion
    <3> HIDE DEF judged, rest
    <3> QED
      BY <1>5 DEF Fields
  <2>3. /\ DOMAIN over = Fields /\ over.from = st.from /\ over.next = i + 1 + c
        /\ over.passed = TRUE /\ over.completion = t.close
    <3> HIDE DEF after
    <3> QED
      BY <2>2 DEF Fields
  <2>4. c \in Nat /\ i + c <= Len(list) /\ t.close \in Int /\ list[i + c].close = t.close
    <3> HIDE DEF rest
    <3>1. CASE c = 0
      BY <1>3, <1>4, <1>6, <3>1
    <3>2. CASE c # 0
      <4>1. i + c \in (i + 1)..(i + c)
        BY <1>4, <1>6, <3>2
      <4> QED
        BY <1>3, <1>4, <1>6, <4>1
    <3> QED
      BY <3>1, <3>2
  <2>5. list' = list /\ offset' = offset
    BY <1>1
  <2> HIDE DEF broken, after, over, c
  <2>6. CASE st' = broken
    <3>1. i + 1 \in st'.from..(Len(list) + 1)
      BY <1>3, <1>4, <2>1, <2>6
    <3>2. ~ st'.passed /\ st'.passed \in BOOLEAN
      BY <2>1, <2>6
    <3> QED
      BY <1>4, <2>1, <2>4, <2>5, <2>6, <3>1, <3>2 DEF InStage
  <2>7. CASE st' = after
    <3>1. i + 1 + c \in st'.from..(Len(list) + 1)
      BY <1>3, <1>4, <2>2, <2>4, <2>7
    <3>2. ~ st'.passed /\ st'.passed \in BOOLEAN
      BY <2>2, <2>7
    <3> QED
      BY <1>4, <2>2, <2>5, <2>7, <3>1, <3>2 DEF InStage
  <2>8. CASE st' = over
    <3>1. i + 1 + c \in st'.from..(Len(list) + 1) /\ i + 1 + c - 1 = i + c
      BY <1>3, <1>4, <2>3, <2>4, <2>8
    <3>2. st'.from < st'.next /\ st'.completion = list[st'.next - 1].close
      <4>1. st'.next - 1 = i + c /\ st'.completion = t.close /\ st'.from < st'.next
        BY <1>4, <2>3, <2>4, <2>8, <3>1
      <4> QED
        BY <2>4, <4>1
    <3>3. st'.passed \in BOOLEAN
      BY <2>3, <2>8
    <3> QED
      BY <1>4, <2>3, <2>4, <2>5, <2>8, <3>1, <3>2, <3>3 DEF InStage
  <2> QED
    BY <1>1, <2>1, <2>2, <2>3, <2>6, <2>7, <2>8
<1>8. Behind' /\ StagesApart'
  BY <1>1, FinishedKept
<1> QED
  BY <1>1, <1>2, <1>7, <1>8 DEF Placed

-----------------------------------------------------------------------------
\* The stage's last trade and the handover after it.
LEMMA HandsOver ==
  ASSUME Placed, pc = "loop"
  PROVE  /\ Handover \in Nat /\ offset <= Handover /\ Handover <= Len(list)
         /\ st.next - 1 \in Int /\ st.next - 1 <= Handover
         /\ st.passed /\ Handover < Len(list) =>
                /\ list[Handover + 1].close # st.completion
                /\ InOrder => list[Handover + 1].close > st.completion
<1> DEFINE c == st.next - 1
           Stops == {k \in 1..Len(list) : list[k].close # st.completion}
<1>1. list \in Lists /\ offset \in 0..Len(list) /\ InStage
  BY DEF Placed
<1>2. /\ Len(list) \in Nat
      /\ \A k \in 1..Len(list) : list[k].close \in Int
      /\ InOrder => \A j, k \in 1..Len(list) : j <= k => list[j].close <= list[k].close
  BY <1>1, ListFacts
<1>3. /\ offset \in Nat /\ st.from = offset + 1
      /\ c \in Nat /\ offset <= c /\ c <= Len(list)
  BY <1>1, <1>2 DEF InStage
<1>4. CASE ~ st.passed
  <2>1. Handover = c
    BY <1>4 DEF Handover
  <2> QED
    BY <1>3, <1>4, <2>1
<1>5. CASE st.passed
  <2>1. c \in 1..Len(list) /\ st.completion = list[c].close
    BY <1>1, <1>2, <1>3, <1>5 DEF InStage
  <2> DEFINE tail == Cardinality(Stretch(c, Len(list), Stops))
  <2>2. TailOfDay(c, st.completion) = Stretch(c, Len(list), Stops)
    <3>1. \A j \in (c + 1)..Len(list) : \A k \in (c + 1)..j : k \in 1..Len(list)
      <4> HIDE DEF c
      <4> QED
        BY <1>2, <1>3
    <3> QED
      BY <3>1 DEF TailOfDay, Stretch
  <2>3. Handover = c + tail
    BY <1>5, <2>2 DEF Handover
  <2>4. /\ tail \in Nat /\ c + tail <= Len(list)
        /\ c + tail + 1 <= Len(list) => c + tail + 1 \in Stops
    <3> HIDE DEF c, Stops
    <3> QED
      BY <1>2, <1>3, Prefix
  <2>5. ASSUME Handover < Len(list)
        PROVE  /\ list[Handover + 1].close # st.completion
               /\ InOrder => list[Handover + 1].close > st.completion
    <3> DEFINE k == Handover + 1
    <3>1. k = c + tail + 1 /\ k \in 1..Len(list) /\ c <= k
      <4> HIDE DEF c, tail
      <4> QED
        BY <1>2, <1>3, <2>3, <2>4, <2>5
    <3>2. k \in Stops
      <4> HIDE DEF c, tail, Stops
      <4> QED
        BY <1>2, <2>4, <3>1
    <3>3. list[k].close # st.completion
      BY <3>2
    <3>4. /\ InOrder => list[c].close <= list[k].close
          /\ list[k].close \in Int /\ list[c].close \in Int
      <4> HIDE DEF c, k
      <4> QED
        BY <1>2, <2>1, <3>1
    <3> HIDE DEF c, k
    <3>5. list[k].close # st.completion /\ (InOrder => list[k].close > st.completion)
      BY <2>1, <3>3, <3>4
    <3> QED
      BY <3>5 DEF k
  <2> HIDE DEF tail, Stops
  <2> QED
    <3>1. Handover \in Nat /\ c <= Handover /\ Handover <= Len(list)
      <4> HIDE DEF c
      <4> QED
        BY <1>3, <2>3, <2>4
    <3> QED
      BY <1>3, <2>5, <3>1
<1> QED
  BY <1>4, <1>5

\* The order of the list is that of the list.
LEMMA SameOrder == list' = list => (InOrder' <=> InOrder)
BY DEF InOrder

LEMMA EndPlaced == Placed /\ EndStage => Placed'
<1> SUFFICES ASSUME Placed, EndStage PROVE Placed'
  OBVIOUS
<1> DEFINE r == [passed |-> st.passed, target |-> st.target, hit |-> st.hit,
                 breached |-> Breached(st), action |-> Stage.action,
                 daysMet |-> QualifyingDays(Stage, st) >= Stage.minDays,
                 consistent |-> ConsistencyMet(Stage, st),
                 from |-> st.from, to |-> st.next - 1, completion |-> st.completion,
                 skipped |-> st.skipped]
<1>1. /\ pc = "loop" /\ results' = Append(results, r)
      /\ offset' = Handover
      /\ pc' \in {"stage", "done"} /\ (pc' = "stage" => st.passed)
      /\ list' = list /\ st' = st
  BY DEF EndStage
<1>2. r.from = st.from /\ r.to = st.next - 1 /\ r.completion = st.completion
  OBVIOUS
<1> HIDE DEF r
<1>3. /\ list \in Lists /\ offset \in 0..Len(list) /\ DOMAIN st = Fields
      /\ InStage /\ Behind /\ StagesApart
  BY <1>1 DEF Placed
<1>4. PICK S : results \in Seq(S)
  BY DEF Placed
<1>5. /\ results' \in Seq(S \cup {r})
      /\ Len(results) \in Nat /\ Len(results') = Len(results) + 1
      /\ \A n \in 1..Len(results) : results'[n] = results[n]
      /\ results'[Len(results) + 1] = r
  BY <1>1, <1>4, AppendAny
<1>6. /\ Handover \in Nat /\ offset <= Handover /\ Handover <= Len(list)
      /\ st.next - 1 \in Int /\ st.next - 1 <= Handover
      /\ st.passed /\ Handover < Len(list) =>
             /\ list[Handover + 1].close # st.completion
             /\ InOrder => list[Handover + 1].close > st.completion
  BY <1>1, HandsOver
<1>7. /\ Len(list) \in Nat
      /\ \A k \in 1..Len(list) : list[k].close \in Int
      /\ InOrder => \A j, k \in 1..Len(list) : j <= k => list[j].close <= list[k].close
  BY <1>3, ListFacts
<1>8. offset \in Nat /\ st.from = offset + 1 /\ st.completion \in Int
  BY <1>3, <1>7 DEF InStage
<1>9. offset' \in 0..Len(list')
  BY <1>1, <1>6, <1>7
<1>10. Behind' \/ pc' = "done"
  <2> SUFFICES ASSUME pc' = "stage", NEW n \in 1..Len(results')
               PROVE  /\ results'[n].to \in Int /\ results'[n].completion \in Int
                      /\ results'[n].to <= Handover
                      /\ Handover < Len(list) =>
                             /\ n = Len(results') =>
                                    list[Handover + 1].close # results'[n].completion
                             /\ InOrder => list[Handover + 1].close > results'[n].completion
    BY <1>1, SameOrder DEF Behind
  <2>1. CASE n = Len(results) + 1
    BY <1>1, <1>2, <1>5, <1>6, <1>8, <2>1
  <2>2. CASE n \in 1..Len(results)
    <3>1. /\ results'[n] = results[n]
          /\ results[n].to \in Int /\ results[n].completion \in Int
          /\ results[n].to <= offset
          /\ offset < Len(list) /\ InOrder => list[offset + 1].close > results[n].completion
      BY <1>3, <1>5, <2>2 DEF Behind
    <3>2. ASSUME Handover < Len(list), InOrder
          PROVE  list[Handover + 1].close > results[n].completion
      <4>1. /\ offset < Len(list) /\ offset + 1 \in 1..Len(list)
            /\ Handover + 1 \in 1..Len(list) /\ offset + 1 <= Handover + 1
        BY <1>6, <1>7, <1>8, <3>2
      <4>2. list[offset + 1].close <= list[Handover + 1].close
        BY <1>7, <3>2, <4>1
      <4>3. list[offset + 1].close \in Int /\ list[Handover + 1].close \in Int
        BY <1>7, <4>1
      <4> QED
        BY <3>1, <3>2, <4>1, <4>2, <4>3
    <3>3. results[n].to <= Handover /\ n # Len(results')
      BY <1>5, <1>6, <1>8, <2>2, <3>1
    <3> QED
      BY <3>1, <3>2, <3>3
  <2> QED
    BY <1>5, <2>1, <2>2
<1>11. StagesApart'
  <2> SUFFICES ASSUME NEW m \in 1..Len(results'), NEW n \in 1..Len(results'), m < n
               PROVE  /\ results'[m].to < results'[n].from
                      /\ results'[n].from <= Len(list) =>
                             /\ n = m + 1 =>
                                    list[results'[n].from].close # results'[m].completion
                             /\ InOrder =>
                                    list[results'[n].from].close > results'[m].completion
    BY <1>1, SameOrder DEF StagesApart
  <2>1. m \in 1..Len(results) /\ results'[m] = results[m]
    BY <1>5
  <2>2. CASE n \in 1..Len(results)
    BY <1>3, <1>5, <2>1, <2>2 DEF StagesApart
  <2>3. CASE n = Len(results) + 1
    <3>1. /\ results[m].to \in Int /\ results[m].completion \in Int
          /\ results[m].to <= offset
          /\ offset < Len(list) =>
                 /\ m = Len(results) => list[offset + 1].close # results[m].completion
                 /\ InOrder => list[offset + 1].close > results[m].completion
      BY <1>3, <2>1 DEF Behind
    <3>2. results'[n].from = offset + 1
      BY <1>2, <1>5, <1>8, <2>3
    <3>3. results[m].to < offset + 1 /\ (n = m + 1 => m = Len(results))
      BY <1>5, <1>8, <2>1, <2>3, <3>1
    <3>4. offset + 1 <= Len(list) => offset < Len(list)
      BY <1>7, <1>8
    <3> QED
      BY <2>1, <3>1, <3>2, <3>3, <3>4
  <2> QED
    BY <1>5, <2>2, <2>3
<1>12. pc' # "loop"
  BY <1>1
<1> QED
  BY <1>1, <1>3, <1>5, <1>9, <1>10, <1>11, <1>12 DEF Placed

LEMMA StutterPlaced == Placed /\ UNCHANGED vars => Placed'
<1> SUFFICES ASSUME Placed, UNCHANGED vars PROVE Placed'
  OBVIOUS
<1>1. list' = list /\ pc' = pc /\ offset' = offset /\ st' = st /\ results' = results
  BY DEF vars
<1> QED
  BY <1>1 DEF Placed, InStage, Behind, StagesApart, InOrder

\* No trade counts in two stages of a challenge, and a stage does not begin on
\* the day the one before it was passed on; in the order of closing it begins
\* on a later day than each stage before it was passed on.
THEOREM StagesAreApart == Spec => []StagesApart
<1>1. Placed /\ [Next]_vars => Placed'
  BY BeginPlaced, TurnPlaced, EndPlaced, StutterPlaced DEF Next
<1>2. Placed => StagesApart
  BY DEF Placed
<1> QED
  BY InitPlaced, <1>1, <1>2, PTL DEF Spec

-----------------------------------------------------------------------------
(* The verdict of a challenge.                                             *)

\* The greatest and the least of a set are the ones that are.
Tops(x, S)    == x \in S /\ \A y \in S : x >= y
Bottoms(x, S) == x \in S /\ \A y \in S : x <= y

\* The greatest element is Max.
LEMMA TopIsMax ==
  ASSUME NEW S \in SUBSET Int, NEW x, Tops(x, S)
  PROVE  Max(S) = x
<1>1. \E m \in S : \A y \in S : m >= y
  BY DEF Tops
<1>2. Max(S) \in S /\ \A y \in S : Max(S) >= y
  BY <1>1 DEF Max
<1>3. x \in Int /\ Max(S) \in Int /\ x >= Max(S) /\ Max(S) >= x
  BY <1>2 DEF Tops
<1> QED
  BY <1>3

\* The least element is Min.
LEMMA BottomIsMin ==
  ASSUME NEW S \in SUBSET Int, NEW x, Bottoms(x, S)
  PROVE  Min(S) = x
<1>1. \E m \in S : \A y \in S : m <= y
  BY DEF Bottoms
<1>2. Min(S) \in S /\ \A y \in S : Min(S) <= y
  BY <1>1 DEF Min
<1>3. x \in Int /\ Min(S) \in Int /\ x <= Min(S) /\ Min(S) <= x
  BY <1>2 DEF Bottoms
<1> QED
  BY <1>3

\* One more element in the set.
LEMMA TopGrows ==
  ASSUME NEW S \in SUBSET Int, NEW x, Tops(x, S), NEW y \in Int
  PROVE  Tops(Bigger(x, y), S \cup {y})
<1>1. x \in Int /\ x \in S /\ \A z \in S : z \in Int /\ x >= z
  BY DEF Tops
<1>2. CASE x < y
  <2>1. Bigger(x, y) = y /\ \A z \in S \cup {y} : y >= z
    BY <1>1, <1>2 DEF Bigger
  <2> QED
    BY <2>1 DEF Tops
<1>3. CASE ~(x < y)
  <2>1. Bigger(x, y) = x /\ \A z \in S \cup {y} : x >= z
    BY <1>1, <1>3 DEF Bigger
  <2> QED
    BY <1>1, <2>1 DEF Tops
<1> QED
  BY <1>2, <1>3

-----------------------------------------------------------------------------
(* Results of the trades in a list.                                        *)

Results == [i \in DOMAIN list |-> list[i].pnl]

\* A list of trades as the numbers it is read for.
LEMMA ResultFacts ==
  ASSUME list \in Lists
  PROVE  /\ Len(list) \in Nat /\ DOMAIN list = 1..Len(list)
         /\ IsFiniteSet(1..Len(list))
         /\ Results \in [1..Len(list) -> Int]
         /\ \A i \in 1..Len(list) : Results[i] = list[i].pnl /\ list[i].close \in Int
<1> DEFINE Trades == [open : Int, close : Int, brief : BOOLEAN, pnl : Int]
<1>1. list \in Seq(Trades)
  BY ListsAssumption
<1>2. \A t \in Trades : t.pnl \in Int
  OBVIOUS
<1> HIDE DEF Trades
<1>3. Len(list) \in Nat /\ DOMAIN list = 1..Len(list)
      /\ \A i \in 1..Len(list) : list[i].pnl \in Int
  BY <1>1, <1>2
<1>4. IsFiniteSet(1..Len(list))
  BY <1>3, FS_Interval
<1> QED
  BY <1>3, <1>4, ListFacts DEF Results

\* A set of trades has a result, and no trades have none.
LEMMA PnlType ==
  ASSUME list \in Lists, NEW S \in SUBSET (1..Len(list))
  PROVE  PnlOf(S) \in Int /\ (S = {} => PnlOf(S) = 0)
<1>1. PnlOf(S) = SumFunctionOnSet(Results, S)
  BY DEF PnlOf, Results
<1>2. IsFiniteSet(1..Len(list)) /\ Results \in [1..Len(list) -> Int]
  BY ResultFacts
<1> HIDE DEF Results
<1>3. SumFunctionOnSet(Results, S) \in Int
  BY <1>2, SumType
<1>4. S = {} => SumFunctionOnSet(Results, S) = 0
  BY <1>2, SumUnfolds
<1> QED
  BY <1>1, <1>3, <1>4

\* One more trade adds its result.
LEMMA PnlGrows ==
  ASSUME list \in Lists, NEW S \in SUBSET (1..Len(list)), NEW i \in 1..Len(list), i \notin S
  PROVE  PnlOf(S \cup {i}) = PnlOf(S) + list[i].pnl
<1>1. PnlOf(S) = SumFunctionOnSet(Results, S)
      /\ PnlOf(S \cup {i}) = SumFunctionOnSet(Results, S \cup {i})
  BY DEF PnlOf, Results
<1>2. IsFiniteSet(1..Len(list)) /\ Results \in [1..Len(list) -> Int] /\ Results[i] = list[i].pnl
  BY ResultFacts
<1>3. SumFunctionOnSet(Results, S \cup {i}) = SumFunctionOnSet(Results, S) + Results[i]
  BY <1>2, SumAdds
<1> QED
  BY <1>1, <1>2, <1>3

-----------------------------------------------------------------------------
(* What the rules read off the list, one trade later.                      *)

\* A stretch of trades of a stage: none yet, or up to trade k.
IsSpan(from, k) == list \in Lists /\ from \in 1..(Len(list) + 1) /\ k \in (from - 1)..Len(list)

\* What a stretch is, and how it grows by a trade.
LEMMA SpanFacts ==
  ASSUME NEW from, NEW k, IsSpan(from, k)
  PROVE  /\ from \in Int /\ k \in Int /\ Len(list) \in Nat /\ list \in Lists
         /\ from - 1 <= k /\ 1 <= from /\ k <= Len(list)
         /\ (from..k) \in SUBSET (1..Len(list))
         /\ \A j \in from..k : IsSpan(from, j) /\ list[j].close \in Int
         /\ k < Len(list) => /\ IsSpan(from, k + 1)
                             /\ from..(k + 1) = (from..k) \cup {k + 1} /\ k + 1 \notin from..k
                             /\ k + 1 \in 1..Len(list) /\ list[k + 1].close \in Int
BY ResultFacts DEF IsSpan

\* The balance read off the list is a number,
LEMMA BalanceType ==
  ASSUME NEW from, NEW k, IsSpan(from, k)
  PROVE  Balance(from, k) \in Int
<1>1. list \in Lists /\ from..k \in SUBSET (1..Len(list))
  BY SpanFacts
<1>2. PnlOf(from..k) \in Int
  BY <1>1, PnlType
<1> QED
  BY <1>2 DEF Balance, Start

\* the start before the first trade,
LEMMA BalanceFirst ==
  ASSUME NEW from, IsSpan(from, from - 1)
  PROVE  Balance(from, from - 1) = Start
<1>1. list \in Lists /\ from..(from - 1) = {}
  BY DEF IsSpan
<1>2. PnlOf({}) = 0
  BY <1>1, PnlType
<1>3. PnlOf(from..(from - 1)) = PnlOf({})
  BY <1>1, Zenon
<1> QED
  BY <1>2, <1>3 DEF Balance, Start

\* and moves by the next trade's result.
LEMMA BalanceNext ==
  ASSUME NEW from, NEW k, IsSpan(from, k), k < Len(list)
  PROVE  Balance(from, k + 1) = Balance(from, k) + list[k + 1].pnl
<1> DEFINE S == from..k
<1>1. list \in Lists /\ S \in SUBSET (1..Len(list)) /\ k + 1 \in 1..Len(list) /\ k + 1 \notin S
      /\ from..(k + 1) = S \cup {k + 1}
  BY SpanFacts
<1> HIDE DEF S
<1>2. PnlOf(S \cup {k + 1}) = PnlOf(S) + list[k + 1].pnl
  BY <1>1, PnlGrows
<1>3. PnlOf(S) \in Int /\ list[k + 1].pnl \in Int
  BY <1>1, PnlType, ResultFacts
<1>4. Balance(from, k + 1) = Start + PnlOf(S \cup {k + 1}) /\ Balance(from, k) = Start + PnlOf(S)
  BY <1>1 DEF Balance, S
<1> QED
  BY <1>2, <1>3, <1>4 DEF Start

\* The first trade of the day of trade k.
Alike(from, k) == {i \in from..k : \A j \in i..k : list[j].close = list[k].close}

\* The first trade of a day is the one no trade of the day comes before.
LEMMA DayStartIs ==
  ASSUME NEW from, NEW k, IsSpan(from, k), from <= k
  PROVE  Bottoms(DayStart("rows", from, k), Alike(from, k)) /\ DayStart("rows", from, k) \in Int
<1> DEFINE S == Alike(from, k)
<1>0. from \in Int /\ k \in Int /\ 1 <= from
  BY SpanFacts
<1>1. S \subseteq Nat /\ k \in S
  BY <1>0 DEF Alike
<1>2. PICK m \in S : \A y \in S : m <= y
  <2> HIDE DEF S
  <2> QED
    BY <1>1, LeastNumber
<1>3. Bottoms(m, S) /\ S \in SUBSET Int
  BY <1>1, <1>2 DEF Bottoms
<1> HIDE DEF S
<1>4. Min(S) = m
  BY <1>3, BottomIsMin
<1>5. DayStart("rows", from, k) = Min(S)
  BY DEF DayStart, S, Alike
<1>6. m \in Int
  BY <1>3 DEF Bottoms
<1> QED
  BY <1>3, <1>4, <1>5, <1>6 DEF S

\* The first trade of a stage begins a day.
LEMMA DayStartFirst ==
  ASSUME NEW from, IsSpan(from, from)
  PROVE  DayStart("rows", from, from) = from
<1>1. Bottoms(DayStart("rows", from, from), Alike(from, from)) /\ from \in Int
  <2>1. from \in Int
    BY SpanFacts, Zenon
  <2>2. from <= from
    BY <2>1
  <2> QED
    BY <2>1, <2>2, DayStartIs, Zenon
<1>2. Alike(from, from) \subseteq {from}
  BY <1>1 DEF Alike
<1> QED
  BY <1>1, <1>2 DEF Bottoms

\* A trade that closes on the same day as the one before it begins no day.
LEMMA DayStartSame ==
  ASSUME NEW from, NEW k, IsSpan(from, k), from <= k, k < Len(list),
         list[k + 1].close = list[k].close
  PROVE  DayStart("rows", from, k + 1) = DayStart("rows", from, k)
<1> DEFINE d == DayStart("rows", from, k)
<1>1. Bottoms(d, Alike(from, k)) /\ d \in Int
  BY DayStartIs
<1>2. IsSpan(from, k + 1) /\ from \in Int /\ k \in Int /\ from <= k + 1
  BY SpanFacts
<1>3. Bottoms(DayStart("rows", from, k + 1), Alike(from, k + 1)) /\ DayStart("rows", from, k + 1) \in Int
  BY <1>2, DayStartIs
<1>4. Alike(from, k + 1) = Alike(from, k) \cup {k + 1}
  <2>1. ASSUME NEW i \in from..k
        PROVE  (\A j \in i..(k + 1) : list[j].close = list[k + 1].close)
                   <=> (\A j \in i..k : list[j].close = list[k].close)
    <3>1. i..(k + 1) = (i..k) \cup {k + 1}
      BY <1>2
    <3> QED
      BY <3>1
  <2>2. from..(k + 1) = (from..k) \cup {k + 1}
    BY <1>2
  <2>3. \A j \in (k + 1)..(k + 1) : list[j].close = list[k + 1].close
    BY <1>2
  <2>4. \A i : i \in Alike(from, k + 1) <=> i \in Alike(from, k) \cup {k + 1}
    BY <2>1, <2>2, <2>3 DEF Alike
  <2> QED
    BY <2>4
<1>5. \A i \in Alike(from, k) : i \in Int /\ i <= k
  BY <1>2 DEF Alike
<1> HIDE DEF d
<1>6. d \in Alike(from, k + 1) /\ \A y \in Alike(from, k + 1) : d <= y
  BY <1>1, <1>2, <1>4, <1>5 DEF Bottoms
<1>7. DayStart("rows", from, k + 1) = d
  BY <1>1, <1>3, <1>6 DEF Bottoms
<1> QED
  BY <1>7 DEF d

\* A trade that closes on another day begins that day.
LEMMA DayStartNew ==
  ASSUME NEW from, NEW k, IsSpan(from, k), from <= k, k < Len(list),
         list[k + 1].close # list[k].close
  PROVE  DayStart("rows", from, k + 1) = k + 1
<1>1. IsSpan(from, k + 1) /\ from \in Int /\ k \in Int /\ from <= k + 1
  BY SpanFacts
<1>2. Bottoms(DayStart("rows", from, k + 1), Alike(from, k + 1)) /\ DayStart("rows", from, k + 1) \in Int
  BY <1>1, DayStartIs
<1>3. Alike(from, k + 1) \subseteq {k + 1}
  <2> SUFFICES ASSUME NEW i \in from..k, \A j \in i..(k + 1) : list[j].close = list[k + 1].close
               PROVE  FALSE
    BY <1>1 DEF Alike
  <2>1. k \in i..(k + 1)
    BY <1>1
  <2> QED
    BY <2>1
<1> QED
  BY <1>2, <1>3 DEF Bottoms

\* The balances whose highest is a peak: after each trade, and at the ends of
\* the days before trade k's.
Highs(from, k) == {Start} \cup {Balance(from, j) : j \in from..k}

DayEnds(from, k) == {Start} \cup {Balance(from, j) : j \in LastTrades("rows", from, k)}

\* The peak is the greatest of the balances it is taken from.
LEMMA PeakSets ==
  ASSUME NEW from, NEW k, IsSpan(from, k)
  PROVE  Highs(from, k) \in SUBSET Int /\ DayEnds(from, k) \in SUBSET Int
<1>1. \A j \in from..k : Balance(from, j) \in Int
  BY SpanFacts, BalanceType
<1>2. LastTrades("rows", from, k) \subseteq from..k
  <2>1. from \in Int /\ k \in Int
    BY SpanFacts, Zenon
  <2>2. from..(k - 1) \subseteq from..k
    BY <2>1
  <2> QED
    BY <2>2 DEF LastTrades
<1> QED
  BY <1>1, <1>2 DEF Highs, DayEnds, Start

\* The balances after every trade, one trade later.
LEMMA HighsNext ==
  ASSUME NEW from, NEW k, IsSpan(from, k), k < Len(list)
  PROVE  Highs(from, k + 1) = Highs(from, k) \cup {Balance(from, k + 1)}
<1>1. from..(k + 1) = (from..k) \cup {k + 1}
  BY SpanFacts
<1>2. {Balance(from, j) : j \in from..(k + 1)}
          = {Balance(from, j) : j \in from..k} \cup {Balance(from, k + 1)}
  BY <1>1
<1> QED
  BY <1>2 DEF Highs

\* No day has ended before the first trade is booked,
LEMMA DayEndsFirst ==
  ASSUME NEW from, NEW k, IsSpan(from, k), k <= from
  PROVE  DayEnds(from, k) = {Start}
<1>1. from \in Int /\ k \in Int
  BY SpanFacts, Zenon
<1>2. LastTrades("rows", from, k) = {}
  BY <1>1 DEF LastTrades
<1> QED
  BY <1>2 DEF DayEnds

\* none ends while the day goes on,
LEMMA DayEndsSame ==
  ASSUME NEW from, NEW k, IsSpan(from, k), from <= k, k < Len(list),
         list[k + 1].close = list[k].close
  PROVE  DayEnds(from, k + 1) = DayEnds(from, k)
<1>1. from \in Int /\ k \in Int
  BY SpanFacts, Zenon
<1>2. k + 1 - 1 = k /\ from..k = (from..(k - 1)) \cup {k}
  BY <1>1
<1>3. LastTrades("rows", from, k + 1) = {i \in from..k : list[i + 1].close # list[i].close}
  BY <1>2 DEF LastTrades
<1> DEFINE P(i) == list[i + 1].close # list[i].close
<1>4. /\ LastTrades("rows", from, k + 1) = {i \in (from..(k - 1)) \cup {k} : P(i)}
      /\ LastTrades("rows", from, k) = {i \in from..(k - 1) : P(i)}
  BY <1>2, <1>3 DEF LastTrades
<1>5. ~P(k)
  OBVIOUS
<1> HIDE DEF P
<1>6. LastTrades("rows", from, k + 1) = LastTrades("rows", from, k)
  BY <1>4, <1>5
<1> QED
  BY <1>6 DEF DayEnds

\* and one ends at its last balance when the next day begins.
LEMMA DayEndsNew ==
  ASSUME NEW from, NEW k, IsSpan(from, k), from <= k, k < Len(list),
         list[k + 1].close # list[k].close
  PROVE  DayEnds(from, k + 1) = DayEnds(from, k) \cup {Balance(from, k)}
<1>1. from \in Int /\ k \in Int
  BY SpanFacts, Zenon
<1>2. k + 1 - 1 = k /\ from..k = (from..(k - 1)) \cup {k}
  BY <1>1
<1>3. LastTrades("rows", from, k + 1) = {i \in from..k : list[i + 1].close # list[i].close}
  BY <1>2 DEF LastTrades
<1> DEFINE P(i) == list[i + 1].close # list[i].close
<1>4. /\ LastTrades("rows", from, k + 1) = {i \in (from..(k - 1)) \cup {k} : P(i)}
      /\ LastTrades("rows", from, k) = {i \in from..(k - 1) : P(i)}
  BY <1>2, <1>3 DEF LastTrades
<1>5. P(k)
  OBVIOUS
<1> HIDE DEF P
<1>6. LastTrades("rows", from, k + 1) = LastTrades("rows", from, k) \cup {k}
  BY <1>4, <1>5
<1> DEFINE N == LastTrades("rows", from, k + 1)
           L == LastTrades("rows", from, k)
<1>7. DayEnds(from, k + 1) = {Start} \cup {Balance(from, j) : j \in N}
      /\ DayEnds(from, k) = {Start} \cup {Balance(from, j) : j \in L}
  BY DEF DayEnds
<1> HIDE DEF N, L
<1>8. N = L \cup {k}
  BY <1>6 DEF N, L
<1> QED
  BY <1>7, <1>8

\* An account that follows the peaks holds the peak of the rules.
LEMMA PeakIsHighest ==
  ASSUME NEW rule, NEW from, NEW k, IsSpan(from, k), NEW s, Tops(s.hwm, Highs(from, k)),
         rule.totalMode = "FixedAmountFromEndOfDayPeak" => Tops(s.eodPeak, DayEnds(from, k))
  PROVE  RulePeak("rows", rule, from, k) = Peak(rule, s)
<1>1. Highs(from, k) \in SUBSET Int /\ DayEnds(from, k) \in SUBSET Int
  BY PeakSets
<1>2. RulePeak("rows", rule, from, k) = IF rule.totalMode = "FixedAmountFromEndOfDayPeak"
                                THEN Max(DayEnds(from, k)) ELSE Max(Highs(from, k))
  BY DEF RulePeak, DayEnds, Highs
<1>3. Max(Highs(from, k)) = s.hwm
  BY <1>1, TopIsMax
<1>4. rule.totalMode = "FixedAmountFromEndOfDayPeak" => Max(DayEnds(from, k)) = s.eodPeak
  BY <1>1, TopIsMax
<1> QED
  BY <1>2, <1>3, <1>4 DEF Peak

-----------------------------------------------------------------------------
\* Days with trades, and what a day earned.
Days(from, k) == {list[i].close : i \in from..k}

\* The days traded on, one trade later.
LEMMA DaysNext ==
  ASSUME NEW from, NEW k, IsSpan(from, k), k < Len(list)
  PROVE  Days(from, k + 1) = Days(from, k) \cup {list[k + 1].close}
<1>1. from..(k + 1) = (from..k) \cup {k + 1}
  BY SpanFacts
<1> QED
  BY <1>1 DEF Days

\* The days that count, one trade later.
LEMMA RuleDaysNext ==
  ASSUME NEW rule, NEW from, NEW k, IsSpan(from, k), k < Len(list)
  PROVE  RuleDays(rule, from, k + 1) =
             IF rule.minHold /\ list[k + 1].brief THEN RuleDays(rule, from, k)
             ELSE RuleDays(rule, from, k) \cup {list[k + 1].close}
<1> DEFINE H(m) == {j \in from..m : ~(rule.minHold /\ list[j].brief)}
<1>1. from..(k + 1) = (from..k) \cup {k + 1}
  BY SpanFacts
<1>2. H(k + 1) = IF rule.minHold /\ list[k + 1].brief THEN H(k) ELSE H(k) \cup {k + 1}
  BY <1>1
<1>3. RuleDays(rule, from, k + 1) = {list[i].close : i \in H(k + 1)}
      /\ RuleDays(rule, from, k) = {list[i].close : i \in H(k)}
  BY DEF RuleDays
<1> HIDE DEF H
<1> QED
  BY <1>2, <1>3

\* Days that count are days traded on.
LEMMA RuleDaysTraded ==
  ASSUME NEW rule, NEW from, NEW k
  PROVE  RuleDays(rule, from, k) \subseteq Days(from, k)
BY DEF RuleDays, Days

\* A day's result is a number, and none where nothing was closed.
LEMMA DayPnlType ==
  ASSUME NEW from, NEW k, IsSpan(from, k), NEW day
  PROVE  /\ RuleDayPnl(from, k, day) \in Int
         /\ day \notin Days(from, k) => RuleDayPnl(from, k, day) = 0
<1> DEFINE S == {i \in from..k : list[i].close = day}
<1>1. S \in SUBSET (1..Len(list)) /\ list \in Lists
  BY SpanFacts
<1>2. day \notin Days(from, k) => S = {}
  BY DEF Days
<1>3. RuleDayPnl(from, k, day) = PnlOf(S)
  BY DEF RuleDayPnl
<1> HIDE DEF S
<1> QED
  BY <1>1, <1>2, <1>3, PnlType

\* A day's result, one trade later.
LEMMA DayPnlNext ==
  ASSUME NEW from, NEW k, IsSpan(from, k), k < Len(list), NEW day
  PROVE  RuleDayPnl(from, k + 1, day) =
             IF day = list[k + 1].close THEN RuleDayPnl(from, k, day) + list[k + 1].pnl
             ELSE RuleDayPnl(from, k, day)
<1> DEFINE S(m) == {i \in from..m : list[i].close = day}
<1>1. from..(k + 1) = (from..k) \cup {k + 1} /\ k + 1 \notin from..k /\ k + 1 \in 1..Len(list)
      /\ S(k) \in SUBSET (1..Len(list)) /\ list \in Lists
  BY SpanFacts
<1>2. S(k + 1) = (IF day = list[k + 1].close THEN S(k) \cup {k + 1} ELSE S(k)) /\ k + 1 \notin S(k)
  BY <1>1
<1>3. RuleDayPnl(from, k + 1, day) = PnlOf(S(k + 1)) /\ RuleDayPnl(from, k, day) = PnlOf(S(k))
  BY DEF RuleDayPnl
<1> HIDE DEF S
<1>4. PnlOf(S(k) \cup {k + 1}) = PnlOf(S(k)) + list[k + 1].pnl
  BY <1>1, <1>2, PnlGrows
<1> QED
  BY <1>2, <1>3, <1>4

-----------------------------------------------------------------------------
(* The running account is what the list says it is.                        *)

\* The reference of the daily limit on the day of trade k.
Anchor(rule, from, k) ==
    DailyReference(rule, from, list[k].close, Balance(from, DayStart("rows", from, k) - 1))

Account(rule, s, k) ==
    /\ IsSpan(s.from, k)
    /\ s.balance = Balance(s.from, k)
    /\ Tops(s.hwm, Highs(s.from, k))
    /\ rule.totalMode = "FixedAmountFromEndOfDayPeak" => Tops(s.eodPeak, DayEnds(s.from, k))
    /\ s.from <= k => s.day = list[k].close /\ s.reference = Anchor(rule, s.from, k)
    /\ k < s.from /\ k < Len(list) =>
           /\ s.day = list[k + 1].close
           /\ s.reference = DailyReference(rule, s.from, list[k + 1].close, Start)
    /\ s.eligible = RuleDays(rule, s.from, k)
    /\ s.pnl \in [Days(s.from, k) -> Int]
    /\ \A day \in Days(s.from, k) : s.pnl[day] = RuleDayPnl(s.from, k, day)

\* A stage begins with the account of no trades.
LEMMA NewAccount ==
  ASSUME NEW rule, NEW from, list \in Lists, from \in 1..(Len(list) + 1)
  PROVE  Account(rule, NewStage(rule, from), from - 1)
<1> DEFINE s == NewStage(rule, from)
           k == from - 1
<1>1. /\ s.from = from /\ s.balance = Start /\ s.hwm = Start /\ s.eodPeak = Start
      /\ s.day = (IF from <= Len(list) THEN list[from].close ELSE 0)
      /\ s.reference = DailyReference(rule, from, s.day, Start)
      /\ s.eligible = {} /\ s.pnl = <<>>
  BY DEF NewStage
<1> HIDE DEF s
<1>2. from \in Int /\ Len(list) \in Nat /\ k + 1 = from /\ k \in Int
  BY ResultFacts
<1>3. IsSpan(from, k) /\ from..k = {} /\ k < from
  BY <1>2 DEF IsSpan
<1> HIDE DEF k
<1>4. Balance(from, k) = Start
  BY <1>3, BalanceFirst DEF k
<1>5. Highs(from, k) = {Start} /\ DayEnds(from, k) = {Start} /\ RuleDays(rule, from, k) = {}
      /\ Days(from, k) = {}
  <2>1. DayEnds(from, k) = {Start}
    BY <1>2, <1>3, DayEndsFirst
  <2> QED
    BY <1>3, <2>1 DEF Highs, RuleDays, Days
<1>6. Tops(Start, {Start})
  BY DEF Tops, Start
<1>7. <<>> \in [{} -> Int]
  OBVIOUS
<1>8. k < Len(list) =>
          s.day = list[k + 1].close /\ s.reference = DailyReference(rule, from, list[k + 1].close, Start)
  <2>1. k < Len(list) => from <= Len(list)
    BY <1>2
  <2> QED
    BY <1>1, <1>2, <2>1
<1>9. ~(from <= k)
  BY <1>2, <1>3
<1>10. Account(rule, s, k)
  BY <1>1, <1>3, <1>4, <1>5, <1>6, <1>7, <1>8, <1>9 DEF Account
<1> QED
  BY <1>10 DEF s, k

\* The day rolls over before the trade is booked.
LEMMA RolledAccount ==
  ASSUME NEW rule, NEW s, DOMAIN s = Fields, NEW k, Account(rule, s, k), k < Len(list)
  PROVE  LET r == Rolled(rule, s, list[k + 1].close)
         IN  /\ DOMAIN r = Fields /\ r.from = s.from /\ r.balance = s.balance /\ r.hwm = s.hwm
             /\ r.eligible = s.eligible /\ r.pnl = s.pnl
             /\ r.day = list[k + 1].close
             /\ r.reference = Anchor(rule, s.from, k + 1)
             /\ rule.totalMode = "FixedAmountFromEndOfDayPeak" =>
                    Tops(r.eodPeak, DayEnds(s.from, k + 1))
<1> DEFINE day == list[k + 1].close
           r == Rolled(rule, s, day)
           from == s.from
           EndOfDay == rule.totalMode = "FixedAmountFromEndOfDayPeak"
<1>1. /\ IsSpan(from, k) /\ s.balance = Balance(from, k)
      /\ EndOfDay => Tops(s.eodPeak, DayEnds(from, k))
      /\ from <= k => s.day = list[k].close /\ s.reference = Anchor(rule, from, k)
      /\ k < from => s.day = day /\ s.reference = DailyReference(rule, from, day, Start)
  BY DEF Account
<1>2. /\ DOMAIN r = Fields /\ r.from = from /\ r.balance = s.balance /\ r.hwm = s.hwm
      /\ r.eligible = s.eligible /\ r.pnl = s.pnl
      /\ r.day = day
      /\ day = s.day => r = s
      /\ day # s.day => /\ r.reference = DailyReference(rule, from, day, s.balance)
                        /\ EndOfDay => r.eodPeak = Bigger(s.eodPeak, s.balance)
  BY DEF Rolled, Fields
<1> HIDE DEF r, EndOfDay
<1>3. from \in Int /\ k \in Int /\ IsSpan(from, k + 1) /\ from - 1 <= k
      /\ Balance(from, k) \in Int /\ DayEnds(from, k) \in SUBSET Int
  BY <1>1, SpanFacts, BalanceType, PeakSets
<1>4. Anchor(rule, from, k + 1) =
          DailyReference(rule, from, day, Balance(from, DayStart("rows", from, k + 1) - 1))
  BY DEF Anchor
<1> HIDE DEF from, day
<1>5. CASE k < from
  <2>1. from = k + 1
    BY <1>3, <1>5
  <2>2. DayStart("rows", from, k + 1) = from
    BY <1>3, <2>1, DayStartFirst
  <2>3. Balance(from, DayStart("rows", from, k + 1) - 1) = Start
    <3>1. from - 1 = k
      BY <1>3, <2>1
    <3> QED
      BY <1>1, <2>2, <3>1, BalanceFirst
  <2>4. s.day = day /\ s.reference = DailyReference(rule, from, day, Start)
    BY <1>1, <1>5
  <2>5. r.reference = Anchor(rule, from, k + 1)
    BY <1>2, <1>4, <2>3, <2>4
  <2>6. DayEnds(from, k + 1) = {Start} /\ DayEnds(from, k) = {Start}
    BY <1>1, <1>3, <1>5, <2>1, DayEndsFirst
  <2> QED
    BY <1>1, <1>2, <2>4, <2>5, <2>6 DEF EndOfDay, from, day, r
<1>6. CASE from <= k /\ day = list[k].close
  <2>1. r = s
    BY <1>1, <1>2, <1>6
  <2>2. DayStart("rows", from, k + 1) = DayStart("rows", from, k) /\ DayEnds(from, k + 1) = DayEnds(from, k)
    BY <1>1, <1>6, DayStartSame, DayEndsSame DEF day
  <2>3. Anchor(rule, from, k) = Anchor(rule, from, k + 1)
    BY <1>4, <1>6, <2>2 DEF Anchor
  <2> QED
    BY <1>1, <1>2, <1>6, <2>1, <2>2, <2>3 DEF EndOfDay, from, day, r
<1>7. CASE from <= k /\ day # list[k].close
  <2>1. DayStart("rows", from, k + 1) = k + 1 /\ DayEnds(from, k + 1) = DayEnds(from, k) \cup {Balance(from, k)}
    BY <1>1, <1>7, DayStartNew, DayEndsNew DEF day
  <2>2. DayStart("rows", from, k + 1) - 1 = k
    BY <1>3, <2>1
  <2>3. r.reference = Anchor(rule, from, k + 1)
    BY <1>1, <1>2, <1>4, <1>7, <2>2
  <2>4. EndOfDay => Tops(r.eodPeak, DayEnds(from, k + 1))
    <3> SUFFICES ASSUME EndOfDay PROVE Tops(r.eodPeak, DayEnds(from, k + 1))
      OBVIOUS
    <3> DEFINE S == DayEnds(from, k)
               b == Balance(from, k)
               e == s.eodPeak
    <3>1. S \in SUBSET Int /\ b \in Int /\ Tops(e, S) /\ r.eodPeak = Bigger(e, b)
      BY <1>1, <1>2, <1>3, <1>7
    <3>2. DayEnds(from, k + 1) = S \cup {b}
      BY <2>1
    <3> HIDE DEF S, b, e
    <3>3. Tops(Bigger(e, b), S \cup {b})
      BY <3>1, TopGrows
    <3> QED
      BY <3>1, <3>2, <3>3
  <2> QED
    BY <1>2, <2>3, <2>4 DEF EndOfDay, from, day, r
<1> QED
  BY <1>3, <1>5, <1>6, <1>7

\* Another trade is rolled, booked and judged.
LEMMA TradeAccount ==
  ASSUME NEW rule, NEW s, DOMAIN s = Fields, NEW k, Account(rule, s, k), k < Len(list)
  PROVE  /\ Account(rule, AfterTrade(rule, s, list[k + 1]), k + 1)
         /\ AfterTrade(rule, s, list[k + 1]).target = s.target
<1> DEFINE t    == list[k + 1]
           day  == t.close
           from == s.from
           r    == Rolled(rule, s, day)
           b    == Booked(rule, r, t)
           u    == Judged(rule, b)
           EndOfDay == rule.totalMode = "FixedAmountFromEndOfDayPeak"
<1>1. /\ DOMAIN r = Fields /\ r.from = from /\ r.balance = s.balance /\ r.hwm = s.hwm
      /\ r.eligible = s.eligible /\ r.pnl = s.pnl /\ r.day = day
      /\ r.reference = Anchor(rule, from, k + 1)
      /\ EndOfDay => Tops(r.eodPeak, DayEnds(from, k + 1))
  BY RolledAccount
<1>2. r.target = s.target
  BY DEF Rolled, Fields
<1>3. /\ IsSpan(from, k) /\ s.balance = Balance(from, k) /\ Tops(s.hwm, Highs(from, k))
      /\ s.eligible = RuleDays(rule, from, k) /\ s.pnl \in [Days(from, k) -> Int]
      /\ \A d \in Days(from, k) : s.pnl[d] = RuleDayPnl(from, k, d)
  BY DEF Account
<1> HIDE DEF r, t, EndOfDay, from
<1>4. /\ b.from = r.from /\ b.target = r.target /\ b.day = r.day /\ b.reference = r.reference
      /\ b.eodPeak = r.eodPeak
      /\ b.balance = r.balance + t.pnl
      /\ b.hwm = Bigger(r.hwm, r.balance + t.pnl)
      /\ b.eligible = (IF rule.minHold /\ t.brief THEN r.eligible ELSE r.eligible \cup {day})
      /\ b.pnl = [d \in DOMAIN r.pnl \cup {day} |->
                      IF d = day THEN DayPnl(r, d) + t.pnl ELSE r.pnl[d]]
      /\ DOMAIN b = Fields
  BY <1>1 DEF Booked, Fields
<1> HIDE DEF b, day
<1>5. /\ u.from = b.from /\ u.target = b.target /\ u.day = b.day /\ u.reference = b.reference
      /\ u.eodPeak = b.eodPeak /\ u.balance = b.balance /\ u.hwm = b.hwm
      /\ u.eligible = b.eligible /\ u.pnl = b.pnl
  BY <1>4 DEF Judged, Fields
<1> HIDE DEF u
<1>6. /\ u.from = from /\ u.target = s.target /\ u.day = day
      /\ u.reference = Anchor(rule, from, k + 1)
      /\ EndOfDay => Tops(u.eodPeak, DayEnds(from, k + 1))
  BY <1>1, <1>2, <1>4, <1>5
<1>7. from \in Int /\ k \in Int /\ IsSpan(from, k + 1) /\ from - 1 <= k
      /\ Balance(from, k + 1) \in Int /\ Highs(from, k) \in SUBSET Int
  BY <1>3, SpanFacts, BalanceType, PeakSets
<1>8. u.balance = Balance(from, k + 1)
  <2>1. Balance(from, k + 1) = Balance(from, k) + t.pnl
    BY <1>3, BalanceNext DEF t
  <2> QED
    BY <1>1, <1>3, <1>4, <1>5, <2>1
<1>9. Tops(u.hwm, Highs(from, k + 1))
  <2> DEFINE S == Highs(from, k)
             y == Balance(from, k + 1)
             x == s.hwm
  <2>1. Highs(from, k + 1) = S \cup {y}
    BY <1>3, HighsNext
  <2>2. u.hwm = Bigger(x, y)
    BY <1>1, <1>4, <1>5, <1>8
  <2>3. Tops(x, S) /\ S \in SUBSET Int /\ y \in Int
    BY <1>3, <1>7
  <2> HIDE DEF S, x, y
  <2>4. Tops(Bigger(x, y), S \cup {y})
    BY <2>3, TopGrows
  <2> QED
    BY <2>1, <2>2, <2>4
<1>10. u.eligible = RuleDays(rule, from, k + 1)
  <2>1. RuleDays(rule, from, k + 1) =
             IF rule.minHold /\ t.brief THEN RuleDays(rule, from, k)
             ELSE RuleDays(rule, from, k) \cup {day}
    BY <1>3, RuleDaysNext DEF t, day
  <2> QED
    BY <1>1, <1>3, <1>4, <1>5, <2>1
<1>11. Days(from, k + 1) = Days(from, k) \cup {day}
  BY <1>3, DaysNext DEF t, day
<1>12. ASSUME NEW d \in Days(from, k + 1)
       PROVE  u.pnl[d] = RuleDayPnl(from, k + 1, d) /\ RuleDayPnl(from, k + 1, d) \in Int
  <2>1. RuleDayPnl(from, k + 1, d) = IF d = day THEN RuleDayPnl(from, k, d) + t.pnl
                                    ELSE RuleDayPnl(from, k, d)
    BY <1>3, DayPnlNext DEF t, day
  <2>2. RuleDayPnl(from, k + 1, d) \in Int
    BY <1>7, DayPnlType
  <2>3. DayPnl(r, d) = RuleDayPnl(from, k, d)
    <3>1. d \notin Days(from, k) => RuleDayPnl(from, k, d) = 0
      BY <1>3, DayPnlType
    <3>2. DOMAIN s.pnl = Days(from, k)
      BY <1>3
    <3> QED
      BY <1>1, <1>3, <3>1, <3>2 DEF DayPnl
  <2>4. d \in DOMAIN r.pnl \cup {day} /\ (d # day => r.pnl[d] = RuleDayPnl(from, k, d))
    BY <1>1, <1>3, <1>11
  <2> QED
    BY <1>4, <1>5, <2>1, <2>2, <2>3, <2>4
<1>13. u.pnl \in [Days(from, k + 1) -> Int]
  <2>1. DOMAIN r.pnl \cup {day} = Days(from, k + 1)
    BY <1>1, <1>3, <1>11
  <2> DEFINE e == [d \in Days(from, k + 1) |-> IF d = day THEN DayPnl(r, d) + t.pnl ELSE r.pnl[d]]
  <2>2. u.pnl = e
    BY <1>4, <1>5, <2>1
  <2>3. \A d \in Days(from, k + 1) : e[d] \in Int
    BY <1>12, <2>2
  <2> QED
    BY <2>2, <2>3
<1>14. from <= k + 1 /\ ~(k + 1 < from)
  BY <1>7
<1>15. Account(rule, u, k + 1)
  <2> DEFINE n == k + 1
  <2>1. u.from <= n => u.day = list[n].close /\ u.reference = Anchor(rule, u.from, n)
    BY <1>6 DEF t, day
  <2>2. /\ IsSpan(u.from, n) /\ u.balance = Balance(u.from, n) /\ Tops(u.hwm, Highs(u.from, n))
        /\ u.eligible = RuleDays(rule, u.from, n) /\ u.pnl \in [Days(u.from, n) -> Int]
        /\ \A d \in Days(u.from, n) : u.pnl[d] = RuleDayPnl(u.from, n, d)
    BY <1>6, <1>7, <1>8, <1>9, <1>10, <1>12, <1>13
  <2>3. rule.totalMode = "FixedAmountFromEndOfDayPeak" => Tops(u.eodPeak, DayEnds(u.from, n))
    BY <1>6 DEF EndOfDay
  <2>4. ~(n < u.from)
    BY <1>6, <1>14
  <2> HIDE DEF n
  <2>5. Account(rule, u, n)
    BY <2>1, <2>2, <2>3, <2>4 DEF Account
  <2> QED
    BY <2>5 DEF n
<1>16. AfterTrade(rule, s, t) = u
  BY DEF AfterTrade, u, b, r, day
<1>17. Account(rule, AfterTrade(rule, s, t), k + 1) /\ AfterTrade(rule, s, t).target = s.target
  BY <1>6, <1>15, <1>16
<1> QED
  BY <1>17 DEF t

-----------------------------------------------------------------------------
(* Breach and pass, by the account and by the list.                        *)

\* The limits, tested on the account, are broken when the rules say so.
LEMMA BreachIsRead ==
  ASSUME NEW rule, rule.action = "FailAccount", NEW s, DOMAIN s = Fields, NEW k,
         Account(rule, s, k), k < Len(list)
  PROVE  Breached(AfterTrade(rule, s, list[k + 1])) <=> RuleBreach("rows", rule, s.from, k + 1)
<1> DEFINE t    == list[k + 1]
           from == s.from
           b    == Booked(rule, Rolled(rule, s, t.close), t)
           u    == AfterTrade(rule, s, t)
<1>1. u = Judged(rule, b)
  BY DEF AfterTrade
<1>2. DOMAIN b = Fields
  BY DEF Booked, Rolled, Fields
<1> HIDE DEF b
<1>3. /\ u.dailyBreach = (HitsDailyLimit(rule, b) /\ rule.action = "FailAccount")
      /\ u.maxBreach = AtFloor(rule, b)
      /\ u.reference = b.reference /\ u.balance = b.balance /\ u.hwm = b.hwm
      /\ u.eodPeak = b.eodPeak
  <2> HIDE DEF u
  <2> QED
    BY <1>1, <1>2 DEF Judged, Fields
<1>4. Account(rule, u, k + 1) /\ u.from = from /\ IsSpan(from, k)
  <2>1. Account(rule, u, k + 1)
    BY TradeAccount
  <2>2. u.from = from
    BY Kept
  <2> QED
    BY <2>1, <2>2 DEF Account
<1> HIDE DEF u, from
<1>5. from <= k + 1
  BY <1>4, SpanFacts
<1>6. /\ IsSpan(from, k + 1) /\ u.balance = Balance(from, k + 1)
      /\ u.reference = Anchor(rule, from, k + 1)
      /\ Tops(u.hwm, Highs(from, k + 1))
      /\ rule.totalMode = "FixedAmountFromEndOfDayPeak" => Tops(u.eodPeak, DayEnds(from, k + 1))
  BY <1>4, <1>5 DEF Account
<1>7. RulePeak("rows", rule, from, k + 1) = Peak(rule, u)
  BY <1>6, PeakIsHighest
<1>8. Peak(rule, u) = Peak(rule, b)
  BY <1>3 DEF Peak
<1>9. HitsDailyLimit(rule, b) <=> Anchor(rule, from, k + 1) - Balance(from, k + 1) >= rule.daily
  BY <1>3, <1>6 DEF HitsDailyLimit
<1>10. AtFloor(rule, b) <=>
           100 * Balance(from, k + 1) <= Floor100(rule, RulePeak("rows", rule, from, k + 1))
  BY <1>3, <1>6, <1>7, <1>8 DEF AtFloor
<1>11. RuleBreach("rows", rule, from, k + 1) <=>
           \/ Anchor(rule, from, k + 1) - Balance(from, k + 1) >= rule.daily
           \/ 100 * Balance(from, k + 1) <= Floor100(rule, RulePeak("rows", rule, from, k + 1))
  BY DEF RuleBreach, Anchor
<1>12. Breached(u) <=> HitsDailyLimit(rule, b) \/ AtFloor(rule, b)
  BY <1>3 DEF Breached
<1> QED
  BY <1>9, <1>10, <1>11, <1>12 DEF u, t, from

\* A trade so far brought the balance up to the target.
Reached(rule, from, k) == \E j \in from..k : Balance(from, j) - Start >= rule.target

\* The target is reached at this trade or was before.
LEMMA ReachedNext ==
  ASSUME NEW rule, NEW s, NEW k, Account(rule, s, k), s.from <= k
  PROVE  Reached(rule, s.from, k) <=> Reached(rule, s.from, k - 1) \/ ReachesTarget(rule, s)
<1> DEFINE from == s.from
<1>1. IsSpan(from, k) /\ s.balance = Balance(from, k)
  BY DEF Account
<1>2. from \in Int /\ k \in Int
  BY <1>1, SpanFacts, Zenon
<1> HIDE DEF from
<1>3. from <= k
  BY DEF from
<1>4. from..k = (from..(k - 1)) \cup {k}
  BY <1>2, <1>3
<1>5. Reached(rule, from, k) <=> Reached(rule, from, k - 1) \/ Balance(from, k) - Start >= rule.target
  BY <1>4 DEF Reached
<1> QED
  BY <1>1, <1>5 DEF ReachesTarget, from

\* qualifying_trading_days, by the list.
LEMMA DaysAreRead ==
  ASSUME NEW rule, NEW s, NEW k, Account(rule, s, k)
  PROVE  QualifyingDays(rule, s) =
             Cardinality({day \in RuleDays(rule, s.from, k) :
                              RuleDayPnl(s.from, k, day) >= rule.minDayProfit})
<1> DEFINE from == s.from
           E == RuleDays(rule, from, k)
<1>1. /\ s.eligible = E /\ s.pnl \in [Days(from, k) -> Int]
      /\ \A day \in Days(from, k) : s.pnl[day] = RuleDayPnl(from, k, day)
  BY DEF Account
<1>2. E \subseteq Days(from, k)
  BY RuleDaysTraded
<1> HIDE DEF E, from
<1>3. \A day \in E : DayPnl(s, day) = RuleDayPnl(from, k, day)
  BY <1>1, <1>2 DEF DayPnl
<1>4. {day \in s.eligible : DayPnl(s, day) >= rule.minDayProfit}
          = {day \in E : RuleDayPnl(from, k, day) >= rule.minDayProfit}
  BY <1>1, <1>3
<1> QED
  BY <1>4 DEF QualifyingDays, E, from

\* consistency_check, by the list: days that lost add nothing to the total.
LEMMA ConsistencyIsRead ==
  ASSUME NEW rule, rule.cap \in Nat, NEW s, NEW k, Account(rule, s, k)
  PROVE  ConsistencyMet(rule, s) <=>
             LET days == Days(s.from, k)
                 gain == [day \in days |-> Bigger(RuleDayPnl(s.from, k, day), 0)]
             IN  rule.cap > 0 => \A day \in days : 100 * gain[day] <= rule.cap * SumFunction(gain)
<1> DEFINE from == s.from
           days == Days(from, k)
           gain == [day \in days |-> Bigger(RuleDayPnl(from, k, day), 0)]
           gains == {day \in days : s.pnl[day] > 0}
           cap == rule.cap
<1>1. /\ IsSpan(from, k) /\ s.pnl \in [days -> Int] /\ DOMAIN s.pnl = days
      /\ \A day \in days : s.pnl[day] = RuleDayPnl(from, k, day) /\ s.pnl[day] \in Int
  BY DEF Account
<1>2. IsFiniteSet(days)
  <2>1. IsFiniteSet(from..k)
    <3>1. from \in Int /\ k \in Int
      BY <1>1, SpanFacts, Zenon
    <3> QED
      BY <3>1, FS_Interval
  <2> DEFINE f == [i \in from..k |-> list[i].close]
  <2>2. f \in Surjection(from..k, days)
    BY DEF Days, Surjection
  <2> HIDE DEF f
  <2> QED
    BY <2>1, <2>2, FS_Surjection
<1>3. gain \in [days -> Int] /\ \A day \in days :
          /\ gain[day] >= 0
          /\ day \in gains => gain[day] = s.pnl[day]
          /\ day \notin gains => gain[day] = 0
  BY <1>1 DEF Bigger
<1>4. gains \in SUBSET days /\ days \ gains \in SUBSET (days \ gains)
      /\ gains \cup (days \ gains) = days /\ days \ gains \in SUBSET days
  OBVIOUS
<1> DEFINE pnl == s.pnl
<1>5. pnl \in [days -> Int]
  BY <1>1
<1> HIDE DEF gain, gains, days, pnl
<1>6. SumFunction(gain) = SumFunctionOnSet(gain, days)
  BY <1>3 DEF SumFunction
<1>7. SumFunctionOnSet(gain, gains \cup (days \ gains))
          = SumFunctionOnSet(gain, gains) + SumFunctionOnSet(gain, days \ gains)
  BY <1>2, <1>3, <1>4, SumOfParts
<1>8. SumFunctionOnSet(gain, days \ gains) = 0
  BY <1>2, <1>3, <1>4, SumNotNegative
<1>9. SumFunctionOnSet(gain, gains) \in Int
  BY <1>2, <1>3, <1>4, SumType
<1>10. SumFunctionOnSet(gain, days) = SumFunctionOnSet(gain, gains \cup (days \ gains))
  BY <1>4, Zenon
<1>11. SumFunctionOnSet(gain, gains) = SumFunctionOnSet(pnl, gains)
  <2>1. \A x \in gains : gain[x] = pnl[x]
    BY <1>3, <1>4 DEF pnl
  <2> QED
    BY <1>2, <1>3, <1>4, <1>5, <2>1, SumSame
<1>12. SumFunction(gain) = SumFunctionOnSet(pnl, gains)
  BY <1>6, <1>7, <1>8, <1>9, <1>10, <1>11
<1>13. SumFunctionOnSet(gain, gains) >= 0
  BY <1>2, <1>3, <1>4, SumNotNegative
<1> DEFINE all == SumFunction(gain)
<1>14. all \in Nat
  BY <1>9, <1>11, <1>12, <1>13
<1>15. ConsistencyMet(rule, s) <=>
           cap <= 0 \/ \A day \in gains : 100 * pnl[day] <= cap * all
  BY <1>1, <1>12 DEF ConsistencyMet, gains, pnl
<1>16. cap * all \in Nat /\ cap \in Nat
  BY <1>14
<1> HIDE DEF all
<1> DEFINE limit == cap * all
<1> HIDE DEF limit
<1>17. (\A day \in gains : 100 * pnl[day] <= limit) <=> \A day \in days : 100 * gain[day] <= limit
  <2>1. limit \in Nat
    BY <1>16 DEF limit
  <2>2. \A day \in days : day \notin gains => 100 * gain[day] <= limit
    BY <1>3, <2>1
  <2> QED
    BY <1>3, <1>4, <2>2 DEF pnl
<1>18. ConsistencyMet(rule, s) <=> (cap > 0 => \A day \in days : 100 * gain[day] <= cap * all)
  BY <1>15, <1>16, <1>17 DEF limit
<1> QED
  BY <1>18 DEF gain, days, all, from, cap

\* The account passes when the list does.
LEMMA PassIsRead ==
  ASSUME NEW rule, rule.cap \in Nat, NEW s, NEW k, Account(rule, s, k),
         s.target <=> Reached(rule, s.from, k)
  PROVE  Passes(rule, s) <=> RulePass(rule, s.from, k)
BY DaysAreRead, ConsistencyIsRead DEF Passes, RulePass, Reached, Days

-----------------------------------------------------------------------------
(* A stage that fails at its limits.                                       *)

\* Up to the trade before the next one nothing has decided the stage, and what
\* that trade decides is what the rules say of it.
Strict(rule, s) ==
    LET from == s.from
        k    == s.next - 1
    IN  /\ Account(rule, s, k)
        /\ Breached(s) <=> from <= k /\ RuleBreach("rows", rule, from, k)
        /\ ~Breached(s) => (s.target <=> Reached(rule, from, k))
        /\ s.passed <=> from <= k /\ RulePass(rule, from, k) /\ ~RuleBreach("rows", rule, from, k)
        /\ \A j \in from..(k - 1) : ~RulePass(rule, from, j) /\ ~RuleBreach("rows", rule, from, j)

\* The account is in these fields.
LEMMA SameAccount ==
  ASSUME NEW rule, NEW s, NEW k, Account(rule, s, k), NEW u,
         u.from = s.from, u.balance = s.balance, u.hwm = s.hwm, u.eodPeak = s.eodPeak,
         u.day = s.day, u.reference = s.reference, u.eligible = s.eligible, u.pnl = s.pnl
  PROVE  Account(rule, u, k)
BY DEF Account

\* A stage begins undecided.
LEMMA NewStrict ==
  ASSUME NEW rule, NEW from, list \in Lists, from \in 1..(Len(list) + 1)
  PROVE  Strict(rule, NewStage(rule, from))
<1> DEFINE s == NewStage(rule, from)
           k == s.next - 1
<1>1. s.from = from /\ s.next = from /\ ~s.dailyBreach /\ ~s.maxBreach /\ ~s.target /\ ~s.passed
  BY DEF NewStage
<1>2. Account(rule, s, k)
  BY <1>1, NewAccount
<1> HIDE DEF s
<1>3. from \in Int
  BY ResultFacts
<1>4. ~(s.from <= k) /\ s.from..k = {} /\ s.from..(k - 1) = {}
  BY <1>1, <1>3
<1>5. ~Breached(s)
  BY <1>1 DEF Breached
<1>6. ~Reached(rule, s.from, k)
  BY <1>4 DEF Reached
<1>7. Strict(rule, s)
  BY <1>1, <1>2, <1>4, <1>5, <1>6 DEF Strict
<1> QED
  BY <1>7 DEF s

\* A turn of the loop decides what its trade decides.
LEMMA TurnStrict ==
  ASSUME NEW rule, rule.action = "FailAccount", rule.cap \in Nat,
         NEW s, DOMAIN s = Fields, Strict(rule, s), s.next \in 1..Len(list), ~s.passed, ~Breached(s)
  PROVE  LET i      == s.next
             t      == list[i]
             judged == Judged(rule, Booked(rule, Rolled(rule, s, t.close), t))
             rest   == IF Paused(rule, judged) THEN RestOfDay(i) ELSE {}
             after  == [judged EXCEPT !.next = i + 1 + Cardinality(rest),
                                      !.skipped = @ \cup rest,
                                      !.target = @ \/ ReachesTarget(rule, judged)]
         IN  Strict(rule, IF Breached(judged)
                          THEN [judged EXCEPT !.next = i + 1, !.completion = t.close]
                          ELSE IF Passes(rule, after)
                          THEN [after EXCEPT !.passed = TRUE, !.completion = t.close]
                          ELSE after)
<1> DEFINE i      == s.next
           k      == i - 1
           t      == list[i]
           from   == s.from
           judged == Judged(rule, Booked(rule, Rolled(rule, s, t.close), t))
           rest   == IF Paused(rule, judged) THEN RestOfDay(i) ELSE {}
           after  == [judged EXCEPT !.next = i + 1 + Cardinality(rest),
                                    !.skipped = @ \cup rest,
                                    !.target = @ \/ ReachesTarget(rule, judged)]
           broken == [judged EXCEPT !.next = i + 1, !.completion = t.close]
           over   == [after EXCEPT !.passed = TRUE, !.completion = t.close]
<1>1. /\ Account(rule, s, k) /\ IsSpan(from, k)
      /\ s.target <=> Reached(rule, from, k)
      /\ \A j \in from..(k - 1) : ~RulePass(rule, from, j) /\ ~RuleBreach("rows", rule, from, j)
      /\ from <= k => ~RuleBreach("rows", rule, from, k) /\ ~RulePass(rule, from, k)
  BY DEF Strict, Account
<1>2. /\ i \in Int /\ k \in Int /\ k + 1 = i /\ k < Len(list) /\ from \in Int /\ from <= i
  <2>1. i \in Int /\ Len(list) \in Nat /\ i <= Len(list) /\ from \in Int /\ from - 1 <= k
    BY <1>1, SpanFacts
  <2> QED
    BY <2>1
<1>3. judged = AfterTrade(rule, s, list[k + 1]) /\ judged = AfterTrade(rule, s, t)
  BY <1>2 DEF AfterTrade
<1> HIDE DEF judged, i, k
<1>4. /\ Account(rule, judged, i) /\ judged.target = s.target
      /\ Breached(judged) <=> RuleBreach("rows", rule, from, i)
  BY <1>1, <1>2, <1>3, TradeAccount, BreachIsRead
<1>5. DOMAIN judged = Fields /\ judged.from = from /\ judged.passed = s.passed
  BY <1>3, Kept
<1>6. Cardinality(rest) = 0
  <2>1. rest = {}
    BY DEF Paused
  <2> QED
    BY <2>1, FS_EmptySet
<1> HIDE DEF t
<1>7. /\ broken.from = from /\ broken.balance = judged.balance /\ broken.hwm = judged.hwm
      /\ broken.eodPeak = judged.eodPeak /\ broken.day = judged.day
      /\ broken.reference = judged.reference /\ broken.eligible = judged.eligible
      /\ broken.pnl = judged.pnl /\ broken.next = i + 1 /\ ~broken.passed
      /\ broken.dailyBreach = judged.dailyBreach /\ broken.maxBreach = judged.maxBreach
  BY <1>5 DEF Fields
<1>8. /\ after.from = from /\ after.balance = judged.balance /\ after.hwm = judged.hwm
      /\ after.eodPeak = judged.eodPeak /\ after.day = judged.day
      /\ after.reference = judged.reference /\ after.eligible = judged.eligible
      /\ after.pnl = judged.pnl /\ after.next = i + 1 + Cardinality(rest) /\ ~after.passed
      /\ after.dailyBreach = judged.dailyBreach /\ after.maxBreach = judged.maxBreach
      /\ after.target = (judged.target \/ ReachesTarget(rule, judged))
      /\ DOMAIN after = Fields
  <2> HIDE DEF rest
  <2> QED
    BY <1>5 DEF Fields
<1>9. after.next = i + 1
  <2> HIDE DEF after, rest
  <2> QED
    BY <1>2, <1>6, <1>8
<1> HIDE DEF after, broken
<1>10. /\ over.from = from /\ over.balance = judged.balance /\ over.hwm = judged.hwm
       /\ over.eodPeak = judged.eodPeak /\ over.day = judged.day
       /\ over.reference = judged.reference /\ over.eligible = judged.eligible
       /\ over.pnl = judged.pnl /\ over.next = i + 1 /\ over.passed
       /\ over.dailyBreach = judged.dailyBreach /\ over.maxBreach = judged.maxBreach
       /\ over.target = after.target
  BY <1>8, <1>9 DEF Fields
<1> HIDE DEF over, rest, from
<1>11. Account(rule, broken, i) /\ Account(rule, after, i) /\ Account(rule, over, i)
  <2>1. Account(rule, broken, i)
    BY <1>4, <1>5, <1>7, SameAccount
  <2>2. Account(rule, after, i)
    BY <1>4, <1>5, <1>8, SameAccount
  <2>3. Account(rule, over, i)
    BY <1>4, <1>5, <1>10, SameAccount
  <2> QED
    BY <2>1, <2>2, <2>3
<1>12. /\ Breached(broken) <=> Breached(judged)
       /\ Breached(after) <=> Breached(judged)
       /\ Breached(over) <=> Breached(judged)
  BY <1>7, <1>8, <1>10 DEF Breached
<1>13. after.target <=> Reached(rule, from, i)
  <2>1. Reached(rule, from, i) <=> Reached(rule, from, i - 1) \/ ReachesTarget(rule, judged)
    BY <1>2, <1>4, <1>5, ReachedNext
  <2>2. i - 1 = k
    BY <1>2
  <2> QED
    BY <1>1, <1>4, <1>8, <2>1, <2>2
<1>14. Passes(rule, after) <=> RulePass(rule, from, i)
  BY <1>8, <1>11, <1>13, PassIsRead
<1>15. \A j \in from..(i - 1) : ~RulePass(rule, from, j) /\ ~RuleBreach("rows", rule, from, j)
  <2>1. \A j \in from..(i - 1) : j \in from..(k - 1) \/ (j = k /\ from <= k)
    BY <1>2
  <2> QED
    BY <1>1, <2>1
<1>16. i + 1 - 1 = i
  BY <1>2
<1>17. ASSUME Breached(judged) PROVE Strict(rule, broken)
  BY <1>2, <1>4, <1>7, <1>11, <1>12, <1>15, <1>16, <1>17 DEF Strict
<1>18. ASSUME ~Breached(judged), Passes(rule, after) PROVE Strict(rule, over)
  BY <1>2, <1>4, <1>10, <1>11, <1>12, <1>13, <1>14, <1>15, <1>16, <1>18 DEF Strict
<1>19. ASSUME ~Breached(judged), ~Passes(rule, after) PROVE Strict(rule, after)
  BY <1>2, <1>4, <1>8, <1>9, <1>11, <1>12, <1>13, <1>14, <1>15, <1>16, <1>19 DEF Strict
<1>20. Strict(rule, IF Breached(judged) THEN broken ELSE IF Passes(rule, after) THEN over ELSE after)
  BY <1>17, <1>18, <1>19
<1> QED
  BY <1>20 DEF over, after, broken, rest, judged, t, i

-----------------------------------------------------------------------------
\* A strict stage that has ended is judged rightly.
LEMMA StrictIsRight ==
  ASSUME NEW rule, NEW s, Strict(rule, s), s.next \in Int,
         s.next > Len(list) \/ s.passed \/ Breached(s),
         NEW r, r.from = s.from, r.passed = s.passed, r.breached = Breached(s)
  PROVE  EndsByRules("rows", rule, r)
<1> DEFINE from == s.from
           k == s.next - 1
<1>1. /\ IsSpan(from, k)
      /\ Breached(s) <=> from <= k /\ RuleBreach("rows", rule, from, k)
      /\ s.passed <=> from <= k /\ RulePass(rule, from, k) /\ ~RuleBreach("rows", rule, from, k)
      /\ \A j \in from..(k - 1) : ~RulePass(rule, from, j) /\ ~RuleBreach("rows", rule, from, j)
  BY DEF Strict, Account
<1>2. from \in Int /\ k \in Int /\ Len(list) \in Nat /\ from - 1 <= k /\ k <= Len(list)
  BY <1>1, SpanFacts
<1>3. s.next > Len(list) => k = Len(list)
  <2>1. s.next > Len(list) => ~(k < Len(list))
    BY <1>2
  <2> QED
    BY <1>2, <2>1
<1> HIDE DEF from, k
<1>4. k = Len(list) \/ s.passed \/ Breached(s)
  BY <1>3
<1>5. \A m \in from..Len(list) : m < k => m \in from..(k - 1)
  BY <1>2
<1>6. s.passed <=> \E m \in from..Len(list) :
          RulePass(rule, from, m) /\ \A j \in from..m : ~RuleBreach("rows", rule, from, j)
  <2>1. ASSUME s.passed
        PROVE  \E m \in from..Len(list) :
                   RulePass(rule, from, m) /\ \A j \in from..m : ~RuleBreach("rows", rule, from, j)
    <3>1. k \in from..Len(list) /\ \A j \in from..k : j = k \/ j \in from..(k - 1)
      BY <1>1, <1>2, <2>1
    <3> QED
      BY <1>1, <2>1, <3>1
  <2>2. ASSUME NEW m \in from..Len(list), RulePass(rule, from, m),
               \A j \in from..m : ~RuleBreach("rows", rule, from, j)
        PROVE  s.passed
    <3>1. CASE m < k
      BY <1>1, <1>5, <2>2, <3>1
    <3>2. CASE m = k
      <4>1. from <= k /\ k \in from..m
        BY <1>2, <3>2
      <4> QED
        BY <1>1, <2>2, <3>2, <4>1
    <3>3. CASE m > k
      <4>1. Breached(s) => k \in from..m
        BY <1>1, <1>2, <3>3
      <4>2. k # Len(list)
        BY <1>2, <3>3
      <4> QED
        BY <1>1, <1>4, <2>2, <4>1, <4>2
    <3> QED
      BY <1>2, <3>1, <3>2, <3>3
  <2> QED
    BY <2>1, <2>2
<1>7. Breached(s) <=> \E m \in from..Len(list) :
          RuleBreach("rows", rule, from, m) /\ \A j \in from..(m - 1) : ~RulePass(rule, from, j)
  <2>1. ASSUME Breached(s)
        PROVE  \E m \in from..Len(list) :
                   RuleBreach("rows", rule, from, m) /\ \A j \in from..(m - 1) : ~RulePass(rule, from, j)
    <3>1. k \in from..Len(list)
      BY <1>1, <1>2, <2>1
    <3> QED
      BY <1>1, <2>1, <3>1
  <2>2. ASSUME NEW m \in from..Len(list), RuleBreach("rows", rule, from, m),
               \A j \in from..(m - 1) : ~RulePass(rule, from, j)
        PROVE  Breached(s)
    <3>1. CASE m < k
      BY <1>1, <1>5, <2>2, <3>1
    <3>2. CASE m = k
      <4>1. from <= k
        BY <1>2, <3>2
      <4> QED
        BY <1>1, <2>2, <3>2, <4>1
    <3>3. CASE m > k
      <4>1. s.passed => k \in from..(m - 1)
        BY <1>1, <1>2, <3>3
      <4>2. k # Len(list)
        BY <1>2, <3>3
      <4> QED
        BY <1>1, <1>4, <2>2, <4>1, <4>2
    <3> QED
      BY <1>2, <3>1, <3>2, <3>3
  <2> QED
    BY <2>1, <2>2
<1> QED
  BY <1>6, <1>7 DEF EndsByRules, from

\* A strict stage not passed and not breached lacks something.
LEMMA StrictSaysWhy ==
  ASSUME NEW rule, rule.cap \in Nat, NEW s, Strict(rule, s), ~s.passed, ~Breached(s)
  PROVE  ~Passes(rule, s)
<1> DEFINE from == s.from
           k == s.next - 1
<1>1. /\ IsSpan(from, k) /\ Account(rule, s, k)
      /\ ~(from <= k /\ RuleBreach("rows", rule, from, k))
      /\ s.target <=> Reached(rule, from, k)
      /\ ~(from <= k /\ RulePass(rule, from, k) /\ ~RuleBreach("rows", rule, from, k))
  BY DEF Strict, Account
<1>2. Passes(rule, s) <=> RulePass(rule, from, k)
  BY <1>1, PassIsRead
<1>3. CASE from <= k
  BY <1>1, <1>2, <1>3
<1>4. CASE ~(from <= k)
  <2>1. from \in Int /\ k \in Int
    BY <1>1, SpanFacts, Zenon
  <2>2. from..k = {}
    BY <1>4, <2>1
  <2>3. ~Reached(rule, from, k)
    BY <2>2 DEF Reached
  <2> QED
    BY <1>1, <2>3 DEF Passes
<1> QED
  BY <1>3, <1>4

-----------------------------------------------------------------------------
(* The rows and the calendar.                                              *)

\* In the order of closing they tell the same days apart, so that the limits
\* are broken by the one when they are by the other.
LEMMA ReadingsAgree ==
  ASSUME NEW rule, NEW from, NEW k, IsSpan(from, k), from <= k, InOrder
  PROVE  RuleBreach("calendar", rule, from, k) <=> RuleBreach("rows", rule, from, k)
<1>1. /\ from \in Int /\ k \in Int /\ 1 <= from /\ k <= Len(list) /\ Len(list) \in Nat
      /\ list \in Lists
  BY SpanFacts
<1>2. /\ \A i \in 1..Len(list) : list[i].close \in Int
      /\ \A i, j \in 1..Len(list) : i <= j => list[i].close <= list[j].close
  BY <1>1, ListFacts
<1>3. ASSUME NEW i \in from..k
      PROVE  list[i].close = list[k].close <=> \A j \in i..k : list[j].close = list[k].close
  <2>1. i \in i..k
    BY <1>1
  <2>2. ASSUME NEW j \in i..k, list[i].close = list[k].close
        PROVE  list[j].close = list[k].close
    <3>1. /\ i \in 1..Len(list) /\ j \in 1..Len(list) /\ k \in 1..Len(list)
          /\ i <= j /\ j <= k
      BY <1>1
    <3>2. list[i].close <= list[j].close /\ list[j].close <= list[k].close
      BY <1>2, <3>1
    <3> QED
      BY <1>2, <2>2, <3>1, <3>2
  <2> QED
    BY <2>1, <2>2
<1>4. DayStart("calendar", from, k) = DayStart("rows", from, k)
  <2> DEFINE C == {i \in from..k : list[i].close = list[k].close}
             R == {i \in from..k : \A j \in i..k : list[j].close = list[k].close}
  <2>1. C = R
    BY <1>3
  <2>2. DayStart("calendar", from, k) = Min(C) /\ DayStart("rows", from, k) = Min(R)
    BY DEF DayStart
  <2> HIDE DEF C, R
  <2> QED
    BY <2>1, <2>2
<1>5. LastTrades("calendar", from, k) = LastTrades("rows", from, k)
  <2> DEFINE C(i) == /\ \A j \in (i + 1)..k : list[j].close # list[i].close
                     /\ list[i].close # list[k].close
             R(i) == i <= k - 1 /\ list[i + 1].close # list[i].close
  <2>1. ASSUME NEW i \in from..k, C(i) PROVE R(i)
    <3>1. i # k /\ i \in Int /\ i <= k
      BY <1>1, <2>1
    <3>2. i + 1 \in (i + 1)..k /\ i <= k - 1
      BY <1>1, <3>1
    <3> QED
      BY <2>1, <3>2
  <2>2. ASSUME NEW i \in from..k, R(i) PROVE C(i)
    <3>1. i \in 1..Len(list) /\ i + 1 \in 1..Len(list) /\ i <= i + 1 /\ k \in (i + 1)..k
      BY <1>1, <2>2
    <3>2. ASSUME NEW j \in (i + 1)..k PROVE list[j].close # list[i].close
      <4>1. j \in 1..Len(list) /\ i + 1 <= j
        BY <1>1
      <4>2. list[i].close <= list[i + 1].close /\ list[i + 1].close <= list[j].close
        BY <1>2, <3>1, <4>1
      <4>3. list[i].close \in Int /\ list[i + 1].close \in Int /\ list[j].close \in Int
        BY <1>2, <3>1, <4>1
      <4> QED
        BY <2>2, <4>2, <4>3
    <3> QED
      BY <3>1, <3>2
  <2>3. LastTrades("calendar", from, k) = {i \in from..k : C(i)}
    BY DEF LastTrades
  <2>4. LastTrades("rows", from, k) = {i \in from..k : R(i)}
    <3>1. \A i : i \in from..(k - 1) <=> i \in from..k /\ i <= k - 1
      BY <1>1
    <3> QED
      BY <3>1 DEF LastTrades
  <2> HIDE DEF C, R
  <2> QED
    BY <2>1, <2>2, <2>3, <2>4
<1>6. RulePeak("calendar", rule, from, k) = RulePeak("rows", rule, from, k)
  BY <1>5 DEF RulePeak
<1> QED
  BY <1>4, <1>6 DEF RuleBreach

\* A finished stage is judged as the rules say, however they are read.
RightlyJudged(rule, r) == \A reading \in Readings : EndsByRules(reading, rule, r)

\* What is right by the rows is right.
LEMMA RightByRows ==
  ASSUME list \in Lists, NEW rule, NEW r, r.from \in 1..(Len(list) + 1),
         EndsByRules("rows", rule, r)
  PROVE  RightlyJudged(rule, r)
<1>1. ASSUME InOrder PROVE EndsByRules("calendar", rule, r)
  <2> DEFINE from == r.from
  <2>1. from \in Int /\ Len(list) \in Nat
    BY ListFacts
  <2>2. ASSUME NEW k \in from..Len(list)
        PROVE  RuleBreach("calendar", rule, from, k) <=> RuleBreach("rows", rule, from, k)
    <3>1. IsSpan(from, k) /\ from <= k
      BY <2>1 DEF IsSpan
    <3> QED
      BY <1>1, <3>1, ReadingsAgree
  <2>3. \A k \in from..Len(list) : \A j \in from..k : j \in from..Len(list)
    BY <2>1
  <2> HIDE DEF from
  <2>4. \A k \in from..Len(list) :
            (\A j \in from..k : ~RuleBreach("calendar", rule, from, j))
                <=> \A j \in from..k : ~RuleBreach("rows", rule, from, j)
    BY <2>2, <2>3
  <2> QED
    BY <2>2, <2>4 DEF EndsByRules, from
<1> QED
  BY <1>1 DEF RightlyJudged, Readings

-----------------------------------------------------------------------------
(* The list is the same after every step, and so is what is read off it.   *)

\* A result judged rightly stays so.
LEMMA SameVerdict ==
  ASSUME list' = list, NEW n, NEW rule, NEW r, rules'[n] = rule, results'[n] = r
  PROVE  RightlyJudged(rules[n], results[n])' <=> RightlyJudged(rule, r)
<1>1. \A reading, k :
          RuleBreach(reading, rules[n], results[n].from, k)' <=> RuleBreach(reading, rule, r.from, k)
  BY DEF PnlOf, Balance, RuleBreach, DayStart, DailyReference, Overnight, RulePeak, LastTrades
<1>2. \A k : RulePass(rules[n], results[n].from, k)' <=> RulePass(rule, r.from, k)
  BY DEF PnlOf, Balance, RulePass, RuleDays, RuleDayPnl
<1>3. \A reading :
          EndsByRules(reading, rules[n], results[n])' <=> EndsByRules(reading, rule, r)
  BY <1>1, <1>2 DEF EndsByRules
<1>4. Readings' = Readings
  BY DEF Readings, InOrder
<1> QED
  BY <1>3, <1>4 DEF RightlyJudged

\* A stage is strict in the next state when it is read off this one.
LEMMA SameStrict ==
  ASSUME list' = list, NEW rule, NEW s, Stage' = rule, st' = s
  PROVE  Strict(Stage, st)' <=> Strict(rule, s)
<1>1. \A k : RuleBreach("rows", Stage, st.from, k)' <=> RuleBreach("rows", rule, s.from, k)
  BY DEF PnlOf, Balance, RuleBreach, DayStart, DailyReference, Overnight, RulePeak, LastTrades
<1>2. \A k : RulePass(Stage, st.from, k)' <=> RulePass(rule, s.from, k)
  BY DEF PnlOf, Balance, RulePass, RuleDays, RuleDayPnl
<1>3. \A k : Reached(Stage, st.from, k)' <=> Reached(rule, s.from, k)
  BY DEF Reached, PnlOf, Balance
<1>4. \A k : Account(Stage, st, k)' <=> Account(rule, s, k)
  BY DEF Account, IsSpan, PnlOf, Balance, Highs, DayEnds, Anchor, DailyReference, Overnight,
         RuleDays, Days, RuleDayPnl, DayStart, LastTrades
<1>5. Breached(st)' <=> Breached(s)
  BY DEF Breached
<1> QED
  BY <1>1, <1>2, <1>3, <1>4, <1>5 DEF Strict

-----------------------------------------------------------------------------
(* The verdict of the challenge.                                           *)

\* What the rules of a stage are.
LEMMA RuleFacts ==
  ASSUME NEW rs \in RuleSets
  PROVE  /\ Len(rs) \in Nat /\ Len(rs) > 0
         /\ \A n \in 1..Len(rs) : rs[n].cap \in Nat /\ rs[n].action \in {"FailAccount", "PauseDay"}
<1> DEFINE Rules ==
        [target : Int, daily : Int, max : Int, minDays : Nat, cap : Nat,
         minDayProfit : Int, minHold : BOOLEAN, overnight : BOOLEAN,
         dailyMode : {"EndOfDayHighWatermark", "DayStartBalance"},
         totalMode : {"StaticFromStart", "PercentOfPeak", "FixedAmountFromEndOfDayPeak",
                      "FixedAmountFromPeakLockedAtStart"},
         action : {"FailAccount", "PauseDay"}]
<1>1. rs \in Seq(Rules) /\ rs # <<>>
  BY RulesAssumption
<1>2. \A r \in Rules : r.cap \in Nat /\ r.action \in {"FailAccount", "PauseDay"}
  OBVIOUS
<1> HIDE DEF Rules
<1>3. Len(rs) \in Nat /\ Len(rs) > 0 /\ \A n \in 1..Len(rs) : rs[n] \in Rules
  BY <1>1
<1> QED
  BY <1>2, <1>3

\* A challenge that failed says why.
SaysWhy ==
    pc = "done" /\ ~ChallengePassed =>
        results[Len(results)].action = "PauseDay" \/ Reason(results[Len(results)]) # "none"

\* Every finished stage that does not pause days is judged as the rules say.
AllJudged ==
    \A n \in 1..Len(results) :
        results[n].action = "FailAccount" => RightlyJudged(rules[n], results[n])

Judging ==
    /\ rules \in RuleSets
    /\ pc # "done" => Len(results) < Len(rules)
    /\ pc = "loop" /\ Stage.action = "FailAccount" => Strict(Stage, st)
    /\ SaysWhy
    /\ AllJudged

\* The invariant says what the run checks.
LEMMA VerdictIs == Judging => VerdictMatchesRules
BY DEF Judging, SaysWhy, AllJudged, RightlyJudged, FailsAtLimits, VerdictMatchesRules

\* No stage is finished at first.
LEMMA InitJudging == Init => Judging
<1> SUFFICES ASSUME Init PROVE Judging
  OBVIOUS
<1>1. rules \in RuleSets /\ pc = "stage" /\ results = <<>>
  BY DEF Init
<1>2. Len(results) = 0 /\ Len(rules) > 0 /\ Len(rules) \in Nat
  BY <1>1, RuleFacts
<1>3. SaysWhy /\ AllJudged
  BY <1>1, <1>2 DEF SaysWhy, AllJudged
<1> QED
  BY <1>1, <1>2, <1>3 DEF Judging

\* A step that finishes no stage leaves the finished ones as they are judged.
LEMMA JudgedKept ==
  ASSUME AllJudged, UNCHANGED <<rules, list, results>>
  PROVE  AllJudged'
<1> SUFFICES ASSUME NEW n \in 1..Len(results), results[n].action = "FailAccount"
             PROVE  RightlyJudged(rules[n], results[n])'
  BY DEF AllJudged
<1>1. RightlyJudged(rules[n], results[n])
  BY DEF AllJudged
<1>2. rules'[n] = rules[n] /\ results'[n] = results[n]
  OBVIOUS
<1> QED
  BY <1>1, <1>2, SameVerdict

\* The rules of the running stage are rules.
LEMMA StageFacts ==
  ASSUME Placed, Judging, pc # "done"
  PROVE  /\ Len(results) \in Nat /\ Len(rules) \in Nat /\ Len(results) + 1 \in 1..Len(rules)
         /\ Stage = rules[Len(results) + 1]
         /\ Stage.cap \in Nat /\ Stage.action \in {"FailAccount", "PauseDay"}
<1>1. PICK S : results \in Seq(S)
  BY DEF Placed
<1>2. Len(results) \in Nat
  BY <1>1
<1>3. rules \in RuleSets /\ Len(results) < Len(rules)
  BY DEF Judging
<1>4. /\ Len(rules) \in Nat
      /\ \A n \in 1..Len(rules) :
             rules[n].cap \in Nat /\ rules[n].action \in {"FailAccount", "PauseDay"}
  BY <1>3, RuleFacts
<1>5. Len(results) + 1 \in 1..Len(rules)
  BY <1>2, <1>3, <1>4
<1> QED
  BY <1>2, <1>4, <1>5 DEF Stage

\* BeginStage (challenge_sim.rs:434) starts a strict stage.
LEMMA BeginJudging == Placed /\ Judging /\ BeginStage => Judging'
<1> SUFFICES ASSUME Placed, Judging, BeginStage PROVE Judging'
  OBVIOUS
<1>1. /\ pc = "stage" /\ pc' = "loop" /\ st' = NewStage(Stage, offset + 1)
      /\ UNCHANGED <<rules, list, results>>
  BY DEF BeginStage
<1>2. list \in Lists /\ offset \in 0..Len(list) /\ Len(list) \in Nat
  BY ListFacts DEF Placed
<1>3. Strict(Stage, NewStage(Stage, offset + 1))
  <2>1. offset + 1 \in 1..(Len(list) + 1)
    BY <1>2
  <2> QED
    BY <1>2, <2>1, NewStrict
<1>4. Stage' = Stage
  BY <1>1 DEF Stage
<1>5. Strict(Stage, st)'
  BY <1>1, <1>3, <1>4, SameStrict
<1>6. AllJudged'
  BY <1>1, JudgedKept DEF Judging
<1>7. SaysWhy'
  BY <1>1 DEF SaysWhy
<1> QED
  BY <1>1, <1>5, <1>6, <1>7 DEF Judging

\* Turn keeps it strict.
LEMMA TurnJudging == Placed /\ Judging /\ Turn => Judging'
<1> SUFFICES ASSUME Placed, Judging, Turn PROVE Judging'
  OBVIOUS
<1>1. pc = "loop" /\ Running /\ UNCHANGED <<rules, list, pc, results>>
  BY DEF Turn, Running
<1>2. Stage' = Stage
  BY <1>1 DEF Stage
<1>3. ASSUME Stage.action = "FailAccount" PROVE Strict(Stage, st)'
  <2>1. Stage.cap \in Nat
    BY <1>1, StageFacts
  <2>2. list \in Lists /\ Len(list) \in Nat /\ offset \in 0..Len(list) /\ InStage
        /\ DOMAIN st = Fields
    BY <1>1, ListFacts DEF Placed
  <2>3. st.next \in 1..Len(list) /\ ~st.passed /\ ~Breached(st)
    BY <1>1, <2>2 DEF Running, InStage
  <2>4. Strict(Stage, st)
    BY <1>1, <1>3 DEF Judging
  <2>5. Strict(Stage, st')
    BY <1>3, <2>1, <2>2, <2>3, <2>4, TurnStrict DEF Turn
  <2> QED
    BY <1>1, <1>2, <2>5, SameStrict
<1>4. AllJudged'
  BY <1>1, JudgedKept DEF Judging
<1>5. SaysWhy'
  BY <1>1 DEF SaysWhy
<1> QED
  BY <1>1, <1>2, <1>3, <1>4, <1>5 DEF Judging

\* EndStage reports what the rules say, and why.
LEMMA EndJudging == Placed /\ Judging /\ EndStage => Judging'
<1> SUFFICES ASSUME Placed, Judging, EndStage PROVE Judging'
  OBVIOUS
<1> DEFINE n == Len(results) + 1
           r == [passed |-> st.passed, target |-> st.target, hit |-> st.hit,
                 breached |-> Breached(st), action |-> Stage.action,
                 daysMet |-> QualifyingDays(Stage, st) >= Stage.minDays,
                 consistent |-> ConsistencyMet(Stage, st),
                 from |-> st.from, to |-> st.next - 1, completion |-> st.completion,
                 skipped |-> st.skipped]
<1>1. /\ pc = "loop" /\ ~Running /\ results' = Append(results, r)
      /\ pc' = (IF st.passed /\ n < Len(rules) THEN "stage" ELSE "done")
      /\ UNCHANGED <<rules, list, st>>
  BY DEF EndStage
<1>2. /\ r.passed = st.passed /\ r.target = st.target /\ r.breached = Breached(st)
      /\ r.action = Stage.action /\ r.from = st.from
      /\ r.daysMet = (QualifyingDays(Stage, st) >= Stage.minDays)
      /\ r.consistent = ConsistencyMet(Stage, st)
  OBVIOUS
<1> HIDE DEF r
<1>3. PICK S : results \in Seq(S)
  BY DEF Placed
<1>4. /\ Len(results) \in Nat /\ Len(results') = n
      /\ \A m \in 1..Len(results) : results'[m] = results[m]
      /\ results'[n] = r
  BY <1>1, <1>3, AppendAny
<1>5. /\ Len(rules) \in Nat /\ n \in 1..Len(rules) /\ Stage = rules[n]
      /\ Stage.cap \in Nat /\ Stage.action \in {"FailAccount", "PauseDay"}
  BY <1>1, StageFacts
<1>6. st.next \in Int /\ list \in Lists /\ r.from \in 1..(Len(list) + 1)
  <2>1. list \in Lists /\ Len(list) \in Nat /\ offset \in 0..Len(list) /\ InStage
    BY <1>1, ListFacts DEF Placed
  <2> QED
    BY <1>2, <2>1 DEF InStage
<1>7. ASSUME Stage.action = "FailAccount"
      PROVE  /\ RightlyJudged(Stage, r)
             /\ ~st.passed /\ ~Breached(st) => ~Passes(Stage, st)
  <2>1. Strict(Stage, st)
    BY <1>1, <1>7 DEF Judging
  <2>2. st.next > Len(list) \/ st.passed \/ Breached(st)
    <3>1. Len(list) \in Nat
      BY ListFacts DEF Placed
    <3> QED
      BY <1>1, <1>6, <3>1 DEF Running
  <2>3. RightlyJudged(Stage, r)
    <3>1. EndsByRules("rows", Stage, r)
      BY <1>2, <1>6, <2>1, <2>2, StrictIsRight
    <3> QED
      BY <1>6, <3>1, RightByRows
  <2>4. ~st.passed /\ ~Breached(st) => ~Passes(Stage, st)
    BY <1>5, <2>1, StrictSaysWhy
  <2> QED
    BY <2>3, <2>4
<1>8. AllJudged'
  <2> SUFFICES ASSUME NEW m \in 1..Len(results'), results'[m].action = "FailAccount"
               PROVE  RightlyJudged(rules[m], results[m])'
    BY DEF AllJudged
  <2>1. CASE m \in 1..Len(results)
    <3>1. results'[m] = results[m] /\ rules'[m] = rules[m]
      BY <1>1, <1>4, <2>1
    <3>2. RightlyJudged(rules[m], results[m])
      BY <2>1, <3>1 DEF Judging, AllJudged
    <3> QED
      BY <1>1, <3>1, <3>2, SameVerdict
  <2>2. CASE m = n
    <3>1. results'[m] = r /\ rules'[m] = Stage
      BY <1>1, <1>4, <1>5, <2>2
    <3>2. RightlyJudged(Stage, r)
      BY <1>2, <1>7, <3>1
    <3> QED
      BY <1>1, <3>1, <3>2, SameVerdict
  <2> QED
    BY <1>4, <2>1, <2>2
<1>9. SaysWhy'
  <2> SUFFICES ASSUME pc' = "done", ~ChallengePassed', r.action # "PauseDay"
               PROVE  Reason(r) # "none"
    BY <1>4 DEF SaysWhy, Reason
  <2>1. ~st.passed
    BY <1>1, <1>2, <1>4, <1>5 DEF ChallengePassed
  <2>2. Stage.action = "FailAccount"
    BY <1>2, <1>5
  <2>3. CASE r.breached
    BY <2>3 DEF Reason
  <2>4. CASE ~r.breached
    <3>1. ~Passes(Stage, st)
      BY <1>2, <1>7, <2>1, <2>2, <2>4
    <3>2. ~(r.target /\ r.daysMet /\ r.consistent)
      BY <1>2, <3>1 DEF Passes
    <3> QED
      BY <2>4, <3>2 DEF Reason
  <2> QED
    BY <2>3, <2>4
<1>10. rules' \in RuleSets /\ (pc' # "done" => Len(results') < Len(rules')) /\ pc' # "loop"
  BY <1>1, <1>4 DEF Judging
<1> QED
  BY <1>8, <1>9, <1>10 DEF Judging

\* A step that changes nothing keeps the verdict.
LEMMA StutterJudging == Judging /\ UNCHANGED vars => Judging'
<1> SUFFICES ASSUME Judging, UNCHANGED vars PROVE Judging'
  OBVIOUS
<1>1. UNCHANGED <<rules, list, pc, st, results>>
  BY DEF vars
<1>2. Stage' = Stage
  BY <1>1 DEF Stage
<1>3. ASSUME pc = "loop", Stage.action = "FailAccount" PROVE Strict(Stage, st)'
  <2>1. Strict(Stage, st)
    BY <1>3 DEF Judging
  <2> QED
    BY <1>1, <1>2, <2>1, SameStrict
<1>4. AllJudged'
  BY <1>1, JudgedKept DEF Judging
<1>5. SaysWhy'
  BY <1>1 DEF Judging, SaysWhy, ChallengePassed, Reason
<1> QED
  BY <1>1, <1>2, <1>3, <1>4, <1>5 DEF Judging

\* Every finished stage that does not pause days ends as the rules say, by the
\* rows of any list and by the calendar in the order of closing, and a challenge
\* that failed says why.
THEOREM VerdictIsTheRules == Spec => []VerdictMatchesRules
<1>1. Init => Placed /\ Judging
  BY InitPlaced, InitJudging
<1>2. Placed /\ Judging /\ [Next]_vars => (Placed /\ Judging)'
  BY BeginPlaced, TurnPlaced, EndPlaced, StutterPlaced,
     BeginJudging, TurnJudging, EndJudging, StutterJudging DEF Next
<1>3. Placed /\ Judging => VerdictMatchesRules
  BY VerdictIs
<1> QED
  BY <1>1, <1>2, <1>3, PTL DEF Spec

-----------------------------------------------------------------------------
(* The folds of the walk-forward test.                                     *)

\* The greatest of the numbers up to m that are in S.
LEMMA MaxOfPrefix ==
  ASSUME NEW m \in Nat, NEW S \in SUBSET (0..m), 0 \in S
  PROVE  Max(S) \in S /\ \A y \in S : Max(S) >= y
<1> DEFINE T == {k \in 0..m : m - k \in S}
           R == OpToRel(<, Nat)
<1>1. T \subseteq Nat /\ m \in T
  OBVIOUS
<1>2. IsWellFoundedOn(R, Nat)
  BY NatLessThanWellFounded
<1>3. PICK f \in T : \A y \in T : ~(<<y, f>> \in R)
  <2> HIDE DEF T, R
  <2> QED
    BY <1>1, <1>2, WFMin
<1>4. R = {p \in Nat \X Nat : p[1] < p[2]}
  BY DEF OpToRel
<1>5. \A y \in T : f <= y
  <2> SUFFICES ASSUME NEW y \in T, y < f PROVE FALSE
    BY <1>1
  <2>1. <<y, f>> \in {p \in Nat \X Nat : p[1] < p[2]}
    BY <1>1
  <2> QED
    BY <1>3, <1>4, <2>1
<1>6. m - f \in S /\ \A y \in S : m - f >= y
  <2> SUFFICES ASSUME NEW y \in S PROVE m - f >= y
    BY <1>3
  <2>1. y \in 0..m /\ m - y \in T
    OBVIOUS
  <2>2. f <= m - y /\ f \in Nat
    BY <1>1, <1>3, <1>5, <2>1
  <2> HIDE DEF T
  <2> QED
    BY <2>1, <2>2
<1>7. \E x \in S : \A y \in S : x >= y
  BY <1>6
<1> QED
  BY <1>7 DEF Max

LEMMA MinOfTwo ==
  ASSUME NEW a \in Int, NEW b \in Int
  PROVE  Min({a, b}) \in {a, b} /\ Min({a, b}) <= a /\ Min({a, b}) <= b
<1>1. \E x \in {a, b} : \A y \in {a, b} : x <= y
  OBVIOUS
<1> QED
  BY <1>1 DEF Min

\* The next multiple of a size is one size further.
LEMMA NextMultiple ==
  ASSUME NEW n \in Nat, NEW k \in Nat, n < k, NEW size \in Nat
  PROVE  n * size \in Nat /\ n * size + size <= k * size
<1>1. n * size \in Nat /\ (k - n - 1) * size \in Nat
  OBVIOUS
<1>2. k * size = n * size + size + (k - n - 1) * size
  OBVIOUS
<1> QED
  BY <1>1, <1>2

\* What compute_fold_ranges returns when it does not refuse.
LEMMA RangesApart ==
  ASSUME NEW bars \in Nat, NEW config, config.folds \in Nat \ {0}, config.embargo \in Nat,
         NEW whole \in Int, whole > config.embargo,
         NEW ranges, ranges = FoldRanges(bars, config, whole)
  PROVE  /\ DOMAIN ranges \subseteq Nat
         /\ ranges \in Seq(Range(ranges))
         /\ \A i \in DOMAIN ranges :
                /\ 0 <= ranges[i].from /\ ranges[i].from < ranges[i].to
                /\ ranges[i].test - ranges[i].to >= config.embargo
                /\ ranges[i].test < ranges[i].end /\ ranges[i].end <= bars
         /\ \A i, j \in DOMAIN ranges : i < j => ranges[i].end <= ranges[j].from
<1> DEFINE size == bars \div config.folds
           Part(n) == Window(n, bars, config, whole)
           S == {n \in 0..config.folds : \A i \in 0..(n - 1) : Fits(Part(i), bars)}
           kept == Max(S)
<1>1. size \in Nat
  OBVIOUS
<1>2. kept \in S
  <2>1. 0 \in S /\ S \in SUBSET (0..config.folds)
    OBVIOUS
  <2> HIDE DEF S
  <2> QED
    BY <2>1, MaxOfPrefix
<1>3. ranges = [n \in 1..kept |-> Part(n - 1)]
  BY DEF FoldRanges
<1>4. kept \in Nat /\ \A i \in 0..(kept - 1) : Fits(Part(i), bars)
  BY <1>2
<1> HIDE DEF kept, S
<1>5. DOMAIN ranges = 1..kept /\ \A i \in 1..kept : ranges[i] = Part(i - 1)
  BY <1>3
<1>6. ASSUME NEW n \in Nat
      PROVE  /\ Part(n).from = n * size /\ Part(n).from \in Nat
             /\ Part(n).to = Part(n).from + whole
             /\ Part(n).test = Part(n).to + config.embargo
             /\ Part(n).end \in Nat
             /\ Part(n).end <= Part(n).from + size /\ Part(n).end <= bars
  <2>1. n * size \in Nat
    BY <1>1, NextMultiple
  <2>2. /\ Min({n * size + size, bars}) \in {n * size + size, bars}
        /\ Min({n * size + size, bars}) <= n * size + size
        /\ Min({n * size + size, bars}) <= bars
    <3> DEFINE a == n * size + size
    <3>1. a \in Int
      BY <1>1, <2>1
    <3> HIDE DEF a
    <3>2. Min({a, bars}) \in {a, bars} /\ Min({a, bars}) <= a /\ Min({a, bars}) <= bars
      BY <3>1, MinOfTwo
    <3> QED
      BY <3>2 DEF a
  <2> QED
    BY <1>1, <2>1, <2>2 DEF Window
<1> HIDE DEF Part
<1>7. ASSUME NEW i \in DOMAIN ranges
      PROVE  /\ 0 <= ranges[i].from /\ ranges[i].from < ranges[i].to
             /\ ranges[i].test - ranges[i].to >= config.embargo
             /\ ranges[i].test < ranges[i].end /\ ranges[i].end <= bars
  <2>1. i - 1 \in Nat /\ i - 1 \in 0..(kept - 1) /\ ranges[i] = Part(i - 1)
    BY <1>4, <1>5, <1>7
  <2>2. Fits(Part(i - 1), bars)
    BY <1>4, <2>1
  <2> QED
    BY <1>6, <2>1, <2>2 DEF Fits
<1>8. ASSUME NEW i \in DOMAIN ranges, NEW j \in DOMAIN ranges, i < j
      PROVE  ranges[i].end <= ranges[j].from
  <2>1. i - 1 \in Nat /\ j - 1 \in Nat /\ ranges[i] = Part(i - 1) /\ ranges[j] = Part(j - 1)
    BY <1>4, <1>5, <1>8
  <2>2. (i - 1) * size + size <= (j - 1) * size
    <3>1. i - 1 < j - 1
      BY <1>5, <1>8
    <3> HIDE DEF size
    <3> QED
      BY <1>1, <2>1, <3>1, NextMultiple
  <2>3. Part(i - 1).end <= (i - 1) * size + size /\ Part(j - 1).from = (j - 1) * size
    BY <1>6, <2>1
  <2>4. Part(i - 1).end \in Nat /\ (i - 1) * size \in Nat /\ (j - 1) * size \in Nat
    BY <1>6, <2>1
  <2> HIDE DEF size
  <2> QED
    BY <1>1, <2>1, <2>2, <2>3, <2>4
<1>9. ranges \in Seq(Range(ranges))
  <2>1. \A i \in 1..kept : ranges[i] \in Range(ranges)
    BY <1>5 DEF Range
  <2>2. ranges \in [1..kept -> Range(ranges)]
    <3> HIDE DEF size
    <3> QED
      BY <1>3, <2>1, <1>5
  <2> QED
    BY <1>4, <2>2
<1> QED
  BY <1>4, <1>5, <1>7, <1>8, <1>9

LEMMA ConfigFacts ==
  ASSUME NEW c PROVE Config(c).folds \in Nat \ {0} /\ Config(c).embargo \in Nat
  BY DEF Config

\* Windows that wait wait only inside the test, of a number of bars that is
\* known.
FoldsInv ==
    /\ total \in Nat
    /\ windows \in Seq(Range(windows))
    /\ gate # "fold" => windows = <<>>
    /\ FoldsApart

LEMMA NoWindows ==
  ASSUME total' \in Nat, windows' = <<>>
  PROVE  FoldsInv'
  BY DEF FoldsInv, FoldsApart, Range

LEMMA SameWindows ==
  ASSUME FoldsInv, UNCHANGED <<caller, total, windows>>, gate' = gate \/ windows = <<>>
  PROVE  FoldsInv'
  BY DEF FoldsInv, FoldsApart

\* The folds are cut.
LEMMA CutKeeps == FoldsInv /\ Cut => FoldsInv'
<1> SUFFICES ASSUME FoldsInv, Cut PROVE FoldsInv'
  OBVIOUS
<1>1. PICK whole \in InSampleSizes(total \div Config(caller).folds) :
          IF Refused(total, Config(caller), whole)
          THEN total' = 0 /\ windows' = windows
          ELSE windows' = FoldRanges(total, Config(caller), whole) /\ total' = total
                 /\ gate' = "fold"
  BY DEF Cut
<1>2. CASE Refused(total, Config(caller), whole)
  <2>1. windows = <<>>
    BY DEF Cut, FoldsInv
  <2> QED
    BY <1>1, <1>2, <2>1, NoWindows
<1>3. CASE ~Refused(total, Config(caller), whole)
  <2> DEFINE config == Config(caller)
             ranges == FoldRanges(total, config, whole)
  <2>1. config.folds \in Nat \ {0} /\ config.embargo \in Nat /\ total \in Nat
    BY ConfigFacts DEF FoldsInv
  <2>2. whole \in Int /\ whole > config.embargo
    <3>1. total \div config.folds \in Nat
      BY <2>1
    <3>2. whole \in Int
      BY <3>1 DEF InSampleSizes
    <3> QED
      BY <1>3, <2>1, <3>2 DEF Refused
  <2>3. windows' = ranges /\ total' = total /\ gate' = "fold" /\ caller' = caller
    BY <1>1, <1>3 DEF Cut
  <2> HIDE DEF config, ranges
  <2>4. /\ ranges \in Seq(Range(ranges))
        /\ \A i \in DOMAIN ranges :
               /\ 0 <= ranges[i].from /\ ranges[i].from < ranges[i].to
               /\ ranges[i].test - ranges[i].to >= config.embargo
               /\ ranges[i].test < ranges[i].end /\ ranges[i].end <= total
        /\ \A i, j \in DOMAIN ranges : i < j => ranges[i].end <= ranges[j].from
    <3>1. ranges = FoldRanges(total, config, whole)
      BY DEF ranges
    <3> QED
      BY <2>1, <2>2, <3>1, RangesApart
  <2>5. FoldsApart'
    BY <2>3, <2>4 DEF FoldsApart, config
  <2> QED
    BY <2>1, <2>3, <2>4, <2>5 DEF FoldsInv
<1> QED
  BY <1>2, <1>3

\* A fold is run, and its window goes.
LEMMA RunFoldKeeps == FoldsInv /\ RunFold => FoldsInv'
<1> SUFFICES ASSUME FoldsInv, RunFold PROVE FoldsInv'
  OBVIOUS
<1>1. windows # <<>> /\ windows' = Tail(windows) /\ gate = "fold"
      /\ UNCHANGED <<caller, gate, total>>
  BY DEF RunFold
<1>2. windows \in Seq(Range(windows))
  BY DEF FoldsInv
<1> DEFINE rest == Tail(windows)
<1>3. /\ rest \in Seq(Range(windows))
      /\ DOMAIN rest = 1..(Len(windows) - 1) /\ DOMAIN windows = 1..Len(windows)
      /\ \A i \in DOMAIN rest : i + 1 \in DOMAIN windows /\ rest[i] = windows[i + 1]
  BY <1>1, <1>2
<1> HIDE DEF rest
<1>4. rest \in Seq(Range(rest))
  <2>1. rest \in [DOMAIN rest -> Range(rest)]
    BY <1>3 DEF Range
  <2>2. Len(windows) - 1 \in Nat
    BY <1>1, <1>2
  <2> QED
    BY <1>3, <2>1, <2>2
<1>5. windows' = rest
  BY <1>1 DEF rest
<1>6. FoldsApart'
  <2>1. ASSUME NEW i \in DOMAIN rest
        PROVE  /\ 0 <= rest[i].from /\ rest[i].from < rest[i].to
               /\ rest[i].test - rest[i].to >= Config(caller).embargo
               /\ rest[i].test < rest[i].end /\ rest[i].end <= total
    BY <1>3, <2>1 DEF FoldsInv, FoldsApart
  <2>2. ASSUME NEW i \in DOMAIN rest, NEW j \in DOMAIN rest, i < j
        PROVE  rest[i].end <= rest[j].from
    <3>1. /\ i + 1 \in DOMAIN windows /\ j + 1 \in DOMAIN windows /\ i + 1 < j + 1
          /\ rest[i] = windows[i + 1] /\ rest[j] = windows[j + 1]
      BY <1>3, <2>2
    <3> QED
      BY <3>1 DEF FoldsInv, FoldsApart
  <2> QED
    BY <1>1, <1>5, <2>1, <2>2 DEF FoldsApart
<1> QED
  BY <1>1, <1>4, <1>5, <1>6 DEF FoldsInv

\* No bar of a fold still to be run is used twice, and a bar traded out of
\* sample lies a whole embargo behind those in sample (walk_forward.rs:127).
THEOREM FoldsAreApart == ValidationSpec => []FoldsApart
<1>1. ValidationInit => FoldsInv
  BY DEF ValidationInit, FoldsInv, FoldsApart, Range
<1>2. FoldsInv /\ [ValidationNext]_validation => FoldsInv'
  <2> SUFFICES ASSUME FoldsInv, [ValidationNext]_validation PROVE FoldsInv'
    OBVIOUS
  <2>1. CASE RunSymbol \/ TestSymbol
    <3>1. windows' = <<>> /\ total' \in Nat
      BY <2>1, BarsAssumption DEF RunSymbol, TestSymbol, FoldsInv
    <3> QED
      BY <3>1, NoWindows
  <2>2. CASE JudgeFolds
    BY <2>2, NoWindows DEF JudgeFolds
  <2>3. CASE UNCHANGED validation \/ Audit \/ SkipSymbol \/ Combine \/ EndTest \/ RunPath
             \/ JudgePaths \/ JudgeChallenge
    BY <2>3, SameWindows
    DEF validation, Audit, SkipSymbol, Combine, EndTest, RunPath, JudgePaths, JudgeChallenge,
        FoldsInv
  <2> QED
    BY <2>1, <2>2, <2>3, CutKeeps, RunFoldKeeps DEF ValidationNext
<1>3. FoldsInv => FoldsApart
  BY DEF FoldsInv
<1> QED
  BY <1>1, <1>2, <1>3, PTL DEF ValidationSpec

-----------------------------------------------------------------------------
\* The larger of two numbers.
LEMMA MaxOfTwo ==
  ASSUME NEW a \in Int, NEW b \in Int
  PROVE  Max({a, b}) \in {a, b} /\ Max({a, b}) >= a /\ Max({a, b}) >= b
<1>1. \E x \in {a, b} : \A y \in {a, b} : x >= y
  OBVIOUS
<1> QED
  BY <1>1 DEF Max

-----------------------------------------------------------------------------
(* Ruin among the resampled paths.                                         *)

\* An account that is ruined stands deep below its peak, and below the start.
Sane(p) ==
    /\ p \in [equity : Int, peak : Int, deep : BOOLEAN, ruined : BOOLEAN]
    /\ p.peak >= StartBalance
    /\ p.ruined => p.deep /\ p.equity < StartBalance

\* A new path is at its start.
LEMMA FreshIsSane == Sane(Fresh)
BY DEF Sane, Fresh, StartBalance

\* A trade keeps a path in order (monte_carlo.rs:136).
LEMMA StepIsSane ==
  ASSUME NEW p, Sane(p), NEW pnl \in Int
  PROVE  Sane(Step(p, pnl))
<1> DEFINE equity == p.equity + pnl
           peak   == Max({p.peak, equity})
           next   == [equity |-> equity, peak |-> peak,
                      deep |-> p.deep \/ 1000 * (peak - equity) >= 55 * peak,
                      ruined |-> 100 * equity <= 94 * StartBalance]
<1>1. equity \in Int /\ p.peak \in Int /\ p.deep \in BOOLEAN /\ StartBalance = 20000
      /\ p.peak >= StartBalance
  BY DEF Sane, StartBalance
<1>2. peak \in Int /\ peak >= p.peak
  <2> DEFINE old == p.peak
  <2>1. old \in Int /\ equity \in Int /\ peak = Max({old, equity})
    BY <1>1
  <2> HIDE DEF equity, old, peak
  <2>2. Max({old, equity}) \in {old, equity} /\ Max({old, equity}) >= old
    BY <2>1, MaxOfTwo
  <2>3. peak \in Int /\ peak >= old
    BY <2>1, <2>2
  <2> QED
    BY <2>3 DEF old
<1>3. Step(p, pnl) = IF p.ruined THEN p ELSE next
  BY DEF Step
<1> HIDE DEF equity, peak
<1>4. 100 * equity <= 94 * StartBalance =>
          1000 * (peak - equity) >= 55 * peak /\ equity < StartBalance
  BY <1>1, <1>2
<1>5. Sane(next)
  <2>1. (1000 * (peak - equity) >= 55 * peak) \in BOOLEAN /\ (100 * equity <= 94 * StartBalance) \in BOOLEAN
    OBVIOUS
  <2>2. next \in [equity : Int, peak : Int, deep : BOOLEAN, ruined : BOOLEAN]
    BY <1>1, <1>2, <2>1
  <2>3. next.peak >= StartBalance
    BY <1>1, <1>2
  <2>4. next.ruined => next.deep /\ next.equity < StartBalance
    BY <1>4
  <2> HIDE DEF next
  <2> QED
    BY <2>2, <2>3, <2>4 DEF Sane
<1> HIDE DEF next
<1> QED
  BY <1>3, <1>5

\* One step of a path.
PathAt(path, l, draw, n) == IF n = 0 THEN Fresh ELSE Step(path[n - 1], l[draw[n]])

RunsThrough(path, l, draw, end) == path = [n \in 0..end |-> PathAt(path, l, draw, n)]

\* A path gets through any draw: at a least length at which it would not, the
\* path before it could be extended.
LEMMA PathEnds ==
  ASSUME NEW l, NEW draw, NEW end \in Nat
  PROVE  \E path : RunsThrough(path, l, draw, end)
<1> DEFINE Upto(k, N) == \A n \in 0..N : k[n] = PathAt(k, l, draw, n)
           Q == {N \in Nat : ~\E k : k = [n \in 0..N |-> k[n]] /\ Upto(k, N)}
<1>1. Q = {}
  <2> SUFFICES ASSUME Q # {} PROVE FALSE
    OBVIOUS
  <2>1. PICK N \in Q : \A m \in Q : N <= m
    <3>1. Q \subseteq Nat
      OBVIOUS
    <3> HIDE DEF Q
    <3> QED
      BY <3>1, LeastNumber
  <2>2. CASE N = 0
    <3> DEFINE k == [n \in 0..0 |-> Fresh]
    <3>1. k = [n \in 0..0 |-> k[n]] /\ Upto(k, 0)
      BY DEF PathAt
    <3> QED
      BY <2>2, <3>1
  <2>3. CASE N # 0
    <3>1. N \in Nat /\ N - 1 \in Nat /\ N - 1 \notin Q
      BY <2>1, <2>3
    <3>2. PICK k : k = [n \in 0..(N - 1) |-> k[n]] /\ Upto(k, N - 1)
      BY <3>1
    <3> DEFINE j == [n \in 0..N |-> IF n = N THEN PathAt(k, l, draw, N) ELSE k[n]]
    <3>3. j = [n \in 0..N |-> j[n]]
      OBVIOUS
    <3>4. ASSUME NEW n \in 0..N PROVE j[n] = PathAt(j, l, draw, n)
      <4>1. CASE n = N
        <5>1. j[N - 1] = k[N - 1] /\ N \in 0..N /\ j[N] = PathAt(k, l, draw, N)
          BY <2>3, <3>1
        <5> HIDE DEF j
        <5> QED
          BY <4>1, <5>1 DEF PathAt
      <4>2. CASE n # N
        <5>1. n \in 0..(N - 1) /\ j[n] = k[n] /\ (n # 0 => j[n - 1] = k[n - 1])
          BY <3>1, <4>2
        <5>2. k[n] = PathAt(k, l, draw, n)
          BY <3>2, <5>1
        <5> HIDE DEF j
        <5> QED
          BY <5>1, <5>2 DEF PathAt
      <4> QED
        BY <4>1, <4>2
    <3>5. Upto(j, N)
      BY <3>4
    <3> HIDE DEF j, Upto
    <3> QED
      BY <2>1, <3>3, <3>5
  <2> QED
    BY <2>2, <2>3
<1>2. PICK k : k = [n \in 0..end |-> k[n]] /\ Upto(k, end)
  BY <1>1
<1>3. RunsThrough(k, l, draw, end)
  BY <1>2 DEF RunsThrough
<1> QED
  BY <1>3

\* What a path comes to.
PathEnd == [final : Int, deep : BOOLEAN, ruined : BOOLEAN]

Shows(o) == o \in PathEnd /\ (o.ruined => o.deep /\ o.final < StartBalance)

\* A path drawn ends as one that shows its ruin.
LEMMA PathShows ==
  ASSUME NEW l \in Seq(Int), NEW draw \in Seq(1..Len(l))
  PROVE  Shows(Path(l, draw))
<1> DEFINE path == CHOOSE p : p = [n \in 0..Len(draw) |-> PathAt(p, l, draw, n)]
<1>1. Len(draw) \in Nat
  OBVIOUS
<1>2. path = [n \in 0..Len(draw) |-> PathAt(path, l, draw, n)]
  <2>1. \E p : RunsThrough(p, l, draw, Len(draw))
    BY <1>1, PathEnds
  <2> QED
    BY <2>1 DEF RunsThrough
<1>3. Path(l, draw) = [final |-> path[Len(draw)].equity, deep |-> path[Len(draw)].deep,
                       ruined |-> path[Len(draw)].ruined]
  BY DEF Path, PathAt
<1> HIDE DEF path
<1> DEFINE Q == {n \in 0..Len(draw) : ~Sane(path[n])}
<1>4. Q = {}
  <2> SUFFICES ASSUME Q # {} PROVE FALSE
    OBVIOUS
  <2>1. PICK n \in Q : \A m \in Q : n <= m
    <3>1. Q \subseteq Nat
      BY <1>1
    <3> HIDE DEF Q
    <3> QED
      BY <3>1, LeastNumber
  <2>2. n \in 0..Len(draw) /\ ~Sane(path[n]) /\ path[n] = PathAt(path, l, draw, n)
    BY <1>2
  <2>3. n # 0
    BY <2>2, FreshIsSane DEF PathAt
  <2>4. n - 1 \in 0..Len(draw) /\ n - 1 \notin Q /\ n \in 1..Len(draw)
    <3>1. n - 1 \in 0..Len(draw) /\ n \in 1..Len(draw) /\ ~(n <= n - 1)
      BY <1>1, <2>2, <2>3
    <3> HIDE DEF Q
    <3> QED
      BY <2>1, <3>1
  <2>5. Sane(path[n - 1])
    BY <2>4
  <2>6. l[draw[n]] \in Int
    BY <2>4
  <2>7. path[n] = Step(path[n - 1], l[draw[n]])
    BY <2>2, <2>3 DEF PathAt
  <2> HIDE DEF Q
  <2> QED
    BY <2>2, <2>5, <2>6, <2>7, StepIsSane
<1>5. Sane(path[Len(draw)])
  <2>1. Len(draw) \in 0..Len(draw)
    BY <1>1
  <2> QED
    BY <1>4, <2>1
<1> QED
  BY <1>3, <1>5 DEF Sane, Shows, PathEnd

\* The draws are indices of trades.
LEMMA DrawsAreIndices ==
  ASSUME NEW n \in Nat, n > 0, NEW draw \in Draws(n), BlockLength \in Nat \ {0}
  PROVE  draw \in Seq(1..n)
<1> DEFINE B == 0..((n - 1) \div BlockLength)
<1>1. PICK block \in [B -> 0..(n - 1)] :
          draw = [i \in 1..n |-> 1 + ((block[(i - 1) \div BlockLength] + ((i - 1) % BlockLength)) % n)]
  BY DEF Draws
<1>2. ASSUME NEW i \in 1..n
      PROVE  1 + ((block[(i - 1) \div BlockLength] + ((i - 1) % BlockLength)) % n) \in 1..n
  <2>1. (i - 1) \div BlockLength \in B
    <3>1. ASSUME NEW a \in Nat, NEW b \in Nat, a <= b, NEW d \in Nat \ {0}
          PROVE  a \div d \in Nat /\ b \div d \in Nat /\ a \div d <= b \div d
      <4>1. a = d * (a \div d) + (a % d) /\ b = d * (b \div d) + (b % d)
            /\ (a % d) \in 0..(d - 1) /\ (b % d) \in 0..(d - 1)
            /\ a \div d \in Nat /\ b \div d \in Nat
        BY <3>1
      <4> DEFINE p == a \div d
                 q == b \div d
      <4>2. p > q => d * p >= d * q + d
        <5> SUFFICES ASSUME p > q PROVE d * p >= d * q + d
          OBVIOUS
        <5>1. p - q - 1 \in Nat
          BY <4>1
        <5> HIDE DEF p, q
        <5>2. d * (p - q - 1) \in Nat /\ p \in Int /\ q \in Int
          BY <4>1, <5>1 DEF p, q
        <5>3. d * p = d * q + d + d * (p - q - 1)
          BY <5>2
        <5> QED
          BY <5>2, <5>3
      <4> QED
        BY <3>1, <4>1, <4>2
    <3>2. i - 1 \in Nat /\ n - 1 \in Nat /\ i - 1 <= n - 1
      OBVIOUS
    <3> HIDE DEF B
    <3>3. (i - 1) \div BlockLength \in Nat /\ (n - 1) \div BlockLength \in Nat
          /\ (i - 1) \div BlockLength <= (n - 1) \div BlockLength
      BY <3>1, <3>2
    <3> QED
      BY <3>3 DEF B
  <2>2. block[(i - 1) \div BlockLength] \in 0..(n - 1)
    BY <2>1
  <2> DEFINE x == block[(i - 1) \div BlockLength]
             y == (i - 1) % BlockLength
  <2>3. x \in Nat /\ y \in Nat
    BY <2>2
  <2> HIDE DEF x, y
  <2>4. (x + y) % n \in 0..(n - 1)
    BY <2>3
  <2>5. 1 + ((x + y) % n) \in 1..n
    BY <2>4
  <2> QED
    BY <2>5 DEF x, y
<1> QED
  BY <1>1, <1>2

\* Everything resampled so far shows its ruin; the trades are the backtest's.
PathsInv ==
    /\ trades \in Seq(Int)
    /\ IsFiniteSet(DOMAIN paths) /\ paths \in [DOMAIN paths -> Nat]
    /\ \A o \in DOMAIN paths : Shows(o)

\* The next path drawn shows its ruin as well.
LEMMA RunPathKeeps == PathsInv /\ RunPath => PathsInv'
<1> SUFFICES ASSUME PathsInv, RunPath PROVE PathsInv'
  OBVIOUS
<1>1. BlockLength \in Nat \ {0}
  BY PathsAssumption
<1>2. PICK draw \in Draws(Len(trades)) : paths' = paths (+) SetToBag({Path(trades, draw)})
  BY DEF RunPath
<1>3. trades \in Seq(Int) /\ trades # <<>> /\ trades' = trades
  BY DEF RunPath, PathsInv
<1>4. Len(trades) \in Nat /\ Len(trades) > 0
  BY <1>3
<1>5. draw \in Seq(1..Len(trades))
  BY <1>1, <1>2, <1>4, DrawsAreIndices
<1> DEFINE o == Path(trades, draw)
<1>6. Shows(o)
  BY <1>3, <1>5, PathShows
<1> HIDE DEF o
<1>7. DOMAIN paths' = DOMAIN paths \cup {o} /\ paths' \in [DOMAIN paths' -> Nat]
  <2>1. paths' = [e \in DOMAIN paths \cup {o} |->
                     (IF e \in DOMAIN paths THEN paths[e] ELSE 0) + (IF e \in {o} THEN 1 ELSE 0)]
    <3>1. DOMAIN SetToBag({o}) = {o} /\ \A e \in {o} : SetToBag({o})[e] = 1
      BY DEF SetToBag
    <3> DEFINE b == SetToBag({o})
    <3>2. paths' = paths (+) b
      BY <1>2 DEF o
    <3> HIDE DEF b
    <3>3. DOMAIN b = {o} /\ \A e \in {o} : b[e] = 1
      BY <3>1 DEF b
    <3> QED
      BY <3>2, <3>3 DEF (+)
  <2>2. \A e \in DOMAIN paths : paths[e] \in Nat
    BY DEF PathsInv
  <2> QED
    BY <2>1, <2>2
<1>8. IsFiniteSet(DOMAIN paths')
  BY <1>7, FS_AddElement DEF PathsInv
<1> QED
  BY <1>3, <1>6, <1>7, <1>8 DEF PathsInv

\* Counting ruin one way and the other.
LEMMA RuinIsSeen == PathsInv => RuinShows
<1> SUFFICES ASSUME PathsInv, PathsRun = NumPaths, P5Whole \/ P95Shallow
             PROVE  20 * Ruins <= NumPaths
  BY DEF RuinShows
<1> DEFINE D       == DOMAIN paths
           ruined  == {o \in D : o.ruined}
           poor    == {o \in D : o.final < StartBalance}
           shallow == {o \in D : ~o.deep}
           Count(s) == SumFunctionOnSet(paths, s)
<1>1. IsFiniteSet(D) /\ paths \in [D -> Nat] /\ paths \in [D -> Int]
      /\ \A o \in D : paths[o] >= 0
  BY DEF PathsInv
<1>2. ruined \in SUBSET D /\ poor \in SUBSET D /\ shallow \in SUBSET D /\ D \in SUBSET D
      /\ ruined \subseteq poor /\ shallow \in SUBSET (D \ ruined)
      /\ ruined \cup shallow \in SUBSET D
  BY DEF PathsInv, Shows
<1>3. Ruins = Count(ruined) /\ NumPaths = Count(D)
      /\ (P5Whole <=> Count(poor) <= NumPaths \div 20)
      /\ (P95Shallow <=> Count(shallow) > (NumPaths * 19) \div 20)
  BY DEF Ruins, PathsRun, P5Whole, P95Shallow, Many, SumFunction
<1>4. NumPaths \in Nat
  BY PathsAssumption
<1> HIDE DEF D, ruined, poor, shallow
<1>5. Count(ruined) \in Int /\ Count(poor) \in Int /\ Count(shallow) \in Int
  BY <1>1, <1>2, SumType
<1>6. Count(ruined) <= Count(poor)
  BY <1>1, <1>2, SumOfPart
<1>7. Count(ruined) + Count(shallow) <= Count(D)
  <2>1. Count(ruined \cup shallow) = Count(ruined) + Count(shallow)
    BY <1>1, <1>2, SumOfParts
  <2>2. Count(ruined \cup shallow) <= Count(D)
    BY <1>1, <1>2, SumOfPart
  <2> QED
    BY <2>1, <2>2
<1> HIDE DEF Count
<1>8. CASE P5Whole
  BY <1>3, <1>4, <1>5, <1>6, <1>8
<1>9. CASE P95Shallow
  BY <1>3, <1>4, <1>5, <1>7, <1>9
<1> QED
  BY <1>8, <1>9

\* A ruined path shows in both percentiles that gate 3 looks at, for any number
\* of paths, any length of the blocks and any trades (monte_carlo.rs:153).
THEOREM RuinIsShown == ValidationSpec => []RuinShows
<1>1. ValidationInit => PathsInv
  <2>1. DOMAIN EmptyBag = {} /\ EmptyBag \in [{} -> Nat] /\ IsFiniteSet({})
    BY FS_EmptySet DEF EmptyBag, SetToBag
  <2> QED
    BY <2>1 DEF ValidationInit, PathsInv
<1>2. PathsInv /\ [ValidationNext]_validation => PathsInv'
  <2> SUFFICES ASSUME PathsInv, [ValidationNext]_validation PROVE PathsInv'
    OBVIOUS
  <2>1. CASE Combine
    <3>1. trades' \in {<<>>} \cup TradeLists /\ paths' = paths
      BY <2>1 DEF Combine
    <3>2. <<>> \in Seq(Int) /\ TradeLists \subseteq Seq(Int)
      BY PathsAssumption
    <3>3. trades' \in Seq(Int)
      BY <3>1, <3>2, Zenon
    <3> QED
      BY <3>1, <3>3 DEF PathsInv
  <2>2. CASE UNCHANGED <<trades, paths>>
    BY <2>2 DEF PathsInv
  <2> QED
    BY <2>1, <2>2, RunPathKeeps
    DEF ValidationNext, validation, Audit, SkipSymbol, RunSymbol, TestSymbol, EndTest, Cut,
        RunFold, JudgeFolds, JudgePaths, JudgeChallenge
<1> QED
  BY <1>1, <1>2, RuinIsSeen, PTL DEF ValidationSpec

-----------------------------------------------------------------------------
(* The bar store.                                                          *)

\* The files of an import that is begun.
Readable == {file \in Exports : file.tf # Unknown}

RowFields == {"prices", "close", "vol", "made", "odd"}

OnGrid(t, tf) == \E q \in Nat : t = Seconds[tf] * q

\* A row keeps its shape; one that fits its timeframe starts where a bar does and
\* knows no price from after it.
Sound(series, tf) ==
    /\ DOMAIN series \subseteq Minutes
    /\ \A t \in DOMAIN series :
        /\ DOMAIN series[t] = RowFields /\ Held(series[t]) \subseteq Nat
        /\ ~series[t].odd => OnGrid(t, tf) /\ \A m \in Held(series[t]) : m < t + Seconds[tf]

-----------------------------------------------------------------------------
(* The grid.                                                               *)

LEMMA SecondsType == \A tf \in Timeframes : Seconds[tf] \in Nat /\ Seconds[tf] > 0
BY TimeAssumption

LEMMA MinutesAreNat == Minutes \subseteq Nat /\ (LastDay + 1) * DayLen - 1 \in Int
<1>1. (LastDay + 1) * DayLen \in Nat
  BY TimeAssumption
<1>2. QED BY <1>1 DEF Minutes

\* A number of minutes is a multiple of the step and a rest.
LEMMA DivideBy ==
    ASSUME NEW t \in Nat, NEW k \in Nat, k > 0
    PROVE  /\ t % k \in 0..(k - 1) /\ t \div k \in Nat
           /\ t = k * (t \div k) + (t % k)
<1>1. t % k \in 0..(k - 1)
  OBVIOUS
<1> DEFINE q == t \div k
           r == t % k
<1>2. q \in Int /\ t = k * q + r
  OBVIOUS
<1>3. q \in Nat
  <2> HIDE DEF q, r
  <2> SUFFICES ASSUME q < 0 PROVE FALSE
    BY <1>2
  <2>1. -q - 1 \in Nat /\ q = -1 - (-q - 1)
    BY <1>2
  <2>2. PICK d \in Nat : q = -1 - d
    BY <2>1
  <2>3. k * d \in Nat /\ k * q = -k - k * d
    BY <2>2
  <2>4. QED BY <1>1, <1>2, <2>3 DEF r
<1>4. QED BY <1>1, <1>2, <1>3

\* align_timestamp (aggregator.rs:60) finds the bar a minute lies in.
LEMMA AlignFacts ==
    ASSUME NEW t \in Minutes, NEW tf \in Timeframes
    PROVE  /\ Align(t, tf) \in Minutes
           /\ Align(t, tf) <= t /\ t < Align(t, tf) + Seconds[tf]
           /\ t \div Seconds[tf] \in Nat
           /\ Align(t, tf) = Seconds[tf] * (t \div Seconds[tf])
<1> DEFINE k == Seconds[tf]
<1>1. k \in Nat /\ k > 0 /\ t \in Nat
  BY SecondsType, MinutesAreNat
<1> HIDE DEF k
<1>2. /\ t % k \in 0..(k - 1) /\ t \div k \in Nat
      /\ t = k * (t \div k) + (t % k)
  BY <1>1, DivideBy
<1>3. k * (t \div k) \in Int
  BY <1>1, <1>2
<1>4. t - (t % k) = k * (t \div k) /\ t - (t % k) \in Nat
      /\ t - (t % k) <= t /\ t < t - (t % k) + k
  <2> DEFINE p == k * (t \div k)
             r == t % k
  <2>1. p \in Int /\ r \in 0..(k - 1) /\ t = p + r
    BY <1>1, <1>2, <1>3
  <2> DEFINE q == t \div k
  <2>2. p \in Nat
    <3>1. q \in Nat
      BY <1>2
    <3> HIDE DEF q
    <3>2. k * q \in Nat
      BY <1>1, <3>1
    <3>3. QED BY <3>2 DEF q
  <2> HIDE DEF p, r
  <2>3. t - r = p /\ t - r \in Nat /\ t - r <= t /\ t < t - r + k
    BY <1>1, <2>1, <2>2
  <2>4. QED BY <2>3 DEF p, r
<1>5. Align(t, tf) = t - (t % k)
  BY DEF Align, k
<1>6. Align(t, tf) \in Minutes
  BY <1>1, <1>4, <1>5, MinutesAreNat DEF Minutes
<1>7. QED BY <1>2, <1>4, <1>5, <1>6 DEF k

\* A bar on the grid of its timeframe does not reach beyond the bar it lies in of
\* one that is not finer.
LEMMA SpanWithin ==
    ASSUME NEW t \in Minutes, NEW tf \in Timeframes, NEW u \in Timeframes,
           OnGrid(t, tf), Seconds[tf] <= Seconds[u]
    PROVE  t + Seconds[tf] <= Align(t, u) + Seconds[u]
<1> DEFINE k == Seconds[tf]
           n == Seconds[u]
           p == t \div n
           r == n \div k
<1>1. /\ k \in Nat /\ k > 0 /\ n \in Nat /\ n > 0 /\ n % k = 0
      /\ p \in Nat /\ Align(t, u) = n * p /\ t < Align(t, u) + n
  BY SecondsType, AlignFacts, TimeAssumption
<1>2. PICK q \in Nat : t = k * q
  BY DEF OnGrid
<1>3. r \in Nat /\ n = k * r
  <2> HIDE DEF k, n
  <2>1. n % k \in 0..(k - 1) /\ n \div k \in Nat /\ n = k * (n \div k) + (n % k)
    BY <1>1, DivideBy
  <2>2. k * (n \div k) \in Int
    BY <1>1, <2>1
  <2>3. QED BY <1>1, <2>1, <2>2
<1> HIDE DEF r, p
<1> DEFINE s == r * p + r
<1>4. s \in Nat /\ n * p + n = k * s
  <2> HIDE DEF k, n
  <2>1. r * p \in Nat
    BY <1>1, <1>3
  <2>2. (k * r) * p = k * (r * p) /\ k * (r * p + r) = k * (r * p) + k * r
    BY <1>1, <1>3, <2>1
  <2>3. QED BY <1>1, <1>3, <2>1, <2>2
<1> HIDE DEF s
<1>5. k * q < k * s
  BY <1>1, <1>2, <1>4
<1>6. q < s
  <2> HIDE DEF k, n
  <2> SUFFICES ASSUME s <= q PROVE FALSE
    BY <1>2, <1>4
  <2>1. PICK d \in Nat : q = s + d
    <3>1. q - s \in Nat /\ q = s + (q - s)
      BY <1>2, <1>4
    <3>2. QED BY <3>1
  <2>2. k * q = k * s + k * d /\ k * d \in Nat /\ k * s \in Nat
    BY <1>1, <1>4, <2>1
  <2>3. QED BY <1>5, <2>2
<1>7. k * q + k <= k * s
  <2> HIDE DEF k, n
  <2>1. q * k + k <= s * k
    BY <1>1, <1>2, <1>4, <1>6, NextMultiple
  <2>2. q * k = k * q /\ s * k = k * s
    BY <1>1, <1>2, <1>4
  <2>3. QED BY <2>1, <2>2
<1>8. QED BY <1>1, <1>2, <1>4, <1>7

\* A set of minutes that is not empty has a latest.
LEMMA LatestMinute ==
    ASSUME NEW S \in SUBSET Minutes, S # {}
    PROVE  Max(S) \in S
<1> DEFINE n == (LastDay + 1) * DayLen - 1
           age(t) == n - t
           T == {age(t) : t \in S}
<1>1. n \in Int /\ \A t \in S : t \in 0..n
  BY MinutesAreNat DEF Minutes
<1> HIDE DEF n
<1>2. T \subseteq Nat /\ T # {}
  <2>1. \A t \in S : age(t) \in Nat
    BY <1>1
  <2>2. QED BY <2>1
<1>3. PICK a \in T : \A b \in T : ~(<<b, a>> \in OpToRel(<, Nat))
  BY <1>2, WFMin, NatLessThanWellFounded
<1>4. \A b \in T : ~(b < a)
  BY <1>2, <1>3 DEF OpToRel
<1>5. PICK t \in S : a = age(t)
  BY <1>3
<1>6. ASSUME NEW s \in S PROVE t >= s
  <2>1. age(s) \in T
    OBVIOUS
  <2>2. ~(age(s) < age(t))
    BY <1>4, <1>5, <2>1
  <2>3. n \in Int /\ s \in Int /\ t \in Int
    BY <1>1
  <2>4. ~(n - s < n - t)
    BY <2>2
  <2> HIDE DEF age, T
  <2>5. QED BY ONLY <2>3, <2>4, SMTT(30)
<1>7. QED BY <1>6 DEF Max

-----------------------------------------------------------------------------
(* The operators on series.                                                *)

\* aggregate_bars (aggregator.rs:18) makes rows that fit of rows that fit, unless
\* the bars are to be finer.
LEMMA AggregateSound ==
    ASSUME NEW series, NEW from \in Timeframes, NEW tf \in Timeframes, Sound(series, from)
    PROVE  Sound(Aggregate(series, from, tf), tf)
<1> DEFINE new == Aggregate(series, from, tf)
           finer == Seconds[tf] < Seconds[from]
<1>1. DOMAIN series \subseteq Minutes
  BY DEF Sound
<1>2. DOMAIN new = {Align(t, tf) : t \in DOMAIN series} /\ DOMAIN new \subseteq Minutes
  BY <1>1, AlignFacts DEF Aggregate
<1>3. ASSUME NEW b \in DOMAIN new
      PROVE  /\ DOMAIN new[b] = RowFields /\ Held(new[b]) \subseteq Nat
             /\ ~new[b].odd => OnGrid(b, tf) /\ \A m \in Held(new[b]) : m < b + Seconds[tf]
  <2> DEFINE times == Bucket(series, b, tf)
  <2>1. times \subseteq DOMAIN series /\ times # {} /\ \A t \in times : Align(t, tf) = b
    BY <1>2 DEF Bucket
  <2>2. Max(times) \in times
    BY <1>1, <2>1, LatestMinute
  <2>3. new[b] = Merge(series, times, finer)
    BY <1>2 DEF Aggregate
  <2> HIDE DEF times, new, finer
  <2>4. /\ DOMAIN new[b] = RowFields
        /\ new[b].prices = UNION {series[t].prices : t \in times}
        /\ new[b].close = series[Max(times)].close
        /\ new[b].odd = (finer \/ \E t \in times : series[t].odd)
    BY <2>3 DEF Merge, Row, RowFields
  <2>5. \A m \in Held(new[b]) : \E t \in times : m \in Held(series[t])
    BY <2>2, <2>4 DEF Held
  <2>6. Held(new[b]) \subseteq Nat
    BY <2>1, <2>5 DEF Sound
  <2>7. ASSUME ~new[b].odd
        PROVE  OnGrid(b, tf) /\ \A m \in Held(new[b]) : m < b + Seconds[tf]
    <3>1. ~finer /\ \A t \in times : ~series[t].odd
      BY <2>4, <2>7
    <3>2. Seconds[from] <= Seconds[tf]
      BY <3>1, SecondsType DEF finer
    <3>3. OnGrid(b, tf)
      BY <1>1, <2>1, <2>2, AlignFacts DEF OnGrid
    <3>4. ASSUME NEW m \in Held(new[b]) PROVE m < b + Seconds[tf]
      <4>1. PICK t \in times : m \in Held(series[t])
        BY <2>5
      <4>2. t \in Minutes /\ Align(t, tf) = b /\ t \in DOMAIN series
        BY <1>1, <2>1
      <4>3. OnGrid(t, from) /\ m < t + Seconds[from] /\ m \in Nat
        BY <3>1, <4>1, <4>2 DEF Sound
      <4>4. t + Seconds[from] <= b + Seconds[tf]
        BY <3>2, <4>2, <4>3, SpanWithin
      <4>5. t \in Nat /\ b \in Nat /\ Seconds[from] \in Nat /\ Seconds[tf] \in Nat
        BY <1>2, <4>2, MinutesAreNat, SecondsType
      <4>6. QED BY <4>3, <4>4, <4>5
    <3>5. QED BY <3>3, <3>4
  <2>8. QED BY <2>4, <2>6, <2>7
<1>4. QED BY <1>2, <1>3 DEF Sound

\* ticks_to_m1 (dukascopy.rs:60): a minute holds its own price.
LEMMA MinutesSound ==
    ASSUME NEW minutes \in SUBSET Minutes
    PROVE  Sound(MinuteRows(minutes), "M1")
<1> DEFINE rows == MinuteRows(minutes)
<1>1. /\ DOMAIN rows = minutes
      /\ \A m \in minutes : rows[m] = Row({m}, m, Market[m], FALSE, FALSE)
  BY DEF MinuteRows
<1> HIDE DEF rows
<1>2. ASSUME NEW t \in DOMAIN rows
      PROVE  /\ DOMAIN rows[t] = RowFields /\ Held(rows[t]) \subseteq Nat
             /\ OnGrid(t, "M1") /\ \A m \in Held(rows[t]) : m < t + Seconds["M1"]
  <2>1. rows[t] = Row({t}, t, Market[t], FALSE, FALSE) /\ t \in Minutes
    BY <1>1
  <2>2. t \in Nat /\ t < t + Seconds["M1"] /\ t = Seconds["M1"] * t
    BY <2>1, MinutesAreNat, TimeAssumption
  <2>3. DOMAIN rows[t] = RowFields /\ Held(rows[t]) = {t}
    BY <2>1 DEF Row, RowFields, Held
  <2>4. QED BY <2>2, <2>3 DEF OnGrid
<1>3. Sound(rows, "M1")
  BY <1>1, <1>2 DEF Sound
<1>4. QED BY <1>3 DEF rows

\* import_csv (csv_import.rs:32) checks nothing: what does not fit is marked.
LEMMA TakenSound ==
    ASSUME NEW file \in Readable
    PROVE  Sound(Taken(file), file.tf)
<1> DEFINE rows == Taken(file)
           tf == file.tf
<1>1. /\ tf \in Timeframes
      /\ DOMAIN file.rows \subseteq Minutes
      /\ \A t \in DOMAIN file.rows :
            DOMAIN file.rows[t] = RowFields /\ Held(file.rows[t]) \subseteq Nat
  BY ExportsAssumption DEF Readable, RowFields
<1>2. ASSUME NEW t \in DOMAIN file.rows
      PROVE  /\ DOMAIN rows[t] = RowFields /\ Held(rows[t]) \subseteq Nat
             /\ ~rows[t].odd => OnGrid(t, tf) /\ \A m \in Held(rows[t]) : m < t + Seconds[tf]
  <2> DEFINE row == file.rows[t]
             misfit == t % Seconds[tf] # 0 \/ \E m \in Held(row) : m >= t + Seconds[tf]
  <2>1. rows[t] = [row EXCEPT !.odd = misfit]
    BY DEF Taken
  <2>2. t \in Nat /\ Seconds[tf] \in Nat /\ Seconds[tf] > 0
    BY <1>1, MinutesAreNat, SecondsType
  <2>3. DOMAIN row = RowFields /\ Held(row) \subseteq Nat
    BY <1>1
  <2> HIDE DEF rows, row, misfit, tf
  <2>4. /\ DOMAIN rows[t] = RowFields /\ rows[t].odd = misfit
        /\ rows[t].prices = row.prices /\ rows[t].close = row.close
    BY <2>1, <2>3 DEF RowFields
  <2>5. Held(rows[t]) = Held(row)
    BY <2>4 DEF Held
  <2>6. ASSUME ~misfit
        PROVE  OnGrid(t, tf) /\ \A m \in Held(row) : m < t + Seconds[tf]
    <3>1. t % Seconds[tf] = 0 /\ \A m \in Held(row) : ~(m >= t + Seconds[tf])
      BY <2>6 DEF misfit
    <3>2. t \div Seconds[tf] \in Nat /\ t = Seconds[tf] * (t \div Seconds[tf]) + (t % Seconds[tf])
      BY <2>2, DivideBy
    <3>3. Seconds[tf] * (t \div Seconds[tf]) \in Nat
      BY <2>2, <3>2
    <3>4. OnGrid(t, tf)
      BY <3>1, <3>2, <3>3 DEF OnGrid
    <3>5. QED BY <2>2, <2>3, <3>1, <3>4
  <2>7. QED BY <2>3, <2>4, <2>5, <2>6
<1>3. DOMAIN rows = DOMAIN file.rows
  BY DEF Taken
<1> HIDE DEF rows
<1>4. Sound(rows, tf)
  BY <1>1, <1>2, <1>3 DEF Sound
<1>5. QED BY <1>4 DEF rows

LEMMA UpsertSound ==
    ASSUME NEW series, NEW new, NEW tf \in Timeframes, Sound(series, tf), Sound(new, tf)
    PROVE  Sound(Upsert(series, new), tf)
<1> DEFINE up == Upsert(series, new)
<1>1. /\ DOMAIN up = DOMAIN series \union DOMAIN new
      /\ \A t \in DOMAIN up : up[t] = IF t \in DOMAIN new THEN new[t] ELSE series[t]
  BY DEF Upsert
<1> HIDE DEF up
<1>2. Sound(up, tf)
  BY <1>1 DEF Sound
<1>3. QED BY <1>2 DEF up

\* fill_gaps (gap_filler.rs:126): a missing slot holds the close before it, and
\* lies on the grid of the row that has it.
LEMMA SyntheticSound ==
    ASSUME NEW series, NEW tf \in Timeframes, Sound(series, tf)
    PROVE  Sound(Synthetic(series, tf), tf)
<1> DEFINE times == DOMAIN series
           new == Synthetic(series, tf)
<1>1. /\ DOMAIN new = UNION {Slots(w, tf) : w \in Gaps(times, tf)}
      /\ \A t \in DOMAIN new : new[t] = Flat(series[GapBefore(times, t, tf)[1]])
  BY DEF Synthetic
<1>2. times \subseteq Minutes
  BY DEF Sound
<1> HIDE DEF new
<1>3. DOMAIN new \subseteq Minutes
  BY <1>1 DEF Slots
<1>4. ASSUME NEW t \in DOMAIN new
      PROVE  /\ DOMAIN new[t] = RowFields /\ Held(new[t]) \subseteq Nat
             /\ ~new[t].odd => OnGrid(t, tf) /\ \A m \in Held(new[t]) : m < t + Seconds[tf]
  <2> DEFINE w == GapBefore(times, t, tf)
             s == w[1]
             row == series[s]
             c == row.close
  <2>1. w \in Gaps(times, tf) /\ t \in Slots(w, tf)
    <3>1. \E g \in Gaps(times, tf) : t \in Slots(g, tf)
      BY <1>1
    <3>2. QED BY <3>1 DEF GapBefore
  <2>2. s \in times /\ s < t /\ (t - s) % Seconds[tf] = 0
    BY <2>1 DEF Gaps, Neighbours, Slots
  <2>3. /\ c \in Held(row) /\ Held(row) \subseteq Nat
        /\ ~row.odd => OnGrid(s, tf) /\ c < s + Seconds[tf]
    BY <2>2 DEF Sound, Held
  <2>4. new[t] = Flat(row)
    BY <1>1
  <2>7. s \in Nat /\ t \in Nat /\ Seconds[tf] \in Nat /\ Seconds[tf] > 0
    BY <1>2, <1>3, <2>2, MinutesAreNat, SecondsType
  <2> HIDE DEF w, s, row
  <2>5. DOMAIN new[t] = RowFields /\ Held(new[t]) = {c} /\ new[t].odd = row.odd
    BY <2>4 DEF Flat, Row, Held, RowFields
  <2> HIDE DEF c
  <2>6. ASSUME OnGrid(s, tf) PROVE OnGrid(t, tf)
    <3> DEFINE k == Seconds[tf]
               d == t - s
               e == d \div k
    <3>1. PICK q \in Nat : s = k * q
      BY <2>6 DEF OnGrid
    <3>2. k \in Nat /\ k > 0 /\ d \in Nat /\ d % k = 0
      BY <2>2, <2>7
    <3>3. t = s + d
      BY <2>7
    <3> HIDE DEF k, d
    <3>4. e \in Nat /\ d = k * e + (d % k)
      BY <3>2, DivideBy
    <3> HIDE DEF e
    <3>5. k * e \in Nat /\ k * q \in Nat /\ k * (q + e) = k * q + k * e
      BY <3>1, <3>2, <3>4
    <3>6. t = k * (q + e) /\ q + e \in Nat
      BY <3>1, <3>2, <3>3, <3>4, <3>5
    <3>7. QED BY <3>6 DEF OnGrid, k
  <2>8. c \in Nat /\ (~row.odd => OnGrid(t, tf) /\ c < t + Seconds[tf])
    BY <2>2, <2>3, <2>6, <2>7
  <2>9. QED BY <2>5, <2>8
<1>5. Sound(new, tf)
  BY <1>3, <1>4 DEF Sound
<1>6. QED BY <1>5 DEF new

\* process_volumes (volume_processor.rs:144) leaves everything but the volume.
LEMMA VolumesSound ==
    ASSUME NEW series, NEW volumes, NEW tf \in Timeframes, Sound(series, tf)
    PROVE  Sound(SetVolumes(series, volumes), tf)
<1> DEFINE new == SetVolumes(series, volumes)
<1>1. /\ DOMAIN new = DOMAIN series
      /\ \A t \in DOMAIN series :
            new[t] = IF t \in DOMAIN volumes THEN [series[t] EXCEPT !.vol = volumes[t]]
                     ELSE series[t]
  BY DEF SetVolumes
<1> HIDE DEF new
<1>2. ASSUME NEW t \in DOMAIN series
      PROVE  DOMAIN new[t] = RowFields /\ Held(new[t]) = Held(series[t])
             /\ new[t].odd = series[t].odd
  <2>1. DOMAIN series[t] = RowFields
    BY DEF Sound
  <2>2. /\ DOMAIN new[t] = RowFields /\ new[t].prices = series[t].prices
        /\ new[t].close = series[t].close /\ new[t].odd = series[t].odd
    BY <1>1, <2>1 DEF RowFields
  <2>3. QED BY <2>2 DEF Held
<1>3. Sound(new, tf)
  BY <1>1, <1>2 DEF Sound
<1>4. QED BY <1>3 DEF new

-----------------------------------------------------------------------------
(* The store stays sound.                                                  *)

SoundStore ==
    /\ DOMAIN store = Timeframes
    /\ \A tf \in Timeframes : Sound(store[tf], tf)

Downloads ==
    [on : BOOLEAN, day : Int, to : Int, tfs : Seq(Timeframes), left : Seq(Timeframes),
     minutes : SUBSET Minutes]

Cleaning == {"fill", "filling", "smooth", "smoothing", "audit", "audited"}

\* What a command read before it writes is as sound as the series it read.
JobInv ==
    /\ DOMAIN job = {"step", "queue", "plan", "source", "snap", "seen", "passed"}
    /\ job.plan \in Derivations \union {NoPlan}
    /\ job.step = "import" => job.queue \in Seq(Readable) \ {<<>>}
    /\ job.step = "derive" => job.plan # NoPlan
    /\ job.step = "write" =>
        /\ job.queue \in Seq(Timeframes) \ {<<>>}
        /\ job.source \in Timeframes /\ Sound(job.snap, job.source)
    /\ job.step \in Cleaning => job.queue \in Seq(Timeframes) \ {<<>>}
    /\ job.step = "filling" => Sound(job.snap, Head(job.queue))

StoreInv == SoundStore /\ fetch \in Downloads /\ JobInv

LEMMA QueueFacts ==
    ASSUME NEW S, NEW q \in Seq(S) \ {<<>>}
    PROVE  /\ Head(q) \in S /\ Head(q) = q[1] /\ 1 \in DOMAIN q
           /\ Tail(q) \in Seq(S)
           /\ Len(q) > 1 => Tail(q) # <<>>
           /\ \A i \in DOMAIN Tail(q) : i + 1 \in DOMAIN q /\ Tail(q)[i] = q[i + 1]
<1>1. Len(q) \in Nat \ {0} /\ DOMAIN q = 1..Len(q)
  OBVIOUS
<1>2. Tail(q) \in Seq(S) /\ Len(Tail(q)) = Len(q) - 1
  OBVIOUS
<1>3. Head(q) \in S /\ Head(q) = q[1] /\ 1 \in DOMAIN q
  BY <1>1
<1>4. Len(q) > 1 => Tail(q) # <<>>
  <2> DEFINE r == Tail(q)
  <2>1. r \in Seq(S) /\ Len(r) = Len(q) - 1
    BY <1>2
  <2> HIDE DEF r
  <2>2. Len(q) > 1 => r # <<>>
    BY <1>1, <2>1
  <2>3. QED BY <2>2 DEF r
<1>5. \A i \in DOMAIN Tail(q) : i + 1 \in DOMAIN q /\ Tail(q)[i] = q[i + 1]
  BY <1>1, <1>2
<1>6. QED BY <1>2, <1>3, <1>4, <1>5

LEMMA EmptySound == \A tf \in Timeframes : Sound(<<>>, tf)
BY DEF Sound

\* Writing sound rows over one series leaves the store sound.
LEMMA WriteSound ==
    ASSUME SoundStore, NEW tf \in Timeframes, NEW series, Sound(series, tf),
           store' = [store EXCEPT ![tf] = series]
    PROVE  SoundStore'
BY DEF SoundStore

LEMMA InitHolds == StoreInit => StoreInv
<1> SUFFICES ASSUME StoreInit PROVE StoreInv
  OBVIOUS
<1>1. SoundStore
  BY EmptySound DEF StoreInit, SoundStore
<1>2. fetch \in Downloads
  BY DEF StoreInit, NoFetch, Downloads
<1>3. JobInv
  BY DEF StoreInit, NoJob, JobInv, Cleaning
<1>4. QED BY <1>1, <1>2, <1>3 DEF StoreInv

LEMMA IdleHolds == (job = NoJob) => JobInv
BY DEF NoJob, JobInv, Cleaning

\* The download moves on.
LEMMA AfterFetch ==
    ASSUME fetch \in Downloads
    PROVE  /\ AfterDay(fetch) \in Downloads /\ AfterDay(fetch).left = <<>>
           /\ \A q \in Seq(Timeframes) :
                 /\ [fetch EXCEPT !.left = q] \in Downloads
                 /\ [fetch EXCEPT !.left = q].left = q
<1>1. NoFetch \in Downloads /\ NoFetch.left = <<>>
  BY DEF NoFetch, Downloads
<1>2. /\ [fetch EXCEPT !.day = fetch.day + 1, !.left = <<>>, !.minutes = {}] \in Downloads
      /\ [fetch EXCEPT !.day = fetch.day + 1, !.left = <<>>, !.minutes = {}].left = <<>>
  <2> DEFINE d == fetch.day + 1
             q == <<>>
             none == {}
  <2>1. d \in Int /\ q \in Seq(Timeframes) /\ none \in SUBSET Minutes
    BY DEF Downloads
  <2> HIDE DEF d, q, none
  <2>2. /\ [fetch EXCEPT !.day = d, !.left = q, !.minutes = none] \in Downloads
        /\ [fetch EXCEPT !.day = d, !.left = q, !.minutes = none].left = q
    BY <2>1 DEF Downloads
  <2>3. QED BY <2>2 DEF d, q, none
<1>3. \A q \in Seq(Timeframes) :
         [fetch EXCEPT !.left = q] \in Downloads /\ [fetch EXCEPT !.left = q].left = q
  BY DEF Downloads
<1>4. QED BY <1>1, <1>2, <1>3 DEF AfterDay

\* Steps of the download.
LEMMA FetchSteps ==
    ASSUME StoreInv, StartFetch \/ FetchDay \/ FetchStops
    PROVE  StoreInv'
<1> USE DEF StoreInv
<1>1. fetch' \in Downloads
  <2>1. CASE StartFetch
    <3>1. PICK from \in 0..LastDay, tfs \in FetchLists : \E to \in from..LastDay :
            fetch' = [NoFetch EXCEPT !.on = TRUE, !.day = from, !.to = to, !.tfs = tfs]
      BY <2>1 DEF StartFetch
    <3>2. PICK to \in from..LastDay :
            fetch' = [NoFetch EXCEPT !.on = TRUE, !.day = from, !.to = to, !.tfs = tfs]
      BY <3>1
    <3>3. tfs \in Seq(Timeframes) /\ from \in Int /\ to \in Int
      BY CommandsAssumption
    <3> DEFINE none == NoFetch
    <3>4. none \in Downloads
      BY AfterFetch DEF NoFetch, Downloads
    <3> HIDE DEF none
    <3>5. [none EXCEPT !.on = TRUE, !.day = from, !.to = to, !.tfs = tfs] \in Downloads
      BY <3>3, <3>4 DEF Downloads
    <3>6. QED BY <3>2, <3>5 DEF none
  <2>2. CASE FetchDay
    <3>1. PICK got \in SUBSET Hours(fetch.day) :
        fetch' = IF got = {} THEN AfterDay(fetch)
                 ELSE [fetch EXCEPT
                         !.minutes = {m \in DOMAIN Market : m \div HourLen \in got},
                         !.left = IF Contains(fetch.tfs, "M1") THEN fetch.tfs
                                  ELSE Append(fetch.tfs, "M1")]
      BY <2>2 DEF FetchDay
    <3> DEFINE minutes == {m \in DOMAIN Market : m \div HourLen \in got}
               asked == IF Contains(fetch.tfs, "M1") THEN fetch.tfs ELSE Append(fetch.tfs, "M1")
    <3>2. fetch.tfs \in Seq(Timeframes) /\ fetch \in Downloads
      BY DEF Downloads
    <3>3. minutes \in SUBSET Minutes /\ "M1" \in Timeframes
      BY TimeAssumption
    <3>4. asked \in Seq(Timeframes)
      BY <3>2, <3>3
    <3>5. AfterDay(fetch) \in Downloads
      BY <3>2, AfterFetch
    <3>6. fetch' = IF got = {} THEN AfterDay(fetch)
                   ELSE [fetch EXCEPT !.minutes = minutes, !.left = asked]
      BY <3>1
    <3> HIDE DEF minutes, asked
    <3>7. [fetch EXCEPT !.minutes = minutes, !.left = asked] \in Downloads
      BY <3>2, <3>3, <3>4 DEF Downloads
    <3>8. QED BY <3>5, <3>6, <3>7
  <2>3. CASE FetchStops
    BY <2>3 DEF FetchStops, NoFetch, Downloads
  <2>4. QED BY <2>1, <2>2, <2>3
<1>2. UNCHANGED <<store, job>>
  BY DEF StartFetch, FetchDay, FetchStops
<1>3. SoundStore' /\ JobInv'
  BY <1>2 DEF SoundStore, JobInv
<1>4. QED BY <1>1, <1>3

LEMMA FetchWriteHolds ==
    ASSUME StoreInv, FetchWrite
    PROVE  StoreInv'
<1> DEFINE tf == Head(fetch.left)
           day == MinuteRows(fetch.minutes)
           new == IF tf = "M1" THEN day ELSE Aggregate(day, "M1", tf)
<1>1. fetch.left \in Seq(Timeframes) \ {<<>>} /\ fetch.minutes \in SUBSET Minutes
  BY DEF StoreInv, Downloads, FetchWrite
<1>2. tf \in Timeframes /\ Tail(fetch.left) \in Seq(Timeframes)
  BY <1>1, QueueFacts
<1>3. Sound(new, tf)
  BY <1>1, <1>2, MinutesSound, AggregateSound, TimeAssumption
<1>4. Sound(Upsert(store[tf], new), tf)
  BY <1>2, <1>3, UpsertSound DEF StoreInv, SoundStore
<1>5. store' = [store EXCEPT ![tf] = Upsert(store[tf], new)]
  BY DEF FetchWrite
<1> HIDE DEF new
<1>6. SoundStore'
  BY <1>2, <1>4, <1>5, WriteSound DEF StoreInv
<1>7. fetch' \in Downloads
  BY <1>2, AfterFetch DEF StoreInv, FetchWrite
<1>8. JobInv'
  BY DEF StoreInv, FetchWrite, JobInv
<1>9. QED BY <1>6, <1>7, <1>8 DEF StoreInv

\* A step of the other command that leaves the rows alone.
LEMMA QuietJob ==
    ASSUME StoreInv, UNCHANGED <<store, fetch>>, JobInv'
    PROVE  StoreInv'
BY DEF StoreInv, SoundStore

LEMMA StartImportHolds ==
    ASSUME StoreInv, StartImport
    PROVE  StoreInv'
<1>1. PICK dir \in Directories, plan \in Derivations :
        /\ \A i \in 1..Len(dir) : dir[i].tf # Unknown
        /\ dir # <<>>
        /\ Begin([NoJob EXCEPT !.step = "import", !.queue = dir, !.plan = plan])
  BY DEF StartImport
<1>2. dir \in Seq(Readable)
  <2>1. dir \in Seq(Exports)
    BY ExportsAssumption
  <2>2. Len(dir) \in Nat /\ DOMAIN dir = 1..Len(dir) /\ \A i \in 1..Len(dir) : dir[i] \in Readable
    BY <1>1, <2>1 DEF Readable
  <2>3. dir \in [1..Len(dir) -> Readable]
    BY <2>1, <2>2
  <2>4. QED BY <2>2, <2>3, SeqDef
<1>3. job' = [NoJob EXCEPT !.step = "import", !.queue = dir, !.plan = plan]
      /\ UNCHANGED <<store, fetch>>
  BY <1>1 DEF Begin
<1>4. JobInv'
  BY <1>1, <1>2, <1>3 DEF JobInv, NoJob, Cleaning
<1>5. QED BY <1>3, <1>4, QuietJob

LEMMA ImportFileHolds ==
    ASSUME StoreInv, ImportFile
    PROVE  StoreInv'
<1> DEFINE file == Head(job.queue)
<1>1. job.queue \in Seq(Readable) \ {<<>>}
  BY DEF StoreInv, JobInv, ImportFile
<1>2. file \in Readable /\ Tail(job.queue) \in Seq(Readable)
      /\ (Len(job.queue) > 1 => Tail(job.queue) # <<>>)
  BY <1>1, QueueFacts
<1>3. JobInv'
  <2>1. CASE file.bad
    BY <2>1 DEF StoreInv, ImportFile, To, JobInv, Cleaning
  <2>2. CASE ~file.bad
    <3>1. job' = [job EXCEPT
                        !.queue = Tail(@),
                        !.step = IF Len(job.queue) > 1 THEN "import"
                                 ELSE IF job.plan = NoPlan THEN "idle" ELSE "derive"]
      BY <2>2 DEF ImportFile
    <3> HIDE DEF file
    <3>2. QED BY <1>2, <3>1 DEF StoreInv, JobInv, Cleaning
  <2>3. QED BY <2>1, <2>2
<1>4. SoundStore'
  <2>1. CASE file.bad
    BY <2>1 DEF StoreInv, ImportFile, SoundStore
  <2>2. CASE ~file.bad
    <3>1. store' = [store EXCEPT ![file.tf] = Upsert(store[file.tf], Taken(file))]
      BY <2>2 DEF ImportFile
    <3> HIDE DEF file
    <3>3. file.tf \in Timeframes /\ Sound(Taken(file), file.tf)
      BY <1>2, TakenSound, ExportsAssumption DEF Readable
    <3>4. Sound(Upsert(store[file.tf], Taken(file)), file.tf)
      BY <3>3, UpsertSound DEF StoreInv, SoundStore
    <3>5. QED BY <3>1, <3>3, <3>4, WriteSound DEF StoreInv
  <2>3. QED BY <2>1, <2>2
<1>5. UNCHANGED fetch
  BY DEF ImportFile
<1>6. QED BY <1>3, <1>4, <1>5 DEF StoreInv

\* A plan that is followed names timeframes.
LEMMA PlanFacts ==
    ASSUME JobInv, job.plan # NoPlan
    PROVE  job.plan.from \in Timeframes /\ job.plan.to \in Seq(Timeframes)
BY CommandsAssumption DEF JobInv

LEMMA DeriveReadHolds ==
    ASSUME StoreInv, DeriveRead
    PROVE  StoreInv'
<1> DEFINE from == job.plan.from
           to == job.plan.to
<1>1. JobInv /\ job.plan # NoPlan
  BY DEF StoreInv, JobInv, DeriveRead
<1>2. from \in Timeframes /\ to \in Seq(Timeframes)
  BY <1>1, PlanFacts
<1>3. UNCHANGED <<store, fetch>>
  BY DEF DeriveRead
<1>4. CASE store[from] = <<>> \/ to = <<>>
  <2>1. job' = [job EXCEPT !.step = "report"]
    BY <1>4 DEF DeriveRead, To
  <2>2. JobInv'
    BY <1>1, <2>1 DEF JobInv, Cleaning
  <2>3. QED BY <1>3, <2>2, QuietJob
<1>5. CASE ~(store[from] = <<>> \/ to = <<>>)
  <2>1. job' = [job EXCEPT !.snap = store[from], !.source = from, !.queue = to, !.step = "write"]
    BY <1>5 DEF DeriveRead
  <2>2. /\ DOMAIN job' = DOMAIN job /\ job'.plan = job.plan /\ job'.source = from
        /\ job'.snap = store[from] /\ job'.queue = to /\ job'.step = "write"
    BY <1>1, <2>1 DEF JobInv
  <2>3. Sound(store[from], from)
    BY <1>2 DEF StoreInv, SoundStore
  <2>4. JobInv'
    BY <1>1, <1>2, <1>5, <2>2, <2>3 DEF JobInv, Cleaning
  <2>5. QED BY <1>3, <2>4, QuietJob
<1>6. QED BY <1>4, <1>5

LEMMA WriteDerivedHolds ==
    ASSUME StoreInv, WriteDerived
    PROVE  StoreInv'
<1> DEFINE tf == Head(job.queue)
           rows == Aggregate(job.snap, job.source, tf)
<1>1. /\ JobInv /\ job.queue \in Seq(Timeframes) \ {<<>>}
      /\ job.source \in Timeframes /\ Sound(job.snap, job.source)
  BY DEF StoreInv, JobInv, WriteDerived
<1>2. /\ tf \in Timeframes /\ Tail(job.queue) \in Seq(Timeframes)
      /\ Len(job.queue) > 1 => Tail(job.queue) # <<>>
  BY <1>1, QueueFacts
<1>3. SoundStore'
  <2>1. CASE Coarser(tf)
    <3>1. store' = [store EXCEPT ![tf] = Upsert(store[tf], rows)]
      BY <2>1 DEF WriteDerived
    <3>2. Sound(rows, tf)
      BY <1>1, <1>2, AggregateSound
    <3> HIDE DEF rows
    <3>3. Sound(Upsert(store[tf], rows), tf)
      BY <1>2, <3>2, UpsertSound DEF StoreInv, SoundStore
    <3> HIDE DEF tf
    <3>4. QED BY <1>2, <3>1, <3>3, WriteSound DEF StoreInv
  <2>2. CASE ~Coarser(tf)
    BY <2>2 DEF WriteDerived, StoreInv, SoundStore
  <2>3. QED BY <2>1, <2>2
<1>4. JobInv'
  <2>1. /\ DOMAIN job' = DOMAIN job /\ job'.plan = job.plan /\ job'.snap = job.snap
        /\ job'.source = job.source /\ job'.queue = Tail(job.queue)
        /\ job'.step = IF Len(job.queue) > 1 THEN "write"
                       ELSE IF job.plan = NoPlan THEN "idle" ELSE "report"
    BY <1>1 DEF WriteDerived, JobInv
  <2>2. QED BY <1>1, <1>2, <2>1 DEF JobInv, Cleaning
<1>5. UNCHANGED fetch
  BY DEF WriteDerived
<1>6. QED BY <1>3, <1>4, <1>5 DEF StoreInv

LEMMA StartAggregateHolds ==
    ASSUME StoreInv, StartAggregate
    PROVE  StoreInv'
<1>1. PICK pair \in Aggregations :
        Begin([NoJob EXCEPT !.step = "write", !.queue = <<pair[2]>>,
                            !.source = pair[1], !.snap = store[pair[1]]])
  BY DEF StartAggregate
<1> DEFINE from == pair[1]
           to == pair[2]
<1>2. from \in Timeframes /\ to \in Timeframes
  BY CommandsAssumption
<1>3. Sound(store[from], from)
  BY <1>2 DEF StoreInv, SoundStore
<1>4. /\ UNCHANGED <<store, fetch>>
      /\ job' = [NoJob EXCEPT !.step = "write", !.queue = <<to>>,
                              !.source = from, !.snap = store[from]]
  BY <1>1 DEF Begin
<1> HIDE DEF from, to
<1>5. JobInv'
  BY <1>2, <1>3, <1>4 DEF JobInv, NoJob, Cleaning
<1>6. QED BY <1>4, <1>5, QuietJob

LEMMA StartPipelineHolds ==
    ASSUME StoreInv, StartPipeline
    PROVE  StoreInv'
<1>1. PICK wanted \in CleaningLists :
        \E todo \in SeqOf(Timeframes, Len(wanted)) :
            todo # <<>> /\ Begin([NoJob EXCEPT !.step = "fill", !.queue = todo])
  BY DEF StartPipeline
<1>2. PICK todo \in SeqOf(Timeframes, Len(wanted)) :
            todo # <<>> /\ Begin([NoJob EXCEPT !.step = "fill", !.queue = todo])
  BY <1>1
<1>3. todo \in Seq(Timeframes)
  <2>1. Len(wanted) \in Nat
    BY CommandsAssumption
  <2>2. PICK m \in 0..Len(wanted) : todo \in [1..m -> Timeframes]
    BY DEF SeqOf
  <2>3. QED BY <2>1, <2>2, SeqDef
<1>4. /\ UNCHANGED <<store, fetch>>
      /\ job' = [NoJob EXCEPT !.step = "fill", !.queue = todo]
  BY <1>2 DEF Begin
<1>5. JobInv'
  BY <1>2, <1>3, <1>4 DEF JobInv, NoJob, Cleaning
<1>6. QED BY <1>4, <1>5, QuietJob

\* A timeframe being cleaned.
LEMMA CleaningFacts ==
    ASSUME StoreInv, job.step \in Cleaning
    PROVE  /\ job.queue \in Seq(Timeframes) \ {<<>>} /\ Head(job.queue) \in Timeframes
           /\ Tail(job.queue) \in Seq(Timeframes)
           /\ Len(job.queue) > 1 => Tail(job.queue) # <<>>
           /\ Sound(Current, Head(job.queue))
<1>1. job.queue \in Seq(Timeframes) \ {<<>>}
  BY DEF StoreInv, JobInv
<1>2. Head(job.queue) \in Timeframes
  BY <1>1, QueueFacts
<1>3. QED BY <1>1, <1>2, QueueFacts DEF Current, StoreInv, SoundStore

LEMMA CleaningReads ==
    ASSUME StoreInv, FillRead \/ SmoothRead \/ AuditSeries \/ NextSeries
    PROVE  StoreInv'
<1>1. UNCHANGED <<store, fetch>>
  BY DEF FillRead, SmoothRead, AuditSeries, NextSeries
<1>2. job.step \in Cleaning
  BY DEF FillRead, SmoothRead, AuditSeries, NextSeries, Cleaning
<1>3. JobInv
  BY DEF StoreInv
<1>4. JobInv'
  <2>1. CASE FillRead
    <3>1. /\ DOMAIN job' = DOMAIN job /\ job'.plan = job.plan /\ job'.queue = job.queue
          /\ job'.snap = Current /\ job'.step \in {"smooth", "filling"}
      BY <1>3, <2>1 DEF FillRead, JobInv
    <3>2. QED BY <1>2, <1>3, <3>1, CleaningFacts DEF JobInv, Cleaning
  <2>2. CASE SmoothRead
    <3>1. /\ DOMAIN job' = DOMAIN job /\ job'.plan = job.plan /\ job'.queue = job.queue
          /\ job'.step \in {"audit", "smoothing"}
      BY <1>3, <2>2 DEF SmoothRead, JobInv
    <3>2. QED BY <1>2, <1>3, <3>1, CleaningFacts DEF JobInv, Cleaning
  <2>3. CASE AuditSeries
    <3>1. /\ DOMAIN job' = DOMAIN job /\ job'.plan = job.plan /\ job'.queue = job.queue
          /\ job'.step = "audited"
      BY <1>3, <2>3 DEF AuditSeries, JobInv
    <3>2. QED BY <1>2, <1>3, <3>1, CleaningFacts DEF JobInv, Cleaning
  <2>4. CASE NextSeries
    <3>1. /\ DOMAIN job' = DOMAIN job /\ job'.plan = job.plan /\ job'.queue = Tail(job.queue)
          /\ job'.step = IF Len(job.queue) > 1 THEN "fill" ELSE "idle"
      BY <1>3, <2>4 DEF NextSeries, JobInv
    <3>2. QED BY <1>2, <1>3, <3>1, CleaningFacts DEF JobInv, Cleaning
  <2>5. QED BY <2>1, <2>2, <2>3, <2>4
<1>5. QED BY <1>1, <1>4, QuietJob

LEMMA CleaningWrites ==
    ASSUME StoreInv, FillWrite \/ SmoothWrite
    PROVE  StoreInv'
<1> DEFINE tf == Head(job.queue)
<1>1. job.step \in Cleaning /\ JobInv /\ UNCHANGED fetch
  BY DEF StoreInv, FillWrite, SmoothWrite, Cleaning
<1>2. tf \in Timeframes /\ Sound(store[tf], tf)
  BY <1>1, CleaningFacts DEF Current
<1>3. SoundStore'
  <2>1. CASE FillWrite
    <3>1. store' = [store EXCEPT ![tf] = Upsert(Synthetic(job.snap, tf), store[tf])]
      BY <2>1 DEF FillWrite, Fill, InsertOrIgnore
    <3>2. Sound(job.snap, tf)
      BY <1>1, <2>1 DEF JobInv, FillWrite
    <3> HIDE DEF tf
    <3>3. Sound(Upsert(Synthetic(job.snap, tf), store[tf]), tf)
      BY <1>2, <3>2, SyntheticSound, UpsertSound
    <3>4. QED BY <1>2, <3>1, <3>3, WriteSound DEF StoreInv
  <2>2. CASE SmoothWrite
    <3>1. store' = [store EXCEPT ![tf] = SetVolumes(store[tf], Smoothed(job.snap))]
      BY <2>2 DEF SmoothWrite
    <3> HIDE DEF tf
    <3>2. Sound(SetVolumes(store[tf], Smoothed(job.snap)), tf)
      BY <1>2, VolumesSound
    <3>3. QED BY <1>2, <3>1, <3>2, WriteSound DEF StoreInv
  <2>3. QED BY <2>1, <2>2
<1>4. JobInv'
  <2>1. /\ DOMAIN job' = DOMAIN job /\ job'.plan = job.plan /\ job'.queue = job.queue
        /\ job'.step \in {"smooth", "audit"}
    BY <1>1 DEF FillWrite, SmoothWrite, To, JobInv
  <2>2. QED BY <1>1, <2>1, CleaningFacts DEF JobInv, Cleaning
<1>5. QED BY <1>1, <1>3, <1>4 DEF StoreInv

LEMMA EndSteps ==
    ASSUME StoreInv, Report \/ JobStops
    PROVE  StoreInv'
<1>1. UNCHANGED <<store, fetch>>
  BY DEF Report, JobStops
<1>2. JobInv'
  <2>1. CASE Report
    <3>1. JobInv
      BY DEF StoreInv
    <3>2. DOMAIN job' = DOMAIN job /\ job'.plan = job.plan /\ job'.step = "done"
      BY <2>1, <3>1 DEF Report, JobInv
    <3>3. QED BY <3>1, <3>2 DEF JobInv, Cleaning
  <2>2. CASE JobStops
    BY <2>2 DEF JobStops, NoJob, JobInv, Cleaning
  <2>3. QED BY <2>1, <2>2
<1>3. QED BY <1>1, <1>2, QuietJob

LEMMA StoreInvariance == StoreSpec => []StoreInv
<1>1. StoreInv /\ [StoreNext]_storeVars => StoreInv'
  <2> SUFFICES ASSUME StoreInv, [StoreNext]_storeVars PROVE StoreInv'
    OBVIOUS
  <2>1. CASE UNCHANGED storeVars
    BY <2>1 DEF StoreInv, SoundStore, JobInv, storeVars
  <2>2. CASE StoreNext
    BY <2>2, FetchSteps, FetchWriteHolds, StartImportHolds, ImportFileHolds, DeriveReadHolds,
       WriteDerivedHolds, StartAggregateHolds, StartPipelineHolds, CleaningReads,
       CleaningWrites, EndSteps DEF StoreNext
  <2>3. QED BY <2>1, <2>2
<1>2. QED BY <1>1, InitHolds, PTL DEF StoreSpec

\* A row of the store that holds a price from after its own span goes back to a
\* file that does not fit its timeframe or to an aggregation into a finer one
\* (aggregator.rs:29, gap_filler.rs:130, store.rs:52), in whatever order filled,
\* derived, imported and downloaded rows overwrite one another.
THEOREM StoreSeesNoFuture == StoreSpec => []NoLookahead
<1>1. StoreInv => NoLookahead
  BY DEF StoreInv, SoundStore, Sound, NoLookahead
<1>2. QED BY <1>1, StoreInvariance, PTL

\* What a change of the volume leaves.
LEMMA VolumeAside ==
    ASSUME NEW r, NEW v
    PROVE  [[r EXCEPT !.vol = v] EXCEPT !.vol = 0] = [r EXCEPT !.vol = 0]
OBVIOUS

\* The price rows of the store that a change of one series may touch.
KeepsPrices(old, new) ==
    /\ DOMAIN old \subseteq DOMAIN new
    /\ \A t \in DOMAIN old : [new[t] EXCEPT !.vol = 0] = [old[t] EXCEPT !.vol = 0]

\* The fill and the smoothing never change a price, not even one that a download
\* wrote after they read the series (gap_filler.rs:150, volume_processor.rs:144).
THEOREM CleaningTouchesNoPrice == StoreSpec => CleaningKeepsPrices
<1>1. ASSUME StoreInv, [StoreNext]_storeVars, job.step \in Cleaning, fetch' = fetch,
             NEW tf \in Timeframes
      PROVE  KeepsPrices(store[tf], store'[tf])
  <2>1. CASE UNCHANGED store
    BY <2>1 DEF KeepsPrices
  <2>2. CASE FetchWrite
    <3>1. fetch.left \in Seq(Timeframes) \ {<<>>} /\ fetch.on
      BY <1>1, <2>2 DEF StoreInv, Downloads, FetchWrite
    <3>2. Tail(fetch.left) # fetch.left /\ Tail(fetch.left) \in Seq(Timeframes)
      <4> DEFINE q == fetch.left
                 r == Tail(q)
      <4>1. q \in Seq(Timeframes) \ {<<>>}
        BY <3>1
      <4> HIDE DEF q
      <4>2. Len(q) \in Nat /\ Len(r) = Len(q) - 1 /\ r \in Seq(Timeframes)
        BY <4>1
      <4> HIDE DEF r
      <4>3. r # q
        BY <4>2
      <4>4. QED BY <4>2, <4>3 DEF q, r
    <3>3. fetch' = AfterDay(fetch) \/ fetch' = [fetch EXCEPT !.left = Tail(fetch.left)]
      BY <2>2 DEF FetchWrite
    <3>4. fetch'.left = <<>> \/ fetch'.left = Tail(fetch.left)
      BY <1>1, <3>2, <3>3, AfterFetch DEF StoreInv
    <3>5. QED BY <1>1, <3>1, <3>2, <3>4
  <2>3. CASE FillWrite
    <3>1. store' = [store EXCEPT ![Head(job.queue)] =
                        Upsert(Synthetic(job.snap, Head(job.queue)), store[Head(job.queue)])]
      BY <2>3 DEF FillWrite, Fill, InsertOrIgnore
    <3>2. store'[tf] = store[tf] \/ \E rows : store'[tf] = Upsert(rows, store[tf])
      BY <1>1, <3>1 DEF StoreInv, SoundStore
    <3>3. QED BY <3>2 DEF KeepsPrices, Upsert
  <2>4. CASE SmoothWrite
    <3>1. store' = [store EXCEPT ![Head(job.queue)] =
                        SetVolumes(store[Head(job.queue)], Smoothed(job.snap))]
      BY <2>4 DEF SmoothWrite
    <3>2. store'[tf] = store[tf] \/ \E volumes : store'[tf] = SetVolumes(store[tf], volumes)
      BY <1>1, <3>1 DEF StoreInv, SoundStore
    <3>3. CASE store'[tf] = store[tf]
      BY <3>3 DEF KeepsPrices
    <3>4. CASE \E volumes : store'[tf] = SetVolumes(store[tf], volumes)
      <4>1. PICK volumes : store'[tf] = SetVolumes(store[tf], volumes)
        BY <3>4
      <4>2. /\ DOMAIN store'[tf] = DOMAIN store[tf]
            /\ \A t \in DOMAIN store[tf] :
                  \/ store'[tf][t] = store[tf][t]
                  \/ \E v : store'[tf][t] = [store[tf][t] EXCEPT !.vol = v]
        BY <4>1 DEF SetVolumes
      <4>3. QED BY <4>2, VolumeAside DEF KeepsPrices
    <3>5. QED BY <3>2, <3>3, <3>4
  <2>5. QED
    <3>1. CASE ImportFile \/ WriteDerived
      BY <1>1, <3>1 DEF ImportFile, WriteDerived, Cleaning
    <3>2. CASE UNCHANGED storeVars
      BY <2>1, <3>2 DEF storeVars
    <3>3. CASE StoreNext /\ ~(ImportFile \/ WriteDerived \/ FetchWrite \/ FillWrite \/ SmoothWrite)
      <4>1. UNCHANGED store
        BY <3>3 DEF StoreNext, StartFetch, FetchDay, FetchStops, StartImport, DeriveRead,
           StartAggregate, StartPipeline, Begin, FillRead, SmoothRead, AuditSeries, NextSeries,
           Report, JobStops
      <4>2. QED BY <2>1, <4>1
    <3>4. QED BY <1>1, <2>2, <2>3, <2>4, <3>1, <3>2, <3>3
<1>2. ASSUME StoreInv, [StoreNext]_storeVars
      PROVE  job.step \in {"fill", "filling", "smooth", "smoothing", "audit", "audited"} /\ fetch' = fetch =>
                \A tf \in Timeframes :
                    /\ DOMAIN store[tf] \subseteq DOMAIN store'[tf]
                    /\ \A t \in DOMAIN store[tf] :
                        [store'[tf][t] EXCEPT !.vol = 0] = [store[tf][t] EXCEPT !.vol = 0]
  BY <1>1, <1>2 DEF KeepsPrices, Cleaning
<1>3. QED BY <1>2, StoreInvariance, PTL DEF StoreSpec, CleaningKeepsPrices
=============================================================================
