----------------------------- MODULE GateProofs -----------------------------
(***************************************************************************)
(* What stands before an order.  The first part is about the entry gate    *)
(* (EntryGate), for every firm, set of heads, bar length and clock: types, *)
(* the pacing of one process, the risk of one idea, and an account that    *)
(* only lost positions can hedge or crowd.                                 *)
(*                                                                         *)
(* Two clocks carry the pacing: a fill is stamped by the venue, a bar by   *)
(* its start, and while a bar is handled it is over (BarOver).  An order   *)
(* on its way, for an entry or a pyramid add, keeps the distance the gate  *)
(* measured (SentPaced), so its fill, told or not, lands a bar further.    *)
(* For the hedge, every open position that was never lost is tracked       *)
(* (BookComplete), and an entry on its way goes to a free head and agrees  *)
(* with all of them (SentAgrees); an add is lost as it fills.  The cap on  *)
(* the exposure and the cap on an idea rest on what the order on its way   *)
(* leaves free (SentRoom, SentIdea).                                       *)
(*                                                                         *)
(* The second part is about the risk stack (RiskStack), for every drawdown *)
(* mode, every pair of limits and every set of equities; the two share no  *)
(* state.  update_equity computes the drawdown and the headroom separately,*)
(* but in every mode the two add up to at least the limit when the headroom*)
(* is gone (NoHeadroomMeansBreach), and check(), called in the same bar on *)
(* the same account, answers TRUE in a breach whatever the switch was      *)
(* before (BreachArms).  That the gate is open only above every rule       *)
(* follows from what one bar writes to account and engine together         *)
(* (HeadroomIsAboveFloor and MarkHolds), which no other action takes apart.*)
(***************************************************************************)
EXTENDS EntryGate, RiskStack, TLAPS, FiniteSetTheorems, WellFoundedInduction

BarOver == pc # "idle" => bar + BarSecs <= now

FillsPast == \A i \in Ids : fills[i].at <= now

SentPaced ==
    /\ ~Enabled => recent = {}
    /\ pc = "sent" /\ Enabled =>
         \A i \in recent : bar - fills[i].at >= Config.min_seconds_between_entries

PaceInv == TypeOK /\ BarOver /\ FillsPast /\ SentPaced /\ PacingKept

BookComplete == open \ lost \subseteq Book

SentAgrees ==
    pc = "sent" =>
        /\ ~order.add => tracked[order.head] = None
        /\ Enabled => \A i \in open \ lost : fills[i].dir = order.dir

HedgeInv == TypeOK /\ BookComplete /\ SentAgrees /\ HedgeNeedsLoss

-----------------------------------------------------------------------------
(* Helpers.                                                                *)

\* config_for_program (compliance.rs:489) asks for a number of seconds.
LEMMA MinSeconds ==
    ASSUME program \in Programs
    PROVE  Config.min_seconds_between_entries \in Nat
<1> DEFINE m == CASE program \in Ftmo -> 45 [] program = "The5ersHyperGrowth" -> 30
                  [] OTHER -> 60
<1>1. Config.min_seconds_between_entries = m
  BY DEF Config, ConfigFor
<1>2. CASE program \in Ftmo
  BY <1>1, <1>2 DEF Ftmo
<1>3. CASE program = "The5ersHyperGrowth"
  BY <1>1, <1>3 DEF Ftmo
<1>4. CASE program \notin Ftmo /\ program # "The5ersHyperGrowth"
  BY <1>1, <1>4
<1>5. QED BY <1>2, <1>3, <1>4

\* detect_program (compliance.rs:438) answers with one of the programs.
LEMMA DetectedProgram ==
    ASSUME NEW name, NEW type
    PROVE  DetectProgram(name, type) \in Programs
<1>1. FundingPipsVariant(name, type) \in FundingPips
  BY DEF FundingPipsVariant, FundingPips
<1>2. QED BY <1>1 DEF DetectProgram, Programs, Ftmo, FundingPips

\* Rows are read in the order of opening: a set of positions has a latest.
LEMMA LatestExists ==
    ASSUME TypeOK, NEW S \in SUBSET Ids, S # {}
    PROVE  Latest(S) \in S
<1> DEFINE n == Len(fills)
           age(id) == n - id
           T == {age(id) : id \in S}
<1>0. n \in Nat
  BY DEF TypeOK
<1>1. T \subseteq Nat /\ T # {}
  <2>1. \A id \in S : age(id) \in Nat
    BY <1>0 DEF Ids
  <2>2. QED BY <2>1
<1>2. PICK a \in T : \A b \in T : ~(<<b, a>> \in OpToRel(<, Nat))
  BY <1>1, WFMin, NatLessThanWellFounded
<1>3. \A b \in T : ~(b < a)
  BY <1>1, <1>2 DEF OpToRel
<1>4. PICK id \in S : a = age(id)
  BY <1>2
<1>5. ASSUME NEW other \in S PROVE other <= id
  <2>1. age(other) \in T
    OBVIOUS
  <2>2. ~(age(other) < age(id))
    BY <1>3, <1>4, <2>1
  <2>3. n \in Nat /\ id \in Nat /\ other \in Nat
    BY <1>0 DEF Ids
  <2>4. ~(n - other < n - id)
    BY <2>2
  <2> HIDE DEF age, T, n
  <2>5. QED BY ONLY <2>3, <2>4, SMTT(30)
<1>6. QED
  BY <1>5 DEF Latest

\* recover_positions (phase1.rs:628) restores positions that are open.
LEMMA RecoveredKnown ==
    ASSUME TypeOK
    PROVE  Recovered \in [Heads -> Ids \cup {None}]
<1>1. ASSUME NEW h \in Heads, Known(h) # {}
      PROVE  Latest(Known(h)) \in Ids
  <2>1. Known(h) \in SUBSET Ids
    BY DEF TypeOK, Known
  <2>2. QED BY <1>1, <2>1, LatestExists
<1>2. QED BY <1>1 DEF Recovered

\* Every fill has its head, direction and time.
LEMMA FillRecords ==
    ASSUME TypeOK, NEW i \in Ids
    PROVE  fills[i].dir \in Dirs /\ fills[i].at \in Nat
<1> DEFINE R == Fills
<1>1. fills \in Seq(R) /\ i \in 1..Len(fills)
  BY DEF TypeOK, Ids
<1> HIDE DEF R
<1>2. fills[i] \in R
  BY <1>1
<1>3. QED BY <1>2 DEF R, Fills

\* A fill appends to the history: it gets the next number, and the earlier
\* fills stay what they were.
LEMMA FillAppends ==
    ASSUME TypeOK, pc = "sent"
    PROVE  /\ Filled \in Seq(Fills)
           /\ NewId \notin Ids /\ \A i \in Ids : i < NewId
           /\ 1..Len(Filled) = Ids \cup {NewId}
           /\ \A i \in Ids : Filled[i] = fills[i]
           /\ Filled[NewId].dir = order.dir /\ Filled[NewId].at = now
<1> DEFINE R == Fills
           e == [head |-> order.head, dir |-> order.dir, at |-> now, add |-> order.add]
<1>1. fills \in Seq(R) /\ e \in R
  BY DEF TypeOK, Orders, Fills
<1>2. Len(fills) \in Nat
  BY <1>1
<1> HIDE DEF R, e
<1>3. /\ Append(fills, e) \in Seq(R)
      /\ Len(Append(fills, e)) = Len(fills) + 1
      /\ \A i \in 1..Len(fills) : Append(fills, e)[i] = fills[i]
      /\ Append(fills, e)[Len(fills) + 1] = e
  BY <1>1
<1>4. Filled = Append(fills, e)
  BY DEF Filled, e
<1>5. 1..(Len(fills) + 1) = (1..Len(fills)) \cup {Len(fills) + 1}
  BY <1>2
<1>6. QED BY <1>2, <1>3, <1>4, <1>5 DEF Ids, NewId, R, e

\* A fresh count of layers is a count.
LEMMA NoneLeft == NoLayers \in [Heads -> 0..MaxLayers]
BY GateAssumption DEF NoLayers

\* An add goes the way of the position it is added to.
LEMMA AddAgrees ==
    ASSUME TypeOK, NEW h \in Heads, tracked[h] # None
    PROVE  tracked[h] \in Ids /\ fills[tracked[h]].dir \in Dirs
<1>1. tracked[h] \in Ids
  BY DEF TypeOK
<1>2. QED BY <1>1, FillRecords

-----------------------------------------------------------------------------
(* Types.                                                                  *)

\* One step per action that touches the history or the book; the others
\* move the clock or a phase.
LEMMA TypeStep == TypeOK /\ [Next]_vars => TypeOK'
<1> SUFFICES ASSUME TypeOK, [Next]_vars PROVE TypeOK' OBVIOUS
<1>1. CASE BarCloses
  <2>1. bar' \in Int /\ now' \in Nat /\ tickAt' \in Nat
    BY <1>1, GateAssumption DEF TypeOK, BarCloses, NoBar
  <2>2. tracked' \in [Heads -> Ids \cup {None}] /\ lost' \subseteq Ids
    BY <1>1 DEF TypeOK, BarCloses, Forgotten, None
  <2>3. fills' = fills /\ Ids' = Ids
    BY <1>1 DEF BarCloses, Ids
  <2>4. layers' \in [Heads -> 0..MaxLayers]
    BY <1>1, NoneLeft DEF TypeOK, BarCloses
  <2>5. QED BY <1>1, <2>1, <2>2, <2>3, <2>4 DEF TypeOK, BarCloses
<1>2. ASSUME NEW h \in Heads, NEW d \in Dirs, NEW shape \in Shapes,
             OpenSignal(h, d, shape)
      PROVE  TypeOK'
  <2>1. recent' \subseteq Ids
    BY <1>2 DEF TypeOK, OpenSignal, Pruned
  <2>2. fills' = fills /\ Ids' = Ids
    BY <1>2 DEF OpenSignal, venueVars, Ids
  <2>3. /\ pc' \in {"idle", "bar", "adds", "sent"}
        /\ order' \in {NoOrder} \cup Orders
        /\ pc' = "sent" => order' \in Orders
    <3>1. [head |-> h, dir |-> d, add |-> FALSE] \in Orders
      BY DEF Orders
    <3>2. QED BY <1>2, <3>1 DEF TypeOK, OpenSignal
  <2>4. QED
    BY <1>2, <2>1, <2>2, <2>3 DEF TypeOK, OpenSignal, clockVars, venueVars, pyramidVars
<1>3. CASE OrderFills
  <2>1. /\ fills' \in Seq(Fills)
        /\ Ids' = Ids \cup {NewId}
    BY <1>3, FillAppends DEF OrderFills, Ids
  <2>2. tracked' \in [Heads -> Ids' \cup {None}]
    BY <1>3, <2>1 DEF TypeOK, OrderFills
  <2>3. recent' \subseteq Ids' /\ rows' \subseteq Ids' /\ open' \subseteq Ids'
    BY <1>3, <2>1 DEF TypeOK, OrderFills
  <2>4. layers' \in [Heads -> 0..MaxLayers]
    <3>1. MaxLayers \in 0..MaxLayers
      BY GateAssumption
    <3>2. QED BY <1>3, <3>1 DEF TypeOK, OrderFills
  <2>5. QED BY <1>3, <2>1, <2>2, <2>3, <2>4 DEF TypeOK, OrderFills, clockVars
<1>4. CASE OrderErrs \/ AddReturns
  <2>1. /\ fills' \in Seq(Fills)
        /\ Ids \subseteq Ids' /\ open' \subseteq Ids'
    <3>1. CASE fills' = Filled /\ open' = open \cup {NewId}
      BY <1>4, <3>1, FillAppends DEF TypeOK, OrderErrs, AddReturns, Ids
    <3>2. CASE UNCHANGED <<fills, open>>
      BY <3>2 DEF TypeOK, Ids
    <3>3. QED BY <1>4, <3>1, <3>2 DEF OrderErrs, AddReturns, SilentFill
  <2>2. tracked' \in [Heads -> Ids' \cup {None}]
    BY <1>4, <2>1 DEF TypeOK, OrderErrs, AddReturns
  <2>3. QED
    BY <1>4, <2>1, <2>2 DEF TypeOK, OrderErrs, AddReturns, clockVars, pyramidVars
<1>5. ASSUME NEW h \in Heads, HeadCloses(h) PROVE TypeOK'
  <2>1. tracked' \in [Heads -> Ids \cup {None}] /\ Ids' = Ids
    BY <1>5 DEF TypeOK, HeadCloses, Ids
  <2>2. layers' \in [Heads -> 0..MaxLayers]
    BY <1>5, GateAssumption DEF TypeOK, HeadCloses
  <2>3. QED BY <1>5, <2>1, <2>2 DEF TypeOK, HeadCloses, clockVars
<1>6. CASE BarDone \/ LookForAdds
  <2>1. UNCHANGED <<program, clockVars, order, tracked, layers, recent, venueVars, restarts>>
        /\ Ids' = Ids
    BY <1>6 DEF BarDone, LookForAdds, pyramidVars, venueVars, Ids
  <2>2. /\ pc' \in {"idle", "adds"}
        /\ adding' \subseteq {h \in Heads : layers[h] > 0}
        /\ adding' # {} => pc' = "adds"
    BY <1>6 DEF TypeOK, BarDone, LookForAdds, pyramidVars, Held
  <2>3. QED BY <2>1, <2>2 DEF TypeOK, clockVars, venueVars
<1>7. CASE Pass
  BY <1>7, GateAssumption DEF TypeOK, Pass, procVars, pyramidVars, venueVars, Ids
<1>8. ASSUME NEW i \in Ids, VenueCloses(i) PROVE TypeOK'
  BY <1>8 DEF TypeOK, VenueCloses, clockVars, procVars, pyramidVars, Ids
<1>9. CASE Restart
  <2>1. tracked' \in [Heads -> Ids \cup {None}] /\ Ids' = Ids
    BY <1>9, RecoveredKnown DEF Restart, Forgotten, Ids
  <2>2. layers' \in [Heads -> 0..MaxLayers]
    BY <1>9, NoneLeft DEF Restart
  <2>3. QED BY <1>9, <2>1, <2>2 DEF TypeOK, Restart, clockVars
<1>10. CASE UNCHANGED vars
  BY <1>10 DEF TypeOK, vars, clockVars, procVars, pyramidVars, venueVars, Ids
<1>11. ASSUME NEW h \in Heads, NEW shape \in Shapes, AddSignal(h, shape)
      PROVE  TypeOK'
  <2>1. /\ UNCHANGED <<program, clockVars, tracked, venueVars, restarts>> /\ Ids' = Ids
        /\ recent' \subseteq Ids /\ adding' = adding \ {h}
    BY <1>11 DEF TypeOK, AddSignal, Pruned, venueVars, Ids
  <2>2. /\ pc' \in {"idle", "bar", "adds", "sent"}
        /\ order' \in {NoOrder} \cup Orders
        /\ pc' = "sent" => order' \in Orders
        /\ pc' = "adds" \/ (pc' = "sent" /\ order'.add)
    <3> DEFINE d == fills[tracked[h]].dir
               o == [head |-> h, dir |-> d, add |-> TRUE]
    <3>1. o \in Orders /\ o.add
      BY <1>11, AddAgrees DEF AddSignal, Orders
    <3> HIDE DEF o
    <3>2. pc = "adds" /\ (UNCHANGED <<pc, order>> \/ (pc' = "sent" /\ order' = o))
      BY <1>11 DEF AddSignal, o
    <3>3. QED BY <3>1, <3>2 DEF TypeOK
  <2>3. layers' \in [Heads -> 0..MaxLayers]
    <3>1. layers[h] \in 1..MaxLayers
      BY <1>11 DEF TypeOK, AddSignal
    <3>2. layers[h] - 1 \in 0..MaxLayers
      BY <3>1, GateAssumption
    <3>3. QED BY <1>11, <3>2 DEF TypeOK, AddSignal
  <2>4. adding' \subseteq {g \in Heads : layers'[g] > 0}
    BY <1>11, <2>1 DEF TypeOK, AddSignal
  <2>5. QED BY <2>1, <2>2, <2>3, <2>4 DEF TypeOK, clockVars, venueVars
<1>12. QED
  BY <1>1, <1>2, <1>3, <1>4, <1>5, <1>6, <1>7, <1>8, <1>9, <1>10, <1>11 DEF Next

LEMMA TypeInit == Init => TypeOK
<1> SUFFICES ASSUME Init PROVE TypeOK OBVIOUS
<1>1. program \in Programs
  BY DetectedProgram DEF Init
<1>2. Len(fills) = 0 /\ Ids = {} /\ fills \in Seq(Fills)
  BY DEF Init, Ids
<1>3. tracked \in [Heads -> Ids \cup {None}]
  BY DEF Init, Forgotten
<1>4. bar \in Int
  BY GateAssumption DEF Init, NoBar
<1>5. QED BY <1>1, <1>2, <1>3, <1>4, NoneLeft DEF Init, TypeOK

\* For every firm, set of heads and clock, whatever the process tracks, paces
\* or recovers is a position the venue filled.
THEOREM TypeCorrect == Spec => []TypeOK
BY TypeInit, TypeStep, PTL DEF Spec

-----------------------------------------------------------------------------
(* Pacing.                                                                 *)

LEMMA PaceInit == Init => PaceInv
<1> SUFFICES ASSUME Init PROVE PaceInv OBVIOUS
<1>1. TypeOK BY TypeInit
<1>2. Ids = {} BY DEF Init, Ids
<1>3. QED
  BY <1>1, <1>2 DEF PaceInv, Init, BarOver, FillsPast, SentPaced, PacingKept

\* A bar in hand is over when it is taken up, and time only advances.
LEMMA BarStaysOver == TypeOK /\ BarOver /\ [Next]_vars => BarOver'
<1> SUFFICES ASSUME TypeOK, BarOver, [Next]_vars PROVE BarOver' OBVIOUS
<1> USE DEF BarOver
<1>1. CASE BarCloses
  BY <1>1, GateAssumption DEF TypeOK, BarCloses, NoBar
<1>2. ASSUME bar' = bar, now' = now, pc' # "idle" => pc # "idle" PROVE BarOver'
  BY <1>2
<1>3. ASSUME NEW h \in Heads, NEW d \in Dirs, NEW shape \in Shapes,
             OpenSignal(h, d, shape)
      PROVE  BarOver'
  <2>1. bar' = bar /\ now' = now /\ pc = "bar"
    BY <1>3 DEF OpenSignal, clockVars
  <2>2. QED BY <2>1, <1>2
<1>4. CASE OrderFills \/ OrderErrs \/ AddReturns \/ LookForAdds
  <2>1. bar' = bar /\ now' = now /\ pc # "idle"
    BY <1>4 DEF OrderFills, OrderErrs, AddReturns, LookForAdds, clockVars
  <2>2. QED BY <2>1, <1>2
<1>5. ASSUME NEW h \in Heads, HeadCloses(h) PROVE BarOver'
  BY <1>5 DEF HeadCloses, clockVars
<1>6. CASE BarDone \/ Restart
  BY <1>6 DEF BarDone, Restart
<1>7. CASE Pass
  BY <1>7, GateAssumption DEF TypeOK, Pass, procVars
<1>8. ASSUME NEW i \in Ids, VenueCloses(i) PROVE BarOver'
  BY <1>8 DEF VenueCloses, clockVars, procVars
<1>9. CASE UNCHANGED vars
  BY <1>9 DEF vars, clockVars, procVars
<1>10. ASSUME NEW h \in Heads, NEW shape \in Shapes, AddSignal(h, shape)
       PROVE  BarOver'
  <2>1. bar' = bar /\ now' = now /\ pc = "adds"
    BY <1>10 DEF AddSignal, clockVars
  <2>2. QED BY <2>1, <1>2
<1>11. QED
  BY <1>1, <1>3, <1>4, <1>5, <1>6, <1>7, <1>8, <1>9, <1>10 DEF Next

\* The history only grows, by fills stamped now.
LEMMA HistoryGrows ==
    ASSUME TypeOK, [Next]_vars
    PROVE  /\ now <= now'
           /\ \A i \in Ids : fills'[i] = fills[i]
           /\ \A i \in Ids' : i \in Ids \/ fills'[i].at = now'
<1>1. CASE UNCHANGED fills /\ now <= now'
  BY <1>1 DEF Ids
<1>2. CASE fills' = Filled /\ now' = now /\ pc = "sent"
  <2>1. Ids' = Ids \cup {NewId}
    BY <1>2, FillAppends DEF Ids
  <2>2. now <= now'
    BY <1>2 DEF TypeOK
  <2>3. fills'[NewId].at = now'
    BY <1>2, FillAppends
  <2>4. QED BY <1>2, <2>1, <2>2, <2>3, FillAppends
<1>3. CASE OrderFills \/ OrderErrs \/ AddReturns
  <2>1. now' = now /\ pc = "sent" /\ now <= now'
    BY <1>3 DEF TypeOK, OrderFills, OrderErrs, AddReturns, clockVars
  <2>2. fills' = Filled \/ fills' = fills
    BY <1>3 DEF OrderFills, OrderErrs, AddReturns, SilentFill
  <2>3. QED BY <1>1, <1>2, <2>1, <2>2
<1>4. CASE Pass
  BY <1>1, <1>4, GateAssumption DEF TypeOK, Pass, venueVars
<1>5. CASE BarCloses \/ LookForAdds \/ BarDone \/ Restart \/ UNCHANGED vars
  BY <1>1, <1>5
     DEF TypeOK, BarCloses, LookForAdds, BarDone, Restart, vars, clockVars, venueVars
<1>6. ASSUME NEW h \in Heads,
             \/ HeadCloses(h)
             \/ \E shape \in Shapes : AddSignal(h, shape)
             \/ \E d \in Dirs, shape \in Shapes : OpenSignal(h, d, shape)
      PROVE  UNCHANGED fills /\ now <= now'
  BY <1>6 DEF TypeOK, HeadCloses, OpenSignal, AddSignal, clockVars, venueVars
<1>7. ASSUME NEW i \in Ids, VenueCloses(i) PROVE UNCHANGED fills /\ now <= now'
  BY <1>7 DEF TypeOK, VenueCloses, clockVars
<1>8. QED BY <1>1, <1>3, <1>4, <1>5, <1>6, <1>7 DEF Next

LEMMA PaceClock == PaceInv /\ [Next]_vars => BarOver' /\ FillsPast'
<1> SUFFICES ASSUME PaceInv, [Next]_vars PROVE BarOver' /\ FillsPast' OBVIOUS
<1>1. TypeOK /\ TypeOK'
  BY TypeStep DEF PaceInv
<1>2. BarOver'
  BY BarStaysOver DEF PaceInv
<1>3. ASSUME NEW i \in Ids' PROVE fills'[i].at <= now'
  <2>1. now \in Nat /\ now' \in Nat /\ now <= now'
    BY <1>1, HistoryGrows DEF TypeOK
  <2>2. CASE i \in Ids
    <3>1. fills'[i] = fills[i] /\ fills[i].at \in Nat /\ fills[i].at <= now
      BY <1>1, <2>2, HistoryGrows, FillRecords DEF PaceInv, FillsPast
    <3>2. QED BY <2>1, <3>1
  <2>3. CASE fills'[i].at = now'
    BY <2>1, <2>3
  <2>4. QED BY <1>1, <2>2, <2>3, HistoryGrows
<1>4. QED BY <1>2, <1>3 DEF FillsPast

\* A step that adds no fill and no entry, keeps the bar and sends nothing keeps
\* the pacing.
LEMMA PaceKept ==
    ASSUME PaceInv, program' = program, bar' = bar, recent' \subseteq recent,
           fills' = fills,
           pc' = "sent" => pc = "sent"
    PROVE  SentPaced' /\ PacingKept'
<1>1. Config' = Config /\ Enabled' = Enabled /\ Ids' = Ids
  BY DEF Config, Enabled, Ids
<1>2. SentPaced'
  BY <1>1 DEF PaceInv, SentPaced
<1>3. PacingKept'
  BY <1>1 DEF PaceInv, PacingKept
<1>4. QED BY <1>2, <1>3

\* The gate measures the distance to the start of the bar; the fill, whether
\* the process hears of it and records it or not, comes after its end.
LEMMA PaceFills ==
    ASSUME PaceInv, pc = "sent", pc' # "sent", program' = program, fills' = Filled,
           recent' \subseteq recent \cup {NewId},
           ~Enabled => recent' \subseteq recent
    PROVE  SentPaced' /\ PacingKept'
<1>0. TypeOK /\ program \in Programs /\ Config' = Config /\ Enabled' = Enabled
  BY DEF PaceInv, TypeOK, Config, Enabled
<1>1. CASE ~Enabled
  BY <1>0, <1>1 DEF PaceInv, SentPaced, PacingKept
<1>2. CASE Enabled
  <2> DEFINE min == Config.min_seconds_between_entries
  <2>1. /\ \A i \in Ids : i < NewId /\ fills'[i] = fills[i] /\ fills[i].at \in Nat
        /\ fills'[NewId].at = now /\ Ids' = Ids \cup {NewId}
    BY <1>0, FillAppends, FillRecords DEF Ids
  <2>2. recent \subseteq Ids /\ NewId \in Nat /\ \A i \in Ids : i \in Nat
    BY <1>0 DEF TypeOK, NewId, Ids
  <2>3. \A i \in recent : now - fills[i].at >= min + BarSecs
    <3>1. min \in Nat /\ BarSecs \in Nat /\ now \in Nat /\ bar \in Int
      BY <1>0, MinSeconds, GateAssumption DEF TypeOK
    <3>2. bar + BarSecs <= now
      BY DEF PaceInv, BarOver
    <3>3. \A i \in recent : bar - fills[i].at >= min
      BY <1>2 DEF PaceInv, SentPaced
    <3> HIDE DEF min
    <3>4. QED BY <2>1, <2>2, <3>1, <3>2, <3>3
  <2>4. ASSUME NEW i \in recent', NEW j \in Ids', i < j
        PROVE  fills'[j].at - fills'[i].at >= min + BarSecs
    <3>1. i \in recent
      <4>1. i # NewId
        BY <2>1, <2>2, <2>4
      <4>2. QED BY <4>1
    <3>2. CASE j \in Ids
      BY <2>1, <2>2, <2>4, <3>1, <3>2 DEF PaceInv, PacingKept
    <3>3. CASE j = NewId
      BY <2>1, <2>2, <2>3, <3>1, <3>3
    <3>4. QED BY <2>1, <3>2, <3>3
  <2>5. QED BY <1>0, <1>2, <2>4 DEF SentPaced, PacingKept
<1>3. QED BY <1>1, <1>2

\* The gate lets an order go only when the pause is over at the start of the
\* bar.
LEMMA PaceSends ==
    ASSUME PaceInv, program' = program, bar' = bar, fills' = fills,
           recent' \subseteq recent,
           pc' = "sent" /\ Enabled => PacingOk(bar)
    PROVE  SentPaced' /\ PacingKept'
<1>1. Config' = Config /\ Enabled' = Enabled /\ Ids' = Ids
  BY DEF Config, Enabled, Ids
<1>2. SentPaced'
  BY <1>1 DEF PaceInv, SentPaced, PacingOk
<1>3. PacingKept'
  BY <1>1 DEF PaceInv, PacingKept
<1>4. QED BY <1>2, <1>3

LEMMA PaceStep == PaceInv /\ [Next]_vars => SentPaced' /\ PacingKept'
<1> SUFFICES ASSUME PaceInv, [Next]_vars PROVE SentPaced' /\ PacingKept' OBVIOUS
<1>1. CASE BarCloses
  <2>1. Config' = Config /\ Enabled' = Enabled /\ Ids' = Ids
    BY <1>1 DEF BarCloses, Config, Enabled, Ids
  <2>2. QED BY <1>1, <2>1 DEF PaceInv, BarCloses, SentPaced, PacingKept
<1>2. ASSUME NEW h \in Heads, NEW d \in Dirs, NEW shape \in Shapes,
             OpenSignal(h, d, shape)
      PROVE  SentPaced' /\ PacingKept'
  <2>1. /\ program' = program /\ bar' = bar /\ fills' = fills
        /\ recent' \subseteq recent
    BY <1>2 DEF OpenSignal, Pruned, clockVars, venueVars
  <2>2. pc' = "sent" /\ Enabled => PacingOk(bar)
    BY <1>2 DEF OpenSignal, Compliant
  <2>3. QED BY <2>1, <2>2, PaceSends
<1>3. ASSUME NEW h \in Heads, NEW shape \in Shapes, AddSignal(h, shape)
      PROVE  SentPaced' /\ PacingKept'
  <2>1. /\ program' = program /\ bar' = bar /\ fills' = fills
        /\ recent' \subseteq recent
    BY <1>3 DEF AddSignal, Pruned, clockVars, venueVars
  <2>2. pc' = "sent" /\ Enabled => PacingOk(bar)
    BY <1>3 DEF AddSignal, Compliant
  <2>3. QED BY <2>1, <2>2, PaceSends
<1>4. CASE OrderFills
  <2>1. /\ pc = "sent" /\ pc' # "sent" /\ program' = program /\ fills' = Filled
        /\ recent' \subseteq recent \cup {NewId}
        /\ ~Enabled => recent' \subseteq recent
    BY <1>4 DEF OrderFills
  <2>2. QED BY <2>1, PaceFills
<1>5. CASE OrderErrs \/ AddReturns
  <2>1. /\ pc = "sent" /\ pc' # "sent" /\ program' = program /\ recent' = recent
        /\ bar' = bar /\ (fills' = Filled \/ fills' = fills)
    BY <1>5 DEF OrderErrs, AddReturns, SilentFill, clockVars
  <2>2. QED BY <2>1, PaceFills, PaceKept
<1>6. ASSUME NEW h \in Heads, HeadCloses(h) PROVE SentPaced' /\ PacingKept'
  BY <1>6, PaceKept DEF HeadCloses, clockVars
<1>7. CASE BarDone \/ LookForAdds
  BY <1>7, PaceKept DEF BarDone, LookForAdds, clockVars, venueVars
<1>8. CASE Pass
  BY <1>8, PaceKept DEF Pass, procVars, venueVars
<1>9. ASSUME NEW i \in Ids, VenueCloses(i) PROVE SentPaced' /\ PacingKept'
  BY <1>9, PaceKept DEF VenueCloses, clockVars, procVars
<1>10. CASE Restart
  BY <1>10, PaceKept DEF Restart, clockVars
<1>11. CASE UNCHANGED vars
  BY <1>11, PaceKept DEF vars, clockVars, procVars, venueVars
<1>12. QED
  BY <1>1, <1>2, <1>3, <1>4, <1>5, <1>6, <1>7, <1>8, <1>9, <1>10, <1>11 DEF Next

\* For every firm, bar length and number of layers: whatever an order of the
\* process fills after an entry it recorded comes at least the firm's pause
\* and a whole bar later, although the gate compares the start of the bar with
\* the fill.
THEOREM Paced == Spec => []PacingKept
<1>1. PaceInv /\ [Next]_vars => PaceInv'
  BY TypeStep, PaceClock, PaceStep DEF PaceInv
<1>2. PaceInv => PacingKept
  BY DEF PaceInv
<1>3. QED BY <1>1, <1>2, PaceInit, PTL DEF Spec

-----------------------------------------------------------------------------
(* Hedging.                                                                *)

LEMMA HedgeInit == Init => HedgeInv
<1> SUFFICES ASSUME Init PROVE HedgeInv OBVIOUS
<1>1. TypeOK BY TypeInit
<1>2. QED
  BY <1>1 DEF HedgeInv, Init, BookComplete, SentAgrees, HedgeNeedsLoss

\* A step that puts no order on its way, loses no tracked position that stays
\* open and adds no open position that was not lost keeps the three.
LEMMA HedgeKept ==
    ASSUME HedgeInv, program' = program,
           open' \ lost' \subseteq open \ lost,
           open' \ lost' \subseteq Book',
           \A i \in open : fills'[i] = fills[i],
           pc' # "sent"
    PROVE  BookComplete' /\ SentAgrees' /\ HedgeNeedsLoss'
<1>1. Enabled' = Enabled
  BY DEF Enabled
<1>2. \A i \in open' \ lost' : i \in open \ lost /\ fills'[i] = fills[i]
  OBVIOUS
<1>3. HedgeNeedsLoss'
  BY <1>1, <1>2 DEF HedgeInv, HedgeNeedsLoss
<1>4. QED BY <1>3 DEF BookComplete, SentAgrees

LEMMA HedgeStep == HedgeInv /\ [Next]_vars => BookComplete' /\ SentAgrees' /\ HedgeNeedsLoss'
<1> SUFFICES ASSUME HedgeInv, [Next]_vars
             PROVE  BookComplete' /\ SentAgrees' /\ HedgeNeedsLoss'
  OBVIOUS
<1>0. TypeOK /\ open \ lost \subseteq Book /\ open \subseteq Ids
  BY DEF HedgeInv, TypeOK, BookComplete
<1>1. CASE BarCloses
  <2>1. /\ program' = program /\ open' = open /\ fills' = fills /\ pc' # "sent"
    BY <1>1 DEF BarCloses
  <2>2. open' \ lost' \subseteq open \ lost /\ open' \ lost' \subseteq Book'
    <3>1. CASE lost' = lost \cup (open \cap Book)
      BY <1>0, <2>1, <3>1
    <3>2. CASE UNCHANGED <<tracked, lost>>
      BY <1>0, <2>1, <3>2 DEF Book, Held
    <3>3. QED BY <1>1, <3>1, <3>2 DEF BarCloses
  <2>3. QED BY <2>1, <2>2, HedgeKept
<1>2. ASSUME NEW h \in Heads, NEW d \in Dirs, NEW shape \in Shapes,
             OpenSignal(h, d, shape)
      PROVE  BookComplete' /\ SentAgrees' /\ HedgeNeedsLoss'
  <2>1. /\ UNCHANGED <<program, tracked, open, fills, lost>>
        /\ Enabled' = Enabled /\ Book' = Book
    BY <1>2 DEF OpenSignal, clockVars, venueVars, Enabled, Book, Held
  <2>2. pc' = "sent" =>
          /\ order'.head = h /\ order'.dir = d /\ tracked[h] = None
          /\ Enabled => \A i \in Book : fills[i].dir = d
    BY <1>2 DEF OpenSignal, Compliant, HedgeOk
  <2>3. SentAgrees'
    BY <1>0, <2>1, <2>2 DEF SentAgrees
  <2>4. QED
    BY <2>1, <2>3 DEF HedgeInv, BookComplete, HedgeNeedsLoss
<1>3. CASE OrderFills
  <2>1. /\ pc = "sent" /\ pc' = "bar" /\ fills' = Filled
        /\ open' = open \cup {NewId} /\ lost' = lost
        /\ tracked' = [tracked EXCEPT ![order.head] = NewId]
        /\ Enabled' = Enabled
    BY <1>3 DEF OrderFills, Enabled
  <2>2. order.head \in Heads /\ tracked[order.head] = None
    BY <1>0, <1>3, <2>1 DEF OrderFills, TypeOK, Orders, HedgeInv, SentAgrees
  <2>3. /\ \A i \in open : fills'[i] = fills[i]
        /\ fills'[NewId].dir = order.dir
    BY <1>0, <2>1, FillAppends
  <2>4. open' \ lost' \subseteq (open \ lost) \cup {NewId}
    BY <2>1
  <2>5. BookComplete'
    <3>1. Book \cup {NewId} \subseteq Book'
      <4>1. NewId # None
        BY <1>0 DEF TypeOK, NewId, None
      <4>2. \A g \in Held : g # order.head /\ tracked'[g] = tracked[g]
        BY <1>0, <2>1, <2>2 DEF TypeOK, Held
      <4>3. tracked'[order.head] = NewId
        BY <1>0, <2>1, <2>2 DEF TypeOK
      <4>4. \A g \in Held : g \in Held'
        BY <4>2 DEF Held
      <4>5. order.head \in Held'
        BY <2>2, <4>1, <4>3 DEF Held
      <4>6. QED BY <4>2, <4>3, <4>4, <4>5 DEF Book
    <3>2. QED BY <1>0, <2>4, <3>1 DEF BookComplete
  <2>6. HedgeNeedsLoss'
    <3> SUFFICES ASSUME Enabled PROVE \A i, j \in open' \ lost' : fills'[i].dir = fills'[j].dir
      BY <2>1 DEF HedgeNeedsLoss
    <3>1. \A i \in open \ lost : fills'[i].dir = order.dir
      BY <2>1, <2>3 DEF HedgeInv, SentAgrees
    <3>2. QED BY <2>3, <2>4, <3>1
  <2>7. QED BY <2>1, <2>5, <2>6 DEF SentAgrees
<1>4. CASE OrderErrs \/ AddReturns
  <2>1. /\ program' = program /\ tracked' = tracked /\ pc = "sent" /\ pc' # "sent"
        /\ lost' = lost \cup (open' \ open)
    BY <1>4 DEF OrderErrs, AddReturns
  <2>2. open' \ lost' \subseteq open \ lost
    BY <2>1
  <2>3. Book' = Book
    BY <2>1 DEF Book, Held
  <2>4. \A i \in open : fills'[i] = fills[i]
    BY <1>0, HistoryGrows
  <2>5. QED BY <1>0, <2>1, <2>2, <2>3, <2>4, HedgeKept
<1>5. ASSUME NEW h \in Heads, HeadCloses(h)
      PROVE  BookComplete' /\ SentAgrees' /\ HedgeNeedsLoss'
  <2>1. /\ program' = program /\ fills' = fills /\ lost' = lost /\ pc' # "sent"
        /\ open' = open \ {tracked[h]}
        /\ tracked' = [tracked EXCEPT ![h] = None]
    BY <1>5 DEF HeadCloses, clockVars
  <2>2. Book \ {tracked[h]} \subseteq Book'
    BY <1>0, <2>1 DEF TypeOK, Book, Held
  <2>3. QED BY <1>0, <2>1, <2>2, HedgeKept
<1>6. CASE BarDone \/ LookForAdds
  <2>1. UNCHANGED <<program, tracked, fills, open, lost>> /\ pc' # "sent" /\ Book' = Book
    BY <1>6 DEF BarDone, LookForAdds, venueVars, Book, Held
  <2>2. QED BY <1>0, <2>1, HedgeKept
<1>7. CASE Pass \/ UNCHANGED vars
  <2>1. UNCHANGED <<program, pc, order, tracked, fills, open, lost>>
    BY <1>7 DEF Pass, vars, clockVars, procVars, venueVars
  <2>2. QED
    BY <2>1 DEF HedgeInv, BookComplete, SentAgrees, HedgeNeedsLoss, Book, Held, Enabled
<1>8. ASSUME NEW i \in Ids, VenueCloses(i)
      PROVE  BookComplete' /\ SentAgrees' /\ HedgeNeedsLoss'
  <2>1. UNCHANGED <<program, pc, order, tracked, fills, lost>> /\ open' = open \ {i}
    BY <1>8 DEF VenueCloses, clockVars, procVars
  <2>2. QED
    BY <2>1 DEF HedgeInv, BookComplete, SentAgrees, HedgeNeedsLoss, Book, Held, Enabled
<1>9. CASE Restart
  <2>1. /\ program' = program /\ fills' = fills /\ open' = open /\ pc' # "sent"
        /\ lost' = lost \cup {i \in open : \A h \in Heads : tracked'[h] # i}
    BY <1>9 DEF Restart
  <2>2. ASSUME NEW i \in open' \ lost' PROVE i \in Book'
    <3>1. PICK h \in Heads : tracked'[h] = i
      BY <2>1, <2>2
    <3>2. i # None
      BY <1>0, <2>1, <2>2 DEF TypeOK, Ids, None
    <3>3. QED BY <2>1, <3>1, <3>2 DEF Book, Held
  <2>3. QED BY <2>1, <2>2, HedgeKept
<1>10. ASSUME NEW h \in Heads, NEW shape \in Shapes, AddSignal(h, shape)
       PROVE  BookComplete' /\ SentAgrees' /\ HedgeNeedsLoss'
  <2> DEFINE d == fills[tracked[h]].dir
  <2>1. /\ UNCHANGED <<program, tracked, open, fills, lost>>
        /\ Enabled' = Enabled /\ Book' = Book
    BY <1>10 DEF AddSignal, clockVars, venueVars, Enabled, Book, Held
  <2>2. pc' = "sent" =>
          /\ order'.add /\ order'.dir = d
          /\ Enabled => \A i \in Book : fills[i].dir = d
    BY <1>10 DEF AddSignal, Compliant, HedgeOk
  <2>3. SentAgrees'
    BY <1>0, <2>1, <2>2 DEF SentAgrees
  <2>4. QED
    BY <2>1, <2>3 DEF HedgeInv, BookComplete, HedgeNeedsLoss
<1>11. QED
  BY <1>1, <1>2, <1>3, <1>4, <1>5, <1>6, <1>7, <1>8, <1>9, <1>10 DEF Next

\* For every firm with rules and every set of heads: two open positions of
\* opposite directions include one that the process had lost track of.
THEOREM OnlyLostHedge == Spec => []HedgeNeedsLoss
<1>1. HedgeInv /\ [Next]_vars => HedgeInv'
  BY TypeStep, HedgeStep DEF HedgeInv
<1>2. HedgeInv => HedgeNeedsLoss
  BY DEF HedgeInv
<1>3. QED BY <1>1, <1>2, HedgeInit, PTL DEF Spec
-----------------------------------------------------------------------------
(* Exposure.  The guard counts the book; every open position that was never*)
(* lost is in it, so the order on its way leaves room for itself.          *)

OneWay(d) == {i \in open \ lost : fills[i].dir = d}

SentRoom == pc = "sent" => Cardinality(OneWay(order.dir)) < MaxClusterExposure

ClusterInv == HedgeInv /\ SentRoom /\ ClusterKept

\* A set of positions is finite, and a part of it is not larger.
LEMMA IdsFinite ==
    ASSUME TypeOK, NEW S \in SUBSET Ids, NEW T \in SUBSET S
    PROVE  /\ IsFiniteSet(S) /\ IsFiniteSet(T)
           /\ Cardinality(S) \in Nat /\ Cardinality(T) \in Nat
           /\ Cardinality(T) <= Cardinality(S)
<1>1. Len(fills) \in Nat
  BY DEF TypeOK
<1>2. IsFiniteSet(Ids)
  BY <1>1, FS_Interval DEF Ids
<1>3. QED BY <1>2, FS_Subset, FS_CardinalityType

\* A step that adds no open position that was not lost, and sends no order,
\* leaves at least the room there was.
LEMMA RoomKept ==
    ASSUME ClusterInv, TypeOK,
           open' \ lost' \subseteq open \ lost,
           \A i \in open : fills'[i] = fills[i],
           pc' = "sent" => pc = "sent" /\ order' = order
    PROVE  SentRoom' /\ ClusterKept'
<1> DEFINE Then(d) == {i \in open' \ lost' : fills'[i].dir = d}
<1>1. ASSUME NEW d
      PROVE  Cardinality(Then(d)) <= Cardinality(OneWay(d))
             /\ Cardinality(Then(d)) \in Nat /\ Cardinality(OneWay(d)) \in Nat
  <2>1. Then(d) \subseteq OneWay(d) /\ OneWay(d) \subseteq Ids
    BY DEF TypeOK, OneWay
  <2>2. QED BY <2>1, IdsFinite
<1>2. SentRoom'
  <2> SUFFICES ASSUME pc' = "sent"
               PROVE  Cardinality(Then(order.dir)) < MaxClusterExposure
    BY DEF SentRoom, OneWay
  <2>1. Cardinality(OneWay(order.dir)) < MaxClusterExposure
    BY DEF ClusterInv, SentRoom
  <2>2. QED BY <1>1, <2>1 DEF MaxClusterExposure
<1>3. ClusterKept'
  <2> SUFFICES ASSUME NEW d \in Dirs
               PROVE  Cardinality(Then(d)) <= MaxClusterExposure
    BY DEF ClusterKept
  <2>1. Cardinality(OneWay(d)) <= MaxClusterExposure
    BY DEF ClusterInv, ClusterKept, OneWay
  <2>2. QED BY <1>1, <2>1 DEF MaxClusterExposure
<1>4. QED BY <1>2, <1>3

LEMMA ClusterStep == ClusterInv /\ [Next]_vars => SentRoom' /\ ClusterKept'
<1> SUFFICES ASSUME ClusterInv, [Next]_vars PROVE SentRoom' /\ ClusterKept'
  OBVIOUS
<1>0. TypeOK /\ open \ lost \subseteq Book /\ open \subseteq Ids
  BY DEF ClusterInv, HedgeInv, TypeOK, BookComplete
<1>1. \A i \in open : fills'[i] = fills[i]
  BY <1>0, HistoryGrows
<1>2. ASSUME UNCHANGED <<open, fills, lost>>, NEW d, CorrelationOk(d),
             pc' = "sent" => order'.dir = d
      PROVE  SentRoom' /\ ClusterKept'
  <2>1. OneWay(d) \subseteq Aligned(d) /\ Aligned(d) \subseteq Ids
    BY <1>0 DEF OneWay, Aligned, TypeOK, Book, Held
  <2>2. Cardinality(OneWay(d)) < MaxClusterExposure
    BY <1>0, <1>2, <2>1, IdsFinite DEF MaxClusterExposure, CorrelationOk
  <2>3. QED
    BY <1>2, <2>2 DEF ClusterInv, SentRoom, ClusterKept, OneWay
<1>2a. ASSUME NEW h \in Heads, NEW d \in Dirs, NEW shape \in Shapes,
             OpenSignal(h, d, shape)
       PROVE  SentRoom' /\ ClusterKept'
  <2>1. /\ UNCHANGED <<open, fills, lost>> /\ CorrelationOk(d)
        /\ pc' = "sent" => order'.dir = d
    BY <1>2a DEF OpenSignal, venueVars
  <2>2. QED BY <1>2, <2>1
<1>3. CASE OrderFills
  <2>1. /\ pc = "sent" /\ pc' = "bar" /\ fills' = Filled /\ lost' = lost
        /\ open' = open \cup {NewId}
    BY <1>3 DEF OrderFills
  <2>2. fills'[NewId].dir = order.dir
    BY <1>0, <2>1, FillAppends
  <2>3. ASSUME NEW d \in Dirs
        PROVE  Cardinality({i \in open' \ lost' : fills'[i].dir = d}) <= MaxClusterExposure
    <3> DEFINE Then == {i \in open' \ lost' : fills'[i].dir = d}
    <3>1. OneWay(d) \subseteq Ids
      BY <1>0 DEF OneWay
    <3>2. IsFiniteSet(OneWay(d)) /\ Cardinality(OneWay(d)) \in Nat
      BY <1>0, <3>1, IdsFinite
    <3>3. CASE d = order.dir
      <4>1. Then \subseteq OneWay(d) \cup {NewId}
        BY <1>1, <2>1 DEF OneWay
      <4>2. Cardinality(OneWay(d)) < MaxClusterExposure
        BY <2>1, <3>3 DEF ClusterInv, SentRoom
      <4>3. /\ IsFiniteSet(OneWay(d) \cup {NewId})
            /\ \/ Cardinality(OneWay(d) \cup {NewId}) = Cardinality(OneWay(d))
               \/ Cardinality(OneWay(d) \cup {NewId}) = Cardinality(OneWay(d)) + 1
        BY <3>2, FS_AddElement
      <4>4. /\ Cardinality(Then) <= Cardinality(OneWay(d) \cup {NewId})
            /\ Cardinality(Then) \in Nat
        BY <4>1, <4>3, FS_Subset, FS_CardinalityType
      <4>5. QED BY <3>2, <4>2, <4>3, <4>4 DEF MaxClusterExposure
    <3>4. CASE d # order.dir
      <4>1. Then \subseteq OneWay(d)
        BY <1>1, <2>1, <2>2, <3>4 DEF OneWay
      <4>2. Cardinality(Then) <= Cardinality(OneWay(d)) /\ Cardinality(Then) \in Nat
        BY <3>2, <4>1, FS_Subset, FS_CardinalityType
      <4>3. Cardinality(OneWay(d)) <= MaxClusterExposure
        BY DEF ClusterInv, ClusterKept, OneWay
      <4>4. QED BY <3>2, <4>2, <4>3 DEF MaxClusterExposure
    <3>5. QED BY <3>3, <3>4
  <2>4. QED BY <2>1, <2>3 DEF SentRoom, ClusterKept
<1>4. CASE OrderErrs \/ AddReturns
  <2>1. pc' # "sent" /\ lost' = lost \cup (open' \ open)
    BY <1>4 DEF OrderErrs, AddReturns
  <2>2. QED BY <1>0, <1>1, <2>1, RoomKept
<1>5. ASSUME open' \subseteq open, lost \subseteq lost',
             pc' = "sent" => pc = "sent" /\ order' = order
      PROVE  SentRoom' /\ ClusterKept'
  BY <1>0, <1>1, <1>5, RoomKept
<1>6. CASE BarCloses \/ LookForAdds \/ BarDone \/ Restart
  BY <1>5, <1>6 DEF BarCloses, LookForAdds, BarDone, Restart, venueVars
<1>7. ASSUME NEW h \in Heads, HeadCloses(h) PROVE SentRoom' /\ ClusterKept'
  BY <1>5, <1>7 DEF HeadCloses
<1>8. CASE Pass \/ UNCHANGED vars
  BY <1>5, <1>8 DEF Pass, vars, procVars, venueVars
<1>9. ASSUME NEW i \in Ids, VenueCloses(i) PROVE SentRoom' /\ ClusterKept'
  BY <1>5, <1>9 DEF VenueCloses, procVars
<1>10. ASSUME NEW h \in Heads, NEW shape \in Shapes, AddSignal(h, shape)
       PROVE  SentRoom' /\ ClusterKept'
  <2> DEFINE d == fills[tracked[h]].dir
  <2>1. UNCHANGED <<open, fills, lost>> /\ pc = "adds"
    BY <1>10 DEF AddSignal, venueVars
  <2>2. CASE pc' # "sent"
    BY <1>5, <2>1, <2>2
  <2>3. CASE pc' = "sent"
    <3>1. CorrelationOk(d) /\ order'.dir = d
      BY <1>10, <2>1, <2>3 DEF AddSignal
    <3>2. QED BY <1>2, <2>1, <3>1
  <2>4. QED BY <2>2, <2>3
<1>11. QED
  BY <1>2a, <1>3, <1>4, <1>6, <1>7, <1>8, <1>9, <1>10 DEF Next

\* For every firm, set of heads and number of positions it allows: no more
\* than the cap of positions of one direction are open and never were lost
\* (correlation.rs:133).
THEOREM ClusterIsCapped == Spec => []ClusterKept
<1>1. Init => ClusterInv
  <2> SUFFICES ASSUME Init PROVE ClusterInv OBVIOUS
  <2>1. \A d : {i \in open \ lost : fills[i].dir = d} = {}
    BY DEF Init
  <2>2. QED
    BY <2>1, HedgeInit, FS_EmptySet
       DEF ClusterInv, SentRoom, ClusterKept, Init, MaxClusterExposure
<1>2. ClusterInv /\ [Next]_vars => ClusterInv'
  BY TypeStep, HedgeStep, ClusterStep DEF ClusterInv, HedgeInv
<1>3. ClusterInv => ClusterKept
  BY DEF ClusterInv
<1>4. QED BY <1>1, <1>2, <1>3, PTL DEF Spec

-----------------------------------------------------------------------------
(* One trade idea.  The gate counts the entries within the window before   *)
(* the start of the bar; the fill comes after its end, so the entries      *)
(* within the window before the fill are among them.                       *)

\* The recorded entries before the fill j that share its direction and window.
Idea(j) == {i \in recent : /\ i < j /\ fills[i].dir = fills[j].dir
                           /\ fills[j].at - fills[i].at
                                <= Config.same_trade_idea_window_secs}

SentIdea ==
    pc = "sent" /\ program = "FundingPipsZero" =>
        BaseRiskPct * (Cardinality(SameIdea(recent, order.dir, bar)) + 1)
          <= Config.max_trade_idea_risk_pct

IdeaInv == TypeOK /\ BarOver /\ SentIdea /\ IdeaCapped

\* config_for_program asks for amounts.
LEMMA IdeaLimits ==
    /\ Config.same_trade_idea_window_secs \in Nat
    /\ Config.max_trade_idea_risk_pct \in Nat
BY DEF Config, ConfigFor

\* Fewer entries risk no more.
LEMMA RiskMonotone ==
    ASSUME NEW m \in Nat, NEW n \in Nat, m <= n
    PROVE  BaseRiskPct * m <= BaseRiskPct * n /\ BaseRiskPct * m \in Nat /\ BaseRiskPct * n \in Nat
<1>1. BaseRiskPct \in Nat
  BY GateAssumption
<1>2. PICK d \in Nat : n = m + d
  <2>1. n - m \in Nat /\ n = m + (n - m)
    OBVIOUS
  <2>2. QED BY <2>1
<1>3. BaseRiskPct * n = BaseRiskPct * m + BaseRiskPct * d /\ BaseRiskPct * d \in Nat
  BY <1>1, <1>2
<1>4. BaseRiskPct * m \in Nat /\ BaseRiskPct * n \in Nat
  BY <1>1
<1>5. QED BY <1>3, <1>4

\* Beside some of the entries of an idea there is room where there is room
\* beside all of them.
LEMMA FewerRisk ==
    ASSUME TypeOK, NEW S \in SUBSET Ids, NEW T \in SUBSET S,
           BaseRiskPct * (Cardinality(S) + 1) <= Config.max_trade_idea_risk_pct
    PROVE  BaseRiskPct * (Cardinality(T) + 1) <= Config.max_trade_idea_risk_pct
<1>1. /\ Cardinality(T) + 1 \in Nat /\ Cardinality(S) + 1 \in Nat
      /\ Cardinality(T) + 1 <= Cardinality(S) + 1
  BY IdsFinite
<1>2. /\ BaseRiskPct * (Cardinality(T) + 1) <= BaseRiskPct * (Cardinality(S) + 1)
      /\ BaseRiskPct * (Cardinality(T) + 1) \in Nat
      /\ BaseRiskPct * (Cardinality(S) + 1) \in Nat
  BY <1>1, RiskMonotone
<1>3. QED BY <1>2, IdeaLimits

\* Without a new fill, and with no new entry, an idea only shrinks.
LEMMA IdeaShrinks ==
    ASSUME IdeaInv, program' = program, fills' = fills, recent' \subseteq recent
    PROVE  IdeaCapped'
<1>0. TypeOK /\ recent \subseteq Ids /\ Config' = Config /\ Ids' = Ids
  BY DEF IdeaInv, TypeOK, Config, Ids
<1> SUFFICES ASSUME program = "FundingPipsZero", NEW j \in Ids
             PROVE  BaseRiskPct * (Cardinality(Idea(j)') + 1)
                      <= Config.max_trade_idea_risk_pct
  BY <1>0 DEF IdeaCapped, Idea
<1> DEFINE Before == Idea(j)
           Then == Idea(j)'
<1>1. Then \subseteq Before /\ Before \subseteq Ids
  BY <1>0 DEF Idea
<1>2. BaseRiskPct * (Cardinality(Before) + 1) <= Config.max_trade_idea_risk_pct
  BY DEF IdeaInv, IdeaCapped, Idea
<1> HIDE DEF Then, Before
<1>3. BaseRiskPct * (Cardinality(Then) + 1) <= Config.max_trade_idea_risk_pct
  BY <1>0, <1>1, <1>2, FewerRisk
<1>4. QED BY <1>3 DEF Then

\* A step that only drops entries, keeps the bar and sends nothing keeps the
\* cap.
LEMMA IdeaKept ==
    ASSUME IdeaInv, program' = program, bar' = bar \/ pc' # "sent",
           recent' \subseteq recent, fills' = fills,
           pc' = "sent" => pc = "sent" /\ order' = order
    PROVE  SentIdea' /\ IdeaCapped'
<1>0. TypeOK /\ recent \subseteq Ids /\ Config' = Config
  BY DEF IdeaInv, TypeOK, Config
<1>1. SentIdea'
  <2> SUFFICES ASSUME pc' = "sent", program = "FundingPipsZero"
               PROVE  BaseRiskPct * (Cardinality(SameIdea(recent, order.dir, bar)') + 1)
                        <= Config.max_trade_idea_risk_pct
    BY <1>0 DEF SentIdea
  <2> DEFINE Before == SameIdea(recent, order.dir, bar)
             Then == SameIdea(recent, order.dir, bar)'
  <2>1. Then \subseteq Before /\ Before \subseteq Ids
    BY <1>0 DEF SameIdea
  <2>2. BaseRiskPct * (Cardinality(Before) + 1) <= Config.max_trade_idea_risk_pct
    BY DEF IdeaInv, SentIdea
  <2> HIDE DEF Then, Before
  <2>3. BaseRiskPct * (Cardinality(Then) + 1) <= Config.max_trade_idea_risk_pct
    BY <1>0, <2>1, <2>2, FewerRisk
  <2>4. QED BY <2>3 DEF Then
<1>2. QED BY <1>1, IdeaShrinks

\* The gate counts the entries and the new order, and the exposure besides.
LEMMA IdeaSent ==
    ASSUME IdeaInv, program' = program, bar' = bar, fills' = fills,
           recent' \subseteq recent,
           NEW d, order'.dir = d, Enabled => IdeaOk(d, bar)
    PROVE  SentIdea' /\ IdeaCapped'
<1>0. TypeOK /\ recent \subseteq Ids /\ Config' = Config
  BY DEF IdeaInv, TypeOK, Config
<1>1. SentIdea'
  <2> SUFFICES ASSUME program = "FundingPipsZero"
               PROVE  BaseRiskPct * (Cardinality(SameIdea(recent, order.dir, bar)') + 1)
                        <= Config.max_trade_idea_risk_pct
    BY <1>0 DEF SentIdea
  <2> DEFINE b == Cardinality(SameIdea(Book, d, bar))
             Counted == SameIdea(recent, d, bar)
             Then == SameIdea(recent, order.dir, bar)'
  <2>1. BaseRiskPct * (b + Cardinality(Counted) + 1) <= Config.max_trade_idea_risk_pct
    BY DEF IdeaOk, Enabled
  <2>2. SameIdea(Book, d, bar) \subseteq Ids
    BY <1>0 DEF SameIdea, Book, Held, TypeOK
  <2>3. Then \subseteq Counted /\ Counted \subseteq Ids
    BY <1>0 DEF SameIdea
  <2>4. b \in Nat
    BY <1>0, <2>2, IdsFinite
  <2> HIDE DEF b, Counted, Then
  <2>5. /\ Cardinality(Then) \in Nat /\ Cardinality(Counted) \in Nat
        /\ Cardinality(Then) <= Cardinality(Counted)
    BY <1>0, <2>3, IdsFinite
  <2>6. /\ Cardinality(Then) + 1 \in Nat /\ b + Cardinality(Counted) + 1 \in Nat
        /\ Cardinality(Then) + 1 <= b + Cardinality(Counted) + 1
    BY <2>4, <2>5
  <2>7. BaseRiskPct * (Cardinality(Then) + 1)
            <= BaseRiskPct * (b + Cardinality(Counted) + 1)
        /\ BaseRiskPct * (Cardinality(Then) + 1) \in Nat
        /\ BaseRiskPct * (b + Cardinality(Counted) + 1) \in Nat
    BY <2>6, RiskMonotone
  <2>8. BaseRiskPct * (Cardinality(Then) + 1) <= Config.max_trade_idea_risk_pct
    BY <2>1, <2>7, IdeaLimits
  <2>9. QED BY <2>8 DEF Then
<1>2. QED BY <1>1, IdeaShrinks

\* The fill, told or not, stands beside the entries the gate has counted.
LEMMA IdeaFills ==
    ASSUME IdeaInv, pc = "sent", program' = program, fills' = Filled,
           recent' \subseteq recent \cup {NewId}
    PROVE  IdeaCapped'
<1>1. TypeOK /\ recent \subseteq Ids /\ Config' = Config
  BY DEF IdeaInv, TypeOK, Config
<1>2. /\ \A i \in Ids : i < NewId /\ fills'[i] = fills[i] /\ fills[i].at \in Nat
                        /\ i \in Nat
      /\ NewId \in Nat /\ Ids' = Ids \cup {NewId}
      /\ fills'[NewId].at = now /\ fills'[NewId].dir = order.dir
  <2>1. \A i \in Ids : i < NewId /\ fills'[i] = fills[i] /\ i \in Nat
    BY <1>1, FillAppends DEF Ids
  <2>2. /\ fills'[NewId].at = now /\ fills'[NewId].dir = order.dir /\ NewId \in Nat
        /\ Ids' = Ids \cup {NewId}
    BY <1>1, FillAppends DEF TypeOK, NewId, Ids
  <2>3. QED BY <1>1, <2>1, <2>2, FillRecords
<1> SUFFICES ASSUME program = "FundingPipsZero", NEW j \in Ids'
             PROVE  BaseRiskPct * (Cardinality(Idea(j)') + 1)
                      <= Config.max_trade_idea_risk_pct
  BY <1>1 DEF IdeaCapped, Idea
<1> DEFINE Then == Idea(j)'
<1>3. \A i \in Then : i \in recent
  <2>1. ASSUME NEW i \in Then PROVE i # NewId
    <3>1. i < j /\ j \in Nat /\ (j = NewId \/ j < NewId)
      BY <1>2 DEF Idea
    <3>2. QED BY <1>2, <3>1
  <2>2. QED BY <2>1 DEF Idea
<1>4. CASE j \in Ids
  <2> DEFINE Before == Idea(j)
  <2>1. Then \subseteq Before /\ Before \subseteq Ids
    <3>1. ASSUME NEW i \in Then PROVE i \in Before
      <4>1. i \in recent /\ fills'[i] = fills[i] /\ fills'[j] = fills[j]
        BY <1>1, <1>2, <1>3, <1>4
      <4>2. QED BY <1>1, <4>1 DEF Idea
    <3>2. QED BY <1>1, <3>1 DEF Idea
  <2>2. BaseRiskPct * (Cardinality(Before) + 1) <= Config.max_trade_idea_risk_pct
    BY <1>4 DEF IdeaInv, IdeaCapped, Idea
  <2> HIDE DEF Then, Before
  <2>3. BaseRiskPct * (Cardinality(Then) + 1) <= Config.max_trade_idea_risk_pct
    BY <1>1, <2>1, <2>2, FewerRisk
  <2>4. QED BY <2>3 DEF Then
<1>5. CASE j = NewId
  <2> DEFINE Counted == SameIdea(recent, order.dir, bar)
  <2>1. /\ bar + BarSecs <= now /\ bar \in Int /\ now \in Nat /\ BarSecs \in Nat
        /\ Config.same_trade_idea_window_secs \in Nat
    BY <1>1, GateAssumption, IdeaLimits DEF IdeaInv, BarOver, TypeOK
  <2>2. Then \subseteq Counted
    <3>1. ASSUME NEW i \in Then PROVE i \in Counted
      <4>1. /\ i \in recent /\ fills'[i].dir = order.dir
            /\ now - fills'[i].at <= Config.same_trade_idea_window_secs
        BY <1>1, <1>2, <1>3, <1>5 DEF Idea
      <4>2. fills[i].dir = order.dir /\ fills[i].at \in Nat
            /\ now - fills[i].at <= Config.same_trade_idea_window_secs
        BY <1>1, <1>2, <4>1
      <4>3. bar - fills[i].at <= Config.same_trade_idea_window_secs
        BY <2>1, <4>2
      <4>4. QED BY <4>1, <4>2, <4>3 DEF SameIdea
    <3>2. QED BY <3>1
  <2>3. Counted \subseteq Ids
    BY <1>1 DEF SameIdea
  <2>4. BaseRiskPct * (Cardinality(Counted) + 1) <= Config.max_trade_idea_risk_pct
    BY DEF IdeaInv, SentIdea
  <2> HIDE DEF Then, Counted
  <2>5. BaseRiskPct * (Cardinality(Then) + 1) <= Config.max_trade_idea_risk_pct
    BY <1>1, <2>2, <2>3, <2>4, FewerRisk
  <2>6. QED BY <2>5 DEF Then
<1>6. QED BY <1>2, <1>4, <1>5

LEMMA IdeaStep == IdeaInv /\ [Next]_vars => SentIdea' /\ IdeaCapped'
<1> SUFFICES ASSUME IdeaInv, [Next]_vars PROVE SentIdea' /\ IdeaCapped'
  OBVIOUS
<1>1. ASSUME NEW h \in Heads, NEW d \in Dirs, NEW shape \in Shapes,
             OpenSignal(h, d, shape)
      PROVE  SentIdea' /\ IdeaCapped'
  <2>1. /\ program' = program /\ bar' = bar /\ fills' = fills /\ pc = "bar"
        /\ recent' \subseteq recent
    BY <1>1 DEF OpenSignal, clockVars, venueVars, Pruned
  <2>2. pc' = "sent" => order'.dir = d /\ (Enabled => IdeaOk(d, bar))
    BY <1>1, <2>1 DEF OpenSignal, Compliant
  <2>3. QED BY <2>1, <2>2, IdeaKept, IdeaSent
<1>2. ASSUME NEW h \in Heads, NEW shape \in Shapes, AddSignal(h, shape)
      PROVE  SentIdea' /\ IdeaCapped'
  <2> DEFINE d == fills[tracked[h]].dir
  <2>1. /\ program' = program /\ bar' = bar /\ fills' = fills /\ pc = "adds"
        /\ recent' \subseteq recent
    BY <1>2 DEF AddSignal, clockVars, venueVars, Pruned
  <2>2. pc' = "sent" => order'.dir = d /\ (Enabled => IdeaOk(d, bar))
    BY <1>2, <2>1 DEF AddSignal, Compliant
  <2>3. QED BY <2>1, <2>2, IdeaKept, IdeaSent
<1>3. CASE OrderFills \/ OrderErrs \/ AddReturns
  <2>1. /\ pc = "sent" /\ pc' # "sent" /\ program' = program
        /\ \/ fills' = Filled /\ recent' \subseteq recent \cup {NewId}
           \/ fills' = fills /\ recent' \subseteq recent
    BY <1>3 DEF OrderFills, OrderErrs, AddReturns, SilentFill
  <2>2. SentIdea'
    BY <2>1 DEF SentIdea
  <2>3. QED BY <2>1, <2>2, IdeaFills, IdeaShrinks
<1>4. ASSUME program' = program, bar' = bar \/ pc' # "sent", recent' \subseteq recent,
             fills' = fills, pc' = "sent" => pc = "sent" /\ order' = order
      PROVE  SentIdea' /\ IdeaCapped'
  BY <1>4, IdeaKept
<1>5. CASE BarCloses \/ LookForAdds \/ BarDone \/ Restart
  BY <1>4, <1>5 DEF BarCloses, LookForAdds, BarDone, Restart, clockVars, venueVars
<1>6. CASE Pass \/ UNCHANGED vars
  BY <1>4, <1>6 DEF Pass, vars, clockVars, procVars, venueVars
<1>7. ASSUME NEW h \in Heads, HeadCloses(h) PROVE SentIdea' /\ IdeaCapped'
  BY <1>4, <1>7 DEF HeadCloses, clockVars
<1>8. ASSUME NEW i \in Ids, VenueCloses(i) PROVE SentIdea' /\ IdeaCapped'
  BY <1>4, <1>8 DEF VenueCloses, clockVars, procVars
<1>9. QED
  BY <1>1, <1>2, <1>3, <1>5, <1>6, <1>7, <1>8 DEF Next

\* For every risk per trade, bar length and number of layers: whatever is
\* filled risks no more than the cap together with the recorded entries of its
\* direction in the window before it, although the gate counts against the
\* start of the bar (compliance.rs:333).
THEOREM IdeaIsCapped == Spec => []IdeaCapped
<1>1. Init => IdeaInv
  <2> SUFFICES ASSUME Init PROVE IdeaInv OBVIOUS
  <2>1. TypeOK /\ pc = "idle" /\ Ids = {}
    BY TypeInit DEF Init, Ids
  <2>2. QED BY <2>1 DEF IdeaInv, BarOver, SentIdea, IdeaCapped
<1>2. IdeaInv /\ [Next]_vars => IdeaInv'
  <2>1. IdeaInv /\ [Next]_vars => TypeOK' /\ BarOver'
    BY TypeStep, BarStaysOver DEF IdeaInv
  <2>2. QED BY <2>1, IdeaStep DEF IdeaInv
<1>3. IdeaInv => IdeaCapped
  BY DEF IdeaInv
<1>4. QED BY <1>1, <1>2, <1>3, PTL DEF Spec
-----------------------------------------------------------------------------
(* The risk stack.                                                         *)


Accounts == [equity : Nat \ {0}, hwm : Nat \ {0}, dd : Int, remaining : Int]

\* The parts of the state the floor depends on.
Typed ==
    /\ mode \in Modes
    /\ acct \in Accounts
    /\ kill \in Switch!Switches
    /\ losses \in Nat
    /\ cached \in Equities /\ balance \in Equities
    /\ clock \in Nat

IInv == Typed /\ FloorTripsSwitch

\* The total limit is a positive amount (config/firms/*.toml).
LEMMA LimitPositive == MaxDd \in Nat /\ MaxDd > 0 /\ MaxDd <= Start /\ Start \in Nat
BY ConstantsAssumption DEF Start

\* update_equity (account.rs:64) keeps the account typed and its mark at or
\* above both the equity and the mark before.
LEMMA UpdateTyped ==
    ASSUME NEW a \in Accounts, NEW equity \in Nat \ {0}, mode \in Modes
    PROVE  /\ UpdateEquity(a, equity) \in Accounts
           /\ UpdateEquity(a, equity).equity = equity
           /\ UpdateEquity(a, equity).hwm = Peak(a, equity)
           /\ Peak(a, equity) >= a.hwm /\ Peak(a, equity) >= equity
           /\ UpdateEquity(a, equity).dd = Used(equity, Peak(a, equity))
           /\ UpdateEquity(a, equity).remaining = Headroom(equity, Peak(a, equity))
<1> DEFINE h == Peak(a, equity)
<1>1. h \in Nat \ {0} /\ h >= a.hwm /\ h >= equity
  BY DEF Peak, Greatest, Accounts
<1>2. (10000 * (h - equity)) \div h \in Int
  BY <1>1
<1>3. MaxDd \in Int /\ Start \in Int
  BY ConstantsAssumption DEF Start
<1>4. Used(equity, h) \in Int
  <2>1. CASE mode = "trailing"
    BY <1>2, <2>1 DEF Used
  <2>2. CASE mode # "trailing"
    <3>1. Reference(h) \in Int
      BY <1>1, <1>3, <2>2, ConstantsAssumption DEF Reference, Least, Greatest
    <3>2. Greatest(Reference(h) - equity, 0) \in Int
      BY <3>1 DEF Greatest
    <3>3. QED BY <2>2, <3>2 DEF Used
  <2>3. QED BY <2>1, <2>2
<1>5. Headroom(equity, h) \in Int
  <2>1. CASE mode = "trailing"
    BY <1>2, <1>3, <2>1 DEF Headroom
  <2>2. CASE mode # "trailing"
    BY <1>1, <1>3, <2>2, ConstantsAssumption DEF Headroom, Least, Greatest
  <2>3. QED BY <2>1, <2>2
<1>6. QED BY <1>1, <1>4, <1>5 DEF UpdateEquity, Accounts

\* In every drawdown mode an account without headroom has used up the whole
\* limit (account.rs:70).
LEMMA NoHeadroomMeansBreach ==
    ASSUME NEW equity \in Nat \ {0}, NEW hwm \in Nat \ {0}, mode \in Modes,
           Headroom(equity, hwm) <= 0
    PROVE  Used(equity, hwm) >= MaxDd
<1>1. MaxDd \in Nat \ {0} /\ Start \in Nat /\ MaxDd <= Start
  BY ConstantsAssumption DEF Start
<1>2. CASE mode = "trailing"
  <2>1. Headroom(equity, hwm) = MaxDd - (10000 * (hwm - equity)) \div hwm
    BY <1>2 DEF Headroom
  <2>2. Used(equity, hwm) = (10000 * (hwm - equity)) \div hwm
    BY <1>2 DEF Used
  <2>3. (10000 * (hwm - equity)) \div hwm \in Int
    OBVIOUS
  <2>4. QED BY <1>1, <2>1, <2>2, <2>3
<1>3. CASE mode = "static"
  BY <1>1, <1>3 DEF Headroom, Used, Reference, Greatest
<1>4. CASE mode = "trailing_locked_to_start"
  BY <1>1, <1>4 DEF Headroom, Used, Reference, Greatest, Least
<1>5. CASE mode = "eod_trailing"
  BY <1>1, <1>5 DEF Headroom, Used, Reference, Greatest
<1>6. QED BY <1>2, <1>3, <1>4, <1>5, ConstantsAssumption

\* check() (kill_switch.rs:68) keeps the switch typed and answers TRUE in a
\* breach of the total limit, whatever the switch was before the call.
LEMMA BreachArms ==
    ASSUME NEW k \in Switch!Switches, NEW d \in Int, NEW n \in Nat, NEW t \in Nat
    PROVE  /\ Switch!Check(k, d, n, t) \in Switch!Switches
           /\ Switch!Breaches(d, MaxDd) => Switch!Check(k, d, n, t).active
<1> DEFINE tick == Switch!Tick(k, t)
           ticked == Switch!ForgetStreak(tick, n)
<1>0. /\ Switch!New \in Switch!Switches
      /\ t + Cooldown \in Nat
      /\ {"DailyDD", "TotalDD", "ConsecutiveLosses"} \subseteq Switch!Reasons
  BY ConstantsAssumption
     DEF Switch!New, Switch!Switches, Switch!NoTime, Switch!NoStreak, Switch!NoReason,
         Switch!Reasons, Switch!DrawdownReasons
<1>1. tick \in Switch!Switches
  BY <1>0 DEF Switch!Tick, Switch!Switches, Switch!New
<1>2. ticked \in Switch!Switches
  BY <1>1 DEF Switch!ForgetStreak, Switch!Switches
<1> HIDE DEF tick, ticked
<1>3. ASSUME NEW s \in Switch!Switches, NEW why \in Switch!Reasons
      PROVE  /\ Switch!Arm(s, why, t) \in Switch!Switches
             /\ Switch!Arm(s, why, t).active
  BY DEF Switch!Arm, Switch!Switches
<1>4. /\ Switch!Trigger(ticked, d, n, t) \in Switch!Switches
      /\ Switch!Breaches(d, MaxDd) => Switch!Trigger(ticked, d, n, t).active
  <2> DEFINE c == [ticked EXCEPT !.cooldown_until = t + Cooldown, !.streak = n]
  <2>1. c \in Switch!Switches
    BY <1>0, <1>2 DEF Switch!Switches
  <2>2. QED BY <1>0, <1>2, <1>3, <2>1 DEF Switch!Trigger
<1>5. Switch!Check(k, d, n, t) =
          IF ticked.active THEN ticked ELSE Switch!Trigger(ticked, d, n, t)
  BY DEF Switch!Check, ticked, tick
<1>6. QED BY <1>2, <1>4, <1>5

LEMMA InitIInv == StackInit => IInv
<1> SUFFICES ASSUME StackInit
             PROVE  IInv
  OBVIOUS
<1>1. acct \in Accounts /\ acct.remaining = MaxDd
  BY ConstantsAssumption DEF StackInit, NewAccount, Accounts, Start
<1>2. kill \in Switch!Switches
  BY ConstantsAssumption
     DEF StackInit, Switch!New, Switch!Switches, Switch!NoTime, Switch!NoStreak, Switch!NoReason
<1>3. FloorTripsSwitch
  BY <1>1, LimitPositive DEF FloorTripsSwitch, IsAtFloor
<1>4. QED BY <1>1, <1>2, <1>3 DEF StackInit, IInv, Typed

\* A bar marks the account and checks the switch in one piece.
LEMMA BarStep ==
    ASSUME IInv, Bar
    PROVE  IInv'
<1>1. /\ mode \in Modes /\ acct \in Accounts /\ kill \in Switch!Switches
      /\ losses \in Nat /\ clock \in Nat /\ cached \in Equities /\ balance \in Equities
  BY DEF IInv, Typed
<1>2. /\ cached \in Nat \ {0} /\ clock' \in Nat
      /\ acct' = UpdateEquity(acct, cached)
      /\ kill' = Switch!Check(kill, acct'.dd, losses, clock')
      /\ UNCHANGED <<mode, losses, cached, balance>>
  BY <1>1, ConstantsAssumption DEF Bar, BarPasses, MarkSwitch
<1>3. /\ acct' \in Accounts
      /\ acct'.dd = Used(cached, Peak(acct, cached))
      /\ acct'.remaining = Headroom(cached, Peak(acct, cached))
      /\ Peak(acct, cached) = acct'.hwm
  BY <1>1, <1>2, UpdateTyped
<1>4. acct'.dd \in Int /\ acct'.hwm \in Nat \ {0}
  BY <1>3 DEF Accounts
<1>5. /\ kill' \in Switch!Switches
      /\ Switch!Breaches(acct'.dd, MaxDd) => kill'.active
  BY <1>1, <1>2, <1>4, BreachArms
<1>6. ASSUME acct'.remaining <= 0
      PROVE  kill'.active
  <2>1. Headroom(cached, acct'.hwm) <= 0
    BY <1>3, <1>6
  <2>2. acct'.dd >= MaxDd
    BY <1>1, <1>2, <1>3, <1>4, <2>1, NoHeadroomMeansBreach
  <2>3. 100 * acct'.dd >= 95 * MaxDd
    BY <1>4, <2>2, LimitPositive
  <2>4. QED BY <1>5, <2>3 DEF Switch!Breaches
<1>7. FloorTripsSwitch'
  BY <1>6 DEF FloorTripsSwitch, IsAtFloor
<1>8. QED BY <1>1, <1>2, <1>3, <1>5, <1>7 DEF IInv, Typed

LEMMA NextIInv == IInv /\ [StackNext]_stackVars => IInv'
<1> SUFFICES ASSUME IInv, [StackNext]_stackVars
             PROVE  IInv'
  OBVIOUS
<1>1. CASE CloseTrade
  BY <1>1 DEF CloseTrade, IInv, Typed, FloorTripsSwitch, IsAtFloor
<1>2. CASE AccountMoves
  BY <1>2 DEF AccountMoves, IInv, Typed, FloorTripsSwitch, IsAtFloor
<1>3. CASE Reconnect
  BY <1>3 DEF Reconnect, IInv, Typed, FloorTripsSwitch, IsAtFloor
<1>4. CASE Bar
  BY <1>4, BarStep
<1>4a. CASE QuietBar
  <2>1. clock' \in Nat
    BY <1>4a DEF QuietBar, BarPasses, IInv, Typed
  <2>2. QED BY <1>4a, <2>1 DEF QuietBar, IInv, Typed, FloorTripsSwitch, IsAtFloor
<1>5. CASE ProcessRestarts
  <2>1. acct' \in Accounts /\ acct'.remaining = MaxDd
    BY <1>5, ConstantsAssumption DEF ProcessRestarts, NewAccount, Accounts, Start
  <2>2. kill' \in Switch!Switches
    BY <1>5, ConstantsAssumption
       DEF ProcessRestarts, Switch!New, Switch!Switches, Switch!NoTime, Switch!NoStreak, Switch!NoReason
  <2>3. FloorTripsSwitch'
    BY <2>1, LimitPositive DEF FloorTripsSwitch, IsAtFloor
  <2>4. mode' \in Modes /\ losses' \in Nat /\ cached' \in Equities
        /\ balance' \in Equities /\ clock' \in Nat
    BY <1>5 DEF ProcessRestarts, IInv, Typed
  <2>5. QED BY <2>1, <2>2, <2>3, <2>4 DEF IInv, Typed
<1>6. CASE UNCHANGED stackVars
  BY <1>6 DEF stackVars, IInv, Typed, FloorTripsSwitch, IsAtFloor
<1>7. QED BY <1>1, <1>2, <1>3, <1>4, <1>4a, <1>5, <1>6 DEF StackNext

LEMMA Invariance == StackSpec => []IInv
BY InitIInv, NextIInv, PTL DEF StackSpec

\* An account recorded at its floor (account.rs:135) has the kill switch
\* armed, in every drawdown mode.
THEOREM FloorStops == StackSpec => []FloorTripsSwitch
<1>1. IInv => FloorTripsSwitch
  BY DEF IInv
<1>2. QED BY <1>1, Invariance, PTL

\* A higher mark never lowers the firm's floor.
LEMMA FloorMonotone ==
    ASSUME NEW a \in Accounts, NEW b \in Accounts, b.hwm >= a.hwm, mode \in Modes
    PROVE  /\ Floor(b) >= Floor(a)
           /\ mode = "trailing_locked_to_start" => Floor(b) <= Start
<1>1. a.hwm \in Nat \ {0} /\ b.hwm \in Nat \ {0} /\ MaxDd \in Nat /\ MaxDd <= Start
  BY ConstantsAssumption DEF Accounts, Start
<1>2. CASE mode = "trailing"
  <2> DEFINE share == Start - MaxDd
  <2>1. share \in Nat /\ a.hwm * share \in Nat /\ b.hwm * share \in Nat
    BY <1>1 DEF Start
  <2>2. a.hwm * share <= b.hwm * share
    <3>1. b.hwm - a.hwm \in Nat /\ b.hwm = a.hwm + (b.hwm - a.hwm)
      BY <1>1
    <3>2. PICK d \in Nat : b.hwm = a.hwm + d
      BY <3>1
    <3> HIDE DEF share
    <3>3. b.hwm * share = a.hwm * share + d * share /\ d * share \in Nat
      BY <1>1, <2>1, <3>2
    <3>4. QED BY <2>1, <3>3
  <2>3. ASSUME NEW x \in Nat, NEW y \in Nat, x <= y
        PROVE  x \div 10000 <= y \div 10000
    BY <2>3
  <2>4. (a.hwm * share) \div 10000 <= (b.hwm * share) \div 10000
    BY <2>1, <2>2, <2>3
  <2>5. Floor(a) = (a.hwm * share) \div 10000 /\ Floor(b) = (b.hwm * share) \div 10000
    BY <1>2 DEF Floor, Start
  <2>6. (a.hwm * share) \div 10000 \in Int /\ (b.hwm * share) \div 10000 \in Int
    BY <2>1
  <2>7. QED BY <1>2, <2>4, <2>5, <2>6
<1>3. CASE mode # "trailing"
  BY <1>1, <1>3, ConstantsAssumption DEF Floor, Least, Start
<1>4. QED BY <1>2, <1>3

\* Within a process the floor only rises (account.rs:66).
THEOREM FloorRises == StackSpec => FloorRatchets
<1>1. ASSUME IInv, [StackNext]_stackVars
      PROVE  Bar => /\ Floor(acct') >= Floor(acct)
                    /\ mode = "trailing_locked_to_start" => Floor(acct') <= Start
  <2> SUFFICES ASSUME Bar
               PROVE  /\ Floor(acct') >= Floor(acct)
                      /\ mode = "trailing_locked_to_start" => Floor(acct') <= Start
    OBVIOUS
  <2>1. /\ mode \in Modes /\ acct \in Accounts /\ cached \in Nat \ {0}
        /\ acct' = UpdateEquity(acct, cached)
    BY <1>1, ConstantsAssumption DEF IInv, Typed, Bar
  <2>2. acct' \in Accounts /\ acct'.hwm >= acct.hwm
    BY <2>1, UpdateTyped
  <2>3. QED BY <2>1, <2>2, FloorMonotone
<1>2. QED BY <1>1, Invariance, PTL DEF StackSpec, FloorRatchets
-----------------------------------------------------------------------------
(* The open gate.  Two facts tie what the gate reads to the firm's rules:  *)
(* headroom left means equity above the floor, and a day that is not       *)
(* stopped was last marked above its stop.                                 *)

AboveFloor == ~IsAtFloor(acct) => acct.equity > Floor(acct)

DayHolds ==
    Day!CanTrade(daily) /\ DailyDd > 0 =>
        /\ 10000 * (daily.day_open - acct.equity) < DailyDd * daily.day_open
        /\ 10000 * (daily.peak - acct.equity) < DailyDd * daily.day_open

RulesInv == IInv /\ daily \in Day!Engines /\ AboveFloor /\ DayHolds

\* Headroom left puts the equity above the floor of every mode
\* (account.rs:135).
LEMMA HeadroomIsAboveFloor ==
    ASSUME NEW a \in Accounts, NEW equity \in Nat \ {0}, mode \in Modes,
           Headroom(equity, Peak(a, equity)) > 0
    PROVE  equity > Floor(UpdateEquity(a, equity))
<1> DEFINE h == Peak(a, equity)
<1>1. h \in Nat \ {0} /\ h >= equity /\ UpdateEquity(a, equity).hwm = h
  BY UpdateTyped DEF Accounts
<1>2. MaxDd \in Nat \ {0} /\ Start \in Nat /\ MaxDd <= Start
  BY ConstantsAssumption DEF Start
<1>3. Headroom(equity, h) > 0
  OBVIOUS
<1> HIDE DEF h
<1>4. CASE mode = "trailing"
  <2> DEFINE drop == 10000 * (h - equity)
             share == Start - MaxDd
  <2>1. drop \in Nat
    BY <1>1
  <2>2. drop \div h < MaxDd
    <3>1. Headroom(equity, h) = MaxDd - drop \div h
      BY <1>4 DEF Headroom
    <3>2. drop \div h \in Int
      BY <1>1, <2>1
    <3>3. QED BY <1>2, <1>3, <3>1, <3>2
  <2>3. drop < MaxDd * h
    <3> HIDE DEF drop
    <3> DEFINE q == drop \div h
    <3>1. q \in Nat /\ drop < h * (q + 1)
      BY <1>1, <2>1
    <3>2. q < MaxDd
      BY <2>2
    <3> HIDE DEF q
    <3>3. q + 1 <= MaxDd /\ MaxDd - (q + 1) \in Nat
      BY <1>2, <3>1, <3>2
    <3>4. PICK r \in Nat : MaxDd = q + 1 + r
      BY <1>2, <3>1, <3>3
    <3>5. h * MaxDd = h * (q + 1) + h * r /\ h * r \in Nat
      BY <1>1, <3>1, <3>4
    <3>6. QED BY <1>1, <1>2, <2>1, <3>1, <3>5
  <2>4. h * share < 10000 * equity /\ h * share \in Nat
    <3>1. h * share = 10000 * h - MaxDd * h /\ share \in Nat
      BY <1>1, <1>2 DEF Start
    <3>2. MaxDd * h \in Nat /\ h * share \in Nat
      BY <1>1, <1>2, <3>1
    <3>3. QED BY <1>1, <2>1, <2>3, <3>1, <3>2
  <2>5. (h * share) \div 10000 < equity
    <3> DEFINE x == h * share
    <3>1. x \in Nat /\ x < 10000 * equity
      BY <2>4
    <3> HIDE DEF x
    <3>2. x \div 10000 < equity
      BY <1>1, <3>1
    <3>3. QED BY <3>2 DEF x
  <2>6. Floor(UpdateEquity(a, equity)) = (h * share) \div 10000
    BY <1>1, <1>4 DEF Floor, Start
  <2>7. (h * share) \div 10000 \in Int
    BY <2>4
  <2>8. QED BY <1>1, <2>5, <2>6, <2>7
<1>5. CASE mode # "trailing"
  <2> DEFINE u == UpdateEquity(a, equity)
  <2>1. u.hwm = h
    BY <1>1
  <2> HIDE DEF u
  <2>2. equity > Floor(u)
    BY <1>1, <1>2, <1>3, <1>5, <2>1, ConstantsAssumption
       DEF Floor, Headroom, Least, Greatest
  <2>3. QED BY <2>2 DEF u
<1>6. QED BY <1>4, <1>5

\* The instance counts as the module does.
LEMMA DayCounts == ASSUME NEW S PROVE Day!Cardinality(S) = Cardinality(S)
BY DEF Day!Cardinality, Cardinality

\* One mark of the daily engine (daily_pnl.rs:98) keeps its type, and leaves
\* the day unstopped only when the equity it saw is above the stop, counted
\* from the opening and from the high of the day.
LEMMA MarkHolds ==
    ASSUME NEW equity \in Nat \ {0}, NEW t \in Nat, daily \in Day!Engines
    PROVE  LET e == Day!TakeProtectiveClose(Day!Update(daily, equity, t))
           IN  /\ e \in Day!Engines
               /\ Day!CanTrade(e) /\ DailyDd > 0 =>
                     /\ 10000 * (e.day_open - equity) < DailyDd * e.day_open
                     /\ 10000 * (e.peak - equity) < DailyDd * e.day_open
<1> DEFINE day == Day!TradingDayIndex(t)
           rolled == Day!Roll(daily, equity, day)
           marked == Day!Marked(rolled, equity)
           candidate == Day!Candidate(marked, equity)
           advanced == Day!Advance(marked, candidate)
           e == Day!TakeProtectiveClose(advanced)
<1>1. day \in Nat
  <2>1. IsFiniteSet({b \in Boundaries : b <= t})
    BY ConstantsAssumption, FS_Subset
  <2>2. QED BY <2>1, FS_CardinalityType, DayCounts DEF Day!TradingDayIndex
<1> HIDE DEF day
<1>2. rolled \in Day!Engines
  BY <1>1 DEF Day!Roll, Day!Engines, Day!DayStates, Day!Unstarted
<1> HIDE DEF rolled
<1>3. /\ marked \in Day!Engines
      /\ marked.pnl = equity - marked.day_open
      /\ marked.peak >= equity
  <2> DEFINE peak == IF equity > rolled.peak THEN equity ELSE rolled.peak
  <2>1. peak \in Nat /\ peak >= equity /\ equity - rolled.day_open \in Int
    BY <1>2 DEF Day!Engines
  <2>2. marked = [rolled EXCEPT !.pnl = equity - rolled.day_open, !.peak = peak]
    BY DEF Day!Marked
  <2> HIDE DEF peak, marked
  <2>3. QED BY <1>2, <2>1, <2>2 DEF Day!Engines
<1> HIDE DEF marked
<1>4. candidate \in Day!DayStates
  BY DEF Day!Candidate, Day!DayStates
<1>5. DailyDd > 0 /\ candidate # "DailyStopped" =>
          /\ 10000 * (marked.day_open - equity) < DailyDd * marked.day_open
          /\ 10000 * (marked.peak - equity) < DailyDd * marked.day_open
  <2> SUFFICES ASSUME DailyDd > 0, candidate # "DailyStopped"
               PROVE  /\ 10000 * (marked.day_open - equity) < DailyDd * marked.day_open
                      /\ 10000 * (marked.peak - equity) < DailyDd * marked.day_open
    OBVIOUS
  <2>1. /\ ~(10000 * (marked.peak - equity) >= DailyDd * marked.day_open)
        /\ ~(10000 * (-marked.pnl) >= DailyDd * marked.day_open)
    BY DEF Day!Candidate, Day!AtLeast
  <2>2. marked.day_open \in Nat /\ marked.peak \in Nat /\ DailyDd \in Nat
    BY <1>3, ConstantsAssumption DEF Day!Engines
  <2>3. -marked.pnl = marked.day_open - equity
    BY <1>3, <2>2
  <2>4. DailyDd * marked.day_open \in Nat
    BY <2>2
  <2>5. QED BY <2>1, <2>2, <2>3, <2>4
<1> HIDE DEF candidate
<1>6. /\ advanced \in Day!Engines
      /\ advanced.day_open = marked.day_open /\ advanced.peak = marked.peak
      /\ advanced.state # "DailyStopped" => candidate # "DailyStopped"
  <2>1. CASE Day!Severity(candidate) > Day!Severity(marked.state)
    <3> DEFINE raised == marked.pending \/ candidate = "DailyStopped"
    <3>1. advanced = [marked EXCEPT !.state = candidate, !.pending = raised]
      BY <2>1 DEF Day!Advance
    <3>2. raised \in BOOLEAN
      BY <1>3 DEF Day!Engines
    <3> HIDE DEF raised, advanced
    <3>3. QED BY <1>3, <1>4, <3>1, <3>2 DEF Day!Engines
  <2>2. CASE ~(Day!Severity(candidate) > Day!Severity(marked.state))
    <3>1. advanced = marked
      BY <2>2 DEF Day!Advance
    <3>2. marked.state \in Day!DayStates
      BY <1>3 DEF Day!Engines
    <3>3. marked.state # "DailyStopped" => candidate # "DailyStopped"
      BY <1>4, <2>2, <3>2 DEF Day!Severity, Day!DayStates
    <3> HIDE DEF advanced
    <3>4. QED BY <1>3, <3>1, <3>3
  <2>3. QED BY <2>1, <2>2
<1> HIDE DEF advanced
<1>7. /\ e \in Day!Engines /\ e.state = advanced.state
      /\ e.day_open = advanced.day_open /\ e.peak = advanced.peak
  BY <1>6 DEF Day!TakeProtectiveClose, Day!Engines
<1> HIDE DEF e
<1>8. e = Day!TakeProtectiveClose(Day!Update(daily, equity, t))
  BY DEF e, advanced, candidate, marked, rolled, day, Day!Update
<1>9. /\ e \in Day!Engines
      /\ Day!CanTrade(e) /\ DailyDd > 0 =>
            /\ 10000 * (e.day_open - equity) < DailyDd * e.day_open
            /\ 10000 * (e.peak - equity) < DailyDd * e.day_open
  BY <1>5, <1>6, <1>7 DEF Day!CanTrade
<1>10. QED BY <1>8, <1>9

\* A fresh account and a fresh engine (phase1.rs:902) stand above every rule.
LEMMA FreshHolds ==
    ASSUME mode \in Modes
    PROVE  /\ Day!NewEngine(Start) \in Day!Engines
           /\ NewAccount.equity > Floor(NewAccount)
           /\ DailyDd > 0 =>
                 LET e == Day!NewEngine(Start)
                 IN  /\ 10000 * (e.day_open - NewAccount.equity) < DailyDd * e.day_open
                     /\ 10000 * (e.peak - NewAccount.equity) < DailyDd * e.day_open
<1>1. /\ MaxDd \in Nat \ {0} /\ MaxDd <= 10000 /\ Start = 10000 /\ DailyDd \in Nat
      /\ NewAccount.equity = 10000 /\ NewAccount.hwm = 10000
  BY ConstantsAssumption DEF Start, NewAccount
<1>2. Day!NewEngine(Start) \in Day!Engines
  BY <1>1 DEF Day!NewEngine, Day!Engines, Day!DayStates, Day!Unstarted
<1>3. NewAccount.equity > Floor(NewAccount)
  <2>1. CASE mode = "trailing"
    BY <1>1, <2>1 DEF Floor
  <2>2. CASE mode # "trailing"
    BY <1>1, <2>2, ConstantsAssumption DEF Floor, Least
  <2>3. QED BY <2>1, <2>2
<1>4. Day!NewEngine(Start).day_open = 10000 /\ Day!NewEngine(Start).peak = 10000
  BY <1>1 DEF Day!NewEngine
<1>5. DailyDd > 0 => 0 < DailyDd * 10000
  BY <1>1
<1>6. QED BY <1>1, <1>2, <1>3, <1>4, <1>5

LEMMA RulesInvariance == StackSpec => []RulesInv
<1>1. StackInit => RulesInv
  <2> SUFFICES ASSUME StackInit
               PROVE  RulesInv
    OBVIOUS
  <2>1. mode \in Modes /\ acct = NewAccount /\ daily = Day!NewEngine(Start)
    BY DEF StackInit
  <2>2. QED BY <2>1, InitIInv, FreshHolds DEF RulesInv, AboveFloor, DayHolds
<1>2. RulesInv /\ [StackNext]_stackVars => RulesInv'
  <2> SUFFICES ASSUME RulesInv, [StackNext]_stackVars
               PROVE  RulesInv'
    OBVIOUS
  <2>1. IInv'
    BY NextIInv DEF RulesInv
  <2>2. CASE Bar
    <3>1. /\ mode \in Modes /\ mode' = mode /\ acct \in Accounts
          /\ cached \in Nat \ {0} /\ clock' \in Nat
          /\ acct' = UpdateEquity(acct, cached)
          /\ daily' = Day!TakeProtectiveClose(Day!Update(daily, cached, clock'))
      BY <2>2, ConstantsAssumption DEF RulesInv, IInv, Typed, Bar, BarPasses, MarkDay
    <3>2. /\ acct'.equity = cached
          /\ acct'.remaining = Headroom(cached, Peak(acct, cached))
          /\ acct'.remaining \in Int
      BY <3>1, UpdateTyped DEF Accounts
    <3>3. AboveFloor'
      <4>1. ASSUME ~(acct'.remaining <= 0)
            PROVE  cached > Floor(UpdateEquity(acct, cached))
        BY <3>1, <3>2, <4>1, HeadroomIsAboveFloor
      <4>2. Floor(acct)' = Floor(UpdateEquity(acct, cached))
        BY <3>1 DEF Floor
      <4>3. QED BY <3>2, <4>1, <4>2 DEF AboveFloor, IsAtFloor
    <3>4. daily' \in Day!Engines /\ DayHolds'
      BY <3>1, <3>2, MarkHolds DEF DayHolds, RulesInv, Day!CanTrade
    <3>5. QED BY <2>1, <3>3, <3>4 DEF RulesInv, Day!Engines
  <2>3. CASE ProcessRestarts
    <3>1. /\ mode \in Modes /\ mode' = mode /\ acct' = NewAccount
          /\ daily' = Day!NewEngine(Start)
      BY <2>3 DEF RulesInv, IInv, Typed, ProcessRestarts
    <3>2. Floor(acct)' = Floor(NewAccount)
      BY <3>1 DEF Floor
    <3>3. QED BY <2>1, <3>1, <3>2, FreshHolds DEF RulesInv, AboveFloor, DayHolds, Day!Engines
  <2>4. CASE UNCHANGED <<mode, acct, daily>>
    <3>1. Floor(acct)' = Floor(acct)
      BY <2>4 DEF Floor
    <3>2. AboveFloor'
      BY <2>4, <3>1 DEF RulesInv, AboveFloor, IsAtFloor
    <3>3. DayHolds' /\ daily' \in Day!Engines
      BY <2>4 DEF RulesInv, DayHolds, Day!CanTrade
    <3>4. QED BY <2>1, <3>2, <3>3 DEF RulesInv, Day!Engines
  <2>5. QED
    BY <2>2, <2>3, <2>4
       DEF StackNext, CloseTrade, AccountMoves, Reconnect, QuietBar, stackVars
<1>3. QED BY <1>1, <1>2, PTL DEF StackSpec

\* While the gate is open, the equity last recorded is above the firm's floor
\* in every drawdown mode, above the day's stop and above the high of the day
\* less the stop (account.rs:135, daily_pnl.rs:155).
THEOREM GateKeepsRules == StackSpec => []GateRespectsRules
<1>1. RulesInv => GateRespectsRules
  BY DEF RulesInv, AboveFloor, DayHolds, GateRespectsRules, GateOpen
<1>2. QED BY <1>1, RulesInvariance, PTL
=============================================================================
