--------------------------- MODULE BacktestProofs ---------------------------
(***************************************************************************)
(* What a backtest keeps, for every spread, slippage, commission, sizing,  *)
(* set of heads and length of run, in the engine and in the replayer: the  *)
(* balance is explained trade by trade, driver and broker hold the same    *)
(* books, stops only tighten, and a paused or killed engine opens nothing. *)
(*                                                                         *)
(* The ledger is a sum over three books, so the argument is about sums of  *)
(* functions (Sums).                                                       *)
(* Every action then moves money from one term to another (LedgerIs): a    *)
(* fill from the broker to the reports, a booking from reports and records *)
(* to the log, a partial close into the record of its position.            *)
(*                                                                         *)
(* The stops need an invariant of their own.  The manager moves a stop to  *)
(* the entry without looking where it is, so until that move the stop must *)
(* be behind the entry, and a trail must never come before it              *)
(* (StopsStartBehind).  The pause needs the link between what is asked of  *)
(* it and what the tracker keeps: the record of days is capped, the streak *)
(* is a mere count (StreakIsLong); and orders leave in later steps than the*)
(* gate that let them pass (GatePassed).                                   *)
(***************************************************************************)
EXTENDS Backtest, Sums, FiniteSetTheorems, SequenceTheorems, TLAPS

\* The parameters are numbers.
LEMMA Numbers ==
  /\ HalfSpread \in Nat /\ Slip \in Nat /\ Commission \in Nat
  /\ StartBalance \in Nat /\ PauseAfter \in Nat /\ MaxLot \in Nat \ {0}
  /\ TrailMult \in Nat /\ BaseRisk \in Nat
  /\ Moves \subseteq Int /\ Atrs \subseteq Nat /\ Distances \subseteq Nat /\ Ratios \subseteq Nat
BY BacktestConstants

-----------------------------------------------------------------------------
(* The simulated broker.                                                   *)

Position == [dir : Dirs, lots : Nat \ {0}, entry : Int, sl : Int, tp : Int]

IsBroker(b) ==
    /\ b = [positions |-> b.positions, nextId |-> b.nextId, bid |-> b.bid, ask |-> b.ask,
            balance |-> b.balance, equity |-> b.equity]
    /\ b.nextId \in Nat \ {0}
    /\ b.bid \in Int /\ b.ask \in Int /\ b.balance \in Int /\ b.equity \in Int
    /\ b.positions \in [Open(b) -> Position]
    /\ Open(b) \subseteq 1..(b.nextId - 1)

FillReports == [lots : Int, pnl : Int, commission : Int]

\* Tickets are counted (mock.rs:62), so only finitely many are open.
LEMMA OpenIsFinite ==
  ASSUME NEW b, IsBroker(b)
  PROVE  IsFiniteSet(Open(b))
<1>1. IsFiniteSet(1..(b.nextId - 1))
  <2>1. b.nextId - 1 \in Int
    BY DEF IsBroker
  <2> QED
    BY <2>1, FS_Interval
<1> QED
  BY <1>1, FS_Subset DEF IsBroker

\* calculate_pnl_lots (mock.rs:368).
LEMMA PnlIsInteger ==
  ASSUME NEW pos, pos.entry \in Int, NEW price \in Int, NEW lots \in Int
  PROVE  Pnl(pos, price, lots) \in Int
<1>1. (price - pos.entry) \in Int /\ (pos.entry - price) \in Int
  OBVIOUS
<1> QED
  BY <1>1 DEF Pnl

\* unrealized_pnl (mock.rs:157).
LEMMA UnrealizedIsInteger ==
  ASSUME NEW b, IsBroker(b)
  PROVE  Unrealized(b) \in Int
<1> DEFINE f == [id \in Open(b) |->
                    Pnl(b.positions[id], ExitSide(b, b.positions[id]), b.positions[id].lots)]
<1>1. f \in [Open(b) -> Int]
  <2>1. ASSUME NEW id \in Open(b)
        PROVE  Pnl(b.positions[id], ExitSide(b, b.positions[id]), b.positions[id].lots) \in Int
    <3>1. b.positions[id] \in Position /\ b.bid \in Int /\ b.ask \in Int
      BY DEF IsBroker
    <3>2. b.positions[id].entry \in Int /\ b.positions[id].lots \in Int
          /\ ExitSide(b, b.positions[id]) \in Int
      BY <3>1 DEF Position, ExitSide
    <3> QED
      BY <3>2, PnlIsInteger
  <2> QED
    BY <2>1
<1>2. Unrealized(b) = SumFunction(f)
  BY DEF Unrealized
<1> HIDE DEF f
<1> QED
  BY <1>1, <1>2, OpenIsFinite, SumIsInteger

\* Restating the equity leaves a broker with the same books.
LEMMA RestatedIsBroker ==
  ASSUME NEW b, IsBroker(b)
  PROVE  /\ IsBroker(Restated(b))
         /\ Restated(b).positions = b.positions /\ Restated(b).nextId = b.nextId
         /\ Restated(b).bid = b.bid /\ Restated(b).ask = b.ask
         /\ Restated(b).balance = b.balance
<1> DEFINE r == Restated(b)
<1>1. b.balance + Unrealized(b) \in Int
  <2>1. b.balance \in Int
    BY DEF IsBroker
  <2> QED
    BY <2>1, UnrealizedIsInteger
<1>2. r = [b EXCEPT !.equity = b.balance + Unrealized(b)]
  BY DEF Restated
<1> HIDE DEF r
<1>3. /\ r.positions = b.positions /\ r.nextId = b.nextId
      /\ r.bid = b.bid /\ r.ask = b.ask /\ r.balance = b.balance
  BY <1>2 DEF IsBroker
<1>4. /\ r = [positions |-> r.positions, nextId |-> r.nextId, bid |-> r.bid, ask |-> r.ask,
              balance |-> r.balance, equity |-> r.equity]
      /\ r.nextId \in Nat \ {0}
      /\ r.bid \in Int /\ r.ask \in Int /\ r.balance \in Int /\ r.equity \in Int
  BY <1>1, <1>2, <1>3 DEF IsBroker
<1>5. Open(r) = Open(b)
  BY <1>3 DEF Open
<1> QED
  BY <1>3, <1>4, <1>5 DEF IsBroker, r

\* The books without some positions.
LEMMA WithoutIs ==
  ASSUME NEW T, NEW f, NEW S, f \in [DOMAIN f -> T]
  PROVE  /\ Without(f, S) \in [DOMAIN f \ S -> T]
         /\ DOMAIN Without(f, S) = DOMAIN f \ S
         /\ \A x \in DOMAIN f \ S : Without(f, S)[x] = f[x]
BY DEF Without

\* set_price (mock.rs:80) moves the quotes and restates the equity.
LEMMA SetPriceIsBroker ==
  ASSUME NEW b, IsBroker(b), NEW mid \in Int
  PROVE  /\ IsBroker(SetPrice(b, mid))
         /\ SetPrice(b, mid).positions = b.positions /\ SetPrice(b, mid).nextId = b.nextId
         /\ SetPrice(b, mid).balance = b.balance
         /\ SetPrice(b, mid).ask = SetPrice(b, mid).bid + 2 * HalfSpread
<1> DEFINE r == SetPrice(b, mid)
<1>1. HalfSpread \in Int
  BY Numbers
<1>2. r = [b EXCEPT !.bid = mid - HalfSpread, !.ask = mid + HalfSpread]
  BY DEF SetPrice
<1> HIDE DEF r
<1>3. /\ r.positions = b.positions /\ r.nextId = b.nextId
      /\ r.bid = mid - HalfSpread /\ r.ask = mid + HalfSpread
      /\ r.balance = b.balance /\ r.equity = b.equity
  BY <1>2 DEF IsBroker
<1>4. /\ r = [positions |-> r.positions, nextId |-> r.nextId, bid |-> r.bid, ask |-> r.ask,
              balance |-> r.balance, equity |-> r.equity]
      /\ r.nextId \in Nat \ {0}
      /\ r.bid \in Int /\ r.ask \in Int /\ r.balance \in Int /\ r.equity \in Int
  <2>1. b = [positions |-> b.positions, nextId |-> b.nextId, bid |-> b.bid, ask |-> b.ask,
             balance |-> b.balance, equity |-> b.equity]
    BY DEF IsBroker
  <2>2. r = [positions |-> r.positions, nextId |-> r.nextId, bid |-> r.bid, ask |-> r.ask,
             balance |-> r.balance, equity |-> r.equity]
    BY <1>2, <2>1
  <2>3. b.nextId \in Nat \ {0} /\ b.balance \in Int /\ b.equity \in Int
    BY DEF IsBroker
  <2> QED
    BY <1>1, <1>3, <2>2, <2>3
<1>5. Open(r) = Open(b)
  BY <1>3 DEF Open
<1>6. IsBroker(r)
  BY <1>3, <1>4, <1>5 DEF IsBroker
<1>7. r.ask = r.bid + 2 * HalfSpread
  BY <1>1, <1>3
<1> QED
  BY <1>3, <1>6, <1>7 DEF r

\* What a fill reports of one position.
LEMMA ReportIsInteger ==
  ASSUME NEW pos \in Position, NEW price \in Int, NEW lots \in Int
  PROVE  /\ Report(pos, price, lots) \in FillReports
         /\ Net(Report(pos, price, lots)) \in Int
<1>1. Pnl(pos, price, lots) \in Int
  BY PnlIsInteger DEF Position
<1>2. Commission * lots \in Int
  BY Numbers
<1> QED
  BY <1>1, <1>2 DEF Report, FillReports, Net

\* A stop or target that is due reports numbers (mock.rs:122).
LEMMA DueReportIs ==
  ASSUME NEW b, IsBroker(b), NEW id \in Open(b)
  PROVE  DueReport(b, id) \in FillReports /\ Net(DueReport(b, id)) \in Int
<1> DEFINE pos == b.positions[id]
           price == Slipped(pos, IF StopHit(b, pos) THEN pos.sl ELSE pos.tp)
<1>1. pos \in Position
  BY DEF IsBroker
<1>2. pos.sl \in Int /\ pos.tp \in Int /\ pos.lots \in Int /\ Slip \in Int
  BY <1>1, Numbers DEF Position
<1>3. price \in Int
  BY <1>2 DEF Slipped
<1>4. DueReport(b, id) = Report(pos, price, pos.lots)
  BY DEF DueReport
<1> HIDE DEF pos, price
<1> QED
  BY <1>1, <1>2, <1>3, <1>4, ReportIsInteger

\* All that is due is closed, and paid.
LEMMA CheckSlTpIs ==
  ASSUME NEW b, IsBroker(b)
  PROVE  LET r == CheckSlTp(b)
             f == [id \in Due(b) |-> Net(DueReport(b, id))]
         IN  /\ IsBroker(r)
             /\ r.positions = Without(b.positions, Due(b)) /\ r.nextId = b.nextId
             /\ r.bid = b.bid /\ r.ask = b.ask
             /\ f \in [Due(b) -> Int] /\ r.balance = b.balance + SumFunction(f)
<1> DEFINE f == [id \in Due(b) |-> Net(DueReport(b, id))]
           c == [b EXCEPT !.positions = Without(@, Due(b)),
                          !.balance = @ + SumFunction(f)]
           r == CheckSlTp(b)
<1>1. Due(b) \subseteq Open(b) /\ IsFiniteSet(Due(b))
  BY OpenIsFinite, FS_Subset DEF Due
<1>2. f \in [Due(b) -> Int]
  BY <1>1, DueReportIs
<1>3. SumFunction(f) \in Int /\ (Due(b) = {} => SumFunction(f) = 0)
  <2> HIDE DEF f
  <2> QED
    BY <1>1, <1>2, SumIsInteger
<1>4. r = IF Due(b) = {} THEN b ELSE Restated(c)
  BY DEF CheckSlTp
<1>5. b.positions \in [DOMAIN b.positions -> Position] /\ Open(b) = DOMAIN b.positions
  BY DEF IsBroker, Open
<1> HIDE DEF f, r
<1>10. c = [b EXCEPT !.positions = Without(b.positions, Due(b)),
                     !.balance = b.balance + SumFunction(f)]
  OBVIOUS
<1> HIDE DEF c
<1>6. /\ c.positions = Without(b.positions, Due(b)) /\ c.nextId = b.nextId
      /\ c.bid = b.bid /\ c.ask = b.ask /\ c.balance = b.balance + SumFunction(f)
      /\ c.equity = b.equity
  BY <1>10 DEF IsBroker
<1>7. IsBroker(c)
  <2>1. /\ c = [positions |-> c.positions, nextId |-> c.nextId, bid |-> c.bid, ask |-> c.ask,
                balance |-> c.balance, equity |-> c.equity]
        /\ c.nextId \in Nat \ {0}
        /\ c.bid \in Int /\ c.ask \in Int /\ c.balance \in Int /\ c.equity \in Int
    <3>1. b = [positions |-> b.positions, nextId |-> b.nextId, bid |-> b.bid, ask |-> b.ask,
               balance |-> b.balance, equity |-> b.equity]
      BY DEF IsBroker
    <3>2. c = [positions |-> c.positions, nextId |-> c.nextId, bid |-> c.bid, ask |-> c.ask,
               balance |-> c.balance, equity |-> c.equity]
      BY <1>10, <3>1
    <3>3. b.nextId \in Nat \ {0} /\ b.bid \in Int /\ b.ask \in Int /\ b.balance \in Int
          /\ b.equity \in Int
      BY DEF IsBroker
    <3> QED
      BY <1>3, <1>6, <3>2, <3>3
  <2>2. Open(c) = Open(b) \ Due(b) /\ c.positions \in [Open(c) -> Position]
    <3>1. /\ Without(b.positions, Due(b)) \in [DOMAIN b.positions \ Due(b) -> Position]
          /\ DOMAIN Without(b.positions, Due(b)) = DOMAIN b.positions \ Due(b)
      BY <1>5 DEF Without
    <3> QED
      BY <1>5, <1>6, <3>1 DEF Open
  <2>3. Open(c) \subseteq 1..(c.nextId - 1)
    BY <1>6, <2>2 DEF IsBroker
  <2> QED
    BY <2>1, <2>2, <2>3 DEF IsBroker
<1>8. CASE Due(b) = {}
  <2>1. r = b /\ r.balance = b.balance + SumFunction(f)
    BY <1>3, <1>4, <1>8 DEF IsBroker
  <2>2. Without(b.positions, Due(b)) = b.positions
    BY <1>5, <1>8 DEF Without
  <2> QED
    BY <1>2, <2>1, <2>2 DEF f, r
<1>9. CASE Due(b) # {}
  <2>1. r = Restated(c)
    BY <1>4, <1>9
  <2>2. /\ IsBroker(r) /\ r.positions = c.positions /\ r.nextId = c.nextId
        /\ r.bid = c.bid /\ r.ask = c.ask /\ r.balance = c.balance
    BY <1>7, <2>1, RestatedIsBroker
  <2> QED
    BY <1>2, <1>6, <2>2 DEF f, r
<1> QED
  BY <1>8, <1>9

\* Other books, the same market.
WithBooks(b, P, x, n) == [b EXCEPT !.positions = P, !.balance = x, !.nextId = n]

Rebooked(r, b, P, x, n) ==
    /\ IsBroker(r) /\ r.positions = P /\ Open(r) = DOMAIN P /\ r.nextId = n
    /\ r.bid = b.bid /\ r.ask = b.ask /\ r.balance = x

\* A broker with changed books and its equity restated is a broker.
LEMMA BooksChange ==
  ASSUME NEW b, IsBroker(b), NEW P, P \in [DOMAIN P -> Position], NEW n \in Nat \ {0},
         DOMAIN P \subseteq 1..(n - 1), NEW x \in Int
  PROVE  Rebooked(Restated(WithBooks(b, P, x, n)), b, P, x, n)
<1> DEFINE c == WithBooks(b, P, x, n)
           D == DOMAIN P
<1>0. c = [b EXCEPT !.positions = P, !.balance = x, !.nextId = n]
  BY DEF WithBooks
<1> HIDE DEF c
<1>1. /\ c.positions = P /\ c.nextId = n /\ c.bid = b.bid /\ c.ask = b.ask /\ c.balance = x
      /\ c.equity = b.equity
  BY <1>0 DEF IsBroker
<1>2. /\ b.bid \in Int /\ b.ask \in Int /\ b.equity \in Int
  BY DEF IsBroker
<1>3. c = [positions |-> c.positions, nextId |-> c.nextId, bid |-> c.bid, ask |-> c.ask,
           balance |-> c.balance, equity |-> c.equity]
  <2>1. b = [positions |-> b.positions, nextId |-> b.nextId, bid |-> b.bid, ask |-> b.ask,
             balance |-> b.balance, equity |-> b.equity]
    BY DEF IsBroker
  <2> QED
    BY <1>0, <2>1
<1>4. Open(c) = D
  BY <1>1 DEF Open
<1>5. IsBroker(c)
  BY <1>1, <1>2, <1>3, <1>4 DEF IsBroker
<1> DEFINE r == Restated(c)
<1>6. /\ IsBroker(r) /\ r.positions = c.positions /\ r.nextId = c.nextId
      /\ r.bid = c.bid /\ r.ask = c.ask /\ r.balance = c.balance
  BY <1>5, RestatedIsBroker
<1> HIDE DEF r
<1> QED
  BY <1>1, <1>6 DEF Rebooked, Open, r, c

\* Broker b after an order, paid.
Ordered(r, b, lots, sl) ==
    /\ IsBroker(r) /\ Open(r) = Open(b) \cup {b.nextId} /\ r.nextId = b.nextId + 1
    /\ r.bid = b.bid /\ r.ask = b.ask /\ r.balance = b.balance - Commission * lots
    /\ r.positions[b.nextId].lots = lots /\ r.positions[b.nextId].sl = sl
    /\ \A id \in Open(b) : id # b.nextId /\ r.positions[id] = b.positions[id]

\* send_order (mock.rs:173) opens one position under the next ticket.
LEMMA SendOrderIs ==
  ASSUME NEW b, IsBroker(b), NEW dir \in Dirs, NEW lots \in Nat \ {0},
         NEW sl \in Int, NEW tp \in Int
  PROVE  Ordered(SendOrder(b, dir, lots, sl, tp), b, lots, sl)
<1> DEFINE new == [dir |-> dir, lots |-> lots, entry |-> FillPrice(b, dir), sl |-> sl, tp |-> tp]
           D == Open(b) \cup {b.nextId}
           P == [id \in D |-> IF id = b.nextId THEN new ELSE b.positions[id]]
           x == b.balance - Commission * lots
           n == b.nextId + 1
           c == WithBooks(b, P, x, n)
<1>1. b.nextId \in Nat \ {0} /\ b.balance \in Int /\ b.bid \in Int /\ b.ask \in Int
      /\ b.positions \in [Open(b) -> Position] /\ Open(b) \subseteq 1..(b.nextId - 1)
  BY DEF IsBroker
<1>2. Commission \in Int /\ Slip \in Int
  BY Numbers
<1>3. new \in Position
  <2>1. FillPrice(b, dir) \in Int
    BY <1>1, <1>2 DEF FillPrice
  <2> QED
    BY <2>1 DEF Position
<1>4. P \in [D -> Position]
  <2> HIDE DEF new
  <2> QED
    BY <1>1, <1>3
<1>5. D \subseteq 1..(n - 1) /\ n \in Nat \ {0} /\ x \in Int
  BY <1>1, <1>2
<1>6. SendOrder(b, dir, lots, sl, tp) = Restated(c)
  <2>1. c = [b EXCEPT !.balance = @ - Commission * lots, !.nextId = @ + 1, !.positions = P]
    <3> HIDE DEF P
    <3>1. b = [positions |-> b.positions, nextId |-> b.nextId, bid |-> b.bid, ask |-> b.ask,
               balance |-> b.balance, equity |-> b.equity]
      BY DEF IsBroker
    <3> QED
      BY <3>1 DEF WithBooks
  <2> HIDE DEF c
  <2> QED
    BY <2>1 DEF SendOrder
<1> DEFINE r == Restated(c)
<1>7. /\ IsBroker(r) /\ r.positions = P /\ Open(r) = D /\ r.nextId = n
      /\ r.bid = b.bid /\ r.ask = b.ask /\ r.balance = x
  <2>1. DOMAIN P = D
    OBVIOUS
  <2> HIDE DEF D, P, n, x
  <2>3. P \in [DOMAIN P -> Position] /\ DOMAIN P \subseteq 1..(n - 1)
    BY <1>4, <1>5, <2>1
  <2>2. /\ IsBroker(r) /\ r.positions = P /\ r.nextId = n
        /\ r.bid = b.bid /\ r.ask = b.ask /\ r.balance = x
    <3>1. Rebooked(Restated(WithBooks(b, P, x, n)), b, P, x, n)
      BY <1>5, <2>3, BooksChange, Zenon
    <3> QED
      BY <3>1 DEF Rebooked
  <2> HIDE DEF r
  <2> QED
    BY <2>1, <2>2 DEF Open
<1>8. P[b.nextId] = new /\ \A id \in Open(b) : id # b.nextId /\ P[id] = b.positions[id]
  <2> HIDE DEF new
  <2> QED
    BY <1>1
<1>9. new.lots = lots /\ new.sl = sl
  OBVIOUS
<1> HIDE DEF r, P, new, c
<1> QED
  BY <1>6, <1>7, <1>8, <1>9 DEF Ordered, r

\* modify_position (mock.rs:229) moves one stop and no money.
LEMMA ModifyStopIs ==
  ASSUME NEW b, IsBroker(b), NEW id \in Open(b), NEW sl \in Int
  PROVE  LET r == ModifyStop(b, id, sl)
         IN  /\ IsBroker(r) /\ Open(r) = Open(b) /\ r.nextId = b.nextId
             /\ r.bid = b.bid /\ r.ask = b.ask /\ r.balance = b.balance
             /\ r.positions[id].lots = b.positions[id].lots /\ r.positions[id].sl = sl
             /\ \A j \in Open(b) \ {id} : r.positions[j] = b.positions[j]
<1> DEFINE new == [b.positions[id] EXCEPT !.sl = sl]
           P == [b.positions EXCEPT ![id] = new]
           r == ModifyStop(b, id, sl)
<1>1. b.positions \in [Open(b) -> Position] /\ Open(b) = DOMAIN b.positions
  BY DEF IsBroker, Open
<1>2. b.positions[id] \in Position
  BY <1>1
<1>3. new \in Position /\ new.lots = b.positions[id].lots /\ new.sl = sl
  BY <1>2 DEF Position
<1>4. r = [b EXCEPT !.positions = P]
  BY DEF ModifyStop
<1> HIDE DEF new, r
<1>5. P \in [Open(b) -> Position] /\ P[id] = new
      /\ \A j \in Open(b) \ {id} : P[j] = b.positions[j]
  BY <1>1, <1>3
<1> HIDE DEF P
<1>6. /\ r.positions = P /\ r.nextId = b.nextId /\ r.bid = b.bid /\ r.ask = b.ask
      /\ r.balance = b.balance /\ r.equity = b.equity
  BY <1>4 DEF IsBroker
<1>7. r = [positions |-> r.positions, nextId |-> r.nextId, bid |-> r.bid, ask |-> r.ask,
           balance |-> r.balance, equity |-> r.equity]
  <2>1. b = [positions |-> b.positions, nextId |-> b.nextId, bid |-> b.bid, ask |-> b.ask,
             balance |-> b.balance, equity |-> b.equity]
    BY DEF IsBroker
  <2> QED
    BY <1>4, <2>1
<1>8. Open(r) = Open(b)
  BY <1>5, <1>6 DEF Open
<1>9. IsBroker(r)
  BY <1>5, <1>6, <1>7, <1>8 DEF IsBroker
<1> QED
  BY <1>3, <1>5, <1>6, <1>8, <1>9 DEF r

\* close_position (mock.rs:246), whole or in part: the balance moves by the
\* net of the report, the position by the lots.
LEMMA ClosePositionIs ==
  ASSUME NEW b, IsBroker(b), NEW id \in Open(b), NEW lots \in Nat \ {0},
         lots <= b.positions[id].lots
  PROVE  LET r == ClosePosition(b, id, lots)
         IN  /\ IsBroker(r) /\ r.nextId = b.nextId /\ r.bid = b.bid /\ r.ask = b.ask
             /\ CloseReport(b, id, lots) \in FillReports
             /\ r.balance = b.balance + Net(CloseReport(b, id, lots))
             /\ lots = b.positions[id].lots => Open(r) = Open(b) \ {id}
             /\ lots < b.positions[id].lots =>
                    /\ Open(r) = Open(b)
                    /\ r.positions[id].lots = b.positions[id].lots - lots
                    /\ r.positions[id].sl = b.positions[id].sl
             /\ \A j \in Open(b) \ {id} : r.positions[j] = b.positions[j]
<1> DEFINE pos == b.positions[id]
           price == Slipped(pos, ExitSide(b, pos))
           less == [pos EXCEPT !.lots = @ - lots]
           D == IF lots = pos.lots THEN Open(b) \ {id} ELSE Open(b)
           P == IF lots = pos.lots THEN Without(b.positions, {id})
                ELSE [b.positions EXCEPT ![id] = less]
           x == b.balance + Net(CloseReport(b, id, lots))
           r == ClosePosition(b, id, lots)
<1>1. /\ b.nextId \in Nat \ {0} /\ b.balance \in Int /\ b.bid \in Int /\ b.ask \in Int
      /\ b.positions \in [Open(b) -> Position] /\ Open(b) \subseteq 1..(b.nextId - 1)
      /\ Open(b) = DOMAIN b.positions
  BY DEF IsBroker, Open
<1>2. pos \in Position
  BY <1>1
<1>3. CloseReport(b, id, lots) \in FillReports /\ Net(CloseReport(b, id, lots)) \in Int
  <2>1. price \in Int
    BY <1>1, Numbers DEF Slipped, ExitSide
  <2>2. CloseReport(b, id, lots) = Report(pos, price, lots)
    BY DEF CloseReport
  <2> HIDE DEF pos, price
  <2> QED
    BY <1>2, <2>1, <2>2, ReportIsInteger
<1>4. lots # pos.lots => less \in Position /\ less.lots = pos.lots - lots /\ less.sl = pos.sl
  BY <1>2 DEF Position
<1>5. P \in [D -> Position] /\ (lots # pos.lots => P[id] = less)
      /\ \A j \in Open(b) \ {id} : P[j] = b.positions[j]
  <2> HIDE DEF less
  <2>1. CASE lots = pos.lots
    BY <1>1, <2>1 DEF Without
  <2>2. CASE lots # pos.lots
    BY <1>1, <1>4, <2>2
  <2> QED
    BY <2>1, <2>2
<1>6. r = Restated(WithBooks(b, P, x, b.nextId))
  <2>1. [b.positions EXCEPT ![id].lots = pos.lots - lots] = [b.positions EXCEPT ![id] = less]
    OBVIOUS
  <2>4. pos.lots - lots = 0 <=> lots = pos.lots
    BY <1>2 DEF Position
  <2>2. r = Restated([b EXCEPT !.balance = x, !.positions = P])
    <3> HIDE DEF less
    <3> QED
      BY <2>1, <2>4 DEF ClosePosition
  <2>3. [b EXCEPT !.balance = x, !.positions = P] = WithBooks(b, P, x, b.nextId)
    <3> HIDE DEF P, x
    <3>1. b = [positions |-> b.positions, nextId |-> b.nextId, bid |-> b.bid, ask |-> b.ask,
               balance |-> b.balance, equity |-> b.equity]
      BY DEF IsBroker
    <3> QED
      BY <3>1 DEF WithBooks
  <2> HIDE DEF r, P, x
  <2> QED
    BY <2>2, <2>3
<1>8. D \subseteq 1..(b.nextId - 1) /\ x \in Int
  BY <1>1, <1>3
<1>11. DOMAIN P = D
  BY <1>1 DEF Without
<1> HIDE DEF P, x, r, less
<1>9. /\ IsBroker(r) /\ r.positions = P /\ Open(r) = D /\ r.nextId = b.nextId
      /\ r.bid = b.bid /\ r.ask = b.ask /\ r.balance = x
  <2> HIDE DEF D
  <2>1. P \in [DOMAIN P -> Position] /\ DOMAIN P \subseteq 1..(b.nextId - 1)
    BY <1>5, <1>8, <1>11
  <2>2. /\ IsBroker(r) /\ r.positions = P /\ r.nextId = b.nextId
        /\ r.bid = b.bid /\ r.ask = b.ask /\ r.balance = x
    <3>1. b.nextId \in Nat \ {0} /\ x \in Int
      BY <1>1, <1>8
    <3>2. Rebooked(Restated(WithBooks(b, P, x, b.nextId)), b, P, x, b.nextId)
      BY <2>1, <3>1, BooksChange, Zenon
    <3> QED
      BY <1>6, <3>2 DEF Rebooked
  <2> QED
    BY <1>11, <2>2 DEF Open
<1>10. pos.lots \in Nat
  BY <1>2 DEF Position
<1> QED
  BY <1>3, <1>4, <1>5, <1>9, <1>10 DEF r, x

-----------------------------------------------------------------------------
(* The drivers.                                                            *)

OpenTrades ==
    [head : Heads, dir : Dirs, entry : Int, initialSl : Int, sl : Int, lots : Nat \ {0},
     initialLots : Nat, entryCommission : Int, exitPnl : Int, exitCommission : Int,
     opened : Int, mfe : Int, partial : BOOLEAN, breakeven : BOOLEAN, trailing : BOOLEAN]

Outcomes == [pnl : Int, won : BOOLEAN]

BooksTyped ==
    /\ IsBroker(broker)
    /\ meta \in [DOMAIN meta -> OpenTrades]
    /\ reports \in [DOMAIN reports -> FillReports]
    /\ trades \in Seq(Outcomes)

\* A position is open, waits to be booked, or neither, and was ordered.
PositionsAreApart ==
    /\ Open(broker) \cap DOMAIN reports = {}
    /\ DOMAIN meta \subseteq 1..(broker.nextId - 1)

\* Until the stop has been moved to the entry it is where a loss is, and
\* nothing has been closed yet.
LossSide(m) ==
    m.breakeven \/ /\ ~m.partial
                   /\ IF m.dir = "Buy" THEN m.sl <= m.entry ELSE m.sl >= m.entry

StopsStartBehind == \A id \in DOMAIN meta : LossSide(meta[id])

BooksInv == BooksTyped /\ PositionsAreApart /\ BooksAgree /\ StopsStartBehind /\ LedgerAgrees

Phases == {"bar", "fills", "book", "manage", "gates", "closes", "orders", "closing", "done"}

RunTyped ==
    /\ mode \in {"engine", "replay"} /\ pc \in Phases
    /\ bar \in Nat /\ atr \in Nat
    /\ orders \in Seq(Signals)
    /\ seen \in Int /\ dayOpen \in Int
    /\ tracker \in [history : Seq(Int), streak : Nat]

\* A loop over positions visits open ones, and fills are booked at once.
LoopsAreOpen ==
    /\ pc \in {"manage", "closes", "closing"} => todo \subseteq Open(broker)
    /\ pc # "book" => DOMAIN reports = {}

Quoted == broker.ask = broker.bid + 2 * HalfSpread \/ (pc = "bar" /\ bar = 0)

\* The streak counts at least the losing days since the last winning one.
LosingSince(days, i) == {j \in i..Len(days) : days[j] < 0}

LongStreak(days, streak) ==
    \A i \in DOMAIN days :
        (\A j \in i..Len(days) : days[j] <= 0) => Cardinality(LosingSince(days, i)) <= streak

StreakIsLong == LongStreak(tracker.history, tracker.streak)

GatePassed ==
    IsEngine /\ pc \in {"closes", "orders"} => ~killed /\ ~IsPaused(tracker)

RunInv == RunTyped /\ LoopsAreOpen /\ Quoted /\ StreakIsLong /\ GatePassed

BacktestInv == BooksInv /\ RunInv

-----------------------------------------------------------------------------
(* The losing days.                                                        *)

\* The losing days of a record can be counted.
LEMMA LosingIsFinite ==
  ASSUME NEW days \in Seq(Int), NEW i \in DOMAIN days
  PROVE  IsFiniteSet(LosingSince(days, i)) /\ Cardinality(LosingSince(days, i)) \in Nat
<1>1. i \in Int /\ Len(days) \in Int
  OBVIOUS
<1>2. IsFiniteSet(i..Len(days)) /\ LosingSince(days, i) \in SUBSET (i..Len(days))
  BY <1>1, FS_Interval DEF LosingSince
<1> QED
  BY <1>2, FS_Subset, FS_CardinalityType

\* A day more.
LEMMA StreakGrows ==
  ASSUME NEW days \in Seq(Int), NEW streak \in Nat, LongStreak(days, streak), NEW pnl \in Int
  PROVE  LongStreak(Append(days, pnl),
                    IF pnl = 0 THEN streak ELSE IF pnl > 0 THEN 0 ELSE streak + 1)
<1> DEFINE g == Append(days, pnl)
           n == Len(days) + 1
           new == IF pnl = 0 THEN streak ELSE IF pnl > 0 THEN 0 ELSE streak + 1
<1>1. g \in Seq(Int) /\ Len(g) = n /\ g[n] = pnl /\ (\A j \in 1..Len(days) : g[j] = days[j])
      /\ n \in Nat /\ DOMAIN g = 1..n /\ DOMAIN days = 1..Len(days) /\ Len(days) \in Nat
  OBVIOUS
<1> HIDE DEF g
<1> SUFFICES ASSUME NEW i \in DOMAIN g, \A j \in i..Len(g) : g[j] <= 0
             PROVE  Cardinality(LosingSince(g, i)) <= new
  BY DEF LongStreak, g
<1>2. pnl <= 0
  BY <1>1
<1>3. CASE i = n
  <2>1. LosingSince(g, i) = IF pnl < 0 THEN {n} ELSE {}
    BY <1>1, <1>3 DEF LosingSince
  <2>2. Cardinality(LosingSince(g, i)) = IF pnl < 0 THEN 1 ELSE 0
    BY <2>1, FS_EmptySet, FS_Singleton
  <2> QED
    BY <1>2, <2>2
<1>4. CASE i # n
  <2>1. i \in DOMAIN days /\ \A j \in i..Len(days) : days[j] <= 0
    <3>1. i \in 1..Len(days)
      BY <1>1, <1>4
    <3>2. \A j \in i..Len(days) : j \in i..Len(g) /\ g[j] = days[j]
      BY <1>1, <3>1
    <3> QED
      BY <1>1, <3>1, <3>2
  <2>2. Cardinality(LosingSince(days, i)) <= streak
    BY <2>1 DEF LongStreak
  <2>3. LosingSince(g, i) = IF pnl < 0 THEN LosingSince(days, i) \cup {n} ELSE LosingSince(days, i)
    BY <1>1, <1>4, <2>1 DEF LosingSince
  <2>4. IsFiniteSet(LosingSince(days, i)) /\ Cardinality(LosingSince(days, i)) \in Nat
    BY <2>1, LosingIsFinite
  <2>5. n \notin LosingSince(days, i)
    BY <1>1 DEF LosingSince
  <2>6. Cardinality(LosingSince(days, i) \cup {n}) = Cardinality(LosingSince(days, i)) + 1
    BY <2>4, <2>5, FS_AddElement
  <2> QED
    BY <1>2, <2>2, <2>3, <2>4, <2>6
<1> QED
  BY <1>3, <1>4

\* The oldest day forgotten.
LEMMA StreakForgets ==
  ASSUME NEW days \in Seq(Int), days # <<>>, NEW streak \in Nat, LongStreak(days, streak)
  PROVE  LongStreak(Tail(days), streak)
<1> DEFINE t == Tail(days)
<1>1. t \in Seq(Int) /\ Len(t) = Len(days) - 1 /\ (\A j \in 1..Len(t) : t[j] = days[j + 1])
      /\ DOMAIN t = 1..Len(t) /\ DOMAIN days = 1..Len(days) /\ Len(days) \in Nat
  BY HeadTailProperties
<1> HIDE DEF t
<1> SUFFICES ASSUME NEW i \in DOMAIN t, \A j \in i..Len(t) : t[j] <= 0
             PROVE  Cardinality(LosingSince(t, i)) <= streak
  BY DEF LongStreak, t
<1>2. i + 1 \in DOMAIN days /\ \A j \in (i + 1)..Len(days) : days[j] <= 0
  <2>1. ASSUME NEW j \in (i + 1)..Len(days) PROVE days[j] <= 0
    <3>1. j - 1 \in i..Len(t) /\ t[j - 1] = days[(j - 1) + 1]
      BY <1>1
    <3> QED
      BY <3>1
  <2> QED
    BY <1>1, <2>1
<1>3. Cardinality(LosingSince(days, i + 1)) <= streak
  BY <1>2 DEF LongStreak
<1> DEFINE shift == [j \in LosingSince(t, i) |-> j + 1]
<1>4. shift \in Injection(LosingSince(t, i), LosingSince(days, i + 1))
  <2>1. \A j \in LosingSince(t, i) : j + 1 \in LosingSince(days, i + 1) /\ j \in Int
    <3> SUFFICES ASSUME NEW j \in LosingSince(t, i)
                 PROVE  j + 1 \in LosingSince(days, i + 1) /\ j \in Int
      OBVIOUS
    <3>1. j \in i..Len(t) /\ t[j] < 0
      BY DEF LosingSince
    <3>3. i \in 1..Len(t) /\ Len(t) \in Int /\ Len(days) = Len(t) + 1
      BY <1>1
    <3>4. j \in 1..Len(t) /\ j + 1 \in (i + 1)..Len(days)
      BY <3>1, <3>3
    <3>2. j \in 1..Len(t) /\ t[j] = days[j + 1] /\ j + 1 \in (i + 1)..Len(days)
      BY <1>1, <3>4
    <3> QED
      BY <3>1, <3>2 DEF LosingSince
  <2>2. shift \in [LosingSince(t, i) -> LosingSince(days, i + 1)]
    BY <2>1
  <2>3. \A j, k \in LosingSince(t, i) : shift[j] = shift[k] => j = k
    BY <2>1
  <2> QED
    BY <2>2, <2>3 DEF Injection, IsInjective
<1>5. IsFiniteSet(LosingSince(days, i + 1)) /\ Cardinality(LosingSince(days, i + 1)) \in Nat
  BY <1>2, LosingIsFinite
<1>6. Cardinality(LosingSince(t, i)) <= Cardinality(LosingSince(days, i + 1))
  BY <1>4, <1>5, FS_Injection
<1>7. Cardinality(LosingSince(t, i)) \in Nat
  BY <1>1, LosingIsFinite
<1> QED
  BY <1>3, <1>5, <1>6, <1>7

\* record_day (consistency.rs:33): the capped record forgets days, the streak
\* does not.
LEMMA RecordDayIs ==
  ASSUME NEW t \in [history : Seq(Int), streak : Nat], NEW pnl \in Int,
         LongStreak(t.history, t.streak)
  PROVE  /\ RecordDay(t, pnl) \in [history : Seq(Int), streak : Nat]
         /\ LongStreak(RecordDay(t, pnl).history, RecordDay(t, pnl).streak)
<1> DEFINE g == Append(t.history, pnl)
           new == IF pnl = 0 THEN t.streak ELSE IF pnl > 0 THEN 0 ELSE t.streak + 1
           h == IF Len(g) > MaxHistory THEN Tail(g) ELSE g
<1>1. t.history \in Seq(Int) /\ t.streak \in Nat
  OBVIOUS
<1>2. g \in Seq(Int) /\ g # <<>> /\ new \in Nat
  BY <1>1
<1>3. LongStreak(g, new)
  BY <1>1, StreakGrows
<1>4. RecordDay(t, pnl) = [history |-> h, streak |-> new]
  BY DEF RecordDay, Slide
<1> HIDE DEF g, new
<1>5. h \in Seq(Int) /\ LongStreak(h, new)
  <2>1. Tail(g) \in Seq(Int) /\ LongStreak(Tail(g), new)
    BY <1>2, <1>3, StreakForgets, HeadTailProperties
  <2> QED
    BY <1>2, <1>3, <2>1
<1> HIDE DEF h
<1> QED
  BY <1>2, <1>4, <1>5

\* Days that pause the engine by the record also do by the streak.
LEMMA RedDaysPause ==
  ASSUME NEW t \in [history : Seq(Int), streak : Nat],
         LongStreak(t.history, t.streak), RedDays(t.history)
  PROVE  IsPaused(t)
<1>1. PICK i \in DOMAIN t.history :
          /\ \A j \in i..Len(t.history) : t.history[j] <= 0
          /\ Cardinality({j \in i..Len(t.history) : t.history[j] < 0}) >= PauseAfter
  BY DEF RedDays
<1>2. Cardinality(LosingSince(t.history, i)) <= t.streak
  BY <1>1 DEF LongStreak
<1>3. Cardinality(LosingSince(t.history, i)) >= PauseAfter
  BY <1>1 DEF LosingSince
<1>4. Cardinality(LosingSince(t.history, i)) \in Nat /\ PauseAfter \in Nat /\ t.streak \in Nat
  BY LosingIsFinite, Numbers
<1> QED
  BY <1>2, <1>3, <1>4 DEF IsPaused

-----------------------------------------------------------------------------
(* The ledger.                                                             *)

Earned(r) == SumFunction([i \in DOMAIN r |-> r[i].pnl])
Pending(m) == SumFunction([id \in DOMAIN m |-> Booking(m[id])])
Unbooked(r) == SumFunction([id \in DOMAIN r |-> Net(r[id])])

\* LedgerAgrees, by its four terms.
LEMMA LedgerIs ==
  LedgerAgrees <=>
      broker.balance = StartBalance + Earned(trades) + Pending(meta) + Unbooked(reports)
BY DEF LedgerAgrees, Earned, Pending, Unbooked

\* A trade more in the log.
LEMMA EarnedIs ==
  ASSUME NEW r \in Seq(Outcomes)
  PROVE  /\ Earned(r) \in Int
         /\ \A t \in Outcomes : Earned(Append(r, t)) = Earned(r) + t.pnl
<1> DEFINE f == [i \in DOMAIN r |-> r[i].pnl]
<1>1. DOMAIN r = 1..Len(r) /\ Len(r) \in Nat /\ IsFiniteSet(DOMAIN r)
  <2>1. DOMAIN r = 1..Len(r) /\ Len(r) \in Nat
    OBVIOUS
  <2> QED
    BY <2>1, FS_Interval
<1>2. f \in [DOMAIN r -> Int] /\ Earned(r) = SumFunction(f)
  <2>1. \A i \in DOMAIN r : r[i] \in Outcomes
    OBVIOUS
  <2>2. \A i \in DOMAIN r : r[i].pnl \in Int
    BY <2>1 DEF Outcomes
  <2> QED
    BY <2>2 DEF Earned
<1>3. ASSUME NEW t \in Outcomes PROVE Earned(Append(r, t)) = SumFunction(f) + t.pnl
  <2> DEFINE q == Append(r, t)
             n == Len(r) + 1
             g == [i \in DOMAIN q |-> q[i].pnl]
  <2>1. q \in Seq(Outcomes) /\ DOMAIN q = 1..n /\ n \in DOMAIN q /\ q[n] = t
        /\ (DOMAIN q) \ {n} = DOMAIN r /\ \A i \in DOMAIN r : q[i] = r[i]
    BY <1>1
  <2> HIDE DEF q
  <2>2. IsFiniteSet(DOMAIN q)
    <3>1. n \in Int
      BY <1>1
    <3> QED
      BY <2>1, <3>1, FS_Interval
  <2>3. g \in [DOMAIN q -> Int] /\ g[n] = t.pnl /\ \A i \in (DOMAIN q) \ {n} : f[i] = g[i]
    <3>1. \A i \in DOMAIN q : q[i] \in Outcomes
      BY <2>1
    <3>2. \A i \in DOMAIN q : q[i].pnl \in Int
      BY <3>1 DEF Outcomes
    <3> QED
      BY <2>1, <3>2
  <2>4. f \in [(DOMAIN q) \ {n} -> Int]
    BY <1>2, <2>1
  <2>5. Earned(q) = SumFunction(g)
    BY DEF Earned
  <2> HIDE DEF f, g, n
  <2>6. SumFunction(g) = SumFunction(f) + g[n]
    <3>1. Extends(g, f, n)
      BY <2>1, <2>2, <2>3, <2>4, SumExtends, Zenon
    <3> QED
      BY <3>1 DEF Extends
  <2> QED
    BY <2>3, <2>5, <2>6 DEF q
<1> HIDE DEF f
<1>4. SumFunction(f) \in Int
  BY <1>1, <1>2, SumIsInteger
<1> QED
  BY <1>2, <1>3, <1>4

\* What one position has paid is a number.
LEMMA BookingIsInteger ==
  ASSUME NEW m \in OpenTrades PROVE Booking(m) \in Int
BY DEF OpenTrades, Booking

\* A position more.
Joins(m, n, id) == Pending(m) = Pending(n) + Booking(m[id]) /\ Pending(n) \in Int

\* A record more.
LEMMA PendingGrows ==
  ASSUME NEW D, IsFiniteSet(D), NEW m \in [D -> OpenTrades], NEW id \in D,
         NEW n \in [D \ {id} -> OpenTrades], \A j \in D \ {id} : n[j] = m[j]
  PROVE  Joins(m, n, id)
<1> DEFINE f == [j \in D |-> Booking(m[j])]
           g == [j \in D \ {id} |-> Booking(n[j])]
<1>1. f \in [D -> Int] /\ f[id] = Booking(m[id])
  BY BookingIsInteger
<1>2. g \in [D \ {id} -> Int] /\ \A j \in D \ {id} : g[j] = f[j]
  BY BookingIsInteger
<1>3. Pending(m) = SumFunction(f) /\ Pending(n) = SumFunction(g)
  <2>1. DOMAIN m = D /\ DOMAIN n = D \ {id}
    OBVIOUS
  <2> QED
    BY <2>1 DEF Pending
<1> HIDE DEF f, g
<1>4. SumFunction(f) = SumFunction(g) + f[id]
  BY <1>1, <1>2, SumGrows
<1>5. SumFunction(g) \in Int
  <2>1. IsFiniteSet(D \ {id})
    BY FS_RemoveElement
  <2> QED
    BY <1>2, <2>1, SumIsInteger
<1> QED
  BY <1>1, <1>3, <1>4, <1>5 DEF Joins

\* One record changed.
Turns(n, m, id) ==
    Pending(n) = Pending(m) + Booking(n[id]) - Booking(m[id]) /\ Pending(m) \in Int

\* A record changed.
LEMMA PendingTurns ==
  ASSUME NEW D, IsFiniteSet(D), NEW m \in [D -> OpenTrades], NEW id \in D,
         NEW n \in [D -> OpenTrades], \A j \in D \ {id} : n[j] = m[j]
  PROVE  Turns(n, m, id)
<1> DEFINE r == [j \in D \ {id} |-> m[j]]
<1>1. r \in [D \ {id} -> OpenTrades] /\ \A j \in D \ {id} : r[j] = m[j]
  OBVIOUS
<1>2. r \in [D \ {id} -> OpenTrades] /\ \A j \in D \ {id} : r[j] = n[j]
  OBVIOUS
<1> HIDE DEF r
<1>3. Pending(m) = Pending(r) + Booking(m[id]) /\ Pending(r) \in Int
  <2>1. Joins(m, r, id)
    BY <1>1, PendingGrows, Zenon
  <2> QED
    BY <2>1 DEF Joins
<1>4. Pending(n) = Pending(r) + Booking(n[id])
  <2>1. Joins(n, r, id)
    BY <1>2, PendingGrows, Zenon
  <2> QED
    BY <2>1 DEF Joins
<1>5. Booking(m[id]) \in Int /\ Booking(n[id]) \in Int
  BY BookingIsInteger
<1> QED
  BY <1>3, <1>4, <1>5 DEF Turns

\* What the open positions have paid is a number.
LEMMA PendingIsInteger ==
  ASSUME NEW D, IsFiniteSet(D), NEW m \in [D -> OpenTrades]
  PROVE  Pending(m) \in Int
<1> DEFINE f == [j \in D |-> Booking(m[j])]
<1>1. f \in [D -> Int]
  BY BookingIsInteger
<1>2. Pending(m) = SumFunction(f)
  BY DEF Pending
<1> HIDE DEF f
<1> QED
  BY <1>1, <1>2, SumIsInteger

\* A report booked.
LEMMA UnbookedShrinks ==
  ASSUME NEW D, IsFiniteSet(D), NEW r \in [D -> FillReports]
  PROVE  /\ Unbooked(r) \in Int
         /\ D = {} => Unbooked(r) = 0
         /\ \A id \in D : Unbooked(r) = Unbooked(Without(r, {id})) + Net(r[id])
<1> DEFINE f == [j \in D |-> Net(r[j])]
<1>1. f \in [D -> Int] /\ \A id \in D : f[id] = Net(r[id])
  BY DEF FillReports, Net
<1>2. Unbooked(r) = SumFunction(f)
  BY DEF Unbooked
<1>3. ASSUME NEW id \in D PROVE Unbooked(r) = Unbooked(Without(r, {id})) + Net(r[id])
  <2> DEFINE q == Without(r, {id})
             g == [j \in D \ {id} |-> Net(q[j])]
  <2>1. q \in [D \ {id} -> FillReports] /\ DOMAIN q = D \ {id} /\ \A j \in D \ {id} : q[j] = r[j]
    BY DEF Without
  <2> HIDE DEF q
  <2>2. g \in [D \ {id} -> Int] /\ \A j \in D \ {id} : g[j] = f[j]
    <3>1. \A j \in D \ {id} : Net(q[j]) \in Int
      BY <2>1 DEF FillReports, Net
    <3> QED
      BY <2>1, <3>1
  <2>3. Unbooked(q) = SumFunction(g)
    BY <2>1 DEF Unbooked
  <2> HIDE DEF f, g
  <2>4. SumFunction(f) = SumFunction(g) + f[id]
    BY <1>1, <2>2, SumGrows
  <2> QED
    BY <1>1, <1>2, <2>3, <2>4 DEF q
<1> HIDE DEF f
<1>4. SumFunction(f) \in Int /\ (D = {} => SumFunction(f) = 0)
  BY <1>1, SumIsInteger
<1> QED
  BY <1>2, <1>3, <1>4

-----------------------------------------------------------------------------
(* What the steps do to the books.                                         *)

\* The four parts of the books are left alone.
LEMMA SameBooks ==
  ASSUME BooksInv, UNCHANGED <<broker, meta, reports, trades>>
  PROVE  BooksInv'
BY DEF BooksInv, BooksTyped, PositionsAreApart, BooksAgree, StopsStartBehind, LedgerAgrees,
       IsBroker, Open

\* The books are finite, and every ticket in them has a record.
LEMMA MetaIsFinite ==
  ASSUME BooksInv
  PROVE  IsFiniteSet(DOMAIN meta) /\ IsFiniteSet(DOMAIN reports) /\ IsFiniteSet(Open(broker))
         /\ Open(broker) \subseteq DOMAIN meta /\ DOMAIN reports \subseteq DOMAIN meta
<1>1. IsFiniteSet(1..(broker.nextId - 1))
  <2>1. broker.nextId - 1 \in Int
    BY DEF BooksInv, BooksTyped, IsBroker
  <2> QED
    BY <2>1, FS_Interval
<1>2. DOMAIN meta \subseteq 1..(broker.nextId - 1)
  BY DEF BooksInv, PositionsAreApart
<1>3. DOMAIN meta = Open(broker) \cup DOMAIN reports
  BY DEF BooksInv, BooksAgree
<1> QED
  BY <1>1, <1>2, <1>3, FS_Subset

\* What the balance is, and that every term of it is a number.
LEMMA LedgerSays ==
  ASSUME BooksInv
  PROVE  /\ broker.balance = StartBalance + Earned(trades) + Pending(meta) + Unbooked(reports)
         /\ Earned(trades) \in Int /\ Pending(meta) \in Int /\ Unbooked(reports) \in Int
         /\ DOMAIN reports = {} => Unbooked(reports) = 0
<1>1. trades \in Seq(Outcomes) /\ reports \in [DOMAIN reports -> FillReports]
  BY DEF BooksInv, BooksTyped
<1>2. Earned(trades) \in Int
  BY <1>1, EarnedIs
<1>3. Unbooked(reports) \in Int /\ (DOMAIN reports = {} => Unbooked(reports) = 0)
  BY <1>1, MetaIsFinite, UnbookedShrinks
<1>4. Pending(meta) \in Int
  <2>1. meta \in [DOMAIN meta -> OpenTrades]
    BY DEF BooksInv, BooksTyped
  <2> QED
    BY <2>1, MetaIsFinite, PendingIsInteger
<1> QED
  BY <1>2, <1>3, <1>4, LedgerIs DEF BooksInv

\* New quotes leave the books alone.
LEMMA PricedBooks ==
  ASSUME BooksInv, NEW mid \in Int, broker' = SetPrice(broker, mid),
         UNCHANGED <<meta, reports, trades>>
  PROVE  BooksInv' /\ Open(broker') = Open(broker) /\ broker'.positions = broker.positions
         /\ broker'.nextId = broker.nextId /\ broker'.ask = broker'.bid + 2 * HalfSpread
<1>1. IsBroker(broker)
  BY DEF BooksInv, BooksTyped
<1>2. /\ IsBroker(broker') /\ broker'.positions = broker.positions
      /\ broker'.nextId = broker.nextId /\ broker'.balance = broker.balance
      /\ broker'.ask = broker'.bid + 2 * HalfSpread
  BY <1>1, SetPriceIsBroker
<1>3. Open(broker') = Open(broker)
  BY <1>2 DEF Open
<1>4. BooksTyped' /\ PositionsAreApart' /\ BooksAgree' /\ StopsStartBehind'
  BY <1>2, <1>3 DEF BooksInv, BooksTyped, PositionsAreApart, BooksAgree, StopsStartBehind
<1>5. LedgerAgrees'
  BY <1>2 DEF BooksInv, LedgerAgrees
<1> QED
  BY <1>2, <1>3, <1>4, <1>5 DEF BooksInv

\* check_sl_tp (mock.rs:86): what is due leaves the broker, and the balance
\* moves by the reports.
LEMMA FilledBooks ==
  ASSUME BooksInv, DOMAIN reports = {},
         reports' = [id \in Due(broker) |-> DueReport(broker, id)],
         broker' = CheckSlTp(broker), UNCHANGED <<meta, trades>>
  PROVE  BooksInv' /\ broker'.positions = Without(broker.positions, Due(broker))
         /\ broker'.nextId = broker.nextId /\ broker'.bid = broker.bid /\ broker'.ask = broker.ask
<1> DEFINE f == [id \in Due(broker) |-> Net(DueReport(broker, id))]
<1>1. IsBroker(broker)
  BY DEF BooksInv, BooksTyped
<1>2. /\ IsBroker(broker')
      /\ broker'.positions = Without(broker.positions, Due(broker))
      /\ broker'.nextId = broker.nextId
      /\ broker'.bid = broker.bid /\ broker'.ask = broker.ask
      /\ f \in [Due(broker) -> Int] /\ broker'.balance = broker.balance + SumFunction(f)
  BY <1>1, CheckSlTpIs
<1>3. Due(broker) \subseteq Open(broker) /\ Open(broker) = DOMAIN broker.positions
  BY DEF Due, Open
<1>4. Open(broker') = Open(broker) \ Due(broker)
      /\ \A id \in Open(broker') : broker'.positions[id] = broker.positions[id]
  BY <1>2, <1>3 DEF Open, Without
<1>5. reports' \in [Due(broker) -> FillReports] /\ DOMAIN reports' = Due(broker)
  BY <1>1, <1>3, DueReportIs
<1>6. BooksTyped'
  BY <1>2, <1>5 DEF BooksInv, BooksTyped
<1>7. DOMAIN meta = Open(broker)
  BY DEF BooksInv, BooksAgree
<1>8. PositionsAreApart' /\ BooksAgree' /\ StopsStartBehind'
  <2>1. PositionsAreApart'
    BY <1>2, <1>4, <1>5 DEF BooksInv, PositionsAreApart
  <2>2. BooksAgree'
    BY <1>3, <1>4, <1>5, <1>7 DEF BooksInv, BooksAgree
  <2>3. StopsStartBehind'
    BY DEF BooksInv, StopsStartBehind
  <2> QED
    BY <2>1, <2>2, <2>3
<1>9. LedgerAgrees'
  <2>1. Unbooked(reports') = SumFunction(f)
    <3>1. [id \in DOMAIN reports' |-> Net(reports'[id])] = f
      BY <1>5
    <3> HIDE DEF f
    <3> QED
      BY <3>1 DEF Unbooked
  <2>2. SumFunction(f) \in Int
    <3>1. IsFiniteSet(Due(broker))
      BY <1>1, <1>3, OpenIsFinite, FS_Subset
    <3> HIDE DEF f
    <3> QED
      BY <1>2, <3>1, SumIsInteger
  <2> HIDE DEF f
  <2>4. broker'.balance = StartBalance + Earned(trades') + Pending(meta') + Unbooked(reports')
    <3>1. /\ broker.balance = StartBalance + Earned(trades) + Pending(meta) + Unbooked(reports)
          /\ Earned(trades) \in Int /\ Pending(meta) \in Int /\ Unbooked(reports) = 0
      BY LedgerSays
    <3>2. Earned(trades') = Earned(trades) /\ Pending(meta') = Pending(meta)
      OBVIOUS
    <3>3. StartBalance \in Int
      BY Numbers
    <3>4. broker'.balance = broker.balance + SumFunction(f)
      BY <1>2
    <3> QED
      BY <2>1, <2>2, <3>1, <3>2, <3>3, <3>4
  <2> QED
    BY <2>4 DEF LedgerAgrees, Earned, Pending, Unbooked
<1> QED
  BY <1>2, <1>6, <1>8, <1>9 DEF BooksInv

\* A trade is logged and leaves the books.
Logged(m, report) == [pnl |-> NetPnl(m, report), won |-> Won(m, report)]

\* The profit that is logged (engine.rs:1027) is what the position had paid
\* before and what the close reports.
LEMMA NetIs ==
  ASSUME NEW m \in OpenTrades, NEW report \in FillReports
  PROVE  /\ NetPnl(m, report) = Booking(m) + Net(report)
         /\ Logged(m, report) \in Outcomes
         /\ Booking(m) \in Int /\ Net(report) \in Int
<1>1. /\ m.exitPnl \in Int /\ m.exitCommission \in Int /\ m.entryCommission \in Int
      /\ report.pnl \in Int /\ report.commission \in Int
  BY DEF OpenTrades, FillReports
<1>2. NetPnl(m, report) \in Int
  BY <1>1 DEF NetPnl
<1>3. Won(m, report) \in BOOLEAN
  BY <1>2 DEF Won
<1> QED
  BY <1>1, <1>2, <1>3 DEF NetPnl, Booking, Net, Logged, Outcomes

\* Booking a report (engine.rs:433) turns it into a trade of the same amount.
LEMMA BookedBooks ==
  ASSUME BooksInv, NEW id \in DOMAIN reports,
         reports' = Without(reports, {id}), meta' = Without(meta, {id}),
         trades' = Append(trades, Logged(meta[id], reports[id])), UNCHANGED broker
  PROVE  BooksInv'
<1> DEFINE t == Logged(meta[id], reports[id])
<1>1. id \in DOMAIN meta /\ IsFiniteSet(DOMAIN meta) /\ IsFiniteSet(DOMAIN reports)
  BY MetaIsFinite
<1>2. /\ meta \in [DOMAIN meta -> OpenTrades] /\ reports \in [DOMAIN reports -> FillReports]
      /\ trades \in Seq(Outcomes)
  BY DEF BooksInv, BooksTyped
<1>3. meta[id] \in OpenTrades /\ reports[id] \in FillReports
  BY <1>1, <1>2
<1>4. /\ t \in Outcomes /\ t.pnl = Booking(meta[id]) + Net(reports[id])
      /\ Booking(meta[id]) \in Int /\ Net(reports[id]) \in Int
  BY <1>3, NetIs DEF Logged
<1> HIDE DEF t
<1>5. /\ meta' \in [DOMAIN meta \ {id} -> OpenTrades] /\ DOMAIN meta' = DOMAIN meta \ {id}
      /\ \A j \in DOMAIN meta \ {id} : meta'[j] = meta[j]
      /\ reports' \in [DOMAIN reports \ {id} -> FillReports]
      /\ DOMAIN reports' = DOMAIN reports \ {id}
  BY <1>2 DEF Without
<1>6. BooksTyped'
  <2>1. trades' \in Seq(Outcomes)
    BY <1>2, <1>4 DEF t
  <2> QED
    BY <1>5, <2>1 DEF BooksInv, BooksTyped
<1>7. PositionsAreApart'
  BY <1>5 DEF BooksInv, PositionsAreApart
<1>8. BooksAgree'
  <2>1. id \notin Open(broker)
    BY DEF BooksInv, PositionsAreApart
  <2>2. Open(broker) \subseteq DOMAIN meta'
    BY <1>5, <2>1, MetaIsFinite
  <2> QED
    BY <1>5, <2>1, <2>2 DEF BooksInv, BooksAgree
<1>9. StopsStartBehind'
  BY <1>5 DEF BooksInv, StopsStartBehind
<1>10. LedgerAgrees'
  <2>1. /\ broker.balance = StartBalance + Earned(trades) + Pending(meta) + Unbooked(reports)
        /\ Earned(trades) \in Int /\ Pending(meta) \in Int /\ Unbooked(reports) \in Int
    BY LedgerSays
  <2>2. Earned(trades') = Earned(trades) + t.pnl
    BY <1>2, <1>4, EarnedIs DEF t
  <2>3. Pending(meta) = Pending(meta') + Booking(meta[id]) /\ Pending(meta') \in Int
    <3>1. Joins(meta, meta', id)
      BY <1>1, <1>2, <1>5, PendingGrows, Zenon
    <3> QED
      BY <3>1 DEF Joins
  <2>4. Unbooked(reports) = Unbooked(reports') + Net(reports[id])
    BY <1>1, <1>2, UnbookedShrinks
  <2>5. Unbooked(reports') \in Int
    <3>1. IsFiniteSet(DOMAIN reports \ {id})
      BY <1>1, FS_Subset
    <3> QED
      BY <1>5, <3>1, UnbookedShrinks
  <2>6. StartBalance \in Int
    BY Numbers
  <2>7. broker'.balance
            = StartBalance + Earned(trades') + Pending(meta') + Unbooked(reports')
    <3>1. /\ t.pnl = Booking(meta[id]) + Net(reports[id])
          /\ Booking(meta[id]) \in Int /\ Net(reports[id]) \in Int
      BY <1>4
    <3>2. broker'.balance = broker.balance
      OBVIOUS
    <3> QED
      BY <2>1, <2>2, <2>3, <2>4, <2>5, <2>6, <3>1, <3>2
  <2> QED
    BY <2>7 DEF LedgerAgrees, Earned, Pending, Unbooked
<1> QED
  BY <1>6, <1>7, <1>8, <1>9, <1>10 DEF BooksInv

\* A position closed whole, on the record m of it: the record of the books, or
\* one with the same money in it.
Closes(id, m) ==
    /\ broker' = ClosePosition(broker, id, broker.positions[id].lots)
    /\ meta' = Without(meta, {id})
    /\ trades' = Append(trades,
                         Logged(m, CloseReport(broker, id, broker.positions[id].lots)))
    /\ UNCHANGED reports

\* A close of a whole position, booked at once.
LEMMA ClosedBooks ==
  ASSUME BooksInv, DOMAIN reports = {}, NEW id \in Open(broker),
         NEW m \in OpenTrades, Booking(m) = Booking(meta[id]), Closes(id, m)
  PROVE  /\ BooksInv' /\ Open(broker') = Open(broker) \ {id}
         /\ broker'.nextId = broker.nextId
         /\ broker'.bid = broker.bid /\ broker'.ask = broker.ask
         /\ broker'.equity \in Int
         /\ \A j \in Open(broker') : broker'.positions[j] = broker.positions[j]
<1> DEFINE lots == broker.positions[id].lots
           report == CloseReport(broker, id, lots)
           t == Logged(m, report)
<1>1. /\ IsBroker(broker)
      /\ meta \in [DOMAIN meta -> OpenTrades] /\ trades \in Seq(Outcomes)
      /\ DOMAIN meta = Open(broker) /\ IsFiniteSet(DOMAIN meta)
  BY MetaIsFinite DEF BooksInv, BooksTyped, BooksAgree
<1>2. lots \in Nat \ {0} /\ lots <= lots
  <2>1. broker.positions[id] \in Position
    BY <1>1 DEF IsBroker
  <2> QED
    BY <2>1 DEF Position
<1>3. /\ IsBroker(broker') /\ Open(broker') = Open(broker) \ {id}
      /\ broker'.nextId = broker.nextId
      /\ broker'.bid = broker.bid /\ broker'.ask = broker.ask
      /\ report \in FillReports /\ broker'.balance = broker.balance + Net(report)
      /\ \A j \in Open(broker) \ {id} : broker'.positions[j] = broker.positions[j]
  <2> DEFINE r == ClosePosition(broker, id, lots)
  <2>1. /\ IsBroker(r) /\ Open(r) = Open(broker) \ {id}
        /\ r.nextId = broker.nextId
        /\ r.bid = broker.bid /\ r.ask = broker.ask
        /\ report \in FillReports /\ r.balance = broker.balance + Net(report)
        /\ \A j \in Open(broker) \ {id} : r.positions[j] = broker.positions[j]
    BY <1>1, <1>2, ClosePositionIs
  <2>2. broker' = r
    BY DEF Closes
  <2> HIDE DEF r
  <2> QED
    BY <2>1, <2>2
<1>4. /\ t \in Outcomes /\ t.pnl = Booking(m) + Net(report)
      /\ Booking(m) \in Int /\ Net(report) \in Int
  BY <1>3, NetIs DEF Logged
<1>5. /\ meta' \in [DOMAIN meta \ {id} -> OpenTrades] /\ DOMAIN meta' = DOMAIN meta \ {id}
      /\ \A j \in DOMAIN meta \ {id} : meta'[j] = meta[j]
  BY <1>1 DEF Closes, Without
<1>6. trades' = Append(trades, t) /\ reports' = reports
  BY DEF Closes
<1> HIDE DEF t, report, lots
<1>7. BooksTyped'
  <2>1. trades' \in Seq(Outcomes)
    BY <1>1, <1>4, <1>6
  <2> QED
    BY <1>3, <1>5, <1>6, <2>1 DEF BooksInv, BooksTyped
<1>8. PositionsAreApart' /\ BooksAgree' /\ StopsStartBehind'
  <2>1. PositionsAreApart'
    BY <1>3, <1>5, <1>6 DEF BooksInv, PositionsAreApart
  <2>2. BooksAgree'
    BY <1>1, <1>3, <1>5, <1>6 DEF BooksInv, BooksAgree
  <2>3. StopsStartBehind'
    BY <1>5 DEF BooksInv, StopsStartBehind
  <2> QED
    BY <2>1, <2>2, <2>3
<1>9. LedgerAgrees'
  <2>1. /\ broker.balance = StartBalance + Earned(trades) + Pending(meta) + Unbooked(reports)
        /\ Earned(trades) \in Int /\ Pending(meta) \in Int /\ Unbooked(reports) = 0
    BY LedgerSays
  <2>2. Earned(trades') = Earned(trades) + t.pnl
    BY <1>1, <1>4, <1>6, EarnedIs
  <2>3. Pending(meta) = Pending(meta') + Booking(meta[id]) /\ Pending(meta') \in Int
    <3>1. Joins(meta, meta', id)
      <4>1. id \in DOMAIN meta
        BY <1>1
      <4> QED
        BY <1>1, <1>5, <4>1, PendingGrows, Zenon
    <3> QED
      BY <3>1 DEF Joins
  <2>4. Unbooked(reports') = 0
    BY <1>6, <2>1
  <2>5. StartBalance \in Int
    BY Numbers
  <2>6. broker'.balance
            = StartBalance + Earned(trades') + Pending(meta') + Unbooked(reports')
    <3>1. /\ t.pnl = Booking(meta[id]) + Net(report)
          /\ Booking(meta[id]) \in Int /\ Net(report) \in Int
      BY <1>4
    <3>2. broker'.balance = broker.balance + Net(report)
      BY <1>3
    <3> QED
      BY <2>1, <2>2, <2>3, <2>4, <2>5, <3>1, <3>2
  <2> QED
    BY <2>6 DEF LedgerAgrees, Earned, Pending, Unbooked
<1>10. broker'.equity \in Int
  BY <1>3 DEF IsBroker
<1> QED
  BY <1>3, <1>7, <1>8, <1>9, <1>10 DEF BooksInv

-----------------------------------------------------------------------------
(* One call of the trade manager.                                          *)

Views == [dir : Dirs, entry : Int, price : Int, sl : Int, opened : Int, mfe : Int,
          partial : BOOLEAN, breakeven : BOOLEAN, trailing : BOOLEAN]

\* What the trade manager asks for, as far as the books depend on it: the stop
\* goes to the entry only when it has not been there, a partial close comes with
\* that move or after it, and the trail follows a partial close.
Sane(asked, pos, stop) ==
    /\ asked.pos.mfe \in Int
    /\ asked.pos.partial = (pos.partial \/ asked.partial)
    /\ asked.pos.breakeven = (pos.breakeven \/ asked.breakeven \/ asked.also)
    /\ asked.pos.trailing = (pos.trailing \/ asked.trail)
    /\ asked.breakeven \/ asked.also => ~pos.breakeven
    /\ asked.partial => pos.breakeven \/ asked.breakeven \/ asked.also
    /\ asked.trail => (pos.partial \/ asked.partial) /\ Tighter(pos, stop)

\* manage_position (trade_manager.rs:126), in every branch.
LEMMA ManageIsSane ==
  ASSUME NEW pos \in Views, NEW now, NEW range
  PROVE  Sane(ManagePosition(pos, now, range), pos, TrailStop(pos, range))
<1> DEFINE q == WithMfe(pos)
           closeAll  == TimedOut(q, now) \/ GaveBack(q)
           breakeven == ~closeAll /\ WantsBreakeven(q)
           partial   == ~closeAll /\ WantsPartial(q)
           also      == partial /\ ~q.breakeven /\ ~breakeven
           trail     == ~closeAll /\ WantsTrail(q, q.partial \/ partial, range)
           after     == [q EXCEPT !.breakeven = @ \/ breakeven \/ also,
                                  !.partial   = @ \/ partial,
                                  !.trailing  = @ \/ trail]
           asked     == ManagePosition(pos, now, range)
<1>1. /\ q.partial = pos.partial /\ q.breakeven = pos.breakeven /\ q.trailing = pos.trailing
      /\ q.dir = pos.dir /\ q.sl = pos.sl /\ q.price = pos.price /\ q.mfe \in Int
      /\ DOMAIN q = {"dir", "entry", "price", "sl", "opened", "mfe", "partial", "breakeven",
                     "trailing"}
  <2>1. Profit(pos) \in Int
    BY DEF Views, Profit
  <2> QED
    BY <2>1 DEF WithMfe, Views
<1>2. asked = [pos |-> after, closeAll |-> closeAll, breakeven |-> breakeven,
               partial |-> partial, also |-> also, trail |-> trail]
  BY DEF ManagePosition
<1>3. TrailStop(q, range) = TrailStop(pos, range)
  BY <1>1 DEF TrailStop
<1>4. trail => (q.partial \/ partial) /\ Tighter(pos, TrailStop(pos, range))
  BY <1>1, <1>3 DEF WantsTrail, Tighter
<1>5. breakeven => ~q.breakeven
  BY DEF WantsBreakeven
<1>6. /\ asked.pos = after /\ asked.breakeven = breakeven /\ asked.partial = partial
      /\ asked.also = also /\ asked.trail = trail
  BY <1>2
<1>7. partial \in BOOLEAN /\ breakeven \in BOOLEAN /\ trail \in BOOLEAN
  OBVIOUS
<1> HIDE DEF q, closeAll, breakeven, partial, trail, asked
<1>8. /\ after.mfe = q.mfe /\ after.partial = (q.partial \/ partial)
      /\ after.breakeven = (q.breakeven \/ breakeven \/ also)
      /\ after.trailing = (q.trailing \/ trail)
  BY <1>1
<1>9. also => ~q.breakeven /\ partial
  OBVIOUS
<1>10. partial => q.breakeven \/ breakeven \/ also
  OBVIOUS
<1> HIDE DEF after, also
<1>11. asked.pos.mfe \in Int
  BY <1>1, <1>6, <1>8
<1>12. asked.pos.partial = (pos.partial \/ asked.partial)
  BY <1>1, <1>6, <1>8, Zenon
<1>13. asked.pos.breakeven = (pos.breakeven \/ asked.breakeven \/ asked.also)
  BY <1>1, <1>6, <1>8, Zenon
<1>14. asked.pos.trailing = (pos.trailing \/ asked.trail)
  BY <1>1, <1>6, <1>8, Zenon
<1>15. asked.breakeven \/ asked.also => ~pos.breakeven
  BY <1>1, <1>5, <1>6, <1>9, Zenon
<1>16. asked.partial => pos.breakeven \/ asked.breakeven \/ asked.also
  BY <1>1, <1>6, <1>10, Zenon
<1>17. asked.trail => (pos.partial \/ asked.partial) /\ Tighter(pos, TrailStop(pos, range))
  BY <1>1, <1>4, <1>6, Zenon
<1> QED
  BY <1>11, <1>12, <1>13, <1>14, <1>15, <1>16, <1>17, Zenon DEF Sane, asked

\* The working copy st of a position: broker b0 and record m0 with nothing else
\* changed, and no money lost between the two.
Fits(st, id, b0, m0) ==
    /\ IsBroker(st.b) /\ st.m \in OpenTrades /\ st.equity \in Int
    /\ Open(st.b) = Open(b0) /\ st.b.nextId = b0.nextId
    /\ st.b.bid = b0.bid /\ st.b.ask = b0.ask
    /\ \A j \in Open(b0) \ {id} : st.b.positions[j] = b0.positions[j]
    /\ st.b.positions[id].lots = st.m.lots /\ st.b.positions[id].sl = st.m.sl
    /\ st.m.dir = m0.dir /\ st.m.entry = m0.entry
    /\ st.m.breakeven = m0.breakeven /\ st.m.partial = m0.partial
    /\ st.b.balance - Booking(st.m) = b0.balance - Booking(m0)

Copy(b, m, equity) == [b |-> b, m |-> m, equity |-> equity]

\* st is such a copy, with its stop at sl.
FitsAt(st, id, b0, m0, sl) ==
    \E b, m, equity : st = Copy(b, m, equity) /\ Fits(st, id, b0, m0) /\ m.sl = sl

\* MoveSl (engine.rs:926): broker and record get the same stop.
LEMMA MoveFits ==
  ASSUME NEW b, NEW m, NEW equity, NEW b0, NEW m0, NEW id \in Open(b0), NEW sl \in Int,
         Fits(Copy(b, m, equity), id, b0, m0)
  PROVE  FitsAt(ApplyMove(Copy(b, m, equity), id, sl), id, b0, m0, sl)
<1> DEFINE c == ModifyStop(b, id, sl)
           n == [m EXCEPT !.sl = sl]
<1>1. /\ IsBroker(b) /\ m \in OpenTrades /\ equity \in Int
      /\ Open(b) = Open(b0) /\ b.nextId = b0.nextId
      /\ b.bid = b0.bid /\ b.ask = b0.ask
      /\ \A j \in Open(b0) \ {id} : b.positions[j] = b0.positions[j]
      /\ b.positions[id].lots = m.lots /\ b.positions[id].sl = m.sl
      /\ m.dir = m0.dir /\ m.entry = m0.entry
      /\ m.breakeven = m0.breakeven /\ m.partial = m0.partial
      /\ b.balance - Booking(m) = b0.balance - Booking(m0)
  BY DEF Fits, Copy
<1>2. /\ IsBroker(c) /\ Open(c) = Open(b) /\ c.nextId = b.nextId
      /\ c.bid = b.bid /\ c.ask = b.ask /\ c.balance = b.balance
      /\ c.positions[id].lots = b.positions[id].lots /\ c.positions[id].sl = sl
      /\ \A j \in Open(b) \ {id} : c.positions[j] = b.positions[j]
  BY <1>1, ModifyStopIs
<1>3. /\ n \in OpenTrades /\ n.sl = sl /\ n.lots = m.lots
      /\ n.dir = m.dir /\ n.entry = m.entry
      /\ n.breakeven = m.breakeven /\ n.partial = m.partial
      /\ n.exitPnl = m.exitPnl /\ n.exitCommission = m.exitCommission
      /\ n.entryCommission = m.entryCommission
  BY <1>1 DEF OpenTrades
<1>4. Booking(n) = Booking(m)
  BY <1>3 DEF Booking
<1>5. ApplyMove(Copy(b, m, equity), id, sl)
          = Copy(c, n, equity)
  <2> DEFINE st == Copy(b, m, equity)
  <2>1. st.b = b /\ st.m = m
    BY DEF Copy
  <2>2. ApplyMove(st, id, sl) = [st EXCEPT !.b = c, !.m = [st.m EXCEPT !.sl = sl]]
    <3> HIDE DEF st
    <3> QED
      BY <2>1 DEF ApplyMove
  <2>3. [st EXCEPT !.b = c, !.m = n] = Copy(c, n, equity)
    <3> HIDE DEF c, n
    <3>1. [st EXCEPT !.b = c] = Copy(c, m, equity)
      BY DEF Copy
    <3>2. [Copy(c, m, equity) EXCEPT !.m = n]
              = Copy(c, n, equity)
      BY DEF Copy
    <3> QED
      BY <3>1, <3>2
  <2> HIDE DEF st, c
  <2> QED
    BY <2>1, <2>2, <2>3 DEF st
<1> HIDE DEF c, n
<1>6. Fits(Copy(c, n, equity), id, b0, m0)
  BY <1>1, <1>2, <1>3, <1>4 DEF Fits, Copy
<1> QED
  BY <1>3, <1>5, <1>6 DEF FitsAt

\* Half the lots, rounded down (engine.rs:947).
LEMMA PartialLotsAre ==
  ASSUME NEW lots \in Nat
  PROVE  PartialLots(lots) \in Nat
<1>1. lots \div 2 \in Nat
  OBVIOUS
<1> QED
  BY <1>1 DEF PartialLots

\* What a partial close earns and costs goes to the record and to the balance.
LEMMA PartialFits ==
  ASSUME NEW b, NEW m, NEW equity, NEW b0, NEW m0, NEW id \in Open(b0),
         Fits(Copy(b, m, equity), id, b0, m0)
  PROVE  FitsAt(ApplyPartial(Copy(b, m, equity), id), id, b0, m0, m.sl)
<1> DEFINE lots == PartialLots(m.lots)
           report == CloseReport(b, id, lots)
           c == ClosePosition(b, id, lots)
           n == [m EXCEPT !.lots = @ - lots, !.exitPnl = @ + report.pnl,
                          !.exitCommission = @ + report.commission]
           st == Copy(b, m, equity)
<1>1. /\ IsBroker(b) /\ m \in OpenTrades /\ equity \in Int
      /\ Open(b) = Open(b0) /\ b.nextId = b0.nextId
      /\ b.bid = b0.bid /\ b.ask = b0.ask
      /\ \A j \in Open(b0) \ {id} : b.positions[j] = b0.positions[j]
      /\ b.positions[id].lots = m.lots /\ b.positions[id].sl = m.sl
      /\ m.dir = m0.dir /\ m.entry = m0.entry
      /\ m.breakeven = m0.breakeven /\ m.partial = m0.partial
      /\ b.balance - Booking(m) = b0.balance - Booking(m0)
  BY DEF Fits, Copy
<1>2. st.b = b /\ st.m = m
  BY DEF Copy
<1>3. ApplyPartial(st, id)
          = IF lots <= 0 \/ lots >= m.lots THEN st ELSE Copy(c, n, c.equity)
  <2> HIDE DEF st
  <2> QED
    BY <1>2 DEF ApplyPartial, Copy
<1>4. lots \in Nat /\ m.lots \in Nat \ {0}
  <2>1. m.lots \in Nat \ {0}
    BY <1>1 DEF OpenTrades
  <2> QED
    BY <2>1, PartialLotsAre
<1> HIDE DEF lots, c
<1>5. CASE lots <= 0 \/ lots >= m.lots
  <2>1. ApplyPartial(st, id) = st
    BY <1>3, <1>5
  <2> QED
    BY <2>1 DEF FitsAt
<1>6. CASE ~(lots <= 0 \/ lots >= m.lots)
  <2>1. lots \in Nat \ {0} /\ lots <= m.lots /\ lots < m.lots
    BY <1>4, <1>6
  <2>2. /\ IsBroker(c) /\ c.nextId = b.nextId /\ c.bid = b.bid /\ c.ask = b.ask
        /\ report \in FillReports
        /\ c.balance = b.balance + Net(report)
        /\ Open(c) = Open(b)
        /\ c.positions[id].lots = m.lots - lots
        /\ c.positions[id].sl = m.sl
        /\ \A j \in Open(b) \ {id} : c.positions[j] = b.positions[j]
    BY <1>1, <2>1, ClosePositionIs DEF c
  <2> HIDE DEF report
  <2>3. report.pnl \in Int /\ report.commission \in Int
    BY <2>2 DEF FillReports
  <2>4. m.lots - lots \in Nat \ {0}
    BY <1>4, <2>1
  <2>5. /\ n \in OpenTrades /\ n.sl = m.sl /\ n.lots = m.lots - lots
        /\ n.dir = m.dir /\ n.entry = m.entry
        /\ n.breakeven = m.breakeven /\ n.partial = m.partial
        /\ n.exitPnl = m.exitPnl + report.pnl
        /\ n.exitCommission = m.exitCommission + report.commission
        /\ n.entryCommission = m.entryCommission
    <3>1. /\ DOMAIN m = {"head", "dir", "entry", "initialSl", "sl", "lots", "initialLots",
                         "entryCommission", "exitPnl", "exitCommission", "opened", "mfe",
                         "partial", "breakeven", "trailing"}
          /\ m.exitPnl + report.pnl \in Int /\ m.exitCommission + report.commission \in Int
      BY <1>1, <2>3 DEF OpenTrades
    <3> QED
      BY <1>1, <2>4, <3>1 DEF OpenTrades
  <2>6. c.balance - Booking(n) = b.balance - Booking(m)
    <3>1. /\ m.exitPnl \in Int /\ m.exitCommission \in Int /\ m.entryCommission \in Int
          /\ b.balance \in Int
      BY <1>1 DEF OpenTrades, IsBroker
    <3> HIDE DEF n
    <3> QED
      BY <2>2, <2>3, <2>5, <3>1 DEF Booking, Net
  <2>7. c.equity \in Int
    BY <2>2 DEF IsBroker
  <2> HIDE DEF n
  <2>8. Fits(Copy(c, n, c.equity), id, b0, m0)
    BY <1>1, <2>2, <2>5, <2>6, <2>7 DEF Fits, Copy
  <2>9. ApplyPartial(st, id) = Copy(c, n, c.equity)
    BY <1>3, <1>6
  <2> QED
    BY <2>5, <2>8, <2>9 DEF FitsAt, st
<1> QED
  BY <1>5, <1>6

\* Where the call leaves the stop.
StopAfter(asked, stop, m) ==
    IF asked.trail THEN stop
    ELSE IF asked.breakeven \/ asked.also THEN m.entry ELSE m.sl

\* The actions of one call, in their order: broker and record stay copies of
\* each other through all of them.
LEMMA AppliedFits ==
  ASSUME NEW b, NEW m, NEW equity, NEW asked, NEW id \in Open(b), NEW stop \in Int,
         Fits(Copy(b, m, equity), id, b, m)
  PROVE  FitsAt(Applied(Copy(b, m, equity), asked, stop, id), id, b, m,
                StopAfter(asked, stop, m))
<1> DEFINE st == Copy(b, m, equity)
           evened  == IF asked.breakeven THEN ApplyMove(st, id, st.m.entry) ELSE st
           halved  == IF asked.partial THEN ApplyPartial(evened, id) ELSE evened
           secured == IF asked.also THEN ApplyMove(halved, id, st.m.entry) ELSE halved
           done    == IF asked.trail THEN ApplyMove(secured, id, stop) ELSE secured
           first   == IF asked.breakeven THEN m.entry ELSE m.sl
           second  == IF asked.also THEN m.entry ELSE first
<1>1. st.m.entry = m.entry /\ m.entry \in Int
  BY DEF Copy, Fits, OpenTrades
<1>2. FitsAt(evened, id, b, m, first)
  <2>1. CASE asked.breakeven
    <3>1. FitsAt(ApplyMove(Copy(b, m, equity), id, m.entry), id, b, m, m.entry)
      BY <1>1, MoveFits, Zenon
    <3> QED
      BY <1>1, <2>1, <3>1
  <2>2. CASE ~asked.breakeven
    BY <2>2 DEF FitsAt
  <2> QED
    BY <2>1, <2>2
<1> HIDE DEF evened, first
<1>3. FitsAt(halved, id, b, m, first)
  <2>1. CASE asked.partial
    <3>1. PICK c, n, e : evened = Copy(c, n, e) /\ Fits(evened, id, b, m) /\ n.sl = first
      BY <1>2 DEF FitsAt
    <3>2. FitsAt(ApplyPartial(Copy(c, n, e), id), id, b, m, n.sl)
      <4>1. Fits(Copy(c, n, e), id, b, m)
        BY <3>1
      <4> QED
        BY <4>1, PartialFits, Zenon
    <3> QED
      BY <2>1, <3>1, <3>2
  <2>2. CASE ~asked.partial
    BY <1>2, <2>2
  <2> QED
    BY <2>1, <2>2
<1> HIDE DEF halved
<1>4. FitsAt(secured, id, b, m, second)
  <2>1. CASE asked.also
    <3>1. PICK c, n, e : halved = Copy(c, n, e) /\ Fits(halved, id, b, m) /\ n.sl = first
      BY <1>3 DEF FitsAt
    <3>2. FitsAt(ApplyMove(Copy(c, n, e), id, m.entry), id, b, m, m.entry)
      <4>1. Fits(Copy(c, n, e), id, b, m)
        BY <3>1
      <4> QED
        BY <1>1, <4>1, MoveFits, Zenon
    <3> QED
      BY <1>1, <2>1, <3>1, <3>2
  <2>2. CASE ~asked.also
    BY <1>3, <2>2
  <2> QED
    BY <2>1, <2>2
<1> HIDE DEF secured
<1>5. FitsAt(done, id, b, m, StopAfter(asked, stop, m))
  <2>1. CASE asked.trail
    <3>1. PICK c, n, e : secured = Copy(c, n, e) /\ Fits(secured, id, b, m) /\ n.sl = second
      BY <1>4 DEF FitsAt
    <3>2. FitsAt(ApplyMove(Copy(c, n, e), id, stop), id, b, m, stop)
      <4>1. Fits(Copy(c, n, e), id, b, m)
        BY <3>1
      <4> QED
        BY <4>1, MoveFits, Zenon
    <3> QED
      BY <2>1, <3>1, <3>2 DEF StopAfter
  <2>2. CASE ~asked.trail
    <3>1. second = StopAfter(asked, stop, m)
      BY <2>2 DEF StopAfter, first
    <3> QED
      BY <1>4, <2>2, <3>1
  <2> QED
    BY <2>1, <2>2
<1>6. Applied(st, asked, stop, id) = done
  BY DEF Applied, secured, halved, evened
<1> HIDE DEF done
<1> QED
  BY <1>5, <1>6

\* The stop behind the entry, or moved there once.
Behind(m, sl) ==
    m.breakeven \/ /\ ~m.partial
                   /\ IF m.dir = "Buy" THEN sl <= m.entry ELSE sl >= m.entry

Tightened(m, sl) == IF m.dir = "Buy" THEN sl >= m.sl ELSE sl <= m.sl

\* n is m after the manager's call, with the stop not yet moved.
LEMMA StopIsTighter ==
  ASSUME NEW m \in OpenTrades, LossSide(m), NEW n \in OpenTrades, NEW pos, NEW asked,
         NEW stop \in Int, Sane(asked, pos, stop),
         pos.dir = m.dir /\ pos.sl = m.sl /\ pos.partial = m.partial
             /\ pos.breakeven = m.breakeven,
         n.dir = m.dir /\ n.entry = m.entry /\ n.sl = m.sl
             /\ n.partial = asked.pos.partial /\ n.breakeven = asked.pos.breakeven
  PROVE  /\ Tightened(m, StopAfter(asked, stop, n))
         /\ Behind(n, StopAfter(asked, stop, n))
<1>1. m.sl \in Int /\ m.entry \in Int /\ m.dir \in Dirs /\ m.breakeven \in BOOLEAN
      /\ m.partial \in BOOLEAN
  BY DEF OpenTrades
<1>2. asked.trail => IF m.dir = "Buy" THEN stop > m.sl ELSE stop < m.sl
  BY DEF Sane, Tighter
<1>3. asked.breakeven \/ asked.also => ~m.breakeven
  BY DEF Sane
<1>4. ~m.breakeven => IF m.dir = "Buy" THEN m.sl <= m.entry ELSE m.sl >= m.entry
  BY DEF LossSide
<1>5. Tightened(m, StopAfter(asked, stop, n))
  <2>1. CASE asked.trail
    BY <1>1, <1>2, <2>1 DEF StopAfter, Tightened
  <2>2. CASE ~asked.trail /\ (asked.breakeven \/ asked.also)
    BY <1>1, <1>3, <1>4, <2>2 DEF StopAfter, Tightened
  <2>3. CASE ~asked.trail /\ ~(asked.breakeven \/ asked.also)
    BY <1>1, <2>3 DEF StopAfter, Tightened
  <2> QED
    BY <2>1, <2>2, <2>3
<1>6. Behind(n, StopAfter(asked, stop, n))
  <2> SUFFICES ASSUME ~n.breakeven PROVE Behind(n, StopAfter(asked, stop, n))
    BY DEF Behind
  <2>1. ~m.breakeven /\ ~asked.breakeven /\ ~asked.also
    BY DEF Sane
  <2>2. ~asked.partial /\ ~m.partial
    BY <2>1 DEF Sane, LossSide
  <2>3. ~n.partial /\ ~asked.trail
    BY <2>2 DEF Sane
  <2>4. StopAfter(asked, stop, n) = m.sl
    BY <2>1, <2>3 DEF StopAfter
  <2> QED
    BY <1>4, <2>1, <2>3, <2>4 DEF Behind
<1> QED
  BY <1>5, <1>6

\* The manager's call on one position keeps the books.
LEMMA ManagedBooks ==
  ASSUME BooksInv, DOMAIN reports = {}, NEW id \in Open(broker),
         NEW m \in OpenTrades, Booking(m) = Booking(meta[id]), NEW done, NEW sl,
         FitsAt(done, id, broker, m, sl), Behind(m, sl),
         broker' = done.b, meta' = [meta EXCEPT ![id] = done.m],
         UNCHANGED <<reports, trades>>
  PROVE  /\ BooksInv' /\ Open(broker') = Open(broker) /\ broker'.nextId = broker.nextId
         /\ broker'.bid = broker.bid /\ broker'.ask = broker.ask
         /\ done.equity \in Int
         /\ broker'.positions[id].sl = sl
         /\ \A j \in Open(broker) \ {id} : broker'.positions[j] = broker.positions[j]
<1>1. /\ IsBroker(broker) /\ IsFiniteSet(DOMAIN meta)
      /\ meta \in [DOMAIN meta -> OpenTrades] /\ DOMAIN meta = Open(broker)
  BY MetaIsFinite DEF BooksInv, BooksTyped, BooksAgree
<1>2. /\ IsBroker(broker') /\ done.m \in OpenTrades /\ done.equity \in Int
      /\ Open(broker') = Open(broker) /\ broker'.nextId = broker.nextId
      /\ broker'.bid = broker.bid /\ broker'.ask = broker.ask
      /\ \A j \in Open(broker) \ {id} : broker'.positions[j] = broker.positions[j]
      /\ broker'.positions[id].lots = done.m.lots /\ broker'.positions[id].sl = done.m.sl
      /\ done.m.dir = m.dir /\ done.m.entry = m.entry
      /\ done.m.breakeven = m.breakeven /\ done.m.partial = m.partial
      /\ broker'.balance - Booking(done.m) = broker.balance - Booking(m)
  BY DEF FitsAt, Fits
<1>3. done.m.sl = sl
  BY DEF FitsAt, Copy
<1>4. /\ meta' \in [DOMAIN meta -> OpenTrades] /\ meta'[id] = done.m
      /\ \A j \in DOMAIN meta \ {id} : meta'[j] = meta[j]
      /\ DOMAIN meta' = DOMAIN meta
  BY <1>1, <1>2
<1>5. BooksTyped'
  BY <1>2, <1>4 DEF BooksInv, BooksTyped
<1>6. PositionsAreApart'
  BY <1>2, <1>4 DEF BooksInv, PositionsAreApart
<1>7. BooksAgree'
  BY <1>1, <1>2, <1>4 DEF BooksInv, BooksAgree
<1>8. StopsStartBehind'
  <2>1. LossSide(done.m)
    BY <1>2, <1>3 DEF LossSide, Behind
  <2> QED
    BY <1>4, <2>1 DEF BooksInv, StopsStartBehind
<1>9. LedgerAgrees'
  <2>1. /\ broker.balance = StartBalance + Earned(trades) + Pending(meta) + Unbooked(reports)
        /\ Earned(trades) \in Int /\ Pending(meta) \in Int /\ Unbooked(reports) = 0
    BY LedgerSays
  <2>2. Pending(meta') = Pending(meta) + Booking(done.m) - Booking(meta[id])
    <3>1. Turns(meta', meta, id)
      <4>1. id \in DOMAIN meta
        BY <1>1
      <4> QED
        BY <1>1, <1>4, <4>1, PendingTurns, Zenon
    <3> QED
      BY <1>4, <3>1 DEF Turns
  <2>3. Booking(done.m) \in Int /\ Booking(meta[id]) \in Int /\ StartBalance \in Int
        /\ broker'.balance \in Int
    BY <1>1, <1>2, BookingIsInteger, Numbers DEF IsBroker
  <2>4. broker'.balance
            = StartBalance + Earned(trades') + Pending(meta') + Unbooked(reports')
    <3>1. broker'.balance - Booking(done.m) = broker.balance - Booking(meta[id])
      BY <1>2
    <3>2. broker.balance \in Int
      BY <1>1 DEF IsBroker
    <3>3. broker'.balance = broker.balance + Booking(done.m) - Booking(meta[id])
      BY <2>3, <3>1, <3>2
    <3>4. Earned(trades') = Earned(trades) /\ Unbooked(reports') = 0
      BY <2>1
    <3> QED
      BY <2>1, <2>2, <2>3, <3>3, <3>4
  <2> QED
    BY <2>4 DEF LedgerAgrees, Earned, Pending, Unbooked
<1> QED
  BY <1>2, <1>3, <1>5, <1>6, <1>7, <1>8, <1>9 DEF BooksInv

\* The parts of a signal.
LEMMA SignalIs ==
  ASSUME NEW s \in Signals
  PROVE  s.head \in Heads /\ s.dir \in Dirs /\ s.pips \in Nat /\ s.rr \in Nat
<1>1. SignalDirs \subseteq Dirs /\ Distances \subseteq Nat /\ Ratios \subseteq Nat
  BY BacktestConstants
<1> QED
  BY <1>1 DEF Signals

\* A size that may be ordered is a whole number of steps, at least one.
LEMMA LotsAre ==
  ASSUME seen \in Int, NEW s \in Signals, Sized(s)
  PROVE  Lots(s) \in Nat \ {0}
<1>1. Risk(s) \in Int
  <2> DEFINE raw == (BaseRisk * Quarters * SegmentMultiplier(segments[s.head])) \div 20
  <2>1. Quarters \in Int
    <3>1. CurveMultiplier(curve) \in Int
      BY DEF CurveMultiplier
    <3>2. DriftMultiplier(window) \in Int
      BY DEF DriftMultiplier
    <3> QED
      BY <3>1, <3>2 DEF Quarters
  <2>2. SegmentMultiplier(segments[s.head]) \in Int
    BY DEF SegmentMultiplier
  <2>3. BaseRisk \in Int
    BY Numbers
  <2>4. BaseRisk * Quarters \in Int
    BY <2>1, <2>3
  <2>5. BaseRisk * Quarters * SegmentMultiplier(segments[s.head]) \in Int
    BY <2>2, <2>4
  <2>6. raw \in Int
    BY <2>5
  <2>7. Risk(s) = Clamped(IF IsEngine THEN raw ELSE BaseRisk)
    BY DEF Risk
  <2> HIDE DEF raw
  <2> QED
    BY <2>3, <2>6, <2>7 DEF Clamped
<1>2. s.pips \in Nat /\ s.pips >= 2 /\ CostPerStep \in Nat
  <2>1. s.pips \in Nat
    BY SignalIs
  <2>2. s.pips >= 2
    BY DEF Sized, CanSize
  <2>3. HalfSpread \in Nat /\ Commission \in Nat
    BY Numbers
  <2>4. CostPerStep \in Nat
    BY <2>3 DEF CostPerStep
  <2> QED
    BY <2>1, <2>2, <2>4
<1>3. RawLots(seen, Risk(s), s.pips, CostPerStep) \in Int
  <2>1. seen * Risk(s) \in Int
    BY <1>1
  <2>2. 200000 * (s.pips + CostPerStep) \in Nat \ {0}
    BY <1>2
  <2> DEFINE n == 200000 * (s.pips + CostPerStep)
             k == seen * Risk(s)
  <2>3. k \div n \in Int
    <3>1. k \in Int /\ n \in Nat \ {0}
      BY <2>1, <2>2
    <3> HIDE DEF k, n
    <3> QED
      BY <3>1
  <2> QED
    BY <2>3 DEF RawLots
<1>4. MaxLot \in Nat \ {0}
  BY Numbers
<1> QED
  BY <1>3, <1>4 DEF Lots, LotSize

\* A new position (engine.rs:796) has its stop behind its entry and owes its
\* entry commission.
LEMMA NewMetaIs ==
  ASSUME IsBroker(broker), broker.ask = broker.bid + 2 * HalfSpread, bar \in Nat,
         NEW s \in Signals, NEW lots \in Nat \ {0}
  PROVE  /\ NewMeta(s, lots) \in OpenTrades
         /\ LossSide(NewMeta(s, lots))
         /\ NewMeta(s, lots).lots = lots /\ NewMeta(s, lots).sl = StopOf(s)
         /\ Booking(NewMeta(s, lots)) = 0 - Commission * lots
         /\ StopOf(s) \in Int /\ TargetOf(s) \in Int
<1>1. s.head \in Heads /\ s.dir \in Dirs /\ s.pips \in Nat /\ s.rr \in Nat
  BY SignalIs
<1>2. HalfSpread \in Nat /\ Commission \in Nat /\ Slip \in Nat
      /\ broker.bid \in Int /\ broker.ask \in Int
  BY Numbers DEF IsBroker
<1>3. Mid \in Int /\ Mid = broker.bid + HalfSpread
  BY <1>2 DEF Mid
<1>4. StopOf(s) \in Int
  BY <1>1, <1>3 DEF StopOf
<1>5. TargetOf(s) \in Int
  <2>1. s.rr * s.pips \in Int
    BY <1>1
  <2> QED
    BY <1>3, <2>1 DEF TargetOf
<1>6. FillPrice(broker, s.dir) \in Int
  BY <1>2 DEF FillPrice
<1>7. Commission * lots \in Int
  BY <1>2
<1> DEFINE m == NewMeta(s, lots)
<1>8. m \in OpenTrades
  BY <1>1, <1>4, <1>6, <1>7 DEF NewMeta, OpenTrades
<1>9. IF s.dir = "Buy" THEN StopOf(s) <= FillPrice(broker, s.dir)
      ELSE StopOf(s) >= FillPrice(broker, s.dir)
  BY <1>1, <1>2, <1>3 DEF StopOf, FillPrice
<1>10. /\ m.lots = lots /\ m.sl = StopOf(s) /\ m.dir = s.dir
       /\ m.entry = FillPrice(broker, s.dir) /\ m.partial = FALSE
       /\ m.exitPnl = 0 /\ m.exitCommission = 0 /\ m.entryCommission = Commission * lots
  BY DEF NewMeta
<1> HIDE DEF m
<1>11. LossSide(m)
  BY <1>9, <1>10 DEF LossSide
<1>12. Booking(m) = 0 - Commission * lots
  BY <1>7, <1>10 DEF Booking
<1> QED
  BY <1>4, <1>5, <1>8, <1>10, <1>11, <1>12 DEF m

\* An order, filled and recorded.
LEMMA OrderedBooks ==
  ASSUME BooksInv, DOMAIN reports = {}, broker.ask = broker.bid + 2 * HalfSpread,
         bar \in Nat, NEW s \in Signals, NEW lots \in Nat \ {0},
         broker' = SendOrder(broker, s.dir, lots, StopOf(s), TargetOf(s)),
         meta' = [id \in DOMAIN meta \cup {broker.nextId} |->
                     IF id = broker.nextId THEN NewMeta(s, lots) ELSE meta[id]],
         UNCHANGED <<reports, trades>>
  PROVE  /\ BooksInv'
         /\ broker'.bid = broker.bid /\ broker'.ask = broker.ask
         /\ \A id \in Open(broker) : broker'.positions[id] = broker.positions[id]
<1> DEFINE new == broker.nextId
           m == NewMeta(s, lots)
<1>1. /\ IsBroker(broker) /\ IsFiniteSet(DOMAIN meta)
      /\ meta \in [DOMAIN meta -> OpenTrades] /\ DOMAIN meta = Open(broker)
      /\ new \in Nat \ {0} /\ DOMAIN meta \subseteq 1..(new - 1)
  BY MetaIsFinite DEF BooksInv, BooksTyped, BooksAgree, PositionsAreApart, IsBroker
<1>2. /\ m \in OpenTrades /\ LossSide(m) /\ m.lots = lots /\ m.sl = StopOf(s)
      /\ Booking(m) = 0 - Commission * lots
      /\ StopOf(s) \in Int /\ TargetOf(s) \in Int
  BY <1>1, NewMetaIs
<1>3. s.dir \in Dirs
  BY SignalIs
<1> HIDE DEF m
<1>4. /\ IsBroker(broker') /\ Open(broker') = Open(broker) \cup {new}
      /\ broker'.nextId = new + 1
      /\ broker'.bid = broker.bid /\ broker'.ask = broker.ask
      /\ broker'.balance = broker.balance - Commission * lots
      /\ broker'.positions[new].lots = lots /\ broker'.positions[new].sl = StopOf(s)
      /\ \A id \in Open(broker) : id # new /\ broker'.positions[id] = broker.positions[id]
  <2> DEFINE r == SendOrder(broker, s.dir, lots, StopOf(s), TargetOf(s))
  <2>1. Ordered(r, broker, lots, StopOf(s))
    BY <1>1, <1>2, <1>3, SendOrderIs, Zenon
  <2> HIDE DEF r
  <2>2. broker' = r
    BY DEF r
  <2> QED
    BY <2>1, <2>2 DEF Ordered
<1>5. /\ DOMAIN meta' = DOMAIN meta \cup {new} /\ new \notin DOMAIN meta
      /\ meta' \in [DOMAIN meta \cup {new} -> OpenTrades]
      /\ meta'[new] = m /\ \A id \in DOMAIN meta : meta'[id] = meta[id]
  BY <1>1, <1>2 DEF m
<1> HIDE DEF new
<1>6. BooksTyped'
  BY <1>4, <1>5 DEF BooksInv, BooksTyped
<1>7. PositionsAreApart'
  BY <1>1, <1>4, <1>5 DEF BooksInv, PositionsAreApart
<1>8. BooksAgree'
  BY <1>1, <1>2, <1>4, <1>5 DEF BooksInv, BooksAgree
<1>9. StopsStartBehind'
  BY <1>2, <1>5 DEF BooksInv, StopsStartBehind
<1>10. LedgerAgrees'
  <2>1. /\ broker.balance = StartBalance + Earned(trades) + Pending(meta) + Unbooked(reports)
        /\ Earned(trades) \in Int /\ Pending(meta) \in Int /\ Unbooked(reports) = 0
    BY LedgerSays
  <2>2. Pending(meta') = Pending(meta) + Booking(m)
    <3>1. Joins(meta', meta, new)
      <4> DEFINE D == DOMAIN meta \cup {new}
      <4>1. IsFiniteSet(D) /\ new \in D /\ D \ {new} = DOMAIN meta
        <5>1. IsFiniteSet(DOMAIN meta \cup {new})
          BY <1>1, FS_AddElement
        <5> QED
          BY <1>5, <5>1
      <4>2. meta' \in [D -> OpenTrades] /\ meta \in [D \ {new} -> OpenTrades]
            /\ \A j \in D \ {new} : meta[j] = meta'[j]
        BY <1>1, <1>5, <4>1
      <4> HIDE DEF D
      <4> QED
        BY <4>1, <4>2, PendingGrows, Zenon
    <3> QED
      BY <1>5, <3>1 DEF Joins
  <2>3. Commission * lots \in Int /\ StartBalance \in Int
    BY Numbers
  <2>4. broker'.balance
            = StartBalance + Earned(trades') + Pending(meta') + Unbooked(reports')
    <3>1. broker'.balance = broker.balance - Commission * lots
          /\ Booking(m) = 0 - Commission * lots
      BY <1>2, <1>4
    <3>2. Earned(trades') = Earned(trades) /\ Unbooked(reports') = 0
      BY <2>1
    <3> DEFINE cost == Commission * lots
    <3>3. cost \in Int /\ broker'.balance = broker.balance - cost /\ Booking(m) = 0 - cost
      BY <2>3, <3>1
    <3> HIDE DEF cost
    <3> QED
      BY <2>1, <2>2, <2>3, <3>2, <3>3
  <2> QED
    BY <2>4 DEF LedgerAgrees, Earned, Pending, Unbooked
<1> QED
  BY <1>4, <1>6, <1>7, <1>8, <1>9, <1>10 DEF BooksInv

-----------------------------------------------------------------------------
(* The steps of the drivers.                                               *)

Tightens ==
    \A id \in Open(broker) \cap Open(broker)' :
        LET before == broker.positions[id].sl
            after  == broker'.positions[id].sl
        IN  IF meta[id].dir = "Buy" THEN after >= before ELSE after <= before

StaysShut ==
    IsEngine /\ (killed \/ RedDays(tracker.history)) => broker'.nextId = broker.nextId

\* What every step keeps.
StepKeeps == BacktestInv' /\ Tightens /\ StaysShut

\* Every position that stays open stays as it is.
SamePositions ==
    \A id \in Open(broker) \cap Open(broker') : broker'.positions[id] = broker.positions[id]

\* Positions left alone have their stops left alone.
LEMMA SameStops ==
  ASSUME BooksInv, SamePositions
  PROVE  Tightens
<1> SUFFICES ASSUME NEW id \in Open(broker) \cap Open(broker')
             PROVE  LET before == broker.positions[id].sl
                        after  == broker'.positions[id].sl
                    IN  IF meta[id].dir = "Buy" THEN after >= before ELSE after <= before
  BY DEF Tightens
<1>1. broker.positions[id] \in Position
  BY DEF BooksInv, BooksTyped, IsBroker
<1>2. broker.positions[id].sl \in Int /\ broker'.positions[id].sl = broker.positions[id].sl
  BY <1>1 DEF SamePositions, Position
<1> QED
  BY <1>2

\* Nothing at all happens to the books.
LEMMA BooksAlone ==
  ASSUME BooksInv, UNCHANGED <<broker, meta, reports, trades>>
  PROVE  BooksInv' /\ Tightens /\ StaysShut
<1>1. SamePositions
  BY DEF SamePositions
<1> QED
  BY <1>1, SameBooks, SameStops DEF StaysShut

\* The positions and the prices are left alone, and so is what a day is told.
LEMMA RunFollows ==
  ASSUME RunInv, BooksInv',
         UNCHANGED <<mode, bar, atr, tracker, dayOpen>>,
         pc' \in Phases, seen' \in Int, orders' \in Seq(Signals),
         broker'.bid = broker.bid, broker'.ask = broker.ask,
         pc' \in {"manage", "closes", "closing"} => todo' \subseteq Open(broker'),
         pc' # "book" => DOMAIN reports' = {},
         pc = "bar" => bar # 0 \/ pc' = "bar",
         IsEngine /\ pc' \in {"closes", "orders"} => ~killed' /\ ~IsPaused(tracker)
  PROVE  RunInv'
<1>1. RunTyped'
  BY DEF RunInv, RunTyped
<1>2. LoopsAreOpen'
  BY DEF LoopsAreOpen
<1>3. Quoted'
  BY DEF RunInv, Quoted
<1>4. StreakIsLong'
  BY DEF RunInv, StreakIsLong
<1>5. GatePassed'
  BY DEF GatePassed, IsEngine
<1> QED
  BY <1>1, <1>2, <1>3, <1>4, <1>5 DEF RunInv

\* A run starts with nothing open and nothing paid.
LEMMA StartOfRun == Init => BacktestInv
<1> SUFFICES ASSUME Init PROVE BacktestInv
  OBVIOUS
<1>1. /\ mode \in Modes /\ pc = "bar" /\ bar = 0 /\ atr = 0
      /\ broker = NewBroker /\ meta = <<>> /\ reports = <<>> /\ todo = {} /\ orders = <<>>
      /\ seen = StartBalance /\ dayOpen = StartBalance
      /\ killed = FALSE /\ tracker = NewTracker /\ trades = <<>>
  BY DEF Init
<1>2. DOMAIN meta = {} /\ DOMAIN reports = {} /\ DOMAIN trades = {} /\ IsFiniteSet({})
  BY <1>1, FS_EmptySet
<1>3. broker = [positions |-> <<>>, nextId |-> 1, bid |-> 0, ask |-> 0,
                balance |-> StartBalance, equity |-> StartBalance]
  BY <1>1 DEF NewBroker
<1>4. Open(broker) = {} /\ broker.nextId = 1 /\ broker.balance = StartBalance
      /\ broker.positions = <<>>
  BY <1>3 DEF Open
<1>5. StartBalance \in Int
  BY Numbers
<1>6. BooksTyped
  <2>1. IsBroker(broker)
    BY <1>3, <1>4, <1>5 DEF IsBroker
  <2>2. meta \in [DOMAIN meta -> OpenTrades] /\ reports \in [DOMAIN reports -> FillReports]
        /\ trades \in Seq(Outcomes)
    BY <1>1
  <2> QED
    BY <2>1, <2>2 DEF BooksTyped
<1>7. PositionsAreApart /\ BooksAgree /\ StopsStartBehind
  BY <1>2, <1>4 DEF PositionsAreApart, BooksAgree, StopsStartBehind
<1>8. LedgerAgrees
  <2>1. Earned(trades) = 0
    <3> DEFINE f == [i \in DOMAIN trades |-> trades[i].pnl]
    <3>1. f \in [{} -> Int]
      BY <1>2
    <3>2. Earned(trades) = SumFunction(f)
      BY DEF Earned
    <3> HIDE DEF f
    <3> QED
      BY <1>2, <3>1, <3>2, SumIsInteger
  <2>2. Pending(meta) = 0
    <3> DEFINE f == [i \in DOMAIN meta |-> Booking(meta[i])]
    <3>1. f \in [{} -> Int]
      BY <1>2
    <3>2. Pending(meta) = SumFunction(f)
      BY DEF Pending
    <3> HIDE DEF f
    <3> QED
      BY <1>2, <3>1, <3>2, SumIsInteger
  <2>3. Unbooked(reports) = 0
    <3>1. reports \in [{} -> FillReports]
      BY <1>1, <1>2
    <3> QED
      BY <1>2, <3>1, UnbookedShrinks
  <2> QED
    BY <1>4, <1>5, <2>1, <2>2, <2>3, LedgerIs
<1>9. RunTyped
  <2>1. tracker \in [history : Seq(Int), streak : Nat]
    BY <1>1 DEF NewTracker
  <2>2. mode \in {"engine", "replay"}
    BY <1>1, BacktestConstants
  <2> QED
    BY <1>1, <1>5, <2>1, <2>2 DEF RunTyped, Phases
<1>10. LoopsAreOpen /\ Quoted /\ GatePassed
  BY <1>1, <1>2 DEF LoopsAreOpen, Quoted, GatePassed
<1>11. StreakIsLong
  BY <1>1 DEF StreakIsLong, LongStreak, NewTracker
<1> QED
  BY <1>6, <1>7, <1>8, <1>9, <1>10, <1>11 DEF BacktestInv, BooksInv, RunInv

\* The next bar (engine.rs:384), with the day it may close.
LEMMA NextBarKeeps ==
  ASSUME BacktestInv, NEW move \in Moves, NEW range \in Atrs, NextBar(move, range)
  PROVE  StepKeeps
<1>1. BooksInv /\ RunInv /\ IsBroker(broker)
  BY DEF BacktestInv, BooksInv, BooksTyped
<1> DEFINE mid == move + (IF bar = 0 THEN 0 ELSE broker.bid + HalfSpread)
<1>2. /\ pc = "bar" /\ bar' = bar + 1 /\ atr' = range /\ pc' = "fills"
      /\ broker' = SetPrice(broker, mid)
      /\ seen' = IF IsEngine THEN broker.equity ELSE seen
      /\ RollDay
      /\ UNCHANGED <<mode, meta, reports, todo, orders, losses, killed, learned, trades>>
  BY DEF NextBar
<1>3. mid \in Int
  <2>1. move \in Int /\ HalfSpread \in Int /\ broker.bid \in Int
    BY <1>1, Numbers DEF IsBroker
  <2> QED
    BY <2>1
<1> HIDE DEF mid
<1>4. BooksInv' /\ Open(broker') = Open(broker) /\ broker'.positions = broker.positions
      /\ broker'.nextId = broker.nextId /\ broker'.ask = broker'.bid + 2 * HalfSpread
  BY <1>1, <1>2, <1>3, PricedBooks
<1>5. SamePositions
  BY <1>4 DEF SamePositions
<1>6. /\ tracker' \in [history : Seq(Int), streak : Nat] /\ dayOpen' \in Int
      /\ LongStreak(tracker'.history, tracker'.streak)
  <2>1. /\ tracker \in [history : Seq(Int), streak : Nat] /\ dayOpen \in Int
        /\ LongStreak(tracker.history, tracker.streak) /\ broker.equity \in Int
    BY <1>1 DEF RunInv, RunTyped, StreakIsLong, IsBroker
  <2>2. /\ RecordDay(tracker, broker.equity - dayOpen) \in [history : Seq(Int), streak : Nat]
        /\ LongStreak(RecordDay(tracker, broker.equity - dayOpen).history,
                      RecordDay(tracker, broker.equity - dayOpen).streak)
    <3>1. broker.equity - dayOpen \in Int
      BY <2>1
    <3> QED
      BY <2>1, <3>1, RecordDayIs
  <2> QED
    BY <1>2, <2>1, <2>2 DEF RollDay
<1>7. RunInv'
  <2>1. RunTyped'
    <3>1. atr' \in Nat
      BY <1>2, Numbers
    <3>2. seen' \in Int
      BY <1>1, <1>2 DEF RunInv, RunTyped, IsBroker
    <3> QED
      BY <1>1, <1>2, <1>6, <3>1, <3>2 DEF RunInv, RunTyped, Phases
  <2>2. LoopsAreOpen'
    BY <1>1, <1>2 DEF RunInv, LoopsAreOpen
  <2>3. Quoted' /\ GatePassed' /\ StreakIsLong'
    BY <1>2, <1>4, <1>6 DEF Quoted, GatePassed, StreakIsLong
  <2> QED
    BY <2>1, <2>2, <2>3 DEF RunInv
<1> QED
  BY <1>1, <1>4, <1>5, <1>7, SameStops DEF StepKeeps, BacktestInv, StaysShut

\* Stops and targets are filled at the bar (engine.rs:431).
LEMMA FillsKeep ==
  ASSUME BacktestInv, Fills PROVE StepKeeps
<1>1. BooksInv /\ RunInv /\ DOMAIN reports = {} /\ IsBroker(broker)
  BY DEF BacktestInv, RunInv, LoopsAreOpen, Fills, BooksInv, BooksTyped
<1>2. /\ pc = "fills" /\ pc' = "book"
      /\ reports' = [id \in Due(broker) |-> DueReport(broker, id)]
      /\ broker' = CheckSlTp(broker)
      /\ UNCHANGED <<mode, bar, atr, meta, todo, orders, seen, killed, dayOpen, tracker, trades>>
  BY DEF Fills
<1>3. BooksInv' /\ broker'.positions = Without(broker.positions, Due(broker))
      /\ broker'.nextId = broker.nextId /\ broker'.bid = broker.bid /\ broker'.ask = broker.ask
  BY <1>1, <1>2, FilledBooks
<1>4. SamePositions
  BY <1>3 DEF SamePositions, Open, Without
<1>5. RunInv'
  <2>1. pc' \in Phases /\ seen' \in Int /\ orders' \in Seq(Signals)
    BY <1>1, <1>2 DEF RunInv, RunTyped, Phases
  <2> QED
    BY <1>1, <1>2, <1>3, <2>1, RunFollows
<1> QED
  BY <1>1, <1>3, <1>4, <1>5, SameStops DEF StepKeeps, BacktestInv, StaysShut

\* Booking says what the log and the view of the equity become.
LEMMA FinalizeIs ==
  ASSUME NEW m, NEW report, NEW equity \in Int, seen \in Int, Finalize(m, report, equity)
  PROVE  trades' = Append(trades, Logged(m, report)) /\ seen' \in Int
<1>1. LogTrade(m, report) /\ (seen' = equity \/ seen' = seen)
  BY DEF Finalize, FinalizeEngine, FinalizeReplay
<1> QED
  BY <1>1 DEF LogTrade, Logged

\* One fill is booked (engine.rs:433).
LEMMA BookKeeps ==
  ASSUME BacktestInv, NEW id \in DOMAIN reports, Book(id) PROVE StepKeeps
<1>1. BooksInv /\ RunInv /\ seen \in Int /\ broker.equity \in Int
  BY DEF BacktestInv, RunInv, RunTyped, BooksInv, BooksTyped, IsBroker
<1>2. /\ pc = "book" /\ pc' = "book"
      /\ reports' = Without(reports, {id}) /\ meta' = Without(meta, {id})
      /\ Finalize(meta[id], reports[id], broker.equity)
      /\ UNCHANGED <<mode, bar, atr, broker, todo, orders, killed, dayOpen, tracker>>
  BY DEF Book
<1>3. trades' = Append(trades, Logged(meta[id], reports[id])) /\ seen' \in Int
  BY <1>1, <1>2, FinalizeIs
<1>4. BooksInv'
  BY <1>1, <1>2, <1>3, BookedBooks
<1>5. SamePositions
  BY <1>2 DEF SamePositions
<1>6. RunInv'
  <2>1. pc' \in Phases /\ orders' \in Seq(Signals)
    BY <1>1, <1>2 DEF RunInv, RunTyped, Phases
  <2> QED
    BY <1>1, <1>2, <1>3, <1>4, <2>1, RunFollows
<1> QED
  BY <1>1, <1>2, <1>4, <1>5, <1>6, SameStops DEF StepKeeps, BacktestInv, StaysShut

\* A step that only moves on.
LEMMA MovesOn ==
  ASSUME BacktestInv,
         UNCHANGED <<mode, bar, atr, broker, meta, reports, tracker, dayOpen, trades>>,
         pc' \in Phases, seen' \in Int, orders' \in Seq(Signals),
         pc' \in {"manage", "closes", "closing"} => todo' \subseteq Open(broker),
         pc' # "book" => DOMAIN reports = {},
         pc = "bar" => bar # 0 \/ pc' = "bar",
         IsEngine /\ pc' \in {"closes", "orders"} => ~killed' /\ ~IsPaused(tracker)
  PROVE  StepKeeps
<1>1. BooksInv /\ RunInv
  BY DEF BacktestInv
<1>2. BooksInv' /\ Tightens /\ StaysShut
  BY <1>1, BooksAlone
<1>3. RunInv'
  BY <1>1, <1>2, RunFollows
<1> QED
  BY <1>2, <1>3 DEF StepKeeps, BacktestInv

\* What the invariant says at each phase.
LEMMA RunIs ==
  ASSUME BacktestInv
  PROVE  /\ seen \in Int /\ orders \in Seq(Signals) /\ pc \in Phases /\ bar \in Nat
         /\ pc # "book" => DOMAIN reports = {} /\ DOMAIN meta = Open(broker)
         /\ DOMAIN meta = Open(broker) \cup DOMAIN reports
         /\ pc \in {"manage", "closes", "closing"} => todo \subseteq Open(broker)
         /\ IsEngine /\ pc \in {"closes", "orders"} => ~killed /\ ~IsPaused(tracker)
         /\ pc # "bar" => broker.ask = broker.bid + 2 * HalfSpread
BY DEF BacktestInv, RunInv, RunTyped, LoopsAreOpen, GatePassed, Quoted, BooksInv, BooksAgree

\* The fills are booked.
LEMMA AllBookedKeeps ==
  ASSUME BacktestInv, Booked PROVE StepKeeps
<1>1. /\ pc = "book" /\ reports = <<>>
      /\ \/ pc' = "manage" /\ todo' = DOMAIN meta
         \/ pc' = "gates" /\ UNCHANGED todo
      /\ UNCHANGED <<mode, bar, atr, broker, meta, reports, orders, seen, killed, dayOpen,
                     tracker, trades>>
  BY DEF Booked
<1>2. DOMAIN reports = {}
  BY <1>1
<1>3. pc' \in {"manage", "closes", "closing"} => todo' \subseteq Open(broker)
  BY <1>1, <1>2, RunIs
<1>4. pc' \in Phases /\ pc' # "bar" /\ pc # "bar" /\ pc' \notin {"closes", "orders"}
  BY <1>1 DEF Phases
<1> QED
  BY <1>1, <1>2, <1>3, <1>4, RunIs, MovesOn

\* The positions are managed.
LEMMA ManagedKeeps ==
  ASSUME BacktestInv, Managed PROVE StepKeeps
<1>1. /\ pc = "manage" /\ pc' = "gates" /\ pc' \in Phases
      /\ UNCHANGED <<mode, bar, atr, broker, meta, reports, todo, orders, seen, killed, dayOpen,
                     tracker, trades>>
  BY DEF Managed, Phases
<1> QED
  BY <1>1, RunIs, MovesOn

\* The gates that trip the kill switch or end the bar (engine.rs:477).
LEMMA TripKeeps ==
  ASSUME BacktestInv, Trip \/ Blocked PROVE StepKeeps
<1>1. /\ pc = "gates" /\ pc' = "bar" /\ pc' \in Phases
      /\ UNCHANGED <<mode, bar, atr, broker, meta, reports, todo, orders, seen, dayOpen,
                     tracker, trades>>
  BY DEF Trip, Blocked, Phases
<1> QED
  BY <1>1, RunIs, MovesOn

\* The lists of signals at hand.
LEMMA ListsAreSequences ==
  ASSUME NEW signals \in SignalLists
  PROVE  signals \in Seq(Signals)
<1>1. PICK n \in 0..MaxSignals : signals \in [1..n -> Signals]
  BY DEF SignalLists
<1>2. MaxSignals \in Nat
  BY BacktestConstants
<1>3. n \in Nat
  BY <1>2
<1> QED
  BY <1>1, <1>3

\* The heads are evaluated behind the gates (engine.rs:567).
LEMMA EvaluateKeeps ==
  ASSUME BacktestInv, NEW signals \in SignalLists,
         (\E closers \in SUBSET Heads : EvaluateEngine(closers, signals))
             \/ EvaluateReplay(signals)
  PROVE  StepKeeps
<1>1. signals \in Seq(Signals)
  BY ListsAreSequences
<1>2. CASE \E closers \in SUBSET Heads : EvaluateEngine(closers, signals)
  <2>1. PICK closers \in SUBSET Heads : EvaluateEngine(closers, signals)
    BY <1>2
  <2>2. /\ pc = "gates" /\ pc' = "closes" /\ pc' \in Phases
        /\ ~killed /\ ~IsPaused(tracker) /\ killed' = killed
        /\ todo' = {id \in DOMAIN meta : meta[id].head \in closers} /\ orders' = signals
        /\ UNCHANGED <<mode, bar, atr, broker, meta, reports, seen, dayOpen, tracker, trades>>
    BY <2>1 DEF EvaluateEngine, EngineMayEnter, Phases
  <2>3. todo' \subseteq Open(broker)
    BY <2>2, RunIs
  <2> QED
    BY <1>1, <2>2, <2>3, RunIs, MovesOn
<1>3. CASE EvaluateReplay(signals)
  <2>1. /\ pc = "gates" /\ pc' = "orders" /\ pc' \in Phases /\ ~IsEngine
        /\ orders' = signals /\ seen' = broker.equity
        /\ UNCHANGED <<mode, bar, atr, broker, meta, reports, dayOpen, tracker, trades>>
    BY <1>3 DEF EvaluateReplay, Phases
  <2>2. broker.equity \in Int
    BY DEF BacktestInv, BooksInv, BooksTyped, IsBroker
  <2> QED
    BY <1>1, <2>1, <2>2, RunIs, MovesOn
<1> QED
  BY <1>2, <1>3

\* Filters drop signals and keep the order of the rest (engine.rs:628).
LEMMA FilterKeeps ==
  ASSUME BacktestInv, NEW weak, Filter(weak) PROVE StepKeeps
<1> DEFINE passed == {i \in DOMAIN orders : PassesFilter(orders[i]) /\ orders[i] \notin weak}
           number == Cardinality(passed)
           kept == IF number < Slots THEN number ELSE Slots
<1>1. /\ pc = "closes" /\ pc' = "orders" /\ pc' \in Phases
      /\ UNCHANGED <<mode, bar, atr, broker, meta, reports, todo, seen, killed, dayOpen,
                     tracker, trades>>
  BY DEF Filter, Phases
<1>2. PICK nth \in [1..number -> passed] : orders' = [k \in 1..kept |-> orders[nth[k]]]
  BY DEF Filter
<1>3. orders \in Seq(Signals)
  BY RunIs
<1>4. number \in Nat
  <2>1. IsFiniteSet(DOMAIN orders)
    <3>1. DOMAIN orders = 1..Len(orders) /\ Len(orders) \in Int
      BY <1>3
    <3> QED
      BY <3>1, FS_Interval
  <2>2. IsFiniteSet(passed)
    BY <2>1, FS_Subset
  <2> HIDE DEF passed
  <2> QED
    BY <2>2, FS_CardinalityType
<1>5. Slots \in Nat
  <2>1. Cardinality(Open(broker)) \in Nat /\ MaxPositions \in Nat
    <3>1. MaxPositions \in Nat
      BY BacktestConstants
    <3>2. BooksInv
      BY DEF BacktestInv
    <3> QED
      BY <3>1, <3>2, MetaIsFinite, FS_CardinalityType
  <2> QED
    BY <2>1 DEF Slots
<1>6. kept \in Nat /\ kept <= number
  BY <1>4, <1>5
<1>7. \A k \in 1..kept : orders[nth[k]] \in Signals
  <2> SUFFICES ASSUME NEW k \in 1..kept PROVE orders[nth[k]] \in Signals
    OBVIOUS
  <2>1. k \in 1..number
    <3> HIDE DEF number, kept
    <3> QED
      BY <1>4, <1>6
  <2>2. nth[k] \in DOMAIN orders
    BY <2>1
  <2> QED
    BY <1>3, <2>2
<1>8. orders' \in Seq(Signals)
  <2> HIDE DEF kept, passed, number
  <2> QED
    BY <1>2, <1>6, <1>7
<1> HIDE DEF passed, number, kept
<1> QED
  BY <1>1, <1>8, RunIs, MovesOn

\* A position closed whole, inside one of the loops.
LEMMA CloseKeeps ==
  ASSUME BacktestInv, pc \in {"manage", "closes", "closing"}, NEW id \in todo,
         NEW m \in OpenTrades, Booking(m) = Booking(meta[id]),
         todo' = todo \ {id}, Closes(id, m), seen' \in Int,
         UNCHANGED <<mode, pc, bar, atr, orders, killed, dayOpen, tracker>>
  PROVE  StepKeeps
<1>1. BooksInv /\ RunInv /\ DOMAIN reports = {} /\ id \in Open(broker) /\ pc # "bar"
      /\ pc # "book" /\ todo \subseteq Open(broker)
  BY RunIs DEF BacktestInv
<1>2. /\ BooksInv' /\ Open(broker') = Open(broker) \ {id}
      /\ broker'.nextId = broker.nextId
      /\ broker'.bid = broker.bid /\ broker'.ask = broker.ask
      /\ \A j \in Open(broker') : broker'.positions[j] = broker.positions[j]
  BY <1>1, ClosedBooks
<1>3. SamePositions
  BY <1>2 DEF SamePositions
<1>4. RunInv'
  <2>1. pc' \in Phases /\ orders' \in Seq(Signals)
    BY RunIs
  <2>2. todo' \subseteq Open(broker')
    BY <1>1, <1>2
  <2>3. DOMAIN reports' = {}
    BY <1>1 DEF Closes
  <2>4. IsEngine /\ pc' \in {"closes", "orders"} => ~killed' /\ ~IsPaused(tracker)
    BY RunIs
  <2> QED
    BY <1>1, <1>2, <2>1, <2>2, <2>3, <2>4, RunFollows
<1> QED
  BY <1>1, <1>2, <1>3, <1>4, SameStops DEF StepKeeps, BacktestInv, StaysShut

\* The record of an open position, beside the position.
LEMMA RecordsAre ==
  ASSUME BacktestInv, NEW id \in Open(broker), pc # "book"
  PROVE  /\ meta[id] \in OpenTrades /\ LossSide(meta[id]) /\ id \in DOMAIN meta
         /\ broker.positions[id].sl = meta[id].sl
         /\ broker.positions[id].lots = meta[id].lots
         /\ broker.positions[id] \in Position /\ IsBroker(broker)
<1>1. DOMAIN meta = Open(broker)
  BY RunIs
<1> QED
  BY <1>1 DEF BacktestInv, BooksInv, BooksTyped, BooksAgree, StopsStartBehind, IsBroker

\* What is left of the equity after a close is a number.
LEMMA EquityIs ==
  ASSUME BacktestInv, pc # "book", NEW id \in Open(broker),
         broker' = ClosePosition(broker, id, broker.positions[id].lots)
  PROVE  broker'.equity \in Int
<1>1. IsBroker(broker) /\ broker.positions[id].lots \in Nat \ {0}
      /\ broker.positions[id].lots <= broker.positions[id].lots
  BY RecordsAre DEF Position
<1>2. IsBroker(broker')
  <2> DEFINE r == ClosePosition(broker, id, broker.positions[id].lots)
  <2>1. IsBroker(r)
    BY <1>1, ClosePositionIs
  <2> QED
    BY <2>1
<1> QED
  BY <1>2 DEF IsBroker

\* A head asks for its position to be closed (engine.rs:576).
LEMMA HeadCloseKeeps ==
  ASSUME BacktestInv, NEW id \in todo, HeadClose(id) PROVE StepKeeps
<1> DEFINE lots == broker.positions[id].lots
<1>1. /\ pc = "closes" /\ todo' = todo \ {id}
      /\ broker' = ClosePosition(broker, id, lots) /\ meta' = Without(meta, {id})
      /\ Finalize(meta[id], CloseReport(broker, id, lots), broker'.equity)
      /\ UNCHANGED <<mode, pc, bar, atr, reports, orders, killed, dayOpen, tracker>>
  BY DEF HeadClose
<1>2. id \in Open(broker) /\ seen \in Int
  BY <1>1, RunIs
<1>3. meta[id] \in OpenTrades
  BY <1>1, <1>2, RecordsAre
<1>4. broker'.equity \in Int
  BY <1>1, <1>2, EquityIs
<1>5. trades' = Append(trades, Logged(meta[id], CloseReport(broker, id, lots)))
      /\ seen' \in Int
  BY <1>1, <1>2, <1>4, FinalizeIs
<1>6. Closes(id, meta[id])
  BY <1>1, <1>5 DEF Closes
<1> QED
  BY <1>1, <1>3, <1>5, <1>6, CloseKeeps

\* What is open at the end is closed (engine.rs:835).
LEMMA CloseRemainingKeeps ==
  ASSUME BacktestInv, NEW id \in todo, CloseRemaining(id) PROVE StepKeeps
<1> DEFINE lots == broker.positions[id].lots
           report == CloseReport(broker, id, lots)
<1>1. /\ pc = "closing" /\ todo' = todo \ {id}
      /\ broker' = ClosePosition(broker, id, lots) /\ meta' = Without(meta, {id})
      /\ \/ Finalize(meta[id], report, broker'.equity)
         \/ FinalizeAtEnd(meta[id], report)
      /\ UNCHANGED <<mode, pc, bar, atr, reports, orders, killed, dayOpen, tracker>>
  BY DEF CloseRemaining
<1>2. id \in Open(broker) /\ seen \in Int
  BY <1>1, RunIs
<1>3. meta[id] \in OpenTrades
  BY <1>1, <1>2, RecordsAre
<1>4. broker'.equity \in Int
  BY <1>1, <1>2, EquityIs
<1>5. trades' = Append(trades, Logged(meta[id], report)) /\ seen' \in Int
  <2>1. CASE Finalize(meta[id], report, broker'.equity)
    BY <1>2, <1>4, <2>1, FinalizeIs
  <2>2. CASE FinalizeAtEnd(meta[id], report)
    BY <1>2, <2>2 DEF FinalizeAtEnd, LogTrade, Logged
  <2> QED
    BY <1>1, <2>1, <2>2
<1>6. Closes(id, meta[id])
  BY <1>1, <1>5 DEF Closes
<1> QED
  BY <1>1, <1>3, <1>5, <1>6, CloseKeeps

\* The manager closes a position or moves it (engine.rs:876).
LEMMA ManageKeeps ==
  ASSUME BacktestInv, NEW id \in todo, Manage(id) PROVE StepKeeps
<1> DEFINE m      == meta[id]
           pos    == Snapshot(m)
           asked  == ManagePosition(pos, bar, atr)
           synced == Synced(m, asked.pos)
           stop   == TrailStop(pos, atr)
           done   == Applied(Copy(broker, synced, seen), asked, stop, id)
           lots   == broker.positions[id].lots
           report == CloseReport(broker, id, lots)
<1>1. /\ pc = "manage" /\ todo' = todo \ {id}
      /\ IF asked.closeAll
         THEN /\ broker' = ClosePosition(broker, id, lots)
              /\ meta' = Without(meta, {id})
              /\ Finalize(synced, report, broker'.equity)
         ELSE /\ broker' = done.b
              /\ meta' = [meta EXCEPT ![id] = done.m]
              /\ seen' = done.equity
              /\ UNCHANGED <<losses, learned, trades>>
      /\ UNCHANGED <<mode, pc, bar, atr, reports, orders, killed, dayOpen, tracker>>
  BY DEF Manage, Copy
<1>2. id \in Open(broker) /\ seen \in Int /\ todo \subseteq Open(broker) /\ DOMAIN reports = {}
      /\ bar \in Nat
  BY <1>1, RunIs
<1>3. /\ m \in OpenTrades /\ LossSide(m) /\ id \in DOMAIN meta /\ IsBroker(broker)
      /\ broker.positions[id].sl = m.sl /\ broker.positions[id].lots = m.lots
  BY <1>1, <1>2, RecordsAre
<1>4. pos \in Views /\ pos.dir = m.dir /\ pos.sl = m.sl /\ pos.partial = m.partial
      /\ pos.breakeven = m.breakeven
  <2>1. ExitSide(broker, m) \in Int
    BY <1>3 DEF ExitSide, IsBroker
  <2> HIDE DEF m
  <2> QED
    BY <1>3, <2>1 DEF Snapshot, Views, OpenTrades
<1>5. stop \in Int
  <2>1. atr \in Int /\ TrailMult \in Int
    BY Numbers DEF BacktestInv, RunInv, RunTyped
  <2>2. TrailMult * atr \in Int
    BY <2>1
  <2> HIDE DEF pos
  <2> QED
    BY <1>4, <2>2 DEF TrailStop, Views
<1>6. Sane(asked, pos, stop)
  <2> HIDE DEF pos
  <2> QED
    BY <1>4, ManageIsSane
<1> HIDE DEF asked, stop
<1>7. /\ synced \in OpenTrades /\ synced.dir = m.dir /\ synced.entry = m.entry
      /\ synced.sl = m.sl /\ synced.lots = m.lots
      /\ synced.partial = asked.pos.partial /\ synced.breakeven = asked.pos.breakeven
      /\ Booking(synced) = Booking(m)
  <2>1. /\ asked.pos.mfe \in Int /\ asked.pos.partial \in BOOLEAN
        /\ asked.pos.breakeven \in BOOLEAN /\ asked.pos.trailing \in BOOLEAN
    BY <1>6 DEF Sane
  <2> HIDE DEF m
  <2>2. DOMAIN m = {"head", "dir", "entry", "initialSl", "sl", "lots", "initialLots",
                    "entryCommission", "exitPnl", "exitCommission", "opened", "mfe",
                    "partial", "breakeven", "trailing"}
    BY <1>3 DEF OpenTrades
  <2> QED
    BY <1>3, <2>1, <2>2 DEF Synced, OpenTrades, Booking
<1> HIDE DEF synced, pos, report, done
<1>8. CASE asked.closeAll
  <2>1. /\ broker' = ClosePosition(broker, id, lots) /\ meta' = Without(meta, {id})
        /\ Finalize(synced, report, broker'.equity)
    BY <1>1, <1>8
  <2>2. broker'.equity \in Int
    BY <1>1, <1>2, <2>1, EquityIs
  <2>3. trades' = Append(trades, Logged(synced, report)) /\ seen' \in Int
    BY <1>2, <2>1, <2>2, FinalizeIs
  <2>4. Closes(id, synced)
    BY <1>1, <2>1, <2>3 DEF Closes, report
  <2> QED
    BY <1>1, <1>7, <2>3, <2>4, CloseKeeps
<1>9. CASE ~asked.closeAll
  <2> DEFINE sl == StopAfter(asked, stop, synced)
  <2>1. Tightened(m, sl) /\ Behind(synced, sl)
    BY <1>3, <1>4, <1>5, <1>6, <1>7, StopIsTighter
  <2>2. FitsAt(done, id, broker, synced, sl)
    <3>1. Fits(Copy(broker, synced, seen), id, broker, synced)
      BY <1>2, <1>3, <1>7 DEF Fits, Copy
    <3> QED
      BY <1>2, <1>5, <3>1, AppliedFits DEF done
  <2> HIDE DEF sl
  <2>3. BooksInv /\ RunInv
    BY DEF BacktestInv
  <2>4. /\ broker' = done.b /\ meta' = [meta EXCEPT ![id] = done.m] /\ seen' = done.equity
        /\ UNCHANGED <<reports, trades>>
    BY <1>1, <1>9
  <2>5. /\ BooksInv' /\ Open(broker') = Open(broker) /\ broker'.nextId = broker.nextId
        /\ broker'.bid = broker.bid /\ broker'.ask = broker.ask
        /\ done.equity \in Int
        /\ broker'.positions[id].sl = sl
        /\ \A j \in Open(broker) \ {id} : broker'.positions[j] = broker.positions[j]
    BY <1>2, <1>7, <2>1, <2>2, <2>3, <2>4, ManagedBooks
  <2>6. Tightens
    <3> SUFFICES ASSUME NEW j \in Open(broker)
                 PROVE  IF meta[j].dir = "Buy"
                        THEN broker'.positions[j].sl >= broker.positions[j].sl
                        ELSE broker'.positions[j].sl <= broker.positions[j].sl
      BY DEF Tightens
    <3>1. CASE j = id
      BY <1>3, <2>1, <2>5, <3>1 DEF Tightened
    <3>2. CASE j # id
      <4>1. broker.positions[j].sl \in Int
        BY <1>1, RecordsAre DEF Position
      <4> QED
        BY <2>5, <3>2, <4>1
    <3> QED
      BY <3>1, <3>2
  <2>7. RunInv'
    <3>1. pc' \in Phases /\ orders' \in Seq(Signals)
      BY <1>1, RunIs
    <3>2. todo' \subseteq Open(broker')
      BY <1>1, <1>2, <2>5
    <3>3. DOMAIN reports' = {} /\ seen' \in Int
      BY <1>2, <2>4, <2>5
    <3> QED
      BY <1>1, <2>3, <2>5, <3>1, <3>2, <3>3, RunFollows
  <2> QED
    BY <2>5, <2>6, <2>7 DEF StepKeeps, BacktestInv, StaysShut
<1> QED
  BY <1>8, <1>9

\* An order is sent (engine.rs:760); the engine sends none behind a gate.
LEMMA OrderKeeps ==
  ASSUME BacktestInv, Order PROVE StepKeeps
<1> DEFINE s == Head(orders)
<1>1. /\ pc = "orders" /\ orders # <<>> /\ Acceptable(s)
      /\ orders' = Tail(orders)
      /\ broker' = SendOrder(broker, s.dir, Lots(s), StopOf(s), TargetOf(s))
      /\ meta' = [id \in DOMAIN meta \cup {broker.nextId} |->
                      IF id = broker.nextId THEN NewMeta(s, Lots(s)) ELSE meta[id]]
      /\ UNCHANGED <<mode, pc, bar, atr, reports, todo, seen, killed, dayOpen, tracker, trades>>
  BY DEF Order
<1>2. /\ BooksInv /\ RunInv /\ seen \in Int /\ DOMAIN reports = {} /\ bar \in Nat
      /\ broker.ask = broker.bid + 2 * HalfSpread /\ orders \in Seq(Signals)
      /\ pc \in Phases
  BY <1>1, RunIs DEF BacktestInv
<1>3. s \in Signals /\ orders' \in Seq(Signals)
  BY <1>1, <1>2
<1>4. Sized(s)
  BY <1>1 DEF Acceptable, AcceptableToEngine, AcceptableToReplay
<1>5. Lots(s) \in Nat \ {0}
  BY <1>2, <1>3, <1>4, LotsAre
<1> HIDE DEF s
<1>6. /\ BooksInv' /\ broker'.bid = broker.bid /\ broker'.ask = broker.ask
      /\ \A id \in Open(broker) : broker'.positions[id] = broker.positions[id]
  BY <1>1, <1>2, <1>3, <1>5, OrderedBooks
<1>7. SamePositions
  BY <1>6 DEF SamePositions
<1>8. IsEngine => ~killed /\ ~IsPaused(tracker)
  BY <1>1, RunIs
<1>9. RunInv'
  <2>1. pc' \in Phases /\ pc' = "orders" /\ killed' = killed /\ DOMAIN reports' = {}
        /\ seen' \in Int
    BY <1>1, <1>2
  <2> QED
    BY <1>1, <1>2, <1>3, <1>6, <1>8, <2>1, RunFollows
<1>10. StaysShut
  <2>1. /\ tracker \in [history : Seq(Int), streak : Nat]
        /\ LongStreak(tracker.history, tracker.streak)
    BY <1>2 DEF RunInv, RunTyped, StreakIsLong
  <2>2. RedDays(tracker.history) => IsPaused(tracker)
    BY <2>1, RedDaysPause
  <2> QED
    BY <1>8, <2>2 DEF StaysShut
<1> QED
  BY <1>2, <1>6, <1>7, <1>9, <1>10, SameStops DEF StepKeeps, BacktestInv

\* A signal is dropped (engine.rs:714).
LEMMA RejectKeeps ==
  ASSUME BacktestInv, Reject PROVE StepKeeps
<1>1. /\ pc = "orders" /\ orders # <<>> /\ orders' = Tail(orders)
      /\ UNCHANGED <<mode, pc, bar, atr, broker, meta, reports, todo, seen, killed, dayOpen,
                     tracker, trades>>
  BY DEF Reject
<1>2. orders \in Seq(Signals) /\ pc \in Phases
  BY RunIs
<1>3. orders' \in Seq(Signals)
  BY <1>1, <1>2
<1> QED
  BY <1>1, <1>2, <1>3, RunIs, MovesOn

\* A bar without further signals ends.
LEMMA BarDoneKeeps ==
  ASSUME BacktestInv, BarDone PROVE StepKeeps
<1>1. /\ pc = "orders" /\ pc' = "bar" /\ pc' \in Phases
      /\ UNCHANGED <<mode, bar, atr, broker, meta, reports, todo, orders, seen, killed, dayOpen,
                     tracker, trades>>
  BY DEF BarDone, Phases
<1> QED
  BY <1>1, RunIs, MovesOn

\* The run ends (engine.rs:861).
LEMMA FinishKeeps ==
  ASSUME BacktestInv, Finish PROVE StepKeeps
<1>1. /\ pc = "closing" /\ pc' = "done" /\ pc' \in Phases
      /\ UNCHANGED <<mode, bar, atr, broker, meta, reports, todo, orders, seen, killed, dayOpen,
                     tracker, trades>>
  BY DEF Finish, Phases
<1> QED
  BY <1>1, RunIs, MovesOn

\* The bars are over (engine.rs:825).
LEMMA LastBarKeeps ==
  ASSUME BacktestInv, LastBar PROVE StepKeeps
<1>1. /\ pc = "bar" /\ bar = MaxBars /\ pc' = "closing"
      /\ tracker' = IF IsEngine THEN RecordDay(tracker, broker.equity - dayOpen) ELSE tracker
      /\ todo' = Open(broker)
      /\ UNCHANGED <<mode, bar, atr, broker, meta, reports, orders, seen, killed, dayOpen, trades>>
  BY DEF LastBar
<1>2. BooksInv /\ RunInv /\ IsBroker(broker)
  BY DEF BacktestInv, BooksInv, BooksTyped
<1>3. BooksInv' /\ Tightens /\ StaysShut
  BY <1>1, <1>2, BooksAlone
<1>4. bar # 0
  BY <1>1, BacktestConstants
<1>5. /\ tracker' \in [history : Seq(Int), streak : Nat]
      /\ LongStreak(tracker'.history, tracker'.streak)
  <2>1. /\ tracker \in [history : Seq(Int), streak : Nat] /\ dayOpen \in Int
        /\ LongStreak(tracker.history, tracker.streak) /\ broker.equity \in Int
    BY <1>2 DEF RunInv, RunTyped, StreakIsLong, IsBroker
  <2>2. broker.equity - dayOpen \in Int
    BY <2>1
  <2> QED
    BY <1>1, <2>1, <2>2, RecordDayIs
<1>6. RunInv'
  <2>1. RunTyped'
    BY <1>1, <1>2, <1>5 DEF RunInv, RunTyped, Phases
  <2>2. LoopsAreOpen' /\ Quoted'
    BY <1>1, <1>2, <1>4 DEF RunInv, LoopsAreOpen, Quoted
  <2>3. GatePassed' /\ StreakIsLong'
    BY <1>1, <1>5 DEF GatePassed, StreakIsLong
  <2> QED
    BY <2>1, <2>2, <2>3 DEF RunInv
<1> QED
  BY <1>3, <1>6 DEF StepKeeps, BacktestInv

\* A step that changes nothing.
LEMMA NothingMoves ==
  ASSUME BacktestInv, UNCHANGED vars PROVE StepKeeps
<1>1. UNCHANGED <<mode, pc, bar, atr, broker, meta, reports, todo, orders, seen, killed,
                  dayOpen, tracker, trades>>
  BY DEF vars
<1> QED
  BY <1>1, RunIs, MovesOn

\* Every step keeps the invariant, loosens no stop and opens nothing while shut.
LEMMA BacktestStep == BacktestInv /\ [Next]_vars => StepKeeps
<1> SUFFICES ASSUME BacktestInv, [Next]_vars PROVE StepKeeps
  OBVIOUS
<1>1. ASSUME NEW move \in Moves, NEW range \in Atrs, NextBar(move, range) PROVE StepKeeps
  BY <1>1, NextBarKeeps
<1>2. CASE Fills
  BY <1>2, FillsKeep
<1>3. ASSUME NEW id \in DOMAIN reports, Book(id) PROVE StepKeeps
  BY <1>3, BookKeeps
<1>4. CASE Booked
  BY <1>4, AllBookedKeeps
<1>5. ASSUME NEW id \in todo, Manage(id) PROVE StepKeeps
  BY <1>5, ManageKeeps
<1>6. CASE Managed
  BY <1>6, ManagedKeeps
<1>7. CASE Trip \/ Blocked
  BY <1>7, TripKeeps
<1>8. ASSUME NEW closers \in SUBSET Heads, NEW signals \in SignalLists,
             EvaluateEngine(closers, signals)
      PROVE  StepKeeps
  BY <1>8, EvaluateKeeps
<1>9. ASSUME NEW signals \in SignalLists, EvaluateReplay(signals) PROVE StepKeeps
  BY <1>9, EvaluateKeeps
<1>10. ASSUME NEW id \in todo, HeadClose(id) PROVE StepKeeps
  BY <1>10, HeadCloseKeeps
<1>11. ASSUME NEW weak, Filter(weak) PROVE StepKeeps
  BY <1>11, FilterKeeps
<1>12. CASE Order
  BY <1>12, OrderKeeps
<1>13. CASE Reject
  BY <1>13, RejectKeeps
<1>14. CASE BarDone
  BY <1>14, BarDoneKeeps
<1>15. CASE LastBar
  BY <1>15, LastBarKeeps
<1>16. ASSUME NEW id \in todo, CloseRemaining(id) PROVE StepKeeps
  BY <1>16, CloseRemainingKeeps
<1>17. CASE Finish
  BY <1>17, FinishKeeps
<1>18. CASE UNCHANGED vars
  BY <1>18, NothingMoves
<1> QED
  BY <1>1, <1>2, <1>3, <1>4, <1>5, <1>6, <1>7, <1>8, <1>9, <1>10, <1>11, <1>12, <1>13, <1>14,
     <1>15, <1>16, <1>17, <1>18 DEF Next

\* Everything the drivers keep has its type, and the invariant holds throughout.
THEOREM BacktestInvariant == Spec => []BacktestInv
<1>1. Init => BacktestInv
  BY StartOfRun
<1>2. BacktestInv /\ [Next]_vars => BacktestInv'
  BY BacktestStep DEF StepKeeps
<1> QED
  BY <1>1, <1>2, PTL DEF Spec

\* The balance of the simulated broker is the starting balance, the booked
\* trades, and what the open and the unbooked positions account for, through any
\* run of fills, partial closes and full ones.
THEOREM BalanceIsExplained == Spec => []LedgerAgrees
<1>1. BacktestInv => LedgerAgrees
  BY DEF BacktestInv, BooksInv
<1> QED
  BY <1>1, BacktestInvariant, PTL

\* The driver's records and the broker's positions are the same ones, with the
\* same volume and the same stop.
THEOREM TwoBooksAgree == Spec => []BooksAgree
<1>1. BacktestInv => BooksAgree
  BY DEF BacktestInv, BooksInv
<1> QED
  BY <1>1, BacktestInvariant, PTL

\* No step of a run moves the stop of an open position away from the price.
THEOREM StopsOnlyTighten == Spec => StopTightens
<1>1. BacktestInv /\ [Next]_vars
          => [\A id \in Open(broker) \cap Open(broker)' :
                 LET before == broker.positions[id].sl
                     after  == broker'.positions[id].sl
                 IN  IF meta[id].dir = "Buy" THEN after >= before
                     ELSE after <= before]_vars
  BY BacktestStep DEF StepKeeps, Tightens
<1> QED
  BY <1>1, BacktestInvariant, PTL DEF Spec, StopTightens

\* The engine opens nothing while its last days were losing ones or the drift
\* switch is tripped.
THEOREM PausedMeansShut == Spec => NothingOpensWhilePaused
<1>1. BacktestInv /\ [Next]_vars
          => [IsEngine /\ (killed \/ RedDays(tracker.history))
                 => broker'.nextId = broker.nextId]_vars
  BY BacktestStep DEF StepKeeps, StaysShut
<1> QED
  BY <1>1, BacktestInvariant, PTL DEF Spec, NothingOpensWhilePaused
=============================================================================
