---------------------------- MODULE ClientProofs -----------------------------
(***************************************************************************)
(* The session client, for any number of sessions, orders and calls: a call*)
(* is only ever answered by its own answer, a reported fill is a fill of   *)
(* the venue, and no order leaves a session that was not reconciled.       *)
(*                                                                         *)
(* Message ids start again in every session, so what makes OwnAnswer hold  *)
(* is not that ids are unique: it is that every frame and answer of the    *)
(* current session carries an id below nextId (WireInv), and that the ones *)
(* under the id the caller waits on all belong to its call (CallInv).      *)
(*                                                                         *)
(* And the reader task under it: for every length of prefix and bodies and *)
(* every way the network cuts the stream, framing never slips, and every   *)
(* decodable frame is handled once and in order.                           *)
(***************************************************************************)
EXTENDS CtraderClient, FrameReader, TLAPS

OnWire == toVenue \cup working \cup toClient

\* Everything on the wire is of a session up to the current one, and of the
\* current one under an id already given out; the venue works and answers
\* only orders that exist, and a deal for an order says it is filled.
WireInv ==
    /\ \A f \in OnWire : f.sess <= sess
    /\ \A f \in OnWire : f.sess = sess => f.id < nextId
    /\ \A f \in OnWire : f.ref.op = "order" => f.ref.order # NoOrder
    /\ \A f \in working : f.ref.op = "order"
    /\ \A m \in toClient : m.kind = "deal" /\ m.ref.op = "order" => m.ref.order \in filled

\* What is on the wire under the id of the caller's request is that request
\* or an answer to it.
CallInv ==
    /\ call.status = "idle" => call = Idle
    /\ call.status # "idle" =>
         /\ call.ref \in Refs
         /\ call.id < nextId
         /\ call.ref.op = "order" => call.ref.order # NoOrder
         /\ \A f \in OnWire : f.sess = sess /\ f.id = call.id => f.ref = call.ref
    /\ Succeeded => call.answer = call.ref
    /\ Succeeded /\ call.ref.op = "order" => call.ref.order \in filled

\* Only the current session may be up; orders are allowed only where the
\* reconcile was answered; a client that has not dialled has no flag set and
\* no call open; past the last session nothing is dialled.
SessionInv ==
    /\ up \subseteq {sess}
    /\ inner.synced => reconciled = sess
    /\ stage \in {"down", "opening"} => reader = "none" /\ up = {}
    /\ writer <=> reader # "none"
    /\ ~writer => /\ inner = FreshInner /\ call.status = "idle"
                  /\ stage \in {"down", "opening", "failed", "exited"}
    /\ sess > MaxSessions => stage \in {"failed", "exited"} /\ ~writer

IInv == TypeOK /\ WireInv /\ CallInv /\ SessionInv /\ FillsAreReal

Inners  == [connected : BOOLEAN, authenticated : BOOLEAN, synced : BOOLEAN,
            ctid : BOOLEAN, account : BOOLEAN]
Calls   == [ref : Refs \cup {NoRef}, id : Nat,
            status : {"idle", "waiting", "ok", "error"},
            answer : Refs \cup {NoRef}]
AnswerKinds == {"ok", "error", "refused", "deal", "accepted"}
Answers == [sess : 1..MaxSessions, id : Nat, ref : Refs,
            kind : AnswerKinds]

LEMMA InitIInv == Init => IInv
<1> SUFFICES ASSUME Init
             PROVE  IInv
  OBVIOUS
<1> USE ConstantsAssumption DEF Init
<1>1. TypeOK
  <2>1. inner \in Inners
    BY DEF FreshInner, Inners
  <2>2. call \in Calls
    BY DEF Idle, Calls, NoRef
  <2>3. last \in [order : 0..MaxOrders, outcome : {"none", "ok", "error", "refused"}]
    BY DEF NoOrder
  <2>4. /\ sess \in 1..MaxSessions + 1 /\ reconciled \in 0..MaxSessions /\ placed \in 0..MaxOrders
        /\ nextId \in Nat
    OBVIOUS
  <2>5. /\ reader \in {"none", "running", "dead"}
        /\ stage \in ConnectOps \cup {"down", "opening", "spawned", "ready", "failed", "exited"}
        /\ writer \in BOOLEAN
    OBVIOUS
  <2>6. /\ pending \subseteq Nat /\ up \subseteq 1..MaxSessions /\ filled \subseteq 1..MaxOrders
        /\ toVenue \subseteq Frames /\ working \subseteq Frames /\ toClient \subseteq Answers
    OBVIOUS
  <2> HIDE DEF Init
  <2>7. QED BY <2>1, <2>2, <2>3, <2>4, <2>5, <2>6 DEF TypeOK, Inners, Calls, Answers, AnswerKinds
<1>2. WireInv
  BY DEF WireInv, OnWire
<1>3. CallInv
  BY DEF CallInv, Idle, NoRef, Succeeded
<1>4. SessionInv
  BY DEF SessionInv, Idle, FreshInner
<1>5. FillsAreReal
  BY DEF FillsAreReal
<1>6. QED BY <1>1, <1>2, <1>3, <1>4, <1>5 DEF IInv

-----------------------------------------------------------------------------
(* The steps of a request, of an answer and of a reset.                    *)

\* ask() (client.rs:431): the request goes out under an id nothing on the
\* wire of this session carries.
LEMMA RequestStep ==
    ASSUME IInv, NEW ref \in Refs, ref.op = "order" => ref.order # NoOrder,
           Request(ref), UNCHANGED <<sess, toClient, working, filled>>
    PROVE  /\ pending' \subseteq Nat /\ nextId' \in Nat /\ toVenue' \subseteq Frames
           /\ call' \in Calls /\ call'.ref = ref /\ call'.status # "idle"
           /\ WireInv' /\ CallInv' /\ writer
<1>1. /\ writer /\ pending' = pending \cup {nextId} /\ nextId' = nextId + 1
      /\ call'.ref = ref /\ call'.id = nextId /\ call'.status \in {"waiting", "error"}
      /\ call' \in [ref : {ref}, id : {nextId}, status : {"waiting", "error"}, answer : {NoRef}]
  BY DEF Request, Ask, AskClosed, FreshId
<1>2. /\ nextId \in Nat /\ sess \in 1..MaxSessions + 1 /\ pending \subseteq Nat
      /\ toVenue \subseteq Frames /\ working \subseteq Frames
      /\ \A f \in OnWire : f.sess = sess => f.id < nextId
  BY DEF IInv, TypeOK, WireInv
<1> DEFINE frame == [sess |-> sess, id |-> nextId, ref |-> ref]
<1>3. frame \in Frames /\ frame.sess = sess /\ frame.id = nextId /\ frame.ref = ref
  BY <1>2 DEF Frames
<1>4. toVenue' \subseteq toVenue \cup {frame}
  BY DEF Request, Ask, AskClosed
<1> HIDE DEF frame
<1>5. \A f \in OnWire' : f = frame \/ f \in OnWire
  BY <1>4 DEF OnWire
<1>6. \A f \in OnWire : f.sess = sess => f.id \in Nat
  BY DEF OnWire, IInv, TypeOK, Frames
<1>7. WireInv'
  BY <1>1, <1>2, <1>3, <1>5, <1>6 DEF IInv, WireInv
<1>8. \A f \in OnWire' : f.sess = sess' /\ f.id = call'.id => f.ref = call'.ref
  BY <1>1, <1>2, <1>3, <1>5, <1>6
<1>9. CallInv'
  <2>1. ref \in Refs /\ call'.status # "idle" /\ ~Succeeded'
    BY <1>1 DEF Succeeded
  <2>2. call'.id < nextId'
    BY <1>1, <1>2
  <2>3. QED BY <1>1, <1>8, <2>1, <2>2 DEF CallInv
<1>10. call' \in Calls
  BY <1>1, <1>2 DEF Calls
<1>11. /\ pending' \subseteq Nat
       /\ nextId' \in Nat
       /\ toVenue' \subseteq Frames
  <2>1. pending' = pending \cup {nextId} /\ nextId' = nextId + 1
    BY <1>1
  <2>2. nextId \in Nat /\ pending \subseteq Nat /\ toVenue \subseteq Frames
    BY <1>2
  <2>3. QED BY <1>3, <1>4, <2>1, <2>2
<1>12. call'.status # "idle"
  BY <1>1
<1>13. QED BY <1>1, <1>7, <1>9, <1>10, <1>11, <1>12

\* An answer of the venue carries the id and the request of its frame.
LEMMA AnswerStep ==
    ASSUME IInv, NEW f \in toVenue \cup working,
           NEW kind \in AnswerKinds,
           toClient' = Answer(f, kind),
           toVenue' \subseteq toVenue, working' \subseteq working \cup {f},
           f \in working' => f.ref.op = "order",
           filled' = filled \/ (f.ref.op = "order" /\ filled' = filled \cup {f.ref.order}),
           kind = "deal" /\ f.ref.op = "order" => f.ref.order \in filled',
           UNCHANGED <<sess, nextId, call, up>>
    PROVE  /\ toVenue' \subseteq Frames /\ working' \subseteq Frames
           /\ toClient' \subseteq Answers /\ filled' \subseteq 1..MaxOrders
           /\ WireInv' /\ CallInv'
<1> DEFINE m == [sess |-> f.sess, id |-> f.id, ref |-> f.ref, kind |-> kind]
<1>1. /\ f \in Frames /\ f \in OnWire /\ toVenue \subseteq Frames /\ working \subseteq Frames
      /\ toClient \subseteq Answers /\ filled \subseteq 1..MaxOrders /\ up \subseteq 1..MaxSessions
  BY DEF IInv, TypeOK, OnWire, Answers, AnswerKinds
<1>2. m.sess = f.sess /\ m.id = f.id /\ m.ref = f.ref /\ m.kind = kind
  OBVIOUS
<1>3. toClient' \subseteq toClient \cup {m} /\ (toClient' # toClient => f.sess \in up)
  BY DEF Answer
<1>4. f.sess \in up => m \in Answers
  BY <1>1 DEF Frames, Answers
<1>5. \A g \in toClient' : g \in toClient \/ (g = m /\ f.sess \in up)
  BY <1>3
<1> HIDE DEF m
<1>6. toClient' \subseteq Answers
  BY <1>1, <1>4, <1>5
<1>7. f.ref.op = "order" => f.ref.order \in 1..MaxOrders
  <2>1. f.ref \in Refs /\ (f.ref.op = "order" => f.ref.order # 0)
    BY <1>1 DEF IInv, WireInv, Frames, NoOrder
  <2>2. QED BY <2>1, ConstantsAssumption DEF Refs
<1>8. filled' \subseteq 1..MaxOrders /\ filled \subseteq filled'
  BY <1>1, <1>7
<1>9. \A g \in OnWire' : g \in OnWire \/ (/\ g.sess = f.sess /\ g.id = f.id /\ g.ref = f.ref
                                         /\ f \in OnWire)
  BY <1>1, <1>2, <1>5 DEF OnWire
<1>10. WireInv'
  <2>1. \A g \in OnWire' : g.sess <= sess' /\ (g.sess = sess' => g.id < nextId')
    BY <1>9 DEF IInv, WireInv
  <2>2. \A g \in OnWire' : g.ref.op = "order" => g.ref.order # NoOrder
    BY <1>9 DEF IInv, WireInv
  <2>3. \A g \in working' : g.ref.op = "order"
    BY DEF IInv, WireInv
  <2>4. \A g \in toClient' : g.kind = "deal" /\ g.ref.op = "order" => g.ref.order \in filled'
    BY <1>2, <1>5, <1>8 DEF IInv, WireInv
  <2>5. QED BY <2>1, <2>2, <2>3, <2>4 DEF WireInv
<1>11. CallInv'
  <2>1. call.status # "idle" =>
           \A g \in OnWire' : g.sess = sess' /\ g.id = call.id => g.ref = call.ref
    BY <1>9 DEF IInv, CallInv
  <2>2. QED BY <1>8, <2>1 DEF IInv, CallInv, Succeeded
<1>12. QED BY <1>1, <1>6, <1>8, <1>10, <1>11

\* reset_inner (client.rs:405) starts a session in which nothing is on the
\* wire yet.
LEMMA ResetStep ==
    ASSUME IInv, Reset, sess <= MaxSessions, call' = Idle,
           UNCHANGED <<toVenue, toClient, working, filled, reconciled>>
    PROVE  /\ sess' \in 1..MaxSessions + 1 /\ sess' = sess + 1 /\ inner' = FreshInner
           /\ inner' \in Inners /\ pending' = {} /\ nextId' = 1
           /\ writer' = FALSE /\ reader' = "none" /\ up' = {}
           /\ call' \in Calls
           /\ WireInv' /\ CallInv'
<1>1. /\ sess' = sess + 1 /\ inner' = FreshInner /\ pending' = {} /\ nextId' = 1
      /\ writer' = FALSE /\ reader' = "none" /\ up' = up \ {sess}
  BY DEF Reset
<1>2. sess \in 1..MaxSessions + 1 /\ MaxSessions \in Nat
  BY ConstantsAssumption DEF IInv, TypeOK
<1>3. up' = {}
  BY <1>1 DEF IInv, SessionInv
<1>4. inner' \in Inners /\ call' \in Calls
  BY <1>1 DEF Inners, FreshInner, Calls, Idle, NoRef
<1>5. \A f \in OnWire : f.sess \in Int
  BY ConstantsAssumption DEF OnWire, IInv, TypeOK, Frames
<1>6. \A f \in OnWire : f.sess <= sess' /\ f.sess # sess'
  BY <1>1, <1>2, <1>5 DEF IInv, WireInv
<1>7. OnWire' = OnWire
  BY DEF OnWire
<1>8. WireInv'
  BY <1>6, <1>7 DEF IInv, WireInv
<1>9. CallInv'
  BY DEF CallInv, Idle, Succeeded
<1>10. QED BY <1>1, <1>2, <1>3, <1>4, <1>8, <1>9

-----------------------------------------------------------------------------
(* Every action keeps the invariant.                                       *)

\* What the wire and the call say is untouched by a step that moves neither.
LEMMA QuietStep ==
    ASSUME IInv, UNCHANGED <<sess, nextId, call, toVenue, toClient, working, filled>>
    PROVE  WireInv' /\ CallInv'
BY DEF IInv, WireInv, CallInv, OnWire, Succeeded

\* A call that ends without an answer stays without one.
LEMMA FailedStep ==
    ASSUME IInv, Waiting, call' = [call EXCEPT !.status = "error"],
           UNCHANGED <<sess, nextId, toVenue, toClient, working, filled>>
    PROVE  call' \in Calls /\ call'.ref = call.ref /\ WireInv' /\ CallInv'
<1>1. call \in Calls
  BY DEF IInv, TypeOK, Calls
<1>2. call' \in Calls /\ call'.ref = call.ref /\ call'.id = call.id /\ call'.status = "error"
  BY <1>1 DEF Calls
<1>3. call.status # "idle"
  BY DEF Waiting
<1>4. WireInv'
  BY DEF IInv, WireInv, OnWire
<1>5. CallInv'
  BY <1>2, <1>3 DEF IInv, CallInv, OnWire, Succeeded
<1>6. QED BY <1>2, <1>4, <1>5

LEMMA OpenSocketStep ==
    ASSUME IInv, OpenSocket
    PROVE  IInv'
<1>1. /\ UNCHANGED <<sess, inner, pending, nextId, call, calls, last, placed,
                     reconciled, toVenue, toClient, working, filled>>
      /\ stage = "opening" /\ stage' = "spawned" /\ writer' = TRUE /\ reader' = "running"
      /\ up' = up \cup {sess}
  BY DEF OpenSocket
<1>2. sess \in 1..MaxSessions
  BY <1>1, ConstantsAssumption DEF IInv, TypeOK, SessionInv
<1>3. WireInv' /\ CallInv'
  BY <1>1, QuietStep
<1>4. TypeOK'
  BY <1>1, <1>2 DEF IInv, TypeOK
<1>5. SessionInv'
  BY <1>1, <1>2, ConstantsAssumption DEF IInv, SessionInv
<1>6. FillsAreReal'
  BY <1>1 DEF IInv, FillsAreReal
<1>7. QED BY <1>3, <1>4, <1>5, <1>6 DEF IInv

LEMMA MarkConnectedStep ==
    ASSUME IInv, MarkConnected
    PROVE  IInv'
<1>1. /\ UNCHANGED <<sess, writer, reader, pending, nextId, call, calls, last,
                     placed, reconciled, venueVars>>
      /\ stage = "spawned" /\ stage' = "app"
      /\ inner' = [inner EXCEPT !.connected = TRUE]
  BY DEF MarkConnected
<1>2. inner \in Inners
  BY DEF IInv, TypeOK, Inners
<1>3. inner' \in Inners /\ inner'.synced = inner.synced
  BY <1>1, <1>2 DEF Inners
<1>4. WireInv' /\ CallInv'
  BY <1>1, QuietStep DEF venueVars
<1>5. TypeOK'
  BY <1>1, <1>3 DEF IInv, TypeOK, Inners, ConnectOps, NextStage, venueVars
<1>6. SessionInv'
  BY <1>1, <1>3 DEF IInv, SessionInv, venueVars
<1>7. FillsAreReal'
  BY <1>1 DEF IInv, FillsAreReal, venueVars
<1>8. QED BY <1>4, <1>5, <1>6, <1>7 DEF IInv

LEMMA ConnectStepStep ==
    ASSUME IInv, ConnectStep
    PROVE  IInv'
<1> DEFINE ref == [op |-> stage, order |-> NoOrder]
<1>1. /\ UNCHANGED <<sess, inner, writer, reader, stage, calls, last, placed,
                     reconciled, up, toClient, working, filled>>
      /\ stage \in ConnectOps /\ Request(ref)
  BY DEF ConnectStep
<1>2. ref \in Refs /\ ref.op # "order"
  BY <1>1, ConstantsAssumption DEF Refs, Ops, ConnectOps, NextStage, NoOrder
<1> HIDE DEF ref
<1>3. /\ pending' \subseteq Nat /\ nextId' \in Nat /\ toVenue' \subseteq Frames
      /\ call' \in Calls /\ WireInv' /\ CallInv' /\ writer
  BY <1>1, <1>2, RequestStep
<1>4. TypeOK'
  BY <1>1, <1>3 DEF IInv, TypeOK, Calls
<1>5. SessionInv'
  BY <1>1, <1>3 DEF IInv, SessionInv
<1>6. FillsAreReal'
  BY <1>1 DEF IInv, FillsAreReal
<1>7. QED BY <1>3, <1>4, <1>5, <1>6 DEF IInv

LEMMA SendOrderStep ==
    ASSUME IInv, SendOrder
    PROVE  IInv' /\ call'.ref.op = "order" /\ reconciled = sess
<1> DEFINE ref == [op |-> "order", order |-> placed + 1]
<1>1. /\ UNCHANGED <<sess, inner, writer, reader, stage, last, reconciled, up,
                     toClient, working, filled>>
      /\ Request(ref) /\ placed < MaxOrders /\ placed' = placed + 1 /\ MaySend
  BY DEF SendOrder
<1>2. placed \in 0..MaxOrders
  BY DEF IInv, TypeOK
<1>3. ref \in Refs /\ ref.order # NoOrder /\ ref.op = "order"
  BY <1>1, <1>2, ConstantsAssumption DEF Refs, Ops, LiveOps, NoOrder
<1> HIDE DEF ref
<1>4. /\ pending' \subseteq Nat /\ nextId' \in Nat /\ toVenue' \subseteq Frames
      /\ call' \in Calls /\ call'.ref = ref /\ WireInv' /\ CallInv' /\ writer
  BY <1>1, <1>3, RequestStep
<1>5. placed' \in 0..MaxOrders
  BY <1>1, <1>2, ConstantsAssumption
<1>6. TypeOK'
  BY <1>1, <1>4, <1>5 DEF IInv, TypeOK, Calls
<1>7. SessionInv'
  BY <1>1, <1>4 DEF IInv, SessionInv
<1>8. FillsAreReal'
  BY <1>1 DEF IInv, FillsAreReal
<1>9. reconciled = sess
  BY <1>1 DEF IInv, SessionInv, MaySend
<1>10. QED BY <1>3, <1>4, <1>6, <1>7, <1>8, <1>9 DEF IInv

LEMMA RefuseOrderStep ==
    ASSUME IInv, RefuseOrder
    PROVE  IInv' /\ call'.ref.op # "order"
<1>1. /\ UNCHANGED <<sess, clientVars, stage, call, reconciled, venueVars>>
      /\ call.status = "idle" /\ placed < MaxOrders /\ placed' = placed + 1
      /\ last' = [order |-> placed + 1, outcome |-> "refused"]
  BY DEF RefuseOrder, MayCall
<1>2. placed' \in 0..MaxOrders /\ last'.outcome = "refused"
      /\ last' \in [order : 0..MaxOrders, outcome : {"none", "ok", "error", "refused"}]
  BY <1>1, ConstantsAssumption DEF IInv, TypeOK
<1>3. WireInv' /\ CallInv'
  BY <1>1, QuietStep DEF venueVars, clientVars
<1>4. TypeOK'
  BY <1>1, <1>2 DEF IInv, TypeOK, clientVars, venueVars
<1>5. SessionInv'
  BY <1>1 DEF IInv, SessionInv, clientVars, venueVars
<1>6. FillsAreReal'
  BY <1>2 DEF FillsAreReal
<1>7. call' = Idle
  BY <1>1 DEF IInv, CallInv
<1>8. QED BY <1>3, <1>4, <1>5, <1>6, <1>7 DEF IInv, Idle, NoRef

LEMMA OtherCallStep ==
    ASSUME IInv, OtherCall
    PROVE  IInv' /\ placed' = placed
<1>1. /\ UNCHANGED <<sess, inner, writer, reader, stage, last, placed,
                     reconciled, up, toClient, working, filled>>
  BY DEF OtherCall
<1>2. PICK op \in {"close", "amend", "sync"} : Request([op |-> op, order |-> NoOrder])
  BY DEF OtherCall
<1> DEFINE ref == [op |-> op, order |-> NoOrder]
<1>3. Request(ref) /\ ref \in Refs /\ ref.op # "order"
  BY <1>2, ConstantsAssumption DEF Refs, Ops, LiveOps, NoOrder
<1> HIDE DEF ref
<1>4. /\ pending' \subseteq Nat /\ nextId' \in Nat /\ toVenue' \subseteq Frames
      /\ call' \in Calls /\ WireInv' /\ CallInv' /\ writer
  BY <1>1, <1>3, RequestStep
<1>5. TypeOK'
  BY <1>1, <1>4 DEF IInv, TypeOK, Calls
<1>6. SessionInv'
  BY <1>1, <1>4 DEF IInv, SessionInv
<1>7. FillsAreReal'
  BY <1>1 DEF IInv, FillsAreReal
<1>8. QED BY <1>1, <1>4, <1>5, <1>6, <1>7 DEF IInv

\* handle_incoming (client.rs:344): the waiter gets the answer under its own
\* id, which by WireInv and CallInv is the answer to its own request.
LEMMA DispatchStep ==
    ASSUME IInv, Dispatch
    PROVE  IInv'
<1>1. /\ UNCHANGED <<sess, writer, reader, nextId, stage, calls, last, placed,
                     reconciled, up, toVenue, working, filled>>
      /\ reader = "running"
  BY DEF Dispatch
<1>2. PICK m \in toClient :
        /\ m.sess = sess
        /\ toClient' = toClient \ {m}
        /\ pending' = pending \ {m.id}
        /\ inner' = IF m.ref.op = "trader" /\ m.kind # "error"
                    THEN [inner EXCEPT !.account = TRUE] ELSE inner
        /\ call' = IF m.id \in pending /\ Waiting /\ call.id = m.id
                   THEN [call EXCEPT
                           !.status = IF Completes(call.ref.op, m.kind)
                                      THEN "ok" ELSE "error",
                           !.answer = m.ref]
                   ELSE call
  BY DEF Dispatch
<1>3. inner \in Inners /\ call \in Calls /\ m \in Answers
  BY DEF IInv, TypeOK, Inners, Calls, Answers, AnswerKinds
<1>4. inner' \in Inners /\ inner'.synced = inner.synced
  BY <1>2, <1>3 DEF Inners
<1>5. WireInv'
  BY <1>1, <1>2 DEF IInv, WireInv, OnWire
<1>6. call' \in Calls /\ CallInv'
  <2>1. CASE m.id \in pending /\ Waiting /\ call.id = m.id
    <3> DEFINE result == IF Completes(call.ref.op, m.kind) THEN "ok" ELSE "error"
    <3>1. m.ref = call.ref /\ m.ref \in Refs /\ call.status # "idle"
      BY <1>2, <1>3, <2>1 DEF IInv, CallInv, OnWire, Waiting, Answers
    <3>2. call' = [call EXCEPT !.status = result, !.answer = m.ref]
      BY <1>2, <2>1
    <3>3. result \in {"ok", "error"}
      OBVIOUS
    <3>4. result = "ok" /\ call.ref.op = "order" => m.kind = "deal"
      BY DEF Completes
    <3> HIDE DEF result
    <3>5. /\ call' \in Calls /\ call'.ref = call.ref /\ call'.id = call.id
          /\ call'.status = result /\ call'.answer = m.ref
      BY <1>3, <3>1, <3>2, <3>3 DEF Calls
    <3>6. call'.status = "ok" /\ call'.ref.op = "order" => call'.ref.order \in filled'
      BY <1>1, <3>1, <3>4, <3>5 DEF IInv, WireInv
    <3>7. OnWire' \subseteq OnWire
      BY <1>1, <1>2 DEF OnWire
    <3>8. CallInv'
      BY <1>1, <3>1, <3>3, <3>5, <3>6, <3>7 DEF IInv, CallInv, Succeeded
    <3>9. QED BY <3>5, <3>8
  <2>2. CASE ~(m.id \in pending /\ Waiting /\ call.id = m.id)
    <3>1. call' = call
      BY <1>2, <2>2
    <3>2. OnWire' \subseteq OnWire
      BY <1>1, <1>2 DEF OnWire
    <3>3. CallInv'
      BY <1>1, <3>1, <3>2 DEF IInv, CallInv, Succeeded
    <3>4. QED BY <1>3, <3>1, <3>3
  <2>3. QED BY <2>1, <2>2
<1>7. TypeOK'
  BY <1>1, <1>2, <1>4, <1>6 DEF IInv, TypeOK, Inners, Calls
<1>8. SessionInv'
  BY <1>1, <1>4 DEF IInv, SessionInv
<1>9. FillsAreReal'
  BY <1>1 DEF IInv, FillsAreReal
<1>10. QED BY <1>5, <1>6, <1>7, <1>8, <1>9 DEF IInv

LEMMA ReaderExitStep ==
    ASSUME IInv, ReaderExit
    PROVE  IInv'
<1>1. /\ UNCHANGED <<sess, writer, nextId, stage, calls, last, placed,
                     reconciled, venueVars>>
      /\ reader = "running" /\ reader' = "dead" /\ pending' = {}
      /\ inner' = [inner EXCEPT !.connected = FALSE, !.authenticated = FALSE]
      /\ call' = IF Waiting /\ call.id \in pending
                 THEN [call EXCEPT !.status = "error"] ELSE call
  BY DEF ReaderExit
<1>2. inner \in Inners /\ call \in Calls
  BY DEF IInv, TypeOK, Inners, Calls
<1>3. inner' \in Inners /\ inner'.synced = inner.synced
  BY <1>1, <1>2 DEF Inners
<1>4. call' \in Calls /\ WireInv' /\ CallInv'
  <2>1. CASE Waiting /\ call.id \in pending
    BY <1>1, <2>1, FailedStep DEF venueVars
  <2>2. CASE ~(Waiting /\ call.id \in pending)
    BY <1>1, <1>2, <2>2, QuietStep DEF venueVars
  <2>3. QED BY <2>1, <2>2
<1>5. TypeOK'
  BY <1>1, <1>3, <1>4 DEF IInv, TypeOK, Inners, Calls, venueVars
<1>6. SessionInv'
  BY <1>1, <1>3 DEF IInv, SessionInv, venueVars
<1>7. FillsAreReal'
  BY <1>1 DEF IInv, FillsAreReal, venueVars
<1>8. QED BY <1>4, <1>5, <1>6, <1>7 DEF IInv

LEMMA TimeoutCallStep ==
    ASSUME IInv, TimeoutCall
    PROVE  IInv'
<1>1. /\ UNCHANGED <<sess, clientVars, stage, calls, last, placed, reconciled, venueVars>>
      /\ Waiting /\ call' = [call EXCEPT !.status = "error"]
  BY DEF TimeoutCall
<1>2. call' \in Calls /\ WireInv' /\ CallInv'
  BY <1>1, FailedStep DEF clientVars, venueVars
<1>3. TypeOK'
  BY <1>1, <1>2 DEF IInv, TypeOK, Calls, clientVars, venueVars
<1>4. SessionInv'
  BY <1>1 DEF IInv, SessionInv, Waiting, clientVars, venueVars
<1>5. FillsAreReal'
  BY <1>1 DEF IInv, FillsAreReal, clientVars, venueVars
<1>6. QED BY <1>2, <1>3, <1>4, <1>5 DEF IInv

\* Once a call has come back the caller is free again, with nothing on the
\* wire to be mistaken.
LEMMA ReturnedStep ==
    ASSUME IInv, call' = Idle,
           UNCHANGED <<sess, nextId, toVenue, toClient, working, filled>>
    PROVE  call' \in Calls /\ WireInv' /\ CallInv'
<1>1. call' \in Calls
  BY DEF Calls, Idle, NoRef
<1>2. WireInv'
  BY DEF IInv, WireInv, OnWire
<1>3. CallInv'
  BY DEF CallInv, Idle, Succeeded
<1>4. QED BY <1>1, <1>2, <1>3

LEMMA ConnectReturnStep ==
    ASSUME IInv, ConnectReturn
    PROVE  IInv'
<1>1. /\ UNCHANGED <<sess, writer, reader, pending, nextId, calls, last, placed,
                     reconciled, venueVars>>
      /\ Answered /\ stage \in ConnectOps \ {"reconcile"} /\ call' = Idle
  BY DEF ConnectReturn
<1>2. inner \in Inners /\ writer
  <2>1. call.status # "idle"
    BY <1>1 DEF Answered
  <2>2. QED BY <2>1 DEF IInv, TypeOK, Inners, SessionInv
<1>3. inner' \in Inners /\ inner'.synced = inner.synced
  <2>1. \/ inner' = [inner EXCEPT !.ctid = TRUE, !.authenticated = TRUE]
        \/ inner' = inner
    BY DEF ConnectReturn
  <2>2. QED BY <1>2, <2>1 DEF Inners
<1>4. stage' \in (ConnectOps \ {"app"}) \cup {"ready", "failed"}
  BY <1>1 DEF ConnectReturn, ConnectOps, NextStage
<1>5. call' \in Calls /\ WireInv' /\ CallInv'
  BY <1>1, ReturnedStep DEF venueVars
<1>6. TypeOK'
  BY <1>1, <1>3, <1>4, <1>5 DEF IInv, TypeOK, Inners, Calls, venueVars
<1>7. SessionInv'
  <2>1. stage' \notin {"down", "opening"} /\ writer'
    BY <1>1, <1>2, <1>4 DEF ConnectOps, NextStage
  <2>2. sess <= MaxSessions
    BY <1>2, ConstantsAssumption DEF IInv, TypeOK, SessionInv
  <2>3. QED BY <1>1, <1>2, <1>3, <2>1, <2>2, ConstantsAssumption
           DEF IInv, TypeOK, SessionInv, venueVars
<1>8. FillsAreReal'
  BY <1>1 DEF IInv, FillsAreReal, venueVars
<1>9. QED BY <1>5, <1>6, <1>7, <1>8 DEF IInv

LEMMA ReconcileReturnStep ==
    ASSUME IInv, ReconcileReturn
    PROVE  IInv'
<1>1. /\ UNCHANGED <<calls, last, placed, toVenue, toClient, working, filled>>
      /\ Answered /\ stage = "reconcile" /\ call' = Idle
  BY DEF ReconcileReturn
<1>2. inner \in Inners /\ writer /\ sess \in 1..MaxSessions
  <2>1. call.status # "idle"
    BY <1>1 DEF Answered
  <2>2. inner \in Inners /\ writer
    BY <2>1 DEF IInv, TypeOK, Inners, SessionInv
  <2>3. sess \in 1..MaxSessions
    BY <2>2, ConstantsAssumption DEF IInv, TypeOK, SessionInv
  <2>4. QED BY <2>2, <2>3
<1>3. FillsAreReal'
  BY <1>1 DEF IInv, FillsAreReal
<1>4. CASE /\ inner' = [inner EXCEPT !.synced = TRUE]
           /\ reconciled' = sess /\ stage' = "ready"
           /\ UNCHANGED <<sess, writer, reader, pending, nextId, up>>
  <2>1. inner' \in Inners
    BY <1>2, <1>4 DEF Inners
  <2>2. call' \in Calls /\ WireInv' /\ CallInv'
    BY <1>1, <1>4, ReturnedStep
  <2>3. TypeOK'
    BY <1>1, <1>2, <1>4, <2>1, <2>2 DEF IInv, TypeOK, Inners, Calls
  <2>4. SessionInv'
    BY <1>1, <1>2, <1>4 DEF IInv, SessionInv
  <2>5. QED BY <1>3, <2>2, <2>3, <2>4 DEF IInv
<1>5. CASE Reset /\ stage' = "failed" /\ UNCHANGED reconciled
  <2>1. /\ sess' \in 1..MaxSessions + 1 /\ inner' = FreshInner /\ inner' \in Inners
        /\ pending' = {} /\ nextId' = 1 /\ writer' = FALSE /\ reader' = "none" /\ up' = {}
        /\ call' \in Calls /\ WireInv' /\ CallInv'
    BY <1>1, <1>2, <1>5, ResetStep
  <2>2. TypeOK'
    BY <1>1, <1>5, <2>1 DEF IInv, TypeOK, Inners, Calls
  <2>3. SessionInv'
    BY <1>1, <1>5, <2>1 DEF SessionInv, FreshInner, Idle
  <2>4. QED BY <1>3, <2>1, <2>2, <2>3 DEF IInv
<1>6. QED BY <1>4, <1>5 DEF ReconcileReturn

LEMMA CallReturnStep ==
    ASSUME IInv, CallReturn
    PROVE  IInv'
<1>1. /\ UNCHANGED <<sess, writer, reader, pending, nextId, stage, calls, placed, venueVars>>
      /\ Answered /\ call' = Idle
      /\ inner' = IF call.ref.op = "sync"
                  THEN [inner EXCEPT !.synced = Succeeded] ELSE inner
      /\ reconciled' = IF call.ref.op = "sync" /\ Succeeded THEN sess ELSE reconciled
      /\ last' = IF call.ref.op = "order"
                 THEN [order |-> call.ref.order, outcome |-> call.status] ELSE last
  BY DEF CallReturn
<1>2. /\ inner \in Inners /\ writer /\ sess \in 1..MaxSessions
      /\ call.ref \in Refs /\ call.status \in {"ok", "error"}
  <2>1. call.status # "idle" /\ call.status \in {"ok", "error"}
    BY <1>1 DEF Answered
  <2>2. inner \in Inners /\ writer /\ call.ref \in Refs
    BY <2>1 DEF IInv, TypeOK, Inners, SessionInv, CallInv
  <2>3. sess \in 1..MaxSessions
    BY <2>2, ConstantsAssumption DEF IInv, TypeOK, SessionInv
  <2>4. QED BY <2>1, <2>2, <2>3
<1>3. inner' \in Inners /\ (inner'.synced => reconciled' = sess)
  <2>1. Succeeded \in BOOLEAN
    BY DEF Succeeded
  <2>2. CASE call.ref.op = "sync"
    <3>1. inner' = [inner EXCEPT !.synced = Succeeded]
      BY <1>1, <2>2
    <3>2. inner' \in Inners /\ inner'.synced = Succeeded
      BY <1>2, <2>1, <3>1 DEF Inners
    <3>3. Succeeded => reconciled' = sess
      BY <1>1, <2>2
    <3>4. QED BY <3>2, <3>3
  <2>3. CASE call.ref.op # "sync"
    BY <1>1, <1>2, <2>3 DEF IInv, SessionInv
  <2>4. QED BY <2>2, <2>3
<1>4. call' \in Calls /\ WireInv' /\ CallInv'
  BY <1>1, ReturnedStep DEF venueVars
<1>5. last' \in [order : 0..MaxOrders, outcome : {"none", "ok", "error", "refused"}]
      /\ FillsAreReal'
  <2>1. CASE call.ref.op = "order"
    <3>1. last' = [order |-> call.ref.order, outcome |-> call.status]
      BY <1>1, <2>1
    <3>2. call.ref.order \in 0..MaxOrders
      BY <1>2 DEF Refs
    <3>3. call.status = "ok" => call.ref.order \in filled
      BY <2>1 DEF IInv, CallInv, Succeeded
    <3>4. filled' = filled
      BY <1>1 DEF venueVars
    <3>5. QED BY <1>2, <3>1, <3>2, <3>3, <3>4 DEF FillsAreReal
  <2>2. CASE call.ref.op # "order"
    BY <1>1, <2>2 DEF IInv, TypeOK, FillsAreReal, venueVars
  <2>3. QED BY <2>1, <2>2
<1>6. reconciled' \in 0..MaxSessions
  BY <1>1, <1>2 DEF IInv, TypeOK
<1>7. TypeOK'
  BY <1>1, <1>3, <1>4, <1>5, <1>6 DEF IInv, TypeOK, Inners, Calls, venueVars
<1>8. SessionInv'
  BY <1>1, <1>2, <1>3 DEF IInv, SessionInv, venueVars
<1>9. QED BY <1>4, <1>5, <1>7, <1>8 DEF IInv

LEMMA ReconnectStep ==
    ASSUME IInv, Reconnect
    PROVE  IInv'
<1>1. /\ UNCHANGED <<call, calls, last, placed, reconciled, toVenue, toClient, working, filled>>
      /\ Reset /\ stage' = "opening" /\ sess < MaxSessions /\ call.status = "idle"
  BY DEF Reconnect, MustReconnect
<1>2. call' = Idle /\ sess <= MaxSessions /\ sess \in Int /\ MaxSessions \in Int
  BY <1>1, ConstantsAssumption DEF IInv, TypeOK, CallInv
<1>3. /\ sess' \in 1..MaxSessions + 1 /\ sess' = sess + 1
      /\ inner' = FreshInner /\ inner' \in Inners
      /\ pending' = {} /\ nextId' = 1 /\ writer' = FALSE /\ reader' = "none" /\ up' = {}
      /\ call' \in Calls /\ WireInv' /\ CallInv'
  BY <1>1, <1>2, ResetStep
<1>4. TypeOK'
  BY <1>1, <1>3 DEF IInv, TypeOK, Inners, Calls
<1>5. SessionInv'
  BY <1>1, <1>2, <1>3 DEF SessionInv, FreshInner, Idle
<1>6. FillsAreReal'
  BY <1>1 DEF IInv, FillsAreReal
<1>7. QED BY <1>3, <1>4, <1>5, <1>6 DEF IInv

\* The caller leaves the connection as it is: it starts to open one, the
\* socket did not open, or the attempts are used up.
LEMMA StageStep ==
    ASSUME IInv, Connect \/ SocketFails \/ GiveUp
    PROVE  IInv'
<1>1. /\ UNCHANGED <<sess, clientVars, call, calls, last, placed, reconciled, venueVars>>
      /\ stage' \in {"opening", "failed", "exited"}
      /\ stage' = "opening" => stage = "down"
  BY DEF Connect, SocketFails, GiveUp
<1>2. WireInv' /\ CallInv'
  BY <1>1, QuietStep DEF clientVars, venueVars
<1>3. TypeOK'
  BY <1>1 DEF IInv, TypeOK, clientVars, venueVars
<1>4. SessionInv'
  BY <1>1 DEF IInv, SessionInv, clientVars, venueVars
<1>5. FillsAreReal'
  BY <1>1 DEF IInv, FillsAreReal, venueVars
<1>6. QED BY <1>2, <1>3, <1>4, <1>5 DEF IInv

LEMMA VenueStep ==
    ASSUME IInv, VenueAnswers \/ VenueTakesOrder \/ VenueWorksOrder
    PROVE  IInv'
<1>1. /\ UNCHANGED <<sess, clientVars, callerVars, up>>
      /\ UNCHANGED <<sess, nextId, call, up>>
  BY DEF VenueAnswers, VenueTakesOrder, VenueWorksOrder, clientVars, callerVars
<1>2. /\ toVenue' \subseteq Frames /\ working' \subseteq Frames
      /\ toClient' \subseteq Answers /\ filled' \subseteq 1..MaxOrders
      /\ WireInv' /\ CallInv' /\ filled \subseteq filled'
  <2>1. CASE VenueAnswers
    <3>1. PICK f \in toVenue :
            /\ f.ref.op # "order"
            /\ toVenue' = toVenue \ {f}
            /\ \E k \in Consents(f.ref.op) \cup Refusals(f.ref.op) : toClient' = Answer(f, k)
            /\ UNCHANGED <<working, filled>>
      BY <2>1 DEF VenueAnswers
    <3>2. PICK kind \in AnswerKinds : toClient' = Answer(f, kind)
      BY <3>1 DEF Consents, Refusals, AnswerKinds
    <3>3. \A g \in working : g.ref.op = "order"
      BY DEF IInv, WireInv
    <3>4. QED BY <1>1, <3>1, <3>2, <3>3, AnswerStep
  <2>2. CASE VenueTakesOrder
    <3>1. PICK f \in toVenue :
            /\ f.ref.op = "order"
            /\ toVenue' = toVenue \ {f}
            /\ \/ /\ \E k \in Refusals("order") : toClient' = Answer(f, k)
                  /\ UNCHANGED <<working, filled>>
               \/ /\ toClient' = Answer(f, "deal")
                  /\ filled' = filled \cup {f.ref.order}
                  /\ UNCHANGED working
               \/ /\ toClient' = Answer(f, "accepted")
                  /\ working' = working \cup {f}
                  /\ UNCHANGED filled
      BY <2>2 DEF VenueTakesOrder
    <3>2. PICK kind \in AnswerKinds :
            /\ toClient' = Answer(f, kind)
            /\ working' \subseteq working \cup {f}
            /\ filled' = filled \/ filled' = filled \cup {f.ref.order}
            /\ kind = "deal" => f.ref.order \in filled'
      BY <3>1 DEF Refusals, AnswerKinds
    <3>3. QED BY <1>1, <3>1, <3>2, AnswerStep
  <2>3. CASE VenueWorksOrder
    <3>1. PICK f \in working :
            /\ working' = working \ {f}
            /\ \/ /\ toClient' = Answer(f, "deal")
                  /\ filled' = filled \cup {f.ref.order}
               \/ /\ \E k \in Refusals("order") : toClient' = Answer(f, k)
                  /\ UNCHANGED filled
            /\ UNCHANGED toVenue
      BY <2>3 DEF VenueWorksOrder
    <3>2. PICK kind \in AnswerKinds :
            /\ toClient' = Answer(f, kind)
            /\ filled' = filled \/ filled' = filled \cup {f.ref.order}
            /\ kind = "deal" => f.ref.order \in filled'
      BY <3>1 DEF Refusals, AnswerKinds
    <3>3. f.ref.op = "order"
      BY DEF IInv, WireInv
    <3>4. QED BY <1>1, <3>1, <3>2, <3>3, AnswerStep
  <2>4. QED BY <2>1, <2>2, <2>3
<1>3. TypeOK'
  BY <1>1, <1>2 DEF IInv, TypeOK, Answers, AnswerKinds, clientVars, callerVars
<1>4. SessionInv'
  BY <1>1 DEF IInv, SessionInv, clientVars, callerVars
<1>5. FillsAreReal'
  BY <1>1, <1>2 DEF IInv, FillsAreReal, callerVars
<1>6. QED BY <1>2, <1>3, <1>4, <1>5 DEF IInv

LEMMA CutConnectionStep ==
    ASSUME IInv, CutConnection
    PROVE  IInv'
<1>1. /\ UNCHANGED <<sess, clientVars, callerVars, working, filled>>
      /\ up' = up \ {sess} /\ toClient' = {} /\ toVenue' \subseteq toVenue
  BY DEF CutConnection
<1>2. OnWire' \subseteq OnWire
  BY <1>1 DEF OnWire
<1>3. WireInv' /\ CallInv'
  BY <1>1, <1>2 DEF IInv, WireInv, CallInv, Succeeded, clientVars, callerVars
<1>4. TypeOK'
  BY <1>1 DEF IInv, TypeOK, clientVars, callerVars
<1>5. SessionInv'
  BY <1>1 DEF IInv, SessionInv, clientVars, callerVars
<1>6. FillsAreReal'
  BY <1>1 DEF IInv, FillsAreReal, callerVars
<1>7. QED BY <1>3, <1>4, <1>5, <1>6 DEF IInv

LEMMA NextIInv == IInv /\ [Next]_vars => IInv'
<1> SUFFICES ASSUME IInv, [Next]_vars
             PROVE  IInv'
  OBVIOUS
<1>1. CASE Connect \/ OpenSocket \/ MarkConnected \/ SocketFails \/ GiveUp
  BY <1>1, OpenSocketStep, MarkConnectedStep, StageStep
<1>2. CASE ConnectStep \/ SendOrder \/ RefuseOrder \/ OtherCall
  BY <1>2, ConnectStepStep, SendOrderStep, RefuseOrderStep, OtherCallStep
<1>3. CASE Dispatch \/ ReaderExit \/ TimeoutCall
  BY <1>3, DispatchStep, ReaderExitStep, TimeoutCallStep
<1>4. CASE ConnectReturn \/ ReconcileReturn \/ CallReturn \/ Reconnect
  BY <1>4, ConnectReturnStep, ReconcileReturnStep, CallReturnStep, ReconnectStep
<1>5. CASE VenueAnswers \/ VenueTakesOrder \/ VenueWorksOrder \/ CutConnection
  BY <1>5, VenueStep, CutConnectionStep
<1>6. CASE UNCHANGED vars
  <2>1. UNCHANGED <<sess, inner, writer, reader, pending, nextId, stage, call, calls, last,
                    placed, up, toVenue, toClient, working, filled, reconciled>>
    BY <1>6 DEF vars, clientVars, callerVars, venueVars
  <2>2. WireInv' /\ CallInv'
    BY <2>1, QuietStep
  <2>3. TypeOK' /\ SessionInv' /\ FillsAreReal'
    BY <2>1 DEF IInv, TypeOK, SessionInv, FillsAreReal
  <2>4. QED BY <2>2, <2>3 DEF IInv
<1>7. QED BY <1>1, <1>2, <1>3, <1>4, <1>5, <1>6 DEF Next

LEMMA Invariance == Spec => []IInv
BY InitIInv, NextIInv, PTL DEF Spec

-----------------------------------------------------------------------------

\* Every variable of the client keeps its type; past the last session the
\* caller dials no more.
THEOREM ClientTyped == Spec => []TypeOK
<1>1. IInv => TypeOK
  BY DEF IInv
<1>2. QED BY <1>1, Invariance, PTL

\* The late answer of a call that timed out is never taken for the answer of
\* a later one, in the same session or in one after a reconnect
\* (client.rs:344, client.rs:434).
THEOREM AnswersMatch == Spec => []OwnAnswer
<1>1. IInv => OwnAnswer
  BY DEF IInv, CallInv, OwnAnswer
<1>2. QED BY <1>1, Invariance, PTL

\* send_order reports a fill only for an order the venue has filled.
THEOREM FillsReported == Spec => []FillsAreReal
<1>1. IInv => FillsAreReal
  BY DEF IInv
<1>2. QED BY <1>1, Invariance, PTL

\* No order is sent in a session that was not reconciled (client.rs:126).
THEOREM OrdersAreSynced == Spec => NoBlindOrder
<1>1. ASSUME IInv, [Next]_vars, placed' # placed, call'.ref.op = "order"
      PROVE  reconciled = sess
  <2>1. CASE SendOrder
    BY <1>1, <2>1, SendOrderStep
  <2>2. CASE RefuseOrder
    BY <1>1, <2>2, RefuseOrderStep
  <2>3. CASE OtherCall
    BY <1>1, <2>3, OtherCallStep
  <2>4. QED BY <1>1, <2>1, <2>2, <2>3
        DEF Next, vars, callerVars, Connect, OpenSocket, SocketFails, MarkConnected, ConnectStep,
            Dispatch, ReaderExit, TimeoutCall, ConnectReturn, ReconcileReturn, CallReturn,
            Reconnect, GiveUp, VenueAnswers, VenueTakesOrder, VenueWorksOrder, CutConnection
<1>2. QED BY <1>1, Invariance, PTL DEF Spec, NoBlindOrder

-----------------------------------------------------------------------------
(* The reader task.                                                        *)

SentFrames == [kind : Kinds, body : BodyLens, at : Nat]

\* Each frame starts where the one before it ends.
Chained ==
    \A i \in 1..Len(sent) : i + 1 \in 1..Len(sent) =>
        sent[i + 1].at = sent[i].at + Size(sent[i])

ReaderInv ==
    /\ ReaderTypeOK /\ Chained /\ FramingKept /\ HandledInOrder /\ OnlyErrorsDelay

LEMMA InitReaderInv == ReaderInit => ReaderInv
<1> SUFFICES ASSUME ReaderInit
             PROVE  ReaderInv
  OBVIOUS
<1>1. /\ sent = <<>> /\ handled = <<>> /\ next = 1 /\ wire = 0 /\ buffered = 0
      /\ phase = "read"
  BY DEF ReaderInit
<1>2. ReaderTypeOK
  BY <1>1 DEF ReaderTypeOK
<1>3. Chained /\ FramingKept /\ OnlyErrorsDelay
  BY <1>1 DEF Chained, FramingKept, Written, Start, OnlyErrorsDelay
<1>4. HandledInOrder
  BY <1>1 DEF HandledInOrder, ToSet
<1>5. QED BY <1>2, <1>3, <1>4 DEF ReaderInv

\* The bytes of a frame (codec.rs:41).
LEMMA SentFacts ==
    ASSUME ReaderInv, NEW i \in 1..Len(sent)
    PROVE  /\ sent[i] \in SentFrames /\ sent[i].at \in Nat
           /\ Size(sent[i]) \in Nat /\ Size(sent[i]) > HeaderLen /\ HeaderLen \in Nat \ {0}
           /\ Written \in Nat
<1>1. sent \in Seq(SentFrames)
  BY DEF ReaderInv, ReaderTypeOK, SentFrames
<1>2. \A j \in 1..Len(sent) : sent[j] \in SentFrames
  BY <1>1
<1>3. ASSUME NEW f \in SentFrames
      PROVE  f.at \in Nat /\ Size(f) \in Nat /\ Size(f) > HeaderLen
  <2>1. f.at \in Nat /\ f.body \in BodyLens
    BY DEF SentFrames
  <2>2. f.body \in Nat \ {0} /\ HeaderLen \in Nat
    BY <2>1, ReaderAssumption
  <2>3. QED BY <2>1, <2>2 DEF Size
<1>4. Len(sent) \in 1..Len(sent)
  BY <1>1
<1>5. Written \in Nat
  BY <1>2, <1>3, <1>4 DEF Written
<1>6. QED BY <1>2, <1>3, <1>5, ReaderAssumption

\* A header in the buffer is that of a frame the venue has written
\* (codec.rs:65): nothing is decoded past the end of the stream.
LEMMA HeaderIsOfAFrame ==
    ASSUME ReaderInv, HasHeader
    PROVE  next \in 1..Len(sent) /\ Start(next) = sent[next].at
<1>1. /\ buffered \in Nat /\ wire \in Nat /\ next \in 1..(Len(sent) + 1)
      /\ buffered + wire = Written - Start(next) /\ Len(sent) \in Nat
  BY DEF ReaderInv, ReaderTypeOK, FramingKept
<1>2. buffered >= 1
  BY <1>1, ReaderAssumption DEF HasHeader
<1>3. ASSUME next > Len(sent)
      PROVE  FALSE
  <2>1. Start(next) = Written
    BY <1>1, <1>3 DEF Start
  <2>2. CASE sent = <<>>
    BY <1>1, <1>2, <2>1, <2>2 DEF Written
  <2>3. CASE sent # <<>>
    <3>1. Len(sent) \in 1..Len(sent)
      BY <2>3 DEF ReaderInv, ReaderTypeOK
    <3>2. Written \in Nat
      BY <3>1, SentFacts
    <3>3. QED BY <1>1, <1>2, <2>1, <3>2
  <2>4. QED BY <2>2, <2>3
<1>4. QED BY <1>1, <1>3 DEF Start

\* Splitting a complete frame off leaves the buffer at the start of the next.
LEMMA ConsumeStep ==
    ASSUME ReaderInv, HasHeader, HasFrame, Consume, UNCHANGED <<sent, wire>>
    PROVE  /\ next \in 1..Len(sent) /\ next' = next + 1
           /\ buffered' \in Nat /\ FramingKept' /\ Chained'
<1>1. next \in 1..Len(sent) /\ Start(next) = sent[next].at
  BY HeaderIsOfAFrame
<1>2. /\ sent[next].at \in Nat /\ Size(sent[next]) \in Nat /\ Written \in Nat
  BY <1>1, SentFacts
<1>3. /\ buffered' = buffered - Size(sent[next]) /\ next' = next + 1 /\ sent' = sent /\ wire' = wire
      /\ buffered >= Size(sent[next])
  BY DEF Consume, HasFrame
<1>4. /\ buffered \in Nat /\ wire \in Nat /\ Len(sent) \in Nat
      /\ buffered + wire = Written - sent[next].at
  BY <1>1 DEF ReaderInv, ReaderTypeOK, FramingKept
<1>5. Written' = Written
  BY <1>3 DEF Written, Size
<1>6. next + 1 \in 1..Len(sent) \/ next = Len(sent)
  BY <1>1, <1>4
<1> DEFINE at == sent[next].at
           size == Size(sent[next])
           begin == Start(next)'
<1>7. FramingKept'
  <2>1. begin = at + size
    <3>1. begin = IF next + 1 <= Len(sent) THEN sent[next + 1].at ELSE Written
      BY <1>3, <1>5 DEF Start
    <3>2. CASE next + 1 \in 1..Len(sent)
      <4>1. sent[next + 1].at = at + size
        BY <1>1, <3>2 DEF ReaderInv, Chained
      <4>2. QED BY <1>4, <3>1, <3>2, <4>1
    <3>3. CASE next = Len(sent)
      <4>1. Written = at + size
        BY <1>1, <3>3 DEF Written
      <4>2. ~(next + 1 <= Len(sent))
        BY <1>4, <3>3
      <4>3. QED BY <3>1, <4>1, <4>2
    <3>4. QED BY <1>6, <3>2, <3>3
  <2>2. buffered' + wire' = Written' - begin
    <3> HIDE DEF at, size, begin
    <3>1. at \in Nat /\ size \in Nat
      BY <1>2 DEF at, size
    <3>2. buffered' = buffered - size /\ wire' = wire /\ buffered + wire = Written - at
      BY <1>3, <1>4 DEF at, size
    <3>3. QED BY <1>2, <1>4, <1>5, <2>1, <3>1, <3>2
  <2>3. QED BY <2>2 DEF FramingKept
<1>8. Chained'
  BY <1>3 DEF ReaderInv, Chained, Size
<1>9. buffered' \in Nat
  BY <1>2, <1>3, <1>4
<1>10. QED BY <1>1, <1>3, <1>7, <1>8, <1>9

LEMMA SendStep ==
    ASSUME ReaderInv, Send
    PROVE  ReaderInv'
<1>1. PICK f \in VenueFrames :
        /\ sent' = Append(sent, [kind |-> f.kind, body |-> f.body, at |-> Written])
        /\ wire' = wire + Size(f)
  BY DEF Send
<1> DEFINE g == [kind |-> f.kind, body |-> f.body, at |-> Written]
           n == Len(sent)
<1>2. /\ buffered' = buffered /\ next' = next /\ handled' = handled /\ phase' = phase
  BY DEF Send
<1>3. /\ sent \in Seq(SentFrames) /\ n \in Nat /\ wire \in Nat /\ buffered \in Nat
      /\ next \in 1..(n + 1) /\ handled \in Seq(1..n)
  BY DEF ReaderInv, ReaderTypeOK, SentFrames
<1>4. Written \in Nat
  <2>1. CASE sent = <<>>
    BY <2>1 DEF Written
  <2>2. CASE sent # <<>>
    <3>1. n \in 1..n
      BY <1>3, <2>2
    <3>2. QED BY <3>1, SentFacts
  <2>3. QED BY <2>1, <2>2
<1>5. /\ g \in SentFrames /\ g.at = Written /\ Size(g) = Size(f)
      /\ Size(f) \in Nat /\ Size(f) > HeaderLen
  <2>1. f.kind \in Kinds /\ f.body \in BodyLens
    BY DEF VenueFrames
  <2>2. f.body \in Nat \ {0} /\ HeaderLen \in Nat
    BY <2>1, ReaderAssumption
  <2>3. QED BY <1>4, <2>1, <2>2 DEF SentFrames, Size
<1> HIDE DEF g
<1>6. /\ sent' = Append(sent, g) /\ sent' \in Seq(SentFrames) /\ Len(sent') = n + 1
      /\ sent'[n + 1] = g
      /\ \A i \in 1..n : sent'[i] = sent[i]
  BY <1>1, <1>3, <1>5 DEF g
<1>7. Written' = Written + Size(f)
  <2>1. sent' # <<>>
    BY <1>3, <1>6
  <2>2. QED BY <1>5, <1>6, <2>1 DEF Written, Size
<1>8. Start(next)' = Start(next)
  <2>1. CASE next <= n
    BY <1>2, <1>3, <1>6, <2>1 DEF Start
  <2>2. CASE next = n + 1
    BY <1>2, <1>3, <1>5, <1>6, <2>2 DEF Start
  <2>3. QED BY <1>3, <2>1, <2>2
<1>9. Start(next) \in Nat
  <2>1. CASE next \in 1..n
    BY <2>1, SentFacts, <1>3 DEF Start
  <2>2. CASE next = n + 1
    BY <1>3, <1>4, <2>2 DEF Start
  <2>3. QED BY <1>3, <2>1, <2>2
<1>10. FramingKept'
  <2>1. buffered + wire = Written - Start(next)
    BY DEF ReaderInv, FramingKept
  <2>2. wire' = wire + Size(f) /\ buffered' = buffered
    BY <1>1, <1>2
  <2>3. wire \in Nat /\ buffered \in Nat /\ Size(f) \in Nat
    BY <1>3, <1>5
  <2>4. buffered' + wire' = Written' - Start(next)'
    BY <1>4, <1>7, <1>8, <1>9, <2>1, <2>2, <2>3
  <2>5. QED BY <2>4 DEF FramingKept
<1>11. Chained'
  <2>1. ASSUME NEW i \in 1..Len(sent)', i + 1 \in 1..Len(sent)'
        PROVE  sent'[i + 1].at = sent'[i].at + Size(sent'[i])
    <3>1. i \in 1..n /\ sent'[i] = sent[i]
      BY <1>3, <1>6, <2>1
    <3>2. CASE i + 1 \in 1..n
      BY <1>6, <3>1, <3>2 DEF ReaderInv, Chained
    <3>3. CASE i = n
      <4>1. sent # <<>>
        BY <3>1, <1>3
      <4>2. QED BY <1>5, <1>6, <3>1, <3>3, <4>1 DEF Written
    <3>4. QED BY <1>3, <1>6, <2>1, <3>1, <3>2, <3>3
  <2>2. QED BY <2>1 DEF Chained, Size
<1>12. ReaderTypeOK'
  <2>1. handled' \in Seq(1..Len(sent'))
    BY <1>2, <1>3, <1>6
  <2>2. wire' \in Nat
    BY <1>1, <1>3, <1>5
  <2>3. QED BY <1>2, <1>3, <1>6, <2>1, <2>2 DEF ReaderInv, ReaderTypeOK, SentFrames
<1>13. HandledInOrder'
  <2>1. \A i \in 1..(next - 1) : sent'[i] = sent[i]
    BY <1>3, <1>6
  <2>2. QED BY <1>2, <2>1 DEF ReaderInv, HandledInOrder
<1>14. OnlyErrorsDelay'
  <2>1. CASE next <= n
    <3>1. sent'[next] = sent[next] /\ (next > 1 => sent'[next - 1] = sent[next - 1])
      BY <1>3, <1>6, <2>1
    <3>2. QED BY <1>2, <1>3, <2>1, <3>1 DEF ReaderInv, OnlyErrorsDelay, HasHeader, HasFrame, Size
  <2>2. CASE next = n + 1
    <3>1. ~HasHeader
      BY <1>3, <2>2, HeaderIsOfAFrame
    <3>2. QED BY <1>2, <3>1 DEF OnlyErrorsDelay, HasHeader
  <2>3. QED BY <1>3, <2>1, <2>2
<1>15. QED BY <1>10, <1>11, <1>12, <1>13, <1>14 DEF ReaderInv

\* A step that leaves stream, buffer and handled frames as they are.
LEMMA BufferKept ==
    ASSUME ReaderInv, UNCHANGED <<sent, wire, buffered, next, handled>>,
           phase' \in {"read", "decode", "ended"}, OnlyErrorsDelay'
    PROVE  ReaderInv'
BY DEF ReaderInv, ReaderTypeOK, Chained, FramingKept, Written, Start, Size, HandledInOrder

LEMMA ReadStep ==
    ASSUME ReaderInv, Read
    PROVE  ReaderInv'
<1>1. PICK n \in 1..wire : wire' = wire - n /\ buffered' = buffered + n
  BY DEF Read
<1>2. sent' = sent /\ next' = next /\ handled' = handled /\ phase' = "decode"
  BY DEF Read
<1>3. wire \in Nat /\ buffered \in Nat
  BY DEF ReaderInv, ReaderTypeOK
<1>4. wire' \in Nat /\ buffered' \in Nat /\ buffered' + wire' = buffered + wire
  BY <1>1, <1>3
<1>5. ReaderTypeOK'
  BY <1>2, <1>4 DEF ReaderInv, ReaderTypeOK
<1>6. Chained' /\ FramingKept'
  BY <1>2, <1>4 DEF ReaderInv, Chained, FramingKept, Written, Start, Size
<1>7. HandledInOrder' /\ OnlyErrorsDelay'
  BY <1>2 DEF ReaderInv, HandledInOrder, OnlyErrorsDelay
<1>8. QED BY <1>5, <1>6, <1>7 DEF ReaderInv

\* A decoded frame is the next one that was not handled yet (client.rs:303).
LEMMA DecodeFrameStep ==
    ASSUME ReaderInv, DecodeFrame
    PROVE  ReaderInv'
<1>1. /\ phase = "decode" /\ HasHeader /\ HasFrame /\ Consume /\ sent[next].kind = "ok"
      /\ handled' = Append(handled, next) /\ UNCHANGED <<sent, wire, phase>>
  BY DEF DecodeFrame
<1>2. /\ next \in 1..Len(sent) /\ next' = next + 1
      /\ buffered' \in Nat /\ FramingKept' /\ Chained'
  BY <1>1, ConsumeStep
<1>3. /\ handled \in Seq(1..Len(sent)) /\ Len(sent) \in Nat
      /\ \A i, j \in DOMAIN handled : i < j => handled[i] < handled[j]
      /\ ToSet(handled) = {i \in 1..(next - 1) : sent[i].kind = "ok"}
  BY DEF ReaderInv, ReaderTypeOK, HandledInOrder
<1>4. /\ handled' \in Seq(1..Len(sent)) /\ Len(handled') = Len(handled) + 1
      /\ handled'[Len(handled) + 1] = next
      /\ \A i \in 1..Len(handled) : handled'[i] = handled[i]
      /\ Len(handled) \in Nat /\ DOMAIN handled = 1..Len(handled)
      /\ DOMAIN handled' = 1..(Len(handled) + 1)
  BY <1>1, <1>2, <1>3
<1>5. \A i \in 1..Len(handled) : handled[i] \in ToSet(handled)
  BY <1>4 DEF ToSet
<1>6. \A i \in 1..Len(handled) : handled[i] < next
  BY <1>2, <1>3, <1>5
<1>7. ReaderTypeOK'
  BY <1>1, <1>2, <1>4 DEF ReaderInv, ReaderTypeOK
<1> DEFINE n == Len(handled)
<1>8. ASSUME NEW i \in 1..(n + 1), NEW j \in 1..(n + 1), i < j
      PROVE  handled'[i] < handled'[j]
  <2>0. n \in Nat /\ i < j
    BY <1>4, <1>8
  <2>1. i \in 1..n /\ (j \in 1..n \/ j = n + 1)
    BY <2>0
  <2>2. CASE j \in 1..n
    BY <1>3, <1>4, <2>0, <2>1, <2>2
  <2>3. CASE j = n + 1
    BY <1>4, <1>6, <2>1, <2>3
  <2>4. QED BY <2>1, <2>2, <2>3
<1>9. ToSet(handled') = ToSet(handled) \cup {next}
  <2>1. {handled'[i] : i \in 1..(n + 1)} = {handled[i] : i \in 1..n} \cup {next}
    <3>1. \A i \in 1..(n + 1) : i \in 1..n \/ i = n + 1
      BY <1>4
    <3>2. n + 1 \in 1..(n + 1) /\ \A i \in 1..n : i \in 1..(n + 1)
      BY <1>4
    <3>3. QED BY <1>4, <3>1, <3>2
  <2>2. QED BY <1>4, <2>1 DEF ToSet
<1>10. {i \in 1..(next' - 1) : sent'[i].kind = "ok"}
         = {i \in 1..(next - 1) : sent[i].kind = "ok"} \cup {next}
  BY <1>1, <1>2, <1>3
<1>11. HandledInOrder'
  BY <1>3, <1>4, <1>8, <1>9, <1>10 DEF HandledInOrder
<1>12. OnlyErrorsDelay'
  BY <1>1 DEF OnlyErrorsDelay
<1>13. QED BY <1>2, <1>7, <1>11, <1>12 DEF ReaderInv

LEMMA BadBodyStep ==
    ASSUME ReaderInv, BadBody
    PROVE  ReaderInv'
<1>1. /\ phase = "decode" /\ phase' = "read" /\ HasHeader /\ HasFrame /\ Consume
      /\ sent[next].kind = "bad" /\ UNCHANGED <<sent, wire, handled>>
  BY DEF BadBody
<1>2. /\ next \in 1..Len(sent) /\ next' = next + 1
      /\ buffered' \in Nat /\ FramingKept' /\ Chained'
  BY <1>1, ConsumeStep
<1>3. Len(sent) \in Nat /\ next \in Int
  BY <1>2 DEF ReaderInv, ReaderTypeOK
<1>4. ReaderTypeOK'
  BY <1>1, <1>2, <1>3 DEF ReaderInv, ReaderTypeOK
<1>5. {i \in 1..(next' - 1) : sent'[i].kind = "ok"}
        = {i \in 1..(next - 1) : sent[i].kind = "ok"}
  BY <1>1, <1>2, <1>3
<1>6. HandledInOrder'
  BY <1>1, <1>5 DEF ReaderInv, HandledInOrder
<1>7. OnlyErrorsDelay'
  <2>1. next' > 1 /\ sent'[next' - 1].kind = "bad"
    BY <1>1, <1>2, <1>3
  <2>2. QED BY <2>1 DEF OnlyErrorsDelay
<1>8. QED BY <1>2, <1>4, <1>6, <1>7 DEF ReaderInv

LEMMA NextReaderInv == ReaderInv /\ [ReaderNext]_readerVars => ReaderInv'
<1> SUFFICES ASSUME ReaderInv, [ReaderNext]_readerVars
             PROVE  ReaderInv'
  OBVIOUS
<1>1. CASE Send
  BY <1>1, SendStep
<1>2. CASE StreamEnds
  BY <1>2, BufferKept DEF StreamEnds, OnlyErrorsDelay
<1>3. CASE Read
  BY <1>3, ReadStep
<1>4. CASE DecodeFrame
  BY <1>4, DecodeFrameStep
<1>5. CASE NeedMoreData
  <2>1. UNCHANGED <<sent, wire, buffered, next, handled>> /\ phase' = "read"
        /\ (HasHeader => sent[next].kind # "huge" /\ ~HasFrame)
    BY <1>5 DEF NeedMoreData
  <2>2. OnlyErrorsDelay'
    BY <2>1 DEF OnlyErrorsDelay, HasHeader, HasFrame, Size
  <2>3. QED BY <2>1, <2>2, BufferKept
<1>6. CASE BadBody
  BY <1>6, BadBodyStep
<1>7. CASE TooLarge
  BY <1>7, BufferKept DEF TooLarge, OnlyErrorsDelay
<1>8. CASE UNCHANGED readerVars
  <2>1. UNCHANGED <<sent, wire, buffered, next, handled, phase>>
    BY <1>8 DEF readerVars
  <2>2. OnlyErrorsDelay' /\ phase' \in {"read", "decode", "ended"}
    BY <2>1 DEF ReaderInv, ReaderTypeOK, OnlyErrorsDelay, HasHeader, HasFrame, Size
  <2>3. QED BY <2>1, <2>2, BufferKept
<1>9. QED BY <1>1, <1>2, <1>3, <1>4, <1>5, <1>6, <1>7, <1>8 DEF ReaderNext, Decode

LEMMA ReaderInvariance == ReaderSpec => []ReaderInv
BY InitReaderInv, NextReaderInv, PTL DEF ReaderSpec

\* Wherever the network cuts the stream, buffer and wire hold exactly the
\* frames from `next` on, and split_to (codec.rs:78) never runs past the
\* buffer.
THEOREM FramingNeverSlips == ReaderSpec => [](ReaderTypeOK /\ FramingKept)
<1>1. ReaderInv => ReaderTypeOK /\ FramingKept
  BY DEF ReaderInv
<1>2. QED BY <1>1, ReaderInvariance, PTL

\* handle_incoming sees every decodable frame once and in the order of the
\* venue (client.rs:303).
THEOREM HandledOnceInOrder == ReaderSpec => []HandledInOrder
<1>1. ReaderInv => HandledInOrder
  BY DEF ReaderInv
<1>2. QED BY <1>1, ReaderInvariance, PTL

\* A complete frame waits over a read only behind a frame that could not be
\* decoded (client.rs:301).
THEOREM DrainedButForErrors == ReaderSpec => []OnlyErrorsDelay
<1>1. ReaderInv => OnlyErrorsDelay
  BY DEF ReaderInv
<1>2. QED BY <1>1, ReaderInvariance, PTL
=============================================================================
