--------------------------- MODULE CtraderClient ----------------------------
(***************************************************************************)
(* The cTrader session client (gadarah-broker/src/client.rs): one blocking *)
(* caller, a reader task and a writer task over a TLS connection, requests *)
(* correlated with answers by client_msg_id, a ten-second timeout, and the *)
(* connect / authenticate / reconcile sequence that has to end before an   *)
(* order may leave.                                                        *)
(*                                                                         *)
(* The caller is the live loop: it makes one blocking call at a time and   *)
(* reconnects when is_connected() is false or a connect failed.  The venue *)
(* and the network are external: frames and answers may be delayed, an     *)
(* answer of an abandoned call may arrive late, an order may be accepted   *)
(* before it fills, and the connection may be cut at any moment; an order  *)
(* already on the wire of a cut connection may still execute.  The TCP     *)
(* connect and the TLS handshake have no timeout and may never come back.  *)
(*                                                                         *)
(* reset_inner() replaces the shared state by a fresh one, so `sess` names *)
(* the current CtraderInner; tasks of an earlier one cannot touch it.      *)
(* Heartbeats, spot ticks and payload encodings are left out.              *)
(***************************************************************************)
EXTENDS Integers

CONSTANTS
    MaxSessions,   \* bound: CtraderInner instances before the caller gives up
    MaxOrders,     \* bound: orders the caller places
    MaxCalls       \* bound: calls the caller makes besides connecting

ASSUME ConstantsAssumption ==
    /\ MaxSessions \in Nat \ {0}
    /\ MaxOrders \in Nat
    /\ MaxCalls \in Nat

VARIABLES
    sess,        \* which CtraderInner is current
    inner,       \* its flags: connected, authenticated, synced, ctid, account
    writer,      \* write_tx is Some
    reader,      \* the reader task: "none", "running" or "dead"
    pending,     \* message ids with an entry in the pending map
    nextId,      \* next client_msg_id
    stage,       \* where the caller is in connect_blocking
    call,        \* the request the caller is blocked on
    calls,       \* calls made besides connecting (bound)
    last,        \* outcome of the last order call
    placed,      \* orders given to send_order so far
    up,          \* sessions whose connection stands
    toVenue,     \* frames on their way to the venue
    toClient,    \* answers on their way back
    working,     \* orders accepted by the venue and not yet filled
    filled,      \* orders filled by the venue
    reconciled   \* the last session in which a reconcile was answered

clientVars == <<inner, writer, reader, pending, nextId>>
callerVars == <<stage, call, calls, last, placed, reconciled>>
venueVars  == <<up, toVenue, toClient, working, filled>>
vars == <<sess, clientVars, callerVars, venueVars>>

FreshInner == [connected |-> FALSE, authenticated |-> FALSE, synced |-> FALSE,
               ctid |-> FALSE, account |-> FALSE]

\* The order in which connect_and_auth and connect_blocking ask.
NextStage == [app |-> "acc", acc |-> "trader", trader |-> "symbols",
              symbols |-> "spots", spots |-> "reconcile",
              reconcile |-> "ready"]

ConnectOps == DOMAIN NextStage
LiveOps    == {"order", "close", "amend", "sync"}
Ops        == ConnectOps \cup LiveOps

NoOrder == 0
Refs    == [op : Ops, order : 0..MaxOrders]
NoRef   == [op |-> "none", order |-> NoOrder]

Idle == [ref |-> NoRef, id |-> 0, status |-> "idle", answer |-> NoRef]
Waiting == call.status = "waiting"

Init ==
    /\ sess = 1
    /\ inner = FreshInner
    /\ writer = FALSE
    /\ reader = "none"
    /\ pending = {}
    /\ nextId = 1
    /\ stage = "down"
    /\ call = Idle
    /\ calls = 0
    /\ last = [order |-> NoOrder, outcome |-> "none"]
    /\ placed = 0
    /\ up = {}
    /\ toVenue = {}
    /\ toClient = {}
    /\ working = {}
    /\ filled = {}
    /\ reconciled = 0

-----------------------------------------------------------------------------
(* Connecting.                                                             *)

\* connect_blocking starts a session.
Connect ==
    /\ stage = "down" /\ call.status = "idle"
    /\ stage' = "opening"
    /\ UNCHANGED <<sess, clientVars, call, calls, last, placed, reconciled,
                   venueVars>>

\* TCP connect and TLS handshake succeed, if they ever return; the writer
\* channel and the reader task exist.
OpenSocket ==
    /\ stage = "opening"
    /\ writer' = TRUE
    /\ reader' = "running"
    /\ up' = up \cup {sess}
    /\ stage' = "spawned"
    /\ UNCHANGED <<sess, inner, pending, nextId, call, calls, last, placed,
                   reconciled, toVenue, toClient, working, filled>>

SocketFails ==
    /\ stage = "opening"
    /\ stage' = "failed"
    /\ UNCHANGED <<sess, clientVars, call, calls, last, placed, reconciled,
                   venueVars>>

\* connected.store(true) comes after the reader task is spawned: the reader
\* may already be gone.
MarkConnected ==
    /\ stage = "spawned"
    /\ inner' = [inner EXCEPT !.connected = TRUE]
    /\ stage' = "app"
    /\ UNCHANGED <<sess, writer, reader, pending, nextId, call, calls, last,
                   placed, reconciled, venueVars>>

-----------------------------------------------------------------------------
(* One request: register the waiter, queue the frame, wait.                *)

\* Mutation of FreshId: the counter stands still.
SameId == nextId

FreshId == nextId + 1

\* Register the waiter and hand the frame to the writer.  Over a connection
\* that is down the writer channel still takes the frame, which is lost.
Ask(ref) ==
    /\ call.status = "idle"
    /\ writer
    /\ pending' = pending \cup {nextId}
    /\ nextId' = FreshId
    /\ call' = [ref |-> ref, id |-> nextId, status |-> "waiting", answer |-> NoRef]
    /\ toVenue' = IF sess \in up
                  THEN toVenue \cup {[sess |-> sess, id |-> nextId, ref |-> ref]}
                  ELSE toVenue

\* The writer task has ended: queue_frame fails and the waiter stays in the
\* pending map.
AskClosed(ref) ==
    /\ call.status = "idle"
    /\ writer
    /\ sess \notin up
    /\ pending' = pending \cup {nextId}
    /\ nextId' = FreshId
    /\ call' = [ref |-> ref, id |-> nextId, status |-> "error", answer |-> NoRef]
    /\ UNCHANGED toVenue

Request(ref) == Ask(ref) \/ AskClosed(ref)

\* Each step of connect_and_auth, and the reconcile of connect_blocking.
ConnectStep ==
    /\ stage \in ConnectOps
    /\ Request([op |-> stage, order |-> NoOrder])
    /\ UNCHANGED <<sess, inner, writer, reader, stage, calls, last, placed,
                   reconciled, up, toClient, working, filled>>

-----------------------------------------------------------------------------
(* What the live loop calls once connected.                                *)

\* The trait methods may be called between any two blocking calls, also on
\* a client whose connect failed half-way.
MayCall ==
    /\ stage \in {"down", "failed", "ready"}
    /\ call.status = "idle"
    /\ calls < MaxCalls

\* send_order_async checks account_synced and the account id, not the
\* connection.
MaySend == inner.synced /\ inner.ctid

SendOrder ==
    /\ MayCall
    /\ placed < MaxOrders
    /\ MaySend
    /\ placed' = placed + 1
    /\ calls' = calls + 1
    /\ Request([op |-> "order", order |-> placed + 1])
    /\ UNCHANGED <<sess, inner, writer, reader, stage, last, reconciled, up,
                   toClient, working, filled>>

\* An unsynced client answers NotSynced, one without account AuthFailed, and sends nothing.
RefuseOrder ==
    /\ MayCall
    /\ placed < MaxOrders
    /\ ~MaySend
    /\ placed' = placed + 1
    /\ calls' = calls + 1
    /\ last' = [order |-> placed + 1, outcome |-> "refused"]
    /\ UNCHANGED <<sess, clientVars, stage, call, reconciled, venueVars>>

\* close_position and modify_position check the account id only; reconcile
\* may be called at any time.
OtherCall ==
    /\ MayCall
    /\ inner.ctid
    /\ calls' = calls + 1
    /\ \E op \in {"close", "amend", "sync"} : Request([op |-> op, order |-> NoOrder])
    /\ UNCHANGED <<sess, inner, writer, reader, stage, last, placed,
                   reconciled, up, toClient, working, filled>>

-----------------------------------------------------------------------------
(* The reader task.                                                        *)

\* Which answers end a call well: placing and closing need a deal.  A refusal
\* that comes as an order-error event is a payload like any other, and the
\* amendment does not look into its payload.
\* Mutation of Completes: an acceptance is taken for the fill.
CompletesOnAccept(op, kind) == kind # "error"

Completes(op, kind) ==
    IF op \in {"order", "close"} THEN kind = "deal" ELSE kind # "error"

\* handle_incoming: account data is stored whoever asked for it; the waiter,
\* if there is one, is removed and answered; anything else is dropped.
Dispatch ==
    /\ reader = "running"
    /\ \E m \in toClient :
        /\ m.sess = sess
        /\ toClient' = toClient \ {m}
        /\ pending' = pending \ {m.id}
        /\ inner' = IF m.ref.op = "trader" /\ m.kind # "error"
                    THEN [inner EXCEPT !.account = TRUE] ELSE inner
        /\ call' = IF m.id \in pending /\ Waiting /\ call.id = m.id
                   THEN [call EXCEPT
                           !.status = IF Completes(call.ref.op, m.kind)
                                      THEN "ok" ELSE "error",
                           !.answer = m.ref]
                   ELSE call
    /\ UNCHANGED <<sess, writer, reader, nextId, stage, calls, last, placed,
                   reconciled, up, toVenue, working, filled>>

\* Mutation of ReaderExit: the loss of the connection is not recorded.
ReaderExitSilent ==
    /\ reader = "running"
    /\ sess \notin up
    /\ reader' = "dead"
    /\ pending' = {}
    /\ call' = IF Waiting /\ call.id \in pending
               THEN [call EXCEPT !.status = "error"] ELSE call
    /\ UNCHANGED <<sess, inner, writer, nextId, stage, calls, last, placed,
                   reconciled, venueVars>>

\* End of stream or a read error: the flags drop, every waiter is failed.
ReaderExit ==
    /\ reader = "running"
    /\ sess \notin up
    /\ reader' = "dead"
    /\ inner' = [inner EXCEPT !.connected = FALSE, !.authenticated = FALSE]
    /\ pending' = {}
    /\ call' = IF Waiting /\ call.id \in pending
               THEN [call EXCEPT !.status = "error"] ELSE call
    /\ UNCHANGED <<sess, writer, nextId, stage, calls, last, placed,
                   reconciled, venueVars>>

-----------------------------------------------------------------------------
(* The end of a call.                                                      *)

\* Mutation of TimeoutCall: the timer runs on the connection.
TimeoutConnected ==
    /\ Waiting
    /\ inner.connected
    /\ call' = [call EXCEPT !.status = "error"]
    /\ UNCHANGED <<sess, clientVars, stage, calls, last, placed, reconciled,
                   venueVars>>

\* Ten seconds pass; the waiter's entry stays in the pending map.
TimeoutCall ==
    /\ Waiting
    /\ call' = [call EXCEPT !.status = "error"]
    /\ UNCHANGED <<sess, clientVars, stage, calls, last, placed, reconciled,
                   venueVars>>

Answered == call.status \in {"ok", "error"}
Succeeded == call.status = "ok"

\* Mutation of Reset: the fresh state inherits the synced flag.
ResetKeepsSync ==
    /\ inner' = [FreshInner EXCEPT !.synced = inner.synced]
    /\ sess' = sess + 1
    /\ writer' = FALSE
    /\ reader' = "none"
    /\ pending' = {}
    /\ nextId' = 1
    /\ up' = up \ {sess}

\* reset_inner: a new CtraderInner takes the place of the old one.
Reset ==
    /\ sess' = sess + 1
    /\ inner' = FreshInner
    /\ writer' = FALSE
    /\ reader' = "none"
    /\ pending' = {}
    /\ nextId' = 1
    /\ up' = up \ {sess}

\* A step of connect_and_auth comes back.  The symbol list may leave nothing
\* to subscribe to.
ConnectReturn ==
    /\ Answered
    /\ stage \in ConnectOps \ {"reconcile"}
    /\ call' = Idle
    /\ \/ /\ Succeeded
          /\ \/ stage' = NextStage[stage]
             \/ stage = "symbols" /\ stage' = "reconcile"
          /\ inner' = IF stage = "acc"
                      THEN [inner EXCEPT !.ctid = TRUE, !.authenticated = TRUE]
                      ELSE inner
       \/ /\ ~Succeeded
          /\ stage' = "failed"
          /\ UNCHANGED inner
    /\ UNCHANGED <<sess, writer, reader, pending, nextId, calls, last, placed,
                   reconciled, venueVars>>

\* The reconcile inside connect_blocking opens the session for orders, or
\* tears it down.
ReconcileReturn ==
    /\ Answered
    /\ stage = "reconcile"
    /\ call' = Idle
    /\ \/ /\ Succeeded
          /\ inner' = [inner EXCEPT !.synced = TRUE]
          /\ reconciled' = sess
          /\ stage' = "ready"
          /\ UNCHANGED <<sess, writer, reader, pending, nextId, up>>
       \/ /\ ~Succeeded
          /\ Reset
          /\ stage' = "failed"
          /\ UNCHANGED reconciled
    /\ UNCHANGED <<calls, last, placed, toVenue, toClient, working, filled>>

\* A call of the live loop comes back; reconcile_blocking also moves the
\* synced flag.
CallReturn ==
    /\ Answered
    /\ stage \in {"down", "failed", "ready"}
    /\ call' = Idle
    /\ inner' = IF call.ref.op = "sync"
                THEN [inner EXCEPT !.synced = Succeeded] ELSE inner
    /\ reconciled' = IF call.ref.op = "sync" /\ Succeeded THEN sess ELSE reconciled
    /\ last' = IF call.ref.op = "order"
               THEN [order |-> call.ref.order, outcome |-> call.status] ELSE last
    /\ UNCHANGED <<sess, writer, reader, pending, nextId, stage, calls, placed,
                   venueVars>>

\* reconnect_blocking: one attempt of the backoff loop.
MustReconnect ==
    /\ call.status = "idle"
    /\ stage = "failed" \/ (stage = "ready" /\ ~inner.connected)

Reconnect ==
    /\ MustReconnect
    /\ sess < MaxSessions
    /\ Reset
    /\ stage' = "opening"
    /\ UNCHANGED <<call, calls, last, placed, reconciled, toVenue, toClient,
                   working, filled>>

\* The attempts are used up: the live loop exits.
GiveUp ==
    /\ MustReconnect
    /\ sess >= MaxSessions
    /\ stage' = "exited"
    /\ UNCHANGED <<sess, clientVars, call, calls, last, placed, reconciled,
                   venueVars>>

-----------------------------------------------------------------------------
(* The venue and the network (external).                                   *)

Answer(f, kind) ==
    IF f.sess \in up
    THEN toClient \cup {[sess |-> f.sess, id |-> f.id, ref |-> f.ref, kind |-> kind]}
    ELSE toClient

\* An error response, or the order-error event a position or an order is
\* refused with.
Refusals(op) == IF op \in {"order", "close", "amend"} THEN {"error", "refused"} ELSE {"error"}

Consents(op) == IF op = "close" THEN {"deal"} ELSE {"ok"}

\* The venue answers a request that is not an order, well or not.
VenueAnswers ==
    \E f \in toVenue :
        /\ f.ref.op # "order"
        /\ toVenue' = toVenue \ {f}
        /\ \E kind \in Consents(f.ref.op) \cup Refusals(f.ref.op) : toClient' = Answer(f, kind)
        /\ UNCHANGED <<sess, clientVars, callerVars, up, working, filled>>

\* An order is rejected, filled at once, or accepted first: ORDER_ACCEPTED
\* carries no deal.
VenueTakesOrder ==
    \E f \in toVenue :
        /\ f.ref.op = "order"
        /\ toVenue' = toVenue \ {f}
        /\ \/ /\ \E kind \in Refusals("order") : toClient' = Answer(f, kind)
              /\ UNCHANGED <<working, filled>>
           \/ /\ toClient' = Answer(f, "deal")
              /\ filled' = filled \cup {f.ref.order}
              /\ UNCHANGED working
           \/ /\ toClient' = Answer(f, "accepted")
              /\ working' = working \cup {f}
              /\ UNCHANGED filled
        /\ UNCHANGED <<sess, clientVars, callerVars, up>>

\* An accepted order fills, or is cancelled by the venue.
VenueWorksOrder ==
    \E f \in working :
        /\ working' = working \ {f}
        /\ \/ /\ toClient' = Answer(f, "deal")
              /\ filled' = filled \cup {f.ref.order}
           \/ /\ \E kind \in Refusals("order") : toClient' = Answer(f, kind)
              /\ UNCHANGED filled
        /\ UNCHANGED <<sess, clientVars, callerVars, up, toVenue>>

\* The connection is cut; answers in flight are lost, and so may be frames.
CutConnection ==
    /\ sess \in up
    /\ up' = up \ {sess}
    /\ toClient' = {}
    /\ \E lost \in SUBSET toVenue : toVenue' = toVenue \ lost
    /\ UNCHANGED <<sess, clientVars, callerVars, working, filled>>

-----------------------------------------------------------------------------
Next ==
    \/ Connect \/ OpenSocket \/ SocketFails \/ MarkConnected
    \/ ConnectStep \/ SendOrder \/ RefuseOrder \/ OtherCall
    \/ Dispatch \/ ReaderExit
    \/ TimeoutCall \/ ConnectReturn \/ ReconcileReturn \/ CallReturn
    \/ Reconnect \/ GiveUp
    \/ VenueAnswers \/ VenueTakesOrder \/ VenueWorksOrder \/ CutConnection

Spec == Init /\ [][Next]_vars

\* The caller's thread runs, the timer fires, and a read on a closed socket
\* returns.  Nothing is assumed of the venue or the network, so nothing of
\* OpenSocket and SocketFails either: a connect may hang.
Fairness ==
    /\ WF_vars(MarkConnected)
    /\ WF_vars(ConnectStep)
    /\ WF_vars(TimeoutCall)
    /\ WF_vars(ConnectReturn)
    /\ WF_vars(ReconcileReturn)
    /\ WF_vars(CallReturn)
    /\ WF_vars(Reconnect)
    /\ WF_vars(GiveUp)
    /\ WF_vars(ReaderExit)

FairSpec == Spec /\ Fairness

-----------------------------------------------------------------------------
(* Properties.                                                             *)

Frames == [sess : 1..MaxSessions + 1, id : Nat, ref : Refs]

TypeOK ==
    /\ sess \in 1..MaxSessions + 1
    /\ inner \in [connected : BOOLEAN, authenticated : BOOLEAN, synced : BOOLEAN,
                  ctid : BOOLEAN, account : BOOLEAN]
    /\ writer \in BOOLEAN
    /\ reader \in {"none", "running", "dead"}
    /\ pending \subseteq Nat
    /\ nextId \in Nat
    /\ stage \in ConnectOps \cup {"down", "opening", "spawned", "ready", "failed", "exited"}
    /\ call \in [ref : Refs \cup {NoRef}, id : Nat,
                 status : {"idle", "waiting", "ok", "error"},
                 answer : Refs \cup {NoRef}]
    /\ last \in [order : 0..MaxOrders,
                 outcome : {"none", "ok", "error", "refused"}]
    /\ placed \in 0..MaxOrders
    /\ up \subseteq 1..MaxSessions
    /\ toVenue \subseteq Frames
    /\ toClient \subseteq [sess : 1..MaxSessions, id : Nat, ref : Refs,
                           kind : {"ok", "error", "refused", "deal", "accepted"}]
    /\ working \subseteq Frames
    /\ filled \subseteq 1..MaxOrders
    /\ reconciled \in 0..MaxSessions

\* An order leaves only in a session whose reconcile was answered: never
\* blind after a reconnect (client.rs:126).  The ghost `reconciled` is not
\* read by any action.
NoBlindOrder ==
    [][placed' # placed /\ call'.ref.op = "order" => reconciled = sess]_vars

\* A call is only ever answered by the answer to that call: the late answer
\* of a call that timed out is not taken for the answer of a later one.
OwnAnswer == Succeeded => call.answer = call.ref

\* send_order reports a fill only for an order the venue filled.
FillsAreReal == last.outcome = "ok" => last.order \in filled

\* The caller is inside a call of the client that talks over an open socket:
\* one request, or the whole of connect_blocking from its socket on.
Blocked == call.status # "idle" \/ stage \in ConnectOps \cup {"spawned"}

\* Over an open socket no call blocks for good, whatever the venue and the
\* network do.  Opening the socket has no timeout (client.rs:473-484); if that
\* returns each time, a failed connect is tried again until a session stands
\* or the attempts are used up.
CallsReturn ==
    /\ Blocked ~> ~Blocked
    /\ []<>(stage # "opening") => (stage = "failed" ~> stage \in {"ready", "exited"})

\* Connecting ends.  It may not: neither the TCP connect nor the TLS handshake
\* has a timeout.
ConnectReturns == stage = "opening" ~> stage # "opening"

\* A position reported as amended was amended: modify_position's Ok(()) is no
\* answer to a refusal (client.rs:984).
AmendsAreReal ==
    [][\A m \in toClient : m \notin toClient' /\ m.kind = "refused" /\ m.sess = sess /\ call.id = m.id
          => ~(Waiting /\ Succeeded')]_vars

\* The loss of the connection is noticed: a session whose reader is gone
\* shows as disconnected, is replaced, or the loop exits.  It covers the race
\* in which the reader ends before connected is stored.
LossNoticed ==
    (reader = "dead" /\ inner.connected)
        ~> (~inner.connected \/ reader # "dead" \/ stage = "exited")

\* client.rs:806 of is_account_synced(): "Clears on disconnect/reconnect
\* until reconcile runs again."
SyncClearsOnDisconnect == reader = "dead" /\ ~inner.connected => ~inner.synced

\* client.rs:129 of write_tx: "None when disconnected."
WriterNoneWhenDisconnected == reader = "dead" /\ ~inner.connected => ~writer
=============================================================================
