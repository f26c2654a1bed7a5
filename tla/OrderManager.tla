---------------------------- MODULE OrderManager ----------------------------
(***************************************************************************)
(* The order manager of src/execution/oms.ts against an asynchronous       *)
(* broker.  JavaScript runs one event-loop turn at a time, so an action is *)
(* the code between two awaits: a caller stages an order and awaits        *)
(* broker.submit, the request is decided at the exchange, the answer (or   *)
(* its loss) resumes the caller.  Between the awaits of one caller any     *)
(* other caller, a fill, a cancel or a reconciliation may run.             *)
(*                                                                         *)
(* A key stands for a trade intent: idempotencyKeyFor is a function of the *)
(* intent and is taken to be injective, as is the truncation that makes an *)
(* order id of it, so that `orders' and `keyRegistry', which the code      *)
(* always writes together, are one function of the key.  Prices, audit     *)
(* records and timestamps are left out; fills of one order are assumed     *)
(* distinguishable by (timestamp, quantity, price), which is what          *)
(* applyFill compares.                                                     *)
(***************************************************************************)
EXTENDS Integers, FiniteSets

CONSTANTS
  Keys,        \* idempotency keys, one per trade intent
  BrokerIds,   \* order ids the exchange can hand out
  Callers,     \* concurrent async calls into the order manager
  NoBid,       \* "no broker order id yet"
  Quantity,    \* request.quantity, the same for every order
  MaxRetries,  \* OrderManagerConfig.maxRetries
  MaxRestarts, \* bound: how often the process dies
  Ops          \* which of "cancel" and "reconcile" the callers use

ASSUME KeysAssumption     == Keys # {}
ASSUME QuantityAssumption == Quantity \in Nat \ {0}
ASSUME RetriesAssumption  == MaxRetries \in Nat
ASSUME RestartsAssumption == MaxRestarts \in Nat
ASSUME NoBidAssumption    == NoBid \notin BrokerIds
ASSUME OpsAssumption      == Ops \subseteq {"cancel", "reconcile"}

VARIABLES
  orders,   \* key -> the Order the manager holds (status "ABSENT": none)
  seen,     \* key -> the fills folded into that order (fillsByOrder)
  calls,    \* caller -> the async call it is suspended in
  epoch,    \* how often the process has been restarted
  exchange, \* broker id -> the order the exchange holds under it
  fills,    \* every fill the exchange has produced
  wire      \* submissions whose caller no longer waits but that may yet arrive

vars == <<orders, seen, calls, epoch, exchange, fills, wire>>

-----------------------------------------------------------------------------
(* Order statuses and the state machine.                                   *)

Status   == {"PENDING_NEW", "OPEN", "PARTIALLY_FILLED", "FILLED",
             "CANCELLED", "REJECTED"}
Terminal == {"FILLED", "CANCELLED", "REJECTED"}
Working  == {"OPEN", "PARTIALLY_FILLED"}

AllowedTransitions ==
  [s \in Status |->
     CASE s = "PENDING_NEW"      -> Status \ {"PENDING_NEW"}
       [] s = "OPEN"             -> Status \ {"PENDING_NEW", "OPEN"}
       [] s = "PARTIALLY_FILLED" -> {"PARTIALLY_FILLED", "FILLED", "CANCELLED"}
       [] OTHER                  -> {}]

CanTransition(from, to) == to \in AllowedTransitions[from]

\* transition() throws OrderStateError, leaving the order alone, when illegal.
Legal(o, to)      == o.status = to \/ CanTransition(o.status, to)
Transition(o, to) == IF Legal(o, to) THEN [o EXCEPT !.status = to] ELSE o

NoOrder  == [status |-> "ABSENT", bid |-> NoBid, filled |-> 0]
Unplaced == [status |-> "ABSENT", key |-> CHOOSE k \in Keys : TRUE,
             epoch |-> 0, filled |-> 0]
Idle     == [op |-> "idle", at |-> "sent", key |-> CHOOSE k \in Keys : TRUE,
             bid |-> NoBid, attempt |-> 0, order |-> NoOrder, remote |-> NoOrder,
             visited |-> {}]

Order         == [status : Status \cup {"ABSENT"}, bid : BrokerIds \cup {NoBid},
                  filled : Nat]
ExchangeOrder == [status : Status \cup {"ABSENT"}, key : Keys,
                  epoch : 0..MaxRestarts, filled : 0..Quantity]
Fill          == [bid : BrokerIds, upTo : 1..Quantity, qty : 1..Quantity]
Call          == [op : {"idle", "submit", "cancel", "reconcile"},
                  at : {"sent", "failed", "done"}, key : Keys, bid : BrokerIds \cup {NoBid},
                  attempt : 0..MaxRetries, order : Order, remote : Order,
                  visited : SUBSET Keys]
Request       == [key : Keys, epoch : 0..MaxRestarts]

TypeOK ==
  /\ orders   \in [Keys -> Order]
  /\ seen     \in [Keys -> SUBSET Fill]
  /\ calls    \in [Callers -> Call]
  /\ epoch    \in 0..MaxRestarts
  /\ exchange \in [BrokerIds -> ExchangeOrder]
  /\ fills    \subseteq Fill
  /\ wire     \subseteq Request

Init ==
  /\ orders   = [k \in Keys |-> NoOrder]
  /\ seen     = [k \in Keys |-> {}]
  /\ calls    = [c \in Callers |-> Idle]
  /\ epoch    = 0
  /\ exchange = [b \in BrokerIds |-> Unplaced]
  /\ fills    = {}
  /\ wire     = {}

SetCall(c, call) == calls' = [calls EXCEPT ![c] = call]
SetOrder(k, o)   == orders' = [orders EXCEPT ![k] = o]
Waiting(c, op, at) == calls[c].op = op /\ calls[c].at = at

-----------------------------------------------------------------------------
(* submit                                                                  *)

\* The key registry.  A registered key is refused with no other effect.
Unregistered(k) == FALSE                   \* mutant: the registry is not consulted
Registered(k)   == orders[k].status # "ABSENT"

Stage(k) == SetOrder(k, [NoOrder EXCEPT !.status = "PENDING_NEW"])

\* Stage and register, then await broker.submit, all in one turn.
Submit(c, k) ==
  /\ calls[c].op = "idle"
  /\ ~Registered(k)
  /\ Stage(k)
  /\ SetCall(c, [Idle EXCEPT !.op = "submit", !.key = k])
  /\ UNCHANGED <<seen, epoch, exchange, fills, wire>>

\* The acknowledgement: transition to OPEN with the broker's id.  When the
\* order has meanwhile been closed that throws inside the try block, is caught
\* as a non-retryable error, and transition(REJECTED) throws in its turn.
Acknowledged(o, b) ==
  IF Legal(o, "OPEN") THEN [o EXCEPT !.status = "OPEN", !.bid = b]
                      ELSE Transition(o, "REJECTED")

SubmitAck(c) ==
  /\ Waiting(c, "submit", "done")
  /\ SetOrder(calls[c].key, Acknowledged(orders[calls[c].key], calls[c].bid))
  /\ SetCall(c, Idle)
  /\ UNCHANGED <<seen, epoch, exchange, fills, wire>>

\* A BrokerError: nothing was placed.  Retryable ones are tried again.
SubmitFails(c) ==
  /\ Waiting(c, "submit", "sent")
  /\ SetCall(c, [calls[c] EXCEPT !.at = "failed"])
  /\ UNCHANGED <<orders, seen, epoch, exchange, fills, wire>>

RetryForever(c)  == TRUE                   \* mutant: no bound on the attempts
RetriesLeft(c)   == calls[c].attempt < MaxRetries
SameAttempt(c)   == [calls[c] EXCEPT !.at = "sent"]  \* mutant: attempt is not incremented
NextAttempt(c)   == [calls[c] EXCEPT !.at = "sent", !.attempt = @ + 1]

SubmitRetry(c) ==
  /\ Waiting(c, "submit", "failed")
  /\ RetriesLeft(c)
  /\ SetCall(c, NextAttempt(c))
  /\ UNCHANGED <<orders, seen, epoch, exchange, fills, wire>>

SubmitRefused(c) ==
  /\ Waiting(c, "submit", "failed")
  /\ SetOrder(calls[c].key, Transition(orders[calls[c].key], "REJECTED"))
  /\ SetCall(c, Idle)
  /\ UNCHANGED <<seen, epoch, exchange, fills, wire>>

\* A BrokerUncertainError: a timeout, a dropped connection or a 5xx.  The
\* exchange may have the order already, or get it later.  The order is left as
\* it is, PENDING_NEW, and nothing is sent again.
ForgetUncertain(c) ==                      \* mutant: the staged order is dropped
  /\ SetOrder(calls[c].key, NoOrder)
  /\ SetCall(c, Idle)
RejectUncertain(c) ==                      \* mutant: uncertain treated as failed
  /\ SetOrder(calls[c].key, Transition(orders[calls[c].key], "REJECTED"))
  /\ SetCall(c, Idle)
RetryUncertain(c) ==                       \* mutant: uncertain retried blindly
  /\ UNCHANGED orders
  /\ SetCall(c, IF RetriesLeft(c) THEN [NextAttempt(c) EXCEPT !.bid = NoBid]
                                  ELSE Idle)
LeavePending(c) ==
  /\ UNCHANGED orders
  /\ SetCall(c, Idle)

Orphan(c) == IF calls[c].op = "submit" /\ calls[c].at = "sent"
             THEN {[key |-> calls[c].key, epoch |-> epoch]} ELSE {}

SubmitUncertain(c) ==
  /\ Waiting(c, "submit", "sent") \/ Waiting(c, "submit", "done")
  /\ LeavePending(c)
  /\ wire' = wire \cup Orphan(c)
  /\ UNCHANGED <<seen, epoch, exchange, fills>>

-----------------------------------------------------------------------------
(* applyFill                                                               *)

\* A fill names the exchange's order id; findByBrokerOrderId looks it up.  A
\* fill for an order the manager does not hold throws and changes nothing.
\* A fill seen before is ignored.  The fill is remembered before transition()
\* is tried, so one that arrives for a closed order is remembered, not counted.
Filled(o, f) ==
  LET total == o.filled + f.qty
      to    == IF total >= Quantity THEN "FILLED" ELSE "PARTIALLY_FILLED"
  IN  IF Legal(o, to) THEN [o EXCEPT !.status = to, !.filled = total] ELSE o

FoldAgain(k, f)   == FALSE                 \* mutant: fills are not deduplicated
AlreadySeen(k, f) == f \in seen[k]

ApplyFill(k, f) ==
  /\ orders[k].bid = f.bid
  /\ ~AlreadySeen(k, f)
  /\ seen' = [seen EXCEPT ![k] = @ \cup {f}]
  /\ SetOrder(k, Filled(orders[k], f))
  /\ UNCHANGED <<calls, epoch, exchange, fills, wire>>

-----------------------------------------------------------------------------
(* cancel                                                                  *)

\* Without a broker id the order is cancelled on the spot, even while the
\* submission that created it is in flight.
CancelUnsent(c, k) ==
  /\ "cancel" \in Ops
  /\ calls[c].op = "idle"
  /\ orders[k].status \notin Terminal \cup {"ABSENT"}
  /\ orders[k].bid = NoBid
  /\ SetOrder(k, Transition(orders[k], "CANCELLED"))
  /\ UNCHANGED <<seen, calls, epoch, exchange, fills, wire>>

Cancel(c, k) ==
  /\ "cancel" \in Ops
  /\ calls[c].op = "idle"
  /\ orders[k].status \notin Terminal \cup {"ABSENT"}
  /\ orders[k].bid # NoBid
  /\ SetCall(c, [Idle EXCEPT !.op = "cancel", !.key = k, !.bid = orders[k].bid])
  /\ UNCHANGED <<orders, seen, epoch, exchange, fills, wire>>

CancelReturns(c) ==
  /\ Waiting(c, "cancel", "done")
  /\ SetOrder(calls[c].key, Transition(orders[calls[c].key], "CANCELLED"))
  /\ SetCall(c, Idle)
  /\ UNCHANGED <<seen, epoch, exchange, fills, wire>>

\* The broker refuses (the order is no longer open) or the answer is lost.
CancelFails(c) ==
  /\ calls[c].op = "cancel"
  /\ SetCall(c, Idle)
  /\ UNCHANGED <<orders, seen, epoch, exchange, fills, wire>>

-----------------------------------------------------------------------------
(* reconcile: for each order that is not closed and has a broker id, ask   *)
(* the broker, then write the answer over the order as it was when asked.  *)
(* The code walks the map in insertion order and moves on in the turn that *)
(* handled the last answer; here any unvisited order may be next, and other *)
(* callers may run before it is.                                           *)

Reconcilable(k) == orders[k].status \notin Terminal \cup {"ABSENT"} /\ orders[k].bid # NoBid

Reconcile(c) ==
  /\ "reconcile" \in Ops
  /\ calls[c].op = "idle"
  /\ SetCall(c, [Idle EXCEPT !.op = "reconcile", !.at = "done"])
  /\ UNCHANGED <<orders, seen, epoch, exchange, fills, wire>>

ReconcileAsks(c, k) ==
  /\ Waiting(c, "reconcile", "done")
  /\ calls[c].bid = NoBid
  /\ k \notin calls[c].visited
  /\ Reconcilable(k)
  /\ SetCall(c, [calls[c] EXCEPT !.at = "sent", !.key = k, !.bid = orders[k].bid,
                                 !.order = orders[k], !.visited = @ \cup {k}])
  /\ UNCHANGED <<orders, seen, epoch, exchange, fills, wire>>

Adopted(order, remote) == [order EXCEPT !.status = remote.status, !.filled = remote.filled]

ReconcileAdopts(c) ==
  /\ Waiting(c, "reconcile", "done")
  /\ calls[c].bid # NoBid
  /\ orders' = IF \/ calls[c].remote.status # calls[c].order.status
                  \/ calls[c].remote.filled # calls[c].order.filled
               THEN [orders EXCEPT ![calls[c].key] = Adopted(calls[c].order, calls[c].remote)]
               ELSE orders
  /\ SetCall(c, [Idle EXCEPT !.op = "reconcile", !.at = "done",
                             !.visited = calls[c].visited])
  /\ UNCHANGED <<seen, epoch, exchange, fills, wire>>

\* The broker has no record of the order: a break is noted, the walk goes on.
ReconcileSkips(c) ==
  /\ Waiting(c, "reconcile", "sent")
  /\ SetCall(c, [Idle EXCEPT !.op = "reconcile", !.at = "done",
                             !.visited = calls[c].visited])
  /\ UNCHANGED <<orders, seen, epoch, exchange, fills, wire>>

\* The walk is over, or getOrder threw.
ReconcileEnds(c) ==
  /\ calls[c].op = "reconcile"
  /\ \/ calls[c].at = "sent"
     \/ calls[c].bid = NoBid /\ \A k \in Keys \ calls[c].visited : ~Reconcilable(k)
  /\ SetCall(c, Idle)
  /\ UNCHANGED <<orders, seen, epoch, exchange, fills, wire>>

-----------------------------------------------------------------------------
(* The exchange.  It does not deduplicate: to Kite the idempotency key is  *)
(* only a tag on the order.                                                *)

Place(b, r) == exchange' = [exchange EXCEPT ![b] =
                  [status |-> "OPEN", key |-> r.key, epoch |-> r.epoch, filled |-> 0]]

ExchangeAccepts(c, b) ==
  /\ Waiting(c, "submit", "sent")
  /\ exchange[b].status = "ABSENT"
  /\ Place(b, [key |-> calls[c].key, epoch |-> epoch])
  /\ SetCall(c, [calls[c] EXCEPT !.at = "done", !.bid = b])
  /\ UNCHANGED <<orders, seen, epoch, fills, wire>>

ExchangeAcceptsOrphan(r, b) ==
  /\ r \in wire
  /\ exchange[b].status = "ABSENT"
  /\ Place(b, r)
  /\ wire' = wire \ {r}
  /\ UNCHANGED <<orders, seen, calls, epoch, fills>>

ExchangeFills(b, q) ==
  /\ exchange[b].status \in Working
  /\ exchange[b].filled + q <= Quantity
  /\ LET total == exchange[b].filled + q
     IN  /\ exchange' = [exchange EXCEPT
                           ![b].filled = total,
                           ![b].status = IF total = Quantity THEN "FILLED"
                                                             ELSE "PARTIALLY_FILLED"]
         /\ fills' = fills \cup {[bid |-> b, upTo |-> total, qty |-> q]}
  /\ UNCHANGED <<orders, seen, calls, epoch, wire>>

\* Expired at the close, cancelled in the broker's own terminal, or rejected
\* by the exchange after the broker had accepted it.
ExchangeCloses(b) ==
  /\ exchange[b].status \in Working
  /\ \E s \in {"CANCELLED"} \cup {t \in {"REJECTED"} : exchange[b].filled = 0} :
        exchange' = [exchange EXCEPT ![b].status = s]
  /\ UNCHANGED <<orders, seen, calls, epoch, fills, wire>>

ExchangeCancels(c) ==
  /\ Waiting(c, "cancel", "sent")
  /\ exchange[calls[c].bid].status \in Working
  /\ exchange' = [exchange EXCEPT ![calls[c].bid].status = "CANCELLED"]
  /\ SetCall(c, [calls[c] EXCEPT !.at = "done"])
  /\ UNCHANGED <<orders, seen, epoch, fills, wire>>

ExchangeReports(c) ==
  /\ Waiting(c, "reconcile", "sent")
  /\ SetCall(c, [calls[c] EXCEPT !.at = "done",
                   !.remote = [status |-> exchange[calls[c].bid].status,
                               bid    |-> calls[c].bid,
                               filled |-> exchange[calls[c].bid].filled]])
  /\ UNCHANGED <<orders, seen, epoch, exchange, fills, wire>>

\* The process dies: the maps and the suspended calls are gone, the exchange
\* and the requests on their way to it are not.
Restart ==
  /\ epoch < MaxRestarts
  /\ epoch'  = epoch + 1
  /\ orders' = [k \in Keys |-> NoOrder]
  /\ seen'   = [k \in Keys |-> {}]
  /\ calls'  = [c \in Callers |-> Idle]
  /\ wire'   = wire \cup UNION {Orphan(c) : c \in Callers}
  /\ UNCHANGED <<exchange, fills>>

-----------------------------------------------------------------------------
SubmitStep(c)    == \/ SubmitAck(c) \/ SubmitFails(c) \/ SubmitRetry(c) \/ SubmitRefused(c)
                    \/ SubmitUncertain(c)
                    \/ \E b \in BrokerIds : ExchangeAccepts(c, b)
CancelStep(c)    == CancelReturns(c) \/ CancelFails(c) \/ ExchangeCancels(c)
ReconcileStep(c) == \/ ReconcileAdopts(c) \/ ReconcileSkips(c) \/ ReconcileEnds(c)
                    \/ ExchangeReports(c)
                    \/ \E k \in Keys : ReconcileAsks(c, k)

Next ==
  \/ \E c \in Callers, k \in Keys : Submit(c, k) \/ CancelUnsent(c, k) \/ Cancel(c, k)
  \/ \E c \in Callers : SubmitStep(c) \/ CancelStep(c) \/ ReconcileStep(c) \/ Reconcile(c)
  \/ \E k \in Keys, f \in fills : ApplyFill(k, f)
  \/ \E r \in wire, b \in BrokerIds : ExchangeAcceptsOrphan(r, b)
  \/ \E b \in BrokerIds, q \in 1..Quantity : ExchangeFills(b, q)
  \/ \E b \in BrokerIds : ExchangeCloses(b)
  \/ Restart

Spec == Init /\ [][Next]_vars

\* The event loop resumes an awaiting call, and the connector's abort timer
\* bounds every wait; nothing makes the exchange trade or the process restart.
Fairness == \A c \in Callers : /\ WF_vars(SubmitStep(c))
                               /\ WF_vars(CancelStep(c))
                               /\ WF_vars(ReconcileStep(c))
FairSpec == Spec /\ Fairness

\* ... and reconcile is "called on startup and periodically".
PeriodicSpec == FairSpec /\ \A c \in Callers : WF_vars(Reconcile(c))

-----------------------------------------------------------------------------
(* Properties                                                              *)

Placed(b)    == exchange[b].status # "ABSENT"
Live(b, k)   == Placed(b) /\ exchange[b].key = k /\ exchange[b].epoch = epoch
Submitting(k) == \E c \in Callers : calls[c].op = "submit" /\ calls[c].key = k

\* One intent, one order: during one life of the process the exchange never
\* holds two orders for the same key, whatever is retried, lost or delayed.
OneIntentOneOrder ==
  \A b1, b2 \in BrokerIds :
    /\ Placed(b1) /\ Placed(b2)
    /\ exchange[b1].key = exchange[b2].key
    /\ exchange[b1].epoch = exchange[b2].epoch
    => b1 = b2

\* A broker id recorded on an order is that of the exchange order placed for
\* this very intent, in this life of the process.
BoundToOwnIntent ==
  \A k \in Keys : orders[k].bid # NoBid => Live(orders[k].bid, k)

\* Why: the one request an intent ever causes is in one place at a time, on
\* the wire under a waiting caller, orphaned on the wire, or at the exchange,
\* and wherever it is the manager has the intent on record.
NothingFromTheFuture ==
  /\ \A b \in BrokerIds : Placed(b) => exchange[b].epoch <= epoch
  /\ \A r \in wire : r.epoch <= epoch
OnRecord ==
  /\ \A b \in BrokerIds, k \in Keys : Live(b, k) => orders[k].status # "ABSENT"
  /\ \A k \in Keys : [key |-> k, epoch |-> epoch] \in wire => orders[k].status # "ABSENT"
  /\ \A k \in Keys : Submitting(k) => orders[k].status # "ABSENT"
OneCaller ==
  \A c1, c2 \in Callers : calls[c1].op = "submit" /\ calls[c2].op = "submit"
                           /\ calls[c1].key = calls[c2].key => c1 = c2
OnePlace ==
  /\ \A c \in Callers : Waiting(c, "submit", "sent") \/ Waiting(c, "submit", "failed") =>
       /\ \A b \in BrokerIds : ~Live(b, calls[c].key)
       /\ [key |-> calls[c].key, epoch |-> epoch] \notin wire
  /\ \A c \in Callers : Waiting(c, "submit", "done") =>
       calls[c].bid \in BrokerIds /\ Live(calls[c].bid, calls[c].key)
  /\ \A b \in BrokerIds : Placed(b) =>
       [key |-> exchange[b].key, epoch |-> exchange[b].epoch] \notin wire
AnswersAreOrders ==
  \A c \in Callers : calls[c].op = "reconcile" /\ calls[c].bid # NoBid =>
    /\ Live(calls[c].bid, calls[c].key)
    /\ calls[c].order.bid = calls[c].bid
    /\ calls[c].at = "done" => calls[c].remote.status # "ABSENT"
OneRequestPerIntent == /\ NothingFromTheFuture /\ OnRecord /\ OneCaller /\ OnePlace
                       /\ AnswersAreOrders /\ BoundToOwnIntent /\ OneIntentOneOrder

\* The same across restarts, as the header of oms.ts and the README say it.
OneIntentOneOrderEver ==
  \A b1, b2 \in BrokerIds :
    Placed(b1) /\ Placed(b2) /\ exchange[b1].key = exchange[b2].key => b1 = b2

\* Whatever the exchange holds, the manager has a record of: an order placed
\* in this life whose id never came back is still being submitted, or is
\* parked PENDING_NEW for a human to check.  It is never absent, never
\* REJECTED and never taken for open.
LostAckIsParked ==
  \A k \in Keys, b \in BrokerIds :
    Live(b, k) /\ orders[k].bid # b => orders[k].status = "PENDING_NEW"

\* An order shown REJECTED is not working and has not traded at the exchange,
\* and no request that could still place it is on its way.
RejectedMeansNotPlaced ==
  \A k \in Keys : orders[k].status = "REJECTED" =>
    /\ \A b \in BrokerIds : Live(b, k) => exchange[b].status = "REJECTED"
    /\ [key |-> k, epoch |-> epoch] \notin wire
    /\ ~Submitting(k)

\* An acknowledgement never finds its order in a state that may not open.
AckFindsOrderPending ==
  \A c \in Callers : Waiting(c, "submit", "done") =>
    CanTransition(orders[calls[c].key].status, "OPEN")

\* The quantity the manager shows as filled is one the exchange really filled:
\* no fill is counted twice.
NeverOverfilled ==
  \A k \in Keys : orders[k].filled > 0 =>
    orders[k].bid # NoBid /\ orders[k].filled <= exchange[orders[k].bid].filled

\* What production does with orders it holds: it submits them and folds their
\* fills.  Nobody cancels one or reconciles the manager while it runs.
SubmitsOnly ==
  /\ \A c \in Callers : calls[c].op \in {"idle", "submit"}
  /\ \A k \in Keys : orders[k].status # "CANCELLED"

\* Every change of status of an order is in the transition table.
LegalTransitions ==
  [][epoch' = epoch =>
       \A k \in Keys : \/ orders[k].status \in {"ABSENT", orders'[k].status}
                       \/ CanTransition(orders[k].status, orders'[k].status)]_vars

\* Without cancel and reconcile the manager implements IntentLifecycle: seen
\* from above every intent is staged, placed and refused at most once per life.
Lifecycle == INSTANCE IntentLifecycle WITH
  intent <- [k \in Keys |-> orders[k].status],
  placed <- [k \in Keys |-> {b \in BrokerIds : Live(b, k)}]
ImplementsLifecycle == Lifecycle!ASpec

\* Every call of submit returns: the retries are bounded.
SubmitTerminates == \A c \in Callers : calls[c].op = "submit" ~> calls[c].op # "submit"

\* "The OMS parks it and reconciles against the broker's own order book": an
\* order whose submission ended uncertain eventually leaves PENDING_NEW.
UncertainIsResolved ==
  \A k \in Keys : orders[k].status = "PENDING_NEW" /\ ~Submitting(k)
                  ~> orders[k].status # "PENDING_NEW"
=============================================================================
