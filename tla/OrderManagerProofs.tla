-------------------------- MODULE OrderManagerProofs --------------------------
(***************************************************************************)
(* Theorems about OrderManager for every set of intents, callers and       *)
(* broker ids, every order quantity, every number of retries and restarts, *)
(* and whichever operations the callers use.                               *)
(***************************************************************************)
EXTENDS MCOrderManager, FiniteSetTheorems, TLAPS

-----------------------------------------------------------------------------
(* Type correctness                                                        *)

LEMMA TransitionType ==
  ASSUME NEW o \in Order, NEW to \in Status
  PROVE  /\ Transition(o, to) \in Order
         /\ Transition(o, to).bid = o.bid
         /\ o.status # "ABSENT" => Transition(o, to).status # "ABSENT"
BY DEF Transition, Order, Status

LEMMA AcknowledgedType ==
  ASSUME NEW o \in Order, NEW b \in BrokerIds \cup {NoBid}
  PROVE  /\ Acknowledged(o, b) \in Order
         /\ Acknowledged(o, b).bid \in {o.bid, b}
         /\ o.status # "ABSENT" => Acknowledged(o, b).status # "ABSENT"
BY TransitionType DEF Acknowledged, Order, Status

LEMMA FilledType ==
  ASSUME NEW o \in Order, NEW f \in Fill
  PROVE  /\ Filled(o, f) \in Order
         /\ Filled(o, f).bid = o.bid
         /\ o.status # "ABSENT" => Filled(o, f).status # "ABSENT"
<1> DEFINE total == o.filled + f.qty
           to    == IF total >= Quantity THEN "FILLED" ELSE "PARTIALLY_FILLED"
<1>1. total \in Nat /\ to \in Status
  BY QuantityAssumption DEF Order, Fill, Status
<1>2. Filled(o, f) = IF Legal(o, to) THEN [o EXCEPT !.status = to, !.filled = total] ELSE o
  BY DEF Filled
<1> HIDE DEF total, to
<1>3. QED BY <1>1, <1>2 DEF Order, Status

LEMMA IdleType == Idle \in Call /\ NoOrder \in Order /\ Unplaced \in ExchangeOrder
BY KeysAssumption, RetriesAssumption, RestartsAssumption, QuantityAssumption
   DEF Idle, NoOrder, Unplaced, Call, Order, ExchangeOrder

LEMMA OrphanType ==
  ASSUME TypeOK, NEW c \in Callers
  PROVE  Orphan(c) \subseteq Request
BY DEF TypeOK, Orphan, Request, Call

\* While the broker is asked about an order its id is known, which is what
\* makes the answer an order.  Idle calls are not asking anything.
AskKnowsId == \A c \in Callers : Waiting(c, "reconcile", "sent") => calls[c].bid # NoBid

LEMMA AskStep ==
  ASSUME TypeOK, AskKnowsId, [Next]_vars
  PROVE  AskKnowsId'
<1> USE DEF AskKnowsId, Waiting, TypeOK, SetCall
<1>1. ASSUME NEW c \in Callers, calls' = [calls EXCEPT ![c] = Idle] PROVE AskKnowsId'
  BY <1>1 DEF Idle
<1>2. ASSUME NEW c \in Callers,
             \E v : calls' = [calls EXCEPT ![c] = [Idle EXCEPT !.op = "reconcile", !.at = "done",
                                                               !.visited = v]]
      PROVE  AskKnowsId'
  BY <1>2 DEF Idle
<1>3. ASSUME NEW c \in Callers, NEW k \in Keys, Submit(c, k) \/ Cancel(c, k) PROVE AskKnowsId'
  BY <1>3 DEF Submit, Cancel, Idle
<1>4. ASSUME NEW c \in Callers, SubmitFails(c) \/ SubmitRetry(c) PROVE AskKnowsId'
  BY <1>4 DEF SubmitFails, SubmitRetry, NextAttempt, Call
<1>5. ASSUME NEW c \in Callers, Reconcile(c) PROVE AskKnowsId'
  BY <1>5 DEF Reconcile, Idle
<1>6. ASSUME NEW c \in Callers, NEW k \in Keys, ReconcileAsks(c, k) PROVE AskKnowsId'
  BY <1>6 DEF ReconcileAsks, Reconcilable, Call
<1>7. ASSUME NEW c \in Callers,
             \/ ExchangeCancels(c) \/ ExchangeReports(c)
             \/ \E b \in BrokerIds : ExchangeAccepts(c, b)
      PROVE  AskKnowsId'
  <2>1. CASE ExchangeCancels(c)
    BY <2>1 DEF ExchangeCancels, Call
  <2>2. CASE ExchangeReports(c)
    BY <2>2 DEF ExchangeReports, Call
  <2>3. CASE \E b \in BrokerIds : ExchangeAccepts(c, b)
    BY <2>3 DEF ExchangeAccepts, Call
  <2>4. QED BY <1>7, <2>1, <2>2, <2>3
<1>8. ASSUME NEW c \in Callers,
             SubmitAck(c) \/ SubmitRefused(c) \/ SubmitUncertain(c) \/ CancelReturns(c)
             \/ CancelFails(c) \/ ReconcileEnds(c)
      PROVE  AskKnowsId'
  BY <1>8, <1>1 DEF SubmitAck, SubmitRefused, SubmitUncertain, LeavePending, CancelReturns,
                    CancelFails, ReconcileEnds
<1>9. ASSUME NEW c \in Callers, ReconcileAdopts(c) \/ ReconcileSkips(c) PROVE AskKnowsId'
  BY <1>9, <1>2 DEF ReconcileAdopts, ReconcileSkips
<1>10. CASE Restart
  BY <1>10 DEF Restart, Idle
<1>11. CASE UNCHANGED calls
  BY <1>11
<1>12. QED
  BY <1>3, <1>4, <1>5, <1>6, <1>7, <1>8, <1>9, <1>10, <1>11
     DEF Next, vars, SubmitStep, CancelStep, ReconcileStep, CancelUnsent, ApplyFill,
         ExchangeAcceptsOrphan, ExchangeFills, ExchangeCloses

\* Every variable keeps its type in every reachable state.
THEOREM TypeCorrect == Spec => []TypeOK
<1>1. Init => TypeOK /\ AskKnowsId
  <2> SUFFICES ASSUME Init PROVE TypeOK /\ AskKnowsId
    OBVIOUS
  <2>1. TypeOK
    BY IdleType, RestartsAssumption DEF Init, TypeOK
  <2>2. AskKnowsId
    BY DEF Init, AskKnowsId, Waiting, Idle
  <2>3. QED BY <2>1, <2>2
<1>2. TypeOK /\ AskKnowsId /\ [Next]_vars => TypeOK'
  <2> SUFFICES ASSUME TypeOK, AskKnowsId, [Next]_vars PROVE TypeOK'
    OBVIOUS
  <2> USE DEF TypeOK, SetCall, SetOrder, Waiting
  <2>1. ASSUME NEW c \in Callers, NEW k \in Keys, Submit(c, k) PROVE TypeOK'
    <3>1. [NoOrder EXCEPT !.status = "PENDING_NEW"] \in Order
      BY IdleType DEF Order, Status
    <3>2. [Idle EXCEPT !.op = "submit", !.key = k] \in Call
      BY IdleType DEF Call
    <3>3. QED BY <2>1, <3>1, <3>2 DEF Submit, Stage
  <2>2. ASSUME NEW c \in Callers, NEW k \in Keys, CancelUnsent(c, k) PROVE TypeOK'
    BY <2>2, TransitionType DEF CancelUnsent, Status
  <2>3. ASSUME NEW c \in Callers, NEW k \in Keys, Cancel(c, k) PROVE TypeOK'
    <3>1. [Idle EXCEPT !.op = "cancel", !.key = k, !.bid = orders[k].bid] \in Call
      BY IdleType DEF Call, Order
    <3>2. QED BY <2>3, <3>1 DEF Cancel
  <2>4. ASSUME NEW c \in Callers, SubmitAck(c) PROVE TypeOK'
    <3>1. calls[c].key \in Keys
      BY DEF Call
    <3>2. Acknowledged(orders[calls[c].key], calls[c].bid) \in Order
      BY <3>1, AcknowledgedType DEF Call
    <3>3. QED BY <2>4, <3>1, <3>2, IdleType DEF SubmitAck
  <2>5. ASSUME NEW c \in Callers, SubmitRetry(c) PROVE TypeOK'
    <3>1. calls[c] \in Call /\ calls[c].attempt + 1 \in 0..MaxRetries
      BY <2>5, RetriesAssumption DEF SubmitRetry, RetriesLeft, Call
    <3>2. NextAttempt(c) \in Call
      BY <3>1 DEF NextAttempt, Call
    <3>3. QED BY <2>5, <3>2 DEF SubmitRetry
  <2>6. ASSUME NEW c \in Callers, SubmitRefused(c) PROVE TypeOK'
    <3>1. calls[c].key \in Keys
      BY DEF Call
    <3>2. Transition(orders[calls[c].key], "REJECTED") \in Order
      BY <3>1, TransitionType DEF Status
    <3>3. QED BY <2>6, <3>1, <3>2, IdleType DEF SubmitRefused
  <2>7. ASSUME NEW c \in Callers, SubmitUncertain(c) PROVE TypeOK'
    BY <2>7, OrphanType, IdleType DEF SubmitUncertain, LeavePending
  <2>8. ASSUME NEW c \in Callers, SubmitFails(c) PROVE TypeOK'
    <3>1. [calls[c] EXCEPT !.at = "failed"] \in Call
      BY DEF Call
    <3>2. QED BY <2>8, <3>1 DEF SubmitFails
  <2>9. ASSUME NEW k \in Keys, NEW f \in fills, ApplyFill(k, f) PROVE TypeOK'
    BY <2>9, FilledType DEF ApplyFill
  <2>10. ASSUME NEW c \in Callers, CancelReturns(c) PROVE TypeOK'
    <3>1. calls[c].key \in Keys
      BY DEF Call
    <3>2. Transition(orders[calls[c].key], "CANCELLED") \in Order
      BY <3>1, TransitionType DEF Status
    <3>3. QED BY <2>10, <3>1, <3>2, IdleType DEF CancelReturns
  <2>11. ASSUME NEW c \in Callers, CancelFails(c) PROVE TypeOK'
    BY <2>11, IdleType DEF CancelFails
  <2>12. ASSUME NEW c \in Callers, Reconcile(c) PROVE TypeOK'
    BY <2>12, IdleType DEF Reconcile, Idle, Call
  <2>13. ASSUME NEW c \in Callers, NEW k \in Keys, ReconcileAsks(c, k) PROVE TypeOK'
    <3>1. [calls[c] EXCEPT !.at = "sent", !.key = k, !.bid = orders[k].bid,
                           !.order = orders[k], !.visited = @ \cup {k}] \in Call
      BY DEF Call, Order
    <3>2. QED BY <2>13, <3>1 DEF ReconcileAsks
  <2>14. ASSUME NEW c \in Callers, ReconcileAdopts(c) PROVE TypeOK'
    <3>1. calls[c] \in Call
      OBVIOUS
    <3>2. Adopted(calls[c].order, calls[c].remote) \in Order
      BY <3>1 DEF Adopted, Call, Order
    <3>3. [Idle EXCEPT !.op = "reconcile", !.at = "done", !.visited = calls[c].visited] \in Call
      BY <3>1, IdleType DEF Idle, Call
    <3>4. QED BY <2>14, <3>1, <3>2, <3>3 DEF ReconcileAdopts, Call
  <2>15. ASSUME NEW c \in Callers, ReconcileSkips(c) PROVE TypeOK'
    <3>1. [Idle EXCEPT !.op = "reconcile", !.at = "done", !.visited = calls[c].visited] \in Call
      BY IdleType DEF Idle, Call
    <3>2. QED BY <2>15, <3>1 DEF ReconcileSkips
  <2>16. ASSUME NEW c \in Callers, ReconcileEnds(c) PROVE TypeOK'
    BY <2>16, IdleType DEF ReconcileEnds
  <2>17. ASSUME NEW c \in Callers, NEW b \in BrokerIds, ExchangeAccepts(c, b) PROVE TypeOK'
    <3>1. [calls[c] EXCEPT !.at = "done", !.bid = b] \in Call
      BY DEF Call
    <3>2. exchange' \in [BrokerIds -> ExchangeOrder]
      BY <2>17, QuantityAssumption DEF ExchangeAccepts, Place, ExchangeOrder, Call, Status
    <3>3. QED BY <2>17, <3>1, <3>2 DEF ExchangeAccepts
  <2>18. ASSUME NEW r \in wire, NEW b \in BrokerIds, ExchangeAcceptsOrphan(r, b) PROVE TypeOK'
    BY <2>18, QuantityAssumption
       DEF ExchangeAcceptsOrphan, Place, ExchangeOrder, Request, Status
  <2>19. ASSUME NEW b \in BrokerIds, NEW q \in 1..Quantity, ExchangeFills(b, q) PROVE TypeOK'
    <3>1. exchange[b].filled + q \in 1..Quantity
      BY <2>19, QuantityAssumption DEF ExchangeFills, ExchangeOrder
    <3>2. exchange' \in [BrokerIds -> ExchangeOrder]
      <4> DEFINE total  == exchange[b].filled + q
                 status == IF total = Quantity THEN "FILLED" ELSE "PARTIALLY_FILLED"
      <4>1. exchange' = [exchange EXCEPT ![b].filled = total, ![b].status = status]
        BY <2>19 DEF ExchangeFills
      <4>2. total \in 0..Quantity /\ status \in Status
        BY <3>1 DEF Status
      <4> HIDE DEF total, status
      <4>3. QED BY <4>1, <4>2 DEF ExchangeOrder
    <3>3. fills' \subseteq Fill
      BY <2>19, <3>1 DEF ExchangeFills, Fill
    <3>4. QED BY <2>19, <3>2, <3>3 DEF ExchangeFills
  <2>20. ASSUME NEW b \in BrokerIds, ExchangeCloses(b) PROVE TypeOK'
    BY <2>20 DEF ExchangeCloses, ExchangeOrder, Status
  <2>21. ASSUME NEW c \in Callers, ExchangeCancels(c) PROVE TypeOK'
    <3>1. [calls[c] EXCEPT !.at = "done"] \in Call
      BY DEF Call
    <3>2. exchange' \in [BrokerIds -> ExchangeOrder]
      BY <2>21 DEF ExchangeCancels, ExchangeOrder, Status
    <3>3. QED BY <2>21, <3>1, <3>2 DEF ExchangeCancels
  <2>22. ASSUME NEW c \in Callers, ExchangeReports(c) PROVE TypeOK'
    <3>1. calls[c] \in Call /\ exchange[calls[c].bid] \in ExchangeOrder
      BY <2>22 DEF ExchangeReports, AskKnowsId, Call
    <3>2. [status |-> exchange[calls[c].bid].status, bid |-> calls[c].bid,
           filled |-> exchange[calls[c].bid].filled] \in Order
      BY <3>1, QuantityAssumption DEF Order, ExchangeOrder, Call
    <3>3. [calls[c] EXCEPT !.at = "done",
             !.remote = [status |-> exchange[calls[c].bid].status, bid |-> calls[c].bid,
                         filled |-> exchange[calls[c].bid].filled]] \in Call
      BY <3>1, <3>2 DEF Call
    <3>4. QED BY <2>22, <3>3 DEF ExchangeReports
  <2>23. CASE Restart
    BY <2>23, IdleType, OrphanType, RestartsAssumption DEF Restart
  <2>24. CASE UNCHANGED vars
    BY <2>24 DEF vars
  <2>25. QED
    BY <2>1, <2>2, <2>3, <2>4, <2>5, <2>6, <2>7, <2>9, <2>10, <2>11, <2>12, <2>13,
       <2>14, <2>15, <2>16, <2>17, <2>18, <2>19, <2>20, <2>21, <2>22, <2>23, <2>24, <2>8
       DEF Next, SubmitStep, CancelStep, ReconcileStep
<1>3. QED BY <1>1, <1>2, AskStep, PTL DEF Spec

-----------------------------------------------------------------------------
(* One intent, one order                                                   *)

LEMMA OneRequestInit == Init => OneRequestPerIntent
<1> SUFFICES ASSUME Init PROVE OneRequestPerIntent
  OBVIOUS
<1>1. /\ \A b \in BrokerIds : exchange[b].status = "ABSENT"
      /\ \A k \in Keys : orders[k].bid = NoBid
      /\ \A c \in Callers : calls[c].op = "idle"
      /\ wire = {}
  BY DEF Init, Unplaced, NoOrder, Idle
<1>2. QED
  BY <1>1 DEF OneRequestPerIntent, NothingFromTheFuture, OnRecord, OneCaller, OnePlace,
              AnswersAreOrders, BoundToOwnIntent, OneIntentOneOrder, Placed, Live,
              Submitting, Waiting

\* The exchange working an order it holds disturbs none of this.
LEMMA SameHoldings ==
  ASSUME TypeOK, OneRequestPerIntent, UNCHANGED <<orders, calls, epoch, wire>>,
         \A x \in BrokerIds : /\ exchange'[x].key = exchange[x].key
                              /\ exchange'[x].epoch = exchange[x].epoch
                              /\ (exchange'[x].status = "ABSENT") = (exchange[x].status = "ABSENT")
  PROVE  OneRequestPerIntent'
<1>1. \A x \in BrokerIds : Placed(x)' <=> Placed(x)
  BY DEF Placed
<1>2. \A x \in BrokerIds, k \in Keys : Live(x, k)' <=> Live(x, k)
  BY <1>1 DEF Live
<1>3. \A k \in Keys : Submitting(k)' <=> Submitting(k)
  BY DEF Submitting
<1>4. NothingFromTheFuture'
  BY <1>1 DEF OneRequestPerIntent, NothingFromTheFuture
<1>5. OnRecord'
  BY <1>2, <1>3 DEF OneRequestPerIntent, OnRecord
<1>6. OneCaller'
  BY DEF OneRequestPerIntent, OneCaller
<1>7. OnePlace'
  BY <1>1, <1>2 DEF OneRequestPerIntent, OnePlace, Waiting, TypeOK, Call
<1>8. AnswersAreOrders'
  BY <1>2 DEF OneRequestPerIntent, AnswersAreOrders, TypeOK, Call
<1>9. BoundToOwnIntent'
  BY <1>2 DEF OneRequestPerIntent, BoundToOwnIntent, TypeOK, Order
<1>10. OneIntentOneOrder'
  BY <1>1 DEF OneRequestPerIntent, OneIntentOneOrder
<1>11. QED
  BY <1>4, <1>5, <1>6, <1>7, <1>8, <1>9, <1>10 DEF OneRequestPerIntent

LEMMA OneRequestStep ==
  ASSUME TypeOK, OneRequestPerIntent, [Next]_vars
  PROVE  OneRequestPerIntent'
<1> USE NoBidAssumption DEF OneRequestPerIntent, NothingFromTheFuture, OnRecord, OneCaller, OnePlace,
       AnswersAreOrders, BoundToOwnIntent, OneIntentOneOrder, Placed, Live, Submitting,
       Waiting, SetCall, SetOrder, TypeOK
<1>1. ASSUME NEW c \in Callers, NEW k \in Keys, Submit(c, k) PROVE OneRequestPerIntent'
  BY <1>1 DEF Submit, Stage, Registered, Idle, NoOrder, Order, Call
<1>2. ASSUME NEW c \in Callers, NEW k \in Keys, CancelUnsent(c, k) PROVE OneRequestPerIntent'
  BY <1>2 DEF CancelUnsent, Transition, Order, Terminal
<1>3. ASSUME NEW c \in Callers, NEW k \in Keys, Cancel(c, k) PROVE OneRequestPerIntent'
  BY <1>3 DEF Cancel, Idle, Order
<1>4. ASSUME NEW c \in Callers, SubmitAck(c) PROVE OneRequestPerIntent'
  <2> DEFINE k == calls[c].key
             o == Acknowledged(orders[k], calls[c].bid)
  <2>1. k \in Keys /\ calls[c].bid \in BrokerIds /\ Live(calls[c].bid, k)
    BY <1>4 DEF SubmitAck, Call
  <2>2. orders[k].status # "ABSENT" /\ o.status # "ABSENT" /\ o.bid \in {orders[k].bid, calls[c].bid}
    BY <1>4, <2>1, AcknowledgedType DEF SubmitAck
  <2>3. orders' = [orders EXCEPT ![k] = o] /\ calls' = [calls EXCEPT ![c] = Idle]
    BY <1>4 DEF SubmitAck
  <2>4. UNCHANGED <<seen, epoch, exchange, fills, wire>>
    BY <1>4 DEF SubmitAck
  <2> HIDE DEF k, o
  <2>5. QED BY <2>1, <2>2, <2>3, <2>4 DEF Idle
<1>5. ASSUME NEW c \in Callers, SubmitRetry(c) PROVE OneRequestPerIntent'
  BY <1>5 DEF SubmitRetry, NextAttempt, Call
<1>6. ASSUME NEW c \in Callers, SubmitRefused(c) PROVE OneRequestPerIntent'
  BY <1>6 DEF SubmitRefused, Transition, Order, Call, Idle
<1>7. ASSUME NEW c \in Callers, SubmitUncertain(c) PROVE OneRequestPerIntent'
  BY <1>7 DEF SubmitUncertain, LeavePending, Orphan, Idle, Call
<1>8. ASSUME NEW c \in Callers, SubmitFails(c) PROVE OneRequestPerIntent'
  BY <1>8 DEF SubmitFails, Call
<1>9. ASSUME NEW k \in Keys, NEW f \in fills, ApplyFill(k, f) PROVE OneRequestPerIntent'
  <2>1. Filled(orders[k], f).bid = orders[k].bid
        /\ (orders[k].status # "ABSENT" => Filled(orders[k], f).status # "ABSENT")
    BY FilledType
  <2>2. QED BY <1>9, <2>1 DEF ApplyFill
<1>10. ASSUME NEW c \in Callers, CancelReturns(c) PROVE OneRequestPerIntent'
  BY <1>10 DEF CancelReturns, Transition, Order, Call, Idle
<1>11. ASSUME NEW c \in Callers, CancelFails(c) PROVE OneRequestPerIntent'
  BY <1>11 DEF CancelFails, Idle
<1>12. ASSUME NEW c \in Callers, Reconcile(c) PROVE OneRequestPerIntent'
  BY <1>12 DEF Reconcile, Idle
<1>13. ASSUME NEW c \in Callers, NEW k \in Keys, ReconcileAsks(c, k) PROVE OneRequestPerIntent'
  BY <1>13 DEF ReconcileAsks, Reconcilable, Call, Order
<1>14. ASSUME NEW c \in Callers, ReconcileAdopts(c) PROVE OneRequestPerIntent'
  BY <1>14 DEF ReconcileAdopts, Adopted, Idle, Call, Order
<1>15. ASSUME NEW c \in Callers, ReconcileSkips(c) PROVE OneRequestPerIntent'
  BY <1>15 DEF ReconcileSkips, Idle
<1>16. ASSUME NEW c \in Callers, ReconcileEnds(c) PROVE OneRequestPerIntent'
  BY <1>16 DEF ReconcileEnds, Idle
<1>17. ASSUME NEW c \in Callers, NEW b \in BrokerIds, ExchangeAccepts(c, b) PROVE OneRequestPerIntent'
  <2>1. /\ calls[c].key \in Keys /\ calls[c].op = "submit" /\ calls[c].at = "sent"
        /\ exchange[b].status = "ABSENT"
        /\ UNCHANGED <<orders, epoch, wire>>
    BY <1>17 DEF ExchangeAccepts, Call
  <2>2. /\ exchange'[b] = [status |-> "OPEN", key |-> calls[c].key, epoch |-> epoch, filled |-> 0]
        /\ \A x \in BrokerIds \ {b} : exchange'[x] = exchange[x]
    BY <1>17 DEF ExchangeAccepts, Place
  <2>3. /\ calls'[c].op = "submit" /\ calls'[c].at = "done" /\ calls'[c].bid = b
        /\ calls'[c].key = calls[c].key
        /\ \A x \in Callers \ {c} : calls'[x] = calls[x]
    BY <1>17 DEF ExchangeAccepts, Call
  <2>4. NothingFromTheFuture' /\ OnRecord' /\ OneCaller'
    BY <2>1, <2>2, <2>3
  <2>5. OnePlace'
    BY <2>1, <2>2, <2>3
  <2>6. AnswersAreOrders' /\ BoundToOwnIntent' /\ OneIntentOneOrder'
    <3>1. AnswersAreOrders'
      <4>1. \A x \in Callers : calls'[x].op = "reconcile" =>
              /\ calls'[x] = calls[x] /\ calls[x] \in Call
        BY <2>3
      <4>2. \A y \in BrokerIds, k \in Keys : Live(y, k) => Live(y, k)'
        BY <2>1, <2>2
      <4> HIDE DEF Live
      <4>3. QED BY <4>1, <4>2 DEF Call
    <3>2. BoundToOwnIntent'
      BY <2>1, <2>2 DEF Order
    <3>3. OneIntentOneOrder'
      <4>1. \A x \in BrokerIds : ~Live(x, calls[c].key)
        BY <2>1
      <4> HIDE DEF OnePlace, OnRecord, AnswersAreOrders, BoundToOwnIntent, OneCaller
      <4>2. QED BY <2>1, <2>2, <4>1
    <3>4. QED BY <3>1, <3>2, <3>3
  <2>7. QED BY <2>4, <2>5, <2>6
<1>18. ASSUME NEW r \in wire, NEW b \in BrokerIds, ExchangeAcceptsOrphan(r, b) PROVE OneRequestPerIntent'
  BY <1>18 DEF ExchangeAcceptsOrphan, Place, Request
<1>19. ASSUME NEW b \in BrokerIds, NEW q \in 1..Quantity, ExchangeFills(b, q) PROVE OneRequestPerIntent'
  <2>1. \A x \in BrokerIds : /\ exchange'[x].key = exchange[x].key
                            /\ exchange'[x].epoch = exchange[x].epoch
                            /\ (exchange'[x].status = "ABSENT") = (exchange[x].status = "ABSENT")
    <3>1. exchange[b].status # "ABSENT"
      BY <1>19 DEF ExchangeFills, Working
    <3>2. \E total, status :
             /\ status # "ABSENT"
             /\ exchange' = [exchange EXCEPT ![b].filled = total, ![b].status = status]
      BY <1>19, Zenon DEF ExchangeFills
    <3>3. QED BY <3>1, <3>2 DEF ExchangeOrder
  <2>2. QED BY <1>19, <2>1, SameHoldings DEF ExchangeFills
<1>20. ASSUME NEW b \in BrokerIds, ExchangeCloses(b) PROVE OneRequestPerIntent'
  BY <1>20 DEF ExchangeCloses, Working, ExchangeOrder
<1>21. ASSUME NEW c \in Callers, ExchangeCancels(c) PROVE OneRequestPerIntent'
  BY <1>21 DEF ExchangeCancels, Working, ExchangeOrder, Call
<1>22. ASSUME NEW c \in Callers, ExchangeReports(c) PROVE OneRequestPerIntent'
  BY <1>22 DEF ExchangeReports, Call
<1>23. CASE Restart
  <2>1. /\ \A k \in Keys : orders'[k].bid = NoBid
        /\ \A c \in Callers : calls'[c].op = "idle"
        /\ epoch' = epoch + 1 /\ epoch \in Nat /\ exchange' = exchange
    BY <1>23, RestartsAssumption DEF Restart, NoOrder, Idle
  <2>2. \A r \in wire' : \/ r \in wire
                        \/ \E c \in Callers : /\ calls[c].op = "submit" /\ calls[c].at = "sent"
                                               /\ r = [key |-> calls[c].key, epoch |-> epoch]
    BY <1>23 DEF Restart, Orphan
  <2>3. /\ \A b \in BrokerIds : exchange[b].epoch \in Nat
        /\ \A r \in wire : r.epoch \in Nat
    BY RestartsAssumption DEF ExchangeOrder, Request
  <2>4. NothingFromTheFuture'
    BY <2>1, <2>2, <2>3
  <2>5. \A b \in BrokerIds, k \in Keys : ~Live(b, k)'
    BY <2>1, <2>3
  <2>6. \A k \in Keys : [key |-> k, epoch |-> epoch'] \notin wire'
    BY <2>1, <2>2, <2>3
  <2>7. \A b \in BrokerIds : Placed(b) =>
          [key |-> exchange[b].key, epoch |-> exchange[b].epoch] \notin wire'
    BY <2>2 DEF ExchangeOrder
  <2>8. QED BY <2>1, <2>4, <2>5, <2>6, <2>7
<1>24. CASE UNCHANGED vars
  BY <1>24 DEF vars
<1>25. QED
  BY <1>1, <1>2, <1>3, <1>4, <1>5, <1>6, <1>7, <1>9, <1>10, <1>11, <1>12, <1>13, <1>14, <1>15, <1>16, <1>17, <1>18, <1>19, <1>20, <1>21, <1>22, <1>23, <1>24, <1>8
     DEF Next, SubmitStep, CancelStep, ReconcileStep

\* Within one life of the process the exchange never holds two orders for one
\* intent, for every number of intents, callers, retries and restarts.
THEOREM OneOrderPerIntent == Spec => []OneIntentOneOrder
<1>1. TypeOK /\ OneRequestPerIntent /\ [Next]_vars => OneRequestPerIntent'
  BY OneRequestStep
<1>2. OneRequestPerIntent => OneIntentOneOrder
  BY DEF OneRequestPerIntent
<1>3. QED BY OneRequestInit, TypeCorrect, <1>1, <1>2, PTL DEF Spec
-----------------------------------------------------------------------------
(* Production: submit, fills and restarts, in any order.                   *)

\* What the manager shows goes with the id it knows.
Shown ==
  \A k \in Keys :
    /\ orders[k].status \in {"ABSENT", "PENDING_NEW", "REJECTED"} <=> orders[k].bid = NoBid
    /\ orders[k].bid = NoBid => orders[k].filled = 0
\* Whatever may still be placed is shown as pending.
Awaited ==
  \A k \in Keys : Submitting(k) \/ [key |-> k, epoch |-> epoch] \in wire =>
    orders[k].status = "PENDING_NEW"
Refused == \A k \in Keys : orders[k].status = "REJECTED" => \A b \in BrokerIds : ~Live(b, k)
ParkInv == Shown /\ Awaited /\ Refused /\ LostAckIsParked

\* The steps of production; who retries, or does not know, changes no order.
ProductionStep ==
  \/ \E c \in Callers, k \in Keys : Submit(c, k)
  \/ \E c \in Callers : SubmitStep(c)
  \/ \E k \in Keys, f \in fills : ApplyFill(k, f)
  \/ \E r \in wire, b \in BrokerIds : ExchangeAcceptsOrphan(r, b)
  \/ \E b \in BrokerIds, q \in 1..Quantity : ExchangeFills(b, q)
  \/ \E b \in BrokerIds : ExchangeCloses(b)
  \/ Restart

LEMMA ProductionSteps ==
  ASSUME TypeOK, SubmitsOnly, SubmitsOnly', Next
  PROVE  ProductionStep
<1> USE DEF TypeOK, SubmitsOnly, SetCall, SetOrder, Waiting
<1>1. ASSUME NEW c \in Callers, NEW k \in Keys, CancelUnsent(c, k) PROVE FALSE
  <2>1. orders[k].status \in {"PENDING_NEW", "OPEN", "PARTIALLY_FILLED"} /\ orders[k] \in Order
    BY <1>1 DEF CancelUnsent, Order, Status, Terminal
  <2>2. Legal(orders[k], "CANCELLED")
    BY <2>1 DEF Legal, CanTransition, AllowedTransitions, Status
  <2>3. orders'[k].status = "CANCELLED"
    BY <1>1, <2>1, <2>2 DEF CancelUnsent, Transition, Order
  <2>4. QED BY <2>3
<1>2. ASSUME NEW c \in Callers, NEW k \in Keys, Cancel(c, k) PROVE FALSE
  BY <1>2 DEF Cancel, Idle
<1>3. ASSUME NEW c \in Callers, CancelStep(c) PROVE FALSE
  BY <1>3 DEF CancelStep, CancelReturns, CancelFails, ExchangeCancels
<1>4. ASSUME NEW c \in Callers, ReconcileStep(c) PROVE FALSE
  BY <1>4 DEF ReconcileStep, ReconcileAdopts, ReconcileSkips, ReconcileEnds, ExchangeReports,
              ReconcileAsks
<1>5. ASSUME NEW c \in Callers, Reconcile(c) PROVE FALSE
  BY <1>5 DEF Reconcile, Idle
<1>6. QED BY <1>1, <1>2, <1>3, <1>4, <1>5 DEF Next, ProductionStep

LEMMA ParkStarts == Init => ParkInv
<1> SUFFICES ASSUME Init PROVE ParkInv
  OBVIOUS
<1>1. /\ \A b \in BrokerIds : exchange[b].status = "ABSENT"
      /\ \A k \in Keys : orders[k] = NoOrder
      /\ \A c \in Callers : calls[c].op = "idle"
      /\ wire = {}
  BY DEF Init, Unplaced, Idle
<1>2. QED
  BY <1>1 DEF ParkInv, Shown, Awaited, Refused, LostAckIsParked, Placed, Live, Submitting, NoOrder

\* The exchange working an order it holds disturbs none of this.
LEMMA SameParked ==
  ASSUME ParkInv, UNCHANGED <<orders, calls, epoch, wire>>,
         \A x \in BrokerIds, k \in Keys : Live(x, k)' => Live(x, k)
  PROVE  ParkInv'
BY DEF ParkInv, Shown, Awaited, Refused, LostAckIsParked, Submitting

LEMMA Returns ==
  ASSUME OneRequestPerIntent, TypeOK, NEW c \in Callers, NEW k \in Keys,
         calls[c].op = "submit", calls[c].key = k, calls' = [calls EXCEPT ![c] = Idle]
  PROVE  ~Submitting(k)' /\ \A j \in Keys : Submitting(j)' => Submitting(j)
<1>1. calls'[c].op = "idle" /\ \A x \in Callers \ {c} : calls'[x] = calls[x]
  BY DEF TypeOK, Idle
<1>2. \A x \in Callers : calls[x].op = "submit" /\ calls[x].key = k => x = c
  BY DEF OneRequestPerIntent, OneCaller
<1>3. QED BY <1>1, <1>2 DEF Submitting

LEMMA ParkKeeps ==
  ASSUME TypeOK, OneRequestPerIntent, ParkInv, ProductionStep
  PROVE  ParkInv'
<1> USE NoBidAssumption DEF TypeOK, SetCall, SetOrder, Waiting
<1>1. ASSUME NEW c \in Callers, NEW k \in Keys, Submit(c, k) PROVE ParkInv'
  <2>1. /\ orders' = [orders EXCEPT ![k] = [NoOrder EXCEPT !.status = "PENDING_NEW"]]
        /\ calls' = [calls EXCEPT ![c] = [Idle EXCEPT !.op = "submit", !.key = k]]
        /\ orders[k].status = "ABSENT" /\ UNCHANGED <<seen, epoch, exchange, fills, wire>>
    BY <1>1 DEF Submit, Stage, Registered
  <2>2. orders'[k] = [status |-> "PENDING_NEW", bid |-> NoBid, filled |-> 0]
    BY <2>1 DEF NoOrder
  <2>3. \A x \in BrokerIds, j \in Keys : Live(x, j)' <=> Live(x, j)
    BY <2>1 DEF Live, Placed
  <2>4. \A j \in Keys \ {k} : Submitting(j)' => Submitting(j)
    BY <2>1 DEF Submitting, Idle
  <2>5. QED
    BY <2>1, <2>2, <2>3, <2>4 DEF ParkInv, Shown, Awaited, Refused, LostAckIsParked
<1>2. ASSUME NEW c \in Callers, SubmitAck(c) PROVE ParkInv'
  <2>0. PICK k \in Keys, b \in BrokerIds : k = calls[c].key /\ b = calls[c].bid
    BY <1>2 DEF SubmitAck, Call, OneRequestPerIntent, OnePlace
  <2>1. k \in Keys /\ b \in BrokerIds /\ Live(b, k) /\ Submitting(k)
    BY <1>2, <2>0 DEF SubmitAck, Call, OneRequestPerIntent, OnePlace, Submitting
  <2>2. orders[k].status = "PENDING_NEW" /\ orders[k] \in Order
    BY <2>1 DEF ParkInv, Awaited
  <2>3. Legal(orders[k], "OPEN")
    BY <2>2 DEF Legal, CanTransition, AllowedTransitions, Status
  <2>4. /\ orders' = [orders EXCEPT ![k] = [orders[k] EXCEPT !.status = "OPEN", !.bid = b]]
        /\ calls' = [calls EXCEPT ![c] = Idle]
        /\ UNCHANGED <<seen, epoch, exchange, fills, wire>>
    BY <1>2, <2>0, <2>3 DEF SubmitAck, Acknowledged
  <2>5. orders'[k].status = "OPEN" /\ orders'[k].bid = b
    BY <2>1, <2>2, <2>4 DEF Order
  <2>6. ~Submitting(k)' /\ \A j \in Keys : Submitting(j)' => Submitting(j)
    BY <1>2, <2>0, <2>4, Returns DEF SubmitAck
  <2>7. [key |-> k, epoch |-> epoch] \notin wire /\ \A x \in BrokerIds : Live(x, k) => x = b
    BY <2>1 DEF OneRequestPerIntent, OnePlace, OneIntentOneOrder, Live
  <2>8. \A x \in BrokerIds, j \in Keys : Live(x, j)' <=> Live(x, j)
    BY <2>4 DEF Live, Placed
  <2>9. \A j \in Keys \ {k} : orders'[j] = orders[j]
    BY <2>4
  <2>10. Shown'
    BY <2>1, <2>5, <2>9 DEF ParkInv, Shown
  <2>11. Awaited'
    BY <2>4, <2>6, <2>7, <2>9 DEF ParkInv, Awaited
  <2>12. Refused' /\ LostAckIsParked'
    BY <2>5, <2>7, <2>8, <2>9 DEF ParkInv, Refused, LostAckIsParked
  <2>13. QED BY <2>10, <2>11, <2>12 DEF ParkInv
<1>3. ASSUME NEW c \in Callers, SubmitFails(c) \/ SubmitRetry(c) PROVE ParkInv'
  <2>1. /\ UNCHANGED <<orders, seen, epoch, exchange, fills, wire>>
        /\ \A x \in Callers : calls'[x].op = calls[x].op /\ calls'[x].key = calls[x].key
    <3>1. CASE SubmitFails(c)
      BY <3>1 DEF SubmitFails, Call
    <3>2. CASE SubmitRetry(c)
      BY <3>2 DEF SubmitRetry, NextAttempt, Call
    <3>3. QED BY <1>3, <3>1, <3>2
  <2>2. QED
    BY <2>1 DEF ParkInv, Shown, Awaited, Refused, LostAckIsParked, Submitting, Live, Placed
<1>4. ASSUME NEW c \in Callers, SubmitRefused(c) PROVE ParkInv'
  <2>0. PICK k \in Keys : k = calls[c].key
    BY DEF Call
  <2>1. k \in Keys /\ Submitting(k) /\ orders[k] \in Order
    BY <1>4, <2>0 DEF SubmitRefused, Call, Submitting
  <2>2. orders[k].status = "PENDING_NEW" /\ orders[k].bid = NoBid
    BY <2>1 DEF ParkInv, Awaited, Shown
  <2>3. Legal(orders[k], "REJECTED")
    BY <2>2 DEF Legal, CanTransition, AllowedTransitions, Status
  <2>4. /\ orders' = [orders EXCEPT ![k] = [orders[k] EXCEPT !.status = "REJECTED"]]
        /\ calls' = [calls EXCEPT ![c] = Idle]
        /\ UNCHANGED <<seen, epoch, exchange, fills, wire>>
    BY <1>4, <2>0, <2>3 DEF SubmitRefused, Transition
  <2>5. orders'[k].status = "REJECTED" /\ orders'[k].bid = NoBid /\ orders'[k].filled = orders[k].filled
    BY <2>1, <2>2, <2>4 DEF Order
  <2>6. ~Submitting(k)' /\ \A j \in Keys : Submitting(j)' => Submitting(j)
    BY <1>4, <2>0, <2>4, Returns DEF SubmitRefused
  <2>7. [key |-> k, epoch |-> epoch] \notin wire /\ \A x \in BrokerIds : ~Live(x, k)
    BY <1>4, <2>0 DEF SubmitRefused, OneRequestPerIntent, OnePlace
  <2>8. \A x \in BrokerIds, j \in Keys : Live(x, j)' <=> Live(x, j)
    BY <2>4 DEF Live, Placed
  <2>9. \A j \in Keys \ {k} : orders'[j] = orders[j]
    BY <2>4
  <2>10. Shown'
    BY <2>1, <2>2, <2>5, <2>9 DEF ParkInv, Shown
  <2>11. Awaited'
    BY <2>4, <2>6, <2>7, <2>9 DEF ParkInv, Awaited
  <2>12. Refused' /\ LostAckIsParked'
    BY <2>5, <2>7, <2>8, <2>9 DEF ParkInv, Refused, LostAckIsParked
  <2>13. QED BY <2>10, <2>11, <2>12 DEF ParkInv
<1>5. ASSUME NEW c \in Callers, SubmitUncertain(c) PROVE ParkInv'
  <2>1. /\ UNCHANGED <<orders, seen, epoch, exchange, fills>> /\ wire' = wire \cup Orphan(c)
        /\ calls' = [calls EXCEPT ![c] = Idle]
    BY <1>5 DEF SubmitUncertain, LeavePending
  <2>2. \A j \in Keys : Submitting(j)' => Submitting(j)
    BY <2>1 DEF Submitting, Idle
  <2>3. \A j \in Keys : [key |-> j, epoch |-> epoch] \in wire' =>
          Submitting(j) \/ [key |-> j, epoch |-> epoch] \in wire
    BY <2>1 DEF Orphan, Submitting
  <2>4. QED
    BY <2>1, <2>2, <2>3 DEF ParkInv, Shown, Awaited, Refused, LostAckIsParked, Live, Placed
<1>6. ASSUME NEW c \in Callers, NEW b \in BrokerIds, ExchangeAccepts(c, b) PROVE ParkInv'
  <2>0. PICK k \in Keys : k = calls[c].key
    BY DEF Call
  <2>1. k \in Keys /\ Submitting(k)
    BY <1>6, <2>0 DEF ExchangeAccepts, Call, Submitting
  <2>2. /\ UNCHANGED <<orders, seen, epoch, fills, wire>>
        /\ exchange' = [exchange EXCEPT ![b] = [status |-> "OPEN", key |-> k, epoch |-> epoch, filled |-> 0]]
        /\ calls' = [calls EXCEPT ![c] = [calls[c] EXCEPT !.at = "done", !.bid = b]]
    BY <1>6, <2>0 DEF ExchangeAccepts, Place
  <2>3. \A j \in Keys : Submitting(j)' => Submitting(j)
    BY <2>2 DEF Submitting, Call
  <2>4. \A x \in BrokerIds, j \in Keys : Live(x, j)' => Live(x, j) \/ j = k
    BY <2>2 DEF Live, Placed
  <2>5. orders[k].status = "PENDING_NEW"
    BY <2>1 DEF ParkInv, Awaited
  <2>6. QED
    BY <2>1, <2>2, <2>3, <2>4, <2>5 DEF ParkInv, Shown, Awaited, Refused, LostAckIsParked
<1>7. ASSUME NEW r \in wire, NEW b \in BrokerIds, ExchangeAcceptsOrphan(r, b) PROVE ParkInv'
  <2>1. /\ UNCHANGED <<orders, seen, calls, epoch, fills>> /\ wire' \subseteq wire
        /\ exchange' = [exchange EXCEPT ![b] = [status |-> "OPEN", key |-> r.key, epoch |-> r.epoch, filled |-> 0]]
    BY <1>7 DEF ExchangeAcceptsOrphan, Place
  <2>2. r = [key |-> r.key, epoch |-> r.epoch]
    BY DEF Request
  <2>3. \A x \in BrokerIds, j \in Keys :
          Live(x, j)' => Live(x, j) \/ [key |-> j, epoch |-> epoch] \in wire
    BY <2>1, <2>2 DEF Live, Placed
  <2>4. QED
    BY <2>1, <2>3 DEF ParkInv, Shown, Awaited, Refused, LostAckIsParked, Submitting
<1>8. ASSUME NEW k \in Keys, NEW f \in fills, ApplyFill(k, f) PROVE ParkInv'
  <2>1. /\ f \in Fill /\ orders[k] \in Order /\ orders[k].bid # NoBid
        /\ orders[k].status \in {"OPEN", "PARTIALLY_FILLED", "FILLED", "CANCELLED"}
    BY <1>8 DEF ApplyFill, Fill, ParkInv, Shown, Order, Status
  <2>2. /\ orders' = [orders EXCEPT ![k] = Filled(orders[k], f)]
        /\ UNCHANGED <<calls, epoch, exchange, fills, wire>>
    BY <1>8 DEF ApplyFill
  <2>3. Filled(orders[k], f).bid = orders[k].bid
    BY <2>1, FilledType
  <2>4. Filled(orders[k], f).status \in {"OPEN", "PARTIALLY_FILLED", "FILLED", "CANCELLED"}
    <3> DEFINE o == orders[k]
               total == o.filled + f.qty
               to == IF total >= Quantity THEN "FILLED" ELSE "PARTIALLY_FILLED"
    <3>1. Filled(o, f) = IF Legal(o, to) THEN [o EXCEPT !.status = to, !.filled = total] ELSE o
      BY DEF Filled
    <3>2. to \in {"FILLED", "PARTIALLY_FILLED"}
      OBVIOUS
    <3> HIDE DEF to, total
    <3>3. QED BY <2>1, <3>1, <3>2 DEF Order
  <2>5. \A x \in BrokerIds, j \in Keys : Live(x, j)' <=> Live(x, j)
    BY <2>2 DEF Live, Placed
  <2>6. \A j \in Keys : orders'[j].bid = orders[j].bid /\ (j # k => orders'[j] = orders[j])
    BY <2>2, <2>3
  <2>7. orders'[k].status \in {"OPEN", "PARTIALLY_FILLED", "FILLED", "CANCELLED"}
    BY <2>2, <2>4
  <2>8. \A j \in Keys : Submitting(j)' => Submitting(j)
    BY <2>2 DEF Submitting
  <2>9. QED
    BY <2>1, <2>2, <2>5, <2>6, <2>7, <2>8 DEF ParkInv, Shown, Awaited, Refused, LostAckIsParked
<1>9. ASSUME NEW b \in BrokerIds, NEW q \in 1..Quantity, ExchangeFills(b, q) PROVE ParkInv'
  <2>1. /\ UNCHANGED <<orders, seen, calls, epoch, wire>> /\ exchange[b].status # "ABSENT"
        /\ \A x \in BrokerIds : exchange'[x].key = exchange[x].key
        /\ \A x \in BrokerIds : exchange'[x].epoch = exchange[x].epoch
        /\ \A x \in BrokerIds \ {b} : exchange'[x] = exchange[x]
    BY <1>9 DEF ExchangeFills, ExchangeOrder, Working
  <2>2. QED BY <2>1, SameParked DEF Live, Placed
<1>10. ASSUME NEW b \in BrokerIds, ExchangeCloses(b) PROVE ParkInv'
  <2>1. /\ UNCHANGED <<orders, seen, calls, epoch, wire>> /\ exchange[b].status # "ABSENT"
        /\ \A x \in BrokerIds : exchange'[x].key = exchange[x].key
        /\ \A x \in BrokerIds : exchange'[x].epoch = exchange[x].epoch
        /\ \A x \in BrokerIds \ {b} : exchange'[x] = exchange[x]
    BY <1>10 DEF ExchangeCloses, ExchangeOrder, Working
  <2>2. QED BY <2>1, SameParked DEF Live, Placed
<1>11. CASE Restart
  <2>1. /\ \A k \in Keys : orders'[k] = NoOrder
        /\ \A c \in Callers : calls'[c].op = "idle"
        /\ epoch' = epoch + 1 /\ epoch \in Nat /\ exchange' = exchange
    BY <1>11, RestartsAssumption DEF Restart, Idle
  <2>2. \A r \in wire' : r.epoch \in Nat /\ r.epoch <= epoch
    BY <1>11, RestartsAssumption
       DEF Restart, Orphan, Request, OneRequestPerIntent, NothingFromTheFuture
  <2>3. \A x \in BrokerIds, k \in Keys : ~Live(x, k)'
    BY <2>1, RestartsAssumption
       DEF Live, Placed, OneRequestPerIntent, NothingFromTheFuture, ExchangeOrder
  <2>4. \A k \in Keys : [key |-> k, epoch |-> epoch'] \notin wire'
    BY <2>1, <2>2
  <2>5. QED
    BY <2>1, <2>3, <2>4 DEF ParkInv, Shown, Awaited, Refused, LostAckIsParked, NoOrder, Submitting
<1>12. QED
  BY <1>1, <1>2, <1>3, <1>4, <1>5, <1>6, <1>7, <1>8, <1>9, <1>10, <1>11
     DEF ProductionStep, SubmitStep

\* No fill is counted twice: fills of one order cover different shares of what
\* the exchange filled, and an order shows no more than its fills cover.
Lots(f)    == (f.upTo - f.qty + 1)..f.upTo
Covered(s) == UNION {Lots(f) : f \in s}
FillsApart ==
  /\ \A b \in BrokerIds : ~Placed(b) => exchange[b].filled = 0
  /\ \A f \in fills : f.qty <= f.upTo /\ f.upTo <= exchange[f.bid].filled
  /\ \A f, g \in fills : f.bid = g.bid /\ f # g =>
       f.upTo <= g.upTo - g.qty \/ g.upTo <= f.upTo - f.qty
Counted ==
  \A k \in Keys :
    /\ \A f \in seen[k] : f \in fills /\ f.bid = orders[k].bid
    /\ orders[k].filled <= Cardinality(Covered(seen[k]))

LEMMA FillsApartStep ==
  ASSUME TypeOK, FillsApart, [Next]_vars
  PROVE  FillsApart'
<1> USE QuantityAssumption DEF TypeOK
<1>1. ASSUME UNCHANGED fills, NEW b \in BrokerIds, NEW key, NEW life, ~Placed(b),
             exchange' = [exchange EXCEPT ![b] =
                            [status |-> "OPEN", key |-> key, epoch |-> life, filled |-> 0]]
      PROVE  FillsApart'
  <2>1. \A x \in BrokerIds : exchange'[x].filled = exchange[x].filled
    BY <1>1 DEF FillsApart, ExchangeOrder
  <2>2. \A x \in BrokerIds : ~Placed(x)' => ~Placed(x)
    BY <1>1 DEF Placed
  <2>3. QED BY <1>1, <2>1, <2>2 DEF FillsApart, Fill
<1>2. ASSUME UNCHANGED fills, NEW b \in BrokerIds, NEW s, s # "ABSENT",
             exchange' = [exchange EXCEPT ![b].status = s]
      PROVE  FillsApart'
  <2>1. \A x \in BrokerIds : exchange'[x].filled = exchange[x].filled
    BY <1>2 DEF ExchangeOrder
  <2>2. \A x \in BrokerIds : ~Placed(x)' => ~Placed(x)
    BY <1>2 DEF Placed, ExchangeOrder
  <2>3. QED BY <1>2, <2>1, <2>2 DEF FillsApart, Fill
<1>3. ASSUME NEW b \in BrokerIds, NEW q \in 1..Quantity, ExchangeFills(b, q) PROVE FillsApart'
  <2> DEFINE old == exchange[b].filled
             new == [bid |-> b, upTo |-> old + q, qty |-> q]
  <2>1. /\ exchange[b].status # "ABSENT" /\ old \in Nat /\ fills' = fills \cup {new}
        /\ exchange'[b].filled = old + q
        /\ \A x \in BrokerIds \ {b} : exchange'[x] = exchange[x]
    <3>1. exchange[b].status # "ABSENT" /\ old \in Nat /\ fills' = fills \cup {new}
      BY <1>3 DEF ExchangeFills, Working, ExchangeOrder
    <3>2. \E status : exchange' = [exchange EXCEPT ![b].filled = old + q, ![b].status = status]
      BY <1>3, Zenon DEF ExchangeFills
    <3>3. QED BY <3>1, <3>2 DEF ExchangeOrder
  <2>2. \A x \in BrokerIds : ~Placed(x)' => x = b \/ ~Placed(x)
    BY <2>1 DEF Placed
  <2>3. \A f \in fills : f \in Fill /\ exchange[f.bid].filled <= exchange'[f.bid].filled
    BY <2>1 DEF Fill, ExchangeOrder
  <2>4. exchange'[b].status # "ABSENT"
    BY <1>3 DEF ExchangeFills, ExchangeOrder
  <2>5. \A x \in BrokerIds : ~Placed(x)' => exchange'[x].filled = 0
    BY <2>1, <2>2, <2>4 DEF FillsApart, Placed
  <2>6. \A f \in fills' : f.qty <= f.upTo /\ f.upTo <= exchange'[f.bid].filled
    BY <2>1, <2>3 DEF FillsApart, Fill, ExchangeOrder
  <2>7. \A f \in fills : f.bid = b => f.upTo <= new.upTo - new.qty
    BY <2>1 DEF FillsApart, Fill
  <2>8. QED BY <2>1, <2>5, <2>6, <2>7 DEF FillsApart
<1>4. CASE UNCHANGED <<exchange, fills>>
  BY <1>4 DEF FillsApart, Placed
<1>5. ASSUME NEW c \in Callers, NEW b \in BrokerIds, ExchangeAccepts(c, b) PROVE FillsApart'
  BY <1>1, <1>5 DEF ExchangeAccepts, Place, Placed
<1>6. ASSUME NEW r \in wire, NEW b \in BrokerIds, ExchangeAcceptsOrphan(r, b) PROVE FillsApart'
  BY <1>1, <1>6 DEF ExchangeAcceptsOrphan, Place, Placed
<1>7. ASSUME NEW b \in BrokerIds, ExchangeCloses(b) PROVE FillsApart'
  BY <1>2, <1>7 DEF ExchangeCloses
<1>8. ASSUME NEW c \in Callers, ExchangeCancels(c) PROVE FillsApart'
  <2>1. CASE calls[c].bid \in BrokerIds
    BY <1>2, <1>8, <2>1 DEF ExchangeCancels
  <2>2. CASE calls[c].bid \notin BrokerIds
    BY <1>4, <1>8, <2>2 DEF ExchangeCancels
  <2>3. QED BY <2>1, <2>2
<1>9. QED
  BY <1>3, <1>4, <1>5, <1>6, <1>7, <1>8
     DEF Next, vars, SubmitStep, CancelStep, ReconcileStep, Submit, CancelUnsent, Cancel,
         SubmitAck, SubmitFails, SubmitRetry, SubmitRefused, SubmitUncertain, ApplyFill,
         CancelReturns, CancelFails, Reconcile, ReconcileAsks, ReconcileAdopts, ReconcileSkips,
         ReconcileEnds, ExchangeReports, Restart

LEMMA LotsSize ==
  ASSUME NEW f \in Fill
  PROVE  IsFiniteSet(Lots(f)) /\ Cardinality(Lots(f)) = f.qty
BY FS_Interval, QuantityAssumption DEF Lots, Fill

\* What the fills of an order cover is finite, and part of what was filled.
LEMMA CoveredSize ==
  ASSUME TypeOK, FillsApart, NEW b \in BrokerIds, NEW s \in SUBSET fills,
         \A f \in s : f.bid = b
  PROVE  /\ IsFiniteSet(Covered(s))
         /\ Cardinality(Covered(s)) \in Nat
         /\ Cardinality(Covered(s)) <= exchange[b].filled
<1>1. exchange[b].filled \in Nat
  BY QuantityAssumption DEF TypeOK, ExchangeOrder
<1>2. Covered(s) \subseteq 1..exchange[b].filled
  <2>1. \A f \in s : Lots(f) \subseteq 1..exchange[b].filled
    BY <1>1, QuantityAssumption DEF TypeOK, FillsApart, Lots, Fill
  <2>2. QED BY <2>1 DEF Covered
<1>3. \A n \in Nat : IsFiniteSet(1..n) /\ Cardinality(1..n) = n
  BY FS_Interval
<1>4. QED BY <1>1, <1>2, <1>3, FS_Subset, FS_CardinalityType

LEMMA CountedStep ==
  ASSUME TypeOK, OneRequestPerIntent, ParkInv, FillsApart, Counted, ProductionStep
  PROVE  Counted'
<1> USE NoBidAssumption DEF TypeOK, SetOrder
<1>1. ASSUME UNCHANGED seen, fills \subseteq fills',
             \A k \in Keys : \/ orders'[k].bid = orders[k].bid /\ orders'[k].filled = orders[k].filled
                             \/ orders[k].bid = NoBid /\ orders'[k].filled = 0
      PROVE  Counted'
  <2> SUFFICES ASSUME NEW k \in Keys
               PROVE  /\ \A f \in seen'[k] : f \in fills' /\ f.bid = orders'[k].bid
                      /\ orders'[k].filled <= Cardinality(Covered(seen'[k]))
    BY DEF Counted
  <2>1. CASE orders'[k].bid = orders[k].bid /\ orders'[k].filled = orders[k].filled
    BY <1>1, <2>1 DEF Counted
  <2>2. CASE orders[k].bid = NoBid /\ orders'[k].filled = 0
    <3>1. seen[k] = {}
      BY <2>2 DEF Counted, Fill
    <3>2. Cardinality(Covered(seen[k])) = 0
      BY <3>1, FS_EmptySet DEF Covered
    <3>3. QED BY <1>1, <2>2, <3>1, <3>2
  <2>3. QED BY <1>1, <2>1, <2>2
<1>2. ASSUME NEW k \in Keys, NEW f \in fills, ApplyFill(k, f) PROVE Counted'
  <2> DEFINE s == seen[k]
             t == s \cup {f}
  <2>1. /\ orders[k].bid = f.bid /\ f \notin s /\ f \in Fill /\ f.bid \in BrokerIds
        /\ orders[k] \in Order /\ UNCHANGED fills
        /\ seen' = [seen EXCEPT ![k] = t] /\ orders' = [orders EXCEPT ![k] = Filled(orders[k], f)]
    BY <1>2 DEF ApplyFill, AlreadySeen, Fill
  <2>2. s \in SUBSET fills /\ \A g \in s : g.bid = f.bid
    BY <2>1 DEF Counted
  <2>3. /\ IsFiniteSet(Covered(s)) /\ Cardinality(Covered(s)) \in Nat
    BY <2>1, <2>2, CoveredSize
  <2>4. Covered(s) \cap Lots(f) = {}
    <3>1. \A g \in s : g.upTo <= f.upTo - f.qty \/ f.upTo <= g.upTo - g.qty
      BY <2>1, <2>2 DEF FillsApart
    <3>2. \A g \in s : Lots(g) \cap Lots(f) = {}
      BY <2>1, <2>2, <3>1, QuantityAssumption DEF Lots, Fill
    <3>3. QED BY <3>2 DEF Covered
  <2>5. Covered(t) = Covered(s) \cup Lots(f)
    BY DEF Covered
  <2>6. Cardinality(Covered(t)) = Cardinality(Covered(s)) + f.qty
    <3>1. IsFiniteSet(Lots(f)) /\ Cardinality(Lots(f)) = f.qty /\ f.qty \in Nat
      BY <2>1, LotsSize, QuantityAssumption DEF Fill
    <3>2. Cardinality(Covered(s) \cup Lots(f)) =
            Cardinality(Covered(s)) + Cardinality(Lots(f)) - Cardinality(Covered(s) \cap Lots(f))
      BY <2>3, <3>1, FS_Union
    <3>3. Cardinality(Covered(s) \cap Lots(f)) = 0
      BY <2>4, FS_EmptySet
    <3> HIDE DEF s, t
    <3>4. QED BY <2>3, <2>5, <3>1, <3>2, <3>3
  <2>7. Filled(orders[k], f).bid = f.bid /\ Filled(orders[k], f).filled <= orders[k].filled + f.qty
    <3> DEFINE o == orders[k]
               total == o.filled + f.qty
               to == IF total >= Quantity THEN "FILLED" ELSE "PARTIALLY_FILLED"
    <3>1. Filled(o, f) = IF Legal(o, to) THEN [o EXCEPT !.status = to, !.filled = total] ELSE o
      BY DEF Filled
    <3>2. total \in Nat /\ o.filled <= total
      BY <2>1, QuantityAssumption DEF Order, Fill
    <3>3. o \in Order /\ o.bid = f.bid
      BY <2>1
    <3>4. total = orders[k].filled + f.qty
      OBVIOUS
    <3>5. Filled(o, f).filled <= total /\ Filled(o, f).bid = f.bid
      <4> HIDE DEF to, total, o
      <4> QED BY <3>1, <3>2, <3>3 DEF Order
    <3>6. QED BY <3>4, <3>5
  <2>8. orders[k].filled <= Cardinality(Covered(s))
    BY DEF Counted
  <2>9. Filled(orders[k], f).filled <= Cardinality(Covered(t))
    <3>1. Filled(orders[k], f).filled \in Nat /\ orders[k].filled \in Nat /\ f.qty \in Nat
      BY <2>1, FilledType, QuantityAssumption DEF Order, Fill
    <3>2. QED BY <2>3, <2>6, <2>7, <2>8, <3>1
  <2>10. /\ seen'[k] = t /\ orders'[k] = Filled(orders[k], f)
         /\ \A j \in Keys \ {k} : seen'[j] = seen[j] /\ orders'[j] = orders[j]
    BY <2>1
  <2>11. \A g \in t : g \in fills /\ g.bid = f.bid
    BY <2>2
  <2> HIDE DEF s, t
  <2>12. QED BY <2>1, <2>7, <2>9, <2>10, <2>11 DEF Counted
<1>3. CASE Restart
  <2>1. \A k \in Keys : seen'[k] = {} /\ orders'[k].filled = 0
    BY <1>3 DEF Restart, NoOrder
  <2>2. Cardinality(Covered({})) = 0
    BY FS_EmptySet DEF Covered
  <2>3. \A k \in Keys : Cardinality(Covered(seen'[k])) = 0
    BY <2>1, <2>2
  <2>4. QED BY <2>1, <2>3 DEF Counted
<1>4. ASSUME NEW c \in Callers, NEW k \in Keys, Submit(c, k) PROVE Counted'
  <2>1. /\ orders' = [orders EXCEPT ![k] = [NoOrder EXCEPT !.status = "PENDING_NEW"]]
        /\ orders[k].status = "ABSENT" /\ UNCHANGED <<seen, fills>>
    BY <1>4 DEF Submit, Stage, Registered
  <2>2. orders'[k].filled = 0 /\ orders[k].bid = NoBid
    BY <2>1 DEF NoOrder, ParkInv, Shown
  <2>3. QED BY <1>1, <2>1, <2>2
<1>5. ASSUME NEW c \in Callers, SubmitAck(c) \/ SubmitRefused(c) PROVE Counted'
  <2>0. PICK k \in Keys : k = calls[c].key
    BY DEF Call
  <2>1. orders[k].status = "PENDING_NEW" /\ orders[k].bid = NoBid /\ orders[k].filled = 0
    BY <1>5, <2>0 DEF SubmitAck, SubmitRefused, Waiting, ParkInv, Awaited, Shown, Submitting
  <2>2. /\ UNCHANGED <<seen, fills>>
        /\ \A j \in Keys \ {k} : orders'[j] = orders[j]
        /\ orders'[k].filled = orders[k].filled
    <3>1. orders[k] \in Order
      OBVIOUS
    <3>2. CASE SubmitAck(c)
      BY <2>0, <3>1, <3>2 DEF SubmitAck, Acknowledged, Transition, Order
    <3>3. CASE SubmitRefused(c)
      BY <2>0, <3>1, <3>3 DEF SubmitRefused, Transition, Order
    <3>4. QED BY <1>5, <3>2, <3>3
  <2>3. QED BY <1>1, <2>1, <2>2
<1>6. CASE UNCHANGED <<orders, seen>> /\ fills \subseteq fills'
  BY <1>1, <1>6
<1>7. QED
  BY <1>2, <1>3, <1>4, <1>5, <1>6
     DEF ProductionStep, SubmitStep, SubmitFails, SubmitRetry, SubmitUncertain, LeavePending,
         ExchangeAccepts, ExchangeAcceptsOrphan, ExchangeFills, ExchangeCloses

\* All of it together, and what keeps it: the steps of Next after which the
\* callers still only submit.
ProductionInv == SubmitsOnly /\ ParkInv /\ Counted

LEMMA ProductionStarts == Init => ProductionInv /\ FillsApart
<1> SUFFICES ASSUME Init PROVE ProductionInv /\ FillsApart
  OBVIOUS
<1>1. /\ \A b \in BrokerIds : exchange[b].filled = 0
      /\ \A k \in Keys : orders[k] = NoOrder /\ seen[k] = {}
      /\ \A c \in Callers : calls[c].op = "idle"
      /\ fills = {}
  BY DEF Init, Unplaced, Idle
<1>2. SubmitsOnly /\ FillsApart
  BY <1>1 DEF SubmitsOnly, FillsApart, NoOrder
<1>3. Counted
  <2>1. Cardinality(Covered({})) = 0
    BY FS_EmptySet DEF Covered
  <2>2. \A k \in Keys : Cardinality(Covered(seen[k])) = 0
    BY <1>1, <2>1
  <2>3. QED BY <1>1, <2>2 DEF Counted, NoOrder
<1>4. QED BY <1>2, <1>3, ParkStarts DEF ProductionInv

LEMMA ProductionKeeps ==
  ASSUME TypeOK, OneRequestPerIntent, FillsApart, ProductionInv, [Next]_vars, SubmitsOnly'
  PROVE  ProductionInv'
<1>1. CASE Next
  <2>1. ProductionStep
    BY <1>1, ProductionSteps DEF ProductionInv
  <2>2. QED BY <2>1, ParkKeeps, CountedStep DEF ProductionInv
<1>2. CASE UNCHANGED vars
  BY <1>2 DEF vars, ProductionInv, SubmitsOnly, ParkInv, Shown, Awaited, Refused,
              LostAckIsParked, Counted, Submitting, Live, Placed
<1>3. QED BY <1>1, <1>2

\* Callers that have neither operation at hand only submit.
LEMMA OnlySubmits ==
  ASSUME Ops = {}, TypeOK, SubmitsOnly, [Next]_vars
  PROVE  SubmitsOnly'
<1> USE DEF TypeOK, SubmitsOnly, SetCall, SetOrder, Waiting
<1>1. \A o \in Order, to \in Status \ {"CANCELLED"} :
        o.status # "CANCELLED" => Transition(o, to).status # "CANCELLED"
  BY DEF Transition, Order
<1>2. ASSUME NEW c \in Callers, NEW k \in Keys, Submit(c, k) PROVE SubmitsOnly'
  BY <1>2 DEF Submit, Stage, Idle, NoOrder
<1>3. ASSUME NEW c \in Callers, SubmitAck(c) PROVE SubmitsOnly'
  <2>0. PICK k \in Keys : k = calls[c].key
    BY DEF Call
  <2>1. orders[k] \in Order /\ orders[k].status # "CANCELLED"
    OBVIOUS
  <2>2. Acknowledged(orders[k], calls[c].bid).status # "CANCELLED"
    BY <1>1, <2>1 DEF Acknowledged, Order, Status
  <2>3. QED BY <1>3, <2>0, <2>2 DEF SubmitAck, Idle
<1>4. ASSUME NEW c \in Callers, SubmitRefused(c) PROVE SubmitsOnly'
  BY <1>1, <1>4 DEF SubmitRefused, Status, Idle, Call
<1>5. ASSUME NEW k \in Keys, NEW f \in fills, ApplyFill(k, f) PROVE SubmitsOnly'
  <2> DEFINE o == orders[k]
             total == o.filled + f.qty
             to == IF total >= Quantity THEN "FILLED" ELSE "PARTIALLY_FILLED"
  <2>1. Filled(o, f) = IF Legal(o, to) THEN [o EXCEPT !.status = to, !.filled = total] ELSE o
    BY DEF Filled
  <2>2. o \in Order /\ o.status # "CANCELLED" /\ to # "CANCELLED"
    OBVIOUS
  <2>3. Filled(o, f).status # "CANCELLED"
    <3> HIDE DEF o, to, total
    <3> QED BY <2>1, <2>2 DEF Order
  <2>4. QED BY <1>5, <2>3 DEF ApplyFill
<1>6. ASSUME NEW c \in Callers, UNCHANGED orders, calls' = [calls EXCEPT ![c] = Idle]
      PROVE  SubmitsOnly'
  BY <1>6 DEF Idle
<1>7. ASSUME NEW c \in Callers,
             \/ SubmitFails(c) \/ SubmitRetry(c) \/ \E b \in BrokerIds : ExchangeAccepts(c, b)
      PROVE  SubmitsOnly'
  <2>1. CASE SubmitFails(c)
    BY <2>1 DEF SubmitFails, Call
  <2>2. CASE SubmitRetry(c)
    BY <2>2 DEF SubmitRetry, NextAttempt, Call
  <2>3. CASE \E b \in BrokerIds : ExchangeAccepts(c, b)
    BY <2>3 DEF ExchangeAccepts, Call
  <2>4. QED BY <1>7, <2>1, <2>2, <2>3
<1>8. ASSUME NEW c \in Callers, CancelStep(c) \/ ReconcileStep(c) PROVE FALSE
  BY <1>8 DEF CancelStep, CancelReturns, CancelFails, ExchangeCancels, ReconcileStep,
              ReconcileAdopts, ReconcileSkips, ReconcileEnds, ExchangeReports, ReconcileAsks
<1>9. CASE Restart
  BY <1>9 DEF Restart, NoOrder, Idle
<1>10. CASE UNCHANGED <<orders, calls>>
  BY <1>10
<1>11. QED
  BY <1>2, <1>3, <1>4, <1>5, <1>6, <1>7, <1>8, <1>9, <1>10
     DEF Next, vars, SubmitStep, SubmitUncertain, LeavePending, CancelUnsent, Cancel, Reconcile,
         ExchangeAcceptsOrphan, ExchangeFills, ExchangeCloses

LEMMA ExchangeAlways == Spec => [](TypeOK /\ OneRequestPerIntent /\ FillsApart)
<1>1. TypeOK /\ OneRequestPerIntent /\ [Next]_vars => OneRequestPerIntent'
  BY OneRequestStep
<1>2. TypeOK /\ FillsApart /\ [Next]_vars => FillsApart'
  BY FillsApartStep
<1>3. Init => FillsApart
  BY ProductionStarts
<1>4. QED BY <1>1, <1>2, <1>3, OneRequestInit, TypeCorrect, PTL DEF Spec

LEMMA ProductionAlways == Ops = {} => (Spec => []ProductionInv)
<1> SUFFICES ASSUME Ops = {} PROVE Spec => []ProductionInv
  OBVIOUS
<1>1. TypeOK /\ OneRequestPerIntent /\ FillsApart /\ ProductionInv /\ [Next]_vars => ProductionInv'
  BY ProductionKeeps, OnlySubmits DEF ProductionInv
<1>2. Init => ProductionInv
  BY ProductionStarts
<1>3. QED BY <1>1, <1>2, ExchangeAlways, PTL DEF Spec

\* The same of the scenario of the run.
LEMMA InstanceIsSpec == MCSpec => Spec
<1>1. MCInit => Init
  BY DEF MCInit
<1>2. [MCNext]_mcvars => [Next]_vars
  BY DEF MCNext, mcvars
<1>3. QED BY <1>1, <1>2, PTL DEF MCSpec, Spec

InstanceInv == scenario = "production" => ProductionInv

LEMMA InstanceAlways == MCSpec => []InstanceInv
<1>1. MCInit => InstanceInv
  BY ProductionStarts DEF MCInit, InstanceInv
<1>2. TypeOK /\ OneRequestPerIntent /\ FillsApart /\ InstanceInv /\ [MCNext]_mcvars => InstanceInv'
  <2> SUFFICES ASSUME TypeOK, OneRequestPerIntent, FillsApart, InstanceInv, [MCNext]_mcvars,
                      scenario' = "production"
               PROVE  ProductionInv'
    BY DEF InstanceInv
  <2>1. scenario = "production" /\ ProductionInv /\ [Next]_vars
    BY DEF MCNext, mcvars, InstanceInv
  <2>2. SubmitsOnly'
    <3>1. CASE MCNext
      BY <2>1, <3>1 DEF MCNext, Within
    <3>2. CASE UNCHANGED mcvars
      BY <2>1, <3>2 DEF mcvars, vars, ProductionInv, SubmitsOnly
    <3>3. QED BY <3>1, <3>2
  <2>3. QED BY <2>1, <2>2, ProductionKeeps
<1>3. QED BY <1>1, <1>2, InstanceIsSpec, ExchangeAlways, PTL DEF MCSpec

\* An order whose acknowledgement never came is on record as pending, for as
\* long as the process lives, whatever else is submitted, retried or filled.
THEOREM LostAcksAreParked ==
  /\ Ops = {} => (Spec => []LostAckIsParked)
  /\ MCSpec => []ProductionParksLostAcks
<1>1. ProductionInv => LostAckIsParked
  BY DEF ProductionInv, ParkInv
<1>2. InstanceInv => ProductionParksLostAcks
  BY <1>1 DEF InstanceInv, ProductionParksLostAcks
<1>3. Ops = {} => (Spec => []LostAckIsParked)
  BY <1>1, ProductionAlways, PTL
<1>4. MCSpec => []ProductionParksLostAcks
  BY <1>2, InstanceAlways, PTL
<1>5. QED BY <1>3, <1>4

\* An order shown REJECTED is nowhere at the exchange, nor on its way there.
THEOREM RejectedIsNowhere ==
  /\ Ops = {} => (Spec => []RejectedMeansNotPlaced)
  /\ MCSpec => []ProductionRejectsUnplaced
<1>1. ProductionInv => RejectedMeansNotPlaced
  BY DEF ProductionInv, ParkInv, Refused, Awaited, RejectedMeansNotPlaced
<1>2. InstanceInv => ProductionRejectsUnplaced
  BY <1>1 DEF InstanceInv, ProductionRejectsUnplaced
<1>3. Ops = {} => (Spec => []RejectedMeansNotPlaced)
  BY <1>1, ProductionAlways, PTL
<1>4. MCSpec => []ProductionRejectsUnplaced
  BY <1>2, InstanceAlways, PTL
<1>5. QED BY <1>3, <1>4

\* The quantity shown as filled is one the exchange filled: whatever order the
\* fills come in, and however often, each is counted once.
THEOREM FillsAreCountedOnce ==
  /\ Ops = {} => (Spec => []NeverOverfilled)
  /\ MCSpec => []ProductionNeverOverfills
<1>1. TypeOK /\ OneRequestPerIntent /\ FillsApart /\ ProductionInv => NeverOverfilled
  <2> SUFFICES ASSUME TypeOK, FillsApart, ProductionInv, NEW k \in Keys, orders[k].filled > 0
               PROVE  orders[k].bid # NoBid /\ orders[k].filled <= exchange[orders[k].bid].filled
    BY DEF NeverOverfilled
  <2>1. orders[k] \in Order /\ orders[k].filled \in Nat
    BY DEF TypeOK, Order
  <2>2. orders[k].bid # NoBid /\ orders[k].bid \in BrokerIds
    BY <2>1 DEF ProductionInv, ParkInv, Shown, Order
  <2>3. seen[k] \in SUBSET fills /\ \A f \in seen[k] : f.bid = orders[k].bid
    BY DEF ProductionInv, Counted
  <2>4. /\ Cardinality(Covered(seen[k])) \in Nat
        /\ Cardinality(Covered(seen[k])) <= exchange[orders[k].bid].filled
    BY <2>2, <2>3, CoveredSize
  <2>5. exchange[orders[k].bid].filled \in Nat
    BY <2>2, QuantityAssumption DEF TypeOK, ExchangeOrder
  <2>6. orders[k].filled <= Cardinality(Covered(seen[k]))
    BY DEF ProductionInv, Counted
  <2>7. QED BY <2>1, <2>2, <2>4, <2>5, <2>6
<1>2. TypeOK /\ OneRequestPerIntent /\ FillsApart /\ InstanceInv => ProductionNeverOverfills
  BY <1>1 DEF InstanceInv, ProductionNeverOverfills
<1>3. Ops = {} => (Spec => []NeverOverfilled)
  BY <1>1, ProductionAlways, ExchangeAlways, PTL
<1>4. MCSpec => []ProductionNeverOverfills
  BY <1>2, InstanceAlways, InstanceIsSpec, ExchangeAlways, PTL
<1>5. QED BY <1>3, <1>4

-----------------------------------------------------------------------------
(* The refinement: from above, a step of production stages, places, refuses *)
(* or advances one intent, forgets them all, or is not seen.               *)

\* What the mapping makes of the state.
StatusOf == [k \in Keys |-> orders[k].status]
PlacedOf == [k \in Keys |-> {b \in BrokerIds : Live(b, k)}]

LEMMA SamePlaced ==
  ASSUME \A x \in BrokerIds, k \in Keys : Live(x, k)' <=> Live(x, k)
  PROVE  PlacedOf' = PlacedOf
BY DEF PlacedOf

\* Giving the exchange a request of intent k gives the intent its order.
LEMMA PlacedOnce ==
  ASSUME TypeOK, NEW b \in BrokerIds, exchange[b].status = "ABSENT", UNCHANGED epoch,
         NEW k \in Keys, NEW e \in 0..MaxRestarts, \A x \in BrokerIds : e = epoch => ~Live(x, k),
         exchange' = [exchange EXCEPT ![b] =
                        [status |-> "OPEN", key |-> k, epoch |-> e, filled |-> 0]]
  PROVE  PlacedOf' = IF e = epoch THEN [PlacedOf EXCEPT ![k] = {b}] ELSE PlacedOf
<1>1. \A x \in BrokerIds, j \in Keys :
        Live(x, j)' <=> IF x = b THEN j = k /\ e = epoch ELSE Live(x, j)
  BY DEF Live, Placed, TypeOK
<1>2. \A j \in Keys : ~Live(b, j)
  BY DEF Live, Placed
<1>3. CASE e = epoch
  BY <1>1, <1>2, <1>3 DEF PlacedOf
<1>4. CASE e # epoch
  BY <1>1, <1>2, <1>4, SamePlaced
<1>5. QED BY <1>3, <1>4

\* The steps of IntentLifecycle, said of them.
Staged(k)   == /\ StatusOf[k] = "ABSENT"
               /\ StatusOf' = [StatusOf EXCEPT ![k] = "PENDING_NEW"]
               /\ UNCHANGED PlacedOf
Given(k)    == /\ StatusOf[k] = "PENDING_NEW" /\ PlacedOf[k] = {}
               /\ \E b \in BrokerIds : PlacedOf' = [PlacedOf EXCEPT ![k] = {b}]
               /\ UNCHANGED StatusOf
Declined(k) == /\ StatusOf[k] = "PENDING_NEW" /\ PlacedOf[k] = {}
               /\ StatusOf' = [StatusOf EXCEPT ![k] = "REJECTED"]
               /\ UNCHANGED PlacedOf
Advanced(k) == /\ PlacedOf[k] # {}
               /\ \E to \in Lifecycle!After[StatusOf[k]] :
                    StatusOf' = [StatusOf EXCEPT ![k] = to]
               /\ UNCHANGED PlacedOf
Forgotten   == /\ StatusOf' = [k \in Keys |-> "ABSENT"]
               /\ PlacedOf' = [k \in Keys |-> {}]
SeenFromAbove == \/ \E k \in Keys : Staged(k) \/ Given(k) \/ Declined(k) \/ Advanced(k)
                 \/ Forgotten
                 \/ UNCHANGED <<StatusOf, PlacedOf>>

LEMMA LifecycleStep ==
  ASSUME TypeOK, OneRequestPerIntent, ParkInv, SubmitsOnly, ProductionStep
  PROVE  SeenFromAbove
<1> USE NoBidAssumption DEF TypeOK, SetOrder, Waiting
<1>1. ASSUME NEW c \in Callers, NEW k \in Keys, Submit(c, k)
      PROVE  Staged(k)
  <2>1. /\ orders' = [orders EXCEPT ![k] = [NoOrder EXCEPT !.status = "PENDING_NEW"]]
        /\ orders[k].status = "ABSENT" /\ UNCHANGED <<epoch, exchange>>
    BY <1>1 DEF Submit, Stage, Registered
  <2>2. QED BY <2>1, SamePlaced DEF Staged, StatusOf, Live, Placed, NoOrder
<1>2. ASSUME NEW c \in Callers, SubmitAck(c)
      PROVE  \E k \in Keys : Advanced(k)
  <2>1. PICK k \in Keys, b \in BrokerIds : k = calls[c].key /\ b = calls[c].bid
    BY <1>2 DEF SubmitAck, Call, OneRequestPerIntent, OnePlace
  <2>2. Live(b, k) /\ Submitting(k)
    BY <1>2, <2>1 DEF SubmitAck, OneRequestPerIntent, OnePlace, Submitting
  <2>3. orders[k].status = "PENDING_NEW" /\ orders[k] \in Order
    BY <2>2 DEF ParkInv, Awaited
  <2>4. Acknowledged(orders[k], b).status = "OPEN"
    BY <2>3 DEF Acknowledged, Legal, CanTransition, AllowedTransitions, Status, Order
  <2>5. orders' = [orders EXCEPT ![k] = Acknowledged(orders[k], b)] /\ UNCHANGED <<epoch, exchange>>
    BY <1>2, <2>1 DEF SubmitAck
  <2>6. PlacedOf[k] # {} /\ UNCHANGED PlacedOf
    BY <2>2, <2>5, SamePlaced DEF PlacedOf, Live, Placed
  <2>7. StatusOf[k] = "PENDING_NEW" /\ StatusOf' = [StatusOf EXCEPT ![k] = "OPEN"]
    BY <2>3, <2>4, <2>5 DEF StatusOf
  <2>8. "OPEN" \in Lifecycle!After["PENDING_NEW"]
    BY DEF Lifecycle!After
  <2>9. QED BY <2>6, <2>7, <2>8 DEF Advanced
<1>3. ASSUME NEW c \in Callers, SubmitRefused(c)
      PROVE  \E k \in Keys : Declined(k)
  <2>1. PICK k \in Keys : k = calls[c].key
    BY DEF Call
  <2>2. (\A b \in BrokerIds : ~Live(b, k)) /\ Submitting(k)
    BY <1>3, <2>1 DEF SubmitRefused, OneRequestPerIntent, OnePlace, Submitting
  <2>3. orders[k].status = "PENDING_NEW" /\ orders[k] \in Order
    BY <2>2 DEF ParkInv, Awaited
  <2>4. Transition(orders[k], "REJECTED").status = "REJECTED"
    BY <2>3 DEF Transition, Legal, CanTransition, AllowedTransitions, Status, Order
  <2>5. /\ orders' = [orders EXCEPT ![k] = Transition(orders[k], "REJECTED")]
        /\ UNCHANGED <<epoch, exchange>>
    BY <1>3, <2>1 DEF SubmitRefused
  <2>6. PlacedOf[k] = {} /\ UNCHANGED PlacedOf
    BY <2>2, <2>5, SamePlaced DEF PlacedOf, Live, Placed
  <2>7. QED BY <2>3, <2>4, <2>5, <2>6 DEF Declined, StatusOf
<1>4. ASSUME NEW c \in Callers, NEW b \in BrokerIds, ExchangeAccepts(c, b)
      PROVE  \E k \in Keys : Given(k)
  <2>1. PICK k \in Keys : k = calls[c].key
    BY DEF Call
  <2>2. (\A x \in BrokerIds : ~Live(x, k)) /\ Submitting(k)
    BY <1>4, <2>1 DEF ExchangeAccepts, OneRequestPerIntent, OnePlace, Submitting
  <2>3. orders[k].status = "PENDING_NEW"
    BY <2>2 DEF ParkInv, Awaited
  <2>4. /\ exchange[b].status = "ABSENT" /\ UNCHANGED <<orders, epoch>>
        /\ exchange' = [exchange EXCEPT ![b] =
                          [status |-> "OPEN", key |-> k, epoch |-> epoch, filled |-> 0]]
    BY <1>4, <2>1 DEF ExchangeAccepts, Place
  <2>5. PlacedOf' = [PlacedOf EXCEPT ![k] = {b}]
    BY <2>2, <2>4, PlacedOnce
  <2>6. QED BY <2>2, <2>3, <2>4, <2>5 DEF Given, StatusOf, PlacedOf
<1>5. ASSUME NEW r \in wire, NEW b \in BrokerIds, ExchangeAcceptsOrphan(r, b)
      PROVE  (\E k \in Keys : Given(k)) \/ UNCHANGED <<StatusOf, PlacedOf>>
  <2>1. PICK k \in Keys, e \in 0..MaxRestarts : r = [key |-> k, epoch |-> e]
    BY DEF Request
  <2>2. /\ exchange[b].status = "ABSENT" /\ UNCHANGED <<orders, epoch>>
        /\ exchange' = [exchange EXCEPT ![b] =
                          [status |-> "OPEN", key |-> k, epoch |-> e, filled |-> 0]]
    BY <1>5, <2>1 DEF ExchangeAcceptsOrphan, Place
  <2>3. \A x \in BrokerIds : e = epoch => ~Live(x, k)
    BY <2>1 DEF OneRequestPerIntent, OnePlace, Live
  <2>4. PlacedOf' = IF e = epoch THEN [PlacedOf EXCEPT ![k] = {b}] ELSE PlacedOf
    BY <2>2, <2>3, PlacedOnce
  <2>5. CASE e = epoch
    <3>1. orders[k].status = "PENDING_NEW"
      BY <2>1, <2>5 DEF ParkInv, Awaited
    <3>2. QED BY <2>2, <2>3, <2>4, <2>5, <3>1 DEF Given, StatusOf, PlacedOf
  <2>6. CASE e # epoch
    BY <2>2, <2>4, <2>6 DEF StatusOf
  <2>7. QED BY <2>5, <2>6
<1>6. ASSUME NEW k \in Keys, NEW f \in fills, ApplyFill(k, f)
      PROVE  Advanced(k) \/ UNCHANGED <<StatusOf, PlacedOf>>
  <2> DEFINE o == orders[k]
             total == o.filled + f.qty
             to == IF total >= Quantity THEN "FILLED" ELSE "PARTIALLY_FILLED"
  <2>1. /\ f \in Fill /\ o \in Order /\ o.bid # NoBid
        /\ o.status \in {"OPEN", "PARTIALLY_FILLED", "FILLED"}
    BY <1>6 DEF ApplyFill, Fill, ParkInv, Shown, SubmitsOnly, Order, Status
  <2>2. PlacedOf[k] # {}
    BY <2>1 DEF PlacedOf, OneRequestPerIntent, BoundToOwnIntent, Order
  <2>3. /\ orders' = [orders EXCEPT ![k] = Filled(o, f)]
        /\ UNCHANGED <<epoch, exchange>>
    BY <1>6 DEF ApplyFill
  <2>4. UNCHANGED PlacedOf
    BY <2>3, SamePlaced DEF Live, Placed
  <2>5. Filled(o, f).status \in {o.status} \cup Lifecycle!After[o.status]
    <3>1. Filled(o, f) = IF Legal(o, to) THEN [o EXCEPT !.status = to, !.filled = total] ELSE o
      BY DEF Filled
    <3>2. to \in {"FILLED", "PARTIALLY_FILLED"}
      OBVIOUS
    <3>3. Legal(o, to) => to \in {o.status} \cup Lifecycle!After[o.status]
      <4> HIDE DEF to, o
      <4> QED BY <2>1, <3>2 DEF Legal, CanTransition, AllowedTransitions, Status, Lifecycle!After
    <3> HIDE DEF o, to, total
    <3>4. QED BY <2>1, <3>1, <3>3 DEF Order
  <2>6. StatusOf' = [StatusOf EXCEPT ![k] = Filled(o, f).status] /\ StatusOf[k] = o.status
    BY <2>3 DEF StatusOf
  <2>7. CASE Filled(o, f).status = o.status
    BY <2>4, <2>6, <2>7 DEF StatusOf
  <2>8. CASE Filled(o, f).status \in Lifecycle!After[o.status]
    BY <2>2, <2>4, <2>6, <2>8 DEF Advanced
  <2>9. QED BY <2>5, <2>7, <2>8
<1>7. ASSUME Restart PROVE Forgotten
  <2>1. /\ epoch' = epoch + 1 /\ orders' = [k \in Keys |-> NoOrder] /\ UNCHANGED exchange
    BY <1>7 DEF Restart
  <2>2. \A x \in BrokerIds, k \in Keys : ~Live(x, k)'
    BY <2>1, RestartsAssumption
       DEF Live, Placed, OneRequestPerIntent, NothingFromTheFuture, ExchangeOrder
  <2>3. QED BY <2>1, <2>2 DEF Forgotten, StatusOf, PlacedOf, NoOrder
<1>8. ASSUME UNCHANGED <<orders, epoch>>,
             \A x \in BrokerIds : /\ exchange'[x].key = exchange[x].key
                                  /\ exchange'[x].epoch = exchange[x].epoch
                                  /\ Placed(x)' <=> Placed(x)
      PROVE  UNCHANGED <<StatusOf, PlacedOf>>
  BY <1>8, SamePlaced DEF StatusOf, Live
<1>9. ASSUME NEW b \in BrokerIds,
             ExchangeCloses(b) \/ \E q \in 1..Quantity : ExchangeFills(b, q)
      PROVE  UNCHANGED <<StatusOf, PlacedOf>>
  <2>1. CASE ExchangeCloses(b)
    BY <1>8, <2>1 DEF ExchangeCloses, Placed, ExchangeOrder, Working
  <2>2. CASE \E q \in 1..Quantity : ExchangeFills(b, q)
    BY <1>8, <2>2 DEF ExchangeFills, Placed, ExchangeOrder, Working
  <2>3. QED BY <1>9, <2>1, <2>2
<1>10. ASSUME NEW c \in Callers, SubmitFails(c) \/ SubmitRetry(c) \/ SubmitUncertain(c)
       PROVE  UNCHANGED <<StatusOf, PlacedOf>>
  BY <1>8, <1>10 DEF SubmitFails, SubmitRetry, SubmitUncertain, LeavePending, Placed
<1>11. QED
  BY <1>1, <1>2, <1>3, <1>4, <1>5, <1>6, <1>7, <1>9, <1>10
     DEF ProductionStep, SubmitStep, SeenFromAbove

LEMMA SeenOrStill ==
  ASSUME TypeOK, OneRequestPerIntent, ProductionInv, [Next]_vars, SubmitsOnly'
  PROVE  SeenFromAbove
<1>1. CASE Next
  BY <1>1, ProductionSteps, LifecycleStep DEF ProductionInv
<1>2. CASE UNCHANGED vars
  BY <1>2, SamePlaced DEF vars, SeenFromAbove, StatusOf, Live, Placed
<1>3. QED BY <1>1, <1>2

\* Retries, lost answers, requests that arrive late, fills in any order: seen
\* from above, each intent of a life is staged, placed and refused at most once
\* and then only moves on.  So it is in every life of a manager whose callers
\* only submit, and in the production scenario of the run.
THEOREM ImplementsIntentLifecycle ==
  /\ Ops = {} => (Spec => ImplementsLifecycle)
  /\ MCSpec => ProductionImplementsLifecycle
<1>1. Init => Lifecycle!AInit
  BY DEF Init, Lifecycle!AInit, NoOrder, Unplaced, Live, Placed
<1>2. SeenFromAbove => [Lifecycle!ANext]_(Lifecycle!avars)
  <2>1. ASSUME NEW k \in Keys
        PROVE  /\ Staged(k) => Lifecycle!StageIntent(k)
               /\ Given(k) => Lifecycle!PlaceIntent(k)
               /\ Declined(k) => Lifecycle!RefuseIntent(k)
               /\ Advanced(k) => Lifecycle!AdvanceIntent(k)
    BY DEF StatusOf, PlacedOf, Staged, Given, Declined, Advanced, Lifecycle!StageIntent,
           Lifecycle!PlaceIntent, Lifecycle!RefuseIntent, Lifecycle!AdvanceIntent, Lifecycle!Become
  <2>2. /\ Forgotten => Lifecycle!ForgetAll
        /\ UNCHANGED <<StatusOf, PlacedOf>> => UNCHANGED Lifecycle!avars
    BY DEF Forgotten, StatusOf, PlacedOf, Lifecycle!ForgetAll, Lifecycle!avars
  <2>3. QED BY <2>1, <2>2 DEF SeenFromAbove, Lifecycle!ANext
<1>3. Ops = {} => (Spec => ImplementsLifecycle)
  <2> SUFFICES ASSUME Ops = {} PROVE Spec => ImplementsLifecycle
    OBVIOUS
  <2>1. TypeOK /\ OneRequestPerIntent /\ ProductionInv /\ ProductionInv' /\ [Next]_vars
          => [Lifecycle!ANext]_(Lifecycle!avars)
    BY <1>2, SeenOrStill DEF ProductionInv
  <2>2. QED
    BY <1>1, <2>1, ProductionAlways, ExchangeAlways, PTL
       DEF Spec, ImplementsLifecycle, Lifecycle!ASpec
<1>4. MCInit => ProductionLifecycle!AInit
  BY DEF MCInit, Init, ProductionLifecycle!AInit, NoOrder, Unplaced, Live, Placed
<1>5. TypeOK /\ OneRequestPerIntent /\ InstanceInv /\ InstanceInv' /\ [MCNext]_mcvars
        => [ProductionLifecycle!ANext]_(ProductionLifecycle!avars)
  <2> SUFFICES ASSUME TypeOK, OneRequestPerIntent, InstanceInv, InstanceInv', [MCNext]_mcvars
               PROVE  [ProductionLifecycle!ANext]_(ProductionLifecycle!avars)
    OBVIOUS
  <2>1. [Next]_vars /\ scenario' = scenario
    BY DEF MCNext, mcvars
  <2>2. CASE scenario = "production"
    <3>1. SeenFromAbove
      BY <2>1, <2>2, SeenOrStill DEF InstanceInv, ProductionInv
    <3>2. ASSUME NEW k \in Keys
          PROVE  /\ Staged(k) => ProductionLifecycle!StageIntent(k)
                 /\ Given(k) => ProductionLifecycle!PlaceIntent(k)
                 /\ Declined(k) => ProductionLifecycle!RefuseIntent(k)
                 /\ Advanced(k) => ProductionLifecycle!AdvanceIntent(k)
      BY <2>1, <2>2
         DEF StatusOf, PlacedOf, Staged, Given, Declined, Advanced, Lifecycle!After,
             ProductionLifecycle!StageIntent, ProductionLifecycle!PlaceIntent,
             ProductionLifecycle!RefuseIntent, ProductionLifecycle!AdvanceIntent,
             ProductionLifecycle!Become, ProductionLifecycle!After
    <3>3. /\ Forgotten => ProductionLifecycle!ForgetAll
          /\ UNCHANGED <<StatusOf, PlacedOf>> => UNCHANGED ProductionLifecycle!avars
      BY <2>1, <2>2
         DEF Forgotten, StatusOf, PlacedOf, ProductionLifecycle!ForgetAll, ProductionLifecycle!avars
    <3>4. QED BY <3>1, <3>2, <3>3 DEF SeenFromAbove, ProductionLifecycle!ANext
  <2>3. CASE scenario # "production"
    BY <2>1, <2>3 DEF ProductionLifecycle!avars
  <2>4. QED BY <2>2, <2>3
<1>6. MCSpec => ProductionImplementsLifecycle
  BY <1>4, <1>5, InstanceAlways, InstanceIsSpec, ExchangeAlways, PTL
     DEF MCSpec, ProductionImplementsLifecycle, ProductionLifecycle!ASpec
<1>7. QED BY <1>3, <1>6
=============================================================================
