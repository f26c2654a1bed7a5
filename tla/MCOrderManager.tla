--------------------------- MODULE MCOrderManager ---------------------------
(* Two small instances of OrderManager in one run.  In the "production"     *)
(* scenario the callers submit, and nothing else, as the runner and the API *)
(* do; in "everything" they also cancel and reconcile, on one order.        *)
(* Interchangeable values are numbers, used from the lowest up.             *)
EXTENDS OrderManager

CONSTANTS
  Subject, \* the one key of the "everything" scenario, and after a restart
  Few      \* how many orders the exchange places in the "everything" scenario

VARIABLE scenario
mcvars == <<vars, scenario>>

\* Ids, idle callers and fresh keys are numbers and are used from the lowest up.
UsedInOrder ==
  /\ \A a, b \in BrokerIds :
       a < b /\ exchange'[b].status # "ABSENT" => exchange'[a].status # "ABSENT"
  /\ \A c, d \in Callers :
       c < d /\ calls[d].op = "idle" /\ calls'[d].op # "idle" => calls[c].op # "idle"
  /\ \A j, k \in Keys :
       j < k /\ epoch' = 0 /\ orders'[k].status # "ABSENT" => orders'[j].status # "ABSENT"

Within ==
  CASE scenario = "production" ->
         /\ SubmitsOnly'
         /\ epoch' > 0 => \A k \in Keys \ {Subject} : orders'[k].status = "ABSENT"
    [] scenario = "everything" ->
         /\ \A k \in Keys \ {Subject} : orders'[k].status = "ABSENT"
         /\ \A b \in BrokerIds : exchange'[b].status # "ABSENT" => b <= Few

MCInit == Init /\ scenario \in {"production", "everything"}
MCNext == Next /\ UNCHANGED scenario /\ UsedInOrder /\ Within
MCSpec == MCInit /\ [][MCNext]_mcvars /\ Fairness

\* A cancellation closes an order that has no id yet, whose submission is in
\* flight, and reconcile writes an older record over a newer one.  Production
\* calls neither while orders are held, and there it is true that:

\* an order whose answer was lost is on record, PENDING_NEW, for a human;
ProductionParksLostAcks == scenario = "production" => LostAckIsParked

\* an order shown REJECTED is nowhere at the exchange nor on its way to it;
ProductionRejectsUnplaced == scenario = "production" => RejectedMeansNotPlaced

\* the quantity shown as filled is one the exchange filled, counted once.
ProductionNeverOverfills == scenario = "production" => NeverOverfilled

\* Without cancel and reconcile the manager implements IntentLifecycle; what
\* they do to an order is outside of it.
ProductionLifecycle == INSTANCE IntentLifecycle WITH
  intent <- [k \in Keys |-> IF scenario = "production" THEN orders[k].status ELSE "ABSENT"],
  placed <- [k \in Keys |-> IF scenario = "production"
                            THEN {b \in BrokerIds : Live(b, k)} ELSE {}]
ProductionImplementsLifecycle == ProductionLifecycle!ASpec
=============================================================================
