--------------------------- MODULE MCTradingLedger ---------------------------
(* Small instances of TradingLedger.  "solo" is src/main.ts with one        *)
(* process: a loop that squares off, loses the lock, dies and starts again, *)
(* decides again on the bar it has traded, while the broker is out at times *)
(* and order rows are lost.  "lease" is src/serverless.ts: a warm container *)
(* in which ticks and the operator's clicks take turns.  "pair" is a ledger *)
(* of its own, shared by two processes, with promotion, unguarded approvals *)
(* and a failing database.  Interchangeable values are numbers, used from   *)
(* the lowest up.                                                           *)
EXTENDS TradingLedger

VARIABLES scenario,
  rows2, stored2, squaredOff2, exchange2, up2, leader2, crashes2, oms2, portfolio2,
  closed2, calls2

vars2  == <<rows2, stored2, squaredOff2, exchange2, up2, leader2, crashes2, oms2, portfolio2,
            closed2, calls2>>
mcvars == <<vars, vars2, scenario>>

\* The ledger of the configuration, named for its liveness: a module that is
\* instantiated is also one whose constant definitions TLC evaluates anew in
\* every instance, which Pair needs.
Solo == INSTANCE TradingLedger

\* The other two are instances of the module with the theorems, to cite them.
Leased == INSTANCE TradingLedgerProofs WITH
  Deployment <- "lease", Features <- {"bar", "flatten", "dbOutage", "lostWrite"},
  MaxCrashes <- 0

ASSUME PairAssumption == NoBid \notin {1, 2} /\ NoOne \notin {11, 12}
Pair == INSTANCE TradingLedgerProofs WITH
  Processes <- {11, 12}, Clicks <- {1}, Entries <- {21, 22}, Exits <- {},
  BrokerIds <- {1, 2}, Opening <- 0,
  Features <- {"bar", "approve", "dbOutage", "lostWrite", "lostAnswer"},
  rows <- rows2, stored <- stored2, squaredOff <- squaredOff2, exchange <- exchange2,
  up <- up2, leader <- leader2, crashes <- crashes2, oms <- oms2, portfolio <- portfolio2,
  closed <- closed2, calls <- calls2

Used(o) == \E b \in BrokerIds : Placed(b) /\ exchange[b].order = o
UsedInOrder ==
  /\ \A a, b \in BrokerIds : a < b /\ Placed(b)' => Placed(a)'
  /\ \A x, y \in Exits : x < y /\ Used(y)' => Used(x)'
Known2(o)  == rows2[o].status # "ABSENT" \/ \E p \in {11, 12} : oms2[p][o].status # "ABSENT"
PairInOrder ==
  /\ exchange2'[2].status # "ABSENT" => exchange2'[1].status # "ABSENT"
  /\ 12 \in up2' => 11 \in up2' \/ crashes2' > 0
  /\ Known2(22)' => Known2(21)'

MCInit == Init /\ Pair!Init /\ scenario \in {"solo", "lease", "pair"}
MCNext == /\ \/ scenario = "solo"  /\ Next        /\ UsedInOrder /\ UNCHANGED vars2
             \/ scenario = "lease" /\ Leased!Next /\ UsedInOrder /\ UNCHANGED vars2
             \/ scenario = "pair"  /\ Pair!Next   /\ PairInOrder /\ UNCHANGED vars
          /\ UNCHANGED scenario

\* A process that died is started again, timers fire and awaited calls return
\* (the pool's and the connector's timeouts bound them).  An interval timer
\* keeps finding reconciliation due, and an outage of getFills ends.
Running  == scenario = "solo"
Fairness ==
  /\ \A p \in Processes :
       /\ WF_vars(Running /\ Boot(p)) /\ WF_vars(Running /\ Promote(p))
       /\ WF_vars(Running /\ Reconciling(p)) /\ WF_vars(Running /\ Deciding(p))
       /\ SF_vars(Running /\ Tick(p) /\ calls'[p].pc = "findOpen")
       /\ SF_vars(Running /\ GetFills(p))
       /\ WF_vars(Running /\ Submission(p))
MCSpec == MCInit /\ [][MCNext]_mcvars /\ Fairness

\* Every fill reaches the portfolio of the process, which dies and comes back.
SoloFillsReachPortfolio == scenario = "solo" => Solo!FillsReachPortfolio

\* No portfolio counts a fill twice: with one process, and with two of them,
\* promotion, unguarded approvals and lost answers of the database.
FillsCountOnce == NoFillCountedTwice /\ Pair!NoFillCountedTwice

\* The square-off sells what there is to close, and once: whatever becomes of the
\* process, of the lock, of its requests and of the rows and marks it writes.
SquareOffSellsOnce == scenario = "solo" => NeverShort
=============================================================================
