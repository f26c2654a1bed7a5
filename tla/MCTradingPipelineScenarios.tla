--------------------- MODULE MCTradingPipelineScenarios ---------------------
(* Three small instances of TradingPipeline in one run.  In "controls" the  *)
(* operator stops, releases and changes the mode within one candle; in      *)
(* "closing" a position is exited by the square-off and the flatten route   *)
(* meanwhile; in "account" there are two days, two prices, a position left  *)
(* over, a second symbol and writes that fail.                              *)
EXTENDS MCTradingPipeline

CONSTANT Calm  \* the one price of the first two scenarios

VARIABLE scenario
mcvars == <<vars, scenario>>

MCInit ==
  /\ Init
  /\ \/ scenario = "controls" /\ db.held = 0 /\ market.price = Calm
     \/ scenario = "closing"  /\ db.held # 0 /\ market.price = Calm
     \/ scenario = "account"  /\ db.held # 0

OneCandle == /\ market' = market /\ db'.fill \in {0, Calm}
             /\ \A p \in Processes : mem'[p].day <= market.day /\ ~StoreFails(p)
NoClosing == \A p \in Processes : sending'[p].exit = NoOrder /\ loop'[p].at # "squaring"

OneStaged == \A p \in Processes : \A a, b \in mem'[p].approvals : a = b

NoRejects == \A p \in Processes : \A a \in mem[p].approvals : ~Reject(p, a)

Within ==
  CASE scenario = "controls" -> spent'.orders <= 1 /\ OneCandle /\ NoClosing
    [] scenario = "closing"  -> spent'.requests <= 1 /\ OneCandle /\ NoRejects
    [] scenario = "account"  -> spent'.requests = 0 /\ spent'.orders <= 1 /\ OneStaged
                               /\ NoClosing /\ NoRejects

MCNext == Next /\ UNCHANGED scenario /\ Within
MCSpec == MCInit /\ [][MCNext]_mcvars
=============================================================================
