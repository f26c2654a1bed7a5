----------------------------- MODULE MCServices -----------------------------
(* The components around the core, one per scenario, for they share no      *)
(* state: the alert queue, the simulated broker with its portfolio, a       *)
(* backtest, and the provider of historical bars.  Before it starts, TLC    *)
(* evaluates the assumptions of ReferenceChecks.                            *)
EXTENDS AlertQueue, Backtest, KiteHistorical, ReferenceChecks, TLC

VARIABLE scenario
mcvars == <<vars, backtestVars, historyVars, scenario>>

PaperShape(side, type, quantity, limit, trigger, tif, product) ==
  [side |-> side, type |-> type, quantity |-> quantity, limit |-> limit,
   trigger |-> trigger, tif |-> tif, product |-> product]
MCShapes ==
  {PaperShape("BUY", "MARKET", 3, 0, 0, "DAY", "MIS"),
   PaperShape("SELL", "MARKET", 5, 0, 0, "DAY", "CNC"),
   PaperShape("BUY", "LIMIT", 4, 99, 0, "DAY", "MIS"),
   PaperShape("SELL", "STOP", 2, 0, 100, "IOC", "MIS"),
   PaperShape("SELL", "STOP_LIMIT", 4, 93, 100, "IOC", "MIS"),
   PaperShape("BUY", "STOP_LIMIT", 2, 112, 104, "DAY", "MIS")}

\* Rates in thousandths, each of which matters at the prices below.
MCSchedule ==
  [brokerage |-> 10, cap |-> 3, sttDelivery |-> 30, sttSell |-> 20, exchange |-> 5,
   sebi |-> 1, gst |-> 180, stamp |-> 10]

\* A bar that rises, one that falls through a stop, one that gaps down and
\* crosses both stops, one without a range.
Bar(open, high, low, close) == [open |-> open, high |-> high, low |-> low, close |-> close]
MCCandles == {Bar(100, 110, 95, 105), Bar(100, 105, 85, 90), Bar(85, 120, 80, 115),
              Bar(115, 115, 115, 115)}

Enters(direction, quantity, stop) ==
  [direction |-> direction, quantity |-> quantity, stop |-> stop]
MCSignals == {[direction |-> "FLAT"], Enters("LONG", 5, 90), Enters("SHORT", 4, 115),
              Enters("LONG", 1, 95)}

\* Whole windows, a window that ends inside one, an empty range, and one that
\* does not begin on a second.
MCRanges == {[from |-> 0, to |-> 20], [from |-> 3, to |-> 17], [from |-> 9, to |-> 8],
             [from |-> 2, to |-> 13]}

MCInit ==
  /\ Init /\ BacktestInit /\ HistoryInit
  /\ scenario \in {"alerts", "paper", "backtest", "history"}
  /\ scenario # "history" => indexed

engineVars == <<step, bar, pending, openRisk, barFills>>
MCNext ==
  /\ CASE scenario = "alerts"   -> UNCHANGED <<backtestVars, historyVars>> /\ Next
       [] scenario = "paper"    -> UNCHANGED <<vars, engineVars, historyVars>> /\ PaperNext
       [] scenario = "backtest" -> UNCHANGED <<vars, historyVars>> /\ BacktestNext
       [] scenario = "history"  -> UNCHANGED <<vars, backtestVars>> /\ HistoryNext
  /\ UNCHANGED scenario

MCSpec      == MCInit /\ [][MCNext]_mcvars
OverlapSpec == MCInit /\ scenario = "history" /\ [][MCNext]_mcvars
Symmetry    == Permutations(Processes) \cup Permutations(Fetches)
=============================================================================
