-------------------------- MODULE MCTradingPipeline --------------------------
EXTENDS TradingPipeline

\* Limits in which a handful of shares meets every cap.
MCLimits == [riskPerTrade |-> 25, maxPosition |-> 50, maxSymbol |-> 60, maxGross |-> 100,
             maxNet |-> 75, dailyLoss |-> 20, maxDrawdown |-> 30, maxOpen |-> 1,
             maxLosses |-> 4, requireStop |-> TRUE]
=============================================================================
