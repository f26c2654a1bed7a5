----------------------------- MODULE MarketData -----------------------------
(***************************************************************************)
(* The two writers of the candle table in one process (src/main.ts): the   *)
(* live feed, whose bars are fast, and the ingestor, whose bars are the    *)
(* exchange's own and "later replace" them.  Both run in the leader only.  *)
(***************************************************************************)
EXTENDS LiveFeed, Ingestion

dataVars == <<tickerVars, feedVars, ingestVars, now, candles>>

Init == TableInit /\ TickerInit /\ FeedInit /\ IngestInit

\* A pass is over within the lookback: the timeouts of its calls see to it.
Elapse ==
  /\ now < MaxTime /\ now' = now + 1
  /\ ~At("idle") => now' < pass.to + Lookback
  /\ UNCHANGED <<tickerVars, feedVars, ingestVars, candles>>

\* The pump looks at leadership once; a pass it started goes on without it.
Ingest == /\ At("idle") => running
          /\ IngestStep
          /\ UNCHANGED <<tickerVars, feedVars>>

\* A dying process takes the pass in flight with it.
Die == Crash /\ pass' = Idle /\ UNCHANGED <<watermark, first, offered, failures>>

Next == Elapse \/ Ingest \/ Die \/ (FeedStep /\ UNCHANGED ingestVars)

Spec == Init /\ [][Next]_dataVars

\* Timers fire; the network and the database answer or fail.
ConnectionFairness ==
  /\ WF_dataVars(RetryFires /\ UNCHANGED <<feedVars, ingestVars, now, candles>>)
  /\ WF_dataVars(WatchdogFires /\ UNCHANGED <<feedVars, ingestVars, now, candles>>)
  /\ WF_dataVars(LogIn /\ UNCHANGED <<feedVars, ingestVars, now, candles>>)
  /\ \A s \in Sockets : WF_dataVars((SocketOpens(s) \/ SocketEnds(s) \/ Gone(s))
                                    /\ UNCHANGED <<feedVars, ingestVars, now, candles>>)
FlushFairness ==
  /\ WF_dataVars(FlushTimer /\ UNCHANGED ingestVars)
  /\ WF_dataVars((FlushLands \/ FlushFails) /\ UNCHANGED ingestVars)
Fairness == ConnectionFairness /\ FlushFairness
=============================================================================
