---------------------------- MODULE MCMarketData ----------------------------
(* Small instances of MarketData.  "socket": the connection and its         *)
(* troubles, at one moment of the day.  "feed": two sessions of ticks over  *)
(* one socket, with failing writes and restarts of the feed.  "ingest": the *)
(* same two sessions for the ingestor, whose passes fail.  "session" is the *)
(* broker session, which the ticker only reads.                             *)
EXTENDS MarketData, BrokerSession

VARIABLE scenario
mcvars == <<dataVars, sessionVars, scenario>>

OnlySocket == CHOOSE s \in Sockets : TRUE
OneSocket  == \A s \in Sockets \ {OnlySocket} : sockets'[s] = Unused

\* Calls meet through the session only: one caller places orders, the others
\* read.
Places      == CHOOSE c \in Callers : TRUE
OthersRead  == \A c \in Callers \ {Places} : call'[c].method = "GET"

MCInit ==
  /\ Init /\ SessionInit /\ scenario \in {"socket", "feed", "ingest", "session"}
  /\ scenario # "socket" => loggedIn
MCNext ==
  /\ \/ /\ Next /\ UNCHANGED sessionVars
        /\ CASE scenario = "socket"  -> UNCHANGED <<now, owed, ingestVars>>
             [] scenario = "feed"    -> /\ UNCHANGED <<trouble, tokens, ingestVars>> /\ OneSocket
                                       /\ restarts' <= 1
             [] scenario = "ingest"  -> UNCHANGED <<trouble, tokens, feedVars>> /\ OneSocket
             [] scenario = "session" -> FALSE
     \/ /\ scenario = "session" /\ SessionNext /\ OthersRead /\ UNCHANGED dataVars
  /\ UNCHANGED scenario
MCSpec   ==
  /\ MCInit /\ [][MCNext]_mcvars /\ SessionFairness
  /\ scenario # "session" => ConnectionFairness
  /\ scenario \in {"socket", "feed"} => FlushFairness
FeedSpec == MCInit /\ scenario = "feed" /\ [][MCNext]_mcvars /\ Fairness
=============================================================================
