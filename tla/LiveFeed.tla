------------------------------- MODULE LiveFeed -------------------------------
(***************************************************************************)
(* Ticks in, bars in the candle table (src/marketdata/liveFeed.ts, with    *)
(* CandleAggregator of ohlc.ts and TickValidator of validation.ts), for    *)
(* one symbol: the feed keeps an aggregator and a validator per symbol     *)
(* that never meet, and one batch for all.  It owns a KiteTicker: both are *)
(* started and stopped in one go, so that one variable `running` stands    *)
(* for the two.  A tick is named by its exchange timestamp.                *)
(***************************************************************************)
EXTENDS KiteTicker, CandleTable

CONSTANTS
  Prices,      \* prices a tick can carry
  MaxMove,     \* largest move from the last good price, in tenths of it
  Late, Early, \* how far behind or ahead of the clock a tick may be
  MaxDbErrors, \* bound: failing writes
  MaxRestarts  \* bound: how often leadership is lost or the process dies

ASSUME FeedAssumption ==
  /\ Prices \subseteq Nat \ {0} /\ MaxMove \in Nat /\ Late \in Nat /\ Early \in Nat
  /\ MaxDbErrors \in Nat /\ MaxRestarts \in Nat

VARIABLES
  open,      \* the aggregator's open bar
  last,      \* the aggregator's last timestamp
  good,      \* the validator's last good price; 0 when there is none
  pending,   \* completed bars, not written yet
  batch,     \* the bars of the flush in flight
  inSession, \* lastSessionDate is set
  owed,      \* ticks taken into a bar and not yet sent to the table
  dbErrors, restarts

memory   == <<open, last, good, pending, batch, inSession, owed>>
feedVars == <<memory, dbErrors, restarts>>

NoBar == [at |-> -1, ticks |-> {}]

FeedTypeOK ==
  /\ open = NoBar \/ open \in Bar
  /\ last \in Times \cup {-1} /\ good \in Prices \cup {0}
  /\ pending \in Seq(Bar) /\ batch \in Seq(Bar) /\ inSession \in BOOLEAN
  /\ owed \subseteq Times /\ dbErrors \in 0..MaxDbErrors /\ restarts \in 0..MaxRestarts

Fresh ==
  /\ open' = NoBar /\ last' = -1 /\ good' = 0 /\ pending' = <<>> /\ batch' = <<>>
  /\ inSession' = FALSE /\ owed' = {}
FeedInit ==
  /\ open = NoBar /\ last = -1 /\ good = 0 /\ pending = <<>> /\ batch = <<>>
  /\ inSession = FALSE /\ owed = {} /\ dbErrors = 0 /\ restarts = 0

-----------------------------------------------------------------------------
\* TickValidator.validate: neither stale, nor of the future, nor a spike.
Distance(a, b) == IF a > b THEN a - b ELSE b - a
Plausible(p)   == good = 0 \/ 10 * Distance(p, good) <= MaxMove * good
Valid(t, p)    == t <= now + Early /\ t >= now - Late /\ Plausible(p)

\* CandleAggregator.push: the tick joins the open bar, or completes it and
\* opens the next one.
InBar(t)    == open # NoBar /\ BarOf(t) <= open.at
Joined(t)   == [open EXCEPT !.ticks = @ \cup {t}]
Opened(t)   == [at |-> BarOf(t), ticks |-> {t}]
Completed   == IF open = NoBar THEN <<>> ELSE <<open>>

Tick(t, p) ==
  /\ Delivering /\ running /\ MarketOpen(t) /\ Valid(t, p)
  /\ good' = p
  /\ IF t < last
     THEN UNCHANGED <<open, last, pending, owed>> \* push throws: the tick is dropped
     ELSE /\ last' = t /\ owed' = owed \cup {t}
          /\ open' = IF InBar(t) THEN Joined(t) ELSE Opened(t)
          /\ pending' = IF InBar(t) THEN pending ELSE pending \o Completed
  /\ UNCHANGED <<batch, inSession, dbErrors, restarts, tickerVars, now, candles>>

\* flush(): one at a time; everything pending goes into one statement.
Taken(bars) == IF batch # <<>> THEN pending' = bars /\ UNCHANGED batch
                               ELSE batch' = bars /\ pending' = <<>>

\* tickFlush(): outside the session the open bar is closed, once.
FlushTimer ==
  /\ running
  /\ inSession' = MarketOpen(now)
  /\ IF ~MarketOpen(now) /\ inSession
     THEN open' = NoBar /\ Taken(pending \o Completed)
     ELSE UNCHANGED open /\ Taken(pending)
  /\ UNCHANGED <<last, good, owed, dbErrors, restarts, tickerVars, now, candles>>

FlushLands ==
  /\ batch # <<>> /\ ~Twins(batch)
  /\ candles' = Upserted(batch) /\ batch' = <<>>
  /\ owed' = owed \ UNION {batch[i].ticks : i \in DOMAIN batch}
  /\ UNCHANGED <<open, last, good, pending, inSession, dbErrors, restarts, tickerVars, now>>

\* The write fails, or it is committed and its answer is lost, or Postgres
\* refuses the batch for good: the bars are put back in front.
LostBatch == pending   \* mutant: the failed batch is not put back
PutBack == batch \o pending
FlushFails ==
  /\ batch # <<>>
  /\ \/ Twins(batch) /\ UNCHANGED <<dbErrors, candles>>
     \/ /\ ~Twins(batch) /\ dbErrors < MaxDbErrors /\ dbErrors' = dbErrors + 1
        /\ candles' \in {candles, Upserted(batch)}
  /\ pending' = PutBack /\ batch' = <<>>
  /\ UNCHANGED <<open, last, good, inSession, owed, restarts, tickerVars, now>>

-----------------------------------------------------------------------------
\* onAcquired and the end of boot; onLost and shutdown.
Start ==
  /\ ~running /\ StartTicker
  /\ UNCHANGED <<feedVars, now, candles>>

\* stop() closes the open bar and flushes, or waits for the flush in flight.
Stop ==
  /\ running /\ restarts < MaxRestarts /\ restarts' = restarts + 1
  /\ StopTicker
  /\ open' = NoBar /\ Taken(pending \o Completed)
  /\ UNCHANGED <<last, good, inSession, owed, dbErrors, now, candles>>

\* The process dies, or shutdown() has stopped the feed and exits; a new
\* process starts clean.
Crash ==
  /\ restarts < MaxRestarts /\ restarts' = restarts + 1
  /\ StopTicker /\ Fresh
  /\ UNCHANGED <<dbErrors, now, candles>>

FeedStep ==
  \/ \E t \in Times, p \in Prices : Tick(t, p)
  \/ FlushTimer \/ FlushLands \/ FlushFails \/ Start \/ Stop
  \/ TickerStep /\ UNCHANGED <<feedVars, now, candles>>

-----------------------------------------------------------------------------
(* Properties                                                              *)

\* "These bars exist nowhere else": while the process lives, every tick it
\* took is in the open bar or in a bar that waits, until its bar is written.
Waiting  == batch \o pending
InMemory == Completed \o Waiting
NothingDropped == owed \subseteq UNION {InMemory[i].ticks : i \in DOMAIN InMemory}

\* "For the next attempt": bars that wait are written in the end, however
\* often the write fails.
WaitingIsWritten == Waiting # <<>> ~> Waiting = <<>> \/ ~running
=============================================================================
