--------------------------- MODULE KiteHistorical ---------------------------
(***************************************************************************)
(* The provider of historical bars (marketdata/kiteHistorical.ts): a range *)
(* is split into windows Kite accepts, each is asked for in whole seconds, *)
(* under one rate limit for all fetches of the process.  Time counts the   *)
(* smallest step of a timestamp; Second of them are what Kite can tell     *)
(* apart.  A bar is its timestamp: prices are converted, never compared.   *)
(***************************************************************************)
EXTENDS Integers, FiniteSets, Sequences, SequencesExt

CONSTANTS
  Fetches,     \* fetches that may run at once
  Second,      \* steps of a timestamp in a second
  BarSize,     \* the distance of two bars
  Span,        \* the longest window a request may ask for
  PerSecond,   \* requests a second
  Ranges,      \* ranges callers ask for, records [from, to]
  Lengthy,     \* bound: bars exist up to here
  MaxRequests, \* bound: requests made
  MaxWait,     \* bound: the clock
  MaxOutages   \* bound: requests that fail or are answered without data

ASSUME HistoryAssumption ==
  /\ Second \in Nat \ {0} /\ BarSize \in Nat \ {0} /\ BarSize % Second = 0
  /\ Span \in Nat \ {0} /\ Span % Second = 0 /\ PerSecond \in Nat \ {0}
  /\ Ranges \subseteq [from : Nat, to : Nat] /\ Lengthy \in Nat

VARIABLES
  fetch,       \* per fetch: where it is, its range, its windows, the bars so far,
               \* and (history) the windows that were answered without data
  indexed,     \* the instrument dump is cached
  bucket,      \* the rate limiter: Second parts to a token, and when it was filled
  time,
  sentAt,      \* history: when requests were sent
  outages

historyVars == <<fetch, indexed, bucket, time, sentAt, outages>>

Unasked == [at |-> "idle", range |-> [from |-> 0, to |-> 0], window |-> 0, bars |-> <<>>, lacks |-> {}]

HistoryInit ==
  /\ fetch = [f \in Fetches |-> Unasked]
  /\ indexed \in BOOLEAN                     \* the configuration may bring the dump
  /\ bucket = [tokens |-> PerSecond * Second, filled |-> 0]
  /\ time = 0 /\ sentAt = <<>> /\ outages = 0
-----------------------------------------------------------------------------
WideStride == Span + BarSize   \* mutant: the next window starts at the next bar

\* chunkRange(): consecutive windows, one step apart, oldest first.
Stride == Span + 1

Windows(r) == IF r.from > r.to THEN 0 ELSE (r.to - r.from) \div Stride + 1
WindowFrom(r, k) == r.from + (k - 1) * Stride
WindowTo(r, k) == IF WindowFrom(r, k) + Span < r.to THEN WindowFrom(r, k) + Span ELSE r.to

\* toKiteTime(): whole seconds.
KiteTime(t) == (t \div Second) * Second

AllBars == {b \in 0 .. Lengthy : b % BarSize = 0}
BarsIn(from, to) == {b \in AllBars : from <= b /\ b <= to}

\* What Kite answers, in an order of its own.
Rows(from, to) == SetToSeqs(BarsIn(KiteTime(from), KiteTime(to)))

\* In order: in the i-th place is the least bar that i bars do not exceed.
RankOf(bars, v) == Cardinality({j \in DOMAIN bars : bars[j] <= v})
Ascending(bars) ==
  [i \in DOMAIN bars |->
    CHOOSE v \in ToSet(bars) :
      /\ RankOf(bars, v) >= i
      /\ \A w \in ToSet(bars) : RankOf(bars, w) >= i => v <= w]
-----------------------------------------------------------------------------
\* acquire(): the bucket is filled up to now, and a token taken if there is one.
Refilled ==
  LET tokens == bucket.tokens + (time - bucket.filled) * PerSecond
  IN  IF tokens > PerSecond * Second THEN PerSecond * Second ELSE tokens

Acquire ==
  /\ Refilled >= Second /\ Len(sentAt) < MaxRequests
  /\ bucket' = [tokens |-> Refilled - Second, filled |-> time]
  /\ sentAt' = Append(sentAt, time)

Goes(f, to) == fetch' = [fetch EXCEPT ![f].at = to]

FetchCandles(f, r) ==
  /\ fetch[f].at = "idle"
  /\ fetch' = [fetch EXCEPT ![f] =
       [Unasked EXCEPT !.at = IF indexed THEN "window" ELSE "instruments", !.range = r]]
  /\ UNCHANGED <<indexed, bucket, time, sentAt, outages>>

\* loadInstruments(): every fetch that finds no dump asks for one.
AskDump(f) ==
  /\ fetch[f].at = "instruments" /\ Acquire /\ Goes(f, "dump")
  /\ UNCHANGED <<indexed, time, outages>>

DumpArrives(f) ==
  /\ fetch[f].at = "dump" /\ Goes(f, "window") /\ indexed' = TRUE
  /\ UNCHANGED <<bucket, time, sentAt, outages>>

\* fetchChunk() for the next window, one after the other.
AskWindow(f) ==
  /\ fetch[f].at = "window" /\ fetch[f].window < Windows(fetch[f].range) /\ Acquire
  /\ fetch' = [fetch EXCEPT ![f].at = "sent", ![f].window = @ + 1]
  /\ UNCHANGED <<indexed, time, outages>>

WindowArrives(f) ==
  /\ fetch[f].at = "sent"
  /\ LET r == fetch[f].range
         k == fetch[f].window
     IN  \E rows \in Rows(WindowFrom(r, k), WindowTo(r, k)) :
           fetch' = [fetch EXCEPT ![f].at = "window", ![f].bars = @ \o rows]
  /\ UNCHANGED <<indexed, bucket, time, sentAt, outages>>

\* `payload.data?.candles ?? []`: a 2xx without data is taken for a window
\* without bars, and the fetch goes on.
WindowIsEmpty(f) ==
  /\ fetch[f].at = "sent" /\ outages < MaxOutages /\ outages' = outages + 1
  /\ fetch' = [fetch EXCEPT ![f].at = "window", ![f].lacks = @ \cup {fetch[f].window}]
  /\ UNCHANGED <<indexed, bucket, time, sentAt>>

Finish(f) ==
  /\ fetch[f].at = "window" /\ fetch[f].window = Windows(fetch[f].range)
  /\ fetch' = [fetch EXCEPT ![f].at = "done", ![f].bars = Ascending(@)]
  /\ UNCHANGED <<indexed, bucket, time, sentAt, outages>>

\* A request that times out, is refused or cannot be read fails the fetch as a
\* whole: no part of it is returned.
RequestFails(f) ==
  /\ fetch[f].at \in {"dump", "sent"} /\ outages < MaxOutages /\ outages' = outages + 1
  /\ fetch' = [fetch EXCEPT ![f] = Unasked]
  /\ UNCHANGED <<indexed, bucket, time, sentAt>>

Waits == time < MaxWait /\ time' = time + 1
         /\ UNCHANGED <<fetch, indexed, bucket, sentAt, outages>>

HistoryNext ==
  \/ Waits
  \/ \E f \in Fetches :
       \/ AskDump(f) \/ DumpArrives(f) \/ AskWindow(f) \/ WindowArrives(f) \/ WindowIsEmpty(f)
       \/ Finish(f) \/ RequestFails(f)
       \/ \E r \in Ranges : FetchCandles(f, r)

HistorySpec == HistoryInit /\ [][HistoryNext]_historyVars
-----------------------------------------------------------------------------
Done(f) == fetch[f].at = "done"

\* A fetch that succeeds brings every bar of its range whose window was answered,
\* in order, and no other bar but one of the second the range begins in.
Lacked(r, lacks, b) == \E k \in lacks : WindowFrom(r, k) <= b /\ b <= WindowTo(r, k)
Complete(f) ==
  LET r == fetch[f].range
  IN  /\ \A b \in BarsIn(r.from, r.to) : b \in ToSet(fetch[f].bars) \/ Lacked(r, fetch[f].lacks, b)
      /\ ToSet(fetch[f].bars) \subseteq BarsIn(KiteTime(r.from), r.to)

InTimeOrder(f) == \A i \in 2 .. Len(fetch[f].bars) : fetch[f].bars[i - 1] <= fetch[f].bars[i]

\* However many fetches share the limiter, no second sees more requests than a
\* full bucket and what refills it.
Paced ==
  \A i \in DOMAIN sentAt :
    Cardinality({j \in DOMAIN sentAt : sentAt[j] \in sentAt[i] .. sentAt[i] + Second - 1})
      <= 2 * PerSecond

\* The history a backfill stores has no hole but the windows answered without
\* data, none at the borders of the windows, whatever the alignment of the range,
\* and stays within the rate limit (kiteHistorical.ts chunkRange, fetchCandles,
\* RateLimiter).
HistoryIsWhole == Paced /\ \A f \in Fetches : Done(f) => Complete(f) /\ InTimeOrder(f)

\* "consecutive chunks cannot both contain the boundary bar": no bar is brought
\* twice.
NoBarTwice == \A f \in Fetches : Cardinality(ToSet(fetch[f].bars)) = Len(fetch[f].bars)
=============================================================================
