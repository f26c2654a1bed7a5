------------------------------ MODULE Ingestion ------------------------------
(***************************************************************************)
(* The historical ingestor (src/marketdata/ingestion.ts) and the pump that *)
(* runs it in the leader (src/main.ts): fetch from the watermark or the    *)
(* lookback window, whichever is earlier, validate, store, and advance the *)
(* watermark.  The answer of the provider is what the exchange knows when  *)
(* it answers; some bars of it may fail validation.  Sync of one symbol:   *)
(* syncAll() isolates them from each other.                                *)
(***************************************************************************)
EXTENDS CandleTable

CONSTANTS
  Lookback,   \* syncLookbackMs, in moments
  MaxBad,     \* bound: bars of one answer that fail validation
  MaxFailures \* bound: passes that fail

ASSUME IngestionAssumption == Lookback \in Nat /\ MaxBad \in Nat /\ MaxFailures \in Nat

VARIABLES
  watermark, \* the stored watermark; NoMark when there is none
  pass,      \* the sync() in flight
  first,     \* where the pass that wrote the first watermark began; NoMark before
  offered,   \* bars a finished pass was given in their final form, or rejected
  failures

ingestVars == <<watermark, pass, first, offered, failures>>

NoMark == -1
Steps  == {"idle", "read", "fetch", "store", "mark"}
Idle   == [step |-> "idle", to |-> 0, from |-> 0, settled |-> {}, forming |-> {}, bad |-> {}]

IngestTypeOK ==
  /\ watermark \in Times \cup {NoMark} /\ first \in Int /\ offered \subseteq Bars
  /\ pass \in [step : Steps, to : Times, from : Int, settled : SUBSET Bars,
               forming : SUBSET Bars, bad : SUBSET Bars]
  /\ failures \in 0..MaxFailures

IngestInit ==
  /\ watermark = NoMark /\ pass = Idle /\ first = NoMark /\ offered = {} /\ failures = 0

-----------------------------------------------------------------------------
At(step) == pass.step = step

\* pump(): the leader, in the session, one pass at a time.
Pump ==
  /\ At("idle") /\ MarketOpen(now)
  /\ pass' = [Idle EXCEPT !.step = "read", !.to = now]
  /\ UNCHANGED <<watermark, first, offered, failures, now, candles>>

Earlier(a, b) == IF a < b THEN a ELSE b
WindowOnly(mark, t) == t - Lookback   \* mutant: the watermark is not looked at
From(mark, t) == IF mark = NoMark THEN t - Lookback ELSE Earlier(mark, t - Lookback)

ReadWatermark ==
  /\ At("read")
  /\ pass' = [pass EXCEPT !.step = "fetch", !.from = From(watermark, pass.to)]
  /\ UNCHANGED <<watermark, first, offered, failures, now, candles>>

\* The bars that begin in the range, as far as the exchange has any.
Begins(b)  == PerBar * b
Traded     == {BarOf(t) : t \in OpenTimes}
Published  == {b \in Traded : Begins(b) >= pass.from /\ Begins(b) <= pass.to}
Over(b)    == Begins(b) + PerBar <= now
Fetched ==
  /\ At("fetch")
  /\ \E bad \in SUBSET Published :
       /\ Cardinality(bad) <= MaxBad
       /\ pass' = [pass EXCEPT !.step = "store", !.bad = {b \in bad : Over(b)},
                               !.settled = {b \in Published \ bad : Over(b)},
                               !.forming = {b \in Published \ bad : ~Over(b)}]
  /\ UNCHANGED <<watermark, first, offered, failures, now, candles>>

\* persist(): bars of the future and bars that fail validation are left out.
Accepted   == pass.settled \cup pass.forming
Answered   == pass.settled \cup pass.bad
Stored(b)  == IF b \in pass.settled THEN [src |-> "settled", ticks |-> {}]
              ELSE IF b \in pass.forming THEN [src |-> "forming", ticks |-> {}]
              ELSE candles[b]
WithPass   == [b \in Bars |-> Stored(b)]
StoreBars ==
  /\ At("store")
  /\ candles' = WithPass
  /\ pass' = IF Accepted = {} THEN Idle ELSE [pass EXCEPT !.step = "mark"]
  /\ offered' = IF Accepted = {} THEN offered \cup Answered ELSE offered
  /\ UNCHANGED <<watermark, first, failures, now>>

\* The watermark is the last accepted bar, past rejected ones.
LastOf(bars)   == CHOOSE b \in bars : \A c \in bars : c <= b
NextMark       == Begins(LastOf(Accepted))
WriteWatermark ==
  /\ At("mark")
  /\ watermark' = NextMark /\ pass' = Idle /\ offered' = offered \cup Answered
  /\ first' = IF first = NoMark THEN pass.from ELSE first
  /\ UNCHANGED <<failures, now, candles>>

\* A call of the provider or the database fails, for an hour or for a moment;
\* a statement whose answer is lost has been carried out (StoreBars).
SyncFails ==
  /\ ~At("idle") /\ failures < MaxFailures /\ failures' = failures + 1
  /\ pass' = Idle
  /\ UNCHANGED <<watermark, first, offered, now, candles>>

IngestStep == Pump \/ ReadWatermark \/ Fetched \/ StoreBars \/ WriteWatermark \/ SyncFails

-----------------------------------------------------------------------------
(* Properties                                                              *)

\* Once there is a watermark, whatever fails and for however long: a bar the
\* ingestor was not given in its final form is in reach of the next pass.
\* Older bars are the backfill's; a bar that was rejected is not asked for
\* again once it is older than the lookback.
RepairReaches ==
  first # NoMark =>
    \A b \in Traded \ offered : Begins(b) >= first => Begins(b) >= From(watermark, now)

=============================================================================
