----------------------------- MODULE CandleTable -----------------------------
(***************************************************************************)
(* The candle table of one symbol and interval, the clock and the trading  *)
(* session: what the live feed and the ingestor share (CandleRepository in *)
(* src/persistence/postgres.ts).  A row is told apart by where it comes    *)
(* from and, when it was built from ticks, by the ticks in it; prices are  *)
(* not part of it.                                                         *)
(***************************************************************************)
EXTENDS Integers, FiniteSets, Sequences

CONSTANTS
  PerBar,   \* moments in a bar
  MaxTime,  \* bound: the clock stops here
  OpenTimes \* when the market is open: one or more sessions

ASSUME ClockAssumption == PerBar \in Nat \ {0} /\ MaxTime \in Nat /\ OpenTimes \subseteq 0..MaxTime

VARIABLES now, candles

Times         == 0..MaxTime
BarOf(t)      == t \div PerBar
Bars          == 0..BarOf(MaxTime)
MarketOpen(t) == t \in OpenTimes

\* "none": no row.  "live": assembled from ticks.  "forming": the exchange's
\* version of a bar that was not over.  "settled": its final version.
NoRow   == [src |-> "none", ticks |-> {}]
Row     == [src : {"none", "live", "forming", "settled"}, ticks : SUBSET Times]
Bar     == [at : Bars, ticks : SUBSET Times]
Live(b) == [src |-> "live", ticks |-> b.ticks]

\* INSERT ... SELECT FROM unnest ON CONFLICT DO UPDATE: one statement for the
\* whole batch, which Postgres refuses when two of its rows have the same key.
Twins(batch)     == \E i, j \in DOMAIN batch : i < j /\ batch[i].at = batch[j].at
Upserted(batch)  ==
  [b \in Bars |-> IF \E i \in DOMAIN batch : batch[i].at = b
                  THEN Live(batch[CHOOSE i \in DOMAIN batch : batch[i].at = b])
                  ELSE candles[b]]

TableInit == now = 0 /\ candles = [b \in Bars |-> NoRow]
TableTypeOK == now \in Times /\ candles \in [Bars -> Row]
=============================================================================
