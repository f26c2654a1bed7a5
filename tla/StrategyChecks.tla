--------------------------- MODULE StrategyChecks ---------------------------
(* The indicators and the strategies against what they promise, over all    *)
(* short series of a few prices.                                            *)
LOCAL INSTANCE Strategies

LOCAL SomePrices(n, from, to) == [1..n -> from..to]
LOCAL Defineds(line) == {i \in DOMAIN line : line[i] # Null}
LOCAL Atmost(a, b) == ~Below(b, a)
LOCAL Values(v, i, p) == {v[j] : j \in (i - p + 1)..i}

\* The rolling forms are the windows they stand for: a mean, a variance and the
\* extremes of exactly the last p values, defined from the p-th value on (sma,
\* stdev, highest, lowest).
ASSUME WindowsAreWindows ==
  \A v \in SomePrices(5, 0, 3), p \in 1..3 : \A i \in 1..5 :
    LET window == SubSeq(v, i - p + 1, i)
        mean == Over(FoldLeft(LAMBDA s, x : s + x, 0, window), p)
        spread == FoldLeft(LAMBDA s, x : Plus(s, Square(Minus(Whole(x), mean))), Whole(0), window)
    IN  IF i < p
        THEN Sma(v, p)[i] = Null /\ Highest(v, p)[i] = Null /\ Lowest(v, p)[i] = Null
        ELSE /\ Sma(v, p)[i] = mean
             /\ Variance(v, p)[i] = Times(spread, <<1, p>>)
             /\ Highest(v, p)[i][1] \in Values(v, i, p) /\ Lowest(v, p)[i][1] \in Values(v, i, p)
             /\ \A x \in Values(v, i, p) : Lowest(v, p)[i][1] <= x /\ x <= Highest(v, p)[i][1]

\* "Index i of the result always corresponds to index i of the input": no
\* indicator changes when the future is cut off (the header of indicators.ts).
ASSUME NoLookahead ==
  \A v \in SomePrices(5, 1, 3), n \in 1..5 :
    LET past == SubSeq(v, 1, n)
        same(long, short) == SubSeq(long, 1, n) = short
    IN  /\ same(Ema(Fractions(v), 2), Ema(Fractions(past), 2))
        /\ same(Rsi(v, 2), Rsi(past, 2))
        /\ same(ZScore(v, 3), ZScore(past, 3))
        /\ same(Roc(v, 2), Roc(past, 2))
        /\ same(Atr(v, v, v, 2), Atr(past, past, past, 2))
        /\ same(Macd(v, 1, 2, 2).histogram, Macd(past, 1, 2, 2).histogram)

\* The ranges the thresholds rely on: RSI lies in 0..100 and mirrors when the
\* prices do, a score is within the square root of p - 1, the true range covers
\* the bar, an average lies between the extremes of what it has seen.
ASSUME IndicatorsStayInRange ==
  \A v \in SomePrices(5, 1, 4) :
    LET mirrored == [i \in DOMAIN v |-> 5 - v[i]]
    IN  /\ \A i \in Defineds(Rsi(v, 2)) :
             /\ Atmost(Whole(0), Rsi(v, 2)[i]) /\ Atmost(Rsi(v, 2)[i], Whole(100))
             /\ \/ Plus(Rsi(v, 2)[i], Rsi(mirrored, 2)[i]) = Whole(100)
                \/ \A j \in 1..i : v[j] = v[1]
        /\ \A i \in Defineds(ZScore(v, 4)) : Absolute(ZScore(v, 4)[i][1]) <= 3 * ZScore(v, 4)[i][2]
        /\ \A i \in Defineds(Ema(Fractions(v), 2)) :
             /\ \E j \in 1..i : Atmost(Whole(v[j]), Ema(Fractions(v), 2)[i])
             /\ \E j \in 1..i : Atmost(Ema(Fractions(v), 2)[i], Whole(v[j]))

\* MACD, its signal and their difference are defined from the bar on at which
\* their slowest average is, and line up (macd).
ASSUME MacdIsAligned ==
  \A n \in 0..6 : \A v \in {w \in SomePrices(n, 1, 3) : n < 6 \/ w[1] = 1} :
    LET m == Macd(v, 2, 3, 2)
    IN  /\ Defineds(m.macd) = 3..n /\ Defineds(m.signal) = 4..n /\ Defineds(m.histogram) = 4..n
        /\ n >= 4 => m.signal[4] = Times(Plus(m.macd[3], m.macd[4]), <<1, 2>>)
        /\ \A i \in 4..n : Plus(m.histogram[i], m.signal[i]) = m.macd[i]
-----------------------------------------------------------------------------
\* Strategies with short periods, over bars that rise, fall and jump; a series
\* longer than six bars begins with a flat stretch.
LOCAL Bar(high, low, close) == [high |-> high, low |-> low, close |-> close]
LOCAL Bars == {Bar(100, 90, 95), Bar(112, 98, 110), Bar(104, 78, 80)}
LOCAL Series(n) == {s \in [1..n -> Bars] : \A i \in 1..(n - 5) : s[i] = s[1]}
LOCAL Holdings == {"LONG", "SHORT", "FLAT"}

LOCAL MomentumConfig ==
  [channel |-> 2, exitChannel |-> 1, roc |-> 1, minRocPercent |-> 2, atr |-> 1, stopAtrs |-> 3,
   allowShorts |-> TRUE]
LOCAL ReversionConfig ==
  [lookback |-> 3, trend |-> 5, atr |-> 1, entryZ |-> <<9, 10>>, exitZ |-> <<1, 2>>, stopAtrs |-> 2]
LOCAL TrendConfig ==
  [fast |-> 1, slow |-> 2, atr |-> 1, stopAtrs |-> 2, minSeparation |-> 20, lastMinutes |-> 15]
LOCAL VolatilityConfig ==
  [band |-> 3, multiplier |-> 1, lookback |-> 2, percentile |-> 25, atr |-> 1, stopAtrs |-> 2,
   allowShorts |-> TRUE]

LOCAL ByMomentum(s, i, held)   == Momentum(s, MomentumPrepare(s, MomentumConfig), i, held, MomentumConfig)
LOCAL ByReversion(s, i, held)  == Reversion(s, ReversionPrepare(s, ReversionConfig), i, held, ReversionConfig)
LOCAL ByTrend(s, i, held)      == Trend(s, TrendPrepare(s, TrendConfig), i, held, 15, TrendConfig)
LOCAL ByVolatility(s, i, held) == Volatility(s, VolatilityPrepare(s, VolatilityConfig), i, held, VolatilityConfig)

\* A decision does not read the future, opens only from flat and with a stop on
\* the losing side, closes only what is held, and is made by every strategy on
\* some series (the contract of strategy/types.ts).
LOCAL Sound(Decide(_, _, _), n, i) ==
  /\ \A s \in Series(n), held \in Holdings :
       LET d == Decide(s, i, held)
       IN  /\ d = Decide(SubSeq(s, 1, i), i, held)
           /\ d.direction = "FLAT" => held # "FLAT"
           /\ d.direction \in {"LONG", "SHORT"} =>
                /\ held = "FLAT" /\ d.stop > 0
                /\ IF d.direction = "LONG" THEN d.stop < s[i].close ELSE d.stop > s[i].close
  /\ \A direction \in Holdings : \E s \in Series(n), held \in Holdings :
       Decide(s, i, held).direction = direction

ASSUME DecisionsAreSound ==
  /\ Sound(ByMomentum, 6, 5)
  /\ Sound(ByReversion, 8, 7)
  /\ Sound(ByTrend, 5, 4)
  /\ Sound(ByVolatility, 9, 8)

\* Momentum, trend and volatility never close on the bar that opened; mean
\* reversion may: an entry far enough out is at once "extended against the
\* position", so the next bar at the same score closes it.
LOCAL ClosesWhatItOpens(Decide(_, _, _), n) ==
  \E s \in Series(n) :
    LET d == Decide(s, n, "FLAT")
    IN  d.direction \in {"LONG", "SHORT"} /\ Decide(s, n, d.direction).direction = "FLAT"
ASSUME EntriesOutliveTheirBar ==
  /\ ~ClosesWhatItOpens(ByMomentum, 5)
  /\ ~ClosesWhatItOpens(ByTrend, 4)
  /\ ~ClosesWhatItOpens(ByVolatility, 8)
  /\ ClosesWhatItOpens(ByReversion, 7)
=============================================================================
