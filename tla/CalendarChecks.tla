--------------------------- MODULE CalendarChecks ---------------------------
(* The calendar and the candle series against what they promise, over small *)
(* inputs.                                                                  *)
LOCAL INSTANCE TradingCalendar
LOCAL INSTANCE CandleSeries

\* 14 December 2026 to 12 January 2027, a year on each side of the turn, with a
\* holiday on a weekday, one on a weekend, and a special session on a Sunday.
LOCAL Christmas == DayNumber([year |-> 2026, month |-> 12, day |-> 25])
LOCAL Days      == (Christmas - 11)..(Christmas + 18)
LOCAL Muhurat   == Christmas + 9
LOCAL Calendars ==
  {[holidays |-> h, special |-> s, covered |-> y, open |-> 555, close |-> 930] :
     h \in {{}, {Christmas}, {Christmas + 1, Christmas + 3}},
     s \in {<<>>, [d \in {Muhurat} |-> [open |-> 1080, close |-> 1140]]},
     y \in {EveryYear, {2026}, {2027}}}
LOCAL Moments(d) == {FromIst(d, m) : m \in {0, 1, 554, 555, 929, 930, 1080, 1139, 1140, 1439}}

\* An instant is read back as the date and minute it was made from, and every
\* date has its year (calendar.ts toIstDate, fromIst).
ASSUME CivilRoundTrip ==
  /\ \A d \in Days, m \in {0, 1, 329, 330, 331, 1439} :
       IstDate(FromIst(d, m)) = d /\ IstMinute(FromIst(d, m)) = m
  /\ \A y \in {1970, 1972, 2000, 2026, 2027, 2028, 2100}, m \in 1..12 :
       /\ YearOf(DayNumber([year |-> y, month |-> m, day |-> 1])) = y
       /\ YearOf(DayNumber([year |-> y, month |-> m, day |-> MonthLength(y, m)])) = y

\* The market is open only in the session of the date the instant falls on in
\* India, never in an uncovered year, and then the minutes that remain are
\* positive and end at the close (isMarketOpen, minutesToClose).
ASSUME OpenInOneSession ==
  \A c \in Calendars : \A d \in Days : \A t \in Moments(d) :
    IsMarketOpen(c, t) =>
      /\ IsCovered(c, d) /\ IsTradingDay(c, d)
      /\ \A e \in {d - 1, d + 1} : SessionFor(c, e) # Shut =>
           SessionFor(c, e).close <= t \/ t < SessionFor(c, e).open
      /\ MinutesToClose(c, t) > 0
      /\ ~IsMarketOpen(c, t + MinutesToClose(c, t))

\* Walking from trading day to trading day visits the trading days between two
\* dates and no other, in both directions (nextTradingDay, tradingDaysBetween).
ASSUME TradingDaysAreLinked ==
  \A c \in Calendars : \A from \in Days :
    LET days == TradingDaysBetween(c, from, Christmas + 18)
    IN  \A d \in days : PreviousTradingDay(c, d) >= from =>
          /\ PreviousTradingDay(c, d) \in days
          /\ NextTradingDay(c, PreviousTradingDay(c, d)) = d

\* A written list closes the days it names, and no day outside the years it
\* names is a session; an entry that names no day of its month is taken and
\* closes nothing (parseHolidays, buildCalendar).
LOCAL Written == {[year |-> 2026, month |-> m, day |-> d] : m \in {2, 12, 13}, d \in {0, 25, 30}}
ASSUME WrittenHolidays ==
  \A raw \in UNION {[1..n -> Written] : n \in 0..2} : Parses(raw) =>
    LET c == BuildCalendar(raw, {[year |-> 2027, month |-> 1, day |-> 26]})
    IN  /\ \A i \in DOMAIN raw : Exists(raw[i]) => SessionFor(c, DayNumber(raw[i])) = Shut
        /\ \A d \in Days : SessionFor(c, d) # Shut => YearOf(d) \in c.covered
-----------------------------------------------------------------------------
\* Candles of one minute, at minutes that may skip, and their reference.
LOCAL CandleShapes ==
  {[open |-> 10, high |-> 14, low |-> 9, close |-> 12, volume |-> 3],
   [open |-> 20, high |-> 20, low |-> 18, close |-> 18, volume |-> 0],
   [open |-> 12, high |-> 11, low |-> 9, close |-> 10, volume |-> 1],
   [open |-> 5, high |-> 6, low |-> 0, close |-> 6, volume |-> 2]}
LOCAL Candle(at, s) == s @@ [at |-> at]
LOCAL Series(n, minutes) ==
  {[i \in 1..n |-> Candle(w[i], s[i])] :
     w \in {v \in [1..n -> minutes] : \A i, j \in 1..n : i < j => v[i] < v[j]},
     s \in [1..n -> CandleShapes]}
LOCAL Highest(S) == CHOOSE x \in S : \A y \in S : y <= x
LOCAL Lowest(S)  == CHOOSE x \in S : \A y \in S : x <= y

\* What passes the check brackets its body and can be priced (validateCandle).
ASSUME SaneCandles ==
  \A o, h, l, c \in 0..3, v \in {-1, 0} :
    LET candle == [at |-> 0, open |-> o, high |-> h, low |-> l, close |-> c, volume |-> v]
    IN  (Faults(candle) = {}) <=> (0 < l /\ l <= o /\ o <= h /\ l <= c /\ c <= h /\ v >= 0)

\* A resampled series has one bar per interval that holds a candle, and the bar
\* is the interval's open, extremes, close and volume; resampling in two steps
\* is resampling in one (ohlc.ts resample).
ASSUME ResampledOnce ==
  \A n \in 0..4 : \A candles \in Series(n, 3..8) :
    LET bars == Resample(candles, 4)
        at(b) == {i \in 1..n : BucketStart(candles[i].at, 4) = b}
    IN  /\ Resample(Resample(candles, 2), 4) = bars
        /\ {bars[k].at : k \in DOMAIN bars} = {BucketStart(candles[i].at, 4) : i \in 1..n}
        /\ \A k \in DOMAIN bars :
             LET members == at(bars[k].at)
             IN  /\ k > 1 => bars[k - 1].at < bars[k].at
                 /\ bars[k].open = candles[Lowest(members)].open
                 /\ bars[k].close = candles[Highest(members)].close
                 /\ bars[k].high = Highest({candles[i].high : i \in members})
                 /\ bars[k].low = Lowest({candles[i].low : i \in members})
                 /\ bars[k].volume = FoldLeft(LAMBDA sum, c : sum + c.volume, 0,
                                              SelectSeq(candles, LAMBDA c :
                                                BucketStart(c.at, 4) = bars[k].at))
        /\ Sanitised(Sanitised(candles)) = Sanitised(candles)

\* The bisection finds the last candle before the date (findLastIndexBefore).
ASSUME BisectionFinds ==
  \A n \in 0..4 : \A candles \in {c \in Series(n, 0..5) : \A i \in 1..n : c[i].close = 12} :
    \A exDate \in 0..6 :
      LastBefore(candles, exDate) = Highest({0} \cup {i \in 1..n : candles[i].at < exDate})

\* Splits and bonuses: a bar is divided by the product of the ratios still to
\* come, whatever the order of the list, its traded value is kept, and the
\* newest bars are the prices that were traded (adjustForCorporateActions).
LOCAL Split(at, after) == [kind |-> "SPLIT", exDate |-> at, after |-> after, before |-> 1]
LOCAL Flat(price) == [open |-> price, high |-> price, low |-> price, close |-> price, volume |-> 6]
LOCAL Traded == <<Candle(1, Flat(120)), Candle(3, Flat(60)), Candle(5, Flat(20)), Candle(7, Flat(10))>>
ASSUME SplitsCompound ==
  \A n \in 0..3 : \A actions \in [1..n -> {Split(at, r) : at \in {0, 3, 4, 7, 9}, r \in {2, 3}}] :
    LET adjusted == AdjustForCorporateActions(Traded, actions)
    IN  \A i \in DOMAIN Traded :
          LET ratio == FoldLeft(LAMBDA p, a : IF a.exDate > Traded[i].at THEN p * a.after ELSE p,
                                1, actions)
          IN  /\ adjusted[i].volume = 6 * ratio
              /\ Traded[i].close % ratio = 0 => adjusted[i].close * ratio = Traded[i].close

\* A series that fell by exactly what was split off shows no gap once adjusted,
\* and shows one without (findUnexplainedGaps).
ASSUME ExplainedGapsClose ==
  LET actions == <<Split(3, 2), Split(5, 3), Split(7, 2)>>
  IN  /\ Gaps(AdjustForCorporateActions(Traded, actions), 7) = {}
      /\ \A i \in 1..3 :
           Gaps(AdjustForCorporateActions(Traded, RemoveAt(actions, i)), 7) = {i + 1}

\* A dividend is scaled as a share of the last close before it.  Behind a later
\* split the close is already divided, the amount is not: a dividend of 12 on 120
\* takes a fifth, not a tenth, off a history that a 2:1 split halved.
LOCAL Dividend(at, amount) == [kind |-> "DIVIDEND", exDate |-> at, amount |-> amount]
ASSUME DividendsScale ==
  /\ AdjustForCorporateActions(Traded, <<Dividend(3, 12)>>)[1].close = 108
  /\ AdjustForCorporateActions(Traded, <<Dividend(3, 12), Split(7, 2)>>)[1].close = 48
=============================================================================
