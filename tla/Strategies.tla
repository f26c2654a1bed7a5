----------------------------- MODULE Strategies -----------------------------
(***************************************************************************)
(* The four strategies (strategy/*.ts).  A series is a sequence of         *)
(* [high, low, close]; prepare() computes the indicators of the whole      *)
(* series, evaluate() decides at one bar of it for a direction held.  Bar  *)
(* i here is index i - 1 of the code.  How strong a signal is, its text    *)
(* and its time are left out.                                              *)
(***************************************************************************)
EXTENDS Indicators

Closes(s) == [i \in DOMAIN s |-> s[i].close]
Highs(s)  == [i \in DOMAIN s |-> s[i].high]
Lows(s)   == [i \in DOMAIN s |-> s[i].low]
AtrOf(s, p) == Atr(Highs(s), Lows(s), Closes(s), p)

Nothing == [direction |-> "NONE"]
GetOut  == [direction |-> "FLAT"]

\* Math.round of a positive fraction.
Rounded(a) == (2 * a[1] + a[2]) \div (2 * a[2])

\* A stop is floored one paise above zero.
AtrStopLoss(price, atr, direction, multiplier) ==
  LET distance == Rounded(Times(atr, Whole(multiplier)))
  IN  Upper(1, IF direction = "LONG" THEN price - distance ELSE price + distance)
Enter(direction, price, atr, c) ==
  [direction |-> direction, stop |-> AtrStopLoss(price, atr, direction, c.stopAtrs)]

\* positionDirection()
Direction(quantity) == IF quantity > 0 THEN "LONG" ELSE IF quantity < 0 THEN "SHORT" ELSE "FLAT"

Defined(values) == Null \notin values
-----------------------------------------------------------------------------
\* Momentum: the channels end at the bar before.
MomentumWarmup(c) == Upper(c.channel, Upper(c.roc, c.atr)) + 2
MomentumPrepare(s, c) ==
  [upper     |-> Highest(Highs(s), c.channel),
   lower     |-> Lowest(Lows(s), c.channel),
   exitUpper |-> Highest(Highs(s), c.exitChannel),
   exitLower |-> Lowest(Lows(s), c.exitChannel),
   roc       |-> Roc(Closes(s), c.roc),
   atr       |-> AtrOf(s, c.atr)]
Momentum(s, m, i, held, c) ==
  LET price == Whole(s[i].close)
      channel == {m.upper[i - 1], m.lower[i - 1], m.exitUpper[i - 1], m.exitLower[i - 1]}
      ready == /\ i - 1 >= MomentumWarmup(c)
               /\ Defined(channel \cup {m.roc[i], m.atr[i]})
               /\ m.atr[i][1] > 0
      moved(sign) == ~Below(Times(Whole(sign), m.roc[i]), <<c.minRocPercent, 100>>)
  IN  CASE ~ready -> Nothing
        [] ready /\ held = "LONG"  -> IF Below(price, m.exitLower[i - 1]) THEN GetOut ELSE Nothing
        [] ready /\ held = "SHORT" -> IF Below(m.exitUpper[i - 1], price) THEN GetOut ELSE Nothing
        [] ready /\ held = "FLAT"  ->
             IF Below(m.upper[i - 1], price) /\ moved(1)
             THEN Enter("LONG", s[i].close, m.atr[i], c)
             ELSE IF c.allowShorts /\ Below(price, m.lower[i - 1]) /\ moved(-1)
             THEN Enter("SHORT", s[i].close, m.atr[i], c)
             ELSE Nothing

\* Mean reversion: fades a large score, never against the trend line.  The
\* thresholds are fractions; scores are kept as signed squares.
ReversionWarmup(c) == Upper(c.lookback, Upper(c.trend, c.atr)) + 1
ReversionPrepare(s, c) ==
  [z     |-> ZScore(Closes(s), c.lookback),
   trend |-> Ema(Fractions(Closes(s)), c.trend),
   atr   |-> AtrOf(s, c.atr)]
Reversion(s, m, i, held, c) ==
  LET price == Whole(s[i].close)
      z == m.z[i]
      size == <<Absolute(z[1]), z[2]>>
      abandoned == Square(Times(c.entryZ, <<3, 2>>))
      ready == /\ i - 1 >= ReversionWarmup(c)
               /\ Defined({z, m.trend[i], m.atr[i]}) /\ m.atr[i][1] > 0
      reverted == ~Below(Square(c.exitZ), size)
      extended == ~Below(size, abandoned) /\ held = (IF z[1] < 0 THEN "LONG" ELSE "SHORT")
  IN  CASE ~ready -> Nothing
        [] ready /\ held # "FLAT" -> IF reverted \/ extended THEN GetOut ELSE Nothing
        [] ready /\ held = "FLAT" ->
             IF Below(size, Square(c.entryZ)) THEN Nothing
             ELSE IF z[1] < 0 /\ Below(m.trend[i], price)
             THEN Enter("LONG", s[i].close, m.atr[i], c)
             ELSE IF z[1] >= 0 /\ Below(price, m.trend[i])
             THEN Enter("SHORT", s[i].close, m.atr[i], c)
             ELSE Nothing

\* Trend following: the cross of two averages, far enough apart; no entry in
\* the last minutes of a session.
TrendWarmup(c) == Upper(c.slow, c.atr) + 1
TrendPrepare(s, c) ==
  [fast |-> Ema(Fractions(Closes(s)), c.fast),
   slow |-> Ema(Fractions(Closes(s)), c.slow),
   atr  |-> AtrOf(s, c.atr)]
Trend(s, m, i, held, minutesToClose, c) ==
  LET gap == Minus(m.fast[i], m.slow[i])
      ready == /\ i - 1 >= TrendWarmup(c)
               /\ Defined({m.fast[i], m.slow[i], m.atr[i]}) /\ m.atr[i][1] > 0
      apart == 1000 * Absolute(gap[1]) >= c.minSeparation * gap[2] * s[i].close
      tooLate == c.lastMinutes > 0 /\ minutesToClose \in 1..(c.lastMinutes - 1)
  IN  CASE ~ready -> Nothing
        [] ready /\ held = "LONG"  -> IF gap[1] < 0 THEN GetOut ELSE Nothing
        [] ready /\ held = "SHORT" -> IF gap[1] > 0 THEN GetOut ELSE Nothing
        [] ready /\ held = "FLAT"  ->
             IF ~apart \/ tooLate THEN Nothing
             ELSE Enter(IF gap[1] > 0 THEN "LONG" ELSE "SHORT", s[i].close, m.atr[i], c)

\* Volatility breakout: a close outside the bands, out of a bar whose band
\* width is in the bottom of its window.  Widths are kept as squares.
VolatilityWarmup(c) == Upper(c.band + c.lookback, c.atr) + 2
Width(bands, i) ==
  IF bands.middle[i] = Null \/ bands.middle[i][1] = 0 THEN Null
  ELSE Times(Times(Whole(4), bands.reach[i]),
             <<bands.middle[i][2] * bands.middle[i][2], bands.middle[i][1] * bands.middle[i][1]>>)
Squeezed(width, i, c) ==
  LET window == SelectSeq(SubSeq(width, Upper(1, i - c.lookback + 1), i), LAMBDA w : w # Null)
      rank == Lower((Len(window) * c.percentile) \div 100, Len(window) - 1)
  IN  /\ width[i] # Null /\ i - 1 >= c.lookback /\ 2 * Len(window) >= c.lookback
      /\ Len(SelectSeq(window, LAMBDA w : Below(w, width[i]))) <= rank
VolatilityPrepare(s, c) ==
  LET bands == Bollinger(Closes(s), c.band, c.multiplier)
      width == [i \in DOMAIN s |-> Width(bands, i)]
  IN  [bands |-> bands, squeezed |-> [i \in DOMAIN s |-> Squeezed(width, i, c)], atr |-> AtrOf(s, c.atr)]
Volatility(s, m, i, held, c) ==
  LET middle == m.bands.middle[i]
      off == Minus(Whole(s[i].close), middle)
      ready == /\ i - 1 >= VolatilityWarmup(c)
               /\ Defined({middle, m.atr[i]}) /\ m.atr[i][1] > 0
      outside == Below(m.bands.reach[i], Square(off))
  IN  CASE ~ready -> Nothing
        [] ready /\ held = "LONG"  -> IF off[1] < 0 THEN GetOut ELSE Nothing
        [] ready /\ held = "SHORT" -> IF off[1] > 0 THEN GetOut ELSE Nothing
        [] ready /\ held = "FLAT"  ->
             IF ~m.squeezed[i - 1] \/ ~outside THEN Nothing
             ELSE IF off[1] > 0 THEN Enter("LONG", s[i].close, m.atr[i], c)
             ELSE IF c.allowShorts THEN Enter("SHORT", s[i].close, m.atr[i], c)
             ELSE Nothing
=============================================================================
