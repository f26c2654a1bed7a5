----------------------------- MODULE Indicators -----------------------------
(***************************************************************************)
(* The technical indicators (features/indicators.ts), in exact fractions   *)
(* where the code uses doubles.  A series has one entry per input, Null    *)
(* before the indicator is defined.  Square roots are not taken: what the  *)
(* code divides or multiplies by a deviation is kept as its signed square. *)
(***************************************************************************)
EXTENDS Integers, Sequences, SequencesExt

\* Fractions <<numerator, denominator>> in lowest terms, denominator positive.
Null == <<0, 0>>
Gcd[a \in Nat, b \in Nat] == IF b = 0 THEN a ELSE Gcd[b, a % b]
Absolute(n) == IF n < 0 THEN -n ELSE n
Over(n, d)  == LET g == Gcd[Absolute(n), d] IN <<n \div g, d \div g>>
Whole(n)    == <<n, 1>>
Plus(a, b)  == Over(a[1] * b[2] + b[1] * a[2], a[2] * b[2])
Minus(a, b) == Over(a[1] * b[2] - b[1] * a[2], a[2] * b[2])
Times(a, b) == Over(a[1] * b[1], a[2] * b[2])
Below(a, b) == a[1] * b[2] < b[1] * a[2]
Square(a)   == Times(a, a)
Signed(sign, a) == IF sign < 0 THEN <<-a[1], a[2]>> ELSE a
Upper(a, b) == IF a >= b THEN a ELSE b
Lower(a, b) == IF a <= b THEN a ELSE b

SumTo(v, n) == FoldLeft(Plus, Whole(0), SubSeq(v, 1, n))
Fractions(v) == [i \in DOMAIN v |-> Whole(v[i])]
Aligned(v, first, Value(_)) == [i \in DOMAIN v |-> IF i >= first THEN Value(i) ELSE Null]
-----------------------------------------------------------------------------
\* The rolling sum: what enters is added, what leaves is taken off.
Rolling(v, p) ==
  LET sum[i \in 0..Len(v)] ==
        IF i = 0 THEN 0 ELSE sum[i - 1] + v[i] - (IF i > p THEN v[i - p] ELSE 0)
  IN  sum

Sma(v, p) == LET sum == Rolling(v, p) IN Aligned(v, p, LAMBDA i : Over(sum[i], p))

\* A recursion seeded with the mean of the first p values.
Seeded(v, p, Step(_, _)) ==
  LET line[i \in p..Len(v)] ==
        IF i = p THEN Times(SumTo(v, p), <<1, p>>) ELSE Step(line[i - 1], v[i])
  IN  Aligned(v, p, LAMBDA i : line[i])

Ema(v, p) ==
  Seeded(v, p, LAMBDA previous, x :
                 Plus(Times(x, Over(2, p + 1)), Times(previous, Over(p - 1, p + 1))))
WilderSmooth(v, p) ==
  Seeded(v, p, LAMBDA previous, x : Times(Plus(Times(previous, Whole(p - 1)), x), <<1, p>>))

\* stdev(), squared.
Variance(v, p) ==
  LET sum == Rolling(v, p)
      squares == Rolling([i \in DOMAIN v |-> v[i] * v[i]], p)
  IN  IF p = 1 THEN [i \in DOMAIN v |-> Whole(0)]
      ELSE Aligned(v, p, LAMBDA i : Over(Upper(0, p * squares[i] - sum[i] * sum[i]), p * p))

\* The first change is that of the second value.
Changes(v, Part(_)) ==
  [i \in 1..Upper(0, Len(v) - 1) |-> Whole(Upper(0, Part(v[i + 1] - v[i])))]
Rsi(v, p) ==
  LET gain == WilderSmooth(Changes(v, LAMBDA x : x), p)
      loss == WilderSmooth(Changes(v, LAMBDA x : -x), p)
      strength(g, l) == IF l[1] = 0 THEN Whole(100)
                        ELSE LET all == Plus(g, l)
                             IN  Times(Times(g, Whole(100)), <<all[2], all[1]>>)
  IN  Aligned(v, p + 1, LAMBDA i : strength(gain[i - 1], loss[i - 1]))

TrueRange(high, low, close) ==
  [i \in DOMAIN close |->
     IF i = 1 THEN high[i] - low[i]
     ELSE Upper(high[i] - low[i],
                Upper(Absolute(high[i] - close[i - 1]), Absolute(low[i] - close[i - 1])))]
Atr(high, low, close, p) == WilderSmooth(Fractions(TrueRange(high, low, close)), p)

\* bollinger(): the middle, and the square of the distance of both bands.
Bollinger(v, p, k) ==
  [middle |-> Sma(v, p),
   reach  |-> LET variance == Variance(v, p)
              IN  Aligned(v, p, LAMBDA i : Times(Whole(k * k), variance[i]))]

\* zScore(), as its signed square; undefined over a flat window.
ZScore(v, p) ==
  LET mean == Sma(v, p)
      variance == Variance(v, p)
      score(i) == LET off == Minus(Whole(v[i]), mean[i])
                  IN  Signed(off[1], Times(Square(off), <<variance[i][2], variance[i][1]>>))
  IN  Aligned(v, p, LAMBDA i : IF variance[i][1] = 0 THEN Null ELSE score(i))

Roc(v, p) ==
  Aligned(v, p + 1, LAMBDA i : IF v[i - p] = 0 THEN Null ELSE Over(v[i] - v[i - p], v[i - p]))

\* The signal is computed where MACD exists, and written back at its place.
Macd(v, fast, slow, period) ==
  LET quick == Ema(Fractions(v), fast)
      slowly == Ema(Fractions(v), slow)
      macd == Aligned(v, slow, LAMBDA i : Minus(quick[i], slowly[i]))
      dense == Ema(SubSeq(macd, slow, Len(v)), period)
      signal == Aligned(v, slow + period - 1, LAMBDA i : dense[i - slow + 1])
  IN  [macd |-> macd, signal |-> signal,
       histogram |-> Aligned(v, slow + period - 1, LAMBDA i : Minus(macd[i], signal[i]))]

BestOf(v, from, to, Better(_, _)) == FoldLeft(Better, v[from], SubSeq(v, from + 1, to))
Highest(v, p) == Aligned(v, p, LAMBDA i : Whole(BestOf(v, i - p + 1, i, Upper)))
Lowest(v, p)  == Aligned(v, p, LAMBDA i : Whole(BestOf(v, i - p + 1, i, Lower)))
=============================================================================
