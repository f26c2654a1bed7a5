---------------------------- MODULE CandleSeries ----------------------------
(***************************************************************************)
(* Series of candles: the check of a candle, resampling to a longer        *)
(* interval, the adjustment for corporate actions and the search for gaps  *)
(* (marketdata/validation.ts, ohlc.ts, corporateActions.ts).  A candle is  *)
(* a record [at, open, high, low, close, volume].                          *)
(***************************************************************************)
EXTENDS Integers, Sequences, SequencesExt, TLC

Large(a, b) == IF a >= b THEN a ELSE b
Small(a, b) == IF a <= b THEN a ELSE b

\* Math.round of a ratio; amounts here are positive.
Rounded(n, d) == (2 * n + d) \div (2 * d)
-----------------------------------------------------------------------------
\* validateCandle(), sanitiseCandles()
Faults(c) ==
  (IF c.open <= 0 \/ c.high <= 0 \/ c.low <= 0 \/ c.close <= 0
   THEN {"NON_POSITIVE_PRICE"} ELSE {}) \cup
  (IF c.volume < 0 THEN {"NEGATIVE_VOLUME"} ELSE {}) \cup
  (IF c.high < Large(c.open, c.close) \/ c.low > Small(c.open, c.close) \/ c.high < c.low
   THEN {"INCONSISTENT_OHLC"} ELSE {})

Sanitised(candles) == SelectSeq(candles, LAMBDA c : Faults(c) = {})
-----------------------------------------------------------------------------
\* resample()
BucketStart(t, target) == (t \div target) * target

Joined(bar, c) ==
  [bar EXCEPT !.high = Large(@, c.high), !.low = Small(@, c.low), !.close = c.close,
              !.volume = @ + c.volume]

\* A candle that is not later than the bar under way is folded into it.
Rolled(bars, c, target) ==
  LET start == BucketStart(c.at, target)
  IN  IF bars = <<>> \/ start > Last(bars).at
      THEN Append(bars, [c EXCEPT !.at = start])
      ELSE Append(Front(bars), Joined(Last(bars), c))

Resamples(source, target) == target >= source /\ target % source = 0
Resample(candles, target) ==
  FoldLeft(LAMBDA bars, c : Rolled(bars, c, target), <<>>, candles)

TypicalPrice(c) == Rounded(c.high + c.low + c.close, 3)
-----------------------------------------------------------------------------
\* findLastIndexBefore(): bisection; 0 where there is none.
LastBefore(candles, exDate) ==
  LET mid(low, high) == (low + high) \div 2
      found[low \in Nat, high \in Nat, best \in Nat] ==
        IF low > high THEN best
        ELSE IF candles[mid(low, high)].at < exDate
             THEN found[mid(low, high) + 1, high, mid(low, high)]
             ELSE found[low, mid(low, high) - 1, best]
  IN  found[1, Len(candles), 0]

\* adjustmentFactor(), as a ratio: a split or a bonus divides by its ratio
\* after : before, a dividend takes its part of the last close with the right.
Factor(action, close) ==
  IF action.kind = "DIVIDEND"
  THEN IF close <= 0 THEN [num |-> 1, den |-> 1]
       ELSE [num |-> close - action.amount, den |-> close]
  ELSE [num |-> action.before, den |-> action.after]

Scaled(c, f, kind) ==
  [c EXCEPT !.open = Rounded(@ * f.num, f.den), !.high = Rounded(@ * f.num, f.den),
            !.low = Rounded(@ * f.num, f.den), !.close = Rounded(@ * f.num, f.den),
            !.volume = IF kind = "DIVIDEND" THEN @ ELSE Rounded(@ * f.den, f.num)]

\* The factor of a dividend is taken from the series as adjusted so far.
Applied(candles, action) ==
  LET last == LastBefore(candles, action.exDate)
      f == Factor(action, candles[last].close)
  IN  IF last = 0 \/ f.num = f.den THEN candles
      ELSE [i \in DOMAIN candles |->
              IF i <= last THEN Scaled(candles[i], f, action.kind) ELSE candles[i]]

\* Newest first; the sort is stable.
AdjustForCorporateActions(candles, actions) ==
  FoldLeft(Applied, candles, SortSeq(actions, LAMBDA a, b : a.exDate > b.exDate))

\* findUnexplainedGaps(): by more than one part in Threshold.
Gaps(candles, threshold) ==
  {i \in 2..Len(candles) :
     LET previous == candles[i - 1].close
         move == candles[i].open - previous
     IN  previous > 0 /\ threshold * (IF move < 0 THEN -move ELSE move) > previous}
=============================================================================
