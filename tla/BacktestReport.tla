--------------------------- MODULE BacktestReport ---------------------------
(***************************************************************************)
(* What a backtest reports (backtest/metrics.ts) and how parameters are    *)
(* validated (backtest/walkForward.ts).  A curve is a sequence of positive *)
(* equities; a fraction is [num, den].                                     *)
(***************************************************************************)
EXTENDS Integers, Sequences, SequencesExt

AtLeast(a, b) == IF a >= b THEN a ELSE b
Exceeds(a, b) == a.num * b.den > b.num * a.den

\* computeDrawdown(): one pass with the running peak.
NotUnder == 0
DrawdownStep(d, curve, i) ==
  LET decline == [num |-> curve[d.peak] - curve[i], den |-> curve[d.peak]]
  IN  IF curve[i] >= curve[d.peak]
      THEN [d EXCEPT !.peak = i, !.under = NotUnder,
                     !.longest = IF d.under = NotUnder THEN @ ELSE AtLeast(@, i - d.under)]
      ELSE [d EXCEPT !.under = IF @ = NotUnder THEN d.peak ELSE @,
                     !.worst = IF Exceeds(decline, @) THEN decline ELSE @,
                     !.from = IF Exceeds(decline, d.worst) THEN d.peak ELSE @,
                     !.trough = IF Exceeds(decline, d.worst) THEN i ELSE @]

NotRecovered == -1
Drawdown(curve) ==
  LET start == [peak |-> 1, under |-> NotUnder, longest |-> 0,
                worst |-> [num |-> 0, den |-> 1], from |-> 1, trough |-> 1]
      d == FoldLeftDomain(LAMBDA acc, i : DrawdownStep(acc, curve, i), start, curve)
      back == {i \in d.trough..Len(curve) : curve[i] >= curve[d.from]}
  IN  [maxDrawdown  |-> d.worst, peakAt |-> d.from, troughAt |-> d.trough,
       recoveryBars |-> IF back = {} THEN NotRecovered
                        ELSE (CHOOSE i \in back : \A j \in back : i <= j) - d.from,
       longestUnderwaterBars |-> IF d.under = NotUnder THEN d.longest
                                 ELSE AtLeast(d.longest, Len(curve) - d.under)]

\* computeMetrics(): the longest run of losing trades.
MaxConsecutiveLosses(pnls) ==
  FoldLeft(LAMBDA acc, pnl : LET run == IF pnl < 0 THEN acc.run + 1 ELSE 0
                             IN  [run |-> run, most |-> AtLeast(acc.most, run)],
           [run |-> 0, most |-> 0], pnls).most
-----------------------------------------------------------------------------
\* buildWindows(): positions from 1, both ends included.
BuildWindows(total, train, test) ==
  [k \in 1..(IF total < train THEN 0 ELSE (total - train) \div test) |->
     [trainStart |-> (k - 1) * test + 1, trainEnd |-> (k - 1) * test + train,
      testStart |-> (k - 1) * test + train + 1, testEnd |-> k * test + train]]

\* walkForward(): the first of the best parameters on the train bars; a fold
\* whose every score is Unusable is left out.  scores[<<p, k>>] is the objective
\* of a backtest with the parameters p over the train bars of window k.
Unusable == -1000000     \* -Infinity
Selected(grid, score) ==
  FoldLeft(LAMBDA best, p : IF score[p] > best.score THEN [params |-> p, score |-> score[p]] ELSE best,
           [params |-> "none", score |-> Unusable], grid)
Folds(windows, grid, scores) ==
  LET chosen(k) == Selected(grid, [p \in ToSet(grid) |-> scores[<<p, k>>]])
  IN  SelectSeq([k \in DOMAIN windows |-> [window |-> windows[k], chosen |-> chosen(k)]],
                LAMBDA f : f.chosen.score # Unusable)
TestedBars(folds) ==
  FoldLeft(LAMBDA bars, f : bars \o [i \in 1..(f.window.testEnd - f.window.testStart + 1) |->
                                       f.window.testStart + i - 1], <<>>, folds)
=============================================================================
