------------------------------- MODULE Costs -------------------------------
(***************************************************************************)
(* Integer money arithmetic and the transaction costs of one execution     *)
(* (domain/money.ts, execution/costs.ts).  Amounts are paise, a rate is a  *)
(* number of parts of RateScale.                                           *)
(***************************************************************************)
EXTENDS Integers

CONSTANTS RateScale,  \* the denominator of every rate
          Tick        \* TICK_SIZE_PAISE

Sgn(n) == IF n > 0 THEN 1 ELSE IF n < 0 THEN -1 ELSE 0
Magnitude(n) == IF n < 0 THEN -n ELSE n
Lesser(a, b) == IF a <= b THEN a ELSE b
Greater(a, b) == IF a >= b THEN a ELSE b

\* Math.round(n / d): halves go up, whatever the signs.
RoundedQuotient(n, d) ==
  (2 * Sgn(d) * n + Magnitude(d)) \div (2 * Magnitude(d))

\* Halves go away from zero, so that a charge never rounds to the trader's side.
MulRate(amount, rate) == Sgn(amount) * RoundedQuotient(Magnitude(amount) * rate, RateScale)

TickFloor(price) == (price \div Tick) * Tick
TickCeil(price) == -TickFloor(-price)

\* The cap of 0 means no cap.  A schedule gives the rates and the cap.
Brokerage(turnover, s) ==
  LET share == MulRate(turnover, s.brokerage)
  IN  IF s.cap = 0 THEN share ELSE Lesser(share, s.cap)

Stt(turnover, side, product, s) ==
  IF product = "CNC" THEN MulRate(turnover, s.sttDelivery)
  ELSE IF side = "SELL" THEN MulRate(turnover, s.sttSell)
  ELSE 0

ComputeCosts(turnover, side, product, s) ==
  LET brokerage == Brokerage(turnover, s)
      exchange  == MulRate(turnover, s.exchange)
      sebi      == MulRate(turnover, s.sebi)
      gst       == MulRate(brokerage + exchange + sebi, s.gst)
      stamp     == IF side = "BUY" THEN MulRate(turnover, s.stamp) ELSE 0
  IN  brokerage + Stt(turnover, side, product, s) + exchange + gst + sebi + stamp
=============================================================================
