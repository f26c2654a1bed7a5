--------------------------- MODULE PortfolioBooks ---------------------------
(***************************************************************************)
(* The portfolio's accounts (execution/portfolio.ts): one position with a  *)
(* signed quantity, its rounded average price and its realised profit,     *)
(* beside the cash.  The books are a function of the fills applied.        *)
(***************************************************************************)
EXTENDS Costs

OpenBooks(cash) ==
  [cash |-> cash, paid |-> 0, quantity |-> 0, average |-> 0, realised |-> 0, last |-> 0]

Signed(f) == IF f.side = "BUY" THEN f.quantity ELSE -f.quantity

Adds(b, f) == b.quantity = 0 \/ Sgn(b.quantity) = Sgn(Signed(f))

\* Cash moves against the position, and the commission always leaves.
Charged(b, f) ==
  [b EXCEPT !.cash = @ - Signed(f) * f.price - f.commission,
            !.paid = @ + f.commission,
            !.last = f.price]

\* Opening from flat, or adding to what is held: the average is rounded.
Enlarged(b, f) ==
  LET held == b.quantity + Signed(f)
  IN  [b EXCEPT !.quantity = held,
                !.average = RoundedQuotient(b.quantity * b.average + Signed(f) * f.price, held)]

KeptAverage(b, f) ==  \* mutant: the surplus of a reversal keeps the old average
  IF b.quantity + Signed(f) = 0 THEN 0 ELSE b.average

\* The average price of what is left: none, the surplus of a reversal at the
\* price of the fill, or the average so far.
AverageLeft(b, f) ==
  LET held == b.quantity + Signed(f)
  IN  IF held = 0 THEN 0 ELSE IF Sgn(held) # Sgn(b.quantity) THEN f.price ELSE b.average

\* The profit of the part that closes, net of the whole commission.
ClosedPnl(b, f) ==
  Sgn(b.quantity) * (f.price - b.average) * Lesser(f.quantity, Magnitude(b.quantity))
    - f.commission

Reduced(b, f) ==
  [b EXCEPT !.quantity = @ + Signed(f),
            !.average  = AverageLeft(b, f),
            !.realised = @ + ClosedPnl(b, f)]

ApplyFill(b, f) ==
  IF Adds(b, f) THEN Enlarged(Charged(b, f), f) ELSE Reduced(Charged(b, f), f)

MarkedAt(b, price) == [b EXCEPT !.last = price]

Equity(b) == b.cash + b.quantity * b.last
UnrealisedPnl(b) == b.quantity * (b.last - b.average)
=============================================================================
