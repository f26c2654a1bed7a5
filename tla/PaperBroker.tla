---------------------------- MODULE PaperBroker ----------------------------
(***************************************************************************)
(* The simulated broker (execution/paperBroker.ts) with the portfolio as   *)
(* its listener, over one symbol: orders are acknowledged resting, and the *)
(* next price works every resting order in the order of arrival.           *)
(***************************************************************************)
EXTENDS PortfolioBooks, Sequences

CONSTANTS
  Slippage,        \* the adverse move of a market order, in parts of RateScale
  Schedule,        \* the cost schedule
  Participation,   \* the share of the volume one order may take: 1 / Participation
  OpeningCash,
  Keys,            \* idempotency keys
  Shapes,          \* the orders a caller may place, without their keys
  Prices,          \* published prices
  Volumes,         \* volumes published with a price; NoVolume for none
  NoVolume,
  MaxPrices        \* bound on the prices published

\* Sizes are whole numbers of shares, prices and rates are not negative.
ShapeOK(s) ==
  /\ s.side \in {"BUY", "SELL"} /\ s.quantity \in Int
  /\ s.type \in {"MARKET", "LIMIT", "STOP", "STOP_LIMIT"}
  /\ s.type \in {"LIMIT", "STOP_LIMIT"} => s.limit \in Int

ASSUME PaperAssumption ==
  /\ RateScale \in Nat \ {0} /\ Tick \in Nat \ {0} /\ Participation \in Nat \ {0}
  /\ Slippage \in Nat /\ OpeningCash \in Int
  /\ Schedule \in [brokerage : Nat, cap : Nat, sttDelivery : Nat, sttSell : Nat,
                   exchange : Nat, sebi : Nat, gst : Nat, stamp : Nat]
  /\ Prices \subseteq Nat /\ Volumes \ {NoVolume} \subseteq Nat
  /\ \A s \in Shapes : ShapeOK(s)

VARIABLES
  paperOrders,     \* every order acknowledged, in order of arrival
  paperFills,      \* the fills reported so far
  paperCash,       \* the cash the broker reports
  books,           \* the portfolio
  paperClock,      \* counts published prices (the clock that stamps the fills)
  opened           \* history: what the opening fills cost, and the average's rounding

paperVars == <<paperOrders, paperFills, paperCash, books, paperClock, opened>>

PaperInit ==
  /\ paperOrders = <<>>
  /\ paperFills = <<>>
  /\ paperCash = OpeningCash
  /\ books = OpenBooks(OpeningCash)
  /\ paperClock = 0
  /\ opened = [costs |-> 0, slack |-> 0]

IsResting(o) == o.status \in {"OPEN", "RESTING"}

NewOrder(key, shape) ==
  [key |-> key, shape |-> shape, status |-> "OPEN", filled |-> 0, average |-> 0]

\* A key seen before is refused, whatever became of the order that had it.
SeenKeys(orders) == {orders[i].key : i \in DOMAIN orders}

Submitted(orders, key, shape) ==
  IF key \in SeenKeys(orders) \/ shape.quantity <= 0 THEN orders
  ELSE Append(orders, NewOrder(key, shape))
-----------------------------------------------------------------------------
\* The price of a market order: against the order, then off to the tick grid.
Slipped(price, side) ==
  IF side = "BUY" THEN TickCeil(price + MulRate(price, Slippage))
  ELSE TickFloor(price - MulRate(price, Slippage))

Snapped(price, side) == IF side = "BUY" THEN TickFloor(price) ELSE TickCeil(price)

\* Strictly through the limit: a touch does not fill.
ThroughLimit(s, price) == IF s.side = "BUY" THEN price < s.limit ELSE price > s.limit
WithinLimit(s, price) == IF s.side = "BUY" THEN price <= s.limit ELSE price >= s.limit
Triggered(s, price) == IF s.side = "BUY" THEN price >= s.trigger ELSE price <= s.trigger

Fillable(s, price) ==
  CASE s.type = "MARKET"     -> TRUE
    [] s.type = "LIMIT"      -> ThroughLimit(s, price)
    [] s.type = "STOP"       -> Triggered(s, price)
    [] s.type = "STOP_LIMIT" -> Triggered(s, price) /\ WithinLimit(s, price)

FillPrice(s, price) ==
  IF s.type \in {"MARKET", "STOP"} THEN Slipped(price, s.side) ELSE Snapped(price, s.side)

Remaining(o) == o.shape.quantity - o.filled

\* The cap is of each order by itself.
Capacity(o, volume) == IF volume = NoVolume THEN Remaining(o) ELSE volume \div Participation

FillOf(i, o, quantity, price, clock) ==
  LET costs == ComputeCosts(quantity * price, o.shape.side, o.shape.product, Schedule)
  IN  [order |-> i, side |-> o.shape.side, quantity |-> quantity, price |-> price,
       commission |-> costs, at |-> clock]

\* An immediate-or-cancel order has one chance.
Filled(o, f) ==
  LET total == o.filled + f.quantity
  IN  [o EXCEPT !.filled = total,
                !.average = RoundedQuotient(@ * o.filled + f.quantity * f.price, total),
                !.status = IF total >= o.shape.quantity THEN "FILLED"
                           ELSE IF o.shape.tif = "IOC" THEN "PARTIALLY_FILLED"
                           ELSE "RESTING"]

Missed(o) ==
  IF o.shape.tif # "IOC" THEN o
  ELSE [o EXCEPT !.status = IF o.filled > 0 THEN "PARTIALLY_FILLED" ELSE "CANCELLED"]

\* One resting order against the price; the listener books the fill at once.
Worked(w, i, price, volume, clock) ==
  LET o == w.orders[i]
      quantity == Lesser(Remaining(o), Capacity(o, volume))
      f == FillOf(i, o, quantity, FillPrice(o.shape, price), clock)
  IN  IF ~IsResting(o) \/ ~Fillable(o.shape, price) THEN w
      ELSE IF quantity <= 0 THEN [w EXCEPT !.orders[i] = Missed(o)]
      ELSE [orders |-> [w.orders EXCEPT ![i] = Filled(o, f)],
            fills  |-> Append(w.fills, f),
            cash   |-> w.cash - Signed(f) * f.price - f.commission,
            books  |-> ApplyFill(w.books, f),
            opened |-> IF ~Adds(w.books, f) THEN w.opened
                       ELSE [costs |-> w.opened.costs + f.commission,
                             slack |-> w.opened.slack + Magnitude(w.books.quantity + Signed(f))]]

\* The broker after a price, worked order by order: after[n] is how the first n
\* orders leave it.
AfterPrice(w, price, volume, clock) ==
  LET after[n \in 0 .. Len(w.orders)] ==
        IF n = 0 THEN w ELSE Worked(after[n - 1], n, price, volume, clock)
  IN  after[Len(w.orders)]

Broker == [orders |-> paperOrders, fills |-> paperFills, cash |-> paperCash,
           books |-> books, opened |-> opened]

Becomes(w) ==
  /\ paperOrders' = w.orders
  /\ paperFills' = w.fills
  /\ paperCash' = w.cash
  /\ books' = w.books
  /\ opened' = w.opened
-----------------------------------------------------------------------------
PaperSubmit ==
  \E key \in Keys, shape \in Shapes :
    /\ paperOrders' = Submitted(paperOrders, key, shape)
    /\ UNCHANGED <<paperFills, paperCash, books, paperClock, opened>>

PaperCancel ==
  \E i \in DOMAIN paperOrders :
    /\ IsResting(paperOrders[i])
    /\ paperOrders' = [paperOrders EXCEPT ![i].status = "CANCELLED"]
    /\ UNCHANGED <<paperFills, paperCash, books, paperClock, opened>>

\* setPrice, and the mark the caller gives the portfolio.
PaperPrice ==
  /\ paperClock < MaxPrices
  /\ \E price \in Prices, volume \in Volumes :
       LET w == AfterPrice(Broker, price, volume, paperClock + 1)
       IN  Becomes([w EXCEPT !.books = MarkedAt(@, price)])
  /\ paperClock' = paperClock + 1

PaperNext == PaperSubmit \/ PaperCancel \/ PaperPrice

PaperSpec == PaperInit /\ [][PaperNext]_paperVars
-----------------------------------------------------------------------------
\* The sums of the first n numbers of a sequence.
Sums(v) ==
  LET sum[n \in 0 .. Len(v)] == IF n = 0 THEN 0 ELSE sum[n - 1] + v[n]
  IN  sum
Total(v) == Sums(v)[Len(v)]

\* What every fill did to the position, and to the order i.
Moves(fills) == [j \in DOMAIN fills |-> Signed(fills[j])]
Shares(fills, i) ==
  [j \in DOMAIN fills |-> IF fills[j].order = i THEN fills[j].quantity ELSE 0]

\* The broker and the portfolio are two sets of books over the same fills.
SameCash ==
  /\ paperCash = books.cash
  /\ books.quantity = Total(Moves(paperFills))

\* What the account gained is what the trades realised, what the open position
\* has not yet, less the commission of the opening fills, which no trade
\* carries; the rounding of the average is all that may come between.
GainsAddUp ==
  LET gain == Equity(books) - OpeningCash
      explained == books.realised + UnrealisedPnl(books) - opened.costs
  IN  2 * Magnitude(gain - explained) <= opened.slack

\* No order is filled for more than it asked for, nor after its end.
OrdersAddUp ==
  \A i \in DOMAIN paperOrders :
    LET o == paperOrders[i]
        filled == Total(Shares(paperFills, i))
    IN  /\ o.filled = filled
        /\ filled <= o.shape.quantity
        /\ (o.status = "FILLED") = (filled = o.shape.quantity)

\* The books balance after every step: the cash the broker reports is the
\* portfolio's, the orders add up to the position, and the profit and loss the
\* trades report add up to the change of the account through partial closes,
\* additions and reversals (portfolio.ts applyFill, paperBroker.ts).
BooksBalance == SameCash /\ GainsAddUp /\ OrdersAddUp

\* An order with a limit is never filled worse than the limit, whatever the
\* rounding to ticks does (paperBroker.ts resolveFillPrice).
LimitsKept ==
  \A i \in DOMAIN paperFills :
    LET f == paperFills[i]
        s == paperOrders[f.order].shape
    IN  s.type \in {"LIMIT", "STOP_LIMIT"} => WithinLimit(s, f.price)
=============================================================================
