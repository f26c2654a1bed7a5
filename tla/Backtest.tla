------------------------------ MODULE Backtest ------------------------------
(***************************************************************************)
(* The backtest engine (backtest/engine.ts): bar after bar over one        *)
(* symbol, through the same simulated broker and portfolio.  A decision    *)
(* made on the close of a bar is filled at the open of the next; inside a  *)
(* bar the price walks open, adverse extreme, other extreme, close, with   *)
(* the stop enforced at both extremes.  Which signal a strategy gives, and *)
(* what the sizer and the risk engine leave of it, is any of Signals.      *)
(***************************************************************************)
EXTENDS PaperBroker

CONSTANTS
  Candles,       \* the bars that may follow, records [open, high, low, close]
  Signals,       \* [direction, quantity, stop] or [direction |-> "FLAT"]
  LotSize,
  MaxBars,       \* bound on the bars of a run
  Trailing,      \* useTrailingStops
  TrailMultiple  \* trailingAtrMultiple

\* Bars as validateCandle passes them (marketdata/validation.ts); stops are any
\* whole number, sizes whole and not negative.
ASSUME BacktestAssumption ==
  /\ \A c \in Candles : /\ c \in [open : Nat, high : Nat, low : Nat, close : Nat]
                        /\ c.low <= c.high
  /\ \A s \in Signals : s.direction = "FLAT" \/ s \in [direction : {"LONG", "SHORT"},
                                                     quantity : Nat, stop : Int]
  /\ LotSize \in Nat \ {0} /\ TrailMultiple \in Int

VARIABLES
  step,          \* where in the bar the engine is
  bar,           \* the bar under way
  pending,       \* the order decided on the last close, or None
  openRisk,      \* the stop of the open position, or None
  barFills       \* history: the fills the orders of earlier bars account for

None == [direction |-> "NONE"]
NoBar == [open |-> 0, high |-> 0, low |-> 0, close |-> 0]

backtestVars == <<paperVars, step, bar, pending, openRisk, barFills>>

BacktestInit ==
  /\ PaperInit
  /\ step = "next"
  /\ bar = NoBar
  /\ pending = None
  /\ openRisk = None
  /\ barFills = 0

AtMarket(side, quantity, stop) ==
  [side |-> side, type |-> "MARKET", quantity |-> quantity, tif |-> "DAY",
   product |-> "MIS", stop |-> stop]

Exit(held) == IF held > 0 THEN "SELL" ELSE "BUY"
Entry(direction) == IF direction = "LONG" THEN "BUY" ELSE "SELL"

\* The engine's setPrice: no volume, so nothing caps the fills.
Priced(w, price, clock) == AfterPrice(w, price, NoVolume, clock)

\* An order submitted at a price and worked by publishing the price again.
\* The bar is part of the idempotency key.
Traded(w, sender, shape, price, clock) ==
  Priced([w EXCEPT !.orders = Submitted(@, <<sender, clock>>, shape)], price, clock)

WholeLots(quantity) == (quantity \div LotSize) * LotSize

\* 1. What the last bar decided is filled at the open.
AtOpen(w, open, clock) ==
  IF pending = None THEN w
  ELSE Traded(w, "strategy", AtMarket(pending.side, WholeLots(pending.quantity), 0),
              open, clock)

RiskAtOpen ==
  IF pending # None /\ pending.direction # "FLAT"
  THEN [direction |-> pending.direction, stop |-> pending.stop]
  ELSE openRisk

BarOpens ==
  /\ step = "next"
  /\ paperClock < MaxBars
  /\ paperClock' = paperClock + 1
  /\ \E candle \in Candles :
       /\ bar' = candle
       /\ Becomes(AtOpen(Priced(Broker, candle.open, paperClock + 1), candle.open,
                         paperClock + 1))
  /\ openRisk' = RiskAtOpen
  /\ pending' = None
  /\ barFills' = Len(paperFills)
  /\ step' = "first"
-----------------------------------------------------------------------------
\* 2. The walk through the bar: the extreme against the position comes first.
StopPassed(price, risk) ==  \* mutant: a price at the stop does not trigger it
  IF risk.direction = "LONG" THEN price < risk.stop ELSE price > risk.stop

IsStopTriggered(price, risk) ==
  IF risk.direction = "LONG" THEN price <= risk.stop ELSE price >= risk.stop

\* The exit is a market order at the price that triggered it.
StopHit(w, price) ==
  openRisk # None /\ w.books.quantity # 0 /\ IsStopTriggered(price, openRisk)

Enforced(w, price) ==
  IF StopHit(w, price)
  THEN Traded(w, "risk-stop",
              AtMarket(Exit(w.books.quantity), Magnitude(w.books.quantity), openRisk.stop),
              price, paperClock)
  ELSE w

RiskAfter(w, price) ==
  IF w.books.quantity = 0 \/ StopHit(w, price) THEN None ELSE openRisk

WalksTo(price) ==
  LET w == [Priced(Broker, price, paperClock) EXCEPT !.books = MarkedAt(@, price)]
  IN  /\ Becomes(Enforced(w, price))
      /\ openRisk' = RiskAfter(w, price)
      /\ UNCHANGED <<paperClock, bar, pending, barFills>>

AdverseFirst == books.quantity < 0

ToFirstExtreme ==
  /\ step = "first"
  /\ step' = IF AdverseFirst THEN "low" ELSE "high"
  /\ WalksTo(IF AdverseFirst THEN bar.high ELSE bar.low)

ToSecondExtreme ==
  /\ step \in {"low", "high"}
  /\ WalksTo(bar[step])
  /\ step' = "close"
-----------------------------------------------------------------------------
\* 3. The close, and the stop ratcheted towards profit.
Trail(risk, candle) ==
  LET distance == Greater(1, candle.high - candle.low) * TrailMultiple
  IN  [risk EXCEPT !.stop = IF risk.direction = "LONG"
                            THEN Greater(@, candle.close - distance)
                            ELSE Lesser(@, candle.close + distance)]

ToClose ==
  /\ step = "close"
  /\ LET w == Priced(Broker, bar.close, paperClock)
         closed == [w EXCEPT !.books = MarkedAt(@, bar.close)]
     IN  /\ Becomes(closed)
         /\ openRisk' = IF closed.books.quantity = 0 THEN None
                        ELSE IF Trailing /\ openRisk # None THEN Trail(openRisk, bar)
                        ELSE openRisk
  /\ step' = "decide"
  /\ UNCHANGED <<paperClock, bar, pending, barFills>>

\* 4. The decision: an exit of what is held, an entry only from flat and only
\* with a stop.
Planned(signal) ==
  IF signal.direction = "FLAT"
  THEN IF books.quantity = 0 THEN None
       ELSE [direction |-> "FLAT", side |-> Exit(books.quantity),
             quantity |-> Magnitude(books.quantity)]
  ELSE IF books.quantity # 0 \/ signal.quantity = 0 THEN None
       ELSE [direction |-> signal.direction, side |-> Entry(signal.direction),
             quantity |-> signal.quantity, stop |-> signal.stop]

Decide ==
  /\ step = "decide"
  /\ paperClock < MaxBars
  /\ \E signal \in Signals : pending' = Planned(signal)
  /\ step' = "next"
  /\ UNCHANGED <<paperVars, bar, openRisk, barFills>>

\* The last bar decides nothing; a position left open is left open.
BacktestEnds == step = "decide" /\ paperClock = MaxBars /\ UNCHANGED backtestVars

BacktestNext ==
  BarOpens \/ ToFirstExtreme \/ ToSecondExtreme \/ ToClose \/ Decide \/ BacktestEnds

BacktestSpec == BacktestInit /\ [][BacktestNext]_backtestVars
-----------------------------------------------------------------------------
FillsOfThisBar == {paperFills[i] : i \in (barFills + 1) .. Len(paperFills)}

OnStop(f) == paperOrders[f.order].key[1] = "risk-stop"
StopOf(f) == paperOrders[f.order].shape.stop

\* An exit on a stop is never filled on the better side of the stop.
StopsNeverFlatter ==
  \A f \in FillsOfThisBar :
    OnStop(f) => IF f.side = "SELL" THEN f.price <= StopOf(f) ELSE f.price >= StopOf(f)

\* A position that comes through the walk has a stop on its own side, and the
\* bar did not reach it.
HeldBehindItsStop ==
  step = "close" /\ books.quantity # 0 =>
    /\ openRisk # None
    /\ (openRisk.direction = "LONG") = (books.quantity > 0)
    /\ IF books.quantity > 0 THEN bar.low > openRisk.stop ELSE bar.high < openRisk.stop

\* A fill is at the open of the bar after the decision, or at the extreme that
\* reached the stop, never better than that price.
FillsAtPricesOfTheBar ==
  \A f \in FillsOfThisBar :
    LET at == IF ~OnStop(f) THEN bar.open
              ELSE IF f.side = "SELL" THEN bar.low ELSE bar.high
    IN  f.at = paperClock /\ f.price = Slipped(at, f.side)

\* Stops and decisions never turn a long into a short or the reverse.
NeverTurns ==
  \A i \in DOMAIN paperFills :
    LET position == Sums(Moves(paperFills)) IN position[i - 1] = 0 \/ position[i] = 0

\* The simulation does not flatter: fills at the prices and in the order the
\* engine promises, every held position behind an untouched stop, and no stop
\* filled better than its level (engine.ts run and enforceStop).
EngineIsHonest ==
  /\ StopsNeverFlatter
  /\ HeldBehindItsStop
  /\ FillsAtPricesOfTheBar
  /\ NeverTurns

\* A simulated order is filled at no better price than the code promises: limits
\* hold for whatever a caller places, and a backtest fills decisions and stops
\* where the engine says it does (paperBroker.ts, backtest/engine.ts).
HonestFills == LimitsKept /\ (bar # NoBar => EngineIsHonest)
=============================================================================
