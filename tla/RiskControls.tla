---------------------------- MODULE RiskControls ----------------------------
(***************************************************************************)
(* The pure part of the risk layer: RiskEngine.evaluate and its halt check *)
(* (risk/engine.ts), sizePosition (risk/positionSizing.ts) and the         *)
(* arithmetic they use (domain/money.ts).  Rates are percentages.          *)
(*                                                                         *)
(* A request is [side, quantity, ref, hasStop]: ref is the price it is     *)
(* valued at, hasStop whether its signal carries a protective stop.  An    *)
(* account is [equity, cash, sod, peak, held, symbol, gross, net, open,    *)
(* losses]: held is the signed position in the symbol of the request,      *)
(* symbol, gross and net are the exposures, open the number of positions.  *)
(* Strategy allocations are left out: no caller supplies any.              *)
(***************************************************************************)
EXTENDS Integers

CONSTANTS
  Limits  \* RiskLimits

\* validateLimits: fractions are positive.  Beyond the code, they are whole
\* percentages.
Rates == {"riskPerTrade", "maxPosition", "maxSymbol", "maxGross", "maxNet", "dailyLoss",
          "maxDrawdown"}
ASSUME LimitsAssumption ==
  /\ \A r \in Rates : Limits[r] \in Nat \ {0}
  /\ Limits.maxOpen \in Nat \ {0} /\ Limits.maxLosses \in Nat /\ Limits.requireStop \in BOOLEAN

AbsOf(x) == IF x < 0 THEN -x ELSE x
Least(a, b) == IF a <= b THEN a ELSE b

\* mulRate: half away from zero.
MulRate(amount, rate) ==
  LET rounded == (2 * AbsOf(amount) * rate + 100) \div 200
  IN  IF amount < 0 THEN -rounded ELSE rounded

Signed(request) == IF request.side = "BUY" THEN request.quantity ELSE -request.quantity
Opposite(held)  == IF held > 0 THEN "SELL" ELSE "BUY"

\* What of the order moves the position towards flat.
ReducingQuantity(request, held) ==
  IF held # 0 /\ request.side = Opposite(held) THEN Least(request.quantity, AbsOf(held)) ELSE 0

PureReduction(request, held) == ReducingQuantity(request, held) >= request.quantity

\* The limits that also halt the session: loss since the start of the day,
\* decline from the peak.
HaltBreached(account) ==
  \/ LET dayPnl == account.equity - account.sod
     IN  dayPnl < 0 /\ AbsOf(dayPnl) >= MulRate(account.sod, Limits.dailyLoss)
  \/ account.peak > 0 /\ 100 * (account.peak - account.equity) >= Limits.maxDrawdown * account.peak

\* The controls that reject.  A context is [stop, open, stale, busy]: the kill
\* switch, the session, the age of the data, the orders of the last minute.
StateRefuses(request, account, context) ==
  \/ context.stop \/ ~context.open \/ context.stale \/ context.busy
  \/ Limits.requireStop /\ ~request.hasStop
  \/ HaltBreached(account)
  \/ account.losses >= Limits.maxLosses
  \/ account.symbol = 0 /\ account.open >= Limits.maxOpen

\* The controls that scale: the value that each leaves for the order.
PositionCap(account) == MulRate(account.equity, Limits.maxPosition)
SymbolRoom(account)  == MulRate(account.equity, Limits.maxSymbol) - account.symbol
GrossRoom(account)   == MulRate(account.equity, Limits.maxGross) - account.gross
NetRoom(request, account) ==
  LET cap == MulRate(account.equity, Limits.maxNet)
  IN  IF request.side = "BUY" THEN cap - account.net ELSE cap + account.net

\* A value below zero leaves nothing, as a negative quantity is refused.
Shares(value, price) == value \div price

Scaled(request, account) ==
  Least(request.quantity,
    Least(Shares(PositionCap(account), request.ref),
    Least(Shares(SymbolRoom(account), request.ref),
    Least(Shares(GrossRoom(account), request.ref),
    Least(Shares(NetRoom(request, account), request.ref),
          Shares(account.cash, request.ref))))))

\* evaluate: the approved quantity, 0 for a rejection.
Reduced(request, context) == IF context.stale THEN 0 ELSE request.quantity
Opened(request, account, context) ==
  IF StateRefuses(request, account, context) \/ Scaled(request, account) <= 0
    THEN 0 ELSE Scaled(request, account)

StateFirst(request, account, context) ==   \* mutant: the reduction is not let past the controls
  Opened(request, account, context)
Evaluate(request, account, context) ==
  IF PureReduction(request, account.held)
    THEN Reduced(request, context) ELSE Opened(request, account, context)

\* sizePosition, with a lot of one share and no leverage: the risk budget over
\* the distance to the stop, the cap on the position, the cash.
SizePosition(equity, cash, price, distance) ==
  LET budget == MulRate(equity, Limits.riskPerTrade)
      value  == Least(MulRate(equity, Limits.maxPosition), cash)
  IN  IF equity <= 0 \/ value <= 0 THEN 0
      ELSE Least(budget \div distance, value \div price)
=============================================================================
