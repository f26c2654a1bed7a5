----------------------- MODULE TradingPipelineProofs -----------------------
(***************************************************************************)
(* Proved for all limits, prices, bounds and processes: what risk approves *)
(* fits every cap, an exit is never refused and, where risk requires a     *)
(* stop, an exit that waited never turns the position.  Proved for a       *)
(* single process: a restart finds the equity that was last stored and, if *)
(* the control routes serve one request at a time, an emergency stop and a *)
(* change of mode hold and the baselines of the loss limits survive,       *)
(* through any number of restarts.                                         *)
(***************************************************************************)
EXTENDS TradingPipeline, TLAPS

-----------------------------------------------------------------------------
(* Arithmetic                                                              *)

LEMMA Shared ==
  ASSUME NEW v \in Int, NEW price \in Nat \ {0}
  PROVE  Shares(v, price) \in Int /\ Shares(v, price) * price <= v
  BY DEF Shares

LEMMA Times ==
  ASSUME NEW a \in Int, NEW b \in Int, NEW price \in Nat, a <= b
  PROVE  a * price <= b * price
<1>1. b = a + (b - a) /\ b - a \in Nat
  OBVIOUS
<1>2. (b - a) * price \in Nat /\ b * price = a * price + (b - a) * price
  BY <1>1
<1>3. QED BY <1>2

LEMMA FitsShares ==
  ASSUME NEW q \in Int, NEW v \in Int, NEW price \in Nat \ {0}, q <= Shares(v, price)
  PROVE  q * price <= v
<1>1. q * price <= Shares(v, price) * price
  BY Shared, Times
<1>2. QED BY <1>1, Shared

LEMMA MulRateInt ==
  ASSUME NEW amount \in Int, NEW rate \in Nat PROVE MulRate(amount, rate) \in Int
<1>1. AbsOf(amount) \in Nat
  BY DEF AbsOf
<1>2. 2 * AbsOf(amount) * rate + 100 \in Int
  BY <1>1
<1>3. QED BY <1>2 DEF MulRate

LEMMA Leasts ==
  ASSUME NEW a \in Int, NEW b \in Int
  PROVE  Least(a, b) \in {a, b} /\ Least(a, b) \in Int /\ Least(a, b) <= a /\ Least(a, b) <= b
  BY DEF Least

-----------------------------------------------------------------------------
(* Risk                                                                    *)

AccountType(account) ==
  {account.equity, account.cash, account.symbol, account.gross, account.net} \subseteq Int

\* The five caps, and the room each leaves.
Caps(request, account) ==
  {PositionCap(account), SymbolRoom(account), GrossRoom(account), NetRoom(request, account),
   account.cash}

LEMMA CapsInt ==
  ASSUME NEW request, NEW account, AccountType(account)
  PROVE  Caps(request, account) \subseteq Int
<1>1. \A r \in Rates : MulRate(account.equity, Limits[r]) \in Int
  BY MulRateInt, LimitsAssumption DEF AccountType
<1>2. {"maxPosition", "maxSymbol", "maxGross", "maxNet"} \subseteq Rates
  BY DEF Rates
<1>3. /\ MulRate(account.equity, Limits.maxPosition) \in Int
      /\ MulRate(account.equity, Limits.maxSymbol) \in Int
      /\ MulRate(account.equity, Limits.maxGross) \in Int
      /\ MulRate(account.equity, Limits.maxNet) \in Int
  BY <1>1, <1>2
<1>4. QED
  BY <1>3 DEF Caps, AccountType, PositionCap, SymbolRoom, GrossRoom, NetRoom

LEMMA ScaledFits ==
  ASSUME NEW request, NEW account, AccountType(account),
         request.quantity \in Nat, request.ref \in Nat \ {0}
  PROVE  /\ Scaled(request, account) \in Int
         /\ Scaled(request, account) <= request.quantity
         /\ \A cap \in Caps(request, account) : Scaled(request, account) * request.ref <= cap
<1> DEFINE S(v) == Shares(v, request.ref)
           n == Least(S(NetRoom(request, account)), S(account.cash))
           g == Least(S(GrossRoom(account)), n)
           s == Least(S(SymbolRoom(account)), g)
           p == Least(S(PositionCap(account)), s)
<1>1. Scaled(request, account) = Least(request.quantity, p)
  BY DEF Scaled
<1>2. \A v \in Caps(request, account) : v \in Int /\ S(v) \in Int
  BY CapsInt, Shared
<1>3. /\ S(PositionCap(account)) \in Int /\ S(SymbolRoom(account)) \in Int
      /\ S(GrossRoom(account)) \in Int /\ S(NetRoom(request, account)) \in Int
      /\ S(account.cash) \in Int
  BY <1>2 DEF Caps
<1> HIDE DEF S
<1>4. n \in Int /\ n <= S(NetRoom(request, account)) /\ n <= S(account.cash)
  BY <1>3, Leasts
<1> HIDE DEF n
<1>5. g \in Int /\ g <= n /\ g <= S(GrossRoom(account))
  BY <1>3, <1>4, Leasts
<1> HIDE DEF g
<1>6. s \in Int /\ s <= g /\ s <= S(SymbolRoom(account))
  BY <1>3, <1>5, Leasts
<1> HIDE DEF s
<1>7. p \in Int /\ p <= s /\ p <= S(PositionCap(account))
  BY <1>3, <1>6, Leasts
<1> HIDE DEF p
<1>8. /\ Scaled(request, account) \in Int /\ Scaled(request, account) <= p
      /\ Scaled(request, account) <= request.quantity
  <2>1. request.quantity \in Int
    OBVIOUS
  <2>2. QED BY <1>1, <1>7, <2>1, Leasts
<1>9. \A v \in Caps(request, account) : Scaled(request, account) <= S(v)
  BY <1>3, <1>4, <1>5, <1>6, <1>7, <1>8 DEF Caps
<1>10. QED
  BY <1>2, <1>8, <1>9, FitsShares DEF S

\* Whatever risk approves is at most what was asked for, and either only reduces
\* the position or passed every control and fits, at its reference price, the
\* caps on position, symbol, gross and net exposure and the cash: for all limits.
THEOREM ApprovedFits ==
  ASSUME NEW request, NEW account, NEW context, AccountType(account),
         request.quantity \in Nat, request.ref \in Nat \ {0},
         Evaluate(request, account, context) # 0
  PROVE  LET quantity == Evaluate(request, account, context)
         IN  /\ quantity \in 1..request.quantity
             /\ \/ PureReduction(request, account.held)
                \/ /\ ~StateRefuses(request, account, context)
                   /\ \A cap \in Caps(request, account) : quantity * request.ref <= cap
<1>1. CASE PureReduction(request, account.held)
  BY <1>1 DEF Evaluate, Reduced
<1>2. CASE ~PureReduction(request, account.held)
  <2>1. Evaluate(request, account, context) = Opened(request, account, context)
    BY <1>2 DEF Evaluate
  <2>2. /\ ~StateRefuses(request, account, context) /\ ~(Scaled(request, account) <= 0)
        /\ Evaluate(request, account, context) = Scaled(request, account)
    BY <2>1 DEF Opened
  <2>3. QED BY <2>2, ScaledFits
<1>3. QED BY <1>1, <1>2

-----------------------------------------------------------------------------
(* What a tick sees                                                        *)

LEMMA Marking ==
  ASSUME NEW b \in Portfolio, NEW price \in Prices
  PROVE  MarkedAt(b, price) \in Portfolio /\ MarkedAt(b, price).held = b.held
  BY DEF MarkedAt, Portfolio

LEMMA EquityInt ==
  ASSUME NEW b \in Portfolio PROVE Equity(b) \in Int /\ b.held * b.last \in Int
<1>1. b.cash \in Int /\ b.held \in Int /\ b.last \in Int
  <2>1. \A x \in Prices \cup {0} : x \in Int
    BY EnvironmentAssumption
  <2>2. QED BY <2>1 DEF Portfolio
<1>2. b.held * b.last \in Int
  BY <1>1
<1>3. QED BY <1>1, <1>2 DEF Equity

LEMMA AccountTyped ==
  ASSUME NEW m \in Memory, NEW b \in Portfolio
  PROVE  AccountType(Account(m, b)) /\ Account(m, b).held = b.held
<1>1. b.cash \in Int /\ Equity(b) \in Int /\ b.held * b.last \in Int
  BY EquityInt DEF Portfolio
<1>2. AbsOf(b.held * b.last) \in Int
  BY <1>1 DEF AbsOf
<1>3. QED BY <1>1, <1>2 DEF AccountType, Account

LEMMA Seeing ==
  ASSUME NEW m \in Memory, NEW b \in Portfolio, NEW c \in Portfolio, NEW day \in 1..MaxDays
  PROVE  LET n == Seen(m, b, c, day)
         IN  /\ n \in Memory /\ n.mode = m.mode /\ n.approvals = m.approvals /\ n.keys = m.keys
             /\ m.stop => n.stop
             /\ n.day = day /\ (day = m.day => n.sod = m.sod) /\ n.peak >= m.peak
<1>2. Equity(b) \in Int /\ Equity(c) \in Int /\ m.peak \in Int /\ day \in 0..MaxDays
  BY EquityInt, BoundsAssumption DEF Memory
<1> DEFINE r == Rolled(m, b, day)
           k == Peaked(r, c)
<1>3. /\ r \in Memory /\ r.mode = m.mode /\ r.approvals = m.approvals /\ r.keys = m.keys /\ r.stop = m.stop
      /\ r.day = day /\ (day = m.day => r.sod = m.sod) /\ r.peak = m.peak
  BY <1>2 DEF Rolled, Memory
<1> HIDE DEF r
<1>4. /\ k \in Memory /\ k.mode = r.mode /\ k.approvals = r.approvals /\ k.keys = r.keys /\ k.stop = r.stop
      /\ k.day = r.day /\ k.sod = r.sod /\ k.peak >= r.peak
  BY <1>2, <1>3 DEF Peaked, Memory
<1> HIDE DEF k
<1>5. \A h \in BOOLEAN : LET n == [k EXCEPT !.stop = h]
                         IN  /\ n \in Memory /\ n.mode = k.mode /\ n.approvals = k.approvals
                             /\ n.keys = k.keys /\ n.stop = h
                             /\ n.day = k.day /\ n.sod = k.sod /\ n.peak = k.peak
  BY <1>4 DEF Memory
<1>6. Seen(m, b, c, day) = [k EXCEPT !.stop = @ \/ HaltBreached(Account(k, c))]
  BY DEF Seen, Checked, r, k
<1>7. Seen(m, b, c, day) = [k EXCEPT !.stop = k.stop \/ HaltBreached(Account(k, c))]
  BY <1>4, <1>6 DEF Memory
<1>8. k.stop \in BOOLEAN
  BY <1>4 DEF Memory
<1>9. (k.stop \/ HaltBreached(Account(k, c))) \in BOOLEAN
  OBVIOUS
<1>10. QED BY <1>3, <1>4, <1>5, <1>7, <1>9

LEMMA Observing ==
  ASSUME TypeOK, NEW m \in Memory, NEW b \in Portfolio
  PROVE  /\ Marked(b) \in Portfolio /\ Marked(b).held = b.held
         /\ Observed(m, b) \in Memory
         /\ Observed(m, b).mode = m.mode
         /\ Observed(m, b).approvals = m.approvals
         /\ Observed(m, b).keys = m.keys
         /\ m.stop => Observed(m, b).stop
<1>1. Marked(b) \in Portfolio /\ Marked(b).held = b.held
  BY Marking DEF Marked, TypeOK
<1>2. market.day \in 1..MaxDays
  BY DEF TypeOK
<1>3. QED BY <1>1, <1>2, Seeing DEF Observed

LEMMA SignalTyped ==
  ASSUME TypeOK, NEW b \in Portfolio, NEW r \in Signals(b)
  PROVE  r \in Request
<1>1. /\ market.price \in Prices /\ market.bar \in 1..MaxBars
      /\ b.held \in Int
  BY DEF TypeOK, Portfolio
<1>2. CASE b.held = 0
  <2>1. r \in Entries(b)
    BY <1>2 DEF Signals
  <2>2. PICK d \in Distances : r.quantity = SizePosition(Equity(b), b.cash, market.price, d)
    BY <2>1 DEF Entries
  <2>3. SizePosition(Equity(b), b.cash, market.price, d) \in Int
    <3>1. /\ Equity(b) \in Int /\ b.cash \in Int
          /\ market.price \in Nat \ {0} /\ d \in Nat \ {0}
      BY <1>1, EquityInt, EnvironmentAssumption DEF Portfolio
    <3>2. /\ MulRate(Equity(b), Limits.riskPerTrade) \in Int
          /\ MulRate(Equity(b), Limits.maxPosition) \in Int
      <4>1. {"riskPerTrade", "maxPosition"} \subseteq Rates
        BY DEF Rates
      <4>2. Limits.riskPerTrade \in Nat /\ Limits.maxPosition \in Nat
        BY <4>1, LimitsAssumption
      <4>3. QED BY <3>1, <4>2, MulRateInt
    <3>3. Least(MulRate(Equity(b), Limits.maxPosition), b.cash) \in Int
      BY <3>1, <3>2, Leasts
    <3>4. /\ MulRate(Equity(b), Limits.riskPerTrade) \div d \in Int
          /\ Least(MulRate(Equity(b), Limits.maxPosition), b.cash) \div market.price \in Int
      BY <3>1, <3>2, <3>3
    <3>5. QED BY <3>4, Leasts DEF SizePosition
  <2>4. r.quantity \in Nat \ {0}
    BY <2>1, <2>2, <2>3 DEF Entries
  <2>5. QED BY <1>1, <2>1, <2>4, EnvironmentAssumption DEF Entries, Request
<1>3. CASE b.held # 0
  <2>1. r = Exit(b)
    BY <1>3 DEF Signals
  <2>2. AbsOf(b.held) \in Nat \ {0}
    BY <1>1, <1>3 DEF AbsOf
  <2>3. QED BY <1>1, <2>1, <2>2 DEF Exit, Opposite, Request
<1>4. QED BY <1>2, <1>3

LEMMA ClosingTyped ==
  ASSUME TypeOK, NEW b \in Portfolio, b.held # 0
  PROVE  Closing(b) \in Request /\ Closing(b).by = "close"
<1>1. Exit(b) \in Request
  BY SignalTyped DEF Signals
<1>2. QED BY <1>1 DEF Closing, Request

\* Every signal is of a kind whose data are fresh, so risk lets a reduction pass.
LEMMA Verdict ==
  ASSUME NEW m \in Memory, NEW b \in Portfolio, NEW r \in Request,
         NEW n, NEW context \in Contexts(n)
  PROVE  LET quantity == Evaluate(r, Account(m, b), context)
         IN  /\ quantity \in Nat
             /\ PureReduction(r, b.held) => quantity = r.quantity
             /\ quantity # 0 /\ n.stop => PureReduction(r, b.held)
<1>1. /\ r.quantity \in Nat \ {0} /\ r.ref \in Nat \ {0}
      /\ context.stale = FALSE /\ context.stop = n.stop
  BY EnvironmentAssumption DEF Request, Contexts
<1>2. AccountType(Account(m, b)) /\ Account(m, b).held = b.held
  BY AccountTyped
<1>3. Evaluate(r, Account(m, b), context) \in Nat
  BY <1>1, <1>2, ApprovedFits
<1>4. PureReduction(r, b.held) => Evaluate(r, Account(m, b), context) = r.quantity
  BY <1>1, <1>2 DEF Evaluate, Reduced
<1>5. ~PureReduction(r, b.held) /\ n.stop => Evaluate(r, Account(m, b), context) = 0
  BY <1>1, <1>2 DEF Evaluate, Opened, StateRefuses
<1>6. QED BY <1>3, <1>4, <1>5

-----------------------------------------------------------------------------
(* Types                                                                   *)

LEMMA PipeTyped == ASSUME NEW m \in Memory PROVE Captured(m) \in Pipe
  BY DEF Captured, Memory, Pipe

LEMMA SnapshotTyped ==
  ASSUME NEW m \in Memory, NEW b
  PROVE  Snapshot(m, b) \in Place /\ Storing(m) \in Place
  BY PipeTyped DEF Snapshot, Storing, At, Place

LEMMA AtTyped ==
  /\ \A place \in {"idle", "marks"} : At(place) \in Place
  /\ \A place \in {"sent", "squaring"}, r \in Request : Awaiting(place, r) \in Place
  BY DEF At, Awaiting, Place

LEMMA LoopTyped ==
  ASSUME TypeOK, NEW p \in Processes, NEW l \in Place, LoopTo(p, l)
  PROVE  loop' \in [Processes -> Place]
  BY DEF LoopTo, TypeOK

LEMMA StageTyped ==
  ASSUME NEW m \in Memory, NEW r \in Request
  PROVE  /\ Stage(m, r) \in Memory /\ Stage(m, r).mode = m.mode /\ Stage(m, r).stop = m.stop
         /\ Stage(m, r).keys = m.keys
         /\ Unstage(m, r) \in Memory /\ Unstage(m, r).mode = m.mode
         /\ Unstage(m, r).stop = m.stop /\ Unstage(m, r).keys = m.keys
  BY DEF Stage, Unstage, Memory

LEMMA MemTyped ==
  ASSUME TypeOK, NEW p \in Processes, NEW m \in Memory, mem' = [mem EXCEPT ![p] = m]
  PROVE  mem' \in [Processes -> Memory] /\ mem'[p] = m
         /\ \A q \in Processes \ {p} : mem'[q] = mem[q]
  BY DEF TypeOK

LEMMA TakeTyped ==
  ASSUME TypeOK, NEW p \in Processes, NEW m \in Memory, NEW r \in Request, Take(p, m, r)
  PROVE  /\ mem' \in [Processes -> Memory] /\ mem'[p] = m
         /\ \A q \in Processes \ {p} : mem'[q] = mem[q]
         /\ sending' \in [Processes -> Sending] /\ spent' \in Spent
         /\ sending'[p].waiting = sending[p].waiting \cup {r}
         /\ \A q \in Processes \ {p} : sending'[q] = sending[q]
<1>1. spent.orders < MaxOrders /\ spent' = [spent EXCEPT !.orders = spent.orders + 1]
  BY DEF Take, TypeOK, Spent
<1>2. spent' \in Spent
  BY <1>1, BoundsAssumption DEF TypeOK, Spent
<1>3. sending[p] \in Sending
  BY DEF TypeOK
<1>4. /\ [sending[p] EXCEPT !.waiting = sending[p].waiting \cup {r}] \in Sending
      /\ [sending[p] EXCEPT !.waiting = sending[p].waiting \cup {r}].waiting
           = sending[p].waiting \cup {r}
  BY <1>3 DEF Sending
<1>5. sending' = [sending EXCEPT ![p] = [sending[p] EXCEPT !.waiting = sending[p].waiting \cup {r}]]
  BY <1>3 DEF Take, TypeOK, Sending
<1>6. QED BY <1>2, <1>4, <1>5, MemTyped DEF Take, TypeOK

LEMMA SubmitTyped ==
  ASSUME TypeOK, NEW p \in Processes, NEW m \in Memory, NEW r \in Request, Submit(p, m, r)
  PROVE  /\ mem' \in [Processes -> Memory]
         /\ mem'[p].mode = m.mode /\ mem'[p].stop = m.stop
         /\ \A q \in Processes \ {p} : mem'[q] = mem[q]
         /\ sending' \in [Processes -> Sending] /\ spent' \in Spent
         /\ sending'[p].waiting = sending[p].waiting \cup {r}
         /\ \A q \in Processes \ {p} : sending'[q] = sending[q]
<1>1. Key(r) \in Keys
  BY DEF Key, Keys, Request
<1>2. [m EXCEPT !.keys = @ \cup {Key(r)}] = [m EXCEPT !.keys = m.keys \cup {Key(r)}]
  BY DEF Memory
<1>3. /\ [m EXCEPT !.keys = m.keys \cup {Key(r)}] \in Memory
      /\ [m EXCEPT !.keys = m.keys \cup {Key(r)}].mode = m.mode
      /\ [m EXCEPT !.keys = m.keys \cup {Key(r)}].stop = m.stop
  BY <1>1 DEF Memory
<1> DEFINE n == [m EXCEPT !.keys = @ \cup {Key(r)}]
<1>4. n \in Memory /\ n.mode = m.mode /\ n.stop = m.stop /\ Take(p, n, r)
  BY <1>2, <1>3 DEF Submit
<1> HIDE DEF n
<1>5. QED BY <1>4, TakeTyped

LEMMA ApprovedTyped ==
  ASSUME NEW r \in Request, NEW quantity \in Nat \ {0}
  PROVE  /\ [r EXCEPT !.quantity = quantity] \in Request
         /\ [r EXCEPT !.quantity = quantity].quantity = quantity
         /\ [r EXCEPT !.quantity = quantity].side = r.side
  BY DEF Request

LEMMA FilledTyped ==
  ASSUME TypeOK, NEW b \in Portfolio, NEW r \in Request, NEW price \in Prices
  PROVE  Filled(b, r, price) \in Portfolio /\ Signed(r) \in Int /\ Signed(r) * price \in Int
<1>1. Signed(r) \in Int /\ price \in Nat
  BY EnvironmentAssumption DEF Signed, Request
<1>2. Signed(r) * price \in Int
  BY <1>1
<1>3. b.cash \in Int /\ b.held \in Int
  BY DEF Portfolio
<1>4. [b EXCEPT !.cash = b.cash - Signed(r) * price, !.held = b.held + Signed(r)] \in Portfolio
  <2>1. \A c, h \in Int : [b EXCEPT !.cash = c, !.held = h] \in Portfolio
    BY DEF Portfolio
  <2>2. b.cash - Signed(r) * price \in Int /\ b.held + Signed(r) \in Int
    BY <1>1, <1>2, <1>3
  <2>3. QED BY <2>1, <2>2, Zenon
<1>5. Filled(b, r, price)
        = MarkedAt([b EXCEPT !.cash = b.cash - Signed(r) * price, !.held = b.held + Signed(r)], price)
  BY DEF Filled, Portfolio
<1>6. QED BY <1>1, <1>2, <1>4, <1>5, Marking

LEMMA FreshTyped == Fresh \in Memory /\ Empty \in Portfolio
  BY EnvironmentAssumption, BoundsAssumption DEF Fresh, Empty, Memory, Modes, Portfolio

LEMMA InitType == ASSUME Init PROVE TypeOK
<1>1. ASSUME NEW mode \in Modes, NEW held \in OpeningHeld, NEW price \in Prices
      PROVE  Left(mode, held, price) \in Tables
  <2>1. held \in Int /\ price \in Nat /\ OpeningCash \in Int
    BY EnvironmentAssumption
  <2>2. held * price \in Int
    BY <2>1
  <2>3. OpeningCash - held * price \in Int
    BY <2>1, <2>2
  <2>4. Captured(Fresh) \in Pipe
    BY FreshTyped, PipeTyped
  <2>5. QED BY <2>1, <2>3, <2>4 DEF Left, Tables
<1>2. db \in Tables
  BY <1>1 DEF Init, Modes
<1>3. /\ market \in [bar : 1..MaxBars, day : 1..MaxDays, price : Prices]
      /\ spent \in Spent
  BY BoundsAssumption DEF Init, Spent
<1>4. /\ mem \in [Processes -> Memory] /\ book \in [Processes -> Portfolio]
      /\ loop \in [Processes -> Place]
  BY FreshTyped, AtTyped DEF Init
<1>5. control \in [Operators -> Control]
  BY DEF Init, Control, NoRequest
<1>6. settled \in [equity : Int, known : BOOLEAN]
  BY EnvironmentAssumption DEF Init
<1>7. sending \in [Processes -> Sending]
  BY DEF Init, Nothing, Sending
<1>8. /\ leader \in up \cup {Nobody} /\ up \subseteq Processes /\ working \subseteq Request
      /\ {halted, manual, blocked, mixed} \subseteq BOOLEAN
  BY DEF Init
<1>9. QED BY <1>2, <1>3, <1>4, <1>5, <1>6, <1>7, <1>8 DEF TypeOK

LEMMA SignalStep ==
  ASSUME TypeOK, NEW p \in Processes, NEW r \in Signals(Marked(book[p])),
         NEW context \in Contexts(Observed(mem[p], book[p]))
  PROVE  LET m == Observed(mem[p], book[p])
             b == Marked(book[p])
             quantity == Evaluate(r, Account(m, b), context)
         IN  /\ m \in Memory /\ b \in Portfolio /\ r \in Request /\ quantity \in Nat
             /\ quantity > 0 => [r EXCEPT !.quantity = quantity] \in Request
             /\ PureReduction(r, b.held) => quantity = r.quantity
<1>1. mem[p] \in Memory /\ book[p] \in Portfolio
  BY DEF TypeOK
<1> DEFINE m == Observed(mem[p], book[p])
           b == Marked(book[p])
<1>2. m \in Memory /\ b \in Portfolio
  BY <1>1, Observing
<1>3. r \in Request
  BY <1>2, SignalTyped
<1> HIDE DEF m, b
<1>4. context \in Contexts(m)
  BY DEF m
<1>5. /\ Evaluate(r, Account(m, b), context) \in Nat
      /\ PureReduction(r, b.held) => Evaluate(r, Account(m, b), context) = r.quantity
  BY <1>2, <1>3, <1>4, Verdict
<1>6. Evaluate(r, Account(m, b), context) > 0
        => [r EXCEPT !.quantity = Evaluate(r, Account(m, b), context)] \in Request
  BY <1>3, <1>5, ApprovedTyped
<1>7. QED BY <1>2, <1>3, <1>5, <1>6 DEF m, b

\* What a tick, or an approval, leaves of the types.
LEMMA BarEndsTyped ==
  ASSUME TypeOK, NEW p \in Processes, NEW m \in Memory, NEW b, BarEnds(p, m, b)
  PROVE  /\ mem' \in [Processes -> Memory] /\ mem'[p] = m
         /\ \A q \in Processes \ {p} : mem'[q] = mem[q]
         /\ loop' \in [Processes -> Place]
         /\ UNCHANGED <<sending, spent>>
  BY MemTyped, LoopTyped, SnapshotTyped DEF BarEnds

LEMMA ObservesTyped ==
  ASSUME TypeOK, NEW p \in Processes, NEW m, NEW b \in Portfolio, Observes(p, m, b)
  PROVE  book' \in [Processes -> Portfolio] /\ mixed' \in BOOLEAN
  BY DEF Observes, TypeOK

LEMMA TickSignalTyped ==
  ASSUME TypeOK, NEW p \in Processes, NEW r \in Signals(Marked(book[p])),
         NEW context \in Contexts(Observed(mem[p], book[p])), TickSignal(p, r, context)
  PROVE  TypeOK'
<1> DEFINE m == Observed(mem[p], book[p])
           b == Marked(book[p])
           quantity == Evaluate(r, Account(m, b), context)
           approved == [r EXCEPT !.quantity = quantity]
<1>1. /\ m \in Memory /\ b \in Portfolio /\ quantity \in Nat
      /\ quantity > 0 => approved \in Request
  BY SignalStep
<1>2. /\ Observes(p, m, b) /\ blocked' \in BOOLEAN
      /\ \/ quantity = 0 /\ BarEnds(p, m, b)
         \/ quantity > 0 /\ BarEnds(p, Stage(m, approved), b)
         \/ BarEnds(p, m, b)
         \/ quantity > 0 /\ Submit(p, m, approved) /\ LoopTo(p, Awaiting("sent", approved))
  BY DEF TickSignal, Judged
<1> HIDE DEF m, b, quantity, approved
<1>3. /\ mem' \in [Processes -> Memory] /\ loop' \in [Processes -> Place]
      /\ sending' \in [Processes -> Sending] /\ spent' \in Spent
  <2>1. CASE BarEnds(p, m, b)
    BY <1>1, <2>1, BarEndsTyped DEF TypeOK
  <2>2. CASE quantity > 0 /\ BarEnds(p, Stage(m, approved), b)
    BY <1>1, <2>2, BarEndsTyped, StageTyped DEF TypeOK
  <2>3. CASE quantity > 0 /\ Submit(p, m, approved) /\ LoopTo(p, Awaiting("sent", approved))
    BY <1>1, <2>3, SubmitTyped, LoopTyped, AtTyped
  <2>4. QED BY <1>2, <2>1, <2>2, <2>3
<1>4. book' \in [Processes -> Portfolio] /\ mixed' \in BOOLEAN
  BY <1>1, <1>2, ObservesTyped
<1>5. QED BY <1>2, <1>3, <1>4 DEF Observes, TypeOK

LEMMA ApproveTyped ==
  ASSUME TypeOK, NEW p \in Processes, NEW a \in mem[p].approvals,
         NEW context \in Contexts(mem[p]), Approve(p, a, context)
  PROVE  TypeOK'
<1>1. mem[p] \in Memory /\ book[p] \in Portfolio /\ a \in Request
  BY DEF TypeOK, Memory
<1>2. Unstage(mem[p], a) \in Memory
  BY <1>1, StageTyped
<1>3. /\ mem' \in [Processes -> Memory] /\ sending' \in [Processes -> Sending] /\ spent' \in Spent
  <2>1. CASE Submit(p, Unstage(mem[p], a), a)
    BY <1>1, <1>2, <2>1, SubmitTyped
  <2>2. CASE mem' = [mem EXCEPT ![p] = Unstage(mem[p], a)] /\ UNCHANGED <<sending, spent>>
    BY <1>2, <2>2, MemTyped DEF TypeOK
  <2>3. QED BY <2>1, <2>2 DEF Approve
<1>4. blocked' \in BOOLEAN
  BY DEF Approve, Judged
<1>5. QED BY <1>3, <1>4 DEF Approve, TypeOK

LEMMA RestoredTyped ==
  ASSUME TypeOK
  PROVE  /\ Replayed \in Portfolio
         /\ Restored([Fresh EXCEPT !.mode = db.mode, !.stop = db.stop], Replayed) \in Memory
         /\ Restored([Fresh EXCEPT !.mode = db.mode, !.stop = db.stop], Replayed).mode = db.mode
         /\ Restored([Fresh EXCEPT !.mode = db.mode, !.stop = db.stop], Replayed).stop = db.stop
<1>1. db \in Tables /\ db.pipe \in Pipe
  BY DEF TypeOK, Tables
<1>2. [cash |-> db.cash, held |-> db.held, last |-> db.fill] \in Portfolio
  BY <1>1 DEF Tables, Portfolio
<1>3. db.last # 0 => db.last \in Prices
  BY <1>1 DEF Tables
<1>4. Replayed \in Portfolio
  BY <1>2, <1>3, Marking DEF Replayed, Remarked
<1>5. Equity(Replayed) \in Int
  BY <1>4, EquityInt
<1> DEFINE f == [Fresh EXCEPT !.mode = db.mode, !.stop = db.stop]
<1>6. f \in Memory /\ f.mode = db.mode /\ f.stop = db.stop
  BY <1>1, FreshTyped DEF Memory, Tables
<1> HIDE DEF f
<1>7. \A e \in Int : LET x == [f EXCEPT !.day = db.pipe.day, !.sod = db.pipe.sod,
                                  !.approvals = db.pipe.approvals, !.peak = e]
                     IN  x \in Memory /\ x.mode = f.mode /\ x.stop = f.stop
  BY <1>1, <1>6 DEF Memory, Pipe
<1>8. (IF Equity(Replayed) > db.pipe.peak THEN Equity(Replayed) ELSE db.pipe.peak) \in Int
  BY <1>1, <1>5 DEF Pipe
<1>9. Restored(f, Replayed) \in Memory /\ Restored(f, Replayed).mode = f.mode
        /\ Restored(f, Replayed).stop = f.stop
  BY <1>7, <1>8 DEF Restored
<1>10. QED BY <1>4, <1>6, <1>9 DEF f

LEMMA BootTyped == ASSUME TypeOK, NEW p \in Processes, Boot(p) PROVE TypeOK'
<1> DEFINE b == Replayed
           m == Restored([Fresh EXCEPT !.mode = db.mode, !.stop = db.stop], b)
<1>1. b \in Portfolio /\ m \in Memory
  BY RestoredTyped
<1>2. /\ book' = [book EXCEPT ![p] = b] /\ mem' = [mem EXCEPT ![p] = m] /\ up' = up \cup {p}
      /\ db' = [db EXCEPT !.pipe = Captured(m), !.last = IF b.held = 0 THEN db.last ELSE b.last]
      /\ settled' = [equity |-> Equity(b), known |-> TRUE]
  BY DEF Boot, TypeOK, Tables
<1> HIDE DEF b, m
<1>3. Captured(m) \in Pipe /\ Equity(b) \in Int /\ b.last \in Prices \cup {0}
  BY <1>1, PipeTyped, EquityInt DEF Portfolio
<1>4. db' \in Tables
  BY <1>2, <1>3 DEF TypeOK, Tables
<1>5. book' \in [Processes -> Portfolio] /\ mem' \in [Processes -> Memory]
  BY <1>1, <1>2 DEF TypeOK
<1>6. QED BY <1>2, <1>3, <1>4, <1>5 DEF Boot, TypeOK

LEMMA AdoptTyped ==
  ASSUME TypeOK, NEW p \in Processes, NEW r \in working, NEW price \in Prices, Adopt(p, r, price)
  PROVE  TypeOK'
<1>1. book[p] \in Portfolio /\ r \in Request
  BY DEF TypeOK
<1>2. /\ Filled(book[p], r, price) \in Portfolio
      /\ Signed(r) \in Int /\ Signed(r) * price \in Int
  BY <1>1, FilledTyped
<1>3. book' \in [Processes -> Portfolio]
  BY <1>2 DEF Adopt, TypeOK
<1>4. db' \in Tables
  <2>1. db' = [db EXCEPT !.cash = db.cash - Signed(r) * price, !.held = db.held + Signed(r),
                         !.fill = price]
    BY DEF Adopt, TypeOK, Tables
  <2>2. db.cash - Signed(r) * price \in Int /\ db.held + Signed(r) \in Int
    BY <1>2 DEF TypeOK, Tables
  <2>3. \A c, h \in Int : [db EXCEPT !.cash = c, !.held = h, !.fill = price] \in Tables
    BY DEF TypeOK, Tables
  <2>4. QED BY <2>1, <2>2, <2>3, Zenon
<1>5. QED BY <1>3, <1>4 DEF Adopt, TypeOK

LEMMA AppliedTyped ==
  ASSUME NEW ask \in Asks
  PROVE  /\ \A m \in Memory : Applied(m, ask) \in Memory
         /\ \A d \in Tables : Applied(d, ask) \in Tables
  BY DEF Applied, Asks, Modes, Memory, Tables

LEMMA AskTyped ==
  ASSUME TypeOK, NEW o \in Operators, NEW p \in Processes, NEW ask \in Asks, Ask(o, p, ask)
  PROVE  TypeOK'
<1>1. mem' \in [Processes -> Memory]
  BY AppliedTyped, MemTyped DEF Ask, TypeOK
<1>2. spent' \in Spent
  BY BoundsAssumption DEF Ask, TypeOK, Spent
<1>3. control' \in [Operators -> Control]
  <2>1. \A q \in Operators : control[q] \in Control
    BY DEF TypeOK
  <2>2. \A q \in Operators : [control[q] EXCEPT !.undone = @ \/ Undoes(ask, control[q].ask)] \in Control
    BY <2>1 DEF Control
  <2>3. [ask |-> ask, at |-> p, done |-> FALSE, undone |-> FALSE] \in Control
    BY DEF Control
  <2>4. QED BY <2>2, <2>3 DEF Ask
<1>4. {halted', manual'} \subseteq BOOLEAN
  BY DEF Ask
<1>5. QED BY <1>1, <1>2, <1>3, <1>4 DEF Ask, TypeOK

LEMMA OperateTyped ==
  ASSUME TypeOK, NEW o \in Operators, Operate(o)
  PROVE  TypeOK'
<1>1. CASE \E p \in Processes, ask \in Asks : Ask(o, p, ask)
  BY <1>1, AskTyped
<1>2. CASE Commit(o)
  <2>1. control[o] \in Control /\ control[o].ask \in Asks
    BY <1>2 DEF Commit, TypeOK, Control
  <2>2. db' \in Tables
    BY <1>2, <2>1, AppliedTyped DEF Commit, Stored, TypeOK
  <2>3. control' \in [Operators -> Control]
    <3>1. [control[o] EXCEPT !.done = TRUE] \in Control
      BY <2>1 DEF Control
    <3>2. control' = [control EXCEPT ![o] = [control[o] EXCEPT !.done = TRUE]]
      BY <1>2 DEF Commit, TypeOK
    <3>3. QED BY <3>1, <3>2 DEF TypeOK
  <2>4. QED BY <1>2, <2>2, <2>3 DEF Commit, TypeOK, outside, history
<1>3. CASE Answer(o)
  <2>1. {halted', manual'} \subseteq BOOLEAN
    BY <1>3 DEF Answer
  <2>2. control' \in [Operators -> Control]
    BY <1>3 DEF Answer, TypeOK, NoRequest, Control
  <2>3. QED BY <1>3, <2>1, <2>2 DEF Answer, TypeOK, outside
<1>4. CASE Fail(o)
  <2>1. control' \in [Operators -> Control]
    BY <1>4 DEF Fail, TypeOK, NoRequest, Control
  <2>2. QED BY <1>4, <2>1 DEF Fail, TypeOK, outside, history
<1>5. QED BY <1>1, <1>2, <1>3, <1>4 DEF Operate

Flattening(p) == Flatten(p) \/ Flattens(p) \/ FlattenRefused(p)

\* Orders taken, waiting and leaving.
LEMMA SendingTyped ==
  ASSUME TypeOK, NEW p \in Processes,
         \/ SquareOff(p) \/ SquaredOff(p) \/ Flattening(p)
         \/ \E r \in sending[p].waiting : Reaches(p, r) \/ Refused(p, r)
  PROVE  TypeOK'
<1>1. mem[p] \in Memory /\ book[p] \in Portfolio /\ sending[p] \in Sending
  BY DEF TypeOK
<1>2. CASE SquareOff(p)
  <2>1. Closing(book[p]) \in Request /\ Take(p, mem[p], Closing(book[p]))
    BY <1>1, <1>2, ClosingTyped DEF SquareOff
  <2>2. Awaiting("squaring", Closing(book[p])) \in Place
    BY <2>1, AtTyped
  <2>3. loop' \in [Processes -> Place]
    BY <1>2, <2>2, LoopTyped DEF SquareOff
  <2>4. mem' \in [Processes -> Memory] /\ sending' \in [Processes -> Sending] /\ spent' \in Spent
    BY <1>1, <2>1, TakeTyped
  <2>5. QED BY <1>2, <2>3, <2>4 DEF SquareOff, TypeOK, history
<1>3. CASE SquaredOff(p)
  <2>1. loop' \in [Processes -> Place]
    BY <1>3, AtTyped, LoopTyped DEF SquaredOff
  <2>2. QED BY <1>3, <2>1 DEF SquaredOff, TypeOK, outside, history
<1>4. CASE Flattens(p)
  <2>1. sending[p].exit \in Request
    BY <1>1, <1>4 DEF Flattens, Sending
  <2>2. sending' = [sending EXCEPT ![p] =
          [waiting |-> sending[p].waiting \cup {sending[p].exit}, exit |-> NoOrder]]
    BY <1>4 DEF Flattens
  <2>3. [waiting |-> sending[p].waiting \cup {sending[p].exit}, exit |-> NoOrder] \in Sending
    BY <1>1, <2>1 DEF Sending
  <2>4. sending' \in [Processes -> Sending]
    BY <2>2, <2>3 DEF TypeOK
  <2>5. spent' \in Spent
    BY <1>4, BoundsAssumption DEF Flattens, TypeOK, Spent
  <2>6. QED BY <1>4, <2>4, <2>5 DEF Flattens, TypeOK, history
<1>5. CASE Flatten(p) \/ FlattenRefused(p)
  <2>1. CASE Flatten(p)
    <3>1. Closing(book[p]) \in Request
      BY <1>1, <2>1, ClosingTyped DEF Flatten
    <3>2. sending' \in [Processes -> Sending]
      BY <1>1, <2>1, <3>1 DEF Flatten, TypeOK, Sending
    <3>3. QED BY <2>1, <3>2 DEF Flatten, TypeOK, outside, history
  <2>2. CASE FlattenRefused(p)
    <3>1. sending' \in [Processes -> Sending]
      BY <1>1, <2>2 DEF FlattenRefused, TypeOK, Sending
    <3>2. QED BY <2>2, <3>1 DEF FlattenRefused, TypeOK, outside, history
  <2>3. QED BY <1>5, <2>1, <2>2
<1>6. CASE \E r \in sending[p].waiting : Reaches(p, r) \/ Refused(p, r)
  <2>1. PICK r \in sending[p].waiting : Reaches(p, r) \/ Refused(p, r)
    BY <1>6
  <2>2. r \in Request
    BY <1>1 DEF Sending
  <2>3. Leaves(p, r) /\ working' \subseteq working \cup {r}
    BY <2>1 DEF Reaches, Refused
  <2>4. sending' \in [Processes -> Sending]
    BY <1>1, <2>3 DEF Leaves, TypeOK, Sending
  <2>5. QED BY <2>2, <2>3, <2>4 DEF Leaves, TypeOK, history
<1>7. QED BY <1>2, <1>3, <1>4, <1>5, <1>6 DEF Flattening

LEMMA StepTyped == ASSUME TypeOK, NEW p \in Processes, Step(p) PROVE TypeOK'
<1>1. mem[p] \in Memory /\ book[p] \in Portfolio
  BY DEF TypeOK
<1>2. CASE TickIdle(p)
  <2>1. Observed(mem[p], book[p]) \in Memory /\ Marked(book[p]) \in Portfolio
    BY <1>1, Observing
  <2>2. /\ Observes(p, Observed(mem[p], book[p]), Marked(book[p]))
        /\ BarEnds(p, Observed(mem[p], book[p]), Marked(book[p]))
    BY <1>2 DEF TickIdle
  <2>3. /\ book' \in [Processes -> Portfolio] /\ mem' \in [Processes -> Memory]
        /\ loop' \in [Processes -> Place] /\ UNCHANGED <<sending, spent>> /\ mixed' \in BOOLEAN
    BY <2>1, <2>2, ObservesTyped, BarEndsTyped
  <2>4. QED BY <1>2, <2>2, <2>3 DEF TickIdle, Observes, TypeOK
<1>3. CASE TickSent(p)
  <2>1. loop' \in [Processes -> Place]
    BY <1>1, <1>3, SnapshotTyped, LoopTyped DEF TickSent
  <2>2. QED BY <1>3, <2>1 DEF TickSent, TypeOK, outside, history
<1>4. CASE StoreMarks(p)
  <2>1. loop' \in [Processes -> Place]
    BY <1>1, <1>4, SnapshotTyped, LoopTyped DEF StoreMarks
  <2>2. db' \in Tables
    BY <1>1, <1>4 DEF StoreMarks, TypeOK, Tables, Portfolio
  <2>3. settled' \in [equity : Int, known : BOOLEAN]
    BY <1>1, <1>4, EquityInt DEF StoreMarks, Settles
  <2>4. QED BY <1>4, <2>1, <2>2, <2>3 DEF StoreMarks, TypeOK, outside
<1>5. CASE StoreState(p)
  <2>1. loop' \in [Processes -> Place]
    BY <1>5, AtTyped, LoopTyped DEF StoreState
  <2>2. loop[p] \in Place /\ loop[p].at = "state"
    BY <1>5 DEF StoreState, TypeOK
  <2>3. loop[p].pipe \in Pipe
    BY <2>2 DEF Place
  <2>4. db' \in Tables
    BY <1>5, <2>3 DEF StoreState, TypeOK, Tables
  <2>5. settled' = settled \/ settled' = [equity |-> Equity(book[p]), known |-> TRUE]
    BY <1>5 DEF StoreState, Settles
  <2>6. settled' \in [equity : Int, known : BOOLEAN]
    <3>1. settled \in [equity : Int, known : BOOLEAN] /\ Equity(book[p]) \in Int
      BY <1>1, EquityInt DEF TypeOK
    <3>2. [equity |-> Equity(book[p]), known |-> TRUE] \in [equity : Int, known : BOOLEAN]
      BY <3>1
    <3>3. QED BY <2>5, <3>1, <3>2
  <2>7. QED BY <1>5, <2>1, <2>4, <2>6 DEF StoreState, TypeOK, outside
<1>6. CASE \E a \in mem[p].approvals : Reject(p, a)
  <2>1. PICK a \in mem[p].approvals : Reject(p, a)
    BY <1>6
  <2>2. a \in Request
    BY <1>1 DEF Memory
  <2>3. mem' \in [Processes -> Memory]
    BY <1>1, <2>1, <2>2, StageTyped, MemTyped DEF Reject, TypeOK
  <2>4. QED BY <2>1, <2>3 DEF Reject, TypeOK, outside, history
<1>7. CASE Lead(p)
  BY <1>7 DEF Lead, TypeOK, history
<1>8. CASE \E onWire \in SUBSET sending[p].waiting : Crash(p, onWire)
  <2> PICK onWire \in SUBSET sending[p].waiting : Crash(p, onWire)
    BY <1>8
  <2>1. /\ mem' \in [Processes -> Memory] /\ book' \in [Processes -> Portfolio]
        /\ loop' \in [Processes -> Place]
    BY <1>8, FreshTyped, AtTyped, LoopTyped DEF Crash, TypeOK
  <2>5. sending' \in [Processes -> Sending] /\ working' \subseteq Request
    BY <1>8 DEF Crash, Nothing, TypeOK, Sending
  <2>2. control' \in [Operators -> Control]
    BY <1>8 DEF Crash, TypeOK, NoRequest, Control
  <2>3. spent' \in Spent
    BY <1>8, BoundsAssumption DEF Crash, TypeOK, Spent
  <2>4. QED BY <1>8, <2>1, <2>2, <2>3, <2>5 DEF Crash, TypeOK, history
<1>9. CASE \E r \in Signals(Marked(book[p])), c \in Contexts(Observed(mem[p], book[p])) :
             TickSignal(p, r, c)
  BY <1>9, TickSignalTyped
<1>10. CASE \E a \in mem[p].approvals, c \in Contexts(mem[p]) : Approve(p, a, c)
  BY <1>10, ApproveTyped
<1>11. CASE Boot(p)
  BY <1>11, BootTyped
<1>12. CASE \E r \in working, price \in Prices : Adopt(p, r, price)
  BY <1>12, AdoptTyped
<1>13. CASE \E day \in 1..MaxDays : TickOther(p, day)
  <2>1. PICK day \in 1..MaxDays : TickOther(p, day)
    BY <1>13
  <2> DEFINE m == Seen(mem[p], book[p], book[p], day)
  <2>2. m \in Memory
    BY <1>1, Seeing
  <2>3. Observes(p, m, book[p]) /\ BarEnds(p, m, book[p]) /\ UNCHANGED blocked
    BY <2>1 DEF TickOther
  <2> HIDE DEF m
  <2>4. /\ book' \in [Processes -> Portfolio] /\ mem' \in [Processes -> Memory]
        /\ loop' \in [Processes -> Place] /\ UNCHANGED <<sending, spent>> /\ mixed' \in BOOLEAN
    BY <1>1, <2>2, <2>3, ObservesTyped, BarEndsTyped
  <2>5. QED BY <2>3, <2>4 DEF Observes, TypeOK
<1>14. CASE StoreFails(p)
  <2>1. loop' \in [Processes -> Place]
    BY <1>14, AtTyped, LoopTyped DEF StoreFails
  <2>2. QED BY <1>14, <2>1 DEF StoreFails, TypeOK, outside, history
<1>15. QED
  BY <1>2, <1>3, <1>4, <1>5, <1>6, <1>7, <1>8, <1>9, <1>10, <1>11, <1>12, <1>13, <1>14, SendingTyped
  DEF Step, Flattening

LEMMA NextTyped == ASSUME TypeOK, [Next]_vars PROVE TypeOK'
<1>1. ASSUME NEW price \in Prices, NEW day \in 1..MaxDays, Candle(price, day) PROVE TypeOK'
  <2>1. market' \in [bar : 1..MaxBars, day : 1..MaxDays, price : Prices]
    BY <1>1, BoundsAssumption DEF Candle, TypeOK
  <2>2. QED BY <1>1, <2>1 DEF Candle, TypeOK, history
<1>2. ASSUME NEW r \in working, Gone(r) PROVE TypeOK'
  BY <1>2 DEF Gone, TypeOK, history
<1>3. CASE UNCHANGED vars
  BY <1>3 DEF vars, outside, history, TypeOK
<1>4. QED BY <1>1, <1>2, <1>3, StepTyped, OperateTyped DEF Next

\* Every variable keeps its type, for every number of processes and operators,
\* all limits, prices and bounds.
THEOREM TypeCorrect == Spec => []TypeOK
<1>1. QED BY InitType, NextTyped, PTL DEF Spec

-----------------------------------------------------------------------------
(* Exits                                                                   *)

LEMMA BlockedStep == ASSUME TypeOK, ~blocked, [Next]_vars PROVE ~blocked'
<1>1. ASSUME NEW p \in Processes, NEW r \in Signals(Marked(book[p])),
             NEW c \in Contexts(Observed(mem[p], book[p])), TickSignal(p, r, c)
      PROVE  ~blocked'
  <2> DEFINE quantity == Evaluate(r, Account(Observed(mem[p], book[p]), Marked(book[p])), c)
  <2>1. /\ r.quantity \in Nat \ {0}
        /\ PureReduction(r, Marked(book[p]).held) => quantity = r.quantity
    BY SignalStep DEF Request
  <2>2. blocked' = (blocked \/ (quantity = 0 /\ PureReduction(r, Marked(book[p]).held)))
    BY <1>1 DEF TickSignal, Judged
  <2>3. QED BY <2>1, <2>2
<1>2. ASSUME NEW p \in Processes, NEW a \in mem[p].approvals, NEW c \in Contexts(mem[p]),
             Approve(p, a, c)
      PROVE  ~blocked'
  <2>1. mem[p] \in Memory /\ book[p] \in Portfolio /\ a \in Request
    BY DEF TypeOK, Memory
  <2>2. Unstage(mem[p], a) \in Memory /\ a.quantity \in Nat \ {0}
    BY <2>1, StageTyped DEF Request
  <2>3. PureReduction(a, book[p].held) => Evaluate(a, Account(Unstage(mem[p], a), book[p]), c) # 0
    BY <2>1, <2>2, Verdict
  <2>4. QED BY <1>2, <2>3 DEF Approve, Judged, Recheck
<1>3. CASE UNCHANGED blocked
  BY <1>3
<1>4. ASSUME NEW p \in Processes, Step(p) PROVE ~blocked'
  BY <1>1, <1>2, <1>3, <1>4
  DEF Step, TickIdle, TickOther, TickSent, StoreMarks, StoreState, StoreFails, SquareOff, SquaredOff,
      Reaches, Refused, Leaves, Flatten, Flattens, FlattenRefused, Reject, Boot, Lead, Crash, Adopt,
      history
<1>5. ASSUME NEW o \in Operators, Operate(o) PROVE ~blocked'
  BY <1>3, <1>5 DEF Operate, Ask, Commit, Answer, Fail, history
<1>6. QED
  BY <1>3, <1>4, <1>5 DEF Next, Candle, Gone, vars, history

\* Risk never refuses an order that only reduces, for all limits and in whatever
\* state the account is.
THEOREM ExitsPass == Spec => []ExitsNeverBlocked
<1>1. Init => ~blocked
  BY DEF Init
<1>2. QED BY <1>1, InitType, NextTyped, BlockedStep, PTL DEF Spec, ExitsNeverBlocked

-----------------------------------------------------------------------------
(* Controls                                                                *)

Alone == /\ \A p, q \in Processes : p = q
         /\ \A o, q \in Operators : o = q

\* A request reaches memory first and the database before its answer; what was
\* answered is in both, so that neither a tick nor a restart forgets it.
ControlInv ==
  /\ \A o \in Operators : control[o].ask # "none" => control[o].at \in up
  /\ \A o \in Operators, p \in up :
       control[o].ask = "stop" => mem[p].stop /\ (control[o].done => db.stop)
  /\ \A o \in Operators, p \in up :
       control[o].ask \in Modes =>
         mem[p].mode = control[o].ask /\ (control[o].done => db.mode = control[o].ask)
  /\ halted => /\ db.stop /\ \A p \in up : mem[p].stop
               /\ \A o \in Operators : control[o].ask # "release"
  /\ manual => /\ db.mode # "AUTOMATIC" /\ \A p \in up : mem[p].mode # "AUTOMATIC"
               /\ \A o \in Operators : control[o].ask \notin Modes

\* The exit that the flatten route is about to hand over is one.
ExitInv == \A p \in Processes : sending[p].exit # NoOrder => sending[p].exit.by = "close"

\* A step of the service leaves the controls alone; a breach may engage the stop.
LEMMA Calm ==
  ASSUME TypeOK, ControlInv, UNCHANGED <<control, halted, manual>>, up' = up,
         db'.stop = db.stop, db'.mode = db.mode,
         \A p \in up : mem'[p].mode = mem[p].mode /\ (mem[p].stop => mem'[p].stop)
  PROVE  ControlInv'
  BY DEF ControlInv

\* What is taken.
LEMMA Sends ==
  ASSUME TypeOK, NEW p \in Processes, NEW m \in Memory, NEW r \in Request,
         Submit(p, m, r) \/ Take(p, m, r)
  PROVE  \A q \in Processes : TakenBy(q) \subseteq (IF q = p THEN {r} ELSE {})
  BY SubmitTyped, TakeTyped DEF TakenBy

LEMMA Silent ==
  ASSUME UNCHANGED sending PROVE \A q \in Processes : TakenBy(q) = {}
  BY DEF TakenBy

\* Outside the decision path only closing orders are taken.
LEMMA OnlyClosing ==
  ASSUME TypeOK, NEW p \in Processes,
         \/ SquareOff(p) \/ SquaredOff(p) \/ Flattening(p)
         \/ \E r \in sending[p].waiting : Reaches(p, r) \/ Refused(p, r)
         \/ \E onWire \in SUBSET sending[p].waiting : Crash(p, onWire),
         \A q \in Processes : sending[q].exit # NoOrder => sending[q].exit.by = "close"
  PROVE  /\ \A q \in Processes : \A r \in TakenBy(q) : r.by = "close"
         /\ \A q \in Processes : sending'[q].exit # NoOrder => sending'[q].exit.by = "close"
<1>1. mem[p] \in Memory /\ book[p] \in Portfolio /\ sending[p] \in Sending
  BY DEF TypeOK
<1>2. CASE SquareOff(p)
  <2>1. /\ Closing(book[p]) \in Request /\ Closing(book[p]).by = "close"
        /\ Take(p, mem[p], Closing(book[p]))
    BY <1>1, <1>2, ClosingTyped DEF SquareOff
  <2>2. \A q \in Processes : TakenBy(q) \subseteq {Closing(book[p])}
    BY <1>1, <2>1, Sends
  <2>3. \A q \in Processes : sending'[q].exit = sending[q].exit
    BY <2>1 DEF Take, TypeOK, Sending
  <2>4. QED BY <2>1, <2>2, <2>3
<1>3. CASE SquaredOff(p)
  BY <1>3, Silent DEF SquaredOff
<1>4. CASE Flatten(p)
  <2>1. Closing(book[p]).by = "close"
    BY <1>1, <1>4, ClosingTyped DEF Flatten
  <2>2. \A q \in Processes : /\ sending'[q].waiting = sending[q].waiting
                            /\ sending'[q].exit \in {sending[q].exit, Closing(book[p])}
    BY <1>1, <1>4 DEF Flatten, TypeOK, Sending
  <2>3. QED BY <2>1, <2>2 DEF TakenBy
<1>5. CASE Flattens(p)
  BY <1>1, <1>5 DEF Flattens, TakenBy, TypeOK
<1>6. CASE FlattenRefused(p)
  BY <1>1, <1>6 DEF FlattenRefused, TakenBy, TypeOK, Sending
<1>7. CASE \E r \in sending[p].waiting : Reaches(p, r) \/ Refused(p, r)
  <2>1. PICK r \in sending[p].waiting : Leaves(p, r)
    BY <1>7 DEF Reaches, Refused
  <2>2. \A q \in Processes : /\ sending'[q].waiting \subseteq sending[q].waiting
                            /\ sending'[q].exit = sending[q].exit
    BY <2>1, <1>1 DEF Leaves, TypeOK, Sending
  <2>3. QED BY <2>2 DEF TakenBy
<1>8. CASE \E onWire \in SUBSET sending[p].waiting : Crash(p, onWire)
  BY <1>1, <1>8 DEF Crash, Nothing, TakenBy, TypeOK
<1>9. QED BY <1>2, <1>3, <1>4, <1>5, <1>6, <1>7, <1>8 DEF Flattening

Holds(p) == \A r \in TakenBy(p) :
              /\ halted => r.by = "close" \/ PureReduction(r, book[p].held)
              /\ manual => r.by = "close" \/ r \in mem[p].approvals

LEMMA TickSignalControls ==
  ASSUME TypeOK, ControlInv, NEW p \in Processes, NEW r \in Signals(Marked(book[p])),
         NEW context \in Contexts(Observed(mem[p], book[p])), TickSignal(p, r, context)
  PROVE  ControlInv' /\ \A q \in Processes : Holds(q)
<1> DEFINE m == Observed(mem[p], book[p])
           b == Marked(book[p])
           quantity == Evaluate(r, Account(m, b), context)
           approved == [r EXCEPT !.quantity = quantity]
<1>1. /\ m \in Memory /\ b \in Portfolio /\ r \in Request /\ quantity \in Nat
      /\ quantity > 0 => approved \in Request
  BY SignalStep
<1>2. /\ b.held = book[p].held /\ m.mode = mem[p].mode /\ (mem[p].stop => m.stop)
  BY Observing DEF TypeOK
<1>3. quantity # 0 /\ m.stop => PureReduction(r, b.held) /\ quantity = r.quantity
  BY <1>1, Verdict
<1>4. /\ p \in up /\ UNCHANGED <<up, control, db, halted, manual>>
      /\ \/ BarEnds(p, m, b)
         \/ quantity > 0 /\ BarEnds(p, Stage(m, approved), b)
         \/ quantity > 0 /\ m.mode = "AUTOMATIC" /\ Submit(p, m, approved)
  BY DEF TickSignal, Observes, MayTick
<1>5. quantity > 0 => /\ approved.quantity = quantity /\ approved.side = r.side
  BY <1>1, ApprovedTyped
<1> HIDE DEF m, b, quantity, approved
<1>6. CASE BarEnds(p, m, b)
  <2>1. mem'[p] = m /\ (\A q \in Processes \ {p} : mem'[q] = mem[q]) /\ UNCHANGED sending
    BY <1>1, <1>6, BarEndsTyped
  <2>2. ControlInv'
    BY <1>2, <1>4, <2>1, Calm DEF TypeOK
  <2>3. QED BY <2>1, <2>2, Silent DEF Holds
<1>7. CASE quantity > 0 /\ BarEnds(p, Stage(m, approved), b)
  <2>1. /\ Stage(m, approved) \in Memory /\ Stage(m, approved).mode = m.mode
        /\ Stage(m, approved).stop = m.stop
    BY <1>1, <1>7, StageTyped
  <2>2. /\ mem'[p] = Stage(m, approved) /\ (\A q \in Processes \ {p} : mem'[q] = mem[q])
        /\ UNCHANGED sending
    BY <2>1, <1>7, BarEndsTyped
  <2>3. ControlInv'
    BY <1>2, <1>4, <2>1, <2>2, Calm DEF TypeOK
  <2>4. QED BY <2>2, <2>3, Silent DEF Holds
<1>8. CASE quantity > 0 /\ m.mode = "AUTOMATIC" /\ Submit(p, m, approved)
  <2>1. /\ mem'[p].mode = m.mode /\ mem'[p].stop = m.stop
        /\ \A q \in Processes \ {p} : mem'[q] = mem[q]
    BY <1>1, <1>8, SubmitTyped
  <2>2. ControlInv'
    BY <1>2, <1>4, <2>1, Calm DEF TypeOK
  <2>3. ~manual /\ (halted => m.stop)
    BY <1>2, <1>4, <1>8 DEF ControlInv
  <2>4. halted => PureReduction(approved, book[p].held)
    BY <1>2, <1>3, <1>5, <1>8, <2>3 DEF PureReduction, ReducingQuantity
  <2>5. \A q \in Processes : TakenBy(q) \subseteq (IF q = p THEN {approved} ELSE {})
    BY <1>1, <1>8, Sends
  <2>6. QED BY <2>2, <2>3, <2>4, <2>5 DEF Holds
<1>9. QED BY <1>4, <1>6, <1>7, <1>8

LEMMA ApproveControls ==
  ASSUME TypeOK, ControlInv, NEW p \in Processes, NEW a \in mem[p].approvals,
         NEW context \in Contexts(mem[p]), Approve(p, a, context)
  PROVE  ControlInv' /\ \A q \in Processes : Holds(q)
<1> DEFINE m == Unstage(mem[p], a)
<1>1. mem[p] \in Memory /\ book[p] \in Portfolio /\ a \in Request
  BY DEF TypeOK, Memory
<1>2. m \in Memory /\ m.mode = mem[p].mode /\ m.stop = mem[p].stop
  BY <1>1, StageTyped
<1> DEFINE quantity == Evaluate(a, Account(m, book[p]), context)
<1>3. quantity # 0 /\ mem[p].stop => PureReduction(a, book[p].held)
  BY <1>1, <1>2, Verdict
<1>4. /\ p \in up /\ UNCHANGED <<up, control, db, halted, manual>>
      /\ \/ quantity > 0 /\ Submit(p, m, a)
         \/ mem' = [mem EXCEPT ![p] = m] /\ UNCHANGED sending
  BY DEF Approve, Recheck
<1> HIDE DEF m, quantity
<1>5. CASE quantity > 0 /\ Submit(p, m, a)
  <2>1. /\ mem'[p].mode = m.mode /\ mem'[p].stop = m.stop
        /\ \A q \in Processes \ {p} : mem'[q] = mem[q]
    BY <1>1, <1>2, <1>5, SubmitTyped
  <2>2. ControlInv'
    BY <1>2, <1>4, <2>1, Calm DEF TypeOK
  <2>3. halted => PureReduction(a, book[p].held)
    BY <1>3, <1>4, <1>5 DEF ControlInv
  <2>4. \A q \in Processes : TakenBy(q) \subseteq (IF q = p THEN {a} ELSE {})
    BY <1>1, <1>2, <1>5, Sends
  <2>5. QED BY <2>2, <2>3, <2>4 DEF Holds
<1>6. CASE mem' = [mem EXCEPT ![p] = m] /\ UNCHANGED sending
  <2>1. mem'[p] = m /\ \A q \in Processes \ {p} : mem'[q] = mem[q]
    BY <1>2, <1>6, MemTyped
  <2>2. ControlInv'
    BY <1>2, <1>4, <2>1, Calm DEF TypeOK
  <2>3. QED BY <1>6, <2>2, Silent DEF Holds
<1>7. QED BY <1>4, <1>5, <1>6

\* The rest of what a process does hands over nothing but closing orders.
LEMMA ServiceControls ==
  ASSUME TypeOK, ControlInv, ExitInv, Alone, NEW p \in Processes, Step(p)
  PROVE  ControlInv' /\ \A q \in Processes : Holds(q)
<1>1. mem[p] \in Memory /\ book[p] \in Portfolio
  BY DEF TypeOK
<1>2. CASE TickIdle(p)
  <2>1. /\ Observed(mem[p], book[p]) \in Memory
        /\ Observed(mem[p], book[p]).mode = mem[p].mode
        /\ mem[p].stop => Observed(mem[p], book[p]).stop
    BY <1>1, Observing
  <2>2. /\ mem'[p] = Observed(mem[p], book[p]) /\ (\A q \in Processes \ {p} : mem'[q] = mem[q])
        /\ UNCHANGED sending
    BY <1>2, <2>1, BarEndsTyped DEF TickIdle
  <2>3. ControlInv'
    BY <1>2, <2>1, <2>2, Calm DEF TickIdle, Observes, TypeOK
  <2>4. QED BY <2>2, <2>3, Silent DEF Holds
<1>3. CASE TickSent(p) \/ Lead(p) \/ StoreFails(p)
  <2>1. ControlInv'
    BY <1>3, Calm DEF TickSent, Lead, StoreFails, outside, history
  <2>2. QED BY <1>3, <2>1, Silent DEF TickSent, Lead, StoreFails, outside, Holds
<1>4. CASE StoreMarks(p) \/ StoreState(p)
  <2>1. db'.stop = db.stop /\ db'.mode = db.mode
    BY <1>4 DEF StoreMarks, StoreState, TypeOK, Tables
  <2>2. ControlInv'
    BY <1>4, <2>1, Calm DEF StoreMarks, StoreState, outside
  <2>3. QED BY <1>4, <2>2, Silent DEF StoreMarks, StoreState, outside, Holds
<1>5. CASE \E a \in mem[p].approvals : Reject(p, a)
  <2>1. PICK a \in mem[p].approvals : Reject(p, a)
    BY <1>5
  <2>2. a \in Request
    BY <1>1 DEF Memory
  <2>3. mem'[p] = Unstage(mem[p], a) /\ \A q \in Processes \ {p} : mem'[q] = mem[q]
    BY <1>1, <2>1, <2>2, StageTyped, MemTyped DEF Reject
  <2>4. ControlInv'
    BY <1>1, <2>1, <2>2, <2>3, StageTyped, Calm DEF Reject, outside, history, TypeOK
  <2>5. QED BY <2>1, <2>4, Silent DEF Reject, outside, Holds
<1>6. CASE \E r \in working, price \in Prices : Adopt(p, r, price)
  <2>1. PICK r \in working, price \in Prices : Adopt(p, r, price)
    BY <1>6
  <2>2. db'.stop = db.stop /\ db'.mode = db.mode
    BY <2>1 DEF Adopt, TypeOK, Tables
  <2>3. ControlInv'
    BY <2>1, <2>2, Calm DEF Adopt
  <2>4. \A q \in Processes : TakenBy(q) = {}
    BY <2>1, Silent DEF Adopt
  <2>5. QED BY <2>3, <2>4 DEF Holds
<1>7. CASE Boot(p)
  <2>1. up = {} /\ up' = {p} /\ UNCHANGED <<sending, control, halted, manual>>
    BY <1>7 DEF Boot, Alone, TypeOK
  <2>2. /\ mem'[p].mode = db.mode /\ mem'[p].stop = db.stop
        /\ db'.mode = db.mode /\ db'.stop = db.stop
    BY <1>7, RestoredTyped DEF Boot, TypeOK, Tables
  <2>3. \A o \in Operators : control[o].ask = "none"
    BY <2>1 DEF ControlInv
  <2>4. ControlInv'
    BY <2>1, <2>2, <2>3 DEF ControlInv, Modes
  <2>5. QED BY <2>1, <2>4, Silent DEF Holds
<1>8. CASE \E onWire \in SUBSET sending[p].waiting : Crash(p, onWire)
  <2>1. up' = {} /\ UNCHANGED <<db, halted, manual>>
    BY <1>8 DEF Crash, Alone, TypeOK, history
  <2>2. \A o \in Operators : control'[o].ask = "none"
    BY <1>8 DEF Crash, ControlInv, Alone, TypeOK, NoRequest
  <2>3. ControlInv'
    BY <2>1, <2>2 DEF ControlInv, Modes
  <2>4. QED BY <1>8, <2>1, <2>3, OnlyClosing DEF Holds, ExitInv
<1>9. CASE \E r \in Signals(Marked(book[p])), c \in Contexts(Observed(mem[p], book[p])) :
             TickSignal(p, r, c)
  BY <1>9, TickSignalControls
<1>10. CASE \E a \in mem[p].approvals, c \in Contexts(mem[p]) : Approve(p, a, c)
  BY <1>10, ApproveControls
<1>11. CASE \E day \in 1..MaxDays : TickOther(p, day)
  <2>1. PICK day \in 1..MaxDays : TickOther(p, day)
    BY <1>11
  <2> DEFINE m == Seen(mem[p], book[p], book[p], day)
  <2>2. m \in Memory /\ m.mode = mem[p].mode /\ (mem[p].stop => m.stop)
    BY <1>1, Seeing
  <2>3. p \in up /\ Observes(p, m, book[p]) /\ BarEnds(p, m, book[p])
    BY <2>1 DEF TickOther, MayTick
  <2> HIDE DEF m
  <2>4. /\ mem'[p] = m /\ (\A q \in Processes \ {p} : mem'[q] = mem[q])
        /\ UNCHANGED sending
    BY <2>2, <2>3, BarEndsTyped
  <2>5. ControlInv'
    BY <2>2, <2>3, <2>4, Calm DEF Observes, TypeOK
  <2>6. QED BY <2>4, <2>5, Silent DEF Holds
<1>12. CASE \/ SquareOff(p) \/ SquaredOff(p) \/ Flattening(p)
            \/ \E r \in sending[p].waiting : Reaches(p, r) \/ Refused(p, r)
  <2>1. UNCHANGED <<up, control, db, halted, manual>>
    BY <1>12 DEF SquareOff, SquaredOff, Flattening, Flatten, Flattens, FlattenRefused, Reaches,
                 Refused, Leaves, outside, history
  <2>2. mem' = mem
    <3>1. CASE SquareOff(p)
      <4>1. mem' = [mem EXCEPT ![p] = mem[p]]
        BY <3>1 DEF SquareOff, Take
      <4>2. QED BY <4>1 DEF TypeOK
    <3>2. QED BY <1>12, <3>1
      DEF SquaredOff, Flattening, Flatten, Flattens, FlattenRefused, Reaches, Refused, Leaves
  <2>3. ControlInv'
    BY <2>1, <2>2, Calm
  <2>4. QED BY <1>12, <2>3, OnlyClosing DEF Holds, ExitInv
<1>13. QED
  BY <1>2, <1>3, <1>4, <1>5, <1>6, <1>7, <1>8, <1>9, <1>10, <1>11, <1>12 DEF Step, Flattening

LEMMA OperatorControls ==
  ASSUME TypeOK, ControlInv, Alone, NEW o \in Operators, Operate(o)
  PROVE  ControlInv' /\ \A q \in Processes : Holds(q)
<1>1. ControlInv'
  <2>1. ASSUME NEW p \in Processes, NEW ask \in Asks, Ask(o, p, ask) PROVE ControlInv'
    <3>1. /\ up' = up /\ p \in up /\ db' = db
          /\ control'[o] = [ask |-> ask, at |-> p, done |-> FALSE, undone |-> FALSE]
          /\ halted' = (halted /\ ask # "release") /\ manual' = (manual /\ ask \notin Modes)
      BY <2>1 DEF Ask
    <3>2. mem'[p] = Applied(mem[p], ask) /\ mem[p] \in Memory
      BY <2>1 DEF Ask, TypeOK
    <3>3. /\ ask = "stop" => mem'[p].stop
          /\ ask # "release" => (mem[p].stop => mem'[p].stop)
          /\ ask \in Modes => mem'[p].mode = ask
          /\ ask \notin Modes => mem'[p].mode = mem[p].mode
      BY <3>2 DEF Applied, Asks, Modes, Memory
    <3>4. \A q \in Processes : q = p
      BY DEF Alone
    <3>5. \A q \in Operators : q = o
      BY DEF Alone
    <3>6. up \subseteq {p}
      BY <3>4 DEF TypeOK
    <3>7. control'[o].ask = ask /\ control'[o].at = p /\ ~control'[o].done
      BY <3>1
    <3>8. halted' => /\ db'.stop /\ \A q \in up' : mem'[q].stop
                     /\ \A q \in Operators : control'[q].ask # "release"
      BY <3>1, <3>3, <3>5, <3>6, <3>7 DEF ControlInv
    <3>9. manual' => /\ db'.mode # "AUTOMATIC" /\ \A q \in up' : mem'[q].mode # "AUTOMATIC"
                     /\ \A q \in Operators : control'[q].ask \notin Modes
      BY <3>1, <3>3, <3>5, <3>6, <3>7 DEF ControlInv
    <3>10. QED BY <3>1, <3>3, <3>5, <3>6, <3>7, <3>8, <3>9 DEF ControlInv
  <2>2. CASE Commit(o)
    <3>1. control[o] \in Control /\ control[o].ask \in Asks /\ db \in Tables
      BY <2>2 DEF Commit, TypeOK, Control
    <3>2. /\ db' = Applied(db, control[o].ask)
          /\ control'[o].ask = control[o].ask /\ control'[o].at = control[o].at
          /\ UNCHANGED <<up, mem, halted, manual>>
      BY <2>2, <3>1 DEF Commit, Stored, TypeOK, Control, outside, history
    <3>3. /\ control[o].ask = "stop" => db'.stop
          /\ control[o].ask # "release" => (db.stop => db'.stop)
          /\ control[o].ask \in Modes => db'.mode = control[o].ask
          /\ control[o].ask \notin Modes => db'.mode = db.mode
      BY <3>1, <3>2 DEF Applied, Asks, Modes, Tables
    <3>4. \A q \in Operators : q = o
      BY DEF Alone
    <3>5. QED BY <3>2, <3>3, <3>4 DEF ControlInv
  <2>3. CASE Answer(o)
    <3>1. /\ UNCHANGED <<up, mem, db>> /\ control'[o] = NoRequest /\ control[o].done
          /\ halted' => halted \/ control[o].ask = "stop"
          /\ manual' => manual \/ control[o].ask \in Modes \ {"AUTOMATIC"}
      BY <2>3 DEF Answer, outside, TypeOK, Modes
    <3>2. \A q \in Operators : control'[q].ask = "none"
      BY <3>1 DEF Alone, NoRequest
    <3>3. halted' => db.stop /\ \A p \in up : mem[p].stop
      BY <3>1 DEF ControlInv, TypeOK
    <3>4. manual' => db.mode # "AUTOMATIC" /\ \A p \in up : mem[p].mode # "AUTOMATIC"
      BY <3>1 DEF ControlInv, TypeOK, Modes
    <3>5. QED BY <3>1, <3>2, <3>3, <3>4 DEF ControlInv, Modes
  <2>4. CASE Fail(o)
    <3>1. UNCHANGED <<up, mem, db, halted, manual>> /\ control'[o] = NoRequest
      BY <2>4 DEF Fail, outside, history, TypeOK
    <3>2. \A q \in Operators : control'[q].ask = "none"
      BY <3>1 DEF Alone, NoRequest
    <3>3. QED BY <3>1, <3>2 DEF ControlInv, Modes
  <2>5. QED BY <2>1, <2>2, <2>3, <2>4 DEF Operate
<1>2. UNCHANGED sending
  BY DEF Operate, Ask, Commit, Answer, Fail, outside
<1>3. QED BY <1>1, <1>2, Silent DEF Holds

\* The exit of the flatten route is written by Flatten and by nothing else.
LEMMA NextExit == ASSUME TypeOK, ExitInv, [Next]_vars PROVE ExitInv'
<1>1. CASE UNCHANGED sending
  BY <1>1 DEF ExitInv
<1>2. ASSUME NEW p \in Processes, NEW m \in Memory, NEW r \in Request, Submit(p, m, r) PROVE ExitInv'
  BY <1>2 DEF Submit, Take, ExitInv, TypeOK, Sending
<1>3. ASSUME NEW p \in Processes, NEW r \in Signals(Marked(book[p])),
             NEW c \in Contexts(Observed(mem[p], book[p])), TickSignal(p, r, c)
      PROVE  ExitInv'
  <2> DEFINE m == Observed(mem[p], book[p])
             quantity == Evaluate(r, Account(m, Marked(book[p])), c)
             approved == [r EXCEPT !.quantity = quantity]
  <2>1. m \in Memory /\ (quantity > 0 => approved \in Request)
    BY SignalStep
  <2>2. UNCHANGED sending \/ (quantity > 0 /\ Submit(p, m, approved))
    BY <1>3 DEF TickSignal, BarEnds
  <2> HIDE DEF m, quantity, approved
  <2>3. QED BY <1>1, <1>2, <2>1, <2>2
<1>4. ASSUME NEW p \in Processes, NEW a \in mem[p].approvals, NEW c \in Contexts(mem[p]),
             Approve(p, a, c)
      PROVE  ExitInv'
  <2>1. mem[p] \in Memory /\ a \in Request
    BY DEF TypeOK, Memory
  <2>2. Unstage(mem[p], a) \in Memory
    BY <2>1, StageTyped
  <2>3. UNCHANGED sending \/ Submit(p, Unstage(mem[p], a), a)
    BY <1>4 DEF Approve
  <2>4. QED BY <1>1, <1>2, <2>1, <2>2, <2>3
<1>5. ASSUME NEW p \in Processes, Step(p) PROVE ExitInv'
  <2>1. CASE \/ SquareOff(p) \/ SquaredOff(p) \/ Flattening(p)
             \/ \E r \in sending[p].waiting : Reaches(p, r) \/ Refused(p, r)
             \/ \E onWire \in SUBSET sending[p].waiting : Crash(p, onWire)
    BY <2>1, OnlyClosing DEF ExitInv
  <2>2. QED BY <1>1, <1>3, <1>4, <1>5, <2>1
    DEF Step, Flattening, TickIdle, TickOther, BarEnds, TickSent, StoreMarks, StoreState, StoreFails,
        Reject, Boot, Lead, Adopt
<1>6. ASSUME NEW o \in Operators, Operate(o) PROVE ExitInv'
  BY <1>1, <1>6 DEF Operate, Ask, Commit, Answer, Fail
<1>7. QED BY <1>1, <1>5, <1>6 DEF Next, Candle, Gone, vars

LEMMA InitExit == ASSUME Init PROVE ExitInv
  BY DEF Init, ExitInv, Nothing

LEMMA NextControls ==
  ASSUME TypeOK, ControlInv, ExitInv, Alone, [Next]_vars
  PROVE  ControlInv' /\ \A q \in Processes : Holds(q)
<1>1. ASSUME NEW price \in Prices, NEW day \in 1..MaxDays, Candle(price, day)
      PROVE  ControlInv' /\ \A q \in Processes : Holds(q)
  <2>1. ControlInv' /\ UNCHANGED sending
    BY <1>1, Calm DEF Candle, history
  <2>2. QED BY <2>1, Silent DEF Holds
<1>2. ASSUME NEW r \in working, Gone(r)
      PROVE  ControlInv' /\ \A q \in Processes : Holds(q)
  <2>1. ControlInv'
    BY <1>2, Calm DEF Gone, history
  <2>2. \A q \in Processes : TakenBy(q) = {}
    BY <1>2, Silent DEF Gone
  <2>3. QED BY <2>1, <2>2 DEF Holds
<1>3. CASE UNCHANGED vars
  <2>1. ControlInv' /\ UNCHANGED sending
    BY <1>3, Calm DEF vars, outside, history
  <2>2. QED BY <2>1, Silent DEF Holds
<1>4. QED BY <1>1, <1>2, <1>3, ServiceControls, OperatorControls DEF Next

LEMMA InitControls == ASSUME Init PROVE ControlInv
  BY DEF Init, ControlInv, NoRequest, Modes

\* With one process whose control routes serve one request at a time: from the
\* answer to an emergency stop until its release is asked for, the order manager
\* takes no order of the strategy but those that reduce the position, through any
\* number of deaths, restarts, candles and staged orders.
THEOREM StopsHold == Alone => (Spec => StopHolds)
<1> SUFFICES ASSUME Alone PROVE Spec => StopHolds
  OBVIOUS
<1> DEFINE Taken == \A p \in Processes : \A r \in TakenBy(p) :
                      halted => r.by = "close" \/ PureReduction(r, book[p].held)
<1>1. TypeOK /\ ControlInv /\ ExitInv /\ [Next]_vars
        => TypeOK' /\ ControlInv' /\ ExitInv' /\ [Taken]_vars
  BY NextTyped, NextControls, NextExit DEF Holds
<1>2. Init => TypeOK /\ ControlInv /\ ExitInv
  BY InitType, InitControls, InitExit
<1>3. QED BY <1>1, <1>2, PTL DEF Spec, StopHolds

\* Under the same conditions: from the answer to a change to MANUAL or APPROVAL
\* until the next change is asked for, an order is taken only if an operator
\* approves it or it is an exit of the square-off or of the flatten route.
THEOREM ModesHold == Alone => (Spec => ModeHolds)
<1> SUFFICES ASSUME Alone PROVE Spec => ModeHolds
  OBVIOUS
<1> DEFINE Taken == \A p \in Processes : \A r \in TakenBy(p) :
                      manual => r.by = "close" \/ r \in mem[p].approvals
<1>1. TypeOK /\ ControlInv /\ ExitInv /\ [Next]_vars
        => TypeOK' /\ ControlInv' /\ ExitInv' /\ [Taken]_vars
  BY NextTyped, NextControls, NextExit DEF Holds
<1>2. Init => TypeOK /\ ControlInv /\ ExitInv
  BY InitType, InitControls, InitExit
<1>3. QED BY <1>1, <1>2, PTL DEF Spec, ModeHolds

-----------------------------------------------------------------------------
(* Baselines                                                               *)

\* y may take the place of x: no lower peak and, as long as no tick goes back to an
\* earlier day, no earlier day and one opening equity a day.
Follows(x, y, forth) ==
  /\ y.peak >= x.peak
  /\ forth => y.day >= x.day /\ (y.day = x.day => y.sod = x.sod)

\* What is stored, what is about to be, and what memory holds follow each other.
BaseInv(forth) ==
  /\ \A p \in up : /\ Follows(db.pipe, mem[p], forth)
                   /\ loop[p].at = "state" => /\ Follows(db.pipe, loop[p].pipe, forth)
                                              /\ Follows(loop[p].pipe, mem[p], forth)
  /\ \A p \in Processes \ up : loop[p].at = "idle"

Numeric(x) == x.day \in Int /\ x.sod \in Int /\ x.peak \in Int

LEMMA FollowsSelf ==
  ASSUME NEW forth \in BOOLEAN, NEW x, Numeric(x) PROVE Follows(x, x, forth)
  BY DEF Follows, Numeric

LEMMA FollowsOrder ==
  ASSUME NEW forth \in BOOLEAN, NEW x, NEW y, NEW z, Numeric(x), Numeric(y), Numeric(z),
         Follows(x, y, forth), Follows(y, z, forth)
  PROVE  Follows(x, z, forth)
<1>1. x.peak <= z.peak
  BY DEF Follows, Numeric
<1>2. ASSUME forth PROVE x.day <= z.day /\ (z.day = x.day => z.sod = x.sod)
  <2>1. x.day <= y.day /\ y.day <= z.day
    BY <1>2 DEF Follows, Numeric
  <2>2. x.day <= z.day /\ (z.day = x.day => y.day = x.day /\ z.day = y.day)
    BY <2>1 DEF Numeric
  <2>3. QED BY <1>2, <2>2 DEF Follows
<1>3. QED BY <1>1, <1>2 DEF Follows, Numeric

LEMMA Numbers ==
  ASSUME TypeOK
  PROVE  /\ Numeric(db.pipe)
         /\ \A m \in Memory : Numeric(m)
         /\ \A x \in Pipe : Numeric(x)
  BY BoundsAssumption DEF TypeOK, Tables, Pipe, Memory, Numeric

LEMMA CapturedSame ==
  ASSUME NEW forth \in BOOLEAN, NEW m \in Memory, NEW x
  PROVE  /\ Follows(x, m, forth) <=> Follows(x, Captured(m), forth)
         /\ Follows(m, x, forth) <=> Follows(Captured(m), x, forth)
  BY DEF Follows, Captured

LEMMA SeenFollows ==
  ASSUME TypeOK, NEW forth \in BOOLEAN, NEW m \in Memory, NEW b \in Portfolio, NEW c \in Portfolio,
         NEW day \in 1..MaxDays, forth => ~(Seen(m, b, c, day).day < m.day)
  PROVE  Follows(m, Seen(m, b, c, day), forth)
<1>1. LET n == Seen(m, b, c, day)
      IN  n \in Memory /\ n.day = day /\ (day = m.day => n.sod = m.sod) /\ n.peak >= m.peak
  BY Seeing
<1>2. m.day \in Int /\ day \in Int
  BY BoundsAssumption DEF Memory
<1>3. QED BY <1>1, <1>2 DEF Follows

\* A step that moves memory forward, and at most captures it.
LEMMA Forward ==
  ASSUME TypeOK, TypeOK', NEW forth \in BOOLEAN, BaseInv(forth), Alone, NEW p \in up, up' = up,
         db'.pipe = db.pipe, Follows(mem[p], mem'[p], forth),
         loop'[p].at = "state" => loop'[p] = loop[p] \/ loop'[p].pipe = Captured(mem'[p])
  PROVE  BaseInv(forth)'
<1>1. /\ up = {p} /\ Processes = {p} /\ mem[p] \in Memory /\ mem'[p] \in Memory
  BY DEF Alone, TypeOK
<1>2. Follows(db.pipe, mem'[p], forth)
  BY <1>1, FollowsOrder, Numbers DEF BaseInv
<1>3. CASE loop'[p].at = "state" /\ loop'[p] = loop[p]
  <2>1. loop[p].pipe \in Pipe
    BY <1>1, <1>3 DEF TypeOK, Place
  <2>2. Follows(loop[p].pipe, mem'[p], forth)
    BY <1>1, <1>3, <2>1, FollowsOrder, Numbers DEF BaseInv
  <2>3. QED BY <1>1, <1>2, <1>3, <2>2 DEF BaseInv
<1>4. CASE loop'[p].at = "state" /\ loop'[p].pipe = Captured(mem'[p])
  <2>1. Follows(mem'[p], mem'[p], forth)
    BY <1>1, FollowsSelf, Numbers
  <2>2. /\ Follows(Captured(mem'[p]), mem'[p], forth)
        /\ Follows(db.pipe, Captured(mem'[p]), forth)
    BY <1>1, <1>2, <2>1, CapturedSame
  <2>3. QED BY <1>1, <1>2, <1>4, <2>2 DEF BaseInv
<1>5. CASE loop'[p].at # "state"
  BY <1>1, <1>2, <1>5 DEF BaseInv
<1>6. QED BY <1>3, <1>4, <1>5

\* A step that leaves memory and the loop alone.
LEMMA Aside ==
  ASSUME NEW forth \in BOOLEAN, BaseInv(forth), UNCHANGED <<up, mem, loop>>, db'.pipe = db.pipe
  PROVE  BaseInv(forth)'
  BY DEF BaseInv

SameBase(x, y) == y.day = x.day /\ y.sod = x.sod /\ y.peak = x.peak

LEMMA SameFollows ==
  ASSUME NEW forth, NEW x, NEW y, NEW z, SameBase(y, z), Follows(x, y, forth)
  PROVE  Follows(x, z, forth)
  BY DEF SameBase, Follows

LEMMA KeepsBase ==
  ASSUME TypeOK, NEW p \in Processes, NEW m \in Memory, NEW r \in Request
  PROVE  /\ SameBase(m, Stage(m, r)) /\ SameBase(m, Unstage(m, r))
         /\ Submit(p, m, r) => SameBase(m, mem'[p])
         /\ \A ask \in Asks : SameBase(m, Applied(m, ask))
<1>1. SameBase(m, Stage(m, r)) /\ SameBase(m, Unstage(m, r))
  BY DEF SameBase, Stage, Unstage, Memory
<1>2. \A k : SameBase(m, [m EXCEPT !.keys = k])
  BY DEF SameBase, Memory
<1>3. Submit(p, m, r) => mem'[p] = [m EXCEPT !.keys = @ \cup {Key(r)}]
  BY DEF Submit, Take, TypeOK
<1>4. \A ask \in Asks : SameBase(m, Applied(m, ask))
  BY DEF SameBase, Applied, Asks, Modes, Memory
<1>5. [m EXCEPT !.keys = @ \cup {Key(r)}] = [m EXCEPT !.keys = m.keys \cup {Key(r)}]
  BY DEF Memory
<1>6. QED BY <1>1, <1>2, <1>3, <1>4, <1>5

\* A tick, whatever it sees and decides.
LEMMA TickForward ==
  ASSUME TypeOK, TypeOK', NEW forth \in BOOLEAN, BaseInv(forth), forth => ~mixed', Alone,
         NEW p \in Processes,
         \/ TickIdle(p)
         \/ \E day \in 1..MaxDays : TickOther(p, day)
         \/ \E r \in Signals(Marked(book[p])), c \in Contexts(Observed(mem[p], book[p])) :
              TickSignal(p, r, c)
  PROVE  BaseInv(forth)' /\ db' = db /\ up' = up
<1>1. mem[p] \in Memory /\ book[p] \in Portfolio /\ p \in up /\ Marked(book[p]) \in Portfolio
  BY Observing DEF TypeOK, TickIdle, TickOther, TickSignal, MayTick
<1>2. UNCHANGED <<up, db>>
  BY DEF TickIdle, TickOther, TickSignal, Observes
<1>3. ASSUME NEW m \in Memory, NEW n \in Memory, NEW b, Follows(mem[p], m, forth), SameBase(m, n),
             BarEnds(p, n, b)
      PROVE  BaseInv(forth)'
  <2>1. mem'[p] = n
    BY <1>3, BarEndsTyped
  <2>2. loop'[p] = Snapshot(n, b)
    BY <1>3 DEF BarEnds, LoopTo, TypeOK
  <2>3. loop'[p].at = "state" => loop'[p].pipe = Captured(mem'[p])
    BY <2>1, <2>2 DEF Snapshot, Storing, At
  <2>4. Follows(mem[p], n, forth)
    BY <1>3, SameFollows
  <2>5. QED BY <1>1, <1>2, <2>1, <2>3, <2>4, Forward
<1>4. CASE \E day \in 1..MaxDays : TickOther(p, day)
  <2>1. PICK day \in 1..MaxDays : TickOther(p, day)
    BY <1>4
  <2> DEFINE m == Seen(mem[p], book[p], book[p], day)
  <2>2. forth => ~(m.day < mem[p].day)
    BY <2>1 DEF TickOther, Observes
  <2>3. m \in Memory /\ Follows(mem[p], m, forth)
    BY <1>1, <2>2, Seeing, SeenFollows
  <2>4. BarEnds(p, m, book[p]) /\ SameBase(m, m)
    BY <2>1 DEF TickOther, SameBase
  <2> HIDE DEF m
  <2>5. QED BY <1>2, <1>3, <2>3, <2>4
<1> DEFINE m == Observed(mem[p], book[p])
           b == Marked(book[p])
<1>5. ASSUME mixed' = (mixed \/ m.day < mem[p].day)
      PROVE  m \in Memory /\ Follows(mem[p], m, forth)
  <2>1. market.day \in 1..MaxDays
    BY DEF TypeOK
  <2>2. QED BY <1>1, <1>5, <2>1, Observing, SeenFollows DEF Observed
<1>6. CASE TickIdle(p)
  <2>1. BarEnds(p, m, b) /\ SameBase(m, m) /\ mixed' = (mixed \/ m.day < mem[p].day)
    BY <1>6 DEF TickIdle, Observes, SameBase
  <2> HIDE DEF m, b
  <2>2. QED BY <1>2, <1>3, <1>5, <2>1
<1>7. ASSUME NEW r \in Signals(b), NEW c \in Contexts(m), TickSignal(p, r, c)
      PROVE  BaseInv(forth)'
  <2> DEFINE quantity == Evaluate(r, Account(m, b), c)
             approved == [r EXCEPT !.quantity = quantity]
  <2>1. quantity > 0 => approved \in Request
    BY SignalStep
  <2>2. /\ mixed' = (mixed \/ m.day < mem[p].day)
        /\ \/ BarEnds(p, m, b)
           \/ quantity > 0 /\ BarEnds(p, Stage(m, approved), b)
           \/ /\ quantity > 0 /\ Submit(p, m, approved)
              /\ LoopTo(p, Awaiting("sent", approved))
    BY <1>7 DEF TickSignal, Observes
  <2> HIDE DEF m, b, quantity, approved
  <2>3. m \in Memory /\ Follows(mem[p], m, forth)
    BY <1>5, <2>2
  <2>4. CASE BarEnds(p, m, b)
    BY <1>3, <2>3, <2>4 DEF SameBase
  <2>5. CASE quantity > 0 /\ BarEnds(p, Stage(m, approved), b)
    BY <1>3, <2>1, <2>3, <2>5, StageTyped, KeepsBase
  <2>6. CASE quantity > 0 /\ Submit(p, m, approved) /\ LoopTo(p, Awaiting("sent", approved))
    <3>1. SameBase(m, mem'[p])
      BY <2>1, <2>3, <2>6, KeepsBase
    <3>2. Follows(mem[p], mem'[p], forth)
      BY <2>3, <3>1, SameFollows
    <3>3. loop'[p].at = "sent"
      BY <2>6 DEF LoopTo, Awaiting, TypeOK
    <3>4. QED BY <1>1, <1>2, <3>2, <3>3, Forward
  <2>7. QED BY <2>2, <2>4, <2>5, <2>6
<1>8. QED BY <1>2, <1>4, <1>6, <1>7

LEMMA BootBase ==
  ASSUME TypeOK, TypeOK', NEW forth \in BOOLEAN, BaseInv(forth), Alone, NEW p \in Processes, Boot(p)
  PROVE  /\ BaseInv(forth)' /\ Follows(db.pipe, db'.pipe, forth)
         /\ db'.pipe.day = db.pipe.day /\ db'.pipe.sod = db.pipe.sod
<1> DEFINE b == Replayed
           f == [Fresh EXCEPT !.mode = db.mode, !.stop = db.stop]
           m == Restored(f, b)
<1>1. b \in Portfolio /\ m \in Memory /\ Equity(b) \in Int /\ Numeric(db.pipe)
  BY RestoredTyped, EquityInt, Numbers
<1>2. f \in Memory
  BY FreshTyped DEF Memory, TypeOK, Tables
<1>3. up = {} /\ up' = {p} /\ UNCHANGED loop /\ mem'[p] = m
  BY DEF Boot, Alone, TypeOK
<1>4. db'.pipe = Captured(m)
  BY DEF Boot, TypeOK, Tables
<1>5. loop[p].at = "idle"
  BY <1>3 DEF BaseInv
<1> HIDE DEF b, f
<1>6. /\ m.day = db.pipe.day /\ m.sod = db.pipe.sod
      /\ m.peak = IF Equity(b) > db.pipe.peak THEN Equity(b) ELSE db.pipe.peak
  BY <1>2 DEF Restored, Memory
<1> HIDE DEF m
<1>7. Follows(db.pipe, m, forth)
  BY <1>1, <1>6 DEF Follows, Numeric
<1>8. Follows(m, m, forth)
  BY <1>1, FollowsSelf, Numbers
<1>9. Follows(db.pipe, Captured(m), forth) /\ Follows(Captured(m), m, forth)
  BY <1>1, <1>7, <1>8, CapturedSame
<1>10. Captured(m).day = m.day /\ Captured(m).sod = m.sod
  BY DEF Captured
<1>11. Processes = {p}
  BY DEF Alone
<1>12. QED BY <1>3, <1>4, <1>5, <1>6, <1>9, <1>10, <1>11 DEF BaseInv

LEMMA ServiceBase ==
  ASSUME TypeOK, TypeOK', NEW forth \in BOOLEAN, BaseInv(forth), forth => ~mixed', Alone,
         NEW p \in Processes, Step(p)
  PROVE  /\ BaseInv(forth)' /\ Follows(db.pipe, db'.pipe, forth)
         /\ up' # up => db'.pipe.day = db.pipe.day /\ db'.pipe.sod = db.pipe.sod
<1>1. mem[p] \in Memory /\ book[p] \in Portfolio /\ Numeric(db.pipe) /\ Processes = {p}
  BY Numbers DEF TypeOK, Alone
<1>2. Follows(db.pipe, db.pipe, forth) /\ Follows(mem[p], mem[p], forth)
  BY <1>1, FollowsSelf, Numbers
<1>4. CASE TickSent(p) \/ StoreMarks(p) \/ StoreFails(p) \/ SquaredOff(p)
  <2>1. p \in up /\ UNCHANGED <<up, mem>> /\ db'.pipe = db.pipe
    BY <1>4 DEF TickSent, StoreMarks, StoreFails, SquaredOff, outside, TypeOK, Tables
  <2>2. loop'[p].at = "state" => loop'[p].pipe = Captured(mem'[p])
    BY <1>4, <2>1
    DEF TickSent, StoreMarks, StoreFails, SquaredOff, LoopTo, Snapshot, Storing, At, TypeOK
  <2>3. BaseInv(forth)'
    BY <1>2, <2>1, <2>2, Forward
  <2>4. QED BY <1>2, <2>1, <2>3
<1>5. CASE StoreState(p)
  <2>1. /\ p \in up /\ UNCHANGED <<up, mem>> /\ db'.pipe = loop[p].pipe
        /\ loop'[p].at = "idle"
    BY <1>5 DEF StoreState, LoopTo, At, outside, TypeOK, Tables
  <2>2. Follows(db.pipe, loop[p].pipe, forth) /\ Follows(loop[p].pipe, mem[p], forth)
    BY <1>5 DEF StoreState, BaseInv
  <2>3. QED BY <1>1, <2>1, <2>2 DEF BaseInv, TypeOK
<1>6. CASE \E a \in mem[p].approvals, c \in Contexts(mem[p]) : Approve(p, a, c)
  <2>1. PICK a \in mem[p].approvals, c \in Contexts(mem[p]) : Approve(p, a, c)
    BY <1>6
  <2>2. a \in Request
    BY <1>1 DEF Memory
  <2>3. Unstage(mem[p], a) \in Memory /\ SameBase(mem[p], Unstage(mem[p], a))
    BY <1>1, <2>2, StageTyped, KeepsBase
  <2>4. SameBase(Unstage(mem[p], a), mem'[p])
    <3>1. CASE Submit(p, Unstage(mem[p], a), a)
      BY <2>2, <2>3, <3>1, KeepsBase
    <3>2. CASE mem' = [mem EXCEPT ![p] = Unstage(mem[p], a)]
      BY <2>3, <3>2, MemTyped DEF SameBase
    <3>3. QED BY <2>1, <3>1, <3>2 DEF Approve
  <2>5. SameBase(mem[p], mem'[p])
    BY <2>3, <2>4 DEF SameBase
  <2>6. p \in up /\ UNCHANGED <<up, loop, db>>
    BY <2>1 DEF Approve
  <2>7. Follows(mem[p], mem'[p], forth)
    BY <1>2, <2>5, SameFollows
  <2>8. QED BY <1>2, <2>6, <2>7, Forward
<1>7. CASE \E a \in mem[p].approvals : Reject(p, a)
  <2>1. PICK a \in mem[p].approvals : Reject(p, a)
    BY <1>7
  <2>2. a \in Request
    BY <1>1 DEF Memory
  <2>3. mem'[p] = Unstage(mem[p], a) /\ p \in up /\ UNCHANGED <<up, loop, db>>
    BY <2>1 DEF Reject, outside, TypeOK
  <2>4. SameBase(mem[p], mem'[p])
    BY <1>1, <2>2, <2>3, KeepsBase
  <2>5. Follows(mem[p], mem'[p], forth)
    BY <1>2, <2>4, SameFollows
  <2>6. QED BY <1>2, <2>3, <2>5, Forward
<1>8. CASE \/ Lead(p) \/ Flattening(p)
           \/ \E r \in sending[p].waiting : Reaches(p, r) \/ Refused(p, r)
           \/ \E r \in working, price \in Prices : Adopt(p, r, price)
  <2>1. UNCHANGED <<up, mem, loop>> /\ db'.pipe = db.pipe
    BY <1>8 DEF Lead, Flattening, Flatten, Flattens, FlattenRefused, Reaches, Refused, Leaves, Adopt,
                outside, TypeOK, Tables
  <2>2. QED BY <1>2, <2>1, Aside
<1>9. CASE \E onWire \in SUBSET sending[p].waiting : Crash(p, onWire)
  <2>1. up' = {} /\ loop'[p].at = "idle" /\ UNCHANGED db
    BY <1>1, <1>9 DEF Crash, LoopTo, At, TypeOK
  <2>2. QED BY <1>1, <1>2, <2>1 DEF BaseInv
<1>10. CASE SquareOff(p)
  <2>1. p \in up /\ UNCHANGED <<up, db>> /\ mem' = [mem EXCEPT ![p] = mem[p]]
    BY <1>10 DEF SquareOff, MayTick, Take
  <2>2. mem'[p] = mem[p]
    BY <2>1 DEF TypeOK
  <2>3. loop'[p].at = "squaring"
    BY <1>10 DEF SquareOff, LoopTo, Awaiting, TypeOK
  <2>4. QED BY <1>2, <2>1, <2>2, <2>3, Forward
<1>11. QED
  BY <1>2, <1>4, <1>5, <1>6, <1>7, <1>8, <1>9, <1>10, TickForward, BootBase DEF Step, Flattening

LEMMA NextBase ==
  ASSUME TypeOK, TypeOK', NEW forth \in BOOLEAN, BaseInv(forth), forth => ~mixed', Alone, [Next]_vars
  PROVE  /\ BaseInv(forth)' /\ Follows(db.pipe, db'.pipe, forth)
         /\ up' # up => db'.pipe.day = db.pipe.day /\ db'.pipe.sod = db.pipe.sod
<1>1. Follows(db.pipe, db.pipe, forth)
  BY FollowsSelf, Numbers
<1>2. ASSUME NEW o \in Operators, NEW p \in Processes, NEW ask \in Asks, Ask(o, p, ask)
      PROVE  BaseInv(forth)'
  <2>1. p \in up /\ UNCHANGED <<up, loop, db>> /\ mem'[p] = Applied(mem[p], ask)
    BY <1>2 DEF Ask, TypeOK
  <2>2. mem[p] \in Memory /\ Numeric(mem[p])
    BY <2>1, Numbers DEF TypeOK
  <2>3. SameBase(mem[p], mem'[p])
    BY <2>1, <2>2 DEF Applied, SameBase, Asks, Modes, Memory
  <2>4. Follows(mem[p], mem'[p], forth)
    BY <2>2, <2>3, FollowsSelf, SameFollows
  <2>5. QED BY <2>1, <2>4, Forward
<1>3. ASSUME NEW o \in Operators, Commit(o) \/ Answer(o) \/ Fail(o)
      PROVE  BaseInv(forth)' /\ db'.pipe = db.pipe
  <2>1. UNCHANGED <<up, mem, loop>>
    BY <1>3 DEF Commit, Answer, Fail, outside
  <2>2. CASE Commit(o)
    <3>1. db \in Tables /\ control[o].ask \in Asks /\ db' = Applied(db, control[o].ask)
      BY <2>2 DEF Commit, Stored, TypeOK, Control
    <3>2. db'.pipe = db.pipe
      BY <3>1 DEF Applied, Asks, Modes, Tables
    <3>3. QED BY <2>1, <3>2, Aside
  <2>3. CASE Answer(o) \/ Fail(o)
    BY <2>1, <2>3, Aside DEF Answer, Fail
  <2>4. QED BY <1>3, <2>2, <2>3
<1>4. ASSUME NEW price \in Prices, NEW day \in 1..MaxDays, Candle(price, day)
      PROVE  BaseInv(forth)' /\ UNCHANGED <<db, up>>
  BY <1>4, Aside DEF Candle
<1>5. ASSUME NEW r \in working, Gone(r) PROVE BaseInv(forth)' /\ UNCHANGED <<db, up>>
  BY <1>5, Aside DEF Gone
<1>6. CASE UNCHANGED vars
  BY <1>1, <1>6, Aside DEF vars, outside
<1>7. ASSUME NEW o \in Operators, Operate(o)
      PROVE  BaseInv(forth)' /\ db'.pipe = db.pipe /\ up' = up
  BY <1>2, <1>3, <1>7 DEF Operate, Ask, Commit, Answer, Fail, outside
<1>8. QED
  BY <1>1, <1>4, <1>5, <1>6, <1>7, ServiceBase DEF Next

\* A tick that went back is not forgotten.
LEMMA MixedStays == ASSUME [Next]_vars, ~mixed' PROVE ~mixed
<1>1. ASSUME NEW p \in Processes, Step(p) PROVE ~mixed
  BY <1>1 DEF Step, TickIdle, TickOther, TickSignal, Observes, TickSent, StoreMarks, StoreState,
    StoreFails, SquareOff, SquaredOff, Reaches, Refused, Leaves, Flatten, Flattens, FlattenRefused,
    Approve, Reject, Boot, Lead, Crash, Adopt, history
<1>2. QED BY <1>1 DEF Next, Operate, Ask, Commit, Answer, Fail, Candle, Gone, vars, history

\* With one process: a start leaves the stored day and its opening equity as they
\* are and the stored peak never falls, whatever days the candles of the watched
\* symbols are of; while no tick goes back to an earlier day, the stored day does not
\* either and its opening equity is stored once: through any number of restarts and
\* failing writes, for all prices and limits.
THEOREM BaselinesOutlive == Alone => (Spec => BaselinesSurvive)
<1> SUFFICES ASSUME Alone PROVE Spec => BaselinesSurvive
  OBVIOUS
<1> DEFINE Kept == /\ db'.pipe.peak >= db.pipe.peak
                   /\ up' # up => db'.pipe.day = db.pipe.day /\ db'.pipe.sod = db.pipe.sod
                   /\ ~mixed' => /\ db'.pipe.day >= db.pipe.day
                                 /\ db'.pipe.day = db.pipe.day => db'.pipe.sod = db.pipe.sod
           Inv == BaseInv(FALSE) /\ (~mixed => BaseInv(TRUE))
<1>1. ASSUME TypeOK, Inv, [Next]_vars PROVE TypeOK' /\ Inv' /\ Kept
  <2>1. TypeOK' /\ (~mixed' => ~mixed)
    BY <1>1, NextTyped, MixedStays
  <2>2. /\ BaseInv(FALSE)' /\ Follows(db.pipe, db'.pipe, FALSE)
        /\ up' # up => db'.pipe.day = db.pipe.day /\ db'.pipe.sod = db.pipe.sod
    BY <1>1, <2>1, NextBase
  <2>3. ~mixed' => BaseInv(TRUE)' /\ Follows(db.pipe, db'.pipe, TRUE)
    BY <1>1, <2>1, NextBase
  <2>4. QED BY <2>1, <2>2, <2>3 DEF Follows
<1>2. Init => TypeOK /\ Inv
  <2>1. ASSUME Init, NEW forth \in BOOLEAN PROVE BaseInv(forth)
    BY <2>1 DEF Init, BaseInv, At
  <2>2. QED BY <2>1, InitType
<1>3. TypeOK /\ Inv /\ [Next]_vars => TypeOK' /\ Inv' /\ [Kept]_vars
  BY <1>1
<1>4. QED BY <1>2, <1>3, PTL DEF Spec, BaselinesSurvive

-----------------------------------------------------------------------------
(* Exits that waited                                                       *)

\* Where risk requires a stop, an order without one that it lets pass reduces.
LEMMA StoplessReduces ==
  ASSUME Limits.requireStop, NEW m \in Memory, NEW b \in Portfolio, NEW r \in Request, ~r.hasStop,
         NEW context, Evaluate(r, Account(m, b), context) # 0
  PROVE  PureReduction(r, b.held)
<1>1. Account(m, b).held = b.held
  BY AccountTyped
<1>2. StateRefuses(r, Account(m, b), context)
  BY DEF StateRefuses
<1>3. QED BY <1>1, <1>2 DEF Evaluate, Opened

LEMMA ExitStep ==
  ASSUME Limits.requireStop, TypeOK, ExitInv, [Next]_vars
  PROVE  \A q \in Processes : \A r \in TakenBy(q) :
           r.by = "strategy" /\ ~r.hasStop => PureReduction(r, book[q].held)
<1> DEFINE Reduces == \A q \in Processes : \A r \in TakenBy(q) :
                        r.by = "strategy" /\ ~r.hasStop => PureReduction(r, book[q].held)
<1>1. CASE UNCHANGED sending
  BY <1>1, Silent
<1>2. ASSUME NEW p \in Processes, NEW r \in Signals(Marked(book[p])),
             NEW context \in Contexts(Observed(mem[p], book[p])), TickSignal(p, r, context)
      PROVE  Reduces
  <2> DEFINE m == Observed(mem[p], book[p])
             b == Marked(book[p])
             quantity == Evaluate(r, Account(m, b), context)
             approved == [r EXCEPT !.quantity = quantity]
  <2>1. /\ m \in Memory /\ b \in Portfolio /\ r \in Request /\ quantity \in Nat
        /\ quantity > 0 => approved \in Request
        /\ PureReduction(r, b.held) => quantity = r.quantity
    BY <1>2, SignalStep
  <2>2. b.held = book[p].held
    BY Observing DEF TypeOK
  <2>3. UNCHANGED sending \/ (quantity > 0 /\ Submit(p, m, approved))
    BY <1>2 DEF TickSignal, BarEnds
  <2>4. quantity > 0 => /\ approved.quantity = quantity /\ approved.side = r.side
                        /\ approved.hasStop = r.hasStop
    BY <2>1 DEF Request
  <2>5. quantity > 0 /\ ~r.hasStop => PureReduction(r, b.held)
    BY <2>1, StoplessReduces
  <2> HIDE DEF m, b, quantity, approved
  <2>6. CASE quantity > 0 /\ Submit(p, m, approved)
    <3>1. ~approved.hasStop => PureReduction(approved, book[p].held)
      BY <2>1, <2>2, <2>4, <2>5, <2>6 DEF PureReduction, ReducingQuantity
    <3>2. \A q \in Processes : TakenBy(q) \subseteq (IF q = p THEN {approved} ELSE {})
      BY <2>1, <2>6, Sends
    <3>3. QED BY <3>1, <3>2
  <2>7. QED BY <1>1, <2>3, <2>6
<1>3. ASSUME NEW p \in Processes, NEW a \in mem[p].approvals, NEW context \in Contexts(mem[p]),
             Approve(p, a, context)
      PROVE  Reduces
  <2> DEFINE m == Unstage(mem[p], a)
  <2>1. mem[p] \in Memory /\ book[p] \in Portfolio /\ a \in Request
    BY DEF TypeOK, Memory
  <2>2. m \in Memory
    BY <2>1, StageTyped
  <2>3. UNCHANGED sending \/ (Evaluate(a, Account(m, book[p]), context) > 0 /\ Submit(p, m, a))
    BY <1>3 DEF Approve, Recheck
  <2> HIDE DEF m
  <2>4. CASE Evaluate(a, Account(m, book[p]), context) > 0 /\ Submit(p, m, a)
    <3>1. ~a.hasStop => PureReduction(a, book[p].held)
      BY <2>1, <2>2, <2>4, StoplessReduces
    <3>2. \A q \in Processes : TakenBy(q) \subseteq (IF q = p THEN {a} ELSE {})
      BY <2>1, <2>2, <2>4, Sends
    <3>3. QED BY <3>1, <3>2
  <2>5. QED BY <1>1, <2>3, <2>4
<1>4. ASSUME NEW p \in Processes, Step(p) PROVE Reduces
  <2>1. CASE \/ SquareOff(p) \/ SquaredOff(p) \/ Flattening(p)
             \/ \E r \in sending[p].waiting : Reaches(p, r) \/ Refused(p, r)
             \/ \E onWire \in SUBSET sending[p].waiting : Crash(p, onWire)
    <3>1. \A q \in Processes : \A r \in TakenBy(q) : r.by = "close"
      BY <2>1, OnlyClosing DEF ExitInv
    <3>2. QED BY <3>1
  <2>2. QED BY <1>1, <1>2, <1>3, <1>4, <2>1
    DEF Step, Flattening, TickIdle, TickOther, BarEnds, TickSent, StoreMarks, StoreState, StoreFails,
        Reject, Boot, Lead, Adopt
<1>5. ASSUME NEW o \in Operators, Operate(o) PROVE Reduces
  BY <1>1, <1>5 DEF Operate, Ask, Commit, Answer, Fail
<1>6. QED
  BY <1>1, <1>4, <1>5 DEF Next, Candle, Gone, vars

\* Where risk requires a stop, as it does in production, an exit of the strategy that
\* the order manager takes, at once or after it waited for approval, never turns the
\* position: for any number of processes and whatever was filled meanwhile.
THEOREM ExitsReduce == Limits.requireStop => (Spec => ExitsNeverFlip)
<1> SUFFICES ASSUME Limits.requireStop PROVE Spec => ExitsNeverFlip
  OBVIOUS
<1> DEFINE Reduces ==
      \A p \in Processes : \A r \in TakenBy(p) :
        r.by = "strategy" /\ ~r.hasStop /\ Out = {} => PureReduction(r, book[p].held)
<1>1. TypeOK /\ ExitInv /\ [Next]_vars => TypeOK' /\ ExitInv' /\ [Reduces]_vars
  BY NextTyped, NextExit, ExitStep
<1>2. QED BY <1>1, InitType, InitExit, PTL DEF Spec, ExitsNeverFlip

-----------------------------------------------------------------------------
(* The equity a restart finds                                              *)

OneProcess == \A p, q \in Processes : p = q

\* While no fill came since, the tables add up to the equity last stored; a
\* process's books are those of the tables, and every position has a mark.
RestartInv ==
  /\ settled.known => Equity(Replayed) = settled.equity
  /\ db.held # 0 => db.fill # 0
  /\ \A p \in up : /\ book[p].cash = db.cash /\ book[p].held = db.held
                   /\ book[p].held # 0 => book[p].last # 0
                   /\ loop[p].at = "marks" => book[p].held # 0
  /\ \A p \in Processes \ up : loop[p].at = "idle"

LEMMA ReplayIs ==
  ASSUME db \in Tables
  PROVE  /\ Replayed \in Portfolio /\ Replayed.cash = db.cash /\ Replayed.held = db.held
         /\ Replayed.last = IF db.last = 0 THEN db.fill ELSE IF db.held = 0 THEN 0 ELSE db.last
  BY DEF Replayed, Remarked, MarkedAt, Tables, Portfolio

\* The part of the tables a replay reads.
SameBooks == db'.cash = db.cash /\ db'.held = db.held /\ db'.last = db.last /\ db'.fill = db.fill

LEMMA SameReplay ==
  ASSUME db \in Tables, db' \in Tables, SameBooks PROVE Equity(Replayed)' = Equity(Replayed)
  BY DEF Replayed, Remarked, MarkedAt, Equity, SameBooks

LEMMA NothingStored ==
  ASSUME TypeOK, TypeOK', RestartInv, SameBooks, UNCHANGED <<settled, up>>,
         \A p \in up : /\ book'[p].cash = book[p].cash /\ book'[p].held = book[p].held
                       /\ book[p].held # 0 => book'[p].last # 0
                       /\ loop'[p].at = "marks" => loop[p].at = "marks" \/ book[p].held # 0,
         \A p \in Processes \ up : loop'[p] = loop[p]
  PROVE  RestartInv'
<1>1. settled'.known => Equity(Replayed)' = settled'.equity
  BY SameReplay DEF RestartInv, TypeOK
<1>2. QED BY <1>1 DEF RestartInv, SameBooks

LEMMA RestartService ==
  ASSUME TypeOK, TypeOK', OneProcess, RestartInv, NEW p \in Processes, Step(p)
  PROVE  RestartInv' /\ \A q \in up' \ up : settled.known => Equity(book'[q]) = settled.equity
<1>1. mem[p] \in Memory /\ book[p] \in Portfolio /\ db \in Tables /\ db' \in Tables
      /\ book \in [Processes -> Portfolio] /\ loop \in [Processes -> Place]
  BY DEF TypeOK
<1>2. Processes = {p} /\ (up = {} \/ up = {p})
  BY DEF OneProcess, TypeOK
<1> DEFINE b == Marked(book[p])
<1>3. /\ b \in Portfolio /\ b.cash = book[p].cash /\ b.held = book[p].held
      /\ book[p].held # 0 => b.last # 0
  <2>1. market.price \in Prices /\ market.price # 0
    BY EnvironmentAssumption DEF TypeOK
  <2>2. QED BY <1>1, <2>1 DEF Marked, MarkedAt, Portfolio
<1> HIDE DEF b
<1>4. \A m : Snapshot(m, b).at = "marks" => book[p].held # 0
  BY <1>3 DEF Snapshot, Storing
\* What a tick leaves, whatever it decides.
<1>5. ASSUME p \in up, UNCHANGED <<up, db, settled>>, book' = [book EXCEPT ![p] = b],
             NEW m, NEW r, LoopTo(p, Snapshot(m, b)) \/ LoopTo(p, Awaiting("sent", r))
      PROVE  RestartInv' /\ up' \ up = {}
  <2>1. book'[p] = b /\ (loop'[p].at = "marks" => book[p].held # 0)
    BY <1>1, <1>4, <1>5 DEF LoopTo, Awaiting
  <2>2. QED BY <1>2, <1>3, <1>5, <2>1, NothingStored DEF SameBooks
<1>6. CASE TickIdle(p)
  BY <1>5, <1>6 DEF TickIdle, MayTick, Observes, BarEnds, b
<1>16. CASE \E day \in 1..MaxDays : TickOther(p, day)
  <2>1. PICK day \in 1..MaxDays : TickOther(p, day)
    BY <1>16
  <2>2. /\ p \in up /\ UNCHANGED <<up, db, settled>> /\ book' = [book EXCEPT ![p] = book[p]]
        /\ \E m : LoopTo(p, Snapshot(m, book[p]))
    BY <2>1 DEF TickOther, MayTick, Observes, BarEnds
  <2>3. book'[p] = book[p] /\ (loop'[p].at = "marks" => book[p].held # 0)
    BY <1>1, <2>2 DEF LoopTo, Snapshot, Storing
  <2>4. QED BY <1>2, <2>2, <2>3, NothingStored DEF SameBooks, RestartInv
<1>17. CASE StoreFails(p) \/ SquareOff(p) \/ SquaredOff(p)
  <2>1. p \in up /\ UNCHANGED <<up, db, settled, book>> /\ loop'[p].at # "marks"
    BY <1>1, <1>17 DEF StoreFails, SquareOff, SquaredOff, MayTick, LoopTo, At, Awaiting, outside, history
  <2>2. QED BY <1>2, <2>1, NothingStored DEF SameBooks, RestartInv
<1>7. CASE \E r \in Signals(Marked(book[p])), c \in Contexts(Observed(mem[p], book[p])) : TickSignal(p, r, c)
  BY <1>5, <1>7 DEF TickSignal, MayTick, Observes, BarEnds, b
<1>8. CASE TickSent(p)
  <2>1. loop'[p].at = "marks" => book[p].held # 0
    BY <1>1, <1>8 DEF TickSent, LoopTo, Snapshot, Storing
  <2>2. QED BY <1>2, <1>8, <2>1, NothingStored DEF TickSent, outside, history, SameBooks, RestartInv
<1>9. CASE StoreMarks(p)
  <2>1. /\ p \in up /\ UNCHANGED <<up, book>> /\ settled' = [equity |-> Equity(book[p]), known |-> TRUE]
        /\ db' = [db EXCEPT !.last = book[p].last] /\ loop[p].at = "marks"
    BY <1>9 DEF StoreMarks, Settles, outside
  <2>2. db'.last = book[p].last /\ db'.cash = db.cash /\ db'.held = db.held /\ db'.fill = db.fill
    BY <1>1, <2>1 DEF Tables
  <2>3. book[p].held # 0 /\ book[p].last # 0 /\ book[p].cash = db.cash /\ book[p].held = db.held
    BY <2>1 DEF RestartInv
  <2>4. /\ Replayed'.last = book[p].last /\ Replayed'.cash = book[p].cash
        /\ Replayed'.held = book[p].held
    <3>1. /\ Replayed'.cash = db'.cash /\ Replayed'.held = db'.held
          /\ Replayed'.last = IF db'.last = 0 THEN db'.fill ELSE IF db'.held = 0 THEN 0 ELSE db'.last
      BY <1>1 DEF Replayed, Remarked, MarkedAt, Tables
    <3>2. QED BY <2>2, <2>3, <3>1
  <2>5. Equity(Replayed)' = Equity(book[p])
    BY <2>4 DEF Equity
  <2>6. loop'[p].at = "state"
    BY <1>1, <1>9 DEF StoreMarks, LoopTo, Storing
  <2>7. RestartInv'
    BY <1>2, <2>1, <2>2, <2>5, <2>6 DEF RestartInv
  <2>8. QED BY <2>1, <2>7
<1>10. CASE StoreState(p)
  <2>1. /\ p \in up /\ UNCHANGED <<up, book>> /\ db' = [db EXCEPT !.pipe = loop[p].pipe]
        /\ loop'[p].at = "idle"
    BY <1>1, <1>10 DEF StoreState, LoopTo, At, outside
  <2>2. SameBooks
    BY <1>1, <2>1 DEF SameBooks, Tables
  <2>3. CASE book[p].held # 0
    BY <1>2, <1>10, <2>1, <2>2, <2>3, NothingStored DEF StoreState, RestartInv
  <2>4. CASE book[p].held = 0
    <3>1. settled' = [equity |-> Equity(book[p]), known |-> TRUE]
      BY <1>10, <2>4 DEF StoreState, Settles
    <3>2. db.held = 0 /\ db.cash = book[p].cash
      BY <2>1, <2>4 DEF RestartInv
    <3>3. Equity(Replayed) = db.cash /\ Equity(book[p]) = book[p].cash
      <4>1. \A price \in Prices \cup {0} : price \in Int
        BY EnvironmentAssumption
      <4>2. Replayed \in Portfolio /\ Replayed.cash = db.cash /\ Replayed.held = db.held
        BY <1>1, ReplayIs
      <4>3. Replayed.last \in Int /\ book[p].last \in Int
        BY <1>1, <4>1, <4>2 DEF Portfolio
      <4>4. db.cash \in Int /\ book[p].cash \in Int
        BY <1>1 DEF Tables, Portfolio
      <4>5. QED BY <2>4, <3>2, <4>2, <4>3, <4>4 DEF Equity
    <3>4. Equity(Replayed)' = Equity(book[p])
      BY <1>1, <2>2, <3>2, <3>3, SameReplay
    <3>5. RestartInv'
      BY <1>2, <2>1, <2>2, <3>1, <3>4 DEF RestartInv, SameBooks
    <3>6. QED BY <2>1, <3>5
  <2>5. QED BY <2>3, <2>4
<1>11. CASE (\E a \in mem[p].approvals, c \in Contexts(mem[p]) : Approve(p, a, c))
            \/ (\E a \in mem[p].approvals : Reject(p, a)) \/ Lead(p) \/ Flattening(p)
            \/ (\E r \in sending[p].waiting : Reaches(p, r) \/ Refused(p, r))
  <2>1. UNCHANGED <<up, db, settled, book, loop>>
    BY <1>11 DEF Approve, Reject, Lead, Flattening, Flatten, Flattens, FlattenRefused, Reaches,
                 Refused, Leaves, outside, history
  <2>2. QED BY <2>1, NothingStored DEF SameBooks, RestartInv
<1>12. CASE Boot(p)
  <2>1. /\ up = {} /\ up' = {p} /\ UNCHANGED loop /\ book' = [book EXCEPT ![p] = Replayed]
        /\ settled' = [equity |-> Equity(Replayed), known |-> TRUE]
        /\ \E m : db' = [db EXCEPT !.pipe = Captured(m),
                                   !.last = IF Replayed.held = 0 THEN @ ELSE Replayed.last]
    BY <1>2, <1>12 DEF Boot
  <2>2. book'[p] = Replayed /\ loop'[p].at = "idle"
    BY <1>1, <2>1 DEF RestartInv
  <2>3. /\ db'.cash = db.cash /\ db'.held = db.held /\ db'.fill = db.fill
        /\ db'.last = IF Replayed.held = 0 THEN db.last ELSE Replayed.last
    BY <1>1, <2>1 DEF Tables
  <2>4. /\ Replayed'.cash = db'.cash /\ Replayed'.held = db'.held
        /\ Replayed'.last = IF db'.last = 0 THEN db'.fill ELSE IF db'.held = 0 THEN 0 ELSE db'.last
    BY <1>1 DEF Replayed, Remarked, MarkedAt, Tables
  <2>5. Replayed'.cash = Replayed.cash /\ Replayed'.held = Replayed.held /\ Replayed'.last = Replayed.last
    BY <1>1, <2>3, <2>4, ReplayIs
  <2>6. Equity(Replayed)' = Equity(Replayed)
    BY <2>5 DEF Equity
  <2>7. Replayed.held # 0 => Replayed.last # 0
    BY <1>1, ReplayIs DEF RestartInv
  <2>8. RestartInv'
    BY <1>1, <1>2, <2>1, <2>2, <2>3, <2>6, <2>7, ReplayIs DEF RestartInv
  <2>9. QED BY <2>1, <2>2, <2>8 DEF RestartInv
<1>13. CASE \E onWire \in SUBSET sending[p].waiting : Crash(p, onWire)
  <2>1. up = {p} /\ up' = {} /\ UNCHANGED <<db, settled>> /\ loop'[p].at = "idle"
    BY <1>1, <1>2, <1>13 DEF Crash, LoopTo, At, history
  <2>2. RestartInv'
    BY <1>1, <1>2, <2>1, SameReplay DEF RestartInv, SameBooks
  <2>3. QED BY <2>1, <2>2
<1>14. CASE \E r \in working, price \in Prices : Adopt(p, r, price)
  <2>1. PICK r \in working, price \in Prices : Adopt(p, r, price)
    BY <1>14
  <2>2. /\ p \in up /\ UNCHANGED <<up, loop>> /\ loop[p].at = "idle"
        /\ book' = [book EXCEPT ![p] = Filled(book[p], r, price)]
        /\ db' = [db EXCEPT !.cash = @ - Signed(r) * price, !.held = @ + Signed(r), !.fill = price]
        /\ settled' = [settled EXCEPT !.known = FALSE]
    BY <1>1, <2>1 DEF Adopt
  <2>3. price # 0
    BY EnvironmentAssumption
  <2>4. /\ db'.cash = db.cash - Signed(r) * price /\ db'.held = db.held + Signed(r) /\ db'.fill = price
        /\ ~settled'.known
    BY <1>1, <2>2 DEF Tables, TypeOK
  <2>5. /\ Filled(book[p], r, price).cash = book[p].cash - Signed(r) * price
        /\ Filled(book[p], r, price).held = book[p].held + Signed(r)
        /\ Filled(book[p], r, price).held # 0 => Filled(book[p], r, price).last = price
    BY <1>1 DEF Filled, MarkedAt, Portfolio
  <2>6. book'[p] = Filled(book[p], r, price)
    BY <1>1, <2>2
  <2>7. RestartInv'
    BY <1>2, <2>2, <2>3, <2>4, <2>5, <2>6 DEF RestartInv
  <2>8. QED BY <2>2, <2>7
<1>15. QED
  BY <1>6, <1>7, <1>8, <1>9, <1>10, <1>11, <1>12, <1>13, <1>14, <1>16, <1>17 DEF Step, Flattening

LEMMA RestartStep ==
  ASSUME TypeOK, TypeOK', OneProcess, RestartInv, [Next]_vars
  PROVE  RestartInv' /\ \A q \in up' \ up : settled.known => Equity(book'[q]) = settled.equity
<1>1. ASSUME UNCHANGED <<up, book, loop, settled>>, SameBooks PROVE RestartInv' /\ up' \ up = {}
  BY <1>1, NothingStored DEF RestartInv
<1>2. ASSUME NEW o \in Operators, Operate(o) PROVE UNCHANGED <<up, book, loop, settled>> /\ SameBooks
  <2>1. UNCHANGED <<up, book, loop, settled>> /\ (UNCHANGED db \/ Commit(o))
    BY <1>2 DEF Operate, Ask, Commit, Answer, Fail, outside, history
  <2>2. Commit(o) => SameBooks
    BY DEF Commit, Stored, Applied, SameBooks, TypeOK, Tables
  <2>3. QED BY <2>1, <2>2 DEF SameBooks
<1>3. CASE \E price \in Prices, day \in 1..MaxDays : Candle(price, day)
  BY <1>1, <1>3 DEF Candle, history, SameBooks
<1>4. CASE \E r \in working : Gone(r)
  BY <1>1, <1>4 DEF Gone, history, SameBooks
<1>5. CASE UNCHANGED vars
  BY <1>1, <1>5 DEF vars, outside, history, SameBooks
<1>6. QED
  BY <1>1, <1>2, <1>3, <1>4, <1>5, RestartService DEF Next

\* With one process: a restart finds the equity that was last stored, unless a
\* fill came since, for all prices and positions, whatever step the process died
\* at.
THEOREM RestartFindsEquity == OneProcess => (Spec => RestartKeepsEquity)
<1> SUFFICES ASSUME OneProcess PROVE Spec => RestartKeepsEquity
  OBVIOUS
<1> DEFINE Found == \A p \in up' \ up : settled.known => Equity(book'[p]) = settled.equity
<1>1. TypeOK /\ RestartInv /\ [Next]_vars => TypeOK' /\ RestartInv' /\ [Found]_vars
  BY NextTyped, RestartStep
<1>2. Init => RestartInv
  <2> SUFFICES ASSUME Init PROVE RestartInv
    OBVIOUS
  <2>1. PICK mode \in Modes \ {"APPROVAL"}, held \in OpeningHeld : db = Left(mode, held, market.price)
    BY DEF Init
  <2>2. market.price \in Nat \ {0} /\ held \in Int /\ OpeningCash \in Int
    <3>1. market.price \in Prices
      BY DEF Init
    <3>2. \A price \in Prices : price \in Nat \ {0}
      BY EnvironmentAssumption
    <3>3. held \in Int
      BY EnvironmentAssumption
    <3>4. OpeningCash \in Int
      BY EnvironmentAssumption
    <3>5. QED BY <3>1, <3>2, <3>3, <3>4
  <2>3. /\ db.held = held /\ db.cash = OpeningCash - held * market.price
        /\ db.last = (IF held = 0 THEN 0 ELSE market.price) /\ db.fill = db.last
    BY <2>1 DEF Left
  <2>4. /\ Replayed.cash = db.cash /\ Replayed.held = held /\ Replayed.last = db.last
    BY <2>2, <2>3, InitType, ReplayIs DEF TypeOK
  <2>5. Equity(Replayed) = OpeningCash
    <3>1. CASE held = 0
      BY <2>2, <2>3, <2>4, <3>1 DEF Equity
    <3>2. CASE held # 0
      <4>1. PICK value \in Int : value = held * market.price
        BY <2>2
      <4>2. Replayed.cash = OpeningCash - value /\ Replayed.held * Replayed.last = value
        BY <2>3, <2>4, <3>2, <4>1
      <4>3. QED BY <2>2, <4>2 DEF Equity
    <3>3. QED BY <3>1, <3>2
  <2>6. QED BY <2>2, <2>3, <2>5 DEF Init, RestartInv, At
<1>3. QED BY <1>1, <1>2, InitType, PTL DEF Spec, RestartKeepsEquity
=============================================================================
