--------------------------- MODULE TradingPipeline ---------------------------
(***************************************************************************)
(* The decision path and the operator's controls: TradingPipeline          *)
(* (pipeline/tradingPipeline.ts), the part of TradingService               *)
(* (runtime/tradingService.ts) that starts it, feeds it and stores its     *)
(* state, and the control routes of the API (api/server.ts).               *)
(*                                                                         *)
(* One symbol is traded; the others are watched, and matter by the day of  *)
(* their latest candle.  The strategy is a free choice.  An order that the *)
(* order manager took waits for the connector's rate limit and for its     *)
(* retries before it is out at the exchange; nothing is asked again in     *)
(* between.  The candles, the leader and the exchange are the environment; *)
(* fills are adopted by the reconciler between two ticks of the leader.    *)
(* TradingLedger takes those steps apart; here they are whole.  The        *)
(* consecutive-loss breaker stays at zero: only TradingService.applyFill   *)
(* feeds it, which no production code calls.                               *)
(***************************************************************************)
EXTENDS RiskControls, FiniteSets

CONSTANTS
  Processes,    \* processes that run a TradingService
  Operators,    \* whose requests to the control routes overlap
  Nobody,       \* no leader
  NoPipe,       \* nothing captured
  NoOrder,      \* no exit asked for
  Sides,        \* of the strategy's entries: BUY for a long, SELL for a short
  Prices, Distances,  \* of candles and fills; from an entry to its stop
  OpeningCash, OpeningHeld,  \* the equity and the positions an earlier run may have left
  MaxBars, MaxDays, MaxCrashes, MaxRequests, MaxOrders  \* bounds

ASSUME EnvironmentAssumption ==
  /\ Sides \subseteq {"BUY", "SELL"}
  /\ Prices \subseteq Nat \ {0} /\ Distances \subseteq Nat \ {0}
  /\ OpeningCash \in Nat /\ OpeningHeld \subseteq Int
ASSUME NobodyAssumption == Nobody \notin Processes
ASSUME BoundsAssumption ==
  /\ {MaxBars, MaxDays} \subseteq Nat \ {0} /\ {MaxCrashes, MaxRequests, MaxOrders} \subseteq Nat

VARIABLES
  market,   \* the latest candle: [bar, day, price]
  leader,
  up,
  mem,      \* per process: what the pipeline and the kill switch hold in memory
  book,     \* per process: the portfolio, [cash, held, last]
  loop,     \* per process: where its tick is, and the order it awaits or state it will store
  sending,  \* per process: [waiting, exit], the orders the order manager took and has not
            \* sent yet, and the exit that an operator asked for
  control,  \* per operator: the request under way and whether its write is committed
  db,       \* runtime_state, position and fill tables
  working,  \* orders that reached the exchange and are not filled or gone
  spent,    \* [crashes, requests, orders]
  halted,   \* history: a stop was answered, and no release asked for since
  manual,   \* history: a mode other than AUTOMATIC was answered, and no change asked since
  settled,  \* history: the equity last stored, and whether no fill came since
  blocked,  \* history: risk refused an order that only reduces
  mixed     \* history: a candle of an earlier day was ticked after one of a later day

outside == <<market, leader, up, working, spent>>
history == <<halted, manual, settled, blocked, mixed>>
vars    == <<outside, mem, book, loop, sending, control, db, history>>

Modes == {"MANUAL", "APPROVAL", "AUTOMATIC"}

-----------------------------------------------------------------------------
(* The account                                                             *)

\* Without a position there is no mark (last is 0).
Equity(b) == b.cash + b.held * b.last

\* buildAccountState, and computeExposure for the one symbol.
Account(m, b) ==
  LET value == b.held * b.last
  IN  [equity |-> Equity(b), cash |-> b.cash, sod |-> m.sod, peak |-> m.peak, held |-> b.held,
       symbol |-> AbsOf(value), gross |-> AbsOf(value), net |-> value,
       open |-> IF b.held = 0 THEN 0 ELSE 1, losses |-> 0]

MarkedAt(b, price) == [b EXCEPT !.last = IF b.held = 0 THEN 0 ELSE price]

\* Portfolio.applyFill, without commission.
Filled(b, r, price) ==
  MarkedAt([b EXCEPT !.cash = @ - Signed(r) * price, !.held = @ + Signed(r)], price)

-----------------------------------------------------------------------------
(* A tick: TradingPipeline.onBar up to the broker                          *)

\* rollDay, to the day of the candle, whichever it is, before the mark; then the
\* peak; then checkHaltConditions.
Rolled(m, b, day) == IF m.day = day THEN m ELSE [m EXCEPT !.day = day, !.sod = Equity(b)]
Peaked(m, b)   == [m EXCEPT !.peak = IF Equity(b) > @ THEN Equity(b) ELSE @]
Checked(m, b)  == [m EXCEPT !.stop = @ \/ HaltBreached(Account(m, b))]
Seen(m, b, marked, day) == Checked(Peaked(Rolled(m, b, day), marked), marked)
Marked(b)      == MarkedAt(b, market.price)
Observed(m, b) == Seen(m, b, Marked(b), market.day)

\* buildRequest: FLAT closes what is held, LONG and SHORT open from flat.
Exit(b) == [by |-> "strategy", side |-> Opposite(b.held), quantity |-> AbsOf(b.held),
            hasStop |-> FALSE, ref |-> market.price, bar |-> market.bar]
Entries(b) ==
  {r \in [by : {"strategy"}, side : Sides, hasStop : {TRUE}, ref : {market.price},
          bar : {market.bar}, quantity : {SizePosition(Equity(b), b.cash, market.price, d) : d \in Distances}] :
     r.quantity > 0}
Signals(b) == IF b.held = 0 THEN Entries(b) ELSE {Exit(b)}

\* What a risk check is told besides the account; the session and the rate of
\* orders are free.  No validator is configured, so no data is ever stale.
Contexts(m) == [stop : {m.stop}, open : BOOLEAN, stale : {FALSE}, busy : BOOLEAN]

\* The idempotency key; there is one strategy and one symbol.
Key(r) == <<r.side, r.quantity, r.bar>>

\* The order manager takes an order: from here it is sent, unless it fails.
Take(p, m, r) ==
  /\ spent.orders < MaxOrders
  /\ spent' = [spent EXCEPT !.orders = @ + 1]
  /\ mem' = [mem EXCEPT ![p] = m]
  /\ sending' = [sending EXCEPT ![p].waiting = @ \cup {r}]

\* It refuses a key it knows.
Submit(p, m, r) ==
  Key(r) \notin m.keys /\ Take(p, [m EXCEPT !.keys = @ \cup {Key(r)}], r)

Stage(m, r)   == [m EXCEPT !.approvals = {a \in @ : Key(a) # Key(r)} \cup {r}]
Unstage(m, a) == [m EXCEPT !.approvals = @ \ {a}]

\* snapshot() writes an open position, then the state as it is at that moment.
At(place)      == [at |-> place, pipe |-> NoPipe]
Awaiting(place, r) == [at |-> place, order |-> r]
Captured(m)    == [day |-> m.day, sod |-> m.sod, peak |-> m.peak, approvals |-> m.approvals]
Uncaptured(m)  == [at |-> "state", pipe |-> NoPipe]   \* mutant: nothing is captured
Storing(m)     == [at |-> "state", pipe |-> Captured(m)]
Snapshot(m, b) == IF b.held = 0 THEN Storing(m) ELSE At("marks")
LoopTo(p, l)   == loop' = [loop EXCEPT ![p] = l]

\* The bar ends without an order sent.
BarEnds(p, m, b) ==
  /\ mem' = [mem EXCEPT ![p] = m]
  /\ LoopTo(p, Snapshot(m, b))
  /\ UNCHANGED <<sending, spent>>

Judged(r, b, quantity) == blocked' = (blocked \/ (quantity = 0 /\ PureReduction(r, b.held)))

MayTick(p) == p \in up /\ p = leader /\ loop[p].at = "idle"
Observes(p, m, b) ==
  /\ book' = [book EXCEPT ![p] = b]
  /\ mixed' = (mixed \/ m.day < mem[p].day)
  /\ UNCHANGED <<market, leader, up, working, control, db, halted, manual, settled>>

\* No signal, or one that sizes to zero.
TickIdle(p) ==
  /\ MayTick(p)
  /\ LET m == Observed(mem[p], book[p])
         b == Marked(book[p])
     IN  Observes(p, m, b) /\ BarEnds(p, m, b)
  /\ UNCHANGED blocked

\* The latest candle of another symbol, without a staleness check.
TickOther(p, day) ==
  /\ MayTick(p)
  /\ LET m == Seen(mem[p], book[p], book[p], day)
     IN  Observes(p, m, book[p]) /\ BarEnds(p, m, book[p])
  /\ UNCHANGED blocked

\* A signal: refused by risk or as a duplicate, staged, or taken.
TickSignal(p, r, context) ==
  /\ MayTick(p)
  /\ LET m == Observed(mem[p], book[p])
         b == Marked(book[p])
         quantity == Evaluate(r, Account(m, b), context)
         approved == [r EXCEPT !.quantity = quantity]
     IN  /\ r \in Signals(b) /\ context \in Contexts(m)
         /\ Observes(p, m, b)
         /\ Judged(r, b, quantity)
         /\ \/ quantity = 0 /\ BarEnds(p, m, b)
            \/ quantity > 0 /\ m.mode # "AUTOMATIC" /\ BarEnds(p, Stage(m, approved), b)
            \/ quantity > 0 /\ m.mode = "AUTOMATIC"
               /\ \/ Key(approved) \in m.keys /\ BarEnds(p, m, b)
                  \/ Submit(p, m, approved) /\ LoopTo(p, Awaiting("sent", approved))

\* The order manager has returned and the row is written.
TickSent(p) ==
  /\ p \in up /\ loop[p].at = "sent" /\ loop[p].order \notin sending[p].waiting
  /\ LoopTo(p, Snapshot(mem[p], book[p]))
  /\ UNCHANGED <<outside, mem, book, sending, control, db, history>>

\* Near the close the tick exits what is held, in every mode, without asking risk
\* and under a key of the clock.  (Once a day: TradingLedger has the marker.)
Closing(b) == [Exit(b) EXCEPT !.by = "close"]
SquareOff(p) ==
  /\ MayTick(p) /\ book[p].held # 0
  /\ Take(p, mem[p], Closing(book[p]))
  /\ LoopTo(p, Awaiting("squaring", Closing(book[p])))
  /\ UNCHANGED <<market, leader, up, working, book, control, db, history>>

SquaredOff(p) ==
  /\ p \in up /\ loop[p].at = "squaring" /\ loop[p].order \notin sending[p].waiting
  /\ LoopTo(p, At("idle"))
  /\ UNCHANGED <<outside, mem, book, sending, control, db, history>>

\* An order has waited long enough and reaches the exchange, or is refused for good.
Leaves(p, r) ==
  /\ p \in up /\ r \in sending[p].waiting
  /\ sending' = [sending EXCEPT ![p].waiting = @ \ {r}]
  /\ UNCHANGED <<market, leader, up, spent, mem, book, loop, control, db, history>>
Reaches(p, r) == Leaves(p, r) /\ working' = working \cup {r}
Refused(p, r) == Leaves(p, r) /\ UNCHANGED working

\* The equity that a restart finds.
Settles(p) == settled' = [equity |-> Equity(book[p]), known |-> TRUE]

StoreMarks(p) ==
  /\ p \in up /\ loop[p].at = "marks"
  /\ db' = [db EXCEPT !.last = book[p].last]
  /\ Settles(p)
  /\ LoopTo(p, Storing(mem[p]))
  /\ UNCHANGED <<outside, mem, book, sending, control, halted, manual, blocked, mixed>>

StoreState(p) ==
  /\ p \in up /\ loop[p].at = "state"
  /\ db' = [db EXCEPT !.pipe = loop[p].pipe]
  /\ IF book[p].held = 0 THEN Settles(p) ELSE UNCHANGED settled
  /\ LoopTo(p, At("idle"))
  /\ UNCHANGED <<outside, mem, book, sending, control, halted, manual, blocked, mixed>>

\* A write that throws ends the tick.
StoreFails(p) ==
  /\ p \in up /\ loop[p].at \in {"marks", "state"}
  /\ LoopTo(p, At("idle"))
  /\ UNCHANGED <<outside, mem, book, sending, control, db, history>>

-----------------------------------------------------------------------------
(* The operators                                                           *)

\* approve: the verdict is taken again, the order is the one that was staged.
Trusted(a, account, context) == a.quantity   \* mutant: the staged verdict is trusted
Recheck(a, account, context) == Evaluate(a, account, context)

Approve(p, a, context) ==
  /\ p \in up /\ a \in mem[p].approvals
  /\ context \in Contexts(mem[p])
  /\ LET m == Unstage(mem[p], a)
         quantity == Recheck(a, Account(m, book[p]), context)
     IN  /\ Judged(a, book[p], quantity)
         /\ \/ quantity > 0 /\ Submit(p, m, a)
            \/ /\ quantity = 0 \/ Key(a) \in m.keys
               /\ mem' = [mem EXCEPT ![p] = m] /\ UNCHANGED <<sending, spent>>
  /\ UNCHANGED <<market, leader, up, working, book, loop, control, db, halted, manual,
                 settled, mixed>>

Reject(p, a) ==
  /\ p \in up /\ a \in mem[p].approvals
  /\ mem' = [mem EXCEPT ![p] = Unstage(@, a)]
  /\ UNCHANGED <<outside, book, loop, sending, control, db, history>>

\* The flatten route reads the position, then awaits the open orders, then hands
\* over the exit, in every mode and without asking risk; or refuses.
Flatten(p) ==
  /\ p \in up /\ p = leader /\ sending[p].exit = NoOrder
  /\ book[p].held # 0
  /\ sending' = [sending EXCEPT ![p].exit = Closing(book[p])]
  /\ UNCHANGED <<outside, mem, book, loop, control, db, history>>

Flattens(p) ==
  /\ p \in up /\ sending[p].exit # NoOrder
  /\ spent.orders < MaxOrders
  /\ spent' = [spent EXCEPT !.orders = @ + 1]
  /\ sending' = [sending EXCEPT ![p] =
       [waiting |-> @.waiting \cup {@.exit}, exit |-> NoOrder]]
  /\ UNCHANGED <<market, leader, up, working, mem, book, loop, control, db, history>>

FlattenRefused(p) ==
  /\ p \in up /\ sending[p].exit # NoOrder
  /\ sending' = [sending EXCEPT ![p].exit = NoOrder]
  /\ UNCHANGED <<outside, mem, book, loop, control, db, history>>

\* The routes of the kill switch and the mode: memory at once, then the write.
Asks == {"stop", "release"} \cup Modes
NoRequest == [ask |-> "none", at |-> Nobody, done |-> FALSE, undone |-> FALSE]
\* A later request undoes an earlier one that has not been answered.
Undoes(ask, earlier) == (ask = "release" /\ earlier = "stop") \/ {ask, earlier} \subseteq Modes
Applied(x, ask) ==
  CASE ask = "stop" -> [x EXCEPT !.stop = TRUE]
    [] ask = "release" -> [x EXCEPT !.stop = FALSE]
    [] OTHER -> [x EXCEPT !.mode = ask]

Ask(o, p, ask) ==
  /\ p \in up /\ control[o] = NoRequest
  /\ spent.requests < MaxRequests
  /\ spent' = [spent EXCEPT !.requests = @ + 1]
  /\ mem' = [mem EXCEPT ![p] = Applied(@, ask)]
  /\ control' = [q \in Operators |->
       IF q = o THEN [ask |-> ask, at |-> p, done |-> FALSE, undone |-> FALSE]
       ELSE [control[q] EXCEPT !.undone = @ \/ Undoes(ask, control[q].ask)]]
  /\ halted' = (halted /\ ask # "release")
  /\ manual' = (manual /\ ask \notin Modes)
  /\ UNCHANGED <<market, leader, up, working, book, loop, sending, db, settled, blocked, mixed>>

NoStops(ask) == IF ask = "stop" THEN db ELSE Applied(db, ask)   \* mutant: a stop is not stored
NoModes(ask) == IF ask \in Modes THEN db ELSE Applied(db, ask) \* mutant: a mode is not stored
Stored(ask)  == Applied(db, ask)

Commit(o) ==
  /\ control[o].ask # "none" /\ ~control[o].done
  /\ db' = Stored(control[o].ask)
  /\ control' = [control EXCEPT ![o].done = TRUE]
  /\ UNCHANGED <<outside, mem, book, loop, sending, history>>

Answer(o) ==
  /\ control[o].done
  /\ LET asked == IF control[o].undone THEN "none" ELSE control[o].ask
     IN  /\ halted' = (halted \/ asked = "stop")
         /\ manual' = (manual \/ asked \in Modes \ {"AUTOMATIC"})
  /\ control' = [control EXCEPT ![o] = NoRequest]
  /\ UNCHANGED <<outside, mem, book, loop, sending, db, settled, blocked, mixed>>

\* The write fails, or its answer is lost: 500, and memory keeps what was set.
Fail(o) ==
  /\ control[o].ask # "none"
  /\ control' = [control EXCEPT ![o] = NoRequest]
  /\ UNCHANGED <<outside, mem, book, loop, sending, db, history>>

-----------------------------------------------------------------------------
(* Start, death, and the world outside                                     *)

Fresh   == [mode |-> "MANUAL", stop |-> FALSE, day |-> 0, sod |-> OpeningCash,
            peak |-> OpeningCash, approvals |-> {}, keys |-> {}]
Empty   == [cash |-> OpeningCash, held |-> 0, last |-> 0]
Nothing == [waiting |-> {}, exit |-> NoOrder]

\* The fills are replayed, then marked with the stored position, if there is one.
Unmarked(b) == b   \* mutant: marks are not restored
Remarked(b) == IF db.last = 0 THEN b ELSE MarkedAt(b, db.last)
Replayed    == Remarked([cash |-> db.cash, held |-> db.held, last |-> db.fill])

\* restoreState.  (Before the first snapshot db.pipe is that of a fresh pipeline.)
SameDay(m, b)  ==   \* mutant: the day is not restored
  [m EXCEPT !.sod = db.pipe.sod, !.approvals = db.pipe.approvals,
            !.peak = IF Equity(b) > db.pipe.peak THEN Equity(b) ELSE db.pipe.peak]
Restored(m, b) ==
  [m EXCEPT !.day = db.pipe.day, !.sod = db.pipe.sod, !.approvals = db.pipe.approvals,
            !.peak = IF Equity(b) > db.pipe.peak THEN Equity(b) ELSE db.pipe.peak]

\* start(), with its snapshot; nothing is served before it returns.
Boot(p) ==
  /\ p \notin up
  /\ up' = up \cup {p}
  /\ LET b == Replayed
         m == Restored([Fresh EXCEPT !.mode = db.mode, !.stop = db.stop], b)
     IN  /\ book' = [book EXCEPT ![p] = b]
         /\ mem' = [mem EXCEPT ![p] = m]
         /\ db' = [db EXCEPT !.pipe = Captured(m), !.last = IF b.held = 0 THEN @ ELSE b.last]
         /\ settled' = [equity |-> Equity(b), known |-> TRUE]
  /\ UNCHANGED <<market, leader, working, spent, loop, sending, control, halted, manual,
                 blocked, mixed>>

Lead(p) ==
  /\ leader = Nobody /\ p \in up
  /\ leader' = p
  /\ UNCHANGED <<market, up, working, spent, mem, book, loop, sending, control, db, history>>

\* Of the orders that wait some were on the wire, and reach the exchange.
Crash(p, onWire) ==
  /\ p \in up /\ spent.crashes < MaxCrashes
  /\ spent' = [spent EXCEPT !.crashes = @ + 1]
  /\ up' = up \ {p}
  /\ leader' = IF leader = p THEN Nobody ELSE leader
  /\ mem' = [mem EXCEPT ![p] = Fresh]
  /\ book' = [book EXCEPT ![p] = Empty]
  /\ LoopTo(p, At("idle"))
  /\ sending' = [sending EXCEPT ![p] = Nothing]
  /\ working' = working \cup onWire
  /\ control' = [o \in Operators |-> IF control[o].at = p THEN NoRequest ELSE control[o]]
  /\ UNCHANGED <<market, db, history>>

\* A new candle is ingested, perhaps of a new day.
Candle(price, day) ==
  /\ market.bar < MaxBars
  /\ day \in {market.day, market.day + 1} /\ day <= MaxDays
  /\ market' = [bar |-> market.bar + 1, day |-> day, price |-> price]
  /\ UNCHANGED <<leader, up, working, spent, mem, book, loop, sending, control, db, history>>

\* The reconciler adopts the fill of an order: stored and folded.
Adopt(p, r, price) ==
  /\ p \in up /\ p = leader /\ loop[p].at = "idle"
  /\ r \in working
  /\ working' = working \ {r}
  /\ book' = [book EXCEPT ![p] = Filled(@, r, price)]
  /\ db' = [db EXCEPT !.cash = @ - Signed(r) * price, !.held = @ + Signed(r), !.fill = price]
  /\ settled' = [settled EXCEPT !.known = FALSE]
  /\ UNCHANGED <<market, leader, up, spent, mem, loop, sending, control, halted, manual,
                 blocked, mixed>>

\* The order is cancelled at the exchange, or never was there: its answer was lost.
Gone(r) ==
  /\ r \in working
  /\ working' = working \ {r}
  /\ UNCHANGED <<market, leader, up, spent, mem, book, loop, sending, control, db, history>>

\* What an earlier run left behind: a mode (APPROVAL acts as MANUAL does), and
\* perhaps a position, bought and marked at the price of the latest candle.
Left(mode, held, price) ==
  [mode |-> mode, stop |-> FALSE, pipe |-> Captured(Fresh), cash |-> OpeningCash - held * price,
   held |-> held, last |-> IF held = 0 THEN 0 ELSE price, fill |-> IF held = 0 THEN 0 ELSE price]

Init ==
  /\ market \in [bar : {1}, day : {1}, price : Prices]
  /\ leader = Nobody /\ up = {} /\ working = {}
  /\ spent = [crashes |-> 0, requests |-> 0, orders |-> 0]
  /\ mem = [p \in Processes |-> Fresh]
  /\ book = [p \in Processes |-> Empty]
  /\ loop = [p \in Processes |-> At("idle")]
  /\ sending = [p \in Processes |-> Nothing]
  /\ control = [o \in Operators |-> NoRequest]
  /\ db \in {Left(mode, held, market.price) : mode \in Modes \ {"APPROVAL"}, held \in OpeningHeld}
  /\ halted = FALSE /\ manual = FALSE /\ blocked = FALSE /\ mixed = FALSE
  /\ settled = [equity |-> OpeningCash, known |-> TRUE]

Step(p) ==
  \/ TickIdle(p) \/ TickSent(p) \/ StoreMarks(p) \/ StoreState(p) \/ StoreFails(p)
  \/ \E day \in 1..MaxDays : TickOther(p, day)
  \/ SquareOff(p) \/ SquaredOff(p)
  \/ \E r \in sending[p].waiting : Reaches(p, r) \/ Refused(p, r)
  \/ \E r \in Signals(Marked(book[p])), c \in Contexts(Observed(mem[p], book[p])) :
       TickSignal(p, r, c)
  \/ \E a \in mem[p].approvals, c \in Contexts(mem[p]) : Approve(p, a, c)
  \/ \E a \in mem[p].approvals : Reject(p, a)
  \/ Flatten(p) \/ Flattens(p) \/ FlattenRefused(p)
  \/ Boot(p) \/ Lead(p) \/ \E onWire \in SUBSET sending[p].waiting : Crash(p, onWire)
  \/ \E r \in working, price \in Prices : Adopt(p, r, price)

Operate(o) ==
  \/ \E p \in Processes, ask \in Asks : Ask(o, p, ask)
  \/ Commit(o) \/ Answer(o) \/ Fail(o)

Next ==
  \/ \E p \in Processes : Step(p)
  \/ \E o \in Operators : Operate(o)
  \/ \E price \in Prices, day \in 1..MaxDays : Candle(price, day)
  \/ \E r \in working : Gone(r)

Spec == Init /\ [][Next]_vars

-----------------------------------------------------------------------------
(* Properties                                                              *)

Request == [by : {"strategy", "close"}, side : {"BUY", "SELL"}, hasStop : BOOLEAN, ref : Prices, bar : 1..MaxBars,
            quantity : Nat \ {0}]
Keys == {"BUY", "SELL"} \X Nat \X (1..MaxBars)
Memory == [mode : Modes, stop : BOOLEAN, day : 0..MaxDays, sod : Int, peak : Int,
           approvals : SUBSET Request, keys : SUBSET Keys]
Pipe == [day : 0..MaxDays, sod : Int, peak : Int, approvals : SUBSET Request]
Portfolio == [cash : Int, held : Int, last : Prices \cup {0}]
Place == [at : {"idle", "marks"}, pipe : {NoPipe}] \cup [at : {"state"}, pipe : Pipe]
           \cup [at : {"sent", "squaring"}, order : Request]
Sending == [waiting : SUBSET Request, exit : Request \cup {NoOrder}]
Control == [ask : Asks \cup {"none"}, at : Processes \cup {Nobody}, done : BOOLEAN,
            undone : BOOLEAN]
Tables == [mode : Modes, stop : BOOLEAN, pipe : Pipe, cash : Int, held : Int,
           last : Prices \cup {0}, fill : Prices \cup {0}]
Spent == [crashes : 0..MaxCrashes, requests : 0..MaxRequests, orders : 0..MaxOrders]

TypeOK ==
  /\ market \in [bar : 1..MaxBars, day : 1..MaxDays, price : Prices]
  /\ leader \in up \cup {Nobody} /\ up \subseteq Processes
  /\ mem \in [Processes -> Memory]
  /\ book \in [Processes -> Portfolio]
  /\ loop \in [Processes -> Place]
  /\ sending \in [Processes -> Sending]
  /\ control \in [Operators -> Control]
  /\ db \in Tables
  /\ working \subseteq Request
  /\ spent \in Spent
  /\ {halted, manual, blocked, mixed} \subseteq BOOLEAN
  /\ settled \in [equity : Int, known : BOOLEAN]

\* The orders that the order manager of p takes in this step.  What it took is sent
\* later, and nothing is asked again.
TakenBy(p) == sending'[p].waiting \ sending[p].waiting

\* From the answer to an emergency stop until somebody asks for its release, no
\* order of the strategy that opens a position is taken, whatever was staged before
\* and however often the process restarts.  (One that was taken before the stop is
\* sent all the same.)
StopHolds ==
  [][\A p \in Processes : \A r \in TakenBy(p) :
       halted => r.by = "close" \/ PureReduction(r, book[p].held)]_vars

\* From the answer to a change to MANUAL or APPROVAL until the next change is asked
\* for, the only orders taken are those that an operator approves and the exits of
\* the square-off and of the flatten route.
ModeHolds ==
  [][\A p \in Processes : \A r \in TakenBy(p) :
       manual => r.by = "close" \/ r \in mem[p].approvals]_vars

\* The baselines of the daily-loss and drawdown limits outlive every restart: a start
\* leaves the stored day and its opening equity as they are and the stored peak never
\* falls; while the ticks never go back to a candle of an earlier day, the stored day
\* does not either and its opening equity is stored once.
BaselinesSurvive ==
  [][/\ db'.pipe.peak >= db.pipe.peak
     /\ up' # up => db'.pipe.day = db.pipe.day /\ db'.pipe.sod = db.pipe.sod
     /\ ~mixed' => /\ db'.pipe.day >= db.pipe.day
                   /\ db'.pipe.day = db.pipe.day => db'.pipe.sod = db.pipe.sod]_vars

\* A restart finds the equity last stored, unless a fill came since.
RestartKeepsEquity ==
  [][\A p \in up' \ up : settled.known => Equity(book'[p]) = settled.equity]_vars

\* An order that only reduces is never refused by risk, staged or not, whatever
\* limit is breached.
ExitsNeverBlocked == ~blocked

\* What is on its way to the exchange or there.
Out == working \cup UNION {sending[p].waiting : p \in Processes}

\* An exit of the strategy taken while nothing else is out never turns the position,
\* however long it waited for approval.
ExitsNeverFlip ==
  [][\A p \in Processes : \A r \in TakenBy(p) :
       r.by = "strategy" /\ ~r.hasStop /\ Out = {} => PureReduction(r, book[p].held)]_vars

\* What is taken fits the caps as the account is when it is taken.
SentWithinCaps ==
  [][\A p \in Processes : \A r \in TakenBy(p) :
       PureReduction(r, book[p].held) \/ r.quantity <= Scaled(r, Account(mem'[p], book'[p]))]_vars

\* Entries that are out together fit the cap on exposure to one symbol.
CapsCoverWorking ==
  \A p \in up : \A r, q \in Out :
    r # q /\ r.hasStop /\ q.hasStop /\ r.side = q.side /\ book[p].held = 0
      => (r.quantity * r.ref) + (q.quantity * q.ref) <= SymbolRoom(Account(mem[p], book[p]))

\* A stop that is engaged is stored, so that a restart engages it.
StopIsStored ==
  \A p \in up : mem[p].stop /\ (\A o \in Operators : control[o] = NoRequest) => db.stop
=============================================================================
