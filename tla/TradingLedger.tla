---------------------------- MODULE TradingLedger ----------------------------
(***************************************************************************)
(* How a trade becomes a position: the trading service, the reconciler and *)
(* the order and fill tables they share, for one symbol and one trading    *)
(* day, under either deployment (src/main.ts: one leader among long-lived  *)
(* processes; src/serverless.ts: warm containers taking turns under a      *)
(* lease).  Each process keeps its own order manager and its own portfolio *)
(* in memory.  Fills enter a portfolio in two ways only: replayed from the *)
(* fill table by start(), or adopted from the broker by the reconciler.    *)
(*                                                                         *)
(* An action is what happens between two awaits, with the effect at the    *)
(* database or the broker of the call it ends with or begins with.  A      *)
(* request that was sent lives on at the exchange, whether or not its      *)
(* caller is still there, under the id it gets if it is accepted.  Every   *)
(* exchange order trades in one piece, so that a fill is named by its      *)
(* broker order id; partial fills are the subject of OrderManager.         *)
(***************************************************************************)
EXTENDS Integers, FiniteSets, Functions

CONSTANTS
  Processes,  \* instances of the service; each runs one loop
  Clicks,     \* HTTP requests that can be open at once
  Entries,    \* platform ids of orders that buy one lot
  Exits,      \* platform ids of orders that close the position
  BrokerIds,  \* order ids the exchange can hand out
  NoBid,      \* "no broker order id"
  NoOne,      \* no process holds the leader lock
  Opening,    \* lots held when the day begins, from older fills
  MaxCrashes, \* bound: how many times a process dies
  Deployment, \* "leader" or "lease"
  Features    \* what the environment and the operators do, see below

\* "bar": bars produce entries.  "squareOff": the closing window is reached.
\* "flatten", "approve": the two order routes of the API.  "outage": getFills
\* fails.  "dbOutage": a query of a tick throws.  "lostWrite": an order row or
\* the mark of the day is not written.  "lostAnswer": the database commits an
\* append and the connection drops.  "loss": a living leader loses the lock.
\* "again": after a restart a strategy decides on a bar it has already traded.
ASSUME DeploymentAssumption == Deployment \in {"leader", "lease"}
ASSUME FeaturesAssumption ==
  Features \subseteq {"bar", "squareOff", "flatten", "approve", "outage", "dbOutage",
                "lostWrite", "lostAnswer", "loss", "again"}
ASSUME IdsAssumption == /\ NoBid \notin BrokerIds /\ NoOne \notin Processes
                        /\ (Entries \cup Exits) \cap BrokerIds = {}
                        /\ Entries \cap Exits = {} /\ Processes \cap Clicks = {}
ASSUME BoundsAssumption == Opening \in Nat /\ MaxCrashes \in Nat

VARIABLES
  rows,       \* the order table: platform id -> status and broker id
  stored,     \* the fill table: fills with the order_id they are filed under
  squaredOff, \* the durable square-off mark of the day
  exchange,   \* broker id -> the order sent to the exchange under it
  up,         \* the processes that have completed start()
  leader,     \* who holds the advisory lock
  crashes,
  oms,        \* process -> platform id -> the order its order manager holds
  portfolio,  \* process -> the fills folded into its portfolio
  closed,     \* the processes that remember having squared off
  calls       \* actor -> the async function it is suspended in

vars == <<rows, stored, squaredOff, exchange, up, leader, crashes, oms, portfolio, closed,
          calls>>
db     == <<rows, stored, squaredOff>>
who    == <<up, leader, crashes>>
memory == <<oms, portfolio, closed>>

Orders   == Entries \cup Exits
Actors   == Processes \cup Clicks
Status   == {"ABSENT", "PENDING_NEW", "OPEN", "FILLED", "CANCELLED", "REJECTED"}
Terminal == {"FILLED", "CANCELLED", "REJECTED"}
Row      == [status : Status, bid : BrokerIds \cup {NoBid}]
OpenRow  == [order : Orders, status : Status, bid : BrokerIds \cup {NoBid}]
Fill     == [fill : BrokerIds, as : Orders \cup BrokerIds]
Absent   == [status |-> "ABSENT", bid |-> NoBid]
AnyOrder == CHOOSE o \in Orders : TRUE

PCs == {"idle", "findOpen", "orders", "update", "fills", "append", "fold", "bars", "mark",
        "checking", "submit", "persist", "write"}
Call == [pc : PCs, proc : Processes, kind : {"bar", "exit", "approve"}, order : Orders,
         bid : BrokerIds \cup {NoBid}, status : Status, lots : Int, open : SUBSET OpenRow,
         report : SUBSET BrokerIds, found : BOOLEAN]
Idle(p) == [pc |-> "idle", proc |-> p, kind |-> "bar", order |-> AnyOrder, bid |-> NoBid,
            status |-> "ABSENT", lots |-> 0, open |-> {}, report |-> {}, found |-> FALSE]

TypeOK ==
  /\ rows \in [Orders -> Row] /\ stored \subseteq Fill /\ squaredOff \in BOOLEAN
  /\ exchange \in [BrokerIds -> [status : Status \cup {"SENT"}, order : Orders, lots : Int]]
  /\ up \subseteq Processes /\ leader \in Processes \cup {NoOne} /\ crashes \in 0..MaxCrashes
  /\ oms \in [Processes -> [Orders -> Row]]
  /\ portfolio \in [Processes -> SUBSET Fill] /\ closed \subseteq Processes
  /\ calls \in [Actors -> Call]

Init ==
  /\ rows = [o \in Orders |-> Absent] /\ stored = {} /\ squaredOff = FALSE
  /\ exchange = [b \in BrokerIds |-> [status |-> "ABSENT", order |-> AnyOrder, lots |-> 0]]
  /\ up = {} /\ leader = NoOne /\ crashes = 0
  /\ oms = [p \in Processes |-> [o \in Orders |-> Absent]]
  /\ portfolio = [p \in Processes |-> {}] /\ closed = {}
  /\ calls = [a \in Actors |-> Idle(CHOOSE p \in Processes : a \in Processes => p = a)]

At(a, pc)    == calls[a].pc = pc
Goto(a, pc)  == calls' = [calls EXCEPT ![a].pc = pc]
Finish(a)    == calls' = [calls EXCEPT ![a] = Idle(calls[a].proc)]
OpenRows     == {[order |-> o, status |-> rows[o].status, bid |-> rows[o].bid] :
                   o \in {q \in Orders : rows[q].status \notin Terminal \cup {"ABSENT"}}}
Traded       == {b \in BrokerIds : exchange[b].status = "FILLED"}
Lots(fs)     == SumFunctionOnSet([f \in fs |-> exchange[f.fill].lots], fs)
Position(p)  == Opening + Lots(portfolio[p])

\* canTrade and withTradingGuard: the process holds the leader lock, looked at
\* when the work starts and not again; or nobody else holds the lease.
MayAct(p) == CASE Deployment = "leader" -> leader = p
               [] Deployment = "lease"  -> \A a \in Actors : At(a, "idle")

-----------------------------------------------------------------------------
(* Boot, leadership, crashes.                                              *)

\* main.ts tries for the lock, then start() replays every stored fill.
Boot(p) ==
  /\ p \notin up
  /\ up' = up \cup {p}
  /\ leader' = IF leader = NoOne /\ Deployment = "leader" THEN p ELSE leader
  /\ portfolio' = [portfolio EXCEPT ![p] = stored]
  /\ UNCHANGED <<db, exchange, crashes, oms, closed, calls>>

\* The retry timer of a running follower: nothing is replayed.
Promote(p) ==
  /\ Deployment = "leader" /\ p \in up /\ leader = NoOne
  /\ leader' = p
  /\ UNCHANGED <<db, exchange, up, crashes, memory, calls>>

\* The heartbeat misses the lock: the tick that is under way goes on.
Lose(p) ==
  /\ "loss" \in Features
  /\ leader = p
  /\ leader' = NoOne
  /\ UNCHANGED <<db, exchange, up, crashes, memory, calls>>

\* What the process has sent is not undone.
Crash(p) ==
  /\ p \in up /\ crashes < MaxCrashes
  /\ crashes' = crashes + 1
  /\ up' = up \ {p}
  /\ leader' = IF leader = p THEN NoOne ELSE leader
  /\ oms' = [oms EXCEPT ![p] = [o \in Orders |-> Absent]]
  /\ portfolio' = [portfolio EXCEPT ![p] = {}]
  /\ closed' = closed \ {p}
  /\ calls' = [a \in Actors |-> IF calls[a].proc = p THEN Idle(p) ELSE calls[a]]
  /\ UNCHANGED <<db, exchange>>

-----------------------------------------------------------------------------
(* Submitting: stage in memory, send, and only then write the order row.   *)

Placed(b) == exchange[b].status # "ABSENT"
NewTo(p, o) == oms[p][o].status = "ABSENT"
\* An exit is keyed by the clock, an entry by its bar: the environment, not the
\* code, keeps an id from being used twice, but for "again".
Fresh(o)   == /\ rows[o].status = "ABSENT"
              /\ \A p \in Processes : NewTo(p, o)
              /\ \A b \in BrokerIds : Placed(b) => exchange[b].order # o
Decides(o) == "again" \in Features \/ Fresh(o)

Send(a, p, kind, o, lots) ==
  /\ oms' = [oms EXCEPT ![p][o] = [status |-> "PENDING_NEW", bid |-> NoBid]]
  /\ \E b \in BrokerIds :
       /\ ~Placed(b)
       /\ exchange' = [exchange EXCEPT ![b] = [status |-> "SENT", order |-> o, lots |-> lots]]
       /\ calls' = [calls EXCEPT ![a] = [Idle(p) EXCEPT !.pc = "submit", !.kind = kind,
                                                        !.order = o, !.bid = b]]

Remember(a, row) == oms' = [oms EXCEPT ![calls[a].proc][calls[a].order] = row]
\* submitExit writes the row whatever happened, onBar only for an order that
\* was acknowledged, the approve route never.
PersistsRefused(a) == calls[a].kind = "exit"
PersistsAcked(a)   == calls[a].kind \in {"exit", "bar"}
Return(a, persists) == IF persists THEN Goto(a, "persist") ELSE Finish(a)
OnItsWay(b) == exchange[b].status = "SENT"

SubmitAcked(a) ==
  /\ At(a, "submit") /\ ~OnItsWay(calls[a].bid)
  /\ Remember(a, [status |-> "OPEN", bid |-> calls[a].bid])
  /\ Return(a, PersistsAcked(a))
  /\ UNCHANGED <<db, exchange, who, portfolio, closed>>

SubmitRefused(a) ==
  /\ At(a, "submit") /\ OnItsWay(calls[a].bid)
  /\ exchange' = [exchange EXCEPT ![calls[a].bid].status = "REJECTED"]
  /\ Remember(a, [status |-> "REJECTED", bid |-> NoBid])
  /\ Return(a, PersistsRefused(a))
  /\ UNCHANGED <<db, who, portfolio, closed>>

\* No answer came: the order stays PENDING_NEW in memory, and may be accepted.
SubmitUncertain(a) ==
  /\ At(a, "submit")
  /\ Return(a, PersistsRefused(a))
  /\ UNCHANGED <<db, exchange, who, memory>>

\* persistOrder: findById, then UPDATE or INSERT.
PersistFinds(a) ==
  /\ At(a, "persist")
  /\ calls' = [calls EXCEPT ![a].pc = "write",
                            ![a].found = rows[calls[a].order].status # "ABSENT"]
  /\ UNCHANGED <<db, exchange, who, memory>>

PersistWrites(a) ==
  /\ At(a, "write")
  /\ rows' = IF calls[a].found \/ rows[calls[a].order].status = "ABSENT"
             THEN [rows EXCEPT ![calls[a].order] = oms[calls[a].proc][calls[a].order]]
             ELSE rows
  /\ Finish(a)
  /\ UNCHANGED <<stored, squaredOff, exchange, who, memory>>

\* findById or the UPDATE throws, or the INSERT fails and nobody is told.
PersistFails(a) ==
  /\ "lostWrite" \in Features
  /\ At(a, "persist") \/ At(a, "write")
  /\ Finish(a)
  /\ UNCHANGED <<db, exchange, who, memory>>

-----------------------------------------------------------------------------
(* The API: POST /api/positions/:symbol/flatten and .../approve.           *)

\* Refused with 409 when there is no position or a row is still open.
Flatten(c, p) ==
  /\ "flatten" \in Features
  /\ At(c, "idle") /\ p \in up /\ MayAct(p)
  /\ Position(p) > 0
  /\ calls' = [calls EXCEPT ![c] = [Idle(p) EXCEPT !.pc = "checking", !.lots = -Position(p)]]
  /\ UNCHANGED <<db, exchange, who, memory>>

Working == OpenRows # {}

FlattenRefused(c) ==
  /\ At(c, "checking") /\ Working
  /\ Finish(c)
  /\ UNCHANGED <<db, exchange, who, memory>>

FlattenSends(c, o) ==
  /\ At(c, "checking") /\ ~Working
  /\ o \in Exits /\ Fresh(o)
  /\ Send(c, calls[c].proc, "exit", o, calls[c].lots)
  /\ UNCHANGED <<db, who, portfolio, closed>>

\* A staged entry is approved.  The route has no trading guard.
Approve(c, p, o) ==
  /\ "approve" \in Features
  /\ At(c, "idle") /\ p \in up /\ o \in Entries /\ NewTo(p, o) /\ Decides(o)
  /\ Send(c, p, "approve", o, 1)
  /\ UNCHANGED <<db, who, portfolio, closed>>

-----------------------------------------------------------------------------
(* The loop.  A tick reconciles when that is due, then either squares off  *)
(* or runs the bars.                                                       *)

Tick(p) ==
  /\ At(p, "idle") /\ p \in up /\ MayAct(p)
  /\ \E pc \in {"findOpen", "bars"} : Goto(p, pc)
  /\ UNCHANGED <<db, exchange, who, memory>>

FindOpen(p) ==
  /\ At(p, "findOpen")
  /\ calls' = [calls EXCEPT ![p].pc = "orders", ![p].open = OpenRows]
  /\ UNCHANGED <<db, exchange, who, memory>>

\* No broker id, or getOrder failed: a break is noted, nothing is changed.
SkipOrder(p) ==
  /\ At(p, "orders")
  /\ \E r \in calls[p].open : calls' = [calls EXCEPT ![p].open = @ \ {r}]
  /\ UNCHANGED <<db, exchange, who, memory>>

AskOrder(p) ==
  /\ At(p, "orders")
  /\ \E r \in calls[p].open :
       /\ r.bid # NoBid
       /\ calls' = [calls EXCEPT ![p] =
            IF exchange[r.bid].status = r.status
            THEN [calls[p] EXCEPT !.open = calls[p].open \ {r}]
            ELSE [calls[p] EXCEPT !.open = calls[p].open \ {r}, !.pc = "update",
                    !.order = r.order, !.bid = r.bid, !.status = exchange[r.bid].status]]
  /\ UNCHANGED <<db, exchange, who, memory>>

\* The row as it was read, with the broker's status.
UpdateOrder(p) ==
  /\ At(p, "update")
  /\ rows' = [rows EXCEPT ![calls[p].order] = [status |-> calls[p].status, bid |-> calls[p].bid]]
  /\ Goto(p, "orders")
  /\ UNCHANGED <<stored, squaredOff, exchange, who, memory>>

GetFills(p) ==
  /\ At(p, "orders") /\ calls[p].open = {}
  /\ calls' = [calls EXCEPT ![p].pc = "fills", ![p].report = Traded]
  /\ UNCHANGED <<db, exchange, who, memory>>

GetFillsFails(p) ==
  /\ "outage" \in Features
  /\ At(p, "orders") /\ calls[p].open = {}
  /\ Goto(p, "bars")
  /\ UNCHANGED <<db, exchange, who, memory>>

\* findByBrokerOrderId: the fill is filed under the platform's order if a row
\* has that broker id, and under the broker's own id otherwise.
Unattributed(b) == IF \E o \in Orders : rows[o].bid = b       \* mutant: null when unknown
                   THEN CHOOSE o \in Orders : rows[o].bid = b ELSE NoBid
AmongOpen(b) == IF \E r \in OpenRows : r.bid = b              \* mutant: open orders only
                THEN (CHOOSE r \in OpenRows : r.bid = b).order ELSE b
Attribution(b) == IF \E o \in Orders : rows[o].bid = b
                  THEN CHOOSE o \in Orders : rows[o].bid = b ELSE b

MatchFill(p, b) ==
  /\ At(p, "fills") /\ b \in calls[p].report
  /\ calls' = [calls EXCEPT ![p].pc = "append", ![p].bid = b, ![p].report = @ \ {b},
                 ![p].found = Attribution(b) # b,
                 ![p].order = IF Attribution(b) # b THEN Attribution(b) ELSE AnyOrder]
  /\ UNCHANGED <<db, exchange, who, memory>>

Adopting(p) == [fill |-> calls[p].bid,
                as   |-> IF calls[p].found THEN calls[p].order ELSE calls[p].bid]

\* INSERT ... ON CONFLICT DO NOTHING: tells whether the row is new.
AlwaysNew(p) == TRUE                     \* mutant: append's answer is ignored
NeverNew(p)  == FALSE                    \* mutant: the driver reports no row count
NewToStore(p) == Adopting(p) \notin stored
AppendFill(p) ==
  /\ At(p, "append")
  /\ stored' = stored \cup {Adopting(p)}
  /\ Goto(p, IF NewToStore(p) THEN "fold" ELSE "fills")
  /\ UNCHANGED <<rows, squaredOff, exchange, who, memory>>

\* The row is committed but append throws: the tick ends in its error handler.
AppendThrows(p) ==
  /\ "lostAnswer" \in Features
  /\ At(p, "append")
  /\ stored' = stored \cup {Adopting(p)}
  /\ Finish(p)
  /\ UNCHANGED <<rows, squaredOff, exchange, who, memory>>

FoldFill(p) ==
  /\ At(p, "fold")
  /\ portfolio' = [portfolio EXCEPT ![p] = @ \cup {Adopting(p)}]
  /\ Goto(p, "fills")
  /\ UNCHANGED <<db, exchange, who, oms, closed>>

ReconcileDone(p) ==
  /\ At(p, "fills") /\ calls[p].report = {}
  /\ Goto(p, "bars")
  /\ UNCHANGED <<db, exchange, who, memory>>

\* A query throws with no effect; the tick ends in its error handler.
TickThrows(p) ==
  /\ "dbOutage" \in Features
  /\ calls[p].pc \in {"findOpen", "update", "fills", "append", "bars"}
  /\ Finish(p)
  /\ UNCHANGED <<db, exchange, who, memory>>

BarsQuiet(p) ==
  /\ At(p, "bars")
  /\ Finish(p)
  /\ UNCHANGED <<db, exchange, who, memory>>

\* A strategy enters when the position is flat, before the closing window.
BarTrades(p, o) ==
  /\ "bar" \in Features
  /\ At(p, "bars") /\ ~squaredOff /\ p \notin closed
  /\ Position(p) = 0 /\ o \in Entries /\ NewTo(p, o) /\ Decides(o)
  /\ Send(p, p, "bar", o, 1)
  /\ UNCHANGED <<db, who, portfolio, closed>>

\* The day is marked, in memory and then for good, before anything is sent; the
\* positions to close are read before that.
SquareOffReads(p) ==
  /\ "squareOff" \in Features
  /\ At(p, "bars") /\ ~squaredOff /\ p \notin closed
  /\ calls' = [calls EXCEPT ![p].pc = "mark", ![p].lots = -Position(p)]
  /\ UNCHANGED <<db, exchange, who, memory>>

NotMarked == FALSE                       \* mutant: the mark is never written
Marked    == TRUE
SquareOffNothing(p) ==
  /\ At(p, "mark") /\ calls[p].lots = 0
  /\ squaredOff' = Marked /\ closed' = closed \cup {p}
  /\ Finish(p)
  /\ UNCHANGED <<rows, stored, exchange, who, oms, portfolio>>

SquareOffSends(p, o) ==
  /\ At(p, "mark") /\ calls[p].lots # 0
  /\ o \in Exits /\ Fresh(o)
  /\ squaredOff' = Marked /\ closed' = closed \cup {p}
  /\ Send(p, p, "exit", o, calls[p].lots)
  /\ UNCHANGED <<rows, stored, who, portfolio>>

\* The write throws, whether or not it was committed: this process sends nothing.
MarkThrows(p) ==
  /\ "lostWrite" \in Features
  /\ At(p, "mark")
  /\ squaredOff' \in {squaredOff, Marked} /\ closed' = closed \cup {p}
  /\ Finish(p)
  /\ UNCHANGED <<rows, stored, exchange, who, oms, portfolio>>

-----------------------------------------------------------------------------
(* The exchange accepts a request, early or late, trades an order or closes *)
(* it.                                                                     *)

ExchangeAccepts(b) ==
  /\ OnItsWay(b)
  /\ exchange' = [exchange EXCEPT ![b].status = "OPEN"]
  /\ UNCHANGED <<db, who, memory, calls>>

ExchangeSettles(b) ==
  /\ exchange[b].status = "OPEN"
  /\ \E s \in Terminal : exchange' = [exchange EXCEPT ![b].status = s]
  /\ UNCHANGED <<db, who, memory, calls>>

-----------------------------------------------------------------------------
Submission(a) == \/ SubmitAcked(a) \/ SubmitRefused(a) \/ SubmitUncertain(a)
                 \/ PersistFinds(a) \/ PersistWrites(a) \/ PersistFails(a)
Reconciling(p) == \/ FindOpen(p) \/ SkipOrder(p) \/ AskOrder(p) \/ UpdateOrder(p)
                  \/ \E b \in BrokerIds : MatchFill(p, b)
                  \/ AppendFill(p) \/ AppendThrows(p) \/ FoldFill(p) \/ ReconcileDone(p)
Deciding(p) == \/ BarsQuiet(p) \/ SquareOffReads(p) \/ SquareOffNothing(p) \/ MarkThrows(p)
               \/ \E o \in Orders : BarTrades(p, o) \/ SquareOffSends(p, o)

Next ==
  \/ \E p \in Processes : \/ Boot(p) \/ Promote(p) \/ Lose(p) \/ Crash(p) \/ Tick(p) \/ Reconciling(p)
                          \/ GetFills(p) \/ GetFillsFails(p) \/ Deciding(p)
                          \/ TickThrows(p)
  \/ \E a \in Actors : Submission(a)
  \/ \E c \in Clicks, p \in Processes : \/ Flatten(c, p)
                                        \/ \E o \in Entries : Approve(c, p, o)
  \/ \E c \in Clicks : FlattenRefused(c) \/ \E o \in Exits : FlattenSends(c, o)
  \/ \E b \in BrokerIds : ExchangeAccepts(b) \/ ExchangeSettles(b)

Spec == Init /\ [][Next]_vars

-----------------------------------------------------------------------------
(* Properties                                                              *)

\* A fill is money that moved once: no portfolio counts one exchange fill
\* twice, under whichever ids it was filed.
NoFillCountedTwice ==
  \A p \in Processes : \A f, g \in portfolio[p] : f.fill = g.fill => f = g

\* "Rebuild and reconcile before anything can trade": the portfolio of a
\* process that acts on the account is what the fill table says, but for the
\* row its own reconciler has just appended and is about to fold.
BeingFolded(p) == IF At(p, "fold") THEN {Adopting(p)} ELSE {}
PortfolioIsLedger ==
  \A p \in up : (Deployment = "leader" => leader = p)
                => portfolio[p] = stored \ BeingFolded(p)

\* The exits on the account never add up to more than the position there was
\* to close: nobody sells what somebody else is already selling.
Live(b)     == exchange[b].status \in {"OPEN", "FILLED"}
NeverShort  ==
  LET held    == {b \in BrokerIds : exchange[b].lots > 0 /\ exchange[b].status = "FILLED"}
      selling == {b \in BrokerIds : exchange[b].lots < 0 /\ Live(b)}
  IN  Opening + SumFunctionOnSet([b \in BrokerIds |-> exchange[b].lots], held \cup selling) >= 0

\* "It is persisted before the broker call, so a crash mid-flight leaves a
\* record": the exchange never holds an order that has no row.
RecordedBeforeSent ==
  \A b \in BrokerIds : exchange[b].status = "OPEN" => rows[exchange[b].order].status # "ABSENT"

\* Every fill reaches the portfolio of whoever is trading.
FillsReachPortfolio ==
  \A b \in BrokerIds : b \in Traded ~>
    \E p \in up : /\ Deployment = "leader" => leader = p
                  /\ \E f \in portfolio[p] : f.fill = b
=============================================================================
