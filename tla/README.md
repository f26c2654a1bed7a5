# Verification of the order management system

TLA+ models of the trading platform in `src/`, checked by TLC and, for the
results that matter most, proved by TLAPS. The modules are translated from the
TypeScript source; `PROJECT.json` maps every definition to the lines it stands
for.

1. [Inventory](#1-inventory) of the system
2. [Plan](#2-plan)
3. [How the modules correspond to the code](#3-modules)
4. [Runs, bounds and fairness](#4-runs)
5. [What the code does against its own word](#5-disagreements)
6. [Proofs](#6-proofs)
7. [What is not covered](#7-limits)

Notation: `oms.ts` is `src/src/execution/oms.ts`, and so on.

## 1. Inventory

The platform trades Indian equities through a broker (Zerodha's Kite, or a
paper broker). It runs in one of two deployments: an **always-on process**
(`main.ts`), of which several instances may exist during a deploy and one,
elected by a Postgres advisory lock, trades; or **serverless invocations**
(`serverless.ts`), where cron ticks and manual exits take turns under a lease.

JavaScript runs one event-loop turn at a time, so the concurrency is that of
`await`: between two awaits of one handler, any other handler, timer or
callback may run. Across processes everything is concurrent.

| component | state | operations | interacts with | what is hard | what makes it correct |
|---|---|---|---|---|---|
| order manager `execution/oms.ts` | orders, key registry, fills per order; memory only | submit (with retry), applyFill, cancel, reconcile | broker (awaited), pipeline, service | lost and late answers, callers interleaving, restarts | one intent, one order; uncertain is parked; legal transitions; no fill twice |
| reconciler `monitoring/reconciliation.ts` | none of its own | one pass: open rows, broker orders, fills, positions | order and fill tables, portfolio, broker | reads and writes separated by awaits; partial failure; another process | portfolio equals the fill table; no fill counts twice |
| trading service `runtime/tradingService.ts` | portfolio, mode, emergency stop | start (replay), onBar, submitExit, emergencyStop, setMode, snapshot | everything | row written after the broker answered; restart | replay reproduces the portfolio; a stop survives a restart |
| intraday runner `runtime/runner.ts` | ticking, inFlight, squaredOffOn | tick, square-off, drain | service, reconciler, leadership | leadership lost in a tick; the square-off mark before the exits | one square-off per day; no two loops at work |
| leader lock `persistence/leaderLock.ts` | held, client, timers; the server's lock | tryAcquire, heartbeat, lose, release | Postgres sessions, the pool | what a process believes lags what the server knows | one live leader; somebody leads |
| tick lease `persistence/tickLease.ts` | one row | acquire, renew, release | clocks, platform time limits | clocks differ, statements land late | two invocations never work at once |
| HTTP API `api/server.ts` | rate counters | flatten, approve, reject, mode, emergency stop, tick, reads | service, guards | check, send and record are separate awaits | what was answered holds; no fill counts twice |
| pipeline `pipeline/tradingPipeline.ts` | mode, approvals, day, loss breaker | onBar, approve, reject, captureState, restoreState | risk engine, order manager | approvals across a crash, rollover, stale account state | a stop, a mode and the loss baselines hold once answered or stored |
| risk engine `risk/` | kill switch | evaluate, checkHaltConditions | pipeline | reductions must pass, breaches must stick | size never exceeds a cap; a breach halts |
| portfolio `execution/portfolio.ts` | positions, cash, realised profit | applyFill, mark, snapshot | ledger | flips, rounding, costs | cash and positions conserve value |
| paper broker `execution/paperBroker.ts` | orders, queued fills | submit, cancel, onMarket, drainFills | order manager | idempotent resubmission, triggers, volume caps | a fill never exceeds its order |
| Zerodha broker `execution/zerodhaBroker.ts` | token bucket | submit, cancel, getOrder, getFills | Kite | which failures are uncertain, rate limit | what may be sent again was not placed |
| Kite session `execution/kiteSession.ts` | token, invalidatedAt | restore, exchange, adopt, invalidate | state table, broker | late rejections, expiry | a fresh token is not killed by an old answer |
| Kite ticker `marketdata/kiteTicker.ts` | socket, timers, tokens | start, stop, open, onDisconnect, watchdog | live feed | races of close, error, watchdog and stop | one socket; reconnects while running, unless a handshake hangs |
| live feed `marketdata/liveFeed.ts`, `ohlc.ts` | open bars, pending bars, flush in flight | onTick, flush, stop | candle table | flush against stop; a failing write | no closed bar is lost |
| ingestion `marketdata/ingestion.ts` | watermark | sync, syncAll | provider, candle table | partial windows, failure between two writes | the watermark never passes a missing bar |
| audit log `audit/log.ts` | chain head | resume, append, verify | audit table | writes nobody awaits; two processes | stored records form one chain |
| queue `messaging/queue.ts`, `monitoring/alertDelivery.ts` | four Redis lists, claims | enqueue, claim, complete, fail, recover, promote; pump, drain | Redis, webhook | crash between two commands, two workers | every job is delivered or dead-lettered |
| migrator `persistence/migrator.ts` | table of versions | migrate | advisory lock | several processes at boot, a failing migration | each migration once, in order |
| model registry `ai/inference.ts` | models, promotion history | register, promote, rollback | AI filter | promote and rollback | one live model per name |
| historical provider `marketdata/kiteHistorical.ts` | token bucket, cached instruments | fetchCandles, loadInstruments | Kite, ingestion, backfill | windows cut in milliseconds, asked for in seconds; a failing window | every bar of the range, in order, within the rate limit |
| backtest `backtest/engine.ts` | pending order, open stop | run: open, extremes, close, decision | paper broker, portfolio, strategies | the order of events within a bar | no fill better than the engine says |
| calendar, validation, corporate actions, costs, money, sizing | none | pure functions | the above | boundaries, rounding | agree with a reference definition |
| indicators, strategies `features/`, `strategy/` | none | pure functions of a series | pipeline, backtest | alignment, warm-up, look-ahead | no look at the future; entries carry a stop |
| walk-forward, backtest metrics | none | pure functions | backtest | windows that overlap | out of sample stays out of sample |
| AI numerics, options | none | floating-point functions | pipeline | numerics | out of scope (section 7) |
| metrics, browser build, shims, scripts, web pages | counters, text | formatting and packaging | | | out of scope |

`PROJECT.json` lists the same components with their status, and the hazards of
each at the line where they bite.

## 2. Plan

Ordered so that the behaviour that can cost money comes first. "Done" means
modelled, checked and, where noted, proved.

| # | module | models | composes / refines | theorems |
|---|---|---|---|---|
| 1 done | `OrderManager` | the order manager and the exchange | implements `IntentLifecycle` | types; one order per intent; lost acknowledgements, refusals and fills in production; the refinement |
| 2 done | `TradingLedger` | orders, rows, fills and portfolios of two processes, manual exits, square-off | composes reconciler, service, runner, API, leader | portfolio equals the fill table; fills counted once; the square-off sells once |
| 3 done | `LeaderLock` | leadership, sessions, deploys | | belief is grounded; one live leader; clean hand-over; watched lock |
| 4 done | `TickLease` | the serverless lease | | one at a time; bounded blocking |
| 5 done | `AlertQueue` | Redis queue and delivery, overlapping processes, crashes | | types; at-least-once up to the named gap; given up after every attempt; once in quiet times |
| 6 done | `RiskControls`, `TradingPipeline` | risk gates and sizing; modes, approvals, kill switch, captured state, restarts | submits to what `OrderManager` models, adopts fills as `TradingLedger` does | what is approved fits the caps; exits pass and never flip; stops and modes hold for what is taken; baselines and equity survive |
| 7 done | `KiteTicker`, `CandleTable`, `LiveFeed`, `Ingestion`, `MarketData` | the socket, the feed and the ingestor, and the table both write | `MarketData` composes them | one stream, kept while it works; no tick dropped; missed bars are asked for |
| 8 done | `BrokerSession`, `KiteHistorical` | the broker session and the calls made with it; fetches of history | | what is sent again is not placed; a fetch is whole and keeps the rate |
| 9 done | `Costs`, `PortfolioBooks`, `PaperBroker`, `Backtest` | simulated orders, the books they are entered in, the engine that drives both | `Backtest` composes the others | the two cash accounts agree and the books balance, on the broker's own and in a backtest; limits are kept; a backtest's fills are honest |
| 10 done | `Migrator`, `AuditChain`, `ModelRegistry` | the remaining stored state, each under several processes | | a migration once; one live model; a lost audit record shows |
| 11 done | `TradingCalendar`, `CandleSeries`, `Indicators`, `Strategies`, `TickerFrame`, `BacktestReport` | pure functions | checked against reference definitions | |

Abstract specifications worth stating: the life of an intent (done), a durable
at-least-once queue, a trading switch that stays off until released, and a bar
series.

What is left: the rate limiter and the order mapping of `zerodhaBroker.ts`, the
session gates of `runner.ts` and the drift statistics.

## 3. Modules

An action is the code between two awaits, or a step of something outside the
process (the exchange, the database server, the platform). Guards come from the
code's conditions and early returns. Definitions marked `\* mutant` are the
plausible bugs each property is tested against; no specification uses them.

### OrderManager (`oms.ts`)

| TLA+ | code |
|---|---|
| `orders` | `orders` and `keyRegistry`, always written together |
| `seen` | `fillsByOrder` |
| `calls` | the async calls suspended in `submit`, `cancel`, `reconcile` |
| `exchange`, `fills`, `wire` | the broker's book, its fills, requests still under way when the caller gave up |
| `Submit`, `SubmitAck`, `SubmitFails`, `SubmitRetry`, `SubmitRefused`, `SubmitUncertain` | `submit` up to `broker.submit`, and each way that await can end |
| `ApplyFill`, `Cancel...`, `Reconcile...` | the other operations |
| `Restart` | the process dies and starts again with empty maps |

The exchange does not deduplicate: to Kite the idempotency key is only a tag.
A key is an intent (hash collisions are ignored, as the code does). `Ops`
selects what the callers use besides `submit` and fills: production calls
neither `cancel` nor, except at boot on an empty map, `reconcile`.

`IntentLifecycle` is what a trader is promised: an intent is staged, placed at
most once, then advances through the transition table; refused means never
placed. `OrderManager` implements it under the mapping `Lifecycle`.

### TradingLedger (`reconciliation.ts`, `tradingService.ts`, `runner.ts`, `server.ts`, `main.ts`, `postgres.ts`)

One position, up to two processes, and the operators' requests.

| TLA+ | code |
|---|---|
| `rows`, `stored`, `squaredOff` | the order table, the fill table with the id each fill was filed under, the stored square-off day |
| `oms`, `portfolio`, `closed` | one process's memory; `closed` is `squaredOffOn` |
| `exchange` | what was sent: on its way (`SENT`), working, filled or gone |
| `leader`, `up`, `crashes` | who holds the lock, who runs |
| `calls` | where each loop and each request is |
| `Boot`, `Promote`, `Lose`, `Crash` | `start()` with its replay; `onAcquired`; `lose()` of a living process, whose tick goes on; death |
| `Tick` ... `ReconcileDone`, `BarTrades`, `SquareOff...` | one tick, step by step |
| `Flatten...`, `Approve` | the two routes that send orders |
| `MarkThrows` | the write of the square-off day fails, committed or not |
| `Submission` | staging, sending, and `persistOrder`'s find and write; `PersistFails` is a find or an update that throws, or an insert whose failure is swallowed |
| `ExchangeAccepts`, `ExchangeSettles` | the exchange takes a request, early or long after its caller gave up or died; trades or ends it |

`Features` names what a run lets happen; `Deployment` says whether requests are
guarded by leadership (`canTrade`, looked at once) or by the lease. In the
lease deployment the model has one warm container. The order manager refuses a key
it has in memory (`NewTo`) and looks nowhere else. That an id is otherwise not used
twice is the world's doing (`Decides`): exits are keyed by the clock, entries by their
bar, and with the feature `"again"` a strategy decides on the same bar again after a
restart. A strategy enters when the position is flat (`BarTrades`); its own exits are
not modelled here, those of the square-off and of the flatten route are. `TradingService.applyFill`
has no caller outside the tests and is not modelled. The position check at the
end of a pass only raises breaks and is part of `ReconcileDone`.

### LeaderLock (`leaderLock.ts`, `main.ts`, `runner.ts`)

| TLA+ | code |
|---|---|
| `lock`, `conn[c].alive` | what the server knows: holder, live sessions |
| `conn[c].use` | what the owner does with a pooled connection |
| `held`, `client`, `retry` | the fields of `LeaderLock` |
| `phase`, `tick` | how far `main()` and a tick are |
| `Start`, `RetryFires`, `ServerAnswers`, `Acquired`, `Refused`, `AttemptThrows` | `tryAcquire` |
| `ErrorEvent`, `Heartbeat`, `HeartbeatFails` | `lose` and its three callers |
| `Shutdown`, `Drained`, `DrainTimesOut`, `Unlocked`, `Exit`, `Killed` | shutdown |
| `UnheardError` | a dead connection nobody listens to kills the process |

### TickLease (`tickLease.ts`, `serverless.ts`, `vercel.json`)

| TLA+ | code |
|---|---|
| `lease` | the row of `trading.job_lease` |
| `at`, `stmt` | where an invocation is in `withLease`, its statement under way with the time it sampled |
| `clock`, `skew`, `born` | real time, the container's clock, the start of the invocation |
| `...Sends`, `...Lands` | the two halves of every query |
| `Elapse`, `Kill` | time; the platform's deadline |

`Lost` stands for a statement that never arrives. A statement may land after
its invocation is dead. `renew` has no caller yet; it is modelled because the
class offers it, and the theorem therefore covers its use.

### AlertQueue (`queue.ts`, `alertDelivery.ts`)

| TLA+ | code |
|---|---|
| `ready`, `delayed`, `processing`, `claimed`, `dead` | the Redis keys; a job is its alert and its attempts |
| `pump` | where `deliverBatch` of a process is, with the job it claimed |
| `recovery` | where `recoverAbandoned` of a process is, with what it has read |
| `PumpReads`, `Promote`, `Claim`, `NoteClaim` | `claim()`: the delayed jobs, RPOPLPUSH, HSET |
| `PostAccepted`, `PostFails`, `PostTimesOut` | `deliver()` |
| `Complete...`, `Fail...`, `Retry` | `complete()`, `fail()`, one Redis command at a time |
| `ReadClaims` ... `RecoveryEnds` | `recoverAbandoned()`, which `start()` does not await before the pump |
| `ClaimAges`, `BackoffEnds` | the visibility timeout, `runAt` |
| `Stop`, `Crash` | `drain()`; death, also by the rejection of an unawaited `pump()` |

The lists are bags: with two workers no property depends on their order. The
delayed jobs are a set, as a sorted set is. `depth()` and `deadLetters()` only
read. An alert whose `enqueue` fails is not in the queue, since the sink ignores
the error; the model starts after it.

### RiskControls (`engine.ts`, `positionSizing.ts`, `money.ts`)

Operators only: `Evaluate` is `RiskEngine.evaluate` (reductions first, then the
controls that reject, then the caps that scale), `HaltBreached` the two limits
that also engage the kill switch, `SizePosition` the quantity a signal asks for,
`MulRate` the rounding of money, half away from zero. Rates are whole percentages
and a lot is one share; leverage and strategy allocations, which no caller
supplies, are left out. What a strategy's strength does to its size is in the free choice of
the distance to its stop.

### TradingPipeline (`tradingPipeline.ts`, `tradingService.ts`, `server.ts`)

| TLA+ | code |
|---|---|
| `mem` | mode, kill switch, day, opening equity, peak, approvals, known keys of one process |
| `book` | its portfolio: cash, position, last price |
| `loop` | where its tick is: idle, awaiting an order, squaring off, storing marks, storing the state captured |
| `sending` | orders the order manager took and has not sent: they wait for the rate limiter or a retry; the exit a flatten request has read |
| `control` | the kill-switch or mode request of an operator: memory changed, row written, not yet answered |
| `db` | `runtime_state`, the stored position, and the fill table, kept as its sum |
| `market`, `leader`, `working` | the latest candle, the lock, orders at the exchange and neither filled nor gone |
| `TickIdle`, `TickSignal`, `TickSent`, `StoreMarks`, `StoreState`, `StoreFails` | `onBar` and the snapshot after it |
| `TickOther` | `onBar` for another watched symbol, whose latest candle may be of any day |
| `SquareOff`, `SquaredOff` | the exit before the close, in every mode, past risk |
| `Reaches`, `Refused` | the attempts of `submit`: an order leaves, and the controls are not asked again |
| `Approve`, `Reject` | the two routes, with the second verdict |
| `Flatten`, `Flattens`, `FlattenRefused` | the flatten route: it reads the position, awaits the open rows, hands over the exit |
| `Ask`, `Commit`, `Answer`, `Fail` | `emergencyStop`, its release, `setMode`, from request to answer |
| `Boot`, `Lead`, `Crash` | `start()` with replay, marks and `restoreState`; leadership; death |
| `Adopt`, `Gone`, `Candle` | the reconciler folds a fill; an order ends at the exchange; a bar is ingested |

`halted`, `manual`, `settled`, `blocked` and `mixed` are history variables: what an
operator has been told, what a restart has to find, whether risk ever refused an exit,
and whether a tick went back to a candle of an earlier day.

One symbol is traded, by one strategy whose signals are free, on one commission-free
exchange; of the other symbols only the day of their latest candle matters, and what a
strategy signals on them is not followed. That the square-off comes once a day is the
mark of `TradingLedger`; here it may come at every tick.
Orders are filled whole, at any price of `Prices`. Whether the session is open and
whether the last minute had too many orders is free at every check. The breaker
for consecutive losses stays at zero and data is never stale, because production
code feeds neither: `TradingService.applyFill` has no caller, and no validator is
configured. APPROVAL and MANUAL are treated alike by the code. `Boot` includes its
snapshot, since nothing is served before it ends.

### KiteTicker, CandleTable, LiveFeed, Ingestion, MarketData (`kiteTicker.ts`, `liveFeed.ts`, `ohlc.ts`, `validation.ts`, `ingestion.ts`, `main.ts`, `postgres.ts`)

| TLA+ | code |
|---|---|
| `running`, `socket`, `retry`, `connected`, `watchdog`, `tokens` | the fields of `KiteTicker` |
| `sockets` | every socket ever opened that is not gone: its state, whether its listeners are on, what it was told to stream |
| `StartTicker`, `StopTicker`, `Subscribe`, `RetryFires`, `SocketOpens`, `SocketEnds`, `WatchdogFires` | the methods, timers and listeners |
| `Closed` | `stop()` asks an open socket to close and does not wait: it lingers, unheard |
| `Fails`, `Hangs`, `FallsSilent`, `LogOut` | the network (a connection that breaks, a handshake that is never answered), the server, the broker session |
| `open`, `last`, `good`, `pending`, `batch` | the aggregator's bar, the validator's reference, the bars that wait, the flush in flight |
| `Tick`, `FlushTimer`, `FlushLands`, `FlushFails`, `Start`, `Stop`, `Crash` | `onTick`, `tickFlush`, the two ends of the write, life |
| `owed` | history: ticks taken and not yet written |
| `candles` | the rows of one symbol, by where they come from |
| `watermark`, `pass` | the stored watermark, the `sync()` in flight |
| `Pump`, `ReadWatermark`, `Fetched`, `StoreBars`, `WriteWatermark`, `SyncFails` | one pass, call by call |
| `first`, `offered` | history: where the first pass began, what a pass was given in its final form |

A candle is told apart by its source and its ticks; its prices are the business
of `CandleSeries`. Prices of ticks matter to the validator only. The feed keeps
one aggregator and one validator per symbol that never meet, so one symbol
stands for all; the batch is one for all, and a batch Postgres refuses blocks
every symbol. A batch is refused for good when two of its rows have one key.

### BrokerSession (`kiteSession.ts`, `zerodhaBroker.ts`)

| TLA+ | code |
|---|---|
| `session`, `invalidated`, `row`, `writes` | the fields, the stored session, statements on it that have not landed |
| `Boot`, `Login`, `Invalidate`, `WriteLands`, `WriteFails` | `load`, the two logins and `adopt`, `invalidate` |
| `call`, `Send`, `Arrives`, `Answer`, `Return` | `ZerodhaBroker.call`: the request, the exchange, the answer as it is classed |
| `kite`, `issued` | the tokens Kite accepts, and those it handed out |

An answer is told apart by what `call` looks at: the token was rejected, the
order was refused, the rate was exceeded, the transport failed, the body cannot
be read, a 5xx, a 2xx without data (which the code takes for a refusal). The token bucket and the mapping of orders and fills are left
out; `KiteHistorical` models a bucket of the same kind.

### KiteHistorical (`kiteHistorical.ts`)

`fetch` is where each fetch is, `bucket` the rate limiter shared by all, `time`
the clock of both. A request covers a window of at most `Span`, is sent in whole
seconds, and its rows arrive in any order. A failing request fails its fetch; an
answer without data counts as a window without bars (`lacks` remembers which).

### Costs, PortfolioBooks, PaperBroker, Backtest (`costs.ts`, `portfolio.ts`, `paperBroker.ts`, `engine.ts`)

`Costs` and `PortfolioBooks` are operators: the charges of a trade, and a fill
entered into the books (cash, average price, realised profit, what a reversal
splits). `PaperBroker` has the resting orders, their fills and the broker's own
cash, and works every order at each price; `Backtest` adds the engine: `step` is
where in a bar it is, `pending` the order decided on the last close, `openRisk`
the stop. Rates are integers over `RateScale`, rounding is that of `money.ts`.
What a strategy signals, and what sizing and risk leave of it, is any of
`Signals`. Keys are used in the order the caller makes them; one symbol. The walk
through the resting orders (`AfterPrice`) and the sums over fills (`Sums`) are
recursive functions of a position, so that they can be proved about.
`PaperAssumption` asks of prices and quantities what `money.ts` and `submit`
check (whole, positive quantities and limits); `BacktestAssumption` asks of a
bar what `validation.ts:129-144` does before one reaches the engine (prices not
negative, high not below low).

### Migrator, AuditChain, ModelRegistry (`migrator.ts`, `log.ts`, `tradingService.ts`, `inference.ts`, `training.ts`, `postgres.ts`)

| TLA+ | code |
|---|---|
| `boot`, `holder`, `ledger`, `effects` | where each booting process is, the advisory lock, `schema_migration`, what the SQL did |
| `Lock` ... `Commit`, `Breaks` | `migrate()`, statement by statement; a death at any of them |
| `GivesUp`, `Cancelled` | the statement timeout of the pool ends the wait for the lock, or the SQL of a file |
| `log`, `made`, `flying`, `table` | the chain of each process, its records, their INSERTs under way, the table |
| `Resume`, `AppendRecord`, `InsertLands`, `InsertFails` | `resumeFrom(head())`, `append`, the write nobody awaits |
| `job`, `stored` | a training job's transaction with the live rows its UPDATE has seen (`seen`), the model rows |
| `records`, `liveKey` | the registry in memory |

A migration is its version and its text, and some texts fail. A hash stands for
the record it was computed from, so that a record names its predecessor, as in
a chain without collisions.

### Pure modules

| module | code | checked in |
|---|---|---|
| `TradingCalendar` | `calendar.ts`: IST dates, holidays, sessions, neighbouring trading days, the written list | `CalendarChecks` |
| `CandleSeries` | `ohlc.ts`, `validation.ts`, `corporateActions.ts`: candle faults, resampling, splits and dividends, gaps | `CalendarChecks` |
| `Indicators`, `Strategies` | `indicators.ts`, `strategy/*.ts`: every indicator but realised volatility, the decision of each strategy | `StrategyChecks` |
| `TickerFrame` | `kiteTicker.ts`: `parseTickerFrame`, `decodePacket`, ticks of a frame | `ReferenceChecks` |
| `BacktestReport` | `metrics.ts`, `walkForward.ts`: drawdown, losing runs, windows, the choice of parameters | `ReferenceChecks` |

They are operators without state. The check modules hold ASSUMEs that compare
them with a definition written another way (a window taken out of the series, an
interval's members, all pairs of points, a walk in the other direction), over
all inputs of a small size; TLC evaluates them when `Services` starts. Numbers
are exact fractions where the code has doubles, and a standard deviation is
compared through its square with its sign, since TLA+ has no roots.

### Modules for the checker

`MCOrderManager`, `MCTradingLedger`, `MCTradingPipelineScenarios`,
`MCMarketData`, `MCDatabase` and `MCServices` put several small instances into
one run: the variable `scenario` is chosen at the start and never changes, and
each scenario lets one part move. They restrict, and add no behaviour.
Two of the ledgers of `MCTradingLedger` are instances of `TradingLedgerProofs`, so
that `MCTradingLedgerProofs` can cite its lemmas for them.
`LeaderLock` is checked as it stands.

## 4. Runs

A run puts the models of one area side by side: its MC module has a variable
`scenario`, chosen at the start and never changed, that says which model moves
and with which bounds, so that scenarios add up and do not multiply. Every
passing run finishes within five minutes on two workers.
`CHECK_DEADLOCK FALSE` throughout: a bounded system stops when its bounds are
used up.

| run | states | scenarios | properties and what they show |
|---|---|---|---|
| `Oms` | 62 k | *production*: two intents, two callers, three broker ids, one restart, nobody calls `cancel`; *everything*: one intent with `cancel` and `reconcile` interleaved | `OneIntentOneOrder` in both; `ProductionParksLostAcks`, `ProductionRejectsUnplaced`, `ProductionNeverOverfills` and the refinement `ProductionImplementsLifecycle` in production; `SubmitTerminates` |
| `Ledger` | 440 k | *solo*: one process that crashes once and loses the lock, a bar decided on twice, square-off, failing `getFills`, rows and marks that are not written; *lease*: an operator and the loop of a warm container, failing database, lost rows; *pair*: two processes, promotion, approvals, failing database, lost rows and answers | `PortfolioIsLedger`, `SoloFillsReachPortfolio` and `SquareOffSellsOnce` (solo), `FillsCountOnce` (all) |
| `LeaderLock` | 124 k | one: two processes, two connections each, one loss, one signal | `OneLiveLeader`, `LockIsWatched`, `HandOverIsClean`, `LossIsNoticed`, `SomebodyLeads` |
| `Pipeline` | 328 k | *controls*: three control requests, one death, one bar, orders staged, taken and sent; *closing*: the square-off and the flatten route beside one control request; *account*: two days, two prices, a second symbol, failing writes, a position carried over, one order staged at a time, one death | `StopHolds`, `ModeHolds`; `BaselinesSurvive`, `ExitsNeverBlocked`, `RestartKeepsEquity`, `ExitsNeverFlip` |
| `MarketData` | 344 k | *socket*: three sockets and their troubles; *feed*: two sessions of ticks with failing writes and restarts; *ingest*: the same sessions for the ingestor; *session*: two calls across a token that expires and is renewed | `OneStream`, `KeepsWhatWorks`, `StreamsAgain`; `NothingDropped`; `RepairReaches`; `RetriedMeansNotPlaced`, `RejectionIsAnnounced` |
| `Database` | 1.41 M | *lease*: three invocations, every skew; *migrate*: two boots that wait or give up, four releases; *audit*: two writers; *models*: two training jobs; *registry*: promotions | `NoTwoWorkers`, `NeverBlockedLonger`; `MigratedOnce`; `AuditIsEvident`; `OneLiveModel` |
| `Services` | 676 k | *alerts*: two overlapping processes, each with pump and recovery; *paper*: an order of the paper broker, booked; *backtest*: a series through the engine; *history*: two fetches under the rate limit. The reference checks of the pure modules are assumptions of this run | `LostOnlyInTheGap`, `DeadMeansTried`, `OnceInQuietTimes`; `BooksBalance`, `HonestFills`; `HistoryIsWhole` |

Five further runs end in a counterexample: `OmsRestartDuplicate`,
`PipelineApproval`, `LiveFeedPoison`, `AuditFork` and `HistoryOverlap`;
section 5 explains them.

**Bounds of the first models.** `Keys`, `BrokerIds`, `Callers`: two intents and
one more broker id than intents, so that a duplicate has somewhere to go; two
callers, so that one can act while the other waits. `Quantity = 2` allows a
partial fill. `MaxRetries = 1` has a first and a last attempt. `MaxRestarts`,
`MaxCrashes`, `MaxLosses`, `MaxSignals` = 1: each hazard needs one failure, and
the proofs cover the others. `Slots = 2`: one connection for the lock, one for an
attempt while the other is being destroyed. `MaxAttempts = 1` (leader lock)
assumes that an attempt ends before the retry timer fires again (section 5).
`TTL = 3`, `MaxDuration = 1`, `Skew = 1` is the smallest instance with
`MaxDuration + Skew < TTL` in which a lease expires while clocks disagree;
deployed are 120 s and 60 s. `MaxClock = 6` is two leases. `MaxEvents = 2`
counts the starts, errors and late answers of the queue together: two processes
at once, one process and a restart, or one process and one failure.
`MaxAttempts = 2` (queue) has a retry and a last attempt, and the jobs of one
alert do not meet those of another. `MCLimits` are limits in which a few shares
at prices 2 and 3, bought with `OpeningCash = 10`, meet every cap and one bad
candle breaches the daily loss. `MaxBars = 2` (pipeline) lets an order staged on
one bar be approved on the next; `MaxDays = 2` rolls the day once, before or
after the death; `MaxOrders = 2` is an exit of
the square-off and one of the flatten route (the other two scenarios take one
order); `MaxRequests = 3` is a
stop, a release and a stop, or a mode changed there and back. An opening holding
of 2 gives a position to close, one of 0 starts flat. `Distances = {1}` and
`Sides = {"BUY"}` give one entry per bar; the proofs cover the rest.

**Bounds of the market data.** Three sockets: the current one, one that is let
go of but not gone, and its successor. Two instruments, so that a subscription
can be partly told. `MaxTrouble = 3`. `PerBar = 2` and `MaxTime = 7` with
`OpenTimes = {0, 1, 2, 3, 6, 7}`: four bars, two sessions, a bar that is not over
and a gap between the sessions. Prices 100 and 120: one a spike of the other at a
tenth. One failing write, two restarts (one in *feed*). `Lookback = 2` is shorter
than the gap, so that the watermark matters; one bad bar per answer, two failing
passes. In *session* one caller places orders and the other only reads, since
calls meet through the session only; two tokens, two days' clock, one fault.

**Bounds of the database.** Two boots and four releases, one with a file that was
edited after it was applied and one that cannot be run; two connections that
break. Two writers, four audit records and two lost writes: a record between two
others and one at the end. Two jobs and three models, two faults: a live model,
its successor and one that is archived.

**Bounds of the services.** Two keys and six shapes of order at prices 90, 98, 105
and 110, three prices per life: a limit or a stop that is crossed, skipped over
or left. Candles and signals of every kind in five bars. Two fetches over four
ranges, one of them longer than a window, four requests, waits up to 6, one
outage: a window is retried while the other fetch holds the bucket.

**Symmetry** is used where no liveness is checked: invocations in `Database`,
processes and fetches in `Services`.

**Fairness.** `OrderManager`: a caller that waits gets an answer, since the
connector has a timeout. `MCTradingLedger`, in *solo*: a process that died is restarted,
timers fire, awaited calls return; reconciliation keeps being due (an interval
timer) and an outage of `getFills` is not eternal. `LeaderLock`: timers fire,
the server answers, a dead connection is noticed by the *heartbeat*. `MarketData`:
`ConnectionFairness`, in which timers fire, a handshake that does not hang is answered,
a connection that is over ends, and an operator logs in (nothing ends a handshake
that hangs, and `StreamsAgain` excepts it); `FlushFairness`, in which the flush timer fires and a write ends one way
or the other; `SessionFairness`, in which a statement is answered or fails. No
fairness is assumed of the socket's error event of the leader lock, of the
exchange, of failures, or of crashes. The other runs have safety properties only.

## 5. Disagreements

Each is a run that TLC ends with a counterexample, and a finding in
`PROJECT.json` with the line it contradicts.

- `OmsRestartDuplicate`. The key registry lives in memory and is never loaded
  from the order table, so the same intent submitted after a restart is sent
  again. The README says the key is `UNIQUE` in Postgres "so duplicate
  prevention survives a process restart"; the row is inserted after the order
  was sent, and a failing insert is ignored.
- `LiveFeedPoison`. A bar put back after a failed write, and a second bar of the
  same moment built after `stop()` and `start()`, go into one statement that
  Postgres refuses however often it is sent, so no later bar of any symbol is
  written ("losing the batch on a transient database error would leave a permanent
  hole", `liveFeed.ts:258`).
- `AuditFork`. Every process resumes the audit chain from the same stored head;
  two of them number their records alike, and the primary key refuses those of
  the slower one, in silence ("A fresh chain would collide with the sequences
  already stored", `tradingService.ts:167`).
- `HistoryOverlap`. Consecutive windows are a millisecond apart "so consecutive
  chunks cannot both contain the boundary bar" (`kiteHistorical.ts:182`), and are
  then written in whole seconds: both contain it.
- `PipelineApproval`. `approve` asks risk again, since "the stale verdict must not
  be trusted", and looks only at yes or no: when the caps now leave less than
  was staged, risk answers yes with a smaller quantity and the staged one is
  sent. Two entries staged on two bars and approved one after the other exceed
  the cap (`SentWithinCaps`).

Seen while modelling, reproducible with the constants given, and not kept as
runs because they are variants of the above, contradict no written promise, or
concern code with no caller:

- The reconciler can see the fill of a manual exit before `persistOrder` has
  written the row: it is filed under the broker's id, and in the next pass again
  under the platform's, and counted twice (`NoFillCountedTwice`: one process,
  one click, no entries, one exit id, `Opening = 1`, `Deployment = "leader"`,
  `Features = {"flatten"}`, no crash).
- A follower replays the fill table when it starts and not when it is promoted.
  Fills adopted by the previous leader are in the table, so its own reconciler
  skips them: it trades on an old position (`PortfolioIsLedger`: two processes,
  one entry, one exit id, `Features = {"bar"}`, `MaxCrashes = 1`).
- Leadership is looked at when a tick starts; one that loses it later sends the
  rest of its orders (`QuietWhenLost`: two processes, one slot,
  `MaxLosses = 1`, `MaxSignals = 0`).
- A breach of a limit engages the kill switch in memory only. A restart on a
  recovered price, or on a new day, trades on without a release (`StopIsStored`:
  `MaxBars = 3`, `Prices = {2, 4}`, no requests).
- An order that the order manager took before a stop, or before a change to MANUAL,
  is sent after it was answered: it waits for the rate limiter
  (`zerodhaBroker.ts:212`) and for its retries (`oms.ts:200-241`), and nothing asks
  again, against "Blocks every risk-increasing order until manually released"
  (`tradingPipeline.ts:335`). `StopHolds` and `ModeHolds` are therefore about what is
  taken.
- In MANUAL, "signals are recorded, nothing is sent" (`domain/types.ts:195`), the
  square-off and the flatten route send exits, and approvals are served
  (`ModeHolds` names the three).
- The loop feeds the latest candle of each watched symbol, however old
  (`runner.ts:199-203`), and the day of the pipeline is that of the last one
  (`tradingPipeline.ts:357-362`). With candles of two days in one tick it goes back
  and forth, and each time the opening equity of the daily-loss limit is taken
  anew. `BaselinesSurvive` promises one opening equity per day only while that has
  not happened (`mixed`).
- The flatten route reads the position before it awaits the open rows
  (`server.ts:390`, `:400`): a fill adopted in between makes the exit too large or
  too small.
- Control requests that overlap write memory and the row in different orders, so
  after a restart the older request may win (`StopHolds`, `ModeHolds`: two
  operators, `MaxCrashes = 1`).
- A stop reaches the process that serves the request, not another one that leads
  (`StopHolds`: two processes). A promoted follower likewise trades on the
  baselines of its own start and stores them (`BaselinesSurvive`: two processes).
- An order that is working is not in the account, so two entries of successive
  bars may both be approved and together exceed the cap on one symbol
  (`CapsCoverWorking`: `MaxBars = 2`, no requests).
- Using up or refusing an approval changes memory only, until the next snapshot; after a
  crash it can be approved again. The check of `approve` then refuses what has
  become an opening order without a stop (`ExitsNeverFlip` holds), unless the
  order itself is still working.
- With `Features = {"flatten"}` and two operators under leadership, both manual
  exits find no working order before either has written its row, and both are
  sent (`NeverShort`). The leader lock does not serialise requests of one process.
- `cancel()` of an order whose submission is in flight closes it locally; the
  acknowledgement then fails to transition and `submit` throws, with the order
  live at the exchange (`OrderManager`, `Ops = {"cancel"}`: `AckFindsOrderPending`).
- `reconcile()` writes back the order it read before its await, over fills
  applied since, against the transition table (`Ops = {"reconcile"}`:
  `LegalTransitions`); and a fill it has counted through `filledQuantity` is
  counted again by `applyFill` (`NeverOverfilled`).
- An order parked as uncertain has no broker id, so no number of `reconcile()`
  calls resolves it (`UncertainIsResolved`).
- The order manager consults its memory only (`oms.ts:164`): with `"again"` and one
  crash the intent is sent again, and its row, closed or not, is overwritten with
  the new broker id. The earlier fill is not counted again as long as the
  strategy decides on a flat position and nobody closes it by hand; with
  `{"bar", "flatten", "again"}` and three broker ids it is, because after the manual
  exit the earlier fill no longer finds its row (`NoFillCountedTwice`, under either
  deployment).
- A living process that loses the lock goes on with its tick. With two processes and
  `{"bar", "loss"}` the row of the one is then written while the reconciler of the
  other files the fill, which is counted twice (`NoFillCountedTwice`).
- With `"lostAnswer"`, a fill whose `append` was committed but not answered is
  stored and never folded until the next restart (`PortfolioIsLedger`).
- Orders reach the exchange before, or without, a row: the row follows the
  answer, and the approve route writes none (`RecordedBeforeSent`).
- `persistOrder` swallows an insert that fails (`tradingService.ts:333`), and one that
  throws leaves no row either: the next manual exit finds no working order, and
  position and exit are still unfilled, so it is sent a second time, against the
  comment at `server.ts:395` (`NeverShort`: one process, one click, two exit ids,
  `Opening = 1`, `Deployment = "lease"`, `Features = {"flatten", "lostWrite"}`).
- The day is marked as squared off in memory before the mark is written. When that
  write throws, the tick ends in its error handler, and this process does not
  square off again that day (`runner.ts:214`, `MarkThrows`).
- With `"outage"` and `"flatten"`, a pass marks the row FILLED, cannot fetch the
  fill, and the next manual exit is let through (`NeverShort`).
- With `"squareOff"` and `"flatten"`, the square-off does not ask whether an
  order is working, so it sells what a manual exit is selling, lease or not
  (`NeverShort`).
- `LeaderLock` with one process, two slots, `MaxAttempts = 2`, `MaxLosses = 2`:
  the retry timer has no in-flight guard, connecting (5 s) and the statement
  (15 s) may outlast its interval (15 s), and a late grant of a dead session
  replaces the live client. The orphaned session of the process itself then
  holds the lock and nobody leads (`SomebodyLeads`, `LockIsWatched`).
- An attempt in flight when `release()` is called completes afterwards:
  `StoppedNeverLeads` fails, and `pool.end()` waits for its connection until the
  orchestrator kills the process.
- `AlertQueue`: `NeverLost` fails. `fail()` and `recoverAbandoned()` take a job
  out of the processing list, then put it elsewhere: a death in between loses
  it, against "a crash mid-job does not lose it" (`queue.ts:16`). A Redis error
  at that place in `fail()` is such a death, as its rejection is not handled.
- Recovery runs once, at start, and leaves claims younger than a minute alone: a
  job whose worker died just before waits for some later start. Recovery also
  runs beside the pump of its own process and can hand out again a job that the
  pump has claimed and not yet stamped.
- `KiteTicker`: connecting has no timeout and the watchdog starts when a socket opens,
  so one that hangs while connecting is never ended by the code and the feed stays
  down until `stop()` (`kiteTicker.ts:307-345`, `Hangs`); `stop()` in that state removes
  the listener of the error its termination raises; an open socket is asked to
  close by `stop()` and not waited for, so it may outlive the next `start()`.
- `ZerodhaBroker`: a POST answered 2xx without data is a `BrokerError` that may not be
  retried (`zerodhaBroker.ts:283`), and the order manager then shows the order as
  REJECTED (`oms.ts:244`) though it may be at the exchange. `BrokerSession` has the
  answer and promises nothing of it; `OrderManager` takes a refusal of the
  broker to be one, which is what `RejectedMeansNotPlaced` rests on.
- `ZerodhaBroker`: the timeout is cleared before the body is read (`:237`); the
  bucket lets about twice its rate through in one second; a POST without a token
  counts as uncertain although nothing was sent; `findByTag`, which the comment at
  `:314` relies on, has no caller.
- `KiteSession`: a rejection of the old token that arrives after a login
  invalidates the new session (`:239`), and the two writes may land in either
  order; a failing write in `invalidate` ends the process, since nobody catches
  it, before the alert; no alert is raised for the predicted daily expiry.
- `KiteHistorical`: the list of instruments is cached for ever (`:228`); a 2xx without
  data counts as a window without bars (`:365`), and the fetch succeeds with a hole
  (`HistoryIsWhole` excepts such windows).
- `LiveFeed`: bars closed by `stop()` during a running flush wait for a flush that
  may never come (`liveFeed.ts:243`); a late tick after the flush at the session's
  end opens a bar that overwrites the full one; a stop and a start within a bar
  store part of it; the validator's reference is never reset. Ingestion repairs
  these, except a live write that lands after the last settled one.
- `Ingestion`: a bar that was rejected is not asked for again once it is older than
  the lookback; before the first watermark a gap is the backfill's; shutdown does
  not await a pass.
- `AuditChain`: what is lost at the end of the chain leaves no trace (`LossShows` is
  about records below a stored one), and every follower that boots forks it.
- `Migrator`: "the second waits, then finds nothing to do" (`migrator.ts:16`) holds for
  waits up to the statement timeout of the pool, 15 s by default
  (`postgres.ts:151`); after that `pg_advisory_lock` is cancelled and the boot fails.
  The same timeout cuts off the SQL of a long migration (`GivesUp`, `Cancelled`).
- `ModelRegistry`: registering the live model again replaces its metrics and
  clears its flag; saving a live version leaves it promoted with new weights;
  the drift monitor keeps the old baseline. The registry is not wired into the
  trading process.
- `serverless.ts`: the cached assembly is a promise, and a rejected one stays
  cached; a login served by one container is not seen by another.
- `Backtest`: the engine passes no volume, so the participation cap of the paper
  broker (`paperBroker.ts:14`) never applies, and the cap is of each order; an
  immediate-or-cancel order that was filled in part stays `PARTIALLY_FILLED`; the
  profit of a trade leaves out the commission of its opening fills (`GainsAddUp` says
  by how much); a stop is filled at the extreme of the bar; the combined curve of
  a walk-forward restarts at the opening cash in every fold; a test window shorter
  than the warm-up trades nothing.
- `CandleSeries`: a dividend before a split is measured against a close that was
  already divided, while its amount is not (`DividendsScale` states the result).
- `TradingCalendar`: `minutesToClose` is positive before the open, against "0
  outside a session" (`strategy/types.ts:32`); the search for the next trading day
  ignores which years are covered; a 30 February is accepted and closes nothing.
- `Strategies`: a mean-reversion entry at one and a half times its entry score is
  "extended" at once and closed on the next bar (`EntriesOutliveTheirBar`); the RSI of a flat
  series is 100; an EMA depends on how much history was loaded.

## 6. Proofs

| theorem | says | from |
|---|---|---|
| `OrderManagerProofs!TypeCorrect` | `TypeOK` | the module's assumptions |
| `OrderManagerProofs!OneOrderPerIntent` | `OneIntentOneOrder` | `OneRequestPerIntent` |
| `OrderManagerProofs!LostAcksAreParked` | `LostAckIsParked`, and so `ProductionParksLostAcks` | `ProductionInv`, callers that only submit |
| `OrderManagerProofs!RejectedIsNowhere` | `RejectedMeansNotPlaced`, and so `ProductionRejectsUnplaced` | the same |
| `OrderManagerProofs!FillsAreCountedOnce` | `NeverOverfilled`, and so `ProductionNeverOverfills` | the same, and `FillsApart` |
| `OrderManagerProofs!ImplementsIntentLifecycle` | `ImplementsLifecycle`, and so `ProductionImplementsLifecycle` | the same |
| `TradingLedgerProofs!PortfolioFollowsLedger` | `PortfolioIsLedger` | one process, no lost answers |
| `TradingLedgerProofs!FillsOnce` | `NoFillCountedTwice` | `FillsInv`, `InTurns` |
| `MCTradingLedgerProofs!RunCountsOnce` | `FillsCountOnce` | the same, in each scenario |
| `TradingLedgerProofs!NobodySellsTwice` | `NeverShort` | `FillsInv`, `Sold`; `InTurns`, no manual exits |
| `MCTradingLedgerProofs!RunSellsOnce` | `SquareOffSellsOnce` | the same, in the scenario *solo* |
| `LeaderLockProofs!BeliefGrounded` | `BeliefIsGrounded` | `Grounded` |
| `LeaderLockProofs!NeverTwoLiveLeaders` | `OneLiveLeader` | the same |
| `LeaderLockProofs!HandsOverClean` | `HandOverIsClean` | `Grounded`, `Smooth` |
| `LeaderLockProofs!LockHasAWatcher` | `LockIsWatched` | `Watched`, `MaxAttempts <= 1` |
| `DatabaseProofs!TypeCorrect` | `TypeOK` of `TickLease` | the module's assumptions |
| `DatabaseProofs!OneAtATime` | `NoTwoWorkers` | `LeaseOutlastsWork` |
| `DatabaseProofs!BlockedForTTL` | `NeverBlockedLonger` | the module's assumptions |
| `ServicesProofs!TypeCorrect` | `TypeOK` | the module's assumptions |
| `ServicesProofs!AtLeastOnce` | `LostOnlyInTheGap` | the places of a job |
| `ServicesProofs!GivenUpAfterAll` | `DeadMeansTried` | `Tried` |
| `ServicesProofs!TakenOnce` | `OnceInQuietTimes` | `QuietInv` |
| `ServicesProofs!BooksAlwaysBalance` | `BooksBalance` of `PaperBroker` | `PaperSound` |
| `ServicesProofs!LimitsAlwaysKept` | no order with a limit is filled worse than the limit | the same |
| `ServicesProofs!BacktestIsHonest` | `HonestFills` | `EngineInv` |
| `ServicesProofs!BacktestBalances` | `BooksBalance` of the books a backtest keeps | the same |
| `TradingPipelineProofs!TypeCorrect` | `TypeOK` | the module's assumptions |
| `TradingPipelineProofs!ApprovedFits` | what `Evaluate` approves passed every control and fits every cap, or only reduces | arithmetic |
| `TradingPipelineProofs!ExitsPass` | `ExitsNeverBlocked` | `TypeOK` |
| `TradingPipelineProofs!StopsHold` | `StopHolds` | `ControlInv`, `Alone` |
| `TradingPipelineProofs!ModesHold` | `ModeHolds` | the same |
| `TradingPipelineProofs!BaselinesOutlive` | `BaselinesSurvive` | `BaseInv`, `Alone` |
| `TradingPipelineProofs!ExitsReduce` | `ExitsNeverFlip` | `TypeOK`, a required stop |
| `TradingPipelineProofs!RestartFindsEquity` | `RestartKeepsEquity` | `RestartInv`, one process |
| `MarketDataProofs!StreamsOnce` | `OneStream` | itself, with the types |
| `MarketDataProofs!WorkingIsKept` | `KeepsWhatWorks` | the same |
| `MarketDataProofs!TicksSurvive` | `NothingDropped` | `FeedInv` |
| `MarketDataProofs!MissedIsAskedFor` | `RepairReaches` | `IngestInv` |
| `MarketDataProofs!RetryIsSafe` | `RetriedMeansNotPlaced` | `SessionInv` |
| `MarketDataProofs!HistoryIsComplete` | `HistoryIsWhole` | `HistoryInv` |
| `DatabaseProofs!OneModelIsLive` | `OneLiveModel` | `ModelInv` |
| `DatabaseProofs!EachMigrationOnce` | `MigratedOnce` | `MigratorInv` |
| `DatabaseProofs!LossIsEvident` | `AuditIsEvident` | `ChainInv` |

*One order per intent.* "At most one order at the exchange" is not inductive: a
second one may be under way. `OneRequestPerIntent` counts the tokens of an
intent in this life of the process (a request in a caller's hands, one on the
wire, one order at the exchange) and says there is at most one, and none unless
the key is registered. Every action moves a token, destroys one, or, in
`Submit`, creates the first.

*Production parks, refuses and counts.* These hold while callers only submit
(`Ops = {}`; section 5 shows what `cancel` and `reconcile` do to them), which
`SubmitsOnly` says of the calls in flight, through any number of restarts.
`Awaited` is the heart: whatever a caller still
asks for, or the wire still carries, is shown as pending, so a refusal cannot
overtake a request of the same intent. For the fills, a fill stands for the lots
it covers; fills of one order are disjoint (`FillsApart`), so the quantity shown
is at most the size of a set of lots the exchange filled.

*The order manager implements `IntentLifecycle`.* Under the mapping, a step of
production stages, places, declines or advances one intent, forgets them all, or
is not seen (`SeenFromAbove`). That a late request finds its intent still pending
is `Awaited` again, and that it is the first is `OneRequestPerIntent`. The
mapping's values are functions over the keys; the last lemma turns each of these
steps into one of the abstract actions.

*Portfolio follows the ledger.* The strengthening `Whole` says it of every running
process, leader or not: between `append` and `fold` the row its loop holds is
stored and not yet folded, everywhere else the two sets are equal, and only a
running process is in the middle of anything. A request touches neither set. The assumptions are the two that the promotion and
the lost answer of section 5 show to be needed.

*Fills counted once.* The reconciler files a fill under the platform's id if the
order table names its broker id, and under the broker id otherwise; it is counted
twice when that answer changes. `OnceInv` says why it does not: whoever sends an
order that will get a row is the only one doing so and keeps the loop from running
(`Turns`), so no broker id is on its way to a row while a reconciler looks
(`FiledOnce`), and what a reconciler read is still true when it writes (`Holding`).
Rows that are never written change no answer, and a request that the exchange
accepts late has the id its order was sent under. An approved order may be sent
beside all this, since it never gets a row. A bar that is decided on again after a
restart overwrites a row, with nothing to lose by it: until the square-off every order
buys (`Entered`) and the portfolio is the fill table (`Settled`, which is `Whole`
again), so that the flat position the strategy saw means that no fill is stored.
`FillsInv` is the three together. The hypothesis `InTurns`: under
leadership there are no manual exits (under the lease they wait for their turn);
where a living leader may lose the lock there is one process; where a strategy may
decide twice on a bar there is one process without manual exits whose database
answers what it commits. Section 5 has the counterexamples. The run's three scenarios
satisfy it, and `MCTradingLedgerProofs` states the result for their specification,
two of whose ledgers are instances of the theorem.

*Nobody sells twice.* `Sold` compares sums: what an exit sells is covered (`Covers`) by
the opening holding and the buys that were filled (`Held`), from the moment the
position is read, through the mark of the day, to the exchange; and there is at most
one exit that can trade, because the day's mark, stored or in memory, is set before
it is sent and lets no second one out, whatever happens to the processes, the lock,
the broker, the rows and the mark's own write. Buys that are filled later only add
to what is held. Manual exits have no such argument: the route learns of what is
being sold from the order rows, which need not be there (section 5), so the theorem
is about a system without them. Sums over finite sets are the community modules'
`SumFunctionOnSet`; the lemmas of `TradingLedgerProofs` say of it that the empty sum
is zero and that one element more adds its number. They use the least-subset
principle where one would expect an induction.

*One live leader.* `Grounded` adds to `BeliefIsGrounded` what the uses of a
connection say about the server: a session whose owner was told it has the lock
(granted, in use for it, or being unlocked) holds it for as long as it lives, and
the client of a process is such a session of its own. It needs no bound on
overlapping attempts, so safety survives even where liveness does not.

*A clean hand-over, a watched lock.* `Smooth`: while no connection was lost, what
is in use is alive, and unless a drain gave up, a tick in flight belongs to a
process that leads, of which there is one. `Watched` adds that the server's
holder was told so and that a connection kept for the lock is its process's
client. It needs an attempt to be over before the next one starts: with two in
flight a late grant replaces the client, the counterexample of section 5.

*One at a time.* `TakenInTurns`: the lease of whoever works is its own and
expires no earlier than a full ttl after its start by its own clock, while the
platform ends it after `MaxDuration` at the latest. Since `MaxDuration + Skew < TTL` no other
clock reaches the expiry before. Late releases are harmless because they name
their owner, late acquisitions because they can only write what their sender
would have held.

*At least once.* An alert is `Kept` when it was accepted, is listed, or is in the
hands of a live process. The invariant adds what each place of the pump and of
recovery knows of its job (it has one; a job being completed was accepted;
whoever stopped holds none), and the proof says for each action where the alert
it removes from a list is next: in another list, in a hand, or with the webhook.

*Tried, and taken once.* A job carries its number of attempts, and `Tried` says of
every copy of it, in a list, in a hand or in what recovery has read, that the
webhook was called at least as often; after a call, once more. Copies that the
gap between two commands makes count their attempts apart, so what reaches the
dead letters made all of its own. For quiet times (one process, started once, no
error) `OnePlace` says that an alert is in one of the places it can be delivered
from, and in none once it was delivered. Alerts that recovery took are excepted,
as in the property.

*The books balance.* A fill changes the value of an account at cost price (`AtCost`:
cash and position at the average, less the profit realised) by its commission and
by the rounding of the average, at most half a unit per share, or not at all
when it reduces. `Sound` says that the two cash accounts agree, that the value
at cost is the opening cash less commissions up to that rounding, that the fills
of each order add up to what it shows as filled, at most its size, and that a
fill is within its order's limit. A price is a walk through the orders, and each
order worked keeps `Sound`. The walk and the sums are recursive functions.
The provers cannot be handed an induction principle, so that
such a function exists and has its values at every position is shown upwards
from zero, by the least counterexample, which the library's well-founded order
provides (`UpwardsFromZero`).

*A backtest is honest.* `EngineInv` adds where the engine is in its bar: no order
rests between two steps, so that the open can only fill what was decided on the
last close, and an extreme only the stop that was just submitted. `Walked` is
needed for the second extreme: the walk visits the one against the position first,
and a position still held at the second has its stop beyond the first. Every
order of the engine is an immediate market order, and the engine passes no
volume, so the participation cap leaves none of it unfilled.

*Approved fits.* The number of shares a cap leaves, times the reference price, is
at most the cap, and the approved quantity is the least of those numbers. The
prices and limits are arbitrary.

*Stops and modes hold.* A stop that was answered is a fact about the past;
`ControlInv` says where it lives now: while the request is under way in memory, once
its write is committed also in the row, and once answered in both, with no
release under way. A restart reads the row, a breach can only engage the stop,
and with the stop engaged `Evaluate` approves nothing but reductions. The exits of the
square-off and of the flatten route are taken without being asked about, and what was
taken before is sent: neither is said to be stopped (section 5). `Alone`
(one process, one control request at a time) is needed, as the counterexamples of section 5 with two
processes and two operators show.

*Baselines outlive.* The baselines are in three places: stored, captured and about
to be stored, and in memory. `BaseInv` says that each `Follows` the one before: a
later day, or the same day with the same opening equity, and no lower peak, as long
as no tick went back to a candle of an earlier day (`mixed`); the peak never falls in
either case, and a start leaves day and opening equity as they were stored. Every
action moves one of them forward to the next.

*Exits that waited.* An order without a stop that risk lets pass can only reduce
the position it is checked against, and both places that submit one check it
against the position of that moment. The hypothesis is the code's default
(`requireStopLoss`, `risk/types.ts:98`), which nothing under `src/src` overrides.

*What a restart finds.* `settled` is the equity last stored, forgotten when a fill
arrives. `RestartInv` says that the tables replay to it, that the books of the
running process are those of the tables, and that a position always has a price
(of its fill, if no mark was stored yet). Every action that writes one table
writes what is already in memory. A second process would store marks of its own.

*One stream.* `OneStream` is inductive once the types are known. A socket whose
events are still heard, or that is opening or open, is the current one, because
every path that replaces it first lets go of it, which silences it. So a close or
an error of an earlier socket changes nothing, which is also why nothing but
`stop()` and its own trouble takes down a connection that delivers. A step of
`MarketData` is a step of the ticker or leaves it alone, so that what is proved
of the ticker holds in the composition.

*No tick dropped.* A tick that is owed is in the open bar, in the batch of the flush
in flight, or in a pending bar. Each action moves bars from one place to the
next: a tick closes the open bar into the pending ones, a flush takes those as
its batch, and a write that fails puts the batch back in front.

*Missed bars are asked for.* The strengthening says that no bar since the first
watermark that is still missing begins before the watermark. A pass moves the
watermark to the last bar it was given; what the answer lacks is not over yet,
and therefore later. That an answer has a last bar is the minimum of a
well-founded order, which the library proves without induction over data.

*Sent again means not placed.* `CallHolds`: a call has a result only once it is over;
a result that says "send again" comes from an answer Kite gives before it takes an
order, or to a request that carries none. A refusal promises nothing, since an
answer without data is one. Tokens lapse and
are replaced without touching it.

*A fetch is whole.* `Covers` says of a fetch with `n` windows answered that it has
every bar of its range before the start of window `n + 1`, but for windows that were
answered without data, and none from outside;
the last window reaches past the end of the range (an argument on quotients). A
window asks in whole seconds, rounded down, and loses nothing by it because bars
stand on whole seconds: the assumption `BarSize % Second = 0` is needed, as are
windows one millisecond apart. Sorting is stated by rank (the bar in place `i` is
the least that `i` bars do not exceed), so that it needs no recursion; the
least-element principle gives its result. For the rate, `Backed` adds up that the
requests since any earlier one, and the tokens left, are at most a full bucket and
what has flowed in since; two full buckets per second follow.

*One live model.* Between flagging its row and the commit a promotion has every
live row in its hands, and only one promotion is as far, since the unique index
makes the other wait or refuses it. So the commit leaves one live row.

*Each migration once.* Whoever is between reading the ledger and giving back the
lock holds it. What it read and what it applied is then all the ledger holds, so
the row it is about to commit conflicts with none; a commit whose answer is lost
is found in the ledger by the next process. Whoever gives up waiting for the lock has
read nothing, and SQL that is cut off is rolled back.

*Loss is evident.* `Chained`: each record names the one its process made before it in
the same life. The first stored record above a missing one of its process would
have to name a stored record, and names the missing one instead. For one process
that loses nothing, sequence numbers and order of making agree, and each stored
record names its neighbour.

Model-checked only:

- The liveness properties (`SubmitTerminates`, `SoloFillsReachPortfolio`,
  `LossIsNoticed`, `SomebodyLeads`, `StreamsAgain`, `RejectionIsAnnounced`):
  liveness under fairness and ENABLED are out of the prover's reach.
- The reference checks of the pure modules, over bounded inputs: inductions over
  a series.

## 7. Limits

- Prices and money are modelled in `TradingPipeline`, without commission, and in
  `PaperBroker`, with it; fills of one order are taken to be distinguishable.
- The ledger, the feed, the paper broker and the backtest have one symbol, and the
  pipeline trades one; in the ledger and the pipeline orders are filled whole.
- The ledger has no exits of a strategy, and nothing is shown of manual exits but
  that their fills count once.
- The 24-hour window of `getFills` is not modelled: a fill older than that is
  never adopted by the code.
- The pure modules compute with exact fractions and TLC's 32-bit integers: that
  the doubles of the code are precise enough, and what an overflow of paise would
  do, is not shown.
- The audit chain's hash is taken to be injective; the contents of records,
  candles and models are left out.

**Not modelled.** The options module, the AI numerics (training, features, drift
statistics, inference), the Sharpe, Sortino and growth ratios of the backtest, and
realised volatility rest on logarithms, roots and doubles, where neither TLC nor
the prover can say anything; where one of them decides something, the decision is
a nondeterministic choice. Metrics, logging and alert texts carry no state the
system reads back. The CSV provider parses a file. Packaging, web pages, scripts,
the browser build, authentication and CORS hold no trading state.
